------------------------------ MODULE MCTools ------------------------------
(* What a user of the tools sees, on small instances: the batches of       *)
(* mutate_nodes, unpacked projects, the Logs view, saved components and    *)
(* projects, the bridge in a packed project, the installation, how a call  *)
(* is routed and answered, the compact view of an output, scripts that run *)
(* inside TouchDesigner, parameter interfaces, exact samples and           *)
(* comparisons.  part says which of them this behaviour is about; the      *)
(* others stay where they start.                                           *)
EXTENDS EditTools, ProjectUnpack, LogTrail, ProjectSnapshot, BridgeInstall,
        Installation, ToolRouting, OutputViews, ExactSamples, Comparisons, TLC

CONSTANTS o1, o2, o3, p1, p2, g1, g2, i1, i2, x1, x2, pd, pt, m1, v1, v2, v3, n1, n2, h, s1, k1, q1, q2

VARIABLE part

\* A batch names two operators and one inside the first, which may be there already.
TwoAndOneInside == {<<o1>>, <<o2>>, <<o1, o2>>}
SomeScenes == {{}, {<<o2>>}, {<<o1>>, <<o1, o2>>}}

\* Two calls of project_unpack on one pair of destinations, the second of which may
\* have to find it free.
MayReplace == {(x1 :> "replace") @@ (x2 :> o) : o \in {"replace", "fail"}}
PriorPair == ("dir" :> pd) @@ ("toc" :> pt)

\* Two installs of the bridge, both forced or neither, each with or without a backup, into
\* projects with none, one or two COMPs that may be a bridge.
BothWays ==
    {w \in [Installs -> [force : BOOLEAN, backup : BOOLEAN]] :
       \A i, j \in Installs : w[i].force = w[j].force}
Comp(name, node, dat) ==
    [canonical |-> name, node |-> node, dats |-> [d \in BridgeDats |-> dat]]
SomeProjects ==
    [work : {1}, host : BOOLEAN,
     comps : {{}, {Comp(FALSE, TRUE, "foreign")},
              {Comp(TRUE, TRUE, "marked"), Comp(FALSE, TRUE, "foreign")},
              {Comp(FALSE, TRUE, "current")}, {Comp(FALSE, FALSE, "marked")},
              {Comp(FALSE, TRUE, "current"), Comp(TRUE, TRUE, "current")}}]

\* A daemon or a forced install of build v2, beside an install of v3, a later version, or
\* of v2 from its own place.
Run(build, force, binary, inPlace) ==
    [build |-> build, force |-> force, binary |-> binary, inPlace |-> inPlace]
SomeCommands ==
    {(n1 :> x) @@ (n2 :> y) :
       x \in {Run(v2, FALSE, FALSE, FALSE), Run(v2, TRUE, TRUE, FALSE)},
       y \in {Run(v3, FALSE, TRUE, FALSE), Run(v2, FALSE, TRUE, TRUE)}}
VersionsOf == (v1 :> 1) @@ (v2 :> 1) @@ (v3 :> 2)
TemplatesOf == (v1 :> v1) @@ (v2 :> v1) @@ (v3 :> v3)

\* One session with a batch and an inspect, here or on the slave.  The other tools differ
\* from these two in what Come refuses and in the mapping.
SessionOf == [call \in {q1, q2} |-> k1]
BatchAndInspect == (q1 :> {MutateNodes}) @@ (q2 :> {Inspect})
NamedOrNot == (q1 :> {None}) @@ (q2 :> {None, s1})
PlainReplies == {[ok |-> TRUE, code |-> "none"], [ok |-> FALSE, code |-> "own"]}

ASSUME EveryMappingAnswers ==
    \A tool \in BridgedTools, env \in Envelopes :
        /\ Mapped(tool, env) \in AnswerSet
        /\ Mapped(tool, env).kind = "ok" <=> env.ok

\* Outputs of rows and arrays as the tools return them, alone, side by side and inside
\* each other.
Named(s) == Obj("name" :> Str(s))
Parameter(s, f) == Obj(("name" :> Str(s)) @@ f)
Constant == "mode" :> Str("CONSTANT")
Evaluated == "evaluation" :> Available
Roster(s) == Obj("members" :> Arr(s))
Rosters == {Roster(<<Str("x"), Str("y"), Str("x"), Str("y")>>), Roster(<<Str("x")>>),
            Roster(<<Str("y"), Str("x")>>)}
Rows == {Named("x"), Named("y"), Parameter("x", Constant),
         Parameter("y", Constant @@ Evaluated),
         Parameter("x", "mode" :> Str("EXPRESSION")), Parameter("x", Evaluated), Atom(1)}
        \cup Rosters
Arrays == {Arr(s) : s \in (Rows \X Rows)} \cup {Arr(<<row>>) : row \in Rows}
Menus == {Arr(<<Named("x"), Named("y")>>),
          Arr(<<Parameter("x", Constant), Parameter("y", Constant)>>)}
SomeDocuments ==
    {Obj(("a" :> x) @@ ("b" :> Arr(<<y, y>>))) : x \in Arrays, y \in Rows}
      \cup {Obj("__proto__" :> x) : x \in Arrays} \cup Arrays
      \cup {Arr(<<Parameter("x", Constant @@ ("menu" :> x)), Parameter("y", Constant)>>) :
              x \in Menus}
      \cup {Obj(("a" :> x) @@ ("b" :> y) @@ ("c" :> z)) : x, y, z \in Rosters \cup Menus}

\* Menus without items, with as many as a definition may have and with more.
SomeItems == {<<>>, <<i1>>, <<i1, i2>>}
EmptyMenu == <<>>
Def(n, p, t, items) == [name |-> n, page |-> p, type |-> t, items |-> items]
SomePanels ==
    {<<Def(g1, p1, "menu", <<i1>>), Def(g1, p2, "float", None)>>,
     <<None, Def(g2, p1, "other", None), Def(g1, p1, "menu", None)>>,
     <<Def(g1, p1, "float", None), Def(g2, p1, "menu", <<i1, i2>>)>>}

\* Images of three columns and two rows with one channel, of two pixels with two, and
\* none; channels of one to three samples; points that can be read or not.
Scalars == {0, 2, NaN, Inf}
Images == {<<<<<<0>>, <<x>>, <<2>>>>, <<<<y>>, <<1>>, <<z>>>>>> : x, y, z \in Scalars}
            \cup {<<<<<<x, 1>>, <<y, 2>>>>>> : x, y \in Scalars} \cup {<<>>}
TopOf(now, after) == [family |-> "TOP", now |-> now, next |-> after, layout |-> None]
ReadAs(kind, force) == [kind |-> kind, force |-> force]
PixelsAt(pts, force) == [kind |-> "pixels", spots |-> pts, force |-> force]
RegionAt(x, y, xx, yy) ==
    [kind |-> "region", region |-> [x |-> x, y |-> y, x1 |-> xx, y1 |-> yy], force |-> FALSE]
Regions == {RegionAt(x, y, xx, yy) : x \in {-1, 0, 1}, y \in {0, 1}, xx \in 1 .. 4, yy \in 0 .. 2}
PixelLists == {<<>>, <<<<0, 0>>, <<2, 1>>>>, <<<<1, 0>>, <<0, 1>>>>, <<<<3, 0>>, <<1, 1>>>>,
               <<<<0, 0>>, <<0, 0>>, <<0, 0>>>>}
Cooked == {<<<<<<0>>, <<2>>>>>>, <<<<<<NaN>>, <<1>>>>>>, <<>>}
TopReads ==
    {<<TopOf(now, now), r>> : now \in Images,
        r \in Regions \cup {PixelsAt(pts, FALSE) : pts \in PixelLists} \cup {ReadAs("summary", FALSE)}}
      \cup {<<TopOf(now, after), r>> : now, after \in Cooked,
              r \in {ReadAs("summary", TRUE), PixelsAt(<<<<1, 0>>>>, TRUE)}}
Chops == {<<<<x, y, 1>>>> : x, y \in Scalars} \cup {<<<<x, 1>>, <<y, 2>>>> : x, y \in Scalars}
           \cup {<<<<0>>, <<1>>, <<x>>>> : x \in Scalars}
           \cup {<<<<0, 1, 2>>, <<2, 1, NaN>>>>, <<>>}
CookedChops == {<<>>, <<<<0>>>>, <<<<1, NaN>>>>, <<<<2>>, <<0>>>>, <<<<0, 1, 2>>, <<2, 1, NaN>>>>,
                <<<<0, 1>>, <<1, 2>>, <<2, Inf>>>>, <<<<0, 1, 2, 3, 4, 5>>>>}
ChopReads ==
    {<<[family |-> "CHOP", now |-> chop, next |-> chop, layout |-> l], ReadAs(kind, FALSE)>> :
        chop \in Chops, l \in {"channels", "samples"}, kind \in {"samples", "numpy"}}
      \cup {<<[family |-> "CHOP", now |-> now, next |-> after, layout |-> l], ReadAs(kind, TRUE)>> :
              now, after \in CookedChops, l \in {"channels", "samples"}, kind \in {"samples", "numpy"}}
Points == {None} \cup {<<x, 1, 2>> : x \in Scalars}
Sops == {<<>>} \cup {<<x>> : x \in Points} \cup {<<x, y>> : x, y \in Points}
SopReads ==
    {<<[family |-> "SOP", now |-> sop, next |-> sop, layout |-> None], r>> : sop \in Sops,
        r \in {[kind |-> "point", index |-> i, force |-> FALSE] : i \in {None, -1, 0, 1, 2}}
                \cup {[kind |-> "points", spots |-> pts, force |-> TRUE] :
                        pts \in {<<0, 1>>, <<1, None, 0>>, <<1>>}}
                \cup {PixelsAt(<<>>, TRUE), ReadAs("summary", FALSE)}}
NoSample == <<[family |-> "DAT", now |-> <<>>, next |-> <<>>, layout |-> None],
              ReadAs("summary", FALSE)>>
SomeSamples == [TOP |-> TopReads, CHOP |-> ChopReads, SOP |-> SopReads, DAT |-> {NoSample}]

\* null, false, 0, "", NaN and something JSON has no form for.
Value(type) == [type |-> type, v |-> 0]
SixValues == {Value(type) : type \in {"null", "bool", "num", "str", "nan", "object"}}
Projection(paths, fields) == [context |-> "c", paths |-> paths, fields |-> fields]
Projections == {Projection(<<"x">>, {"f"}), Projection(<<"x">>, {"f", "g"}),
                Projection(<<"x", "x">>, {"f"}), Projection(<<>>, {"f"})}

sceneVars == <<mutateVars, unpackVars, logVars>>
fileVars == <<snapshotVars, bridgeVars, installVars>>
callsVars == <<routeVars, viewVars>>
insideVars == <<scriptVars, interfaceVars, sampleVars, compareVars>>

\* Where a part rests, there is nothing in its scene and at its destinations.
Init ==
    /\ part \in {"mutate", "unpack", "logs", "snapshot", "bridge", "install", "routing",
              "views", "scripts", "interface", "samples", "compare"}
    /\ MutateInit /\ (part # "mutate" => scene = NoPaths)
    /\ UnpackInit /\ (part # "unpack" => dest = Nothing /\ overwrite[x2] = "fail")
    /\ overwrite[x2] = "replace" => dest = PriorPair
    /\ LogInit
    /\ SnapshotInit /\ (part # "snapshot" => \A f \in Files : files[f] = None)
    /\ BridgeInit
    /\ part # "bridge" => /\ target.comps = {} /\ ~target.host
                        /\ \A i \in Installs : wanted[i].backup /\ ~wanted[i].force
    /\ InstallInit
    /\ part # "install" => shipped = None /\ ~command[n1].force /\ command[n2].inPlace
    /\ RoutingInit
    /\ part # "routing" => ~bridge[h].up /\ ~bridge[s1].up /\ table[s1] = None
    /\ ViewInit /\ (part # "views" => document = Arr(<<Atom(1)>>) /\ asked = "full")
    /\ ScriptInit /\ InterfaceInit
    /\ IF part = "samples" THEN SampleInit
       ELSE sampleNode = NoSample[1] /\ reading = NoSample[2] /\ sampled = None
    /\ CompareInit
    /\ part # "compare" => \A n \in Nodes, f \in Fields : graph[n][f] = Value("null")

Next ==
    \/ /\ part \in {"mutate", "unpack", "logs"}
       /\ \/ part = "mutate" /\ MutateNext /\ UNCHANGED <<unpackVars, logVars>>
          \/ part = "unpack" /\ UnpackNext /\ UNCHANGED <<mutateVars, logVars>>
          \/ part = "logs" /\ LogNext /\ UNCHANGED <<mutateVars, unpackVars>>
       /\ UNCHANGED <<part, fileVars, callsVars, insideVars>>
    \/ /\ part \in {"snapshot", "bridge", "install"}
       /\ \/ part = "snapshot" /\ SnapshotNext /\ UNCHANGED <<bridgeVars, installVars>>
          \/ part = "bridge" /\ BridgeInstallNext /\ UNCHANGED <<snapshotVars, installVars>>
          \/ part = "install" /\ InstallNext /\ UNCHANGED <<snapshotVars, bridgeVars>>
       /\ UNCHANGED <<part, sceneVars, callsVars, insideVars>>
    \/ /\ part \in {"routing", "views"}
       /\ \/ part = "routing" /\ RoutingNext /\ UNCHANGED viewVars
          \/ part = "views" /\ ViewNext /\ UNCHANGED routeVars
       /\ UNCHANGED <<part, sceneVars, fileVars, insideVars>>
    \/ /\ part \in {"scripts", "interface", "samples", "compare"}
       /\ \/ part = "scripts" /\ ScriptNext /\ UNCHANGED <<interfaceVars, sampleVars, compareVars>>
          \/ part = "interface" /\ InterfaceNext /\ UNCHANGED <<scriptVars, sampleVars, compareVars>>
          \/ part = "samples" /\ SampleNext /\ UNCHANGED <<scriptVars, interfaceVars, compareVars>>
          \/ part = "compare" /\ CompareNext /\ UNCHANGED <<scriptVars, interfaceVars, sampleVars>>
       /\ UNCHANGED <<part, sceneVars, fileVars, callsVars>>

Spec == Init /\ [][Next]_<<part, sceneVars, fileVars, callsVars, insideVars>>

\* What a caller is told of values is what they are: exact samples, comparisons and
\* compact views of an output (sample_data.py, compare.py, output_views.rs).
ReadingsAreTrue ==
    /\ part = "samples" => SamplesAreTrue
    /\ part = "compare" => ComparisonIsTrue
    /\ part = "views" => CompactIsLossless
=============================================================================
