----------------------------- MODULE Comparisons ----------------------------
(***************************************************************************)
(* compare_nodes and the guard of a mutate step, inside TouchDesigner      *)
(* (compare.py; mutate.py _precondition_mismatch): a client captures an    *)
(* observation, the user goes on editing, the client compares or writes    *)
(* under a guard it took from the observation.                             *)
(*                                                                         *)
(* A raw value is a type and a number that tells values of it apart; a     *)
(* field that is not there is None.  Values of type "object" have no JSON  *)
(* form, and "nan" stands for the floats that have none.  A connection set *)
(* is a value like any other.  Everything here runs on the main thread, so *)
(* a call is one step between two edits.                                   *)
(***************************************************************************)
EXTENDS Absent, Naturals, Sequences, FiniteSets, SequencesExt

CONSTANTS
    Contexts, PathNames,   \* a path below a context names a node
    Fields,
    Raws,              \* the values the user may give a field
    MaxNodes, MaxFields,     \* COMPARE_MAX_NODES, COMPARE_MAX_FIELDS
    SomeRequests,      \* [context, paths, fields] the client may ask
    MaxSceneEdits, MaxCompares

ASSUME CompareAssumption == {MaxNodes, MaxFields, MaxSceneEdits, MaxCompares} \subseteq Nat

VARIABLES
    graph,       \* node -> its fields, or None
    held,        \* the observation the client retains, or None
    heldScene,   \* history: the scene it was read from, its context and fields
    compared,    \* the last answer, or None
    sceneEdits, compares

compareVars == <<graph, held, heldScene, compared, sceneEdits, compares>>

Nodes == Contexts \X PathNames

CompareInit ==
    /\ graph \in [Nodes -> {[f \in Fields |-> r] : r \in Raws}]
    /\ held = None /\ heldScene = None /\ compared = None
    /\ sceneEdits = 0 /\ compares = 0

----------------------------------------------------------------------------
\* Reading and comparing.

\* _json_safe: a value without a JSON form becomes a marker of its kind.
JsonSafe(raw) ==
    IF raw.type \in {"nan", "object"} THEN [type |-> "marker", v |-> raw.type] ELSE raw

\* _wrap: presence is part of the value.
Wrap(raw) == IF raw = None THEN [present |-> FALSE]
             ELSE [present |-> TRUE, value |-> JsonSafe(raw)]

Project(node, fields) == [f \in fields |-> Wrap(graph[node][f])]

\* The bug of comparing with ==, for which False is 0.
PlainEq(a, b) == \/ a = b
                 \/ {a.type, b.type} = {"bool", "num"} /\ a.v = b.v

\* strict_eq: the type first.
StrictEq(a, b) == a.type = b.type /\ a.v = b.v

Same(before, after) ==
    /\ before.present = after.present
    /\ before.present => StrictEq(before.value, after.value)

ChangeKind(before, after) ==
    IF ~before.present THEN "added" ELSE IF ~after.present THEN "removed" ELSE "changed"

\* diff_projection: a field the baseline does not have counts as absent there.
DiffProjection(before, after) ==
    LET old(f) == IF f \in DOMAIN before THEN before[f] ELSE [present |-> FALSE]
    IN  {[field |-> f, change |-> ChangeKind(old(f), after[f])] :
            f \in {g \in DOMAIN after : ~Same(old(g), after[g])}}

\* _read_paths, _observation: the context is not part of it.
ReadPaths(r) ==
    [i \in DOMAIN r.paths |->
        LET node == <<r.context, r.paths[i]>>
        IN  IF graph[node] = None THEN [path |-> r.paths[i], readable |-> FALSE]
            ELSE [path |-> r.paths[i], readable |-> TRUE, fields |-> Project(node, r.fields)]]
Observation(r) == [fields |-> r.fields, nodes |-> ReadPaths(r)]

----------------------------------------------------------------------------
\* handle_compare.

RefusedCompare(code) == [ok |-> FALSE, mode |-> "refused", code |-> code]

BadRequest(r) ==
    IF r.paths = <<>> \/ r.fields = {} THEN "invalid"
    ELSE IF Len(r.paths) > MaxNodes \/ Cardinality(r.fields) > MaxFields THEN "too_large"
    ELSE IF ~IsInjective(r.paths) THEN "invalid"
    ELSE None

\* What is wrong with a baseline: no stamp, no nodes, other fields, a path it lacks.  An
\* observation the client handed back without its field list is not held to it.
BadBaseline(baseline, form, r) ==
    IF form \in {"bare", "empty"} THEN "baseline_unavailable"
    ELSE IF form = "whole" /\ baseline.fields # r.fields THEN "projection_mismatch"
    ELSE IF \E i \in DOMAIN r.paths : \A j \in DOMAIN baseline.nodes :
              baseline.nodes[j].path # r.paths[i] THEN "baseline_unavailable"
    ELSE None

\* The bug the comment on before_by_path warns of: only the fields of a node are kept.
CompareFieldsAlone(before, now) ==
    IF ~now.readable THEN [path |-> now.path, readable |-> FALSE, changes |-> {}]
    ELSE [path |-> now.path, readable |-> TRUE, baselineReadable |-> TRUE,
          changes |-> IF before.readable THEN DiffProjection(before.fields, now.fields)
                      ELSE {}]

CompareNode(before, now) ==
    IF ~now.readable THEN [path |-> now.path, readable |-> FALSE, changes |-> {}]
    ELSE IF ~before.readable
      THEN [path |-> now.path, readable |-> TRUE, baselineReadable |-> FALSE, changes |-> {}]
    ELSE [path |-> now.path, readable |-> TRUE, baselineReadable |-> TRUE,
          changes |-> DiffProjection(before.fields, now.fields)]

\* The baseline's entry for a path; the last one of several.
EntryOf(baseline, path) ==
    baseline.nodes[CHOOSE j \in DOMAIN baseline.nodes :
        /\ baseline.nodes[j].path = path
        /\ \A k \in DOMAIN baseline.nodes : baseline.nodes[k].path = path => k <= j]

Compared(baseline, r) ==
    LET now == ReadPaths(r)
        nodes == [i \in DOMAIN now |-> CompareNode(EntryOf(baseline, now[i].path), now[i])]
    IN  [ok |-> TRUE, mode |-> "compare", nodes |-> nodes,
         changedFields |-> FoldLeft(LAMBDA n, e : n + Cardinality(e.changes), 0, nodes),
         unreadable |-> Cardinality({i \in DOMAIN now : ~now[i].readable})]

\* The answer, with what was asked and (history) the baseline's reading beside it.
AnswerCompare(r, a) == compared' = [request |-> r, answer |-> a, base |-> heldScene]

\* A client may retain the observation every answer that is ok carries.
Retain(r, keep) ==
    IF keep
      THEN /\ held' = Observation(r)
           /\ heldScene' = [graph |-> graph, context |-> r.context, fields |-> r.fields]
      ELSE UNCHANGED <<held, heldScene>>

CaptureBaseline(r, keep) ==
    /\ BadRequest(r) = None
    /\ AnswerCompare(r, [ok |-> TRUE, mode |-> "capture"])
    /\ Retain(r, keep)

Compare(r, form, keep) ==
    /\ BadRequest(r) = None /\ held # None
    /\ BadBaseline(held, form, r) = None
    /\ AnswerCompare(r, Compared(held, r))
    /\ Retain(r, keep)

\* No baseline and no capture asked for, or one that cannot serve.
RefuseCompare(r) ==
    /\ \/ BadRequest(r) # None /\ AnswerCompare(r, RefusedCompare(BadRequest(r)))
       \/ BadRequest(r) = None /\ AnswerCompare(r, RefusedCompare("baseline_unavailable"))
       \/ \E form \in {"whole", "bare", "empty", "fieldless"} :
            /\ BadRequest(r) = None /\ held # None
            /\ BadBaseline(held, form, r) # None
            /\ AnswerCompare(r, RefusedCompare(BadBaseline(held, form, r)))
    /\ UNCHANGED <<held, heldScene>>

----------------------------------------------------------------------------
\* A step {op: set, path, expect} of mutate_nodes.

\* The bug of letting a field that is gone pass its guard.
GuardHoldsIfPresent(node, expect) ==
    /\ graph[node] # None
    /\ \A f \in DOMAIN expect : LET got == Wrap(graph[node][f])
                                IN  got.present => StrictEq(got.value, expect[f])

\* _precondition_mismatch: the node resolves, each field is there and as expected.
GuardHolds(node, expect) ==
    /\ graph[node] # None
    /\ \A f \in DOMAIN expect : LET got == Wrap(graph[node][f])
                                IN  got.present /\ StrictEq(got.value, expect[f])

\* What the client expects: the fields its observation has values of.
Expected(entry) ==
    [f \in {g \in DOMAIN entry.fields : entry.fields[g].present} |-> entry.fields[f].value]

\* The guard is read and the field written without the main thread being left between
\* them; a write may fail after the guard has passed.
GuardedSet(i, f, raw) ==
    LET entry == held.nodes[i]
        node == <<heldScene.context, entry.path>>
        expect == Expected(entry)
        guarded == [node |-> node, expect |-> expect]
    IN  /\ held # None /\ i \in DOMAIN held.nodes /\ entry.readable
        /\ expect # <<>>
        /\ \/ /\ ~GuardHolds(node, expect)
              /\ AnswerCompare(guarded, [ok |-> FALSE, mode |-> "guard", before |-> graph])
              /\ UNCHANGED graph
           \/ /\ GuardHolds(node, expect) /\ graph[node][f] # None
              /\ AnswerCompare(guarded, [ok |-> TRUE, mode |-> "guard", before |-> graph])
              /\ graph' = [graph EXCEPT ![node][f] = raw]
           \/ /\ GuardHolds(node, expect)
              /\ AnswerCompare(guarded, [ok |-> FALSE, mode |-> "guard", before |-> graph])
              /\ UNCHANGED graph
        /\ UNCHANGED <<held, heldScene>>

----------------------------------------------------------------------------
\* The user gives a field a value, removes a field, deletes a node or makes one.
EditGraph ==
    /\ sceneEdits < MaxSceneEdits
    /\ \E n \in Nodes :
         \/ \E f \in Fields, raw \in Raws \cup {None} :
              graph[n] # None /\ graph' = [graph EXCEPT ![n][f] = raw]
         \/ graph[n] # None /\ graph' = [graph EXCEPT ![n] = None]
         \/ \E raw \in Raws :
              graph[n] = None /\ graph' = [graph EXCEPT ![n] = [f \in Fields |-> raw]]
    /\ sceneEdits' = sceneEdits + 1
    /\ compared' = None
    /\ UNCHANGED <<held, heldScene, compares>>

CompareCall ==
    /\ compares < MaxCompares
    /\ \/ /\ \E r \in SomeRequests : \/ \E keep \in BOOLEAN : CaptureBaseline(r, keep)
                                     \/ \E form \in {"whole", "fieldless"}, keep \in BOOLEAN :
                                           Compare(r, form, keep)
                                     \/ RefuseCompare(r)
          /\ UNCHANGED graph
       \/ \E i \in DOMAIN (IF held = None THEN <<>> ELSE held.nodes), f \in Fields, raw \in Raws :
            GuardedSet(i, f, raw)
    /\ compares' = compares + 1
    /\ UNCHANGED sceneEdits

CompareNext == EditGraph \/ CompareCall

CompareSpec == CompareInit /\ [][CompareNext]_compareVars

----------------------------------------------------------------------------
\* Properties.

Opaque(raw) == raw # None /\ raw.type = "object"
CompareTold(mode) == compared # None /\ compared.answer.mode = mode
SameContext == compared.request.context = compared.base.context
SharedFields == compared.request.fields \cap compared.base.fields
Then(path, f) == compared.base.graph[<<compared.base.context, path>>][f]
Now(path, f) == graph[<<compared.request.context, path>>][f]

\* A field that is told as unchanged has the value, of the same type, that the baseline
\* read, and a field that changed is told with how: missing, null, false, 0 and "" are
\* five values, and a node either side could not read says nothing about its fields
\* (compare.py 20-37, 196-226).
DeltaIsExact ==
    CompareTold("compare") /\ SameContext =>
        \A i \in DOMAIN compared.answer.nodes :
            LET e == compared.answer.nodes[i]
                there(s) == s[<<compared.request.context, e.path>>] # None
            IN  /\ e.readable <=> there(graph)
                /\ e.readable => (e.baselineReadable <=> there(compared.base.graph))
                /\ e.readable /\ e.baselineReadable => \A f \in SharedFields :
                     LET kinds == {c.change : c \in {d \in e.changes : d.field = f}}
                         old == Then(e.path, f)
                         new == Now(e.path, f)
                     IN  /\ old = new => kinds = {}
                         /\ old # new /\ ~(Opaque(old) /\ Opaque(new)) =>
                              kinds = {IF old = None THEN "added"
                                      ELSE IF new = None THEN "removed" ELSE "changed"}

\* A write whose guard was taken from an observation never lands on a field that has
\* changed since (mutate.py 500-519, tools.rs 743-749).
GuardProtects ==
    CompareTold("guard") /\ compared.answer.ok =>
        \A f \in DOMAIN compared.request.expect :
            LET old == compared.base.graph[compared.request.node][f]
                new == compared.answer.before[compared.request.node][f]
            IN  old = new \/ (Opaque(old) /\ Opaque(new))

\* What a comparison tells is what changed, and a guard holds what it was taken for.
ComparisonIsTrue == DeltaIsExact /\ GuardProtects

\* Not so: two values without a JSON form have the same marker, and a field that went
\* from the one to the other is told as unchanged, although "a field that cannot be read
\* is reported unreadable rather than unchanged" (compare.py 22-24).
OpaqueChangesAreTold ==
    CompareTold("compare") /\ SameContext =>
        \A i \in DOMAIN compared.answer.nodes :
            LET e == compared.answer.nodes[i]
            IN  e.readable /\ e.baselineReadable /\ e.changes = {} =>
                  \A f \in SharedFields : Then(e.path, f) = Now(e.path, f)

\* Not so: an observation does not say from which context its paths were read, and the
\* same relative path of another context is compared with it, although both are to be
\* "observations of the same projection" (compare.py 1).
SameNodesAreCompared == CompareTold("compare") => SameContext

\* Not so: a baseline without its field list is not held to it, and a field it never
\* read is told as added (compare.py 386-397).
AddedWasAbsent ==
    CompareTold("compare") => \A i \in DOMAIN compared.answer.nodes :
        \A c \in compared.answer.nodes[i].changes :
            c.change = "added" => c.field \in compared.base.fields
=============================================================================
