----------------------------- MODULE OutputViews ---------------------------
(***************************************************************************)
(* The compact view of a tool's output (output_views.rs) and the envelope  *)
(* it travels in (wrap_v2 of output_v2.rs): what the codec takes out of a  *)
(* JSON value, when it does so, and how a client puts it back.             *)
(*                                                                         *)
(* A JSON value is a record with one field that tells its kind.  Strings   *)
(* and keys are abstract and cost StringCost when the serialized size is   *)
(* counted; every other scalar, array, object and transform costs one.     *)
(***************************************************************************)
EXTENDS Absent, Integers, Sequences, SequencesExt

CONSTANTS
    Documents,      \* the outputs that tools produce
    UnsafeKeys,     \* __proto__, prototype, constructor
    StringCost,     \* what a string or a key costs
    HeaderCost,     \* what the codec's name and version cost
    MaxDepth, MaxValues, MaxTransforms, MaxRosterPaths, MaxPathsPerTransform,
    MaxSegments, MaxBytes

VARIABLES
    document,    \* the legacy value
    asked,       \* the view the caller asked for
    response,    \* what wrap_v2 returned: [applied, reason, data]
    decoded      \* what the client made of it

viewVars == <<document, asked, response, decoded>>

-----------------------------------------------------------------------------
(* JSON values and paths into them.                                        *)

Str(s) == [str |-> s]
Atom(x) == [atom |-> x]
Arr(s) == [arr |-> s]
Obj(f) == [obj |-> f]

IsArr(v) == "arr" \in DOMAIN v
IsObj(v) == "obj" \in DOMAIN v
IsStr(v) == "str" \in DOMAIN v
HasKey(v, k) == IsObj(v) /\ k \in DOMAIN v.obj

\* PathSegment: the places of an array are counted from 1 here.
Segments(v) ==
    IF IsArr(v) THEN [i \in 1 .. Len(v.arr) |-> [idx |-> i]]
    ELSE IF IsObj(v) THEN LET keys == SetToSeq(DOMAIN v.obj)
                          IN [i \in 1 .. Len(keys) |-> [key |-> keys[i]]]
    ELSE <<>>

IsKey(segment) == "key" \in DOMAIN segment
Child(v, segment) == IF IsKey(segment) THEN v.obj[segment.key] ELSE v.arr[segment.idx]
HasChild(v, segment) ==
    IF IsKey(segment) THEN HasKey(v, segment.key)
    ELSE IsArr(v) /\ segment.idx \in 1 .. Len(v.arr)
WithChild(v, segment, w) ==
    IF IsKey(segment) THEN Obj([v.obj EXCEPT ![segment.key] = w])
    ELSE Arr([v.arr EXCEPT ![segment.idx] = w])

WithoutKeys(f, ks) == [k \in DOMAIN f \ ks |-> f[k]]
WithKeys(f, g) == [k \in DOMAIN f \cup DOMAIN g |-> IF k \in DOMAIN g THEN g[k] ELSE f[k]]

\* get_at, and what becomes of a value when the one at a path is replaced.
NoValue == [atom |-> "nowhere"]

RECURSIVE At(_, _)
At(v, path) ==
    IF path = <<>> THEN v
    ELSE IF HasChild(v, Head(path)) THEN At(Child(v, Head(path)), Tail(path))
    ELSE NoValue

RECURSIVE Put(_, _, _)
Put(v, path, w) ==
    IF path = <<>> THEN w
    ELSE WithChild(v, Head(path), Put(Child(v, Head(path)), Tail(path), w))

-----------------------------------------------------------------------------
(* Admission: scan_value and the counting writer.                          *)

SegmentCost(segment) == IF IsKey(segment) THEN StringCost ELSE 0

RECURSIVE ValuesIn(_), DepthOf(_), CostOf(_)
ValuesIn(v) ==
    LET segs == Segments(v)
    IN 1 + FoldLeft(LAMBDA n, s : n + ValuesIn(Child(v, s)), 0, segs)
DepthOf(v) ==
    LET segs == Segments(v)
    IN FoldLeft(LAMBDA n, s : LET d == 1 + DepthOf(Child(v, s)) IN IF d > n THEN d ELSE n,
                0, segs)
CostOf(v) ==
    LET segs == Segments(v)
    IN (IF IsStr(v) THEN StringCost ELSE 1)
         + FoldLeft(LAMBDA n, s : n + SegmentCost(s) + CostOf(Child(v, s)), 0, segs)

WithinBudget(v) == DepthOf(v) <= MaxDepth /\ ValuesIn(v) <= MaxValues

CostOfTransform(t) ==
    1 + FoldLeft(LAMBDA n, p : n + 1 + FoldLeft(LAMBDA k, s : k + SegmentCost(s), 0, p),
                 0, t.paths)
      + CostOf(t.payload)
CostOfCompact(doc) ==
    HeaderCost + CostOf(doc.data)
      + FoldLeft(LAMBDA n, t : n + CostOfTransform(t), 0, doc.transforms)

-----------------------------------------------------------------------------
(* What can be taken out.                                                  *)

Transform(kind, paths, payload) == [kind |-> kind, paths |-> paths, payload |-> payload]
NoPayload == Atom("none")

path_is_safe(path) == \A i \in DOMAIN path : IsKey(path[i]) => path[i].key \notin UnsafeKeys

is_member_roster_path(path) ==
    path # <<>> /\ Last(path) = [key |-> "members"]

is_string_roster(v) == Len(v.arr) >= 2 /\ \A i \in DOMAIN v.arr : IsStr(v.arr[i])

\* Mutant: other fields of the rows are not looked at.
HasNames(rows) ==
    Len(rows) >= 2 /\ \A i \in DOMAIN rows : HasKey(rows[i], "name") /\ IsStr(rows[i].obj.name)

\* take_names_vector: rows that are nothing but a name.
IsNamesVector(rows) ==
    /\ Len(rows) >= 2
    /\ \A i \in DOMAIN rows :
         IsObj(rows[i]) /\ DOMAIN rows[i].obj = {"name"} /\ IsStr(rows[i].obj.name)

Available == Obj("available" :> Atom(TRUE))
PositiveDefaults == ("mode" :> Str("CONSTANT")) @@ ("evaluation" :> Available)

\* shared_positive_defaults: the ones that every row has, exactly.
SharedDefaults(rows) ==
    LET shared == {k \in DOMAIN PositiveDefaults :
                     \A i \in DOMAIN rows :
                       HasKey(rows[i], k) /\ rows[i].obj[k] = PositiveDefaults[k]}
    IN IF Len(rows) >= 2 /\ (\A i \in DOMAIN rows : IsObj(rows[i]))
         THEN [k \in shared |-> PositiveDefaults[k]] ELSE <<>>

\* What is done to an array once its elements have been done: [value, transforms,
\* rosters].
ArrayTransformed(v, path, transforms, rosters) ==
    LET rows == v.arr
        roster == is_member_roster_path(path) /\ is_string_roster(v)
        defaults == SharedDefaults(rows)
        withRoster == IF roster THEN Append(rosters, path) ELSE rosters
    IN IF ~path_is_safe(path) THEN [value |-> v, transforms |-> transforms, rosters |-> rosters]
       ELSE IF IsNamesVector(rows)
         THEN [value |-> Arr([i \in DOMAIN rows |-> rows[i].obj.name]),
               transforms |-> Append(transforms, Transform("names", <<path>>, NoPayload)),
               rosters |-> withRoster]
       ELSE IF DOMAIN defaults # {}
         THEN [value |-> Arr([i \in DOMAIN rows |->
                               Obj(WithoutKeys(rows[i].obj, DOMAIN defaults))]),
               transforms |-> Append(transforms,
                                     Transform("defaults", <<path>>, Obj(defaults))),
               rosters |-> withRoster]
       ELSE [value |-> v, transforms |-> transforms, rosters |-> withRoster]

\* transform_value: the children first.
RECURSIVE transform_value(_, _)
transform_value(v, path) ==
    LET segs == Segments(v)
        kids == [i \in DOMAIN segs |-> transform_value(Child(v, segs[i]), Append(path, segs[i]))]
        value == FoldLeft(LAMBDA w, i : WithChild(w, segs[i], kids[i].value), v,
                          [i \in DOMAIN segs |-> i])
        transforms == FlattenSeq([i \in DOMAIN segs |-> kids[i].transforms])
        rosters == FlattenSeq([i \in DOMAIN segs |-> kids[i].rosters])
    IN IF IsArr(v) THEN ArrayTransformed(value, path, transforms, rosters)
       ELSE [value |-> value, transforms |-> transforms, rosters |-> rosters]

RemoveMembers(v, path) ==
    LET parent == At(v, Front(path))
    IN Put(v, Front(path), Obj(WithoutKeys(parent.obj, {"members"})))

\* factor_member_rosters: the first roster that is left, with all that equal it.
RECURSIVE factor_member_rosters(_, _, _)
factor_member_rosters(v, transforms, rosters) ==
    IF rosters = <<>> THEN [value |-> v, transforms |-> transforms]
    ELSE LET same(p) == At(v, p) = At(v, Head(rosters))
             group == SelectSeq(rosters, same)
             others == SelectSeq(rosters, LAMBDA p : ~same(p))
         IN IF Len(group) < 2 THEN factor_member_rosters(v, transforms, Tail(rosters))
            ELSE factor_member_rosters(
                   FoldLeft(RemoveMembers, v, group),
                   Append(transforms, Transform("members", group, At(v, Head(rosters)))),
                   others)

-----------------------------------------------------------------------------
(* encode and decode.                                                      *)

Full(v, reason) == [applied |-> "full", reason |-> reason, data |-> v]

encode(v) ==
    LET first == transform_value(v, <<>>)
        second == factor_member_rosters(first.value, first.transforms, first.rosters)
        doc == [data |-> second.value, transforms |-> second.transforms]
    IN CASE ~WithinBudget(v) -> Full(v, "traversal_budget")
         [] WithinBudget(v) /\ CostOf(v) > MaxBytes -> Full(v, "serialization_budget")
         [] OTHER ->
              IF \/ Len(first.rosters) > MaxRosterPaths
                 \/ Len(second.transforms) > MaxTransforms
                 \/ \E i \in DOMAIN second.transforms :
                      Len(second.transforms[i].paths) > MaxPathsPerTransform
                THEN Full(v, "transform_budget")
              ELSE IF second.transforms = <<>> THEN Full(v, "no_transforms")
              ELSE IF CostOfCompact(doc) > MaxBytes THEN Full(v, "serialization_budget")
              ELSE IF CostOfCompact(doc) >= CostOf(v) THEN Full(v, "not_smaller")
              ELSE [applied |-> "compact", reason |-> "none", data |-> doc]

Targets(doc) == FlattenSeq([i \in DOMAIN doc.transforms |-> doc.transforms[i].paths])

paths_overlap(p, q) == IsPrefix(p, q) \/ IsPrefix(q, p)

\* validate_path and validate_defaults.
ValidPath(path) == path # <<>> /\ Len(path) <= MaxSegments /\ path_is_safe(path)
ValidTransform(t) ==
    /\ \A i \in DOMAIN t.paths : ValidPath(t.paths[i])
    /\ t.kind = "defaults" =>
         /\ t.payload.obj # <<>>
         /\ \A k \in DOMAIN t.payload.obj :
              k \in DOMAIN PositiveDefaults /\ t.payload.obj[k] = PositiveDefaults[k]
         /\ WithinBudget(t.payload)
    /\ t.kind = "members" =>
         /\ Len(t.paths) \in 2 .. MaxPathsPerTransform
         /\ Len(t.payload.arr) >= 2
         /\ \A i \in DOMAIN t.paths : is_member_roster_path(t.paths[i])

validate_transforms(doc) ==
    LET targets == Targets(doc)
    IN /\ \A i \in DOMAIN doc.transforms : ValidTransform(doc.transforms[i])
       /\ \A i, j \in DOMAIN targets : i # j => ~paths_overlap(targets[i], targets[j])

Refused == [atom |-> "refused"]

decode_names(v, path) ==
    LET target == At(v, path)
    IN IF ~IsArr(target) \/ (\E i \in DOMAIN target.arr : ~IsStr(target.arr[i]))
         THEN Refused
         ELSE Put(v, path, Arr([i \in DOMAIN target.arr |-> Obj("name" :> target.arr[i])]))

decode_defaults(v, path, defaults) ==
    LET target == At(v, path)
    IN IF \/ ~IsArr(target)
          \/ \E i \in DOMAIN target.arr :
               \/ ~IsObj(target.arr[i])
               \/ \E k \in DOMAIN defaults : HasKey(target.arr[i], k)
         THEN Refused
         ELSE Put(v, path, Arr([i \in DOMAIN target.arr |->
                                  Obj(WithKeys(target.arr[i].obj, defaults))]))

insert_members(v, path, members) ==
    LET parent == At(v, Front(path))
    IN IF ~IsObj(parent) \/ HasKey(parent, "members") THEN Refused
       ELSE Put(v, Front(path), Obj(WithKeys(parent.obj, "members" :> members)))

Decoded(v, t) ==
    FoldLeft(LAMBDA w, path :
               CASE w = Refused -> Refused
                 [] w # Refused /\ t.kind = "names" -> decode_names(w, path)
                 [] w # Refused /\ t.kind = "defaults" ->
                      decode_defaults(w, path, t.payload.obj)
                 [] w # Refused /\ t.kind = "members" -> insert_members(w, path, t.payload),
             v, t.paths)

decode_compact(doc) ==
    IF \/ doc.transforms = <<>> \/ Len(doc.transforms) > MaxTransforms
       \/ ~WithinBudget(doc.data) \/ ~validate_transforms(doc)
      THEN Refused
      ELSE LET v == FoldLeft(Decoded, doc.data, doc.transforms)
           IN IF WithinBudget(v) THEN v ELSE Refused

-----------------------------------------------------------------------------
ViewInit ==
    /\ document \in Documents
    /\ asked \in {"full", "compact"}
    /\ response = None /\ decoded = None

\* wrap_v2: a full view is not planned at all.
wrap_v2 ==
    /\ response = None
    /\ response' = IF asked = "compact" THEN encode(document) ELSE Full(document, "none")
    /\ UNCHANGED <<document, asked, decoded>>

\* The client decodes what it is told is compact.
ClientDecodes ==
    /\ response # None /\ decoded = None
    /\ decoded' = IF response.applied = "compact" THEN decode_compact(response.data)
                  ELSE response.data
    /\ UNCHANGED <<document, asked, response>>

ViewNext == wrap_v2 \/ ClientDecodes

-----------------------------------------------------------------------------
\* What the codec of the same build cannot take back: a transform of the whole output,
\* or one inside another.
Nested(doc) ==
    LET targets == Targets(doc)
    IN \/ \E i \in DOMAIN targets : targets[i] = <<>>
       \/ \E i, j \in DOMAIN targets : i # j /\ paths_overlap(targets[i], targets[j])

\* A compact view is smaller than what it stands for, and gives it back exactly: nothing
\* is lost, invented or put into the wrong row, and the client only fails on a document
\* with a transform at the root or inside another.
CompactIsLossless ==
    decoded # None =>
      /\ decoded # Refused => decoded = document
      /\ decoded = Refused => response.applied = "compact" /\ Nested(response.data)
      /\ response.applied = "compact" =>
           asked = "compact" /\ CostOfCompact(response.data) < CostOf(document)
      /\ response.reason = "none" <=> response.applied = asked

\* Does not hold (README, Findings): every document this codec emits decodes.
EveryOutputDecodes == decoded # Refused
=============================================================================
