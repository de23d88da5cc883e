----------------------------- MODULE MutateScene ----------------------------
(***************************************************************************)
(* One batch of mutate_nodes inside TouchDesigner (mutate.py): steps that  *)
(* create, place, set, delete, connect and disconnect operators, one after *)
(* the other until the first failure, on paths that are rewritten when     *)
(* TouchDesigner gave a new operator another name than the one asked for.  *)
(*                                                                         *)
(* A path is the sequence of names below the batch's context, which is     *)
(* there throughout; an operator is a number.  Parameters, texts, flags    *)
(* and expressions are abstracted: writing them succeeds or fails, and so  *)
(* does a step's expect block.  An operator has one input.  The batch has  *)
(* the main thread to itself, and what TouchDesigner answers is any of     *)
(* what it may answer.                                                     *)
(***************************************************************************)
EXTENDS Absent, Naturals, Sequences, FiniteSets, SequencesExt, Functions

CONSTANTS
    Names,       \* names of operators
    Asked,       \* the paths steps may name
    Scenes,      \* sets of paths, the operators there may be at the start
    MaxSteps     \* bound on the steps of a batch

Paths == UNION {[1 .. n -> Names] : n \in 1 .. 2}

\* A create or place step under way: what was asked for, the rewritten path, and where
\* the operator is by now.
Makings == [op : {"create", "place"}, phase : {"unwrap", "name", "fields"},
            requested : Asked, path : Paths, made : Paths]

ASSUME MutateAssumption ==
    /\ Asked \subseteq Paths
    /\ \A s \in Scenes : s \subseteq Paths /\ IsFiniteSet(s)
                         /\ \A p \in s : Len(p) > 1 => Front(p) \in s
    /\ MaxSteps \in Nat /\ None \notin Makings

VARIABLES
    scene,     \* scene[p]: the operator at path p
    wires,     \* wires[d]: the path wired into the input of the one at d
    born,      \* operators there have been so far
    aliases,   \* the requested paths whose operator is elsewhere, and where
    doing,     \* the create or place step under way, or None
    applied,
    failedAt,
    picture,   \* what the client makes of the results: operators and wires
    intent,    \* intent[p]: the operator made by the latest step that asked for p
    refused    \* TouchDesigner would not destroy something

mutateVars == <<scene, wires, born, aliases, doing, applied, failedAt, picture, intent,
                refused>>

\* Paths at or below p.
Under(p) == {q \in Paths : IsPrefix(p, q)}

MutateTypeOK ==
    /\ DOMAIN scene \subseteq Paths /\ \A p \in DOMAIN scene : scene[p] \in 1 .. born
    /\ IsInjective(scene)
    /\ \A p \in DOMAIN scene : Len(p) > 1 => Front(p) \in DOMAIN scene
    /\ DOMAIN wires \cup Range(wires) \subseteq DOMAIN scene
    /\ born \in Nat /\ applied \in 0 .. MaxSteps /\ failedAt \in {None} \cup 0 .. MaxSteps
    /\ DOMAIN aliases \cup Range(aliases) \subseteq Paths
    /\ doing # None => doing \in Makings /\ doing.made \in DOMAIN scene
    /\ refused \in BOOLEAN

NoPaths == [p \in {} |-> None]

\* A numbering of the operators the batch finds.
Numbered(s) == CHOOSE f \in [s -> 1 .. Cardinality(s)] : IsInjective(f)

MutateInit ==
    /\ scene \in {Numbered(s) : s \in Scenes}
    /\ wires = NoPaths
    /\ born = Cardinality(DOMAIN scene)
    /\ aliases = NoPaths
    /\ doing = None /\ applied = 0 /\ failedAt = None
    /\ picture = [ops |-> DOMAIN scene, wires |-> NoPaths]
    /\ intent = NoPaths
    /\ refused = FALSE

-----------------------------------------------------------------------------
(* Rewriting.                                                              *)

Longest(ps) == CHOOSE p \in ps : \A q \in ps : Len(q) <= Len(p)

\* The rest of path p below its prefix q.
Below(p, q) == SubSeq(p, Len(q) + 1, Len(p))

\* _remap_alias: the most specific alias, applied once.
Remap(p) ==
    LET matches == {q \in DOMAIN aliases : IsPrefix(q, p)}
    IN  IF matches = {} THEN p ELSE aliases[Longest(matches)] \o Below(p, Longest(matches))

\* ctx.resolve of a rewritten path.
Resolves(p) == Remap(p) \in DOMAIN scene

-----------------------------------------------------------------------------
(* What TouchDesigner does.                                                *)

Parent(p) == SubSeq(p, 1, Len(p) - 1)
IsHome(p) == p = <<>> \/ (p \in DOMAIN scene /\ Len(p) < 2)

\* Paths a new operator below home may get when p is asked for: p if it is free.
FreeBelow(home) == {q \in Paths \ DOMAIN scene : Parent(q) = home}
Given(p) == IF p \in FreeBelow(Parent(p)) THEN {p} ELSE FreeBelow(Parent(p))

With(f, p, v) == [q \in DOMAIN f \cup {p} |-> IF q = p THEN v ELSE f[q]]
Without(f, ps) == [q \in DOMAIN f \ ps |-> f[q]]
Unwired(ws, ps) == [d \in {d \in DOMAIN ws \ ps : ws[d] \notin ps} |-> ws[d]]

\* destroy(): the operator goes, with what is in it and its wires.
Destroy(p) ==
    /\ scene' = Without(scene, Under(p))
    /\ wires' = Unwired(wires, Under(p))

\* _rollback_create: best effort, and silent.
Rollback(p) ==
    \/ Destroy(p) /\ UNCHANGED refused
    \/ refused' = TRUE /\ UNCHANGED <<scene, wires>>

-----------------------------------------------------------------------------
(* Results.                                                                *)

MutateReady == doing = None /\ failedAt = None /\ applied < MaxSteps

\* The batch stops here; the other steps are reported as skipped.
StepFailed ==
    /\ failedAt' = applied
    /\ doing' = None
    /\ UNCHANGED <<born, aliases, applied, picture, intent>>

StepApplied(told) ==
    /\ applied' = applied + 1
    /\ doing' = None
    /\ picture' = told
    /\ UNCHANGED <<born, failedAt, refused>>

StepChanges(told) == StepApplied(told) /\ UNCHANGED <<aliases, intent>>

StepRefused == StepFailed /\ UNCHANGED <<scene, wires, refused>>

AliasesKeepingDescendants(p, actual) ==
    IF actual = p THEN Without(aliases, {p}) ELSE With(aliases, p, actual)

\* A new create intent supersedes those at and below the path it asked for.
AliasesAfter(p, actual) ==
    LET others == Without(aliases, Under(p))
    IN  IF actual = p THEN others ELSE With(others, p, actual)

-----------------------------------------------------------------------------
(* create and place: an operator is made, then text, comment, values and   *)
(* flags are written, and if that fails it is destroyed again.             *)

Begin(op, p, at) ==
    doing' = [op |-> op, phase |-> IF op = "place" THEN "unwrap" ELSE "fields",
              requested |-> p, path |-> Remap(p), made |-> at]

\* parent.create, which may choose another name; no parent, an unknown type or an
\* exception fail the step.
StepCreate(p) ==
    /\ MutateReady
    /\ \/ /\ IsHome(Parent(Remap(p)))
          /\ \E at \in Given(Remap(p)) :
                scene' = With(scene, at, born + 1) /\ Begin("create", p, at)
          /\ born' = born + 1
          /\ UNCHANGED <<wires, aliases, applied, failedAt, picture, intent, refused>>
       \/ StepRefused

\* load_tox: the component has the name of its file, or what TouchDesigner makes of it.
StepPlace(p) ==
    /\ MutateReady
    /\ \/ /\ IsHome(Parent(Remap(p)))
          /\ \E at \in FreeBelow(Parent(Remap(p))) :
                scene' = With(scene, at, born + 1) /\ Begin("place", p, at)
          /\ born' = born + 1
          /\ UNCHANGED <<wires, aliases, applied, failedAt, picture, intent, refused>>
       \/ StepRefused

\* A palette file is a wrapper: the component inside is copied out, and the wrapper
\* destroyed before the copy is renamed.
PlaceUnwrap ==
    /\ doing # None /\ doing.phase = "unwrap"
    /\ \/ /\ doing' = [doing EXCEPT !.phase = "name"]
          /\ UNCHANGED <<scene, wires, born, aliases, applied, failedAt, picture, intent,
                         refused>>
       \/ /\ \E at \in FreeBelow(Parent(doing.made)) :
                /\ doing' = [doing EXCEPT !.phase = "name", !.made = at]
                /\ \/ scene' = With(Without(scene, {doing.made}), at, born + 1)
                      /\ UNCHANGED refused
                   \/ scene' = With(scene, at, born + 1) /\ refused' = TRUE
          /\ born' = born + 1
          /\ UNCHANGED <<wires, aliases, applied, failedAt, picture, intent>>
       \/ StepFailed /\ Rollback(doing.made)

\* _rename_loaded, which may be refused.
PlaceName ==
    /\ doing # None /\ doing.phase = "name"
    /\ \E at \in {doing.made} \cup Given(doing.path) :
          /\ scene' = With(Without(scene, {doing.made}), at, scene[doing.made])
          /\ doing' = [doing EXCEPT !.phase = "fields", !.made = at]
    /\ UNCHANGED <<wires, born, aliases, applied, failedAt, picture, intent, refused>>

\* The result names the path TouchDesigner gave; run_mutate_steps keeps the alias.
FieldsWritten ==
    /\ doing # None /\ doing.phase = "fields"
    /\ aliases' = AliasesAfter(doing.requested, doing.made)
    /\ intent' = With(Without(intent, Under(doing.requested)), doing.requested,
                      scene[doing.made])
    /\ StepApplied([picture EXCEPT !.ops = @ \cup {doing.made}])
    /\ UNCHANGED <<scene, wires>>

FieldsRefusedKeepingNode ==
    /\ doing # None /\ doing.phase = "fields"
    /\ StepFailed /\ UNCHANGED <<scene, wires, refused>>

FieldsRefused ==
    /\ doing # None /\ doing.phase = "fields"
    /\ StepFailed /\ Rollback(doing.made)

-----------------------------------------------------------------------------
(* The other steps; expect is read first and refuses the step.             *)

StepSet(p) ==
    /\ MutateReady
    /\ \/ Resolves(p) /\ StepChanges(picture) /\ UNCHANGED <<scene, wires>>
       \/ StepRefused

StepDelete(p) ==
    /\ MutateReady
    /\ \/ /\ Resolves(p) /\ Destroy(Remap(p))
          /\ StepChanges([ops |-> picture.ops \ Under(Remap(p)),
                          wires |-> Unwired(picture.wires, Under(Remap(p)))])
       \/ StepRefused

\* onOccupied "error" leaves an occupied input alone, and a wire that is there as it is.
StepConnect(s, d, policy) ==
    /\ MutateReady
    /\ \/ /\ Resolves(s) /\ Resolves(d)
          /\ policy = "error" /\ Remap(d) \in DOMAIN wires => wires[Remap(d)] = Remap(s)
          /\ wires' = With(wires, Remap(d), Remap(s))
          /\ StepChanges([picture EXCEPT !.wires = With(@, Remap(d), Remap(s))])
          /\ UNCHANGED scene
       \/ StepRefused

StepDisconnect(p) ==
    /\ MutateReady
    /\ \/ /\ Resolves(p)
          /\ wires' = Without(wires, {Remap(p)})
          /\ StepChanges([picture EXCEPT !.wires = Without(@, {Remap(p)})])
          /\ UNCHANGED scene
       \/ StepRefused

-----------------------------------------------------------------------------
MutateNext ==
    \/ \E p \in Asked : StepCreate(p) \/ StepPlace(p) \/ StepSet(p) \/ StepDelete(p)
                        \/ StepDisconnect(p)
    \/ \E s, d \in Asked, policy \in {"replace", "error"} : StepConnect(s, d, policy)
    \/ PlaceUnwrap \/ PlaceName \/ FieldsWritten \/ FieldsRefused

MutateSpec == MutateInit /\ [][MutateNext]_mutateVars

-----------------------------------------------------------------------------
(* Properties.                                                             *)

PathOf(op) == CHOOSE p \in DOMAIN scene : scene[p] = op

\* "create-intent wins": after any steps, a path leads to the operator that the latest
\* create or place asking for it made, as long as that is there, and a longer path to
\* what is below that operator; never to an operator that had the name before.
CreateIntentWins ==
    \A p \in Asked :
        LET asked == {q \in DOMAIN intent : IsPrefix(q, p)}
            made == intent[Longest(asked)]
        IN  asked # {} /\ made \in Range(scene) =>
                Remap(p) = PathOf(made) \o Below(p, Longest(asked))

\* The results tell the scene: operators and wires are what was there before, changed
\* by the steps reported as applied and by nothing else.  A create or place that fails
\* half-way leaves no operator and a palette wrapper never stays, unless TouchDesigner
\* refuses to destroy it.
ResultsTellTheScene ==
    /\ MutateTypeOK
    /\ doing = None /\ ~refused => DOMAIN scene = picture.ops /\ wires = picture.wires

\* What a client concludes from a batch is so: its paths lead to what it made, and the
\* results add up to the scene.
BatchIsAsTold == CreateIntentWins /\ ResultsTellTheScene

-----------------------------------------------------------------------------
(* What the docs promise and the code does not keep (README, Findings).    *)

\* "later steps whose path/src/dst absolutize to the requested create path are remapped
\* to the actual created op": a rewritten path leads to that operator or nowhere.
RemapLeadsToTheCreated ==
    doing = None =>
        \A p \in DOMAIN intent \cap DOMAIN aliases : Resolves(p) => scene[Remap(p)] = intent[p]
=============================================================================
