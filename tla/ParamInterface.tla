--------------------------- MODULE ParamInterface --------------------------
(***************************************************************************)
(* param_interface inside TouchDesigner: the custom parameters of a COMP   *)
(* are exported as definitions, and definitions are applied to a COMP      *)
(* (param_interface.py).  An apply adds what is missing, one definition    *)
(* after the other, removes nothing and reports each of them.              *)
(*                                                                         *)
(* A parameter is its type and, where it is a menu, its items; labels,     *)
(* defaults, ranges and expressions are attributes a refusal of which only *)
(* marks the step, and are left out.  "other" is any type the is*          *)
(* predicates do not tell (classify answers "unknown").  One call runs on  *)
(* the main thread without a break; the user edits the panel between       *)
(* calls.                                                                  *)
(***************************************************************************)
EXTENDS Absent, Naturals, Sequences, SequencesExt

CONSTANTS
    PageNames, ParNames,
    ItemLists,     \* lists of menu items, as sequences
    NoItems,       \* the items of a menu TouchDesigner has just made
    MaxItems,      \* INTERFACE_MAX_MENU_ITEMS
    MaxDefs,       \* INTERFACE_MAX_APPLY_STEPS, and the bound on exported definitions
    SomeBatches,   \* the definitions callers send, besides what export gives them
    MaxApplies,    \* bound on calls
    MaxPanelEdits  \* bound on edits of the user

CreatableTypes == {"menu", "float"}
Types == CreatableTypes \cup {"other"}
Parameters == [type : Types, items : ItemLists]
Definitions ==
    [name : ParNames, page : PageNames, type : Types,
     items : ItemLists \cup {None}] \cup {None}
Statuses == {"created", "unchanged", "skipped", "failed"}

NoPars == [n \in ParNames |-> None]
CutItems(items) == SubSeq(items, 1, IF Len(items) < MaxItems THEN Len(items) ELSE MaxItems)

\* A panel is finite, a menu that is cut is a menu, and None is none of these.
ASSUME InterfaceAssumption ==
    /\ MaxItems \in Nat \ {0} /\ {MaxDefs, MaxApplies, MaxPanelEdits} \subseteq Nat
    /\ IsFiniteSet(PageNames) /\ IsFiniteSet(ParNames)
    /\ NoItems \in ItemLists /\ \A items \in ItemLists : CutItems(items) \in ItemLists
    /\ SomeBatches \subseteq Seq(Definitions)
    /\ None \notin Parameters \cup [ParNames -> Parameters \cup {None}]

VARIABLES
    panel,      \* page -> parameter name -> parameter or None; None for no such page
    applying,      \* the definitions being applied
    steps,      \* what was done with each so far
    panelBefore,     \* the panel when the call began
    lastBatch,  \* the batch before, and its steps, if the panel was not edited since
    displacedPars,  \* TouchDesigner took a name from another page for a new parameter
    applies, edits

interfaceVars == <<panel, applying, steps, panelBefore, lastBatch, displacedPars, applies, edits>>

Applying == applying # <<>>

InterfaceTypeOK ==
    /\ \A p \in PageNames : panel[p] # None =>
         \A n \in ParNames : panel[p][n] # None => panel[p][n] \in Parameters
    /\ applying \in Seq(Definitions) /\ Len(applying) <= MaxDefs
    /\ steps \in Seq(Statuses) /\ Len(steps) <= Len(applying)
    /\ displacedPars \in BOOLEAN

InterfaceInit ==
    /\ panel = [p \in PageNames |-> None]
    /\ applying = <<>> /\ steps = <<>> /\ panelBefore = panel
    /\ lastBatch = None /\ displacedPars = FALSE
    /\ applies = 0 /\ edits = 0

----------------------------------------------------------------------------
\* Reading the panel.

\* _pars_by_name: what a page holds under a name.
PageAt(pn, p, n) == IF pn[p] = None THEN None ELSE pn[p][n]

\* The definition that one parameter is exported as.
ParamEntry(p, n) ==
    LET par == PageAt(panel, p, n)
    IN  [name |-> n, page |-> p, type |-> par.type,
         items |-> IF par.type = "menu" /\ par.items # <<>> THEN CutItems(par.items) ELSE None]

\* export_interface, and its entries sent back as definitions; pages in some order.
ExportInterface ==
    LET places == {pl \in PageNames \X ParNames : PageAt(panel, pl[1], pl[2]) # None}
        order == SetToSeq(places)
    IN  [i \in DOMAIN order |-> ParamEntry(order[i][1], order[i][2])]

----------------------------------------------------------------------------
\* Applying definitions.

\* An empty batch, too long a batch, no such operator or none that has an interface: the
\* call is refused and nothing happens.
BeginApply(defs) ==
    /\ ~Applying /\ applies < MaxApplies
    /\ defs # <<>> /\ Len(defs) <= MaxDefs
    /\ applying' = defs
    /\ applies' = applies + 1
    /\ UNCHANGED <<panel, steps, panelBefore, lastBatch, displacedPars, edits>>

Definition == applying[Len(steps) + 1]
More == Applying /\ Len(steps) < Len(applying)

PanelTold(status) ==
    /\ steps' = Append(steps, status)
    /\ UNCHANGED <<applying, panelBefore, lastBatch, applies, edits>>

\* _validate_definition: malformed, or of a type that cannot be created.
Unusable(d) == d = None \/ (d # None /\ d.type \notin CreatableTypes)

SkipUnusable ==
    /\ More /\ Unusable(Definition)
    /\ PanelTold("skipped") /\ UNCHANGED <<panel, displacedPars>>

\* The page is not there and cannot be made.
FailPage ==
    /\ More /\ ~Unusable(Definition) /\ panel[Definition.page] = None
    /\ PanelTold("failed") /\ UNCHANGED <<panel, displacedPars>>

\* The bug of looking at the type of an existing menu only.
MatchesType(par, d) == par.type = d.type

\* _matches_existing: the same type and, where items are asked for, the same items.
MatchesExisting(par, d) ==
    /\ par.type = d.type
    /\ d.type = "menu" /\ d.items # None => par.items = CutItems(d.items)

\* The parameter is there: it is as asked for, or it is left as it is.
KeepExisting ==
    /\ More /\ ~Unusable(Definition)
    /\ LET par == PageAt(panel, Definition.page, Definition.name)
       IN  /\ par # None
           /\ PanelTold(IF MatchesExisting(par, Definition) THEN "unchanged" ELSE "skipped")
    /\ UNCHANGED <<panel, displacedPars>>

\* The page is there, or is made now.
WithPage(pn, p) == IF pn[p] = None THEN [pn EXCEPT ![p] = NoPars] ELSE pn

\* TouchDesigner's answer to a name that another page has: names are unique in a COMP, and
\* append either refuses or takes the name over.
Elsewhere(d) == {p \in PageNames \ {d.page} : PageAt(panel, p, d.name) # None}
WithoutElsewhere(d) ==
    [p \in PageNames |-> IF p \in Elsewhere(d) THEN [panel[p] EXCEPT ![d.name] = None]
                         ELSE panel[p]]

\* The append is refused ("failed") or there is no such method on the page ("skipped"); the
\* page stays.
AppendRefused ==
    /\ More /\ ~Unusable(Definition)
    /\ PageAt(panel, Definition.page, Definition.name) = None
    /\ panel' = WithPage(panel, Definition.page)
    /\ PanelTold("failed") \/ PanelTold("skipped")
    /\ UNCHANGED displacedPars

\* The parameter is made; the items of a menu are a second step that may be refused, which
\* does not demote the first.
Created(items) ==
    /\ More /\ ~Unusable(Definition)
    /\ PageAt(panel, Definition.page, Definition.name) = None
    /\ panel' = [WithPage(WithoutElsewhere(Definition), Definition.page)
                   EXCEPT ![Definition.page][Definition.name] =
                     [type |-> Definition.type, items |-> items]]
    /\ displacedPars' = (displacedPars \/ Elsewhere(Definition) # {})
    /\ PanelTold("created")

AppendCreates ==
    \/ Created(NoItems)
    \/ /\ More /\ Definition # None /\ Definition.type = "menu" /\ Definition.items # None
       /\ Created(CutItems(Definition.items))

EndApply ==
    /\ Applying /\ ~More
    /\ applying' = <<>> /\ steps' = <<>> /\ panelBefore' = panel /\ displacedPars' = FALSE
    /\ lastBatch' = [defs |-> applying, steps |-> steps, displacedPars |-> displacedPars]
    /\ UNCHANGED <<panel, applies, edits>>

\* The user adds, changes or removes a parameter.
EditPanel(p, n, par) ==
    /\ ~Applying /\ edits < MaxPanelEdits
    /\ PageAt(panel, p, n) # par
    /\ par # None => \A q \in PageNames \ {p} : PageAt(panel, q, n) = None
    /\ panel' = [WithPage(panel, p) EXCEPT ![p][n] = par]
    /\ panelBefore' = panel' /\ lastBatch' = None /\ edits' = edits + 1
    /\ UNCHANGED <<applying, steps, displacedPars, applies>>

Batches == SomeBatches \cup {ExportInterface}
                       \cup (IF lastBatch = None THEN {} ELSE {lastBatch.defs})

InterfaceNext ==
    \/ \E defs \in Batches : BeginApply(defs)
    \/ SkipUnusable \/ FailPage \/ KeepExisting \/ AppendRefused \/ AppendCreates
    \/ EndApply
    \/ \E p \in PageNames, n \in ParNames, par \in Parameters \cup {None} :
         EditPanel(p, n, par)

InterfaceSpec == InterfaceInit /\ [][InterfaceNext]_interfaceVars

----------------------------------------------------------------------------
\* Properties.

ApplyDone(i) == applying[i]
Repeated == lastBatch # None /\ lastBatch.defs = applying /\ ~lastBatch.displacedPars

\* Whatever an apply does, a parameter that was there is there afterwards, as it was,
\* unless TouchDesigner gave its name to a parameter on another page (param_interface.py
\* 35-38, "never removes", and 46-48, never a silent conversion).
NothingIsLost ==
    Applying => \A p \in PageNames, n \in ParNames :
        PageAt(panelBefore, p, n) # None =>
            \/ PageAt(panel, p, n) = PageAt(panelBefore, p, n)
            \/ displacedPars /\ \E i \in DOMAIN steps :
                 steps[i] = "created" /\ ApplyDone(i).name = n /\ ApplyDone(i).page # p

\* What is told unchanged is as asked for, items too, whatever an earlier apply left half
\* done (332-356), and what is told created is there.
StepsAreTrue ==
    Applying /\ ~displacedPars => \A i \in DOMAIN steps :
        LET par == PageAt(panel, ApplyDone(i).page, ApplyDone(i).name)
        IN  /\ steps[i] \in {"created", "unchanged"} =>
                 par # None /\ par.type = ApplyDone(i).type
            /\ steps[i] = "unchanged" /\ ApplyDone(i).type = "menu" /\ ApplyDone(i).items # None =>
                 par.items = CutItems(ApplyDone(i).items)

\* The same definitions again create nothing that was created or unchanged before
\* (40-44, "must converge"), if the panel was not edited and no name displaced.
ApplyConverges ==
    Applying /\ Repeated /\ ~displacedPars => \A i \in DOMAIN steps :
        steps[i] = "created" => lastBatch.steps[i] \in {"failed", "skipped"}

\* What is reported of the panel is so, and nothing else happens to it.
PanelIsAsTold == NothingIsLost /\ StepsAreTrue /\ ApplyConverges

\* Not so where append takes a name over: "Applying an interface adds what is missing and
\* never removes" (35), but only the page asked for is looked at (422).
ApplyIsAdditive ==
    Applying => \A p \in PageNames, n \in ParNames :
        PageAt(panelBefore, p, n) # None => PageAt(panel, p, n) = PageAt(panelBefore, p, n)
=============================================================================
