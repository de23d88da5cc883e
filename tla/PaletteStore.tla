---------------------------- MODULE PaletteStore ---------------------------
(***************************************************************************)
(* The palette index (tdmcp-projectio palette.rs) under the tool calls     *)
(* that edit it (tdmcp-mcp palette.rs, tools.rs).  index.json is loaded    *)
(* into a call and saved back as a whole, with no lock in between, so the  *)
(* edits of two calls may meet.  A probe is planned, recorded as in        *)
(* flight, sent to TouchDesigner and folded back when it reports.          *)
(***************************************************************************)
EXTENDS Absent, Naturals, FiniteSets

CONSTANTS
    Toxes,           \* components in the palette folders
    Callers,         \* tool calls that may run at once
    AutoIgnoreAfter, \* failures in a row that blacklist a component
    MaxTorn          \* bound on crashes in the middle of a save

ASSUME PaletteAssumption ==
    /\ AutoIgnoreAfter \in Nat \ {0} /\ MaxTorn \in Nat
    /\ None \notin Callers

VARIABLES
    index,   \* index.json: an index, or None when it cannot be read
    ppc,     \* ppc[k]: where call k stands
    copy,    \* copy[k]: the index call k has loaded
    batch,   \* batch[k]: the components call k probes
    sent,    \* components TouchDesigner was ever asked to load
    torn,
    \* What happened, which no call reads:
    strikes,  \* strikes[t]: failures in a row that probes reported of the entry of t
    clobbered \* the components whose count a save overwrote with one it had loaded before

tallies == <<strikes, clobbered>>
paletteVars == <<index, ppc, copy, batch, sent, torn, tallies>>

Index == [known : SUBSET Toxes, inflight : SUBSET Toxes,
          suspect : SUBSET Toxes, patterns : SUBSET Toxes, ignored : SUBSET Toxes,
          fails : [Toxes -> 0 .. AutoIgnoreAfter]]

EmptyIndex ==
    [known |-> {}, inflight |-> {}, suspect |-> {}, patterns |-> {},
     ignored |-> {}, fails |-> [t \in Toxes |-> 0]]

PaletteTypeOK ==
    /\ index \in Index \cup {None}
    /\ ppc \in [Callers -> {"idle", "loaded", "planned", "sent", "reported", "neverSent", "clear"}]
    /\ copy \in [Callers -> Index]
    /\ batch \in [Callers -> SUBSET Toxes]
    /\ sent \subseteq Toxes /\ torn \in 0 .. MaxTorn
    /\ strikes \in [Toxes -> 0 .. AutoIgnoreAfter] /\ clobbered \subseteq Toxes

PaletteInit ==
    /\ index = EmptyIndex
    /\ ppc = [k \in Callers |-> "idle"]
    /\ copy = [k \in Callers |-> EmptyIndex]
    /\ batch = [k \in Callers |-> {}]
    /\ sent = {} /\ torn = 0
    /\ strikes = [t \in Toxes |-> 0] /\ clobbered = {}

-----------------------------------------------------------------------------
(* What the calls do to an index.                                          *)

\* An entry that goes takes its ledger with it.
Without(i, ts) ==
    [i EXCEPT !.known = @ \ ts, !.suspect = @ \ ts, !.ignored = @ \ ts,
              !.fails = [t \in Toxes |-> IF t \in ts THEN 0 ELSE @[t]]]

\* scan_into: every component on disk has an entry.
ScanInto(i) == [i EXCEPT !.known = Toxes]

\* action_scan: what is still in flight is suspect.
Scanned(i) ==
    ScanInto([i EXCEPT !.suspect = @ \cup (i.inflight \cap i.known), !.inflight = {}])

\* is_ignored
IsIgnored(i, t) == t \in i.ignored \cup i.patterns

\* unignore clears the blacklist entry, the flag and the count.
UnignoredFlagOnly(i, t) == [i EXCEPT !.patterns = @ \ {t}, !.ignored = @ \ {t}]

Unignored(i, t) ==
    [i EXCEPT !.patterns = @ \ {t},
              !.ignored = @ \ {t},
              !.fails[t] = IF t \in i.known THEN 0 ELSE @]

\* record_probe of a batch of which the components in bad failed.
Struck(i, bad) ==
    [t \in Toxes |-> IF t \notin bad \cap i.known THEN i.fails[t]
                     ELSE IF i.fails[t] < AutoIgnoreAfter THEN i.fails[t] + 1 ELSE i.fails[t]]

Recorded(i, ts, bad) ==
    LET fails == [t \in Toxes |-> IF t \in (ts \ bad) \cap i.known THEN 0 ELSE Struck(i, bad)[t]]
    IN [i EXCEPT !.inflight = {},
                 !.suspect = @ \ ts,
                 !.fails = fails,
                 !.ignored = @ \cup {t \in bad \cap i.known : fails[t] >= AutoIgnoreAfter}]

-----------------------------------------------------------------------------
CallAt(k, l) == ppc[k] = l
CallTo(k, l) == ppc' = [ppc EXCEPT ![k] = l]

\* load: an index that cannot be read fails every call, a scan included.
Load(k, l) ==
    /\ index # None
    /\ copy' = [copy EXCEPT ![k] = index]
    /\ CallTo(k, l)
    /\ UNCHANGED <<index, sent, torn, tallies>>

\* Every action starts with the load; which one it is shows when it saves.
CallLoads(k) == CallAt(k, "idle") /\ Load(k, "loaded") /\ UNCHANGED batch

\* The entry of t in the file is the one call k has loaded, its count included.
UpToDate(k, t) ==
    /\ index.fails[t] = copy[k].fails[t]
    /\ t \in index.known <=> t \in copy[k].known

\* A save that reports a failure of the components in bad, and that clears the count of
\* those in cleared.
Tally(k, bad, cleared) ==
    /\ strikes' = [t \in Toxes |->
                      IF t \in cleared THEN 0
                      ELSE IF t \in bad \cap index.known /\ strikes[t] < AutoIgnoreAfter
                           THEN strikes[t] + 1 ELSE strikes[t]]
    /\ clobbered' = (clobbered \cup {t \in Toxes : ~UpToDate(k, t)}) \ cleared

\* save, and what the call goes on with.
Save(k, i, l) ==
    /\ index' = i
    /\ CallTo(k, l)
    /\ copy' = [copy EXCEPT ![k] = EmptyIndex]

\* A save that is about no component's count.
SaveRest(k, i, l) == Save(k, i, l) /\ Tally(k, {}, {})

\* scan, describe, ignore, unignore and forget.  A description changes the card and the entry's texts only: it saves the rest of the
\* index as it was loaded.
Edit(k) ==
    /\ CallAt(k, "loaded")
    /\ \/ SaveRest(k, Scanned(copy[k]), "idle")
       \/ copy[k].known # {} /\ SaveRest(k, copy[k], "idle")
       \/ \E t \in Toxes : SaveRest(k, [copy[k] EXCEPT !.patterns = @ \cup {t}], "idle")
       \/ \E t \in Toxes : Save(k, Unignored(copy[k], t), "idle") /\ Tally(k, {}, {t})
       \/ \E ts \in SUBSET copy[k].known :
             Save(k, Without(copy[k], ts), "idle") /\ Tally(k, {}, ts)
    /\ UNCHANGED <<batch, sent, torn>>

\* A call that names an entry there is not returns an error.
CallRefused(k) ==
    /\ CallAt(k, "loaded") /\ copy[k].known = {}
    /\ CallTo(k, "idle")
    /\ copy' = [copy EXCEPT ![k] = EmptyIndex]
    /\ UNCHANGED <<index, batch, sent, torn, tallies>>

\* plan_probe: components that are ignored only when they are asked for.  The batch is
\* written down as in flight, also when there is none.
Plan(k) ==
    /\ CallAt(k, "loaded") /\ copy[k].known # {}
    /\ \E ts \in SUBSET copy[k].known, forced \in BOOLEAN :
          LET chosen == {t \in ts : forced \/ ~IsIgnored(copy[k], t)}
          IN /\ batch' = [batch EXCEPT ![k] = chosen]
             /\ SaveRest(k, [copy[k] EXCEPT !.inflight = chosen],
                         IF chosen = {} THEN "idle" ELSE "planned")
    /\ UNCHANGED <<sent, torn>>

\* begin_session_slot comes after the plan: a session that is busy on this process
\* gets an error here.
SlotRefused(k) ==
    /\ CallAt(k, "planned")
    /\ CallTo(k, "idle")
    /\ batch' = [batch EXCEPT ![k] = {}]
    /\ UNCHANGED <<index, copy, sent, torn, tallies>>

\* The batch reaches TouchDesigner, or provably does not.
Dispatch(k) ==
    /\ CallAt(k, "planned")
    /\ \/ CallTo(k, "sent") /\ sent' = sent \cup batch[k]
       \/ CallTo(k, "neverSent") /\ sent' = sent
    /\ UNCHANGED <<index, copy, batch, torn, tallies>>

\* A timeout or a disconnect in the middle: the breadcrumb stays.
ProbeLost(k) ==
    /\ CallAt(k, "sent")
    /\ CallTo(k, "idle")
    /\ batch' = [batch EXCEPT ![k] = {}]
    /\ UNCHANGED <<index, copy, sent, torn, tallies>>

\* TouchDesigner reports, or clear_inflight is called for: the index is loaded again.
ReloadIndex(k) ==
    /\ \/ CallAt(k, "sent") /\ Load(k, "reported")
       \/ CallAt(k, "neverSent") /\ Load(k, "clear")
    /\ UNCHANGED batch

\* ... and saved.  Only an index that has something in flight is saved by clear_inflight.
FoldBack(k) ==
    /\ \/ /\ CallAt(k, "reported")
          /\ \E bad \in SUBSET batch[k] :
                /\ Save(k, Recorded(copy[k], batch[k], bad), "idle")
                /\ Tally(k, bad, batch[k] \ bad)
       \/ /\ CallAt(k, "clear")
          /\ \/ copy[k].inflight # {} /\ SaveRest(k, [copy[k] EXCEPT !.inflight = {}], "idle")
             \/ /\ copy[k].inflight = {} /\ CallTo(k, "idle") /\ UNCHANGED <<index, tallies>>
                /\ copy' = [copy EXCEPT ![k] = EmptyIndex]
    /\ batch' = [batch EXCEPT ![k] = {}]
    /\ UNCHANGED <<sent, torn>>

\* The index cannot be read when a probe comes back: ledgerError.
FoldBackFails(k) ==
    /\ ppc[k] \in {"sent", "neverSent"} /\ index = None
    /\ CallTo(k, "idle")
    /\ batch' = [batch EXCEPT ![k] = {}]
    /\ UNCHANGED <<index, copy, sent, torn, tallies>>

\* The calls that have loaded the index and save it next.
Saving == {"loaded", "reported", "clear"}

\* The daemon dies.  fs::write truncates before it writes, so a save under way leaves a
\* file that no longer parses.
PaletteCrash ==
    /\ ppc' = [k \in Callers |-> "idle"]
    /\ copy' = [k \in Callers |-> EmptyIndex]
    /\ batch' = [k \in Callers |-> {}]
    /\ \/ UNCHANGED <<index, torn>>
       \/ /\ \E k \in Callers : ppc[k] \in Saving
          /\ torn < MaxTorn /\ torn' = torn + 1
          /\ index' = None
    /\ UNCHANGED <<sent, tallies>>

PaletteNext ==
    \/ \E k \in Callers :
          \/ CallLoads(k) \/ Edit(k) \/ CallRefused(k) \/ Plan(k) \/ SlotRefused(k)
          \/ Dispatch(k) \/ ProbeLost(k) \/ ReloadIndex(k) \/ FoldBack(k) \/ FoldBackFails(k)
    \/ PaletteCrash

PaletteSpec == PaletteInit /\ [][PaletteNext]_paletteVars

-----------------------------------------------------------------------------
(* Properties.                                                             *)

\* record_probe counts the failures in a row that were reported of a component, through
\* plans, edits, crashes and probes of other calls, and blacklists it when they are
\* AutoIgnoreAfter.  This is so of a component as long as no save overwrote its count
\* with one loaded before it changed; from then on it is so again once a success, an
\* unignore or a forget has set the count to 0.
RepeatOffenderIsIgnored ==
    /\ PaletteTypeOK
    /\ index # None =>
          \A t \in Toxes \ clobbered :
             /\ index.fails[t] = strikes[t]
             /\ strikes[t] >= AutoIgnoreAfter => t \in index.ignored

-----------------------------------------------------------------------------
(* What a comment promises and the code does not keep (README, Findings).  *)

\* A scan does not "accuse innocent components of wedging TD": what it marks suspect
\* was sent to TouchDesigner, or a call is about to.
SuspectsWereLoaded ==
    index # None => index.suspect \subseteq sent \cup UNION {batch[k] : k \in Callers}

\* "An entry that fails twice auto-ignores itself so the next bulk run does not re-hit
\* it": a call that loaded the index before a failure was counted and saves after it
\* takes the failure back, whatever it was about.
EveryFailureCounts ==
    index # None => \A t \in Toxes : strikes[t] >= AutoIgnoreAfter => t \in index.ignored
=============================================================================
