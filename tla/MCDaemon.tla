------------------------------ MODULE MCDaemon -----------------------------
(* The daemon among the other processes, on small instances: the link a    *)
(* stdio proxy keeps to it, how it starts and stops, how it reports to     *)
(* another one, and what it sees of the windows of TouchDesigner.  part    *)
(* says which of them this behaviour is about; the others stay where they  *)
(* start.                                                                  *)
EXTENDS DaemonLink, DaemonStart, Federation, Dialogs, TLC

CONSTANTS c1, c2, e1, e2, d0, d1, d2, s1, p1, main, dlg, next, aide, k1

VARIABLE part

\* The editor, a dialog, one that may follow it, and a window that is no dialog: as
\* user32 describes them, and as the accessibility interface of macOS does.
Window(title, helper, verdict) == [title |-> title, helper |-> helper, verdict |-> verdict]
User32 ==
    (main :> Window("editor", FALSE, None)) @@ (aide :> Window("other", TRUE, None)) @@
    (dlg :> Window("other", FALSE, None)) @@ (next :> Window("other", FALSE, None))
Accessibility ==
    (main :> Window("editor", FALSE, "standard")) @@ (aide :> Window("none", FALSE, None)) @@
    (dlg :> Window("none", FALSE, "dialog")) @@ (next :> Window("other", FALSE, None))
TwoPlatforms == {User32, Accessibility}

\* The dialog asks ok or no; the call that wants it gone says no.
Button(label, dflt) == [label |-> label, ctrl |-> TRUE, dflt |-> dflt]
OkOrNo ==
    [w \in Windows |-> IF w = dlg THEN <<Button("ok", TRUE), Button("no", FALSE)>> ELSE <<>>]
TheDialog == k1 :> dlg
SayNo == k1 :> "no"

\* Where the federation rests, there is no coordinator.
Init ==
    /\ part \in {"link", "start", "federation", "dialogs"}
    /\ LinkInit
    /\ StartInit /\ (part # "start" => ensureLock = None)
    /\ FederationInit /\ (part # "federation" => role = "local")
    /\ DialogInit /\ (part # "dialogs" => look = User32 /\ act[k1].pc = "absent")

Next ==
    \/ /\ part = "link" /\ LinkNext
       /\ UNCHANGED <<part, startVars, fedVars, dialogVars>>
    \/ /\ part = "start" /\ StartNext
       /\ UNCHANGED <<part, linkVars, fedVars, dialogVars>>
    \/ /\ part = "federation" /\ FederationNext
       /\ UNCHANGED <<part, linkVars, startVars, dialogVars>>
    \/ /\ part = "dialogs" /\ DialogNext
       /\ UNCHANGED <<part, linkVars, startVars, fedVars>>

\* The coordinator follows its role and a slave goes on reporting; how often anybody
\* lists the slaves, and how long a push takes to arrive, is open.
FederationFairness ==
    /\ WF_fedVars(Follow)
    /\ \A s \in Slaves : WF_fedVars(part = "federation" /\ Report(s))

Safety == Init /\ [][Next]_<<part, linkVars, startVars, fedVars, dialogVars>>

\* No step of the link's fairness is enabled where the link rests, nor of the dialogs'
\* but the sweeper's.
Spec ==
    /\ Safety /\ LinkFairness /\ FederationFairness
    /\ WF_dialogVars(Work) /\ WF_dialogVars(CacheExpires)
    /\ WF_dialogVars(part = "dialogs" /\ Sweeping)
=============================================================================
