--------------------------- MODULE ReceiptLedger ---------------------------
(* What the operation journal promises about every receipt, with no table,  *)
(* clock, guard or daemon in it.  A receipt is                              *)
(*   fresh      not yet admitted,                                           *)
(*   active     admitted, its caller still waiting,                         *)
(*   observed   settled from a result the daemon saw,                       *)
(*   uncertain  its wait ended with the effect unknown,                     *)
(*   forgotten  dropped from the retained history.                          *)
(* An active receipt is never forgotten, an uncertain one never becomes an  *)
(* observation, an observation is never revised, and no receipt returns.    *)
EXTENDS Naturals

CONSTANT Ids

VARIABLE ledger

Phases == {"fresh", "active", "observed", "uncertain", "forgotten"}

Successors ==
    [fresh     |-> {"fresh", "active"},
     active    |-> {"active", "observed", "uncertain"},
     observed  |-> {"observed", "forgotten"},
     uncertain |-> {"uncertain", "forgotten"},
     forgotten |-> {"forgotten"}]

Init == ledger = [i \in Ids |-> "fresh"]

\* One step may settle, lose or forget any number of receipts (recovery and
\* pruning act on the whole table), but admits at most one.
Next ==
    /\ ledger' \in [Ids -> Phases]
    /\ \A i \in Ids : ledger'[i] \in Successors[ledger[i]]
    /\ \A i, j \in Ids :
         /\ ledger[i] = "fresh" /\ ledger'[i] = "active"
         /\ ledger[j] = "fresh" /\ ledger'[j] = "active"
         => i = j

Spec == Init /\ [][Next]_ledger
=============================================================================
