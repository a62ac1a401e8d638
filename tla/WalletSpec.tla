----------------------------- MODULE WalletSpec -----------------------------
(***************************************************************************)
(* What the wallet promises its callers about its transactions (spec      *)
(* section 3 and the descriptions of the four mutators), without locks,   *)
(* indices, pools or listeners.  The ledger is a function from the hashes *)
(* of the wallet's txs to their block heights, Unconfirmed for a pending  *)
(* tx.  Each step is one of:                                              *)
(*   Add        RegisterTransaction of a new tx, at any height;           *)
(*   Confirm    UpdateTransactions: pending txs become confirmed at h;    *)
(*   Unconfirm  SetTxUnconfirmedAfter(h): every tx confirmed above h      *)
(*              becomes pending, none other changes;                      *)
(*   Remove     RemoveTransaction of a tx no other wallet tx spends (its  *)
(*              dependents are removed first, each by its own Remove).    *)
(***************************************************************************)
EXTENDS Integers

CONSTANTS
    Tx,            \* tx hashes
    Heights,       \* the block heights a tx can be confirmed at
    Unconfirmed,   \* the height of a pending tx, not in Heights
    Spends(_, _)   \* Spends(u, t): u has an input spending an output of t

VARIABLE ledger

TypeOK ==
    \E S \in SUBSET Tx : ledger \in [S -> Heights \cup {Unconfirmed}]

Init == ledger = [t \in {} |-> Unconfirmed]

Add(t, h) ==
    /\ t \notin DOMAIN ledger
    /\ ledger' = [u \in DOMAIN ledger \cup {t} |-> IF u = t THEN h ELSE ledger[u]]

Confirm(S, h) ==
    /\ \A t \in S : ledger[t] = Unconfirmed
    /\ ledger' = [t \in DOMAIN ledger |-> IF t \in S THEN h ELSE ledger[t]]

Unconfirm(h) ==
    ledger' = [t \in DOMAIN ledger |->
                 IF ledger[t] \in Heights /\ ledger[t] > h THEN Unconfirmed
                 ELSE ledger[t]]

Remove(t) ==
    /\ ~\E u \in DOMAIN ledger \ {t} : Spends(u, t)
    /\ ledger' = [u \in DOMAIN ledger \ {t} |-> ledger[u]]

Next ==
    \/ \E t \in Tx \ DOMAIN ledger, h \in Heights \cup {Unconfirmed} : Add(t, h)
    \/ \E S \in SUBSET DOMAIN ledger, h \in Heights : Confirm(S, h)
    \/ \E h \in {0} \cup Heights : Unconfirm(h)
    \/ \E t \in DOMAIN ledger : Remove(t)

Spec == Init /\ [][Next]_ledger
====
