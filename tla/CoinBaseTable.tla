--------------------------- MODULE CoinBaseTable ---------------------------
(***************************************************************************)
(* What the coinbase UTXO table promises its callers (spec, Persistence   *)
(* and Errors): one row per stored coinbase UTXO, keyed by its tx hash,   *)
(* with its block height and spent flag; every mutation is a database     *)
(* transaction that either commits all of its writes and reports success, *)
(* or commits none of them ("Database errors inside a batch roll back")  *)
(* and reports failure.  A batch is a function from the hashes it names  *)
(* to their new values: its order does not matter to an atomic write.    *)
(***************************************************************************)
CONSTANTS
    Hash,       \* tx hashes of coinbase UTXOs
    Height      \* block heights a row may carry

VARIABLES
    rows,       \* [stored hashes -> [h, spent]]
    result      \* what the last call returned, or "none" before any

vars == <<rows, result>>

Row == [h : Height, spent : BOOLEAN]

Init == rows = [x \in {} |-> {}] /\ result = "none"

\* A call either commits its whole effect new and returns true ("ok"), or leaves
\* the table as it was and returns false ("failed").
Commit(new) ==
    \/ rows' = new /\ result' = "ok"
    \/ UNCHANGED rows /\ result' = "failed"

\* Override the rows the batch names, keep the others.
Merge(b, old) ==
    [x \in DOMAIN old \cup DOMAIN b |-> IF x \in DOMAIN b THEN b[x] ELSE old[x]]

PutAll(b) == Commit(Merge([x \in DOMAIN b \ DOMAIN rows |-> b[x]], rows))

UpdateAll(hs, h) ==
    Commit(Merge([x \in hs \cap DOMAIN rows |-> [rows[x] EXCEPT !.h = h]], rows))

UpdateSpentAll(b) ==
    Commit(Merge([x \in DOMAIN b \cap DOMAIN rows |-> [rows[x] EXCEPT !.spent = b[x]]], rows))

DeleteOne(x) == Commit([y \in DOMAIN rows \ {x} |-> rows[y]])

DeleteEvery == Commit([x \in {} |-> {}])

\* Any call of the table's interface, with inputs from small sets.
Next ==
    \/ \E S \in SUBSET Hash : \E b \in [S -> Row] : PutAll(b)
    \/ \E hs \in SUBSET Hash, h \in Height : UpdateAll(hs, h)
    \/ \E S \in SUBSET Hash : \E b \in [S -> BOOLEAN] : UpdateSpentAll(b)
    \/ \E x \in Hash : DeleteOne(x)
    \/ DeleteEvery

Spec == Init /\ [][Next]_vars

====
