-------------------------- MODULE MC_WalletQueries --------------------------
(***************************************************************************)
(* Checks GetAllCoinBaseTransaction over every call on a bounded set of   *)
(* inputs: each initial state holds one _coinBaseUTXOs sequence (a        *)
(* coinbase tx may pay the wallet in several outputs, so hashes repeat)  *)
(* and one (start, count, txID); no step changes them.  UInt32Mod is 8,  *)
(* so every start below maxCount meets a count whose sum with it wraps,   *)
(* as start = 1, count = UINT32_MAX ("all of them") does in the program. *)
(***************************************************************************)
EXTENDS WalletQueries

VARIABLES cbs, start, count, txID

vars == <<cbs, start, count, txID>>

Hashes == {"h1", "h2"}

UInt32 == 0..(UInt32Mod - 1)

Init ==
    /\ cbs \in UNION {[1..n -> Hashes] : n \in 0..3}
    /\ start \in UInt32
    /\ count \in UInt32
    /\ txID \in Hashes \cup {NoTxID}

Spec == Init /\ [][UNCHANGED vars]_vars

\* GetAllCoinBaseTransaction reserves room for no more entries than there
\* are coinbase UTXOs (jcbs.reserve(pageCount)).  A larger reserve asks
\* for pageCount JSON values at once; at the program's width that is a
\* request of up to 2^32 of them, which throws out of the query.
ReserveBounded ==
    GetAllCoinBaseTransaction(cbs, start, count, txID).reserved <= Len(cbs)
====
