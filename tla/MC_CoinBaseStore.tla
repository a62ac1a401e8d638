-------------------------- MODULE MC_CoinBaseStore --------------------------
(***************************************************************************)
(* Instantiates CoinBaseStore for TLC: two coinbase UTXOs, two heights,   *)
(* batches of up to both of them.                                         *)
(***************************************************************************)
EXTENDS CoinBaseStore

MCHeight == {1, 2}
====
