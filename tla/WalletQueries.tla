---------------------------- MODULE WalletQueries ----------------------------
(***************************************************************************)
(* The paged queries of the wallet (Wallet.cpp and SubWallet.cpp), as     *)
(* pure operators over the sequences they read under the wallet lock:    *)
(*   - _transactions, in ascending order, for GetAllTransaction;          *)
(*   - the UTXOs of each GroupedAsset, for GetAllUTXOs;                   *)
(*   - _coinBaseUTXOs, in fill order, for GetAllCoinBaseTransaction.      *)
(* A tx, UTXO or coinbase UTXO is its hash; the JSON fields are left out. *)
(* The loops are kept as the code writes them (RECURSIVE, one step per    *)
(* iteration); Window is the page a caller of (start, count) expects.     *)
(*                                                                         *)
(* start and count are uint32_t.  UInt32Mod is 2^32 in the program; a     *)
(* model gives it a small value so that start + count can wrap.           *)
(***************************************************************************)
EXTENDS Integers, SequencesExt

CONSTANT UInt32Mod

\* The txid / txID argument is the empty string.
NoTxID == "none"

\* Elements start + 1 .. start + count of s: the page of (start, count).
Window(s, start, count) ==
    SubSeq(s, start + 1, IF start + count < Len(s) THEN start + count ELSE Len(s))

\* Mutant: result.size() <= count, one tx past the page.
RECURSIVE AllTxLoopInclusive(_, _, _, _)
AllTxLoopInclusive(s, i, count, acc) ==
    IF i >= Len(s) \/ Len(acc) > count THEN acc
    ELSE AllTxLoopInclusive(s, i + 1, count, Append(acc, s[Len(s) - i]))

\* Wallet::GetAllTransactions: for (i = start; i < maxCount &&
\* result.size() < count; ++i) push _transactions[maxCount - i - 1].
RECURSIVE AllTxLoop(_, _, _, _)
AllTxLoop(s, i, count, acc) ==
    IF i >= Len(s) \/ Len(acc) >= count THEN acc
    ELSE AllTxLoop(s, i + 1, count, Append(acc, s[Len(s) - i]))

GetAllTransactions(s, start, count) == AllTxLoop(s, start, count, <<>>)

\* SubWallet::GetAllTransaction: MaxCount is GetAllTransactionCount();
\* a txid is looked up with TransactionForHash (all is _allTx), otherwise
\* the page is GetAllTransactions(start, count).
GetAllTransaction(s, all, start, count, txid) ==
    [maxCount |-> Len(s),
     txs      |-> IF txid = NoTxID THEN GetAllTransactions(s, start, count)
                  ELSE IF txid \in all THEN <<txid>> ELSE <<>>]

\* Wallet::GetAllUTXO: the UTXOs of every GroupedAsset, concatenated in the
\* map's order (assets); pools[a] is GroupedAsset::GetUTXOs of asset a.
GetAllUTXO(assets, pools) ==
    FlattenSeq([k \in 1..Len(assets) |-> pools[assets[k]]])

\* SubWallet::GetAllUTXOs: for (i = start; i < UTXOs.size() &&
\* pageCount < count; ++i) push UTXOs[i].
RECURSIVE UTXOLoop(_, _, _, _)
UTXOLoop(u, i, count, acc) ==
    IF i >= Len(u) \/ Len(acc) >= count THEN acc
    ELSE UTXOLoop(u, i + 1, count, Append(acc, u[i + 1]))

GetAllUTXOs(u, start, count) ==
    [maxCount |-> Len(u), utxos |-> UTXOLoop(u, start, count, <<>>)]

\* The loop of GetAllCoinBaseTransaction: i from maxCount - start down to
\* 1 while realCount < pageCount; with a txID only the first UTXO of that
\* hash is pushed, and the loop breaks.
RECURSIVE CoinBaseLoop(_, _, _, _, _)
CoinBaseLoop(cbs, i, pageCount, txID, acc) ==
    IF i = 0 \/ Len(acc) >= pageCount THEN acc
    ELSE IF txID = NoTxID
         THEN CoinBaseLoop(cbs, i - 1, pageCount, txID, Append(acc, cbs[i]))
    ELSE IF cbs[i] = txID THEN Append(acc, txID)
    ELSE CoinBaseLoop(cbs, i - 1, pageCount, txID, acc)

\* Mutant: the loop starts at maxCount - start - 1, skipping the newest.
GetAllCoinBaseTransactionSkipNewest(cbs, start, count, txID) ==
    LET maxCount  == Len(cbs)
        pageCount == IF txID # NoTxID THEN 1
                     ELSE IF maxCount < (start + count) % UInt32Mod
                          THEN maxCount - start ELSE count
    IN IF start >= maxCount
       THEN [maxCount |-> maxCount, txs |-> <<>>, reserved |-> 0]
       ELSE [maxCount |-> maxCount, reserved |-> pageCount,
             txs |-> CoinBaseLoop(cbs, maxCount - start - 1, pageCount, txID, <<>>)]

\* SubWallet::GetAllCoinBaseTransaction.  pageCount starts as count and
\* is cut to maxCount - start when maxCount < start + count, a sum taken
\* in uint32_t; 1 with a txID.  reserved is jcbs.reserve(pageCount).
GetAllCoinBaseTransaction(cbs, start, count, txID) ==
    LET maxCount  == Len(cbs)
        pageCount == IF txID # NoTxID THEN 1
                     ELSE IF maxCount < (start + count) % UInt32Mod
                          THEN maxCount - start ELSE count
    IN IF start >= maxCount
       THEN [maxCount |-> maxCount, txs |-> <<>>, reserved |-> 0]
       ELSE [maxCount |-> maxCount, reserved |-> pageCount,
             txs |-> CoinBaseLoop(cbs, maxCount - start, pageCount, txID, <<>>)]
====
