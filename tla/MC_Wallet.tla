----------------------------- MODULE MC_Wallet -----------------------------
(***************************************************************************)
(* Instantiates Wallet for TLC with a fixed universe of transactions.     *)
(*                                                                         *)
(*   X   foreign funding tx (outputs 1 and 2 pay the wallet's sender)     *)
(*   R   receive: spends X:1, pays 2 ELA to the wallet, 1 ELA elsewhere   *)
(*   Q   receive independent of R: spends X:3, pays 1 ELA to the wallet   *)
(*   S   send: spends R:1, pays 1 ELA away and 1 ELA change to the wallet *)
(*   D   double spend of R:1, all to a foreign address                    *)
(*   CB  coinbase of block 1 paying 2 ELA to the wallet                   *)
(*   CB2 coinbase of block 2 paying 1 ELA to the wallet                   *)
(*   SC  spends the coinbase output CB:1 to a foreign address             *)
(*   A   registerAsset TOK: spends X:2, pays 3 TOK to the wallet          *)
(*   C   consolidation of R:1 and Q:1 into 3 ELA to the receive address   *)
(*                                                                         *)
(* Each cfg picks the subset of the universe its question needs.          *)
(***************************************************************************)
EXTENDS WalletRestart

MCExtTx == "X"
Universe == {"R", "Q", "S", "D", "CB", "CB2", "SC", "A", "C"}
MCAssets == {"ELA", "TOK"}
MCELA == "ELA"

Out(a, n, m) == [asset |-> a, amount |-> n, mine |-> m]

MCTxType ==
    [t \in Universe |->
        CASE t \in {"CB", "CB2"} -> "coinBase"
          [] t = "A"  -> "registerAsset"
          [] OTHER    -> "transferAsset"]

MCTxInputs ==
    [t \in Universe |->
        CASE t = "R"  -> {<<"X", 1>>}
          [] t = "Q"  -> {<<"X", 3>>}
          [] t = "S"  -> {<<"R", 1>>}
          [] t = "D"  -> {<<"R", 1>>}
          [] t = "SC" -> {<<"CB", 1>>}
          [] t = "A"  -> {<<"X", 2>>}
          [] t = "C"  -> {<<"R", 1>>, <<"Q", 1>>}
          [] OTHER    -> {}]

MCTxOutputs ==
    [t \in Universe |->
        CASE t = "R"  -> <<Out("ELA", 2, TRUE), Out("ELA", 1, FALSE)>>
          [] t = "Q"  -> <<Out("ELA", 1, TRUE)>>
          [] t = "S"  -> <<Out("ELA", 1, FALSE), Out("ELA", 1, TRUE)>>
          [] t = "D"  -> <<Out("ELA", 2, FALSE)>>
          [] t = "CB" -> <<Out("ELA", 2, TRUE)>>
          [] t = "CB2" -> <<Out("ELA", 1, TRUE)>>
          [] t = "SC" -> <<Out("ELA", 2, FALSE)>>
          [] t = "A"  -> <<Out("TOK", 3, TRUE)>>
          [] t = "C"  -> <<Out("ELA", 3, TRUE)>>]

MCRegisteredAsset == [t \in Universe |->
                        IF t = "A" THEN "TOK" ELSE "ELA"]

\* Chain indexes of the wallet addresses the txs touch (SubAccount).
MCInternalChainIndex ==
    [t \in Universe |->
        CASE t = "S" -> 0 [] OTHER -> -1]
MCExternalChainIndex ==
    [t \in Universe |->
        CASE t = "R" -> 0 [] t = "CB" -> 1 [] t = "A" -> 2 [] t = "Q" -> 3
          [] t = "C" -> 4 [] t = "CB2" -> 5 [] OTHER -> -1]

MCCoinbaseHeight == [t \in Universe |-> IF t = "CB2" THEN 2 ELSE 1]

\* The transaction sets of the runs.
TxSpend    == {"R", "Q", "S", "D"}
TxSpendAll == {"R", "Q", "S", "D", "C"}
TxNotify   == {"R", "S", "D"}
TxCoinbase == {"CB", "CB2", "SC", "R", "A"}
TxAsset    == {"R", "A"}
TxRestart  == {"R", "Q", "S", "CB", "CB2"}
TxSweep    == {"CB", "CB2", "SC", "R"}

-----------------------------------------------------------------------------
(* The paged queries, asked of the wallet's state as it is after every    *)
(* step.  start and count range over every page boundary of the lists,   *)
(* and past their ends.                                                   *)

Q == INSTANCE WalletQueries WITH UInt32Mod <- 8

\* GetAllUTXO's order: the GroupedAssets in map order, each pool in its
\* set's order.
AllUTXO(w) ==
    Q!GetAllUTXO(SetToSeq(w.groupedAssets), [a \in Assets |-> SetToSeq(w.utxos[a])])

\* Paging through GetAllTransaction(start, count) lists _transactions
\* newest first, page by page, and GetAllUTXOs(start, count) lists
\* GetAllUTXO in order: every call returns the window (start, count) of
\* that list, so consecutive pages neither repeat nor skip an entry.
TxPagesAreWindows ==
    LET s == wallet.transactions
        u == AllUTXO(wallet)
    IN /\ \A start \in 0..(Len(s) + 1), count \in 0..(Len(s) + 1) :
             Q!GetAllTransaction(s, wallet.allTx, start, count, Q!NoTxID).txs
               = Q!Window(Reverse(s), start, count)
       /\ \A start \in 0..(Len(u) + 1), count \in 0..(Len(u) + 1) :
             Q!GetAllUTXOs(u, start, count).utxos = Q!Window(u, start, count)

\* GetAllCoinBaseTransaction(start, count) lists _coinBaseUTXOs newest
\* first, as windows of (start, count), and a lookup by txID from start 0
\* finds the newest coinbase UTXO of that tx.
CoinbasePagesAreWindows ==
    LET cbs == wallet.coinBaseUTXOs
    IN /\ \A start, count \in 0..7 :
             Q!GetAllCoinBaseTransaction(cbs, start, count, Q!NoTxID).txs
               = Q!Window(Reverse(cbs), start, count)
       /\ \A c \in Range(cbs), count \in 0..7 :
             Q!GetAllCoinBaseTransaction(cbs, 0, count, c).txs = <<c>>

-----------------------------------------------------------------------------
(* The wallet implements WalletSpec: the refinement mapping reads the     *)
(* ledger off _allTx and the tx heights.                                  *)

Ledger == INSTANCE WalletSpec WITH
    ledger <- [t \in wallet.allTx |-> wallet.height[t]],
    Heights <- 1..MaxHeight, Unconfirmed <- UNCONFIRMED, Spends <- SpendsFrom

\* Every step of the wallet, whatever thread takes it, is a step of the
\* ledger WalletSpec describes, or leaves it alone: RegisterTransaction
\* adds one tx, UpdateTransactions only confirms pending txs, a
\* reorganisation unconfirms exactly the txs above its height, and
\* RemoveTransaction takes a tx out only once no wallet tx spends it.
LedgerRefined == Ledger!Spec
====
