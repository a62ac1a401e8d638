------------------------------- MODULE Wallet -------------------------------
(***************************************************************************)
(* The in-memory Wallet of the SPV engine (src/SDK/Wallet/Wallet.cpp):    *)
(* ingestion of transactions delivered by the peer layer, confirmation    *)
(* updates, removal of dropped transactions and reorganisations, with the *)
(* per-asset UTXO pools (GroupedAsset) they maintain and the listener     *)
(* notifications sent after the wallet lock is released.                  *)
(*                                                                         *)
(* The Wallet object is the record variable `wallet`; its fields carry    *)
(* the names of the C++ members.  Every public mutator is one atomic step *)
(* (it runs under the single wallet mutex); the listener calls it makes   *)
(* after Unlock() are queued per calling thread and delivered by separate *)
(* Deliver steps.  The peer layer is an environment that keeps a ledger   *)
(* (`chain`, `tip`) and hands calls to idle threads.                      *)
(***************************************************************************)
EXTENDS Integers, Sequences, FiniteSets, SequencesExt, FiniteSetsExt, Functions

CONSTANTS
    Tx,                  \* hashes of the transactions the peers can deliver
    ExtTx,               \* hash of a foreign transaction funding the universe
    Assets,              \* asset ids
    ELA,                 \* the default asset installed by InstallDefaultAsset
    TxType,              \* [Tx -> {"coinBase", "transferAsset", "registerAsset"}]
    TxInputs,            \* [Tx -> SUBSET Outpoint]: (txHash, index) pairs
    TxOutputs,           \* [Tx -> Seq([asset, amount, mine])], index = FixedIndex
    RegisteredAsset,     \* [Tx -> Assets]: asset of a registerAsset payload
    InternalChainIndex,  \* [Tx -> Int], -1 if none (SubAccount::InternalChainIndex)
    ExternalChainIndex,  \* [Tx -> Int], -1 if none (SubAccount::ExternalChainIndex)
    MaxHeight,           \* highest block the peers may announce
    MaxReorgs,           \* bound on the number of reorganisations
    MaxBlockTxs,         \* bound on the number of delivered txs in one block
    CoinbaseHeight,      \* [Tx -> Nat]: the one block a coinbase can be mined in
    Threads              \* peer threads calling into the wallet

ASSUME ELA \in Assets /\ ExtTx \notin Tx /\ MaxHeight \in Nat

\* TX_UNCONFIRMED (0x7FFFFFFF) sorts after every block height that occurs.
UNCONFIRMED == MaxHeight + 1
Height == 1..UNCONFIRMED

\* Outpoints: the outputs of the universe and the outputs its txs spend.
Outpoint == UNION {TxInputs[t] \cup {<<t, k>> : k \in DOMAIN TxOutputs[t]} : t \in Tx}

Amount(o)  == TxOutputs[o[1]][o[2]].amount
AssetOf(o) == TxOutputs[o[1]][o[2]].asset

\* SubAccount::ContainsAddress on the output (txHash, index).
IsMine(p, k) == p \in Tx /\ k \in DOMAIN TxOutputs[p] /\ TxOutputs[p][k].mine

WalletOutputs(t) == {<<t, k>> : k \in {k \in DOMAIN TxOutputs[t] : IsMine(t, k)}}

SpendsFrom(t, p) == \E in \in TxInputs[t] : in[1] = p

\* The coinbase UTXO is built from the first wallet output (RegisterCoinBaseTx).
CbUTXO(c) == <<c, Min({k \in DOMAIN TxOutputs[c] : IsMine(c, k)})>>

Balance(w, a) == MapThenSumSet(Amount, w.utxos[a])

VARIABLES
    wallet,     \* the Wallet object's members
    chain,      \* [Tx -> 0..MaxHeight]: block of a tx in the best chain, 0 if none
    tip,        \* height of the best chain
    reorgs,     \* reorganisations so far
    stack,      \* [Threads -> Seq(call)]: wallet calls a thread still has to make
    pending,    \* [Threads -> Seq(Notice)]: listener calls not yet delivered
    shown,      \* [Assets -> Int]: last balance the listener (SubWallet) received
    txStatus,   \* [Tx -> status]: last OnTransactionStatusChanged status per tx
    txHeight,   \* [Tx -> Height]: block height the application derived for a tx
    announced,  \* assets the application received OnAssetRegistered for
    fault       \* SubWallet::onTxUpdated dereferenced a null TransactionPtr

listener == <<shown, txStatus, txHeight, announced, fault>>
vars == <<wallet, chain, tip, reorgs, stack, pending, listener>>

\* The listener calls a wallet call makes after Unlock(), in the code's order.
Notice ==
    [kind : {"balance"}, asset : Assets, balance : Int]
      \cup [kind : {"added"}, tx : Tx]
      \cup [kind : {"deleted"}, tx : Tx, notify : BOOLEAN, rescan : BOOLEAN]
      \cup [kind : {"updated"}, txs : SUBSET Tx]
      \cup [kind : {"asset"}, asset : Assets]

-----------------------------------------------------------------------------
(* GroupedAsset operations.  GroupedAsset.cpp is not part of the sources; *)
(* these follow the spec's description of the per-asset pools.           *)

\* GroupedAsset::RemoveSpentUTXO(inputs, spentCoinbase) on every asset group:
\* drops spent entries from both pools and marks spent coinbase UTXOs.
RemoveSpentUTXOs(w, ins) ==
    [w EXCEPT !.utxos    = [a \in Assets |-> @[a] \ ins],
              !.coinbase = [a \in Assets |-> @[a] \ ins],
              !.cbSpent  = [c \in Tx |-> @[c] \/ (c \in w.allCoinbaseUTXOs
                                 /\ \E a \in Assets : CbUTXO(c) \in w.coinbase[a] \cap ins)]]

\* GroupedAsset::RemoveSpentUTXO(utxo, removed): one entry, from both pools.
RemoveSpentUTXO(w, o, a) ==
    [w EXCEPT !.utxos[a] = @ \ {o}, !.coinbase[a] = @ \ {o}]

\* GroupedAsset::AddUTXO and GroupedAsset::AddCoinBaseUTXO.
AddUTXO(w, os) ==
    [w EXCEPT !.utxos = [a \in Assets |-> @[a] \cup {o \in os : AssetOf(o) = a}]]
AddCoinBaseUTXO(w, c) ==
    [w EXCEPT !.coinbase[AssetOf(CbUTXO(c))] = @ \cup {CbUTXO(c)}]

\* _allTx is an ElementSet<TransactionPtr> (ElementSet.h), a std::set
\* ordered by hash; a tx is its hash here.  Get(hash) finds it or yields
\* nullptr; Insert and Remove report whether the set changed.  The callers
\* that test Insert's result (Wallet.cpp:87, :290) are modelled by testing
\* membership first.
TxSetGet(s, h)    == h \in s
TxSetInsert(s, t) == s \cup {t}
TxSetRemove(s, t) == s \ {t}

-----------------------------------------------------------------------------
(* Wallet helpers (Wallet.cpp).                                            *)

\* Wallet::AddSpendingUTXO / RemoveSpendingUTXO.
AddSpendingUTXO(w, ins)    == [w EXCEPT !.spendingOutputs = @ \cup ins]
RemoveSpendingUTXO(w, ins) == [w EXCEPT !.spendingOutputs = @ \ ins]

\* Wallet::ContainsInput: a wallet output of a known tx, or the coinbase
\* UTXO with that hash and index.
ContainsInput(w, in) ==
    IF TxSetGet(w.allTx, in[1]) THEN IsMine(in[1], in[2])
    ELSE in[1] \in w.allCoinbaseUTXOs /\ CbUTXO(in[1])[2] = in[2]

\* Wallet::ContainsTx.
ContainsTx(w, t) ==
    \/ TxType[t] = "registerAsset"
    \/ WalletOutputs(t) # {}
    \/ \E in \in TxInputs[t] : ContainsInput(w, in)

\* Wallet::TxIsAscending(tx1, tx2): tx1 belongs after tx2.  A parent that
\* is not in _allTx is a null pointer and yields FALSE.
RECURSIVE TxIsAscending(_, _, _)
TxIsAscending(w, t1, t2) ==
    IF w.height[t1] # w.height[t2] THEN w.height[t1] > w.height[t2]
    ELSE IF SpendsFrom(t1, t2) THEN TRUE
    ELSE IF SpendsFrom(t2, t1) THEN FALSE
    ELSE \E in \in TxInputs[t1] : TxSetGet(w.allTx, in[1]) /\ TxIsAscending(w, in[1], t2)

\* Wallet::TxCompare: ascending order, then the chain index tie-break.
TxCompare(w, t1, t2) ==
    LET iInt == InternalChainIndex[t1]
        jInt == IF iInt # -1 THEN InternalChainIndex[t2] ELSE -1
        i    == IF jInt = -1 THEN ExternalChainIndex[t1] ELSE iInt
        j    == IF jInt = -1 THEN (IF i # -1 THEN ExternalChainIndex[t2] ELSE -1)
                ELSE jInt
    IN IF TxIsAscending(w, t1, t2) THEN 1
       ELSE IF TxIsAscending(w, t2, t1) THEN -1
       ELSE IF i # -1 /\ j # -1 /\ i # j THEN (IF i > j THEN 1 ELSE -1)
       ELSE 0

\* Wallet::InsertTx: walk back from the end while the element compares
\* greater, insert after the first one that does not.
InsertTx(w, t) ==
    LET s == w.transactions
        i == Max({k \in 0..Len(s) : k = 0 \/ TxCompare(w, s[k], t) <= 0})
    IN [w EXCEPT !.transactions = InsertAt(s, i + 1, t)]

\* Erase t from _transactions, scanning from the end (UpdateTransactions,
\* RemoveTransaction).
EraseTx(w, t) ==
    [w EXCEPT !.transactions = RemoveAt(@, SelectLastInSeq(@, LAMBDA u : u = t))]

\* Mutant: changedBalance only records assets that received an output.
BalanceAfterUpdatedTxOnlyCredits(w, t) ==
    IF w.height[t] = UNCONFIRMED THEN [w |-> w, changed |-> <<>>]
    ELSE
      LET ins      == TxInputs[t]
          w1       == RemoveSpendingUTXO(RemoveSpentUTXOs(w, ins), ins)
          credited == {o \in WalletOutputs(t) : AssetOf(o) \in w.groupedAssets}
          newOut   == {AssetOf(o) : o \in {o \in credited : o \notin w1.utxos[AssetOf(o)]}}
          w2       == AddUTXO(w1, credited)
      IN [w |-> w2, changed |-> [a \in newOut |-> Balance(w2, a)]]

\* Wallet::BalanceAfterUpdatedTx: for a confirmed tx, spend its inputs in
\* every asset group, clear them from _spendingOutputs, credit its wallet
\* outputs of installed assets.  Returns the new wallet and changedBalance.
BalanceAfterUpdatedTx(w, t) ==
    IF w.height[t] = UNCONFIRMED THEN [w |-> w, changed |-> <<>>]
    ELSE
      LET ins      == TxInputs[t]
          spentIn  == {a \in w.groupedAssets : (w.utxos[a] \cup w.coinbase[a]) \cap ins # {}}
          w1       == RemoveSpendingUTXO(RemoveSpentUTXOs(w, ins), ins)
          credited == {o \in WalletOutputs(t) : AssetOf(o) \in w.groupedAssets}
          newOut   == {AssetOf(o) : o \in {o \in credited : o \notin w1.utxos[AssetOf(o)]}}
          w2       == AddUTXO(w1, credited)
      IN [w |-> w2, changed |-> [a \in spentIn \cup newOut |-> Balance(w2, a)]]

\* Mutant: removing an unconfirmed tx leaves its inputs in _spendingOutputs.
BalanceAfterRemoveTxKeepsSpending(w, t) == w

\* Wallet::BalanceAfterRemoveTx.
BalanceAfterRemoveTx(w, t) ==
    IF w.height[t] = UNCONFIRMED THEN RemoveSpendingUTXO(w, TxInputs[t]) ELSE w

\* Mutant: the new coinbase UTXO goes to the front of _coinBaseUTXOs.
InsertCoinbaseUTXOFront(w, c, h) ==
    AddCoinBaseUTXO([w EXCEPT !.allCoinbaseUTXOs = @ \cup {c},
                              !.coinBaseUTXOs    = <<c>> \o @,
                              !.cbHeight[c]      = h,
                              !.cbSpent[c]       = FALSE], c)

\* Wallet::InsertCoinbaseUTXO, reached from RegisterCoinBaseTx.
InsertCoinbaseUTXO(w, c, h) ==
    AddCoinBaseUTXO([w EXCEPT !.allCoinbaseUTXOs = @ \cup {c},
                              !.coinBaseUTXOs    = Append(@, c),
                              !.cbHeight[c]      = h,
                              !.cbSpent[c]       = FALSE], c)

\* Wallet::RegisterCoinBaseTx: the first wallet output, if not yet known.
RegisterCoinBaseTx(w, c, h) ==
    IF WalletOutputs(c) = {} \/ c \in w.allCoinbaseUTXOs THEN w
    ELSE InsertCoinbaseUTXO(w, c, h)

\* Wallet::InstallAssets: a new empty group for every unknown asset.
InstallAssets(w, as) == [w EXCEPT !.groupedAssets = @ \cup as]

-----------------------------------------------------------------------------
(* The public mutators.  Each returns the new wallet and the balance map  *)
(* that is handed to balanceChanged after Unlock().                       *)

\* Wallet::RegisterTransaction(tx), tx carrying block height h.  Every
\* delivered tx is treated as signed, so the first guard always passes.
RegisterTransaction(w, t, h) ==
    IF TxType[t] = "coinBase"
    THEN [w |-> RegisterCoinBaseTx(w, t, h), changed |-> <<>>]
    ELSE IF ContainsTx(w, t) /\ ~TxSetGet(w.allTx, t)
    THEN LET w1 == InsertTx([w EXCEPT !.allTx = TxSetInsert(@, t), !.height[t] = h], t)
         IN IF h # UNCONFIRMED THEN BalanceAfterUpdatedTx(w1, t)
            ELSE [w |-> AddSpendingUTXO(w1, TxInputs[t]), changed |-> <<>>]
    ELSE [w |-> w, changed |-> <<>>]

UpdateOne(acc, t, h) ==
    LET w == acc.w IN
    IF t \in w.allTx THEN
        IF w.height[t] = h THEN acc
        ELSE
          LET needUpdate == w.height[t] = UNCONFIRMED /\ h # UNCONFIRMED
              payloads   == IF needUpdate /\ TxType[t] = "registerAsset"
                            THEN acc.payloads \cup {RegisteredAsset[t]}
                            ELSE acc.payloads
              w1 == [w EXCEPT !.height[t] = h]
          IN IF ContainsTx(w1, t)
             THEN LET w2 == IF \E i \in 1..Len(w1.transactions) : w1.transactions[i] = t
                            THEN InsertTx(EraseTx(w1, t), t) ELSE w1
                      r  == BalanceAfterUpdatedTx(w2, t)
                  IN IF needUpdate
                     THEN [w |-> r.w, changed |-> r.changed, payloads |-> payloads,
                           hashes |-> acc.hashes \cup {t}]
                     ELSE [acc EXCEPT !.w = w2, !.payloads = payloads,
                                      !.hashes = @ \cup {t}]
             ELSE [acc EXCEPT !.w = IF h # UNCONFIRMED THEN [w1 EXCEPT !.allTx = TxSetRemove(@, t)]
                                    ELSE w1,
                              !.payloads = payloads]
    ELSE IF t \in w.allCoinbaseUTXOs THEN
        IF w.cbHeight[t] = h THEN acc
        ELSE [acc EXCEPT !.w = AddCoinBaseUTXO([w EXCEPT !.cbHeight[t] = h], t)]
    ELSE acc

UpdateTransactions(w, hashes, h) ==
    LET w0 == IF h # UNCONFIRMED /\ h > w.blockHeight
              THEN [w EXCEPT !.blockHeight = h] ELSE w
        r  == FoldLeft(LAMBDA acc, t : UpdateOne(acc, t, h),
                       [w |-> w0, changed |-> <<>>, payloads |-> {}, hashes |-> {}],
                       hashes)
    IN [w |-> InstallAssets(r.w, r.payloads), changed |-> r.changed,
        payloads |-> r.payloads, hashes |-> r.hashes]

\* The dependents RemoveTransaction finds: scanning _transactions from the
\* end while heights are >= the tx's, the txs that spend one of its
\* outputs.  They are removed first, in the reverse of the scan order.
Dependents(w, t) ==
    LET s     == w.transactions
        first == Min({k \in 1..Len(s) + 1 :
                        \A j \in k..Len(s) : w.height[s[j]] >= w.height[t]})
    IN SelectSeq(SubSeq(s, first, Len(s)), LAMBDA u : u # t /\ SpendsFrom(u, t))

\* Mutant: the tx leaves _transactions but stays in _allTx.
RemoveTransactionKeepsAllTx(w, t) ==
    IF t \notin w.allTx THEN [w |-> w, calls |-> <<>>]
    ELSE IF Dependents(w, t) # <<>> THEN [w |-> w, calls |-> Dependents(w, t) \o <<t>>]
    ELSE [w |-> BalanceAfterRemoveTx(EraseTx(w, t), t), calls |-> <<>>]

\* Mutant: the tx is erased even though dependents spend it.
RemoveTransactionIgnoresDependents(w, t) ==
    IF t \notin w.allTx THEN [w |-> w, calls |-> <<>>]
    ELSE LET w1 == IF \E i \in 1..Len(w.transactions) : w.transactions[i] = t
                   THEN [EraseTx(w, t) EXCEPT !.allTx = TxSetRemove(@, t)] ELSE w
         IN [w |-> BalanceAfterRemoveTx(w1, t), calls |-> <<>>]

\* Mutant: with dependents, txHash is retried without removing them first.
RemoveTransactionNoDependents(w, t) ==
    IF t \notin w.allTx THEN [w |-> w, calls |-> <<>>]
    ELSE IF Dependents(w, t) # <<>> THEN [w |-> w, calls |-> <<t>>]
    ELSE LET w1 == IF \E i \in 1..Len(w.transactions) : w.transactions[i] = t
                   THEN [EraseTx(w, t) EXCEPT !.allTx = TxSetRemove(@, t)] ELSE w
         IN [w |-> BalanceAfterRemoveTx(w1, t), calls |-> <<>>]

\* Wallet::RemoveTransaction(txHash).  With dependents, the lock is
\* released and the removals are issued as new calls (`calls`), the
\* dependents first and then txHash again.
RemoveTransaction(w, t) ==
    IF t \notin w.allTx THEN [w |-> w, calls |-> <<>>]
    ELSE IF Dependents(w, t) # <<>> THEN [w |-> w, calls |-> Dependents(w, t) \o <<t>>]
    ELSE LET w1 == IF \E i \in 1..Len(w.transactions) : w.transactions[i] = t
                   THEN [EraseTx(w, t) EXCEPT !.allTx = TxSetRemove(@, t)] ELSE w
         IN [w |-> BalanceAfterRemoveTx(w1, t), calls |-> <<>>]

\* Wallet::TransactionForHash: whether _allTx holds txHash.
TransactionForHash(w, h) == TxSetGet(w.allTx, h)

\* Wallet::CoinBaseForHashInternal: whether txHash has a coinbase UTXO.
CoinBaseForHashInternal(w, h) == h \in w.allCoinbaseUTXOs

\* Wallet::AmountSentByTx: the amounts of the outputs t's inputs spend
\* that are wallet outputs of a tx in _allTx, or else the coinbase UTXO
\* of the coinbase index with that hash and index.
AmountSentByTx(w, t) ==
    MapThenSumSet(LAMBDA in :
                    IF TxSetGet(w.allTx, in[1])
                    THEN IF IsMine(in[1], in[2]) THEN Amount(in) ELSE 0
                    ELSE IF CoinBaseForHashInternal(w, in[1]) /\ CbUTXO(in[1])[2] = in[2]
                         THEN Amount(in) ELSE 0,
                  TxInputs[t])

\* Wallet::TransactionIsValid: a non-null signed tx (its other checks are
\* compiled out); every tx the peers relay or the application publishes
\* is signed.
TransactionIsValid(t) == t \in Tx

\* The suffix of s that the loops of SetTxUnconfirmedAfter visit: from the
\* end while the element's height is above h.
SuffixAbove(s, ht, h) ==
    LET first == Min({k \in 1..Len(s) + 1 : \A j \in k..Len(s) : ht[s[j]] > h})
    IN SubSeq(s, first, Len(s))

\* Mutant: the coinbase UTXO goes back to the pool but keeps its height.
UnconfirmCoinbaseKeepsHeight(w, c) ==
    AddCoinBaseUTXO(RemoveSpentUTXO(w, CbUTXO(c), AssetOf(CbUTXO(c))), c)

\* The coinbase loop of SetTxUnconfirmedAfter, for one coinbase UTXO.
UnconfirmCoinbase(w, c) ==
    AddCoinBaseUTXO(RemoveSpentUTXO([w EXCEPT !.cbHeight[c] = UNCONFIRMED],
                                    CbUTXO(c), AssetOf(CbUTXO(c))), c)

\* Mutant: the spent outputs are flagged as spending but not returned to the pools.
UnconfirmTxWithoutRestore(w, t) ==
    IF w.height[t] = UNCONFIRMED THEN w
    ELSE
      LET w1     == FoldSet(LAMBDA o, acc : RemoveSpentUTXO(acc, o, AssetOf(o)),
                            [w EXCEPT !.height[t] = UNCONFIRMED], WalletOutputs(t))
          ownIns == {in \in TxInputs[t] : TxSetGet(w.allTx, in[1]) /\ IsMine(in[1], in[2])}
          cbIns  == {c \in w.allCoinbaseUTXOs : c \notin w.allTx /\ SpendsFrom(t, c)}
      IN FoldSet(LAMBDA c, acc : [acc EXCEPT !.cbSpent[c] = FALSE], 
                 AddSpendingUTXO(w1, ownIns \cup {CbUTXO(c) : c \in cbIns}), cbIns)

\* Mutant: a spent coinbase UTXO is returned to the pool without SetSpent(false).
UnconfirmTxKeepsSpent(w, t) ==
    IF w.height[t] = UNCONFIRMED THEN w
    ELSE
      LET w1     == FoldSet(LAMBDA o, acc : RemoveSpentUTXO(acc, o, AssetOf(o)),
                            [w EXCEPT !.height[t] = UNCONFIRMED], WalletOutputs(t))
          ownIns == {in \in TxInputs[t] : TxSetGet(w.allTx, in[1]) /\ IsMine(in[1], in[2])}
          cbIns  == {c \in w.allCoinbaseUTXOs : c \notin w.allTx /\ SpendsFrom(t, c)}
          w2     == AddSpendingUTXO(AddUTXO(w1, ownIns), ownIns \cup {CbUTXO(c) : c \in cbIns})
      IN FoldSet(LAMBDA c, acc : AddCoinBaseUTXO(acc, c), w2, cbIns)

\* The transaction loop of SetTxUnconfirmedAfter, for one tx: its wallet
\* outputs leave the pools, its wallet inputs return to the pools and to
\* _spendingOutputs.  A coinbase parent is matched by hash only.
UnconfirmTx(w, t) ==
    IF w.height[t] = UNCONFIRMED THEN w
    ELSE
      LET w1     == FoldSet(LAMBDA o, acc : RemoveSpentUTXO(acc, o, AssetOf(o)),
                            [w EXCEPT !.height[t] = UNCONFIRMED], WalletOutputs(t))
          ownIns == {in \in TxInputs[t] : TxSetGet(w.allTx, in[1]) /\ IsMine(in[1], in[2])}
          cbIns  == {c \in w.allCoinbaseUTXOs : c \notin w.allTx /\ SpendsFrom(t, c)}
          w2     == AddSpendingUTXO(AddUTXO(w1, ownIns), ownIns \cup {CbUTXO(c) : c \in cbIns})
      IN FoldSet(LAMBDA c, acc : AddCoinBaseUTXO([acc EXCEPT !.cbSpent[c] = FALSE], c),
                 w2, cbIns)

\* Mutant: the transaction loop walks _transactions from the front.
SetTxUnconfirmedAfterForward(w, h) ==
    LET w0 == [w EXCEPT !.blockHeight = h]
        w1 == FoldLeft(UnconfirmCoinbase, w0,
                       Reverse(SuffixAbove(w.coinBaseUTXOs, w.cbHeight, h)))
    IN FoldLeft(UnconfirmTx, w1, SuffixAbove(w.transactions, w.height, h))

\* Mutant: the txs are set to the new tip instead of TX_UNCONFIRMED.
SetTxUnconfirmedAfterToTip(w, h) ==
    LET w0 == [w EXCEPT !.blockHeight = h]
        w1 == FoldLeft(UnconfirmCoinbase, w0,
                       Reverse(SuffixAbove(w.coinBaseUTXOs, w.cbHeight, h)))
    IN FoldLeft(LAMBDA acc, t : [UnconfirmTx(acc, t) EXCEPT !.height[t] = h],
                w1, Reverse(SuffixAbove(w.transactions, w.height, h)))

\* The hashes SetTxUnconfirmedAfter passes to txUpdated: the txs of the
\* loop that were still confirmed.
ReorgedTxsNone(w, h) == {}   \* mutant: only the coinbase hashes are reported

ReorgedTxs(w, h) ==
    {t \in ToSet(SuffixAbove(w.transactions, w.height, h)) : w.height[t] # UNCONFIRMED}

\* Wallet::SetTxUnconfirmedAfter(blockHeight).  No balanceChanged is sent.
SetTxUnconfirmedAfter(w, h) ==
    LET w0 == [w EXCEPT !.blockHeight = h]
        w1 == FoldLeft(UnconfirmCoinbase, w0,
                       Reverse(SuffixAbove(w.coinBaseUTXOs, w.cbHeight, h)))
    IN FoldLeft(UnconfirmTx, w1, Reverse(SuffixAbove(w.transactions, w.height, h)))

-----------------------------------------------------------------------------
(* The state machine.                                                      *)

EmptyWallet ==
    [allTx            |-> {},
     transactions     |-> <<>>,
     height           |-> [t \in Tx |-> UNCONFIRMED],
     groupedAssets    |-> {ELA},
     utxos            |-> [a \in Assets |-> {}],
     coinbase         |-> [a \in Assets |-> {}],
     spendingOutputs  |-> {},
     allCoinbaseUTXOs |-> {},
     coinBaseUTXOs    |-> <<>>,
     cbHeight         |-> [t \in Tx |-> UNCONFIRMED],
     cbSpent          |-> [t \in Tx |-> FALSE],
     blockHeight      |-> 0]

\* A freshly created wallet: Wallet::Wallet with empty snapshots, which
\* only runs InstallDefaultAsset.  Its assetRegistered reaches
\* SubWallet::onAssetRegistered before AddCallback has set _callback, so
\* the application is told of no asset.
Init ==
    /\ wallet  = EmptyWallet
    /\ chain   = [t \in Tx |-> 0]
    /\ tip     = 0
    /\ reorgs  = 0
    /\ stack   = [th \in Threads |-> <<>>]
    /\ pending = [th \in Threads |-> <<>>]
    /\ shown   = [a \in Assets |-> 0]
    /\ txStatus = [t \in Tx |-> "none"]
    /\ txHeight = [t \in Tx |-> UNCONFIRMED]
    /\ announced = {}
    /\ fault = FALSE

Idle(th) == stack[th] = <<>> /\ pending[th] = <<>>

OnChain == {t \in Tx : chain[t] # 0}

\* No tx of the best chain other than t spends one of t's inputs.
Unspent(t, others) == \A u \in others \ {t} : TxInputs[t] \cap TxInputs[u] = {}

\* A parent is outside the universe, on the chain or earlier in the block.
ParentAvailable(p, earlier) ==
    IF p \in Tx THEN chain[p] # 0 \/ p \in ToSet(earlier) ELSE TRUE

\* A block the peers may announce at tip + 1: new txs in a topological
\* order, parents on the chain or earlier in the block, no double spend,
\* coinbases only at their own height.  A coinbase identifies its block
\* and so the block's ancestors: it is mined only on top of the coinbases
\* of the universe that belong to lower heights.
ValidBlock(b) ==
    /\ IsInjective(b)
    /\ \A i \in 1..Len(b) :
         LET t == b[i] IN
         /\ chain[t] = 0
         /\ TxType[t] = "coinBase" =>
               /\ CoinbaseHeight[t] = tip + 1
               /\ \A c \in Tx : TxType[c] = "coinBase" /\ CoinbaseHeight[c] < tip + 1
                                 => chain[c] # 0
         /\ \A in \in TxInputs[t] : ParentAvailable(in[1], SubSeq(b, 1, i - 1))
         /\ Unspent(t, OnChain \cup ToSet(b))

Blocks == UNION {SetToSeqs(S) : S \in {S \in SUBSET Tx : Cardinality(S) \in 1..MaxBlockTxs}}

\* The peer layer relays an unconfirmed tx that does not conflict with the chain.
PeerRelayTx(th, t) ==
    /\ Idle(th)
    /\ TxType[t] # "coinBase" /\ chain[t] = 0 /\ Unspent(t, OnChain)
    /\ stack' = [stack EXCEPT ![th] = <<[op |-> "register", tx |-> t, h |-> UNCONFIRMED]>>]
    /\ UNCHANGED <<wallet, chain, tip, reorgs, pending, listener>>

\* The peer layer accepts block tip + 1: it registers the block's txs as
\* parsed from the wire (unconfirmed) and then confirms them with one
\* UpdateTransactions call for the merkle block.
PeerRelayBlock(th, b) ==
    /\ Idle(th) /\ tip < MaxHeight /\ ValidBlock(b)
    /\ chain' = [t \in Tx |-> IF t \in ToSet(b) THEN tip + 1 ELSE chain[t]]
    /\ tip' = tip + 1
    /\ stack' = [stack EXCEPT ![th] =
                   [i \in 1..Len(b) |-> [op |-> "register", tx |-> b[i], h |-> UNCONFIRMED]]
                   \o <<[op |-> "update", txs |-> b, h |-> tip + 1]>>]
    /\ UNCHANGED <<wallet, reorgs, pending, listener>>

\* The best chain is reorganised down to height h.
PeerReorg(th, h) ==
    /\ Idle(th) /\ reorgs < MaxReorgs /\ h < tip
    /\ chain' = [t \in Tx |-> IF chain[t] > h THEN 0 ELSE chain[t]]
    /\ tip' = h
    /\ reorgs' = reorgs + 1
    /\ stack' = [stack EXCEPT ![th] = <<[op |-> "reorg", h |-> h]>>]
    /\ UNCHANGED <<wallet, pending, listener>>

\* The peer layer gives up on an unconfirmed wallet tx (e.g. rejected).
PeerDropTx(th, t) ==
    /\ Idle(th) /\ t \in wallet.allTx
    /\ wallet.height[t] = UNCONFIRMED /\ chain[t] = 0
    /\ stack' = [stack EXCEPT ![th] = <<[op |-> "remove", tx |-> t]>>]
    /\ UNCHANGED <<wallet, chain, tip, reorgs, pending, listener>>

\* Wallet::IsUTXOSpending: the UTXO is an input of a pending wallet tx.
IsUTXOSpending(w, o) == o \in w.spendingOutputs

\* Wallet::ContainsAsset: the asset has a GroupedAsset.
ContainsAsset(w, a) == a \in w.groupedAssets

\* GroupedAsset's coin selection (its code is not in the sources): the
\* UTXOs of the asset's pool that IsUTXOSpending does not flag.  Coinbase
\* UTXOs never mature within the height bound and are not selectable.
Selectable(w, a) == {o \in w.utxos[a] : ~IsUTXOSpending(w, o)}

\* Wallet::CreateTransaction for the outputs of t: the asset of the outputs
\* must be installed (ContainsAsset, under the lock), then
\* GroupedAsset::CreateTxForOutputs picks inputs among the selectable
\* UTXOs of that asset.  The parameter checks on amounts and addresses and
\* the fee are data the model leaves out.
CreateTransaction(w, t) ==
    LET a == AssetOf(<<t, 1>>)
    IN /\ ContainsAsset(w, a)
       /\ TxInputs[t] # {} /\ TxInputs[t] \subseteq Selectable(w, a)

\* The application composes (SubWallet::CreateTransaction), signs and
\* publishes (SubWallet::PublishTransaction) a transfer t; the wallet
\* manager hands the published tx to the peer layer, which registers it.
AppSendTransaction(th, t) ==
    /\ Idle(th)
    /\ TxType[t] = "transferAsset" /\ t \notin wallet.allTx /\ chain[t] = 0
    /\ CreateTransaction(wallet, t)
    /\ stack' = [stack EXCEPT ![th] = <<[op |-> "register", tx |-> t, h |-> UNCONFIRMED]>>]
    /\ UNCHANGED <<wallet, chain, tip, reorgs, pending, listener>>

\* GroupedAsset::Consolidate (spec 4.4): every selectable UTXO of the
\* asset as inputs and one output paying the wallet's receive address.
\* Wallet::Consolidate first checks ContainsAsset under the lock.  The ELA
\* fee input added for other assets is not modelled: SubWallet only
\* consolidates ELA.
Consolidate(w, t, a) ==
    /\ ContainsAsset(w, a)
    /\ TxInputs[t] # {} /\ TxInputs[t] = Selectable(w, a)
    /\ Len(TxOutputs[t]) = 1 /\ TxOutputs[t][1].mine /\ TxOutputs[t][1].asset = a

\* The application composes a consolidation of ELA
\* (SubWallet::CreateConsolidateTransaction), signs and publishes it.
AppConsolidate(th, t) ==
    /\ Idle(th)
    /\ TxType[t] = "transferAsset" /\ t \notin wallet.allTx /\ chain[t] = 0
    /\ Consolidate(wallet, t, ELA)
    /\ stack' = [stack EXCEPT ![th] = <<[op |-> "register", tx |-> t, h |-> UNCONFIRMED]>>]
    /\ UNCHANGED <<wallet, chain, tip, reorgs, pending, listener>>

\* The next call of thread th, once its previous call's notifications are out.
Calling(th, op) ==
    /\ pending[th] = <<>> /\ stack[th] # <<>> /\ Head(stack[th]).op = op

\* The balanceChanged calls made after Unlock(), one per asset of the map
\* (their relative order does not matter to the listener's per-asset view).
BalanceNotices(changed) ==
    LET as == SetToSeq(DOMAIN changed)
    IN [i \in 1..Len(as) |-> [kind |-> "balance", asset |-> as[i],
                              balance |-> changed[as[i]]]]

\* Thread th executes RegisterTransaction: txAdded if the tx was added
\* (coinBaseTxAdded only logs), then balanceChanged.
DoRegisterTransaction(th) ==
    /\ Calling(th, "register")
    /\ LET c == Head(stack[th])
           r == RegisterTransaction(wallet, c.tx, c.h)
           wasAdded == c.tx \notin wallet.allTx /\ c.tx \in r.w.allTx
       IN /\ wallet' = r.w
          /\ pending' = [pending EXCEPT ![th] =
                           (IF wasAdded THEN <<[kind |-> "added", tx |-> c.tx]>> ELSE <<>>)
                           \o BalanceNotices(r.changed)]
    /\ stack' = [stack EXCEPT ![th] = Tail(@)]
    /\ UNCHANGED <<chain, tip, reorgs, listener>>

\* Thread th executes UpdateTransactions: txUpdated, assetRegistered per
\* payload, then balanceChanged (the coinbase calls only log).
DoUpdateTransactions(th) ==
    /\ Calling(th, "update")
    /\ LET c == Head(stack[th])
           r == UpdateTransactions(wallet, c.txs, c.h)
           as == SetToSeq(r.payloads)
       IN /\ wallet' = r.w
          /\ pending' = [pending EXCEPT ![th] =
                           (IF r.hashes # {} THEN <<[kind |-> "updated", txs |-> r.hashes]>>
                            ELSE <<>>)
                           \o [i \in 1..Len(as) |-> [kind |-> "asset", asset |-> as[i]]]
                           \o BalanceNotices(r.changed)]
    /\ stack' = [stack EXCEPT ![th] = Tail(@)]
    /\ UNCHANGED <<chain, tip, reorgs, listener>>

\* Thread th executes RemoveTransaction; dependents become further calls.
\* txDeleted follows only the branch that erased a known tx.
DoRemoveTransaction(th) ==
    /\ Calling(th, "remove")
    /\ LET t == Head(stack[th]).tx
           r == RemoveTransaction(wallet, t)
       IN /\ wallet' = r.w
          /\ stack' = [stack EXCEPT ![th] =
                         [i \in 1..Len(r.calls) |-> [op |-> "remove", tx |-> r.calls[i]]]
                         \o (IF t \in wallet.allTx /\ r.calls = <<>>
                             THEN <<[op |-> "deleted", tx |-> t]>> ELSE <<>>)
                         \o Tail(@)]
    /\ UNCHANGED <<chain, tip, reorgs, pending, listener>>

\* The rest of that branch after Unlock(): AmountSentByTx and one
\* TransactionForHash per input take the lock again and read the wallet
\* as it is then; txDeleted(hash, notifyUser, recommendRescan) follows.
\* Rescan is recommended only if every input's tx is known and confirmed.
DoTxDeleted(th) ==
    /\ Calling(th, "deleted")
    /\ LET t      == Head(stack[th]).tx
           notify == AmountSentByTx(wallet, t) > 0 /\ TransactionIsValid(t)
           rescan == notify /\ \A in \in TxInputs[t] :
                                  TransactionForHash(wallet, in[1])
                                  /\ wallet.height[in[1]] # UNCONFIRMED
       IN pending' = [pending EXCEPT ![th] =
                        <<[kind |-> "deleted", tx |-> t, notify |-> notify, rescan |-> rescan]>>]
    /\ stack' = [stack EXCEPT ![th] = Tail(@)]
    /\ UNCHANGED <<wallet, chain, tip, reorgs, listener>>

\* Thread th executes SetTxUnconfirmedAfter, then txUpdated(hashes, UNCONFIRMED).
DoSetTxUnconfirmedAfter(th) ==
    /\ Calling(th, "reorg")
    /\ LET h == Head(stack[th]).h
           hashes == ReorgedTxs(wallet, h)
       IN /\ wallet' = SetTxUnconfirmedAfter(wallet, h)
          /\ pending' = [pending EXCEPT ![th] =
                           IF hashes # {} THEN <<[kind |-> "updated", txs |-> hashes]>>
                           ELSE <<>>]
    /\ stack' = [stack EXCEPT ![th] = Tail(@)]
    /\ UNCHANGED <<chain, tip, reorgs, listener>>

\* Delivery of the next listener call of thread th.
Delivering(th, kind) == pending[th] # <<>> /\ Head(pending[th]).kind = kind
Delivered(th) == pending' = [pending EXCEPT ![th] = Tail(@)]

\* SubWallet::balanceChanged forwards OnBalanceChanged.
DeliverBalance(th) ==
    /\ Delivering(th, "balance") /\ Delivered(th)
    /\ shown' = [shown EXCEPT ![Head(pending[th]).asset] = Head(pending[th]).balance]
    /\ UNCHANGED <<wallet, chain, tip, reorgs, stack, txStatus, txHeight, announced, fault>>

\* SubWallet::onTxAdded: status "Added" with 0 confirmations.
DeliverTxAdded(th) ==
    /\ Delivering(th, "added") /\ Delivered(th)
    /\ txStatus' = [txStatus EXCEPT ![Head(pending[th]).tx] = "Added"]
    /\ txHeight' = [txHeight EXCEPT ![Head(pending[th]).tx] = UNCONFIRMED]
    /\ UNCHANGED <<wallet, chain, tip, reorgs, stack, shown, announced, fault>>

\* SubWallet::onTxUpdated: for each hash, TransactionForHash (under the
\* wallet lock, now) and GetConfirms on the result; a hash no longer in
\* _allTx yields a null TransactionPtr that is dereferenced.  The
\* application learns the tx's current height through its confirmations.
DeliverTxUpdated(th) ==
    /\ Delivering(th, "updated") /\ Delivered(th)
    /\ LET hs == Head(pending[th]).txs
       IN /\ fault' = (fault \/ ~(hs \subseteq wallet.allTx))
          /\ txStatus' = [t \in Tx |-> IF t \in hs THEN "Updated" ELSE txStatus[t]]
          /\ txHeight' = [t \in Tx |-> IF t \in hs THEN wallet.height[t] ELSE txHeight[t]]
    /\ UNCHANGED <<wallet, chain, tip, reorgs, stack, shown, announced>>

\* SubWallet::onTxDeleted: status "Deleted".
DeliverTxDeleted(th) ==
    /\ Delivering(th, "deleted") /\ Delivered(th)
    /\ txStatus' = [txStatus EXCEPT ![Head(pending[th]).tx] = "Deleted"]
    /\ UNCHANGED <<wallet, chain, tip, reorgs, stack, shown, txHeight, announced, fault>>

\* SubWallet::onAssetRegistered forwards OnAssetRegistered.
DeliverAssetRegistered(th) ==
    /\ Delivering(th, "asset") /\ Delivered(th)
    /\ announced' = announced \cup {Head(pending[th]).asset}
    /\ UNCHANGED <<wallet, chain, tip, reorgs, stack, shown, txStatus, txHeight, fault>>

Next ==
    \E th \in Threads :
        \/ \E t \in Tx : PeerRelayTx(th, t) \/ PeerDropTx(th, t)
              \/ AppSendTransaction(th, t) \/ AppConsolidate(th, t)
        \/ \E b \in Blocks : PeerRelayBlock(th, b)
        \/ \E h \in 0..MaxHeight : PeerReorg(th, h)
        \/ DoRegisterTransaction(th)
        \/ DoUpdateTransactions(th)
        \/ DoRemoveTransaction(th)
        \/ DoSetTxUnconfirmedAfter(th)
        \/ DoTxDeleted(th)
        \/ DeliverBalance(th)
        \/ DeliverTxAdded(th)
        \/ DeliverTxUpdated(th)
        \/ DeliverTxDeleted(th)
        \/ DeliverAssetRegistered(th)

Spec == Init /\ [][Next]_vars

-----------------------------------------------------------------------------
(* Properties.                                                             *)

Confirmed(w, t) == t \in w.allTx /\ w.height[t] # UNCONFIRMED
SpentByConfirmed(w, o) == \E t \in w.allTx : Confirmed(w, t) /\ o \in TxInputs[t]
SpentByPending(w, o) ==
    \E t \in w.allTx : w.height[t] = UNCONFIRMED /\ o \in TxInputs[t]

TypeOK ==
    /\ wallet.allTx \subseteq Tx
    /\ wallet.transactions \in Seq(Tx)
    /\ wallet.height \in [Tx -> Height]
    /\ ELA \in wallet.groupedAssets /\ wallet.groupedAssets \subseteq Assets
    /\ wallet.utxos \in [Assets -> SUBSET Outpoint]
    /\ wallet.coinbase \in [Assets -> SUBSET Outpoint]
    /\ wallet.spendingOutputs \subseteq Outpoint
    /\ wallet.allCoinbaseUTXOs \subseteq Tx
    /\ wallet.coinBaseUTXOs \in Seq(Tx)
    /\ wallet.cbHeight \in [Tx -> Height]
    /\ wallet.cbSpent \in [Tx -> BOOLEAN]
    /\ wallet.blockHeight \in 0..MaxHeight
    /\ chain \in [Tx -> 0..MaxHeight] /\ tip \in 0..MaxHeight
    /\ reorgs \in 0..MaxReorgs
    /\ \A th \in Threads : pending[th] \in Seq(Notice)
    /\ shown \in [Assets -> Int]
    /\ txStatus \in [Tx -> {"none", "Added", "Updated", "Deleted"}]
    /\ txHeight \in [Tx -> Height]
    /\ announced \subseteq Assets
    /\ fault \in BOOLEAN

\* Spec invariant 1: _allTx and _transactions hold the same transactions,
\* each once, whatever sequence of register, update, remove and reorg
\* calls the peers make.
IndexesAgree ==
    /\ ToSet(wallet.transactions) = wallet.allTx
    /\ IsInjective(wallet.transactions)

\* Whenever no peer call is in progress, the wallet's block heights are
\* those of the best chain: a tx or coinbase of the chain carries its
\* block, every other one is unconfirmed, and _blockHeight is the tip.
\* This is what the early exits of the two loops of SetTxUnconfirmedAfter
\* (which assume _transactions and _coinBaseUTXOs are height ordered) and
\* the re-insertion in UpdateTransactions have to preserve.
ChainAgrees ==
    (\A th \in Threads : Idle(th)) =>
        /\ \A t \in wallet.allTx :
              wallet.height[t] = IF chain[t] # 0 THEN chain[t] ELSE UNCONFIRMED
        /\ \A c \in wallet.allCoinbaseUTXOs :
              wallet.cbHeight[c] = IF chain[c] # 0 THEN chain[c] ELSE UNCONFIRMED
        /\ wallet.blockHeight = tip

\* Spec invariants 2 and 4: every entry of an asset's utxos is a wallet
\* output of that asset of a known confirmed tx, and no confirmed tx of the
\* wallet spends it, after any interleaving of confirmations and reorgs
\* (BalanceAfterUpdatedTx, SetTxUnconfirmedAfter).
UTXOSound ==
    \A a \in Assets : \A o \in wallet.utxos[a] :
        /\ Confirmed(wallet, o[1]) /\ IsMine(o[1], o[2]) /\ AssetOf(o) = a
        /\ ~SpentByConfirmed(wallet, o)

\* Conversely, every unspent wallet output of a confirmed tx whose asset
\* is installed is in that asset's utxos: confirmation credits it
\* (BalanceAfterUpdatedTx) and a reorg of its spender gives it back
\* (SetTxUnconfirmedAfter).
UTXOComplete ==
    \A t \in wallet.allTx : \A o \in WalletOutputs(t) :
        (Confirmed(wallet, t) /\ AssetOf(o) \in wallet.groupedAssets
           /\ ~SpentByConfirmed(wallet, o)) => o \in wallet.utxos[AssetOf(o)]

\* _spendingOutputs only holds outputs that an unconfirmed tx of the wallet
\* spends: confirming (BalanceAfterUpdatedTx) or removing
\* (BalanceAfterRemoveTx) the last such tx clears the entry.
SpendingOnlyPending ==
    \A o \in wallet.spendingOutputs : SpentByPending(wallet, o)

\* The wallet never composes a tx that spends an output one of its own
\* pending txs already spends: IsUTXOSpending has to flag every such
\* output, through every register, confirm, remove and reorg path that
\* may have touched _spendingOutputs since.
ComposeNoConflict ==
    [][\A th \in Threads, t \in Tx :
         AppSendTransaction(th, t) \/ AppConsolidate(th, t) =>
            ~\E o \in TxInputs[t] : SpentByPending(wallet, o)]_vars

\* The spent flag of a coinbase UTXO is set exactly when a confirmed tx of
\* the wallet spends it (RemoveSpentUTXO on confirmation, SetSpent(false)
\* in SetTxUnconfirmedAfter), and the coinbase pool holds exactly the
\* unspent ones.
\* SetTxUnconfirmedAfter walks _coinBaseUTXOs from the end and stops at
\* the first UTXO at or below the reorganisation height: that is right only
\* if the confirmed coinbase UTXOs are in ascending height along the
\* vector, across registrations, reorganisations and re-confirmations.
CoinbaseOrdered ==
    LET v == wallet.coinBaseUTXOs
        Conf(i) == wallet.cbHeight[v[i]] # UNCONFIRMED
    IN \A i, j \in 1..Len(v) :
          i < j /\ Conf(i) /\ Conf(j) => wallet.cbHeight[v[i]] <= wallet.cbHeight[v[j]]

CoinbaseTracked ==
    \A c \in wallet.allCoinbaseUTXOs :
        /\ wallet.cbSpent[c] <=> SpentByConfirmed(wallet, CbUTXO(c))
        /\ \A a \in Assets :
              CbUTXO(c) \in wallet.coinbase[a]
                <=> AssetOf(CbUTXO(c)) = a /\ ~SpentByConfirmed(wallet, CbUTXO(c))

\* When no call is in progress and every balanceChanged has been
\* delivered, the listener (SubWallet) shows the balance of every asset.
\* This is what the balanceChanged calls after Unlock() in
\* RegisterTransaction and UpdateTransactions are for.
BalanceNotified ==
    (\A th \in Threads : Idle(th)) =>
        \A a \in wallet.groupedAssets : shown[a] = Balance(wallet, a)

\* When no call is in progress and every listener call has been delivered,
\* the application's view of every tx (OnTransactionStatusChanged from
\* onTxAdded, onTxUpdated and onTxDeleted) matches the wallet: a tx in
\* _allTx is "Added" or "Updated" at its current block height, any other
\* tx was never reported or was reported "Deleted".  Heights change in
\* UpdateTransactions and SetTxUnconfirmedAfter, membership in
\* RegisterTransaction and RemoveTransaction; each must report it.
TxViewAgrees ==
    (\A th \in Threads : Idle(th)) =>
        \A t \in Tx :
            IF t \in wallet.allTx
            THEN txStatus[t] \in {"Added", "Updated"} /\ txHeight[t] = wallet.height[t]
            ELSE txStatus[t] \in {"none", "Deleted"}

CallsComplete == \A th \in Threads : ~Idle(th) ~> Idle(th)

\* SubWallet::onTxUpdated finds every hash it is told about: the
\* TransactionPtr it dereferences for GetConfirms is never null.
TxUpdatedResolves == ~fault

=============================================================================
