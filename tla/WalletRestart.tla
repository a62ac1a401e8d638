--------------------------- MODULE WalletRestart ---------------------------
(***************************************************************************)
(* The Wallet constructor (Wallet.cpp, Wallet::Wallet) rebuilding the     *)
(* in-memory wallet from a persisted snapshot, and a process restart that *)
(* replaces the running wallet by the one the constructor rebuilds.       *)
(*                                                                         *)
(* The snapshot is what the SDK reads back from its tables on start: the  *)
(* last block height, the installed assets, the stored transactions with  *)
(* their heights, in the order of _transactions (spec 4.6: "replaying     *)
(* transactions[0..i] into an empty wallet produces a consistent          *)
(* snapshot") and the coinbase UTXO table with its spent flags, in the    *)
(* order it was filled.  The tables are written by listeners outside the  *)
(* sources; a restart is taken once every listener call has been          *)
(* delivered, so the snapshot is the wallet's own state.                  *)
(***************************************************************************)
EXTENDS Wallet

CONSTANT MaxRestarts     \* bound on the number of restarts

VARIABLE restarts        \* restarts so far

\* The snapshot of a wallet as the tables hold it.
Snapshot(w) ==
    [blockHeight |-> w.blockHeight,
     assets      |-> w.groupedAssets,
     txns        |-> [i \in 1..Len(w.transactions) |->
                        [tx |-> w.transactions[i], h |-> w.height[w.transactions[i]]]],
     cbs         |-> [i \in 1..Len(w.coinBaseUTXOs) |->
                        LET c == w.coinBaseUTXOs[i]
                        IN [c |-> c, h |-> w.cbHeight[c], spent |-> w.cbSpent[c]]]]

\* The first loop: InsertCoinbaseUTXO(*it) for each stored coinbase UTXO,
\* which keeps the stored height and spent flag.
ReplayCoinbase(w, row) ==
    IF row.c \in w.allCoinbaseUTXOs THEN w
    ELSE [InsertCoinbaseUTXO(w, row.c, row.h) EXCEPT !.cbSpent[row.c] = row.spent]

\* Mutant: every stored tx is replayed as if unconfirmed.
ReplayTxAllPending(w, row) ==
    LET t  == row.tx
        w1 == [w EXCEPT !.height[t] = row.h]
    IN IF TxType[t] = "coinBase" THEN RegisterCoinBaseTx(w, t, row.h)
       ELSE IF ~ContainsTx(w1, t) \/ TxSetGet(w.allTx, t) THEN w
       ELSE AddSpendingUTXO(InsertTx([w1 EXCEPT !.allTx = TxSetInsert(@, t)], t), TxInputs[t])

\* The second loop over the stored txs: a coinbase stored as a tx moves to
\* the coinbase index; a wallet tx is inserted in order and replayed
\* through BalanceAfterUpdatedTx or AddSpendingUTXO as RegisterTransaction
\* would; a tx the wallet does not contain is skipped (needUpdate).
\* StripTransaction and the address windows change no modelled state.
ReplayTx(w, row) ==
    LET t  == row.tx
        w1 == [w EXCEPT !.height[t] = row.h]
    IN IF TxType[t] = "coinBase" THEN RegisterCoinBaseTx(w, t, row.h)
       ELSE IF ~ContainsTx(w1, t) \/ TxSetGet(w.allTx, t) THEN w
       ELSE LET w2 == InsertTx([w1 EXCEPT !.allTx = TxSetInsert(@, t)], t)
            IN IF row.h # UNCONFIRMED THEN BalanceAfterUpdatedTx(w2, t).w
               ELSE AddSpendingUTXO(w2, TxInputs[t])

\* Wallet::Wallet(lastBlockHeight, ..., assetArray, txns, cbUTXOs, ...):
\* assets, then the WalletNotContainTx check on txns[0] (made before any
\* coinbase UTXO is known), then the two replay loops.  ok is FALSE when
\* the constructor throws.
Construct(snap) ==
    LET w0 == [EmptyWallet EXCEPT !.blockHeight   = snap.blockHeight,
                                  !.groupedAssets = IF snap.assets = {} THEN {ELA}
                                                    ELSE snap.assets]
        ok == IF snap.txns = <<>> THEN TRUE ELSE ContainsTx(w0, snap.txns[1].tx)
    IN [ok |-> ok,
        w  |-> FoldLeft(ReplayTx, FoldLeft(ReplayCoinbase, w0, snap.cbs), snap.txns)]

\* The process stops once every call has returned and every listener call
\* was delivered, and starts again with the wallet the constructor builds.
Restart ==
    /\ restarts < MaxRestarts
    /\ \A th \in Threads : Idle(th)
    /\ LET r == Construct(Snapshot(wallet))
       IN r.ok /\ wallet' = r.w
    /\ restarts' = restarts + 1
    /\ UNCHANGED <<chain, tip, reorgs, stack, pending, listener>>

RestartInit == Init /\ restarts = 0
RestartNext == (Next /\ UNCHANGED restarts) \/ Restart
RestartSpec == RestartInit /\ [][RestartNext]_<<vars, restarts>>

\* A peer thread inside a wallet call, or delivering the listener calls
\* that follow it, keeps running: nothing in the code blocks it but the
\* wallet mutex, which every call releases before it returns.  The peers
\* are not fair: they may stop relaying, dropping or reorganising.
\* This is weak fairness of each step a thread takes.  For
\* DoUpdateTransactions it is written out: TLC cannot evaluate ENABLED of
\* its fold in reasonable time, but the step is enabled exactly when the
\* head of th's stack is an "update" call, and it always pops that call.
\* A step that leaves the state unchanged (a call that re-pushes itself)
\* is not a step, so a thread spinning in such a call is not excluded.
ThreadFair(th) ==
    /\ WF_<<vars, restarts>>(DoRegisterTransaction(th) /\ UNCHANGED restarts)
    /\ WF_<<vars, restarts>>(DoRemoveTransaction(th) /\ UNCHANGED restarts)
    /\ WF_<<vars, restarts>>(DoSetTxUnconfirmedAfter(th) /\ UNCHANGED restarts)
    /\ WF_<<vars, restarts>>(DoTxDeleted(th) /\ UNCHANGED restarts)
    /\ WF_<<vars, restarts>>(DeliverBalance(th) /\ UNCHANGED restarts)
    /\ WF_<<vars, restarts>>(DeliverTxAdded(th) /\ UNCHANGED restarts)
    /\ WF_<<vars, restarts>>(DeliverTxUpdated(th) /\ UNCHANGED restarts)
    /\ WF_<<vars, restarts>>(DeliverTxDeleted(th) /\ UNCHANGED restarts)
    /\ WF_<<vars, restarts>>(DeliverAssetRegistered(th) /\ UNCHANGED restarts)
    /\ \/ []<>~Calling(th, "update")
       \/ []<><<DoUpdateTransactions(th) /\ UNCHANGED restarts>>_<<vars, restarts>>

FairSpec == RestartSpec /\ \A th \in Threads : ThreadFair(th)

-----------------------------------------------------------------------------
(* Properties.                                                             *)

\* The parts of the wallet the constructor is meant to restore.  Of
\* _spendingOutputs only the flags on UTXOs still in a pool matter
\* (IsUTXOSpending is asked about pooled UTXOs only): a reorganisation
\* re-flags only the wallet's own inputs and a confirmed double spend
\* clears the flag of a pending loser, while the replay of a pending tx
\* flags all its inputs.  _transactions is compared by the heights along
\* it: the loops of RemoveTransaction and SetTxUnconfirmedAfter stop on
\* heights, while the order among txs of equal height depends on the
\* insertion history (a reorganisation unconfirms txs in place).
Restored(w) ==
    [allTx |-> w.allTx,
     transactions |-> [i \in 1..Len(w.transactions) |-> w.height[w.transactions[i]]],
     height |-> [t \in w.allTx |-> w.height[t]],
     groupedAssets |-> w.groupedAssets, utxos |-> w.utxos, coinbase |-> w.coinbase,
     spendingOutputs |-> w.spendingOutputs \cap
                           UNION {w.utxos[a] \cup w.coinbase[a] : a \in Assets},
     allCoinbaseUTXOs |-> w.allCoinbaseUTXOs, coinBaseUTXOs |-> w.coinBaseUTXOs,
     cbHeight |-> [c \in w.allCoinbaseUTXOs |-> w.cbHeight[c]],
     cbSpent |-> [c \in w.allCoinbaseUTXOs |-> w.cbSpent[c]],
     blockHeight |-> w.blockHeight]

\* Whenever the wallet is at rest, the constructor accepts its snapshot and
\* replaying it rebuilds the same wallet: the same txs at the same heights
\* in the same height order,
\* the same pools, spending set and coinbase index.  This is what makes a
\* restart invisible; it fails if the incremental paths (RegisterTransaction,
\* UpdateTransactions, RemoveTransaction, SetTxUnconfirmedAfter) reach a
\* state that replaying their result in ascending order does not.
RestartFaithful ==
    (\A th \in Threads : Idle(th)) =>
        LET r == Construct(Snapshot(wallet))
        IN r.ok /\ Restored(r.w) = Restored(wallet)

=============================================================================
