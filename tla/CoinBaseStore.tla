--------------------------- MODULE CoinBaseStore ---------------------------
(***************************************************************************)
(* CoinBaseUTXODataStore (src/SDK/Database/CoinBaseUTXODataStore.cpp)     *)
(* over TableBase::DoTransaction, at the grain of SQL statements.        *)
(*                                                                         *)
(* A call runs its statements inside one DoTransaction: BeginTransaction, *)
(* the statements in order, EndTransaction.  A statement fails when its  *)
(* Prepare fails, or when its Step fails and Finalize reports the error  *)
(* of that step (sqlite3_finalize returns the error of the last failed   *)
(* evaluation; the Sqlite wrapper is not in the sources).  The loops     *)
(* return false at the first failing statement, and EndTransaction then  *)
(* ends the transaction with the earlier statements' writes in it: the   *)
(* code has no rollback path.  Calls are serialised by the IMMEDIATE    *)
(* transaction, so each call is one step.  Rows are keyed by tx hash;    *)
(* the index, amount, address, asset and lock columns are data the       *)
(* callers never change and are left out.                                *)
(***************************************************************************)
EXTENDS Naturals, Sequences, SequencesExt

CONSTANTS
    Hash,           \* tx hashes of coinbase UTXOs
    Height,         \* block heights a row may carry
    MaxBatch,       \* bound on the length of a batch
    MaxFailures     \* bound on the statements that fail

VARIABLES
    table,          \* committed rows: [stored hashes -> [h, spent]]
    result,         \* what the last mutating call returned, or "none"
    loaded,         \* the rows the last GetAll returned, in its order
    count,          \* what the last GetTotalCount returned
    failures        \* statements that failed so far

vars == <<table, result, loaded, count, failures>>

Row == [h : Height, spent : BOOLEAN]
NoRows == [x \in {} |-> {}]

Init ==
    /\ table = NoRows /\ result = "none"
    /\ loaded = <<>> /\ count = 0 /\ failures = 0

\* The effect of one statement on the rows it matches.
Apply(tbl, st) ==
    CASE st.op = "insert" ->
            [x \in DOMAIN tbl \cup {st.hash} |->
               IF x = st.hash THEN [h |-> st.h, spent |-> st.spent] ELSE tbl[x]]
      [] st.op = "update" ->
            [x \in DOMAIN tbl |-> IF x = st.hash THEN [tbl[x] EXCEPT !.h = st.h] ELSE tbl[x]]
      [] st.op = "spent" ->
            [x \in DOMAIN tbl |-> IF x = st.hash THEN [tbl[x] EXCEPT !.spent = st.spent] ELSE tbl[x]]
      [] st.op = "delete" -> [x \in DOMAIN tbl \ {st.hash} |-> tbl[x]]
      [] st.op = "deleteAll" -> NoRows

\* CoinBaseUTXODataStore::PutInternal: one INSERT of the entity.
PutInternal(x, r) == [op |-> "insert", hash |-> x, h |-> r.h, spent |-> r.spent]

\* How many statements of stmts succeed before the first failure: all of
\* them, or (while failures remain) any smaller number.
Succeeding(stmts) ==
    {Len(stmts)} \cup (IF failures < MaxFailures THEN 0..(Len(stmts) - 1) ELSE {})

\* TableBase::DoTransaction(fun): fun's statements up to the first failure
\* take effect, EndTransaction ends the transaction with them, and the
\* call returns fun's result.
DoTransaction(stmts) ==
    \E k \in Succeeding(stmts) :
        /\ table' = FoldLeft(Apply, table, SubSeq(stmts, 1, k))
        /\ result' = IF k = Len(stmts) THEN "ok" ELSE "failed"
        /\ failures' = failures + (IF k < Len(stmts) THEN 1 ELSE 0)
        /\ UNCHANGED <<loaded, count>>

\* The batch calls return true on an empty input without a transaction.
EmptyCall == result' = "ok" /\ UNCHANGED <<table, loaded, count, failures>>

\* Put(entitys): PutInternal for each entity, stopping at the first failure.
Put(b) ==
    IF b = <<>> THEN EmptyCall
    ELSE DoTransaction([i \in 1..Len(b) |-> PutInternal(b[i].hash, b[i].row)])

\* Put(entity): one PutInternal in its own transaction.
PutOne(x, r) == DoTransaction(<<PutInternal(x, r)>>)

\* DeleteAll: one DELETE of every row.
DeleteAll == DoTransaction(<<[op |-> "deleteAll"]>>)

\* Update(txHashes, blockHeight, timestamp): one UPDATE per hash.
Update(hs, h) ==
    IF hs = <<>> THEN EmptyCall
    ELSE DoTransaction([i \in 1..Len(hs) |-> [op |-> "update", hash |-> hs[i], h |-> h]])

\* UpdateSpent(spentUTXO): one UPDATE of the spent flag per UTXO.
UpdateSpent(b) ==
    IF b = <<>> THEN EmptyCall
    ELSE DoTransaction([i \in 1..Len(b) |-> [op |-> "spent", hash |-> b[i].hash, spent |-> b[i].row]])

\* Delete(hash): one DELETE of the rows of that hash.
Delete(x) == DoTransaction(<<[op |-> "delete", hash |-> x]>>)

\* GetAll: the SELECT has no ORDER BY (it is commented out), so the rows
\* come back in an order SQLite chooses; a failed Prepare or Finalize
\* returns no rows at all.
GetAllRows(tbl) ==
    {[hash |-> x, h |-> tbl[x].h, spent |-> tbl[x].spent] : x \in DOMAIN tbl}

GetAll ==
    /\ \/ loaded' \in SetToSeqs(GetAllRows(table)) /\ UNCHANGED failures
       \/ failures < MaxFailures /\ loaded' = <<>> /\ failures' = failures + 1
    /\ UNCHANGED <<table, result, count>>

\* GetTotalCount: SELECT COUNT inside a transaction; 0 when it fails.
GetTotalCount ==
    /\ \/ count' = Cardinality(DOMAIN table) /\ UNCHANGED failures
       \/ failures < MaxFailures /\ count' = 0 /\ failures' = failures + 1
    /\ UNCHANGED <<table, result, loaded>>

\* Batches of distinct hashes of length at most MaxBatch, each with a
\* value from V; Put is called with coinbase UTXOs not yet stored.
Batches(S, V) ==
    {[i \in 1..Len(s) |-> [hash |-> s[i], row |-> v[i]]] :
             s \in UNION {SetToSeqs(T) : T \in {T \in SUBSET S : Cardinality(T) <= MaxBatch}},
             v \in [1..MaxBatch -> V]}

Next ==
    \/ \E b \in Batches(Hash \ DOMAIN table, Row) : Put(b)
    \/ \E x \in Hash \ DOMAIN table, r \in Row : PutOne(x, r)
    \/ \E T \in SUBSET Hash, h \in Height : \E hs \in SetToSeqs(T) : Update(hs, h)
    \/ \E b \in Batches(Hash, BOOLEAN) : UpdateSpent(b)
    \/ \E x \in Hash : Delete(x)
    \/ DeleteAll
    \/ GetAll
    \/ GetTotalCount

Spec == Init /\ [][Next]_vars

-----------------------------------------------------------------------------
(* Properties.                                                             *)

Table == INSTANCE CoinBaseTable WITH rows <- table, result <- result

\* Every Put, Update, UpdateSpent, Delete and DeleteAll call is atomic:
\* it commits all of its writes and returns true, or commits none and
\* returns false, as the spec requires of database batches.
CallsAtomic == Table!Spec

====
