------------------------- MODULE TransactionsProofs -------------------------
(***************************************************************************)
(* ExecuteTx never takes more connections than the pool has, an answer of  *)
(* 200 is true, and the requests implement OptimisticRow: for any number   *)
(* of requests, delegating or not, and any size of the pool.               *)
(***************************************************************************)
EXTENDS Transactions, FiniteSetTheorems, TLAPS

Place == {"none"} \cup Active \cup Finished

\* TypeOK without the pool.
TxType ==
  /\ tx \in [Requests -> [Levels -> [at : Place, snap : Nat]]]
  /\ ifMatch \in [Requests -> Nat]
  /\ gone \subseteq Requests
  /\ version \in Nat \ {0}

\* InUse is finite although Requests need not be.
PoolOK == IsFiniteSet(InUse) /\ Cardinality(InUse) <= MaxConns

\* UpdateItem has read the item before its delegate begins, and commits after it.
Nesting ==
  \A r \in Requests :
    /\ At(r, "inner") # "none" => r \in Delegating /\ At(r, "outer") \notin {"none", "open"}
    /\ r \in Delegating /\ At(r, "outer") \in {"committed", "unsure"}
         => At(r, "inner") = "committed"

\* A transaction that has its snapshot, and has not failed.
HasSnapshot(r, l) == At(r, l) \in {"read", "wrote", "committed", "unsure"}

\* Snapshots are old versions, that of a delegate is not older than its caller's.
Snapshots ==
  \A r \in Requests :
    /\ \A l \in Levels : tx[r][l].snap <= version
    /\ HasSnapshot(r, "inner") => tx[r]["outer"].snap <= tx[r]["inner"].snap
    /\ Applied(r) => tx[r][Writer(r)].snap < version

\* The row lock: one transaction has written the item, and nobody has changed
\* it since the version that its request named.
RowLock ==
  \A r \in Requests :
    /\ \A l \in Levels : At(r, l) = "wrote" =>
         /\ l = Writer(r)
         /\ tx[r][l].snap = version /\ ifMatch[r] = version
    /\ \A q \in Requests : At(r, Writer(r)) = "wrote" /\ At(q, Writer(q)) = "wrote" => r = q

Inv == TxType /\ PoolOK /\ Nesting /\ Snapshots /\ RowLock

-----------------------------------------------------------------------------
\* Transaction l of request r is now at "at" with snapshot snap.
Moves(r, l, at, snap) == tx' = [tx EXCEPT ![r][l] = [at |-> at, snap |-> snap]]

\* What such a move does to every transaction.
LEMMA MovesFields ==
  ASSUME TxType, NEW r \in Requests, NEW l \in Levels, NEW at \in Place, NEW snap \in Nat,
         Moves(r, l, at, snap)
  PROVE  /\ tx' \in [Requests -> [Levels -> [at : Place, snap : Nat]]]
         /\ \A q \in Requests, m \in Levels :
              /\ At(q, m)' = IF q = r /\ m = l THEN at ELSE At(q, m)
              /\ tx'[q][m].snap = IF q = r /\ m = l THEN snap ELSE tx[q][m].snap
BY DEF TxType, Moves, At

\* Goes and Commit leave the snapshot alone.
LEMMA KeepsSnapshot ==
  ASSUME TxType, NEW r \in Requests, NEW l \in Levels, NEW at \in Place,
         tx' = [tx EXCEPT ![r][l].at = at]
  PROVE  Moves(r, l, at, tx[r][l].snap) /\ tx[r][l].snap \in Nat
<1>1. \A x \in [at : Place, snap : Nat] : [x EXCEPT !.at = at] = [at |-> at, snap |-> x.snap]
  OBVIOUS
<1>2. tx[r][l] \in [at : Place, snap : Nat]
  BY DEF TxType
<1> DEFINE new == [tx[r][l] EXCEPT !.at = at]
<1>3. tx' = [tx EXCEPT ![r][l] = new]
  OBVIOUS
<1>4. new = [at |-> at, snap |-> tx[r][l].snap]
  BY <1>1, <1>2
<1> HIDE DEF new
<1> QED  BY <1>2, <1>3, <1>4 DEF Moves

\* A transaction that takes no connection keeps the pool.
LEMMA PoolKept ==
  ASSUME PoolOK, InUse' \subseteq InUse
  PROVE  PoolOK'
<1>1. IsFiniteSet(InUse') /\ Cardinality(InUse') <= Cardinality(InUse)
  BY FS_Subset DEF PoolOK
<1>2. Cardinality(InUse) \in Nat /\ Cardinality(InUse') \in Nat
  BY <1>1, FS_CardinalityType DEF PoolOK
<1> QED  BY <1>1, <1>2, TransactionsAssumption DEF PoolOK

\* BeginTx takes one connection more, and only while one is free.
LEMMA PoolTaken ==
  ASSUME PoolOK, NEW u, InUse' \subseteq InUse \cup {u}, Cardinality(InUse) < MaxConns
  PROVE  PoolOK'
<1>1. /\ IsFiniteSet(InUse \cup {u})
      /\ Cardinality(InUse \cup {u}) <= Cardinality(InUse) + 1
  BY FS_AddElement, FS_CardinalityType DEF PoolOK
<1>2. IsFiniteSet(InUse') /\ Cardinality(InUse') <= Cardinality(InUse \cup {u})
  BY <1>1, FS_Subset
<1>3. /\ Cardinality(InUse) \in Nat /\ Cardinality(InUse') \in Nat
      /\ Cardinality(InUse \cup {u}) \in Nat
  BY <1>1, <1>2, FS_CardinalityType DEF PoolOK
<1> QED  BY <1>1, <1>2, <1>3, TransactionsAssumption DEF PoolOK

\* Nothing has begun: no connection is in use.
LEMMA InvInit == Init => Inv
<1> SUFFICES ASSUME Init PROVE Inv
  OBVIOUS
<1>1. TxType
  BY DEF Init, TxType, Place
<1>2. \A r \in Requests, l \in Levels : At(r, l) = "none"
  BY DEF Init, At
<1>3. PoolOK
  <2>1. InUse = {}
    BY <1>2 DEF InUse, Active
  <2> QED  BY <2>1, FS_EmptySet, TransactionsAssumption DEF PoolOK
<1>4. \A r \in Requests : Writer(r) \in Levels
  BY DEF Writer, Levels
<1>5. version \in Nat /\ \A r \in Requests, l \in Levels : tx[r][l].snap = 0
  BY DEF Init
<1> QED  BY <1>1, <1>2, <1>3, <1>4, <1>5
         DEF Inv, Nesting, Snapshots, RowLock, HasSnapshot, Applied, Levels

\* A step that moves one transaction to a place without a connection frees one.
LEMMA PoolFreed ==
  ASSUME Inv, NEW r \in Requests, NEW l \in Levels, NEW at \in Place, NEW snap \in Nat,
         Moves(r, l, at, snap), at \in Active => At(r, l) \in Active
  PROVE  PoolOK'
<1>1. InUse' \subseteq InUse
  BY MovesFields DEF Inv, InUse
<1> QED  BY <1>1, PoolKept DEF Inv

\* The state keeps its shape when one transaction moves.
LEMMA TypeKept ==
  ASSUME Inv, NEW r \in Requests, NEW l \in Levels, NEW at \in Place, NEW snap \in Nat,
         Moves(r, l, at, snap), UNCHANGED <<ifMatch, gone>>, version' \in {version, version + 1}
  PROVE  TxType'
BY MovesFields DEF Inv, TxType

\* BeginTx, an early failure or an end without a commit: the versions and the
\* row lock are left alone.
LEMMA QuietMove ==
  ASSUME Inv, NEW r \in Requests, NEW l \in Levels, NEW at \in {"open", "aborted"},
         tx' = [tx EXCEPT ![r][l].at = at], UNCHANGED <<ifMatch, gone, version>>,
         at = "open" => AtExecuteTx(r, l) /\ Cardinality(InUse) < MaxConns,
         At(r, l) \notin {"committed", "unsure"},
         At(r, l) = "none" => AtExecuteTx(r, l)
  PROVE  Inv'
<1> at \in Place
  BY DEF Place, Active, Finished
<1> DEFINE snap == tx[r][l].snap
<1>1. Moves(r, l, at, snap) /\ snap \in Nat
  BY KeepsSnapshot DEF Inv
<1> HIDE DEF snap
<1>2. \A q \in Requests, m \in Levels :
        /\ At(q, m)' = IF q = r /\ m = l THEN at ELSE At(q, m)
        /\ tx'[q][m].snap = tx[q][m].snap
  BY <1>1, MovesFields DEF Inv, snap
<1>3. TxType'
  BY <1>1, TypeKept
<1>4. PoolOK'
  <2>1. InUse' \subseteq InUse \cup {<<r, l>>}
    BY <1>2 DEF InUse
  <2> QED  BY <1>1, <2>1, PoolTaken, PoolFreed DEF Inv, Active
<1>5. Nesting'
  BY <1>2 DEF Inv, Nesting, AtExecuteTx, Levels
<1>6. \A q \in Requests : Writer(q)' = Writer(q) /\ Writer(q) \in Levels
  BY DEF Writer, Levels
<1>7. \A q \in Requests, m \in Levels :
        At(q, m)' \in {"read", "wrote", "committed", "unsure"} => At(q, m)' = At(q, m)
  BY <1>2
<1>8. Snapshots'
  BY <1>2, <1>6, <1>7 DEF Inv, Snapshots, HasSnapshot, Applied, Levels
<1>9. RowLock'
  BY <1>2, <1>6, <1>7 DEF Inv, RowLock
<1> QED  BY <1>3, <1>4, <1>5, <1>8, <1>9 DEF Inv

\* The first statement of a transaction takes the current version as its snapshot.
LEMMA ReadKeepsInv ==
  ASSUME Inv, NEW r \in Requests, NEW l \in Levels, ReadItem(r, l)
  PROVE  Inv'
<1> DEFINE at == "read"
<1> at \in Place /\ version \in Nat
  BY DEF Place, Active, Inv, TxType
<1>1. Moves(r, l, at, version) /\ At(r, l) = "open" /\ UNCHANGED <<ifMatch, gone, version>>
  BY DEF ReadItem, Moves
<1>2. \A q \in Requests, m \in Levels :
        /\ At(q, m)' = IF q = r /\ m = l THEN "read" ELSE At(q, m)
        /\ tx'[q][m].snap = IF q = r /\ m = l THEN version ELSE tx[q][m].snap
  BY <1>1, MovesFields DEF Inv
<1>3. TxType'
  BY <1>1, TypeKept
<1>4. PoolOK'
  BY <1>1, PoolFreed DEF Active
<1>5. Nesting'
  BY <1>1, <1>2 DEF Inv, Nesting, Levels
<1>6. \A q \in Requests : Writer(q)' = Writer(q) /\ Writer(q) \in Levels
  BY DEF Writer, Levels
<1>7. \A q \in Requests, m \in Levels : tx[q][m].snap \in Nat
  BY DEF Inv, TxType
<1>8. Snapshots'
  <2>1. ASSUME NEW q \in Requests, HasSnapshot(q, "inner")'
        PROVE  tx'[q]["outer"].snap <= tx'[q]["inner"].snap
    <3>1. l = "outer" => At(r, "inner") = "none"
      BY <1>1 DEF Inv, Nesting
    <3>2. tx[q]["outer"].snap <= version
      BY DEF Inv, Snapshots, Levels
    <3> QED  BY <1>2, <1>7, <2>1, <3>1, <3>2 DEF Inv, Snapshots, HasSnapshot, Levels
  <2> QED  BY <1>1, <1>2, <1>6, <1>7, <2>1 DEF Inv, Snapshots, HasSnapshot, Applied, Levels
<1>9. RowLock'
  BY <1>1, <1>2, <1>6 DEF Inv, RowLock
<1> QED  BY <1>3, <1>4, <1>5, <1>8, <1>9 DEF Inv

\* The UPDATE finds the version that If-Match names, and takes the row lock.
LEMMA WriteKeepsInv ==
  ASSUME Inv, NEW r \in Requests, NEW l \in Levels, WriteItem(r, l)
  PROVE  Inv'
<1> DEFINE at == "wrote"
           snap == tx[r][l].snap
<1> at \in Place
  BY DEF Place, Active
<1>1. /\ Moves(r, l, at, snap) /\ snap \in Nat /\ At(r, l) = "read" /\ l = Writer(r)
      /\ UNCHANGED <<ifMatch, gone, version>>
  BY KeepsSnapshot DEF Inv, WriteItem, Goes
<1>2. \A q \in Requests, m \in Levels :
        /\ At(q, m)' = IF q = r /\ m = l THEN "wrote" ELSE At(q, m)
        /\ tx'[q][m].snap = tx[q][m].snap
  BY <1>1, MovesFields DEF Inv
<1>3. TxType'
  BY <1>1, TypeKept
<1>4. PoolOK'
  BY <1>1, PoolFreed DEF Active
<1>5. Nesting'
  BY <1>1, <1>2 DEF Inv, Nesting, Levels
<1>6. \A q \in Requests : Writer(q)' = Writer(q) /\ Writer(q) \in Levels
  BY DEF Writer, Levels
<1>7. Snapshots'
  BY <1>1, <1>2, <1>6 DEF Inv, Snapshots, HasSnapshot, Applied, Levels
<1>8. snap = version /\ ifMatch[r] = version /\ \A q \in Requests : At(q, Writer(q)) # "wrote"
  BY DEF WriteItem, Locked
<1>9. RowLock'
  BY <1>1, <1>2, <1>6, <1>8 DEF Inv, RowLock
<1> QED  BY <1>3, <1>4, <1>5, <1>7, <1>9 DEF Inv

\* COMMIT of the writer: the version grows, and the lock was its own.
LEMMA CommitKeepsInv ==
  ASSUME Inv, NEW r \in Requests, NEW l \in Levels, Commit(r, l)
  PROVE  Inv'
<1> DEFINE snap == tx[r][l].snap
<1>1. PICK at \in {"committed", "unsure"} : tx' = [tx EXCEPT ![r][l].at = at]
  BY DEF Commit
<1> at \in Place
  BY DEF Place, Finished
<1>2. /\ Moves(r, l, at, snap) /\ snap \in Nat /\ AtCommit(r, l)
      /\ UNCHANGED <<ifMatch, gone>>
      /\ version' = IF l = Writer(r) THEN version + 1 ELSE version
  BY <1>1, KeepsSnapshot DEF Inv, Commit
<1>3. \A q \in Requests, m \in Levels :
        /\ At(q, m)' = IF q = r /\ m = l THEN at ELSE At(q, m)
        /\ tx'[q][m].snap = tx[q][m].snap /\ tx[q][m].snap \in Nat
  BY <1>2, MovesFields DEF Inv, TxType
<1>4. TxType'
  BY <1>2, TypeKept
<1>5. PoolOK'
  BY <1>2, PoolFreed DEF Active
<1>6. \A q \in Requests : Writer(q)' = Writer(q) /\ Writer(q) \in Levels
  BY DEF Writer, Levels
<1>7. Nesting'
  BY <1>2, <1>3 DEF Inv, Nesting, AtCommit, InnerDone, Writer, Levels
<1>8. version \in Nat /\ (l = Writer(r) => snap = version /\ At(r, l) = "wrote")
  BY <1>2 DEF Inv, TxType, RowLock, AtCommit
<1>9. Snapshots'
  <2>1. ASSUME NEW q \in Requests
        PROVE  /\ \A m \in Levels : tx'[q][m].snap <= version'
               /\ HasSnapshot(q, "inner")' => tx'[q]["outer"].snap <= tx'[q]["inner"].snap
    BY <1>2, <1>3, <1>8 DEF Inv, Snapshots, HasSnapshot, AtCommit, Levels, Writer
  <2>2. ASSUME NEW q \in Requests, Applied(q)'
        PROVE  tx'[q][Writer(q)].snap < version'
    BY <1>2, <1>3, <1>6, <1>8, <2>2 DEF Inv, Snapshots, Applied
  <2> QED  BY <1>6, <2>1, <2>2 DEF Snapshots
<1>10. RowLock'
  <2>1. l = Writer(r) => \A q \in Requests, m \in Levels : At(q, m)' # "wrote"
    BY <1>3, <1>6, <1>8 DEF Inv, RowLock
  <2>2. l # Writer(r) => version' = version
    BY <1>2
  <2> QED  BY <1>2, <1>3, <1>6, <2>1, <2>2 DEF Inv, RowLock
<1> QED  BY <1>4, <1>5, <1>7, <1>9, <1>10 DEF Inv

\* Every step of a request, of its client and of ExecuteTx keeps the invariant.
LEMMA InvStep == Inv /\ [Next]_vars => Inv'
<1> SUFFICES ASSUME Inv, [Next]_vars PROVE Inv'
  OBVIOUS
<1>1. ASSUME NEW r \in Requests, Arrive(r)
      PROVE  Inv'
  <2>1. /\ UNCHANGED <<tx, gone, version>> /\ ifMatch[r] = 0
        /\ ifMatch' \in [Requests -> Nat]
        /\ \A q \in Requests : q # r => ifMatch'[q] = ifMatch[q]
    BY <1>1 DEF Arrive, Inv, TxType
  <2>2. \A q \in Requests, l \in Levels : At(q, l)' = At(q, l)
    BY <2>1 DEF At
  <2>3. TxType' /\ PoolOK' /\ Nesting' /\ Snapshots'
    BY <2>1 DEF Inv, TxType, PoolOK, InUse, Nesting, Snapshots, HasSnapshot, Applied, At, Writer
  <2>4. RowLock'
    BY <2>1, <2>2 DEF Inv, TxType, RowLock, Writer, Levels
  <2> QED  BY <2>3, <2>4 DEF Inv
<1>2. ASSUME NEW r \in Requests, HangUp(r)
      PROVE  Inv'
  <2>1. UNCHANGED <<tx, ifMatch, version>> /\ gone' \subseteq Requests
    BY <1>2 DEF HangUp, Inv, TxType
  <2>2. TxType' /\ PoolOK' /\ Nesting'
    BY <2>1 DEF Inv, TxType, PoolOK, InUse, Nesting, At
  <2>3. Snapshots'
    BY <2>1 DEF Inv, Snapshots, HasSnapshot, Applied, At, Writer
  <2>4. RowLock'
    BY <2>1 DEF Inv, RowLock, At, Writer
  <2> QED  BY <2>2, <2>3, <2>4 DEF Inv
<1>3. ASSUME NEW r \in Requests, DelegateFailed(r)
      PROVE  Inv'
  BY <1>3, QuietMove DEF DelegateFailed, Goes, Levels
<1>4. ASSUME NEW r \in Requests, NEW l \in Levels, Step(r, l)
      PROVE  Inv'
  <2>1. CASE Begin(r, l)
    BY <2>1, QuietMove DEF Begin, Goes, AtExecuteTx
  <2>2. CASE BeginFails(r, l)
    BY <2>2, QuietMove DEF BeginFails, Goes, AtExecuteTx
  <2>3. CASE WriteRefused(r, l)
    BY <2>3, QuietMove DEF WriteRefused, Goes
  <2>4. CASE Fails(r, l)
    BY <2>4, QuietMove DEF Fails, Goes, Active
  <2> QED  BY <1>4, <2>1, <2>2, <2>3, <2>4, ReadKeepsInv, WriteKeepsInv, CommitKeepsInv DEF Step
<1>5. CASE UNCHANGED vars
  <2>1. UNCHANGED <<tx, ifMatch, gone, version>>
    BY <1>5 DEF vars
  <2>2. TxType' /\ PoolOK' /\ Nesting'
    BY <2>1 DEF Inv, TxType, PoolOK, InUse, Nesting, At
  <2>3. Snapshots'
    BY <2>1 DEF Inv, Snapshots, HasSnapshot, Applied, At, Writer
  <2>4. RowLock'
    BY <2>1 DEF Inv, RowLock, At, Writer
  <2> QED  BY <2>2, <2>3, <2>4 DEF Inv
<1> QED  BY <1>1, <1>2, <1>3, <1>4, <1>5 DEF Next

-----------------------------------------------------------------------------
\* The invariant holds what the runs check.
LEMMA InvImplies == Inv => TypeOK /\ SuccessIsCurrent
<1> SUFFICES ASSUME Inv PROVE TypeOK /\ SuccessIsCurrent
  OBVIOUS
<1>1. TypeOK
  BY DEF Inv, TxType, PoolOK, TypeOK, Place
<1>2. ASSUME NEW r \in Requests, Succeeded(r)
      PROVE  /\ Applied(r)
             /\ version = tx[r][Writer(r)].snap + 1 =>
                  IF r \in Delegating THEN Shown(r) < version ELSE Shown(r) = version
  <2>1. tx[r]["outer"].snap \in Nat /\ tx[r]["inner"].snap \in Nat /\ version \in Nat
    BY DEF Inv, TxType, Levels
  <2>2. r \in Delegating =>
          At(r, "inner") = "committed" /\ tx[r]["outer"].snap <= tx[r]["inner"].snap
    BY <1>2 DEF Inv, Nesting, Snapshots, Succeeded, HasSnapshot
  <2> QED  BY <1>2, <2>1, <2>2 DEF Succeeded, Applied, Shown, Writer
<1> QED  BY <1>1, <1>2 DEF SuccessIsCurrent

\* The transactions of ExecuteTx never hold more connections than the pool has,
\* and the state keeps its shape.  When UpdateItem answers 200 its change is
\* committed, and the version it shows is the item's unless it delegated.
THEOREM AnswersAreTrue == Spec => [](TypeOK /\ SuccessIsCurrent)
BY InvInit, InvStep, InvImplies, PTL DEF Spec

\* A step of a request is a step of OptimisticRow or leaves its state alone.
LEMMA StepSimulation ==
  Inv /\ [Next]_vars => [Row!Next]_<<version, ifMatch, {r \in Requests : Applied(r)}>>
<1> DEFINE applied == {r \in Requests : Applied(r)}
<1> SUFFICES ASSUME Inv, [Next]_vars
             PROVE  Row!Next \/ UNCHANGED <<version, ifMatch, applied>>
  OBVIOUS
<1>1. ASSUME tx' = tx
      PROVE  applied' = applied
  BY <1>1 DEF Applied, At, Writer
<1>2. ASSUME NEW r \in Requests, Arrive(r)
      PROVE  Row!Next
  BY <1>1, <1>2 DEF Arrive, Row!Next, Row!Name
<1>3. ASSUME NEW r \in Requests, NEW l \in Levels, NEW at \in Place, NEW snap \in Nat,
             Moves(r, l, at, snap), at \notin {"committed", "unsure"},
             At(r, l) \notin {"committed", "unsure"}
      PROVE  applied' = applied
  BY <1>3, MovesFields DEF Inv, Applied, Writer, Levels
<1>4. ASSUME NEW r \in Requests, NEW l \in Levels, Commit(r, l)
      PROVE  Row!Next \/ UNCHANGED <<version, ifMatch, applied>>
  <2>1. PICK at \in {"committed", "unsure"} : tx' = [tx EXCEPT ![r][l].at = at]
    BY <1>4 DEF Commit
  <2>2. at \in Place /\ Moves(r, l, at, tx[r][l].snap) /\ tx[r][l].snap \in Nat
    BY <2>1, KeepsSnapshot DEF Inv, Place, Finished
  <2>3. \A q \in Requests, m \in Levels : At(q, m)' = IF q = r /\ m = l THEN at ELSE At(q, m)
    BY <2>2, MovesFields DEF Inv
  <2>4. CASE l = Writer(r)
    <3>1. At(r, l) = "wrote" /\ ifMatch[r] = version /\ version' = version + 1 /\ ifMatch' = ifMatch
      BY <1>4, <2>4 DEF Commit, AtCommit, Inv, RowLock
    <3>2. applied' = applied \cup {r} /\ r \notin applied
      BY <2>3, <2>4, <3>1 DEF Applied, Writer, Levels
    <3>3. Row!Apply(r)
      BY <3>1, <3>2 DEF Row!Apply
    <3> QED  BY <3>3 DEF Row!Next
  <2>5. CASE l # Writer(r)
    <3>1. applied' = applied
      BY <2>3, <2>5 DEF Applied, Writer, Levels
    <3> QED  BY <1>4, <2>5, <3>1 DEF Commit
  <2> QED  BY <2>4, <2>5
<1>5. ASSUME NEW r \in Requests, NEW l \in Levels,
             Step(r, l) \/ (l = "outer" /\ DelegateFailed(r)), ~Commit(r, l)
      PROVE  UNCHANGED <<version, ifMatch, applied>>
  <2>1. /\ UNCHANGED <<version, ifMatch>> /\ At(r, l) \notin {"committed", "unsure"}
        /\ \/ ReadItem(r, l)
           \/ \E at \in {"open", "wrote", "aborted"} : tx' = [tx EXCEPT ![r][l].at = at]
    BY <1>5 DEF Step, Begin, BeginFails, ReadItem, WriteItem, WriteRefused, Fails,
                DelegateFailed, Goes, AtExecuteTx, Active
  <2>2. CASE ReadItem(r, l)
    <3>1. "read" \in Place /\ version \in Nat /\ Moves(r, l, "read", version)
      BY <2>2 DEF ReadItem, Moves, Inv, TxType, Place, Active
    <3> QED  BY <1>3, <2>1, <3>1
  <2>3. CASE \E at \in {"open", "wrote", "aborted"} : tx' = [tx EXCEPT ![r][l].at = at]
    <3>1. PICK at \in {"open", "wrote", "aborted"} : tx' = [tx EXCEPT ![r][l].at = at]
      BY <2>3
    <3>2. at \in Place /\ Moves(r, l, at, tx[r][l].snap) /\ tx[r][l].snap \in Nat
      BY <3>1, KeepsSnapshot DEF Inv, Place, Active, Finished
    <3> QED  BY <1>3, <2>1, <3>2
  <2> QED  BY <2>1, <2>2, <2>3
<1>6. ASSUME NEW r \in Requests, HangUp(r)
      PROVE  UNCHANGED <<version, ifMatch, applied>>
  BY <1>1, <1>6 DEF HangUp
<1>7. CASE UNCHANGED vars
  BY <1>1, <1>7 DEF vars
<1> QED  BY <1>2, <1>4, <1>5, <1>6, <1>7 DEF Next, Levels

\* Transactions implements OptimisticRow: each PATCH changes the item at most
\* once, from the version its If-Match names, whatever the interleaving, the
\* failures and the lost answers of COMMIT.
THEOREM RefinesOptimisticRow == Spec => NoUpdateIsLost
<1>1. Init => Row!Init
  <2>1. Init => {r \in Requests : Applied(r)} = {}
    BY DEF Init, Applied, At, Writer, Levels
  <2> QED  BY <2>1 DEF Init, Row!Init
<1> QED  BY <1>1, InvInit, InvStep, StepSimulation, PTL DEF Spec, NoUpdateIsLost, Row!Spec
=============================================================================
