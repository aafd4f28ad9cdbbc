---------------------------- MODULE Transactions ----------------------------
(***************************************************************************)
(* ExecuteTx of internal/platform/db over the connection pool, and the     *)
(* requests that change one reservation item through it.  UpdateItem       *)
(* delegates a change of room type or rate plan to a method that runs a    *)
(* second ExecuteTx, on a second connection, while the first transaction   *)
(* stays open.  Transactions are SERIALIZABLE: the snapshot is taken by    *)
(* the first statement, a second writer of the row waits for the first,    *)
(* and fails with 40001 when the row has changed since its snapshot.       *)
(***************************************************************************)
EXTENDS Integers, FiniteSets

CONSTANTS
  Requests,     \* PATCH requests for one item
  Delegating,   \* those that UpdateItem hands to UpdateItemRoomType or -RatePlan
  MaxConns      \* of the pool

ASSUME TransactionsAssumption ==
  /\ Delegating \subseteq Requests
  /\ MaxConns \in Nat \ {0}

VARIABLES
  tx,           \* the transactions of each request
  ifMatch,      \* the version in the request's If-Match; 0: it has not come yet
  gone,         \* requests whose client hung up: their context is cancelled
  version       \* of the item, as committed

vars == <<tx, ifMatch, gone, version>>

Levels   == {"outer", "inner"}
Active   == {"open", "read", "wrote"}
\* "unsure": COMMIT was done and its answer lost.
Finished == {"committed", "aborted", "unsure"}

At(r, l) == tx[r][l].at

\* The transaction that writes the item.
Writer(r) == IF r \in Delegating THEN "inner" ELSE "outer"

\* Mutant: without the deferred rollback a failed transaction keeps its connection.
InUseLeaky ==
  {u \in Requests \X Levels :
     \/ At(u[1], u[2]) \in Active
     \/ At(u[1], u[2]) = "aborted" /\ tx[u[1]][u[2]].snap # 0}

\* The transactions that hold a connection of the pool.
InUse == {u \in Requests \X Levels : At(u[1], u[2]) \in Active}

\* A transaction that is not over has written the row.
Locked == \E r \in Requests : At(r, Writer(r)) = "wrote"

TypeOK ==
  /\ tx \in [Requests -> [Levels -> [at : {"none"} \cup Active \cup Finished, snap : Nat]]]
  /\ Cardinality(InUse) <= MaxConns
  /\ ifMatch \in [Requests -> Nat]
  /\ gone \subseteq Requests
  /\ version \in Nat \ {0}

Init ==
  /\ tx = [r \in Requests |-> [l \in Levels |-> [at |-> "none", snap |-> 0]]]
  /\ ifMatch = [r \in Requests |-> 0]
  /\ gone = {}
  /\ version = 1

Goes(r, l, at) ==
  /\ tx' = [tx EXCEPT ![r][l].at = at]
  /\ UNCHANGED <<ifMatch, gone, version>>

-----------------------------------------------------------------------------
(* Requests                                                                *)

\* A client sends a version it has read, perhaps long ago.
Arrive(r) ==
  /\ ifMatch[r] = 0
  /\ \E v \in 1 .. version : ifMatch' = [ifMatch EXCEPT ![r] = v]
  /\ UNCHANGED <<tx, gone, version>>

HangUp(r) ==
  /\ ifMatch[r] # 0 /\ r \notin gone /\ At(r, "outer") \notin Finished
  /\ gone' = gone \cup {r}
  /\ UNCHANGED <<tx, ifMatch, version>>

\* The request is at a call of ExecuteTx.
AtExecuteTx(r, l) ==
  /\ At(r, l) = "none"
  /\ IF l = "outer" THEN ifMatch[r] # 0
                    ELSE r \in Delegating /\ At(r, "outer") = "read"

\* Mutant: UpdateItem goes on although its delegate failed.
InnerOver(r) == At(r, "inner") \in Finished

\* The second transaction of the request has done its part.
InnerDone(r) == At(r, "inner") = "committed"

\* The statement after the last one, when the transaction may commit.
AtCommit(r, l) == IF l = Writer(r) THEN At(r, l) = "wrote"
                                   ELSE At(r, l) = "read" /\ InnerDone(r)

-----------------------------------------------------------------------------
(* ExecuteTx                                                               *)

\* Mutant: a connection outside the pool.
BeginUnpooled(r, l) ==
  /\ AtExecuteTx(r, l)
  /\ Goes(r, l, "open")

\* pool.BeginTx waits for a connection.
Begin(r, l) ==
  /\ AtExecuteTx(r, l)
  /\ Cardinality(InUse) < MaxConns
  /\ Goes(r, l, "open")

\* It fails when the context is cancelled, or on a connection it got.
BeginFails(r, l) ==
  /\ AtExecuteTx(r, l)
  /\ r \in gone \/ Cardinality(InUse) < MaxConns
  /\ Goes(r, l, "aborted")

\* SetCurrentPropertyID takes the snapshot; then GetReservationItem.
ReadItem(r, l) ==
  /\ At(r, l) = "open"
  /\ tx' = [tx EXCEPT ![r][l] = [at |-> "read", snap |-> version]]
  /\ UNCHANGED <<ifMatch, gone, version>>

\* Mutant: the UPDATE does not compare the version.
WriteUnchecked(r, l) ==
  /\ l = Writer(r) /\ At(r, l) = "read"
  /\ ~Locked /\ version = tx[r][l].snap
  /\ Goes(r, l, "wrote")

\* UpdateReservationItem, WHERE version = If-Match.
WriteItem(r, l) ==
  /\ l = Writer(r) /\ At(r, l) = "read"
  /\ ifMatch[r] = tx[r][l].snap
  /\ ~Locked /\ version = tx[r][l].snap
  /\ Goes(r, l, "wrote")

\* No row has the version: ErrVersionMismatch.  Or 40001, which nobody retries.
WriteRefused(r, l) ==
  /\ l = Writer(r) /\ At(r, l) = "read"
  /\ \/ ifMatch[r] # tx[r][l].snap
     \/ ~Locked /\ version # tx[r][l].snap
  /\ Goes(r, l, "aborted")

\* A statement fails, or a check of fn, or the context is cancelled: the
\* deferred rollback releases the connection.  While UpdateItem waits for its
\* delegate to get a connection, only the context can make it fail.
Fails(r, l) ==
  /\ At(r, l) \in Active /\ (l = "outer" => At(r, "inner") \notin Active)
  /\ \/ r \in gone
     \/ At(r, l) = "open" \/ l = Writer(r) \/ AtCommit(r, l)
  /\ Goes(r, l, "aborted")

\* The delegate's error is returned by the closure of UpdateItem.
DelegateFailed(r) ==
  /\ At(r, "outer") = "read" /\ At(r, "inner") \in {"aborted", "unsure"}
  /\ Goes(r, "outer", "aborted")

\* tx.Commit: done; or done with its answer lost.
Commit(r, l) ==
  /\ AtCommit(r, l)
  /\ \E at \in {"committed", "unsure"} : tx' = [tx EXCEPT ![r][l].at = at]
  /\ version' = IF l = Writer(r) THEN version + 1 ELSE version
  /\ UNCHANGED <<ifMatch, gone>>

Step(r, l) ==
  \/ Begin(r, l) \/ BeginFails(r, l) \/ ReadItem(r, l) \/ WriteItem(r, l)
  \/ WriteRefused(r, l) \/ Fails(r, l) \/ Commit(r, l)

Next ==
  \E r \in Requests :
    \/ Arrive(r) \/ HangUp(r) \/ DelegateFailed(r)
    \/ \E l \in Levels : Step(r, l)

Spec == Init /\ [][Next]_vars

\* The pool hands out free connections, PostgreSQL executes what it is sent.
\* No client has to hang up and nothing has to fail.
Fairness ==
  \A r \in Requests :
    /\ WF_vars(DelegateFailed(r))
    /\ \A l \in Levels :
         WF_vars(Begin(r, l) \/ ReadItem(r, l) \/ WriteItem(r, l) \/ WriteRefused(r, l) \/ Commit(r, l))

FairSpec == Spec /\ Fairness

-----------------------------------------------------------------------------
(* Properties                                                              *)

Applied(r)  == At(r, Writer(r)) \in {"committed", "unsure"}
Answered(r) == At(r, "outer") \in Finished
Succeeded(r) == At(r, "outer") = "committed"

\* The version of the item that fetchAndExpandReservation reads for the
\* answer: the outer transaction sees its snapshot and its own write.
Shown(r) == IF Writer(r) = "outer" THEN tx[r]["outer"].snap + 1 ELSE tx[r]["outer"].snap

\* A 200 means that the change is committed.  While nobody else has changed
\* the item the version in the answer is the item's, so that it can be sent
\* in the next If-Match, unless UpdateItem delegated: then the answer shows
\* the item as it was before.
SuccessIsCurrent ==
  \A r \in Requests : Succeeded(r) =>
    /\ Applied(r)
    /\ version = tx[r][Writer(r)].snap + 1 =>
         IF r \in Delegating THEN Shown(r) < version ELSE Shown(r) = version

Row == INSTANCE OptimisticRow WITH named <- ifMatch, applied <- {r \in Requests : Applied(r)}

\* Whatever the interleaving, failures and lost answers, each request changes
\* the item at most once and only from the version it named: no update of
\* another request is lost.
NoUpdateIsLost == Row!Spec

\* Every connection is held by a delegating request that waits for another.
PoolHeld ==
  /\ Cardinality(InUse) = MaxConns
  /\ \A u \in InUse : u[1] \in Delegating /\ u[2] = "outer" /\ At(u[1], "inner") = "none"

\* Every request is answered, although no statement has a timeout, unless
\* delegating requests hold the whole pool and wait for each other.
AnsweredUnlessPoolHeld ==
  \A r \in Requests : ifMatch[r] # 0 ~> (Answered(r) \/ PoolHeld)

=============================================================================
