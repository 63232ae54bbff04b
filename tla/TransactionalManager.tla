------------------------ MODULE TransactionalManager ------------------------
(***************************************************************************)
(* ExecuteInTransaction and its callers.  The outermost call of a request  *)
(* takes a connection of the pool and opens a database transaction on it,  *)
(* which travels in the context; nested calls find it there and join it;   *)
(* statements find it there and run on its connection.  When the outermost *)
(* function returns, the transaction is committed and the callbacks        *)
(* registered on the way run, or it is rolled back.                        *)
(*                                                                         *)
(* A use case body is any program: it writes, calls other transactional    *)
(* use cases, registers callbacks, ignores or passes on the errors it gets,*)
(* and may panic.  The decorator around each call unwraps the result with  *)
(* a type assertion, which panics on an absent result.                     *)
(***************************************************************************)
EXTENDS Naturals, Sequences, FiniteSets

CONSTANTS
    Request,        \* requests, each a goroutine that makes one outermost call
    Item,           \* rows a request may write
    PoolSize,       \* MaxOpenConnections of the connection pool
    MaxCalls,       \* bound: calls of ExecuteInTransaction a request makes
    MaxCallbacks,   \* bound: callbacks a request registers
    MaxFaults       \* bound: failed statements, commits, callbacks, panics, crashes

ASSUME PoolAssumption == PoolSize \in Nat \ {0} /\ IsFiniteSet(Request)
ASSUME BoundAssumption ==
    /\ MaxCalls \in Nat \ {0}
    /\ MaxCallbacks \in Nat
    /\ MaxFaults \in Nat

VARIABLES
    database,   \* committed writes, each with the request it belongs to
    call,       \* the local state of each request
    faults      \* faults so far

vars == <<database, call, faults>>

PCs == {"idle", "begin", "running", "statement", "panic", "rollback", "commit", "callbacks",
        "unwrap", "ok", "error", "dead"}

\* What ExecuteInTransaction returns: (response, failure), each present or nil.
Results == [response : BOOLEAN, failure : BOOLEAN]
Value   == [response |-> TRUE, failure |-> FALSE]
Failure == [response |-> FALSE, failure |-> TRUE]
Nothing == [response |-> FALSE, failure |-> FALSE]

\* calls counts the calls made and depth those in progress; written is what the
\* request has written in its transaction, failed whether a statement of it has
\* failed, panicked whether a body has; of the callbacks registered, in order,
\* the first ran have been executed.
Call == [pc : PCs, calls : Nat, depth : Nat,
         tx : {"none", "open", "committed", "rolledback"},
         written : SUBSET Item, failed : BOOLEAN, panicked : BOOLEAN,
         registered : Nat, ran : Nat, result : Results]

NotCalled == [pc |-> "idle", calls |-> 0, depth |-> 0, tx |-> "none", written |-> {},
              failed |-> FALSE, panicked |-> FALSE, registered |-> 0, ran |-> 0,
              result |-> Nothing]

Init ==
    /\ database = {}
    /\ call = [p \in Request |-> NotCalled]
    /\ faults = 0

Become(p, local) == call' = [call EXCEPT ![p] = local]

\* A transaction keeps its connection until it ends.
Busy == {p \in Request : call[p].tx = "open"}

FaultHappens == faults < MaxFaults /\ faults' = faults + 1
NoFault == UNCHANGED faults

-----------------------------------------------------------------------------
\* A request calls a decorated use case; GetTransaction finds none in its context.
Enter(p) ==
    /\ call[p].pc = "idle"
    /\ Become(p, [call[p] EXCEPT !.pc = "begin", !.calls = 1, !.depth = 1])
    /\ NoFault
    /\ UNCHANGED database

\* BeginTransaction: waits for a connection, without a timeout.
BeginTransaction(p) ==
    /\ call[p].pc = "begin"
    /\ Cardinality(Busy) < PoolSize
    /\ \/ Become(p, [call[p] EXCEPT !.pc = "running", !.tx = "open"]) /\ NoFault
       \/ Become(p, [call[p] EXCEPT !.pc = "unwrap", !.depth = 0, !.result = Failure])
          /\ FaultHappens
    /\ UNCHANGED database

\* A body calls another decorated use case with the context it was given.
Nest(p) ==
    /\ call[p].pc = "running"
    /\ call[p].calls < MaxCalls
    /\ Become(p, [call[p] EXCEPT !.calls = @ + 1, !.depth = @ + 1])
    /\ NoFault
    /\ UNCHANGED database

\* A body issues a statement, with the context it was given.
Issue(p) ==
    /\ call[p].pc = "running"
    /\ call[p].written # Item
    /\ ~call[p].failed
    /\ Become(p, [call[p] EXCEPT !.pc = "statement"])
    /\ NoFault
    /\ UNCHANGED database

\* Mutant: the transaction in the context is not used.
StatementOutsideTransaction(p) ==
    /\ call[p].pc = "statement"
    /\ \E i \in Item \ call[p].written :
          /\ Become(p, [call[p] EXCEPT !.pc = "running", !.written = @ \cup {i}])
          /\ database' = database \cup {<<p, i>>}
    /\ NoFault

\* Mutant: a statement takes a connection of its own.
StatementOnPool(p) ==
    /\ call[p].pc = "statement"
    /\ Cardinality(Busy) < PoolSize
    /\ \E i \in Item \ call[p].written :
          Become(p, [call[p] EXCEPT !.pc = "running", !.written = @ \cup {i}])
    /\ NoFault
    /\ UNCHANGED database

\* The statement runs on the connection of the transaction.  Once one has failed
\* the database refuses the ones after it, which are not modelled.
Statement(p) ==
    /\ call[p].pc = "statement"
    /\ \/ /\ \E i \in Item \ call[p].written :
                Become(p, [call[p] EXCEPT !.pc = "running", !.written = @ \cup {i}])
          /\ NoFault
       \/ Become(p, [call[p] EXCEPT !.pc = "running", !.failed = TRUE]) /\ FaultHappens
    /\ UNCHANGED database

RegisterAfterCommit(p) ==
    /\ call[p].pc = "running"
    /\ call[p].registered < MaxCallbacks
    /\ Become(p, [call[p] EXCEPT !.registered = @ + 1])
    /\ NoFault
    /\ UNCHANGED database

\* The body returns: nested calls hand the result over, the outermost decides.
Return(p) ==
    /\ call[p].pc = "running"
    /\ \/ /\ call[p].depth > 1
          /\ \E result \in {Value, Failure} :
                Become(p, [call[p] EXCEPT !.pc = "unwrap", !.depth = @ - 1, !.result = result])
       \/ /\ call[p].depth = 1
          /\ \E pc \in {"commit", "rollback"} : Become(p, [call[p] EXCEPT !.pc = pc])
    /\ NoFault
    /\ UNCHANGED database

Panic(p) ==
    /\ call[p].pc = "running"
    /\ Become(p, [call[p] EXCEPT !.pc = "panic", !.panicked = TRUE])
    /\ FaultHappens
    /\ UNCHANGED database

\* The deferred recover.  A nested call returns what its named results hold,
\* (nil, nil).  The outermost rolls back, which fails when the panic came from a
\* callback: it reports an error either way.
Recover(p) ==
    /\ call[p].pc = "panic"
    /\ \/ /\ call[p].depth > 1
          /\ Become(p, [call[p] EXCEPT !.pc = "unwrap", !.depth = @ - 1, !.result = Nothing])
       \/ /\ call[p].depth = 1
          /\ Become(p, [call[p] EXCEPT !.pc = "unwrap", !.depth = 0, !.result = Failure,
                          !.tx = IF @ = "open" THEN "rolledback" ELSE @])
    /\ NoFault
    /\ UNCHANGED database

\* Mutant: the callbacks run whatever became of the commit.
CallbacksWithoutCommit(p) ==
    /\ call[p].pc = "rollback"
    /\ Become(p, [call[p] EXCEPT !.pc = "callbacks", !.tx = "rolledback"])
    /\ NoFault
    /\ UNCHANGED database

RollbackTransaction(p) ==
    /\ call[p].pc = "rollback"
    /\ Become(p, [call[p] EXCEPT !.pc = "unwrap", !.depth = 0, !.result = Failure,
                    !.tx = "rolledback"])
    /\ NoFault
    /\ UNCHANGED database

\* Mutant: the commit of a transaction with a failed statement, a rollback on the
\* server, is taken for a success.
CommitIgnoringFailedStatement(p) ==
    /\ call[p].pc = "commit"
    /\ \/ /\ call[p].failed
          /\ Become(p, [call[p] EXCEPT !.pc = "callbacks", !.tx = "rolledback"])
          /\ UNCHANGED database
       \/ /\ ~call[p].failed
          /\ database' = database \cup ({p} \X call[p].written)
          /\ Become(p, [call[p] EXCEPT !.pc = "callbacks", !.tx = "committed"])
    /\ NoFault

\* CommitTransaction.  A transaction with a failed statement is rolled back by the
\* server and reported as an error; a commit that fails may have taken effect.
CommitTransaction(p) ==
    /\ call[p].pc = "commit"
    /\ LET refused == [call[p] EXCEPT !.pc = "unwrap", !.depth = 0, !.result = Failure,
                         !.tx = "rolledback"]
       IN \/ call[p].failed /\ Become(p, refused) /\ NoFault /\ UNCHANGED database
          \/ ~call[p].failed /\ Become(p, refused) /\ FaultHappens /\ UNCHANGED database
          \/ /\ ~call[p].failed
             /\ database' = database \cup ({p} \X call[p].written)
             /\ \/ /\ Become(p, [call[p] EXCEPT !.pc = "callbacks", !.tx = "committed"])
                   /\ NoFault
                \/ /\ Become(p, [refused EXCEPT !.tx = "committed"])
                   /\ FaultHappens

\* The next callback, in the order registered: it succeeds, fails or panics.
RunCallback(p) ==
    /\ call[p].pc = "callbacks"
    /\ call[p].ran < call[p].registered
    /\ \/ Become(p, [call[p] EXCEPT !.ran = @ + 1]) /\ NoFault
       \/ Become(p, [call[p] EXCEPT !.pc = "unwrap", !.depth = 0, !.result = Failure])
          /\ FaultHappens
       \/ Become(p, [call[p] EXCEPT !.pc = "panic"]) /\ FaultHappens
    /\ UNCHANGED database

Finish(p) ==
    /\ call[p].pc = "callbacks"
    /\ call[p].ran = call[p].registered
    /\ Become(p, [call[p] EXCEPT !.pc = "unwrap", !.depth = 0, !.result = Value])
    /\ NoFault
    /\ UNCHANGED database

\* Mutant: the decorator counts the call out, and the call itself has already.
UnwrapLeavingTwice(p) ==
    /\ call[p].pc = "unwrap"
    /\ Become(p, [call[p] EXCEPT !.result = Nothing, !.depth = @ - 1,
                    !.pc = IF call[p].depth > 0 THEN "running"
                           ELSE IF call[p].result.failure THEN "error" ELSE "ok"])
    /\ NoFault
    /\ UNCHANGED database

\* Mutant: the decorator lets an absent result through (returnValue, _ :=).
UnwrapAbsent(p) ==
    /\ call[p].pc = "unwrap"
    /\ Become(p, [call[p] EXCEPT !.result = Nothing,
                    !.pc = IF call[p].depth > 0 THEN "running"
                           ELSE IF call[p].result.failure THEN "error" ELSE "ok"])
    /\ NoFault
    /\ UNCHANGED database

\* The decorator: a failure is passed on, returnValue.(*Output) panics without a
\* value.  A body that gets a failure may pass it on or ignore it.
Unwrap(p) ==
    /\ call[p].pc = "unwrap"
    /\ LET r == call[p].result IN
          Become(p, [call[p] EXCEPT !.result = Nothing,
             !.pc = CASE call[p].depth > 0 /\ r = Nothing -> "panic"
                      [] call[p].depth > 0 /\ r # Nothing -> "running"
                      [] call[p].depth = 0 /\ r = Value   -> "ok"
                      [] call[p].depth = 0 /\ r # Value   -> "error"])
    /\ NoFault
    /\ UNCHANGED database

\* The process dies.  The database rolls open transactions back; the requests
\* in progress get no answer, callbacks not run yet never will.
Crash ==
    /\ FaultHappens
    /\ call' = [p \in Request |->
                  IF call[p].pc \in {"idle", "ok", "error", "dead"} THEN call[p]
                  ELSE [call[p] EXCEPT !.pc = "dead",
                          !.tx = IF @ = "open" THEN "rolledback" ELSE @]]
    /\ UNCHANGED database

Step(p) ==
    \/ BeginTransaction(p)
    \/ Nest(p) \/ Return(p) \/ Panic(p) \/ Recover(p)
    \/ Issue(p) \/ Statement(p) \/ RegisterAfterCommit(p)
    \/ RollbackTransaction(p) \/ CommitTransaction(p)
    \/ RunCallback(p) \/ Finish(p) \/ Unwrap(p)

\* Every request answered or dead: the model stops here.
Terminated ==
    /\ \A p \in Request : call[p].pc \in {"ok", "error", "dead"}
    /\ UNCHANGED vars

Next == (\E p \in Request : Enter(p) \/ Step(p)) \/ Crash \/ Terminated

Spec == Init /\ [][Next]_vars

\* A request that has entered goes on: goroutines are scheduled, statements are
\* answered, and database/sql serves those waiting for a connection in order.
FairSpec == Spec /\ \A p \in Request : WF_vars(Step(p))
-----------------------------------------------------------------------------
(***************************************************************************)
(* Properties.                                                             *)
(***************************************************************************)

\* The committed writes, the local states and the fault count have their types.
TypeOK ==
    /\ database \subseteq Request \X Item
    /\ call \in [Request -> Call]
    /\ faults \in 0..MaxFaults

Stored(p) == {i \in Item : <<p, i>> \in database}

\* A caller told that its use case succeeded, and whoever a callback tells, finds
\* everything the use case wrote in the database, through nested calls, ignored
\* errors and recovered panics; and for the caller no statement failed, no body
\* panicked, and every callback ran.
OkMeansDurable ==
    \A p \in Request :
        /\ call[p].pc \in {"callbacks", "ok"} \/ call[p].ran > 0 => Stored(p) = call[p].written
        /\ call[p].pc = "ok" =>
              ~call[p].failed /\ ~call[p].panicked /\ call[p].ran = call[p].registered

\* Nothing a request wrote is kept once one of its bodies has panicked, however
\* deep: the recover of a nested call returns (nil, nil), and it is the type
\* assertion of the decorator that carries the panic to the outermost call.
PanicNeverCommits == \A p \in Request : call[p].panicked => Stored(p) = {}

\* Every request that enters ends: a transaction never needs a second connection.
RequestsEnd ==
    \A p \in Request : call[p].pc = "begin" ~> call[p].pc \in {"ok", "error", "dead"}

\* Where a request is, seen from outside.
PhaseOf(p) ==
    IF call[p].pc \in {"ok", "error"} THEN call[p].pc
    ELSE IF call[p].tx = "committed" THEN "published"
    ELSE IF call[p].tx = "rolledback" \/ (call[p].pc \in {"unwrap", "dead"} /\ call[p].tx = "none")
         THEN "discarded"
    ELSE "working"

Abstract == INSTANCE AtomicWork WITH
    work <- [p \in Request |-> call[p].written],
    phase <- [p \in Request |-> PhaseOf(p)]

\* What transactional use cases promise: all of it durable at once, or none.
IsAtomicWork == Abstract!Spec
=============================================================================
