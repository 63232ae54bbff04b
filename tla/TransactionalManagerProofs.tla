--------------------- MODULE TransactionalManagerProofs ---------------------
(***************************************************************************)
(* TransactionalManager for every set of requests, every pool size and     *)
(* every bound.  The inductive invariant speaks of one request at a time:  *)
(* where it is, what its transaction has become and what is stored for it. *)
(* From it follow the promises made to the caller and the refinement of    *)
(* AtomicWork.                                                             *)
(***************************************************************************)
EXTENDS TransactionalManager, TLAPS

\* How the progress of a request and the state of its transaction go together.
Place(c) ==
    /\ c.pc \in {"idle", "begin"} => c.tx = "none"
    /\ c.pc \in {"running", "statement", "rollback", "commit"} => c.tx = "open"
    /\ c.pc \in {"begin", "rollback", "commit", "callbacks"} => c.depth = 1
    /\ c.pc \in {"running", "statement", "panic"} => c.depth > 0
    /\ c.pc = "callbacks" => c.tx = "committed"
    /\ c.pc = "panic" => c.tx \in {"open", "committed"}
    /\ c.pc = "panic" /\ c.tx = "committed" => c.depth = 1
    /\ c.pc = "unwrap" /\ c.depth > 0 => c.tx = "open"
    /\ c.pc = "unwrap" /\ c.depth = 0 => c.result \in {Value, Failure} /\ c.tx # "open"
    /\ c.pc \in {"error", "dead"} => c.tx # "open"

\* When a call has succeeded, and what stays true once a body has panicked.
Outcome(c) ==
    /\ c.pc = "ok" \/ (c.pc = "unwrap" /\ c.depth = 0 /\ c.result = Value) =>
          c.tx = "committed" /\ c.ran = c.registered
    /\ c.ran > 0 => c.tx = "committed"
    /\ c.tx = "committed" => ~c.failed /\ ~c.panicked
    /\ c.panicked =>
          \/ c.pc \in {"panic", "error", "dead"}
          \/ c.pc = "unwrap" /\ c.depth > 0 /\ c.result = Nothing
          \/ c.pc = "unwrap" /\ c.depth = 0 /\ c.result = Failure

\* The writes of a request are in the database when it has committed, and not before.
Kept(p) ==
    /\ call[p].tx = "committed" => Stored(p) = call[p].written
    /\ call[p].tx # "committed" => Stored(p) = {}

IInv ==
    /\ TypeOK
    /\ \A p \in Request : Place(call[p]) /\ Outcome(call[p]) /\ Kept(p)

-----------------------------------------------------------------------------
\* What a call may return.
LEMMA ResultTypes ==
    /\ Value \in Results /\ Failure \in Results /\ Nothing \in Results
    /\ Value # Failure /\ Value # Nothing /\ Failure # Nothing
BY DEF Results, Value, Failure, Nothing

LEMMA InitIInv == Init => IInv
<1>. SUFFICES ASSUME Init PROVE IInv
  OBVIOUS
<1>1. TypeOK
  BY BoundAssumption DEF Init, TypeOK, NotCalled, Call, PCs, Results, Nothing
<1>2. ASSUME NEW p \in Request
      PROVE  Place(call[p]) /\ Outcome(call[p]) /\ Kept(p)
  <2>1. call[p] = NotCalled /\ Stored(p) = {}
    BY DEF Init, Stored
  <2>. QED BY <2>1 DEF NotCalled, Place, Outcome, Kept
<1>. QED BY <1>1, <1>2 DEF IInv

\* A step of one request that does not commit: the others and the database stay.
LEMMA OneRequest ==
    ASSUME IInv, NEW p \in Request, NEW m, Become(p, m), UNCHANGED database,
           faults' \in 0..MaxFaults, m \in Call, Place(m), Outcome(m),
           (m.tx = "committed") <=> (call[p].tx = "committed"),
           m.tx = "committed" => m.written = call[p].written
    PROVE  IInv'
<1>1. /\ call' \in [Request -> Call] /\ call'[p] = m
      /\ \A q \in Request \ {p} : call'[q] = call[q]
  BY DEF IInv, TypeOK, Become
<1>2. TypeOK'
  BY <1>1 DEF IInv, TypeOK
<1>3. ASSUME NEW q \in Request
      PROVE  Place(call'[q]) /\ Outcome(call'[q]) /\ Kept(q)'
  <2>1. Stored(q)' = Stored(q)
    BY DEF Stored
  <2>2. CASE q = p
    BY <1>1, <2>1, <2>2 DEF IInv, Kept
  <2>3. CASE q # p
    BY <1>1, <2>1, <2>3 DEF IInv, Kept
  <2>. QED BY <2>2, <2>3
<1>. QED BY <1>2, <1>3 DEF IInv

\* The commit that takes effect: what the request has written is stored, for it alone.
LEMMA Publishes ==
    ASSUME IInv, NEW p \in Request, NEW m, Become(p, m), call[p].tx = "open",
           database' = database \cup ({p} \X call[p].written),
           faults' \in 0..MaxFaults, m \in Call, Place(m), Outcome(m),
           m.tx = "committed", m.written = call[p].written
    PROVE  IInv'
<1>1. /\ call' \in [Request -> Call] /\ call'[p] = m
      /\ \A q \in Request \ {p} : call'[q] = call[q]
  BY DEF IInv, TypeOK, Become
<1>2. call[p].written \subseteq Item
  BY DEF IInv, TypeOK, Call
<1>3. database' \subseteq Request \X Item
  BY <1>2 DEF IInv, TypeOK
<1>4. TypeOK'
  BY <1>1, <1>3 DEF TypeOK
<1>5. ASSUME NEW q \in Request
      PROVE  Place(call'[q]) /\ Outcome(call'[q]) /\ Kept(q)'
  <2>1. CASE q = p
    <3>1. Stored(p) = {}
      BY DEF IInv, Kept
    <3>2. Stored(p)' = call[p].written
      BY <1>2, <3>1 DEF Stored
    <3>. QED BY <1>1, <2>1, <3>2 DEF Kept
  <2>2. CASE q # p
    <3>1. Stored(q)' = Stored(q)
      BY <2>2 DEF Stored
    <3>. QED BY <1>1, <2>2, <3>1 DEF IInv, Kept
  <2>. QED BY <2>1, <2>2
<1>. QED BY <1>4, <1>5 DEF IInv

\* Every step keeps the invariant.
LEMMA NextIInv == IInv /\ [Next]_vars => IInv'
<1>. SUFFICES ASSUME IInv, [Next]_vars PROVE IInv'
  OBVIOUS
<1>0. ASSUME NEW p \in Request
      PROVE  /\ call[p] \in Call /\ Place(call[p]) /\ Outcome(call[p])
             /\ call[p].calls + 1 \in Nat /\ call[p].depth + 1 \in Nat
             /\ call[p].depth > 1 => call[p].depth - 1 \in Nat
             /\ call[p].registered + 1 \in Nat /\ call[p].ran + 1 \in Nat
  BY DEF IInv, TypeOK, Call
<1>00. /\ faults \in 0..MaxFaults
       /\ NoFault \/ FaultHappens => faults' \in 0..MaxFaults
  BY BoundAssumption DEF IInv, TypeOK, NoFault, FaultHappens
<1>1. CASE UNCHANGED vars
  BY <1>1 DEF vars, IInv, TypeOK, Place, Outcome, Kept, Stored
<1>2. ASSUME NEW p \in Request, Enter(p)
      PROVE  IInv'
  <2>. DEFINE m == [call[p] EXCEPT !.pc = "begin", !.calls = 1, !.depth = 1]
  <2>1. m \in Call
    BY <1>0 DEF Call, PCs
  <2>2. Place(m) /\ Outcome(m) /\ m.tx = call[p].tx /\ m.written = call[p].written
    BY <1>0, <1>2 DEF Enter, Call, Place, Outcome
  <2>3. Become(p, m) /\ UNCHANGED database /\ NoFault
    BY <1>2 DEF Enter
  <2>. HIDE DEF m
  <2>. QED BY <1>00, <2>1, <2>2, <2>3, OneRequest
<1>3. ASSUME NEW p \in Request, BeginTransaction(p)
      PROVE  IInv'
  <2>. DEFINE m == [call[p] EXCEPT !.pc = "running", !.tx = "open"]
              n == [call[p] EXCEPT !.pc = "unwrap", !.depth = 0, !.result = Failure]
  <2>1. m \in Call /\ n \in Call
    BY <1>0, ResultTypes DEF Call, PCs
  <2>2. /\ Place(m) /\ Outcome(m) /\ (m.tx = "committed" <=> call[p].tx = "committed")
        /\ m.tx = "committed" => m.written = call[p].written
        /\ Place(n) /\ Outcome(n) /\ (n.tx = "committed" <=> call[p].tx = "committed")
        /\ n.tx = "committed" => n.written = call[p].written
    BY <1>0, <1>3 DEF BeginTransaction, Call, Place, Outcome, Value, Failure, Nothing
  <2>3. /\ UNCHANGED database
        /\ \/ Become(p, m) /\ NoFault
           \/ Become(p, n) /\ FaultHappens
    BY <1>3 DEF BeginTransaction
  <2>. HIDE DEF m, n
  <2>. QED BY <1>00, <2>1, <2>2, <2>3, OneRequest
<1>4. ASSUME NEW p \in Request, Nest(p)
      PROVE  IInv'
  <2>. DEFINE m == [call[p] EXCEPT !.calls = @ + 1, !.depth = @ + 1]
  <2>1. m \in Call
    BY <1>0 DEF Call, PCs
  <2>2. /\ Place(m) /\ Outcome(m) /\ (m.tx = "committed" <=> call[p].tx = "committed")
        /\ m.tx = "committed" => m.written = call[p].written
    BY <1>0, <1>4 DEF Nest, Call, Place, Outcome
  <2>3. /\ UNCHANGED database
        /\ Become(p, m) /\ NoFault
    BY <1>4 DEF Nest
  <2>. HIDE DEF m
  <2>. QED BY <1>00, <2>1, <2>2, <2>3, OneRequest
<1>5. ASSUME NEW p \in Request, Issue(p)
      PROVE  IInv'
  <2>. DEFINE m == [call[p] EXCEPT !.pc = "statement"]
  <2>1. m \in Call
    BY <1>0 DEF Call, PCs
  <2>2. /\ Place(m) /\ Outcome(m) /\ (m.tx = "committed" <=> call[p].tx = "committed")
        /\ m.tx = "committed" => m.written = call[p].written
    BY <1>0, <1>5 DEF Issue, Call, Place, Outcome
  <2>3. /\ UNCHANGED database
        /\ Become(p, m) /\ NoFault
    BY <1>5 DEF Issue
  <2>. HIDE DEF m
  <2>. QED BY <1>00, <2>1, <2>2, <2>3, OneRequest
<1>6. ASSUME NEW p \in Request, Statement(p)
      PROVE  IInv'
  <2>1. ASSUME NEW i \in Item, NoFault, UNCHANGED database,
               Become(p, [call[p] EXCEPT !.pc = "running", !.written = @ \cup {i}])
        PROVE  IInv'
    <3>. DEFINE m == [call[p] EXCEPT !.pc = "running", !.written = @ \cup {i}]
    <3>1. m \in Call
      BY <1>0 DEF Call, PCs
    <3>2. Place(m) /\ Outcome(m) /\ m.tx = "open" /\ call[p].tx = "open"
      BY <1>0, <1>6 DEF Statement, Call, Place, Outcome
    <3>3. Become(p, m)
      BY <2>1
    <3>. HIDE DEF m
    <3>. QED BY <1>00, <2>1, <3>1, <3>2, <3>3, OneRequest
  <2>2. ASSUME FaultHappens, UNCHANGED database,
               Become(p, [call[p] EXCEPT !.pc = "running", !.failed = TRUE])
        PROVE  IInv'
    <3>. DEFINE m == [call[p] EXCEPT !.pc = "running", !.failed = TRUE]
    <3>1. m \in Call
      BY <1>0 DEF Call, PCs
    <3>2. Place(m) /\ Outcome(m) /\ m.tx = "open" /\ call[p].tx = "open"
      BY <1>0, <1>6 DEF Statement, Call, Place, Outcome
    <3>3. Become(p, m)
      BY <2>2
    <3>. HIDE DEF m
    <3>. QED BY <1>00, <2>2, <3>1, <3>2, <3>3, OneRequest
  <2>. QED BY <1>6, <2>1, <2>2 DEF Statement
<1>7. ASSUME NEW p \in Request, RegisterAfterCommit(p)
      PROVE  IInv'
  <2>. DEFINE m == [call[p] EXCEPT !.registered = @ + 1]
  <2>1. m \in Call
    BY <1>0 DEF Call, PCs
  <2>2. /\ Place(m) /\ Outcome(m) /\ (m.tx = "committed" <=> call[p].tx = "committed")
        /\ m.tx = "committed" => m.written = call[p].written
    BY <1>0, <1>7 DEF RegisterAfterCommit, Call, Place, Outcome
  <2>3. /\ UNCHANGED database
        /\ Become(p, m) /\ NoFault
    BY <1>7 DEF RegisterAfterCommit
  <2>. HIDE DEF m
  <2>. QED BY <1>00, <2>1, <2>2, <2>3, OneRequest
<1>8. ASSUME NEW p \in Request, Panic(p)
      PROVE  IInv'
  <2>. DEFINE m == [call[p] EXCEPT !.pc = "panic", !.panicked = TRUE]
  <2>1. m \in Call
    BY <1>0 DEF Call, PCs
  <2>2. /\ Place(m) /\ Outcome(m) /\ (m.tx = "committed" <=> call[p].tx = "committed")
        /\ m.tx = "committed" => m.written = call[p].written
    BY <1>0, <1>8 DEF Panic, Call, Place, Outcome
  <2>3. /\ UNCHANGED database
        /\ Become(p, m) /\ FaultHappens
    BY <1>8 DEF Panic
  <2>. HIDE DEF m
  <2>. QED BY <1>00, <2>1, <2>2, <2>3, OneRequest
<1>9. ASSUME NEW p \in Request, RollbackTransaction(p)
      PROVE  IInv'
  <2>. DEFINE m == [call[p] EXCEPT !.pc = "unwrap", !.depth = 0, !.result = Failure, !.tx = "rolledback"]
  <2>1. m \in Call
    BY <1>0, ResultTypes DEF Call, PCs
  <2>2. /\ Place(m) /\ Outcome(m) /\ (m.tx = "committed" <=> call[p].tx = "committed")
        /\ m.tx = "committed" => m.written = call[p].written
    BY <1>0, <1>9 DEF RollbackTransaction, Call, Place, Outcome, Value, Failure, Nothing
  <2>3. /\ UNCHANGED database
        /\ Become(p, m) /\ NoFault
    BY <1>9 DEF RollbackTransaction
  <2>. HIDE DEF m
  <2>. QED BY <1>00, <2>1, <2>2, <2>3, OneRequest
<1>10. ASSUME NEW p \in Request, RunCallback(p)
      PROVE  IInv'
  <2>. DEFINE m == [call[p] EXCEPT !.ran = @ + 1]
              n == [call[p] EXCEPT !.pc = "unwrap", !.depth = 0, !.result = Failure]
              o == [call[p] EXCEPT !.pc = "panic"]
  <2>1. m \in Call /\ n \in Call /\ o \in Call
    BY <1>0, ResultTypes DEF Call, PCs
  <2>2. /\ Place(m) /\ Outcome(m) /\ (m.tx = "committed" <=> call[p].tx = "committed")
        /\ m.tx = "committed" => m.written = call[p].written
        /\ Place(n) /\ Outcome(n) /\ (n.tx = "committed" <=> call[p].tx = "committed")
        /\ n.tx = "committed" => n.written = call[p].written
        /\ Place(o) /\ Outcome(o) /\ (o.tx = "committed" <=> call[p].tx = "committed")
        /\ o.tx = "committed" => o.written = call[p].written
    BY <1>0, <1>10 DEF RunCallback, Call, Place, Outcome, Value, Failure, Nothing
  <2>3. /\ UNCHANGED database
        /\ \/ Become(p, m) /\ NoFault
           \/ Become(p, n) /\ FaultHappens
           \/ Become(p, o) /\ FaultHappens
    BY <1>10 DEF RunCallback
  <2>. HIDE DEF m, n, o
  <2>. QED BY <1>00, <2>1, <2>2, <2>3, OneRequest
<1>11. ASSUME NEW p \in Request, Finish(p)
      PROVE  IInv'
  <2>. DEFINE m == [call[p] EXCEPT !.pc = "unwrap", !.depth = 0, !.result = Value]
  <2>1. m \in Call
    BY <1>0, ResultTypes DEF Call, PCs
  <2>2. /\ Place(m) /\ Outcome(m) /\ (m.tx = "committed" <=> call[p].tx = "committed")
        /\ m.tx = "committed" => m.written = call[p].written
    BY <1>0, <1>11 DEF Finish, Call, Place, Outcome, Value, Failure, Nothing
  <2>3. /\ UNCHANGED database
        /\ Become(p, m) /\ NoFault
    BY <1>11 DEF Finish
  <2>. HIDE DEF m
  <2>. QED BY <1>00, <2>1, <2>2, <2>3, OneRequest
<1>12. ASSUME NEW p \in Request, Unwrap(p)
      PROVE  IInv'
  <2>. DEFINE r == call[p].result
              pc == CASE call[p].depth > 0 /\ r = Nothing -> "panic"
                      [] call[p].depth > 0 /\ r # Nothing -> "running"
                      [] call[p].depth = 0 /\ r = Value   -> "ok"
                      [] call[p].depth = 0 /\ r # Value   -> "error"
              m == [call[p] EXCEPT !.result = Nothing, !.pc = pc]
  <2>1. m \in Call
    <3>1. pc \in PCs
      BY <1>0 DEF Call, PCs
    <3>. HIDE DEF pc
    <3>. QED BY <1>0, <3>1, ResultTypes DEF Call
  <2>2. /\ Place(m) /\ Outcome(m) /\ (m.tx = "committed" <=> call[p].tx = "committed")
        /\ m.tx = "committed" => m.written = call[p].written
    <3>1. call[p].pc = "unwrap"
      BY <1>12 DEF Unwrap
    <3>2. /\ m.tx = call[p].tx /\ m.written = call[p].written /\ m.depth = call[p].depth
          /\ m.failed = call[p].failed /\ m.panicked = call[p].panicked
          /\ m.ran = call[p].ran /\ m.registered = call[p].registered /\ m.pc = pc
      <4>. HIDE DEF pc
      <4>. QED BY <1>0 DEF Call
    <3>. HIDE DEF m
    <3>3. CASE call[p].depth > 0
      <4>1. m.pc = IF r = Nothing THEN "panic" ELSE "running"
        BY <1>0, <3>2, <3>3 DEF Call
      <4>. HIDE DEF pc
      <4>. QED BY <1>0, <3>1, <3>2, <3>3, <4>1 DEF Place, Outcome
    <3>4. CASE call[p].depth = 0
      <4>1. m.pc = IF r = Value THEN "ok" ELSE "error"
        BY <1>0, <3>2, <3>4 DEF Call
      <4>. HIDE DEF pc
      <4>. QED BY <1>0, <3>1, <3>2, <3>4, <4>1, ResultTypes DEF Place, Outcome
    <3>. QED BY <1>0, <3>3, <3>4 DEF Call
  <2>3. /\ UNCHANGED database
        /\ Become(p, m) /\ NoFault
    BY <1>12 DEF Unwrap
  <2>. HIDE DEF m
  <2>. QED BY <1>00, <2>1, <2>2, <2>3, OneRequest
<1>13. ASSUME NEW p \in Request, Return(p)
      PROVE  IInv'
  <2>. DEFINE m(r) == [call[p] EXCEPT !.pc = "unwrap", !.depth = @ - 1, !.result = r]
              n(pc) == [call[p] EXCEPT !.pc = pc]
  <2>1. CASE call[p].depth > 1
    <3>1. \A r \in {Value, Failure} : m(r) \in Call
      BY <1>0, <2>1, ResultTypes DEF Call, PCs
    <3>2. \A r \in {Value, Failure} : /\ Place(m(r)) /\ Outcome(m(r)) /\ m(r).tx = "open"
                                     /\ call[p].tx = "open"
      BY <1>0, <1>13, <2>1 DEF Return, Call, Place, Outcome
    <3>3. /\ UNCHANGED database /\ NoFault
          /\ \E r \in {Value, Failure} : Become(p, m(r))
      BY <1>13, <2>1 DEF Return
    <3>. HIDE DEF m
    <3>. QED BY <1>00, <3>1, <3>2, <3>3, OneRequest
  <2>2. CASE call[p].depth = 1
    <3>1. \A pc \in {"commit", "rollback"} : n(pc) \in Call
      BY <1>0 DEF Call, PCs
    <3>2. \A pc \in {"commit", "rollback"} : /\ Place(n(pc)) /\ Outcome(n(pc)) /\ n(pc).tx = "open"
                                             /\ call[p].tx = "open"
      BY <1>0, <1>13, <2>2 DEF Return, Call, Place, Outcome
    <3>3. /\ UNCHANGED database /\ NoFault
          /\ \E pc \in {"commit", "rollback"} : Become(p, n(pc))
      BY <1>13, <2>2 DEF Return
    <3>. HIDE DEF n
    <3>. QED BY <1>00, <3>1, <3>2, <3>3, OneRequest
  <2>. QED BY <1>13, <2>1, <2>2 DEF Return
<1>14. ASSUME NEW p \in Request, Recover(p)
      PROVE  IInv'
  <2>. DEFINE m == [call[p] EXCEPT !.pc = "unwrap", !.depth = @ - 1, !.result = Nothing]
              n == [call[p] EXCEPT !.pc = "unwrap", !.depth = 0, !.result = Failure,
                                   !.tx = IF @ = "open" THEN "rolledback" ELSE @]
  <2>1. CASE call[p].depth > 1
    <3>1. m \in Call
      BY <1>0, <2>1, ResultTypes DEF Call, PCs
    <3>2. Place(m) /\ Outcome(m) /\ m.tx = "open" /\ call[p].tx = "open"
      BY <1>0, <1>14, <2>1 DEF Recover, Call, Place, Outcome, Value, Nothing
    <3>3. UNCHANGED database /\ NoFault /\ Become(p, m)
      BY <1>14, <2>1 DEF Recover
    <3>. HIDE DEF m
    <3>. QED BY <1>00, <3>1, <3>2, <3>3, OneRequest
  <2>2. CASE call[p].depth = 1
    <3>1. n \in Call
      BY <1>0, ResultTypes DEF Call, PCs
    <3>2. /\ Place(n) /\ Outcome(n) /\ n.written = call[p].written
          /\ n.tx = "committed" <=> call[p].tx = "committed"
      BY <1>0, <1>14, <2>2 DEF Recover, Call, Place, Outcome, Value, Failure
    <3>3. UNCHANGED database /\ NoFault /\ Become(p, n)
      BY <1>14, <2>2 DEF Recover
    <3>. HIDE DEF n
    <3>. QED BY <1>00, <3>1, <3>2, <3>3, OneRequest
  <2>. QED BY <1>14, <2>1, <2>2 DEF Recover
<1>15. ASSUME NEW p \in Request, CommitTransaction(p)
      PROVE  IInv'
  <2>. DEFINE refused == [call[p] EXCEPT !.pc = "unwrap", !.depth = 0, !.result = Failure,
                                         !.tx = "rolledback"]
              done == [call[p] EXCEPT !.pc = "callbacks", !.tx = "committed"]
              unheard == [refused EXCEPT !.tx = "committed"]
  <2>1. refused \in Call /\ done \in Call /\ unheard \in Call
    BY <1>0, ResultTypes DEF Call, PCs
  <2>2. /\ call[p].tx = "open"
        /\ Place(refused) /\ Outcome(refused) /\ refused.tx = "rolledback"
    BY <1>0, <1>15 DEF CommitTransaction, Call, Place, Outcome, Value, Failure
  <2>3. ~call[p].failed => /\ Place(done) /\ Outcome(done)
                           /\ done.tx = "committed" /\ done.written = call[p].written
    BY <1>0, <1>15 DEF CommitTransaction, Call, Place, Outcome
  <2>4. ~call[p].failed => /\ Place(unheard) /\ Outcome(unheard)
                           /\ unheard.tx = "committed" /\ unheard.written = call[p].written
    BY <1>0, <1>15 DEF CommitTransaction, Call, Place, Outcome, Value, Failure
  <2>5. /\ NoFault \/ FaultHappens
        /\ \/ Become(p, refused) /\ UNCHANGED database
           \/ /\ ~call[p].failed
              /\ database' = database \cup ({p} \X call[p].written)
              /\ Become(p, done) \/ Become(p, unheard)
    BY <1>15 DEF CommitTransaction
  <2>. HIDE DEF refused, done, unheard
  <2>6. CASE Become(p, refused) /\ UNCHANGED database
    BY <1>00, <2>1, <2>2, <2>5, <2>6, OneRequest
  <2>7. CASE /\ ~call[p].failed
             /\ database' = database \cup ({p} \X call[p].written)
             /\ Become(p, done) \/ Become(p, unheard)
    BY <1>00, <2>1, <2>2, <2>3, <2>4, <2>5, <2>7, Publishes
  <2>. QED BY <2>5, <2>6, <2>7
<1>16. CASE Crash
  <2>1. ASSUME NEW p \in Request
        PROVE  /\ call'[p] \in Call /\ Place(call'[p]) /\ Outcome(call'[p])
               /\ call'[p].written = call[p].written
               /\ call'[p].tx = "committed" <=> call[p].tx = "committed"
    <3>1. CASE call[p].pc \in {"idle", "ok", "error", "dead"}
      <4>1. call'[p] = call[p]
        BY <1>16, <3>1 DEF Crash
      <4>. QED BY <1>0, <4>1
    <3>2. CASE call[p].pc \notin {"idle", "ok", "error", "dead"}
      <4>. DEFINE m == [call[p] EXCEPT !.pc = "dead",
                                       !.tx = IF @ = "open" THEN "rolledback" ELSE @]
      <4>1. call'[p] = m
        BY <1>16, <3>2 DEF Crash
      <4>2. m \in Call
        BY <1>0 DEF Call, PCs
      <4>3. /\ m.pc = "dead" /\ m.written = call[p].written
            /\ m.tx = IF call[p].tx = "open" THEN "rolledback" ELSE call[p].tx
            /\ m.failed = call[p].failed /\ m.panicked = call[p].panicked
            /\ m.ran = call[p].ran /\ m.registered = call[p].registered
        BY <1>0 DEF Call
      <4>. HIDE DEF m
      <4>4. Place(m) /\ Outcome(m)
        BY <1>0, <4>3 DEF Place, Outcome
      <4>. QED BY <4>1, <4>2, <4>3, <4>4
    <3>. QED BY <3>1, <3>2
  <2>2. TypeOK'
    <3>1. call' \in [Request -> Call]
      BY <2>1, <1>16 DEF Crash
    <3>. QED BY <1>00, <1>16, <3>1 DEF Crash, IInv, TypeOK
  <2>3. ASSUME NEW p \in Request
        PROVE  Kept(p)'
    <3>1. Stored(p)' = Stored(p)
      BY <1>16 DEF Crash, Stored
    <3>. QED BY <2>1, <3>1 DEF IInv, Kept
  <2>. QED BY <2>1, <2>2, <2>3 DEF IInv
<1>. QED
  BY <1>1, <1>2, <1>3, <1>4, <1>5, <1>6, <1>7, <1>8, <1>9, <1>10, <1>11, <1>12,
     <1>13, <1>14, <1>15, <1>16
  DEF Next, Step, Terminated

-----------------------------------------------------------------------------
(***************************************************************************)
(* Every step is a step of AtomicWork or changes nothing of it.            *)
(***************************************************************************)

\* The steps of one request that store nothing, as AtomicWork sees them.
Moves(before, after) ==
    \/ after = before
    \/ before = "working" /\ after = "discarded"
    \/ before = "published" /\ after \in {"ok", "error"}
    \/ before = "discarded" /\ after = "error"

\* The other requests are where they were.
LEMMA OthersStay ==
    ASSUME IInv, NEW p \in Request, NEW m, Become(p, m)
    PROVE  /\ call'[p] = m
           /\ \A q \in Request \ {p} : call'[q] = call[q] /\ PhaseOf(q)' = PhaseOf(q)
<1>1. call'[p] = m /\ \A q \in Request \ {p} : call'[q] = call[q]
  BY DEF IInv, TypeOK, Become
<1>. QED BY <1>1 DEF PhaseOf

LEMMA MovesRefine ==
    ASSUME IInv, NEW p \in Request, NEW m, Become(p, m), UNCHANGED database,
           m.written = call[p].written, Moves(PhaseOf(p), PhaseOf(p)')
    PROVE  [Abstract!Next]_(Abstract!vars)
<1>. DEFINE work == [q \in Request |-> call[q].written]
            phase == [q \in Request |-> PhaseOf(q)]
<1>1. work' = work
  BY OthersStay
<1>2. phase' = [phase EXCEPT ![p] = PhaseOf(p)']
  BY OthersStay
<1>3. CASE PhaseOf(p)' = PhaseOf(p)
  <2>1. phase' = phase
    BY <1>2, <1>3
  <2>. QED BY <1>1, <2>1 DEF Abstract!vars
<1>4. CASE PhaseOf(p) = "working" /\ PhaseOf(p)' = "discarded"
  <2>1. Abstract!Discard(p)
    BY <1>1, <1>2, <1>4 DEF Abstract!Discard
  <2>. QED BY <2>1 DEF Abstract!Next
<1>5. CASE \/ PhaseOf(p) = "published" /\ PhaseOf(p)' \in {"ok", "error"}
           \/ PhaseOf(p) = "discarded" /\ PhaseOf(p)' = "error"
  <2>1. Abstract!Reply(p)
    BY <1>1, <1>2, <1>5 DEF Abstract!Reply
  <2>. QED BY <2>1 DEF Abstract!Next
<1>. QED BY <1>3, <1>4, <1>5 DEF Moves

LEMMA InitRefines == Init => Abstract!Init
BY DEF Init, NotCalled, PhaseOf, Abstract!Init

LEMMA NextRefines == IInv /\ [Next]_vars => [Abstract!Next]_(Abstract!vars)
<1>. SUFFICES ASSUME IInv, [Next]_vars PROVE [Abstract!Next]_(Abstract!vars)
  OBVIOUS
<1>0. ASSUME NEW p \in Request
      PROVE  call[p] \in Call /\ Place(call[p]) /\ Outcome(call[p])
  BY DEF IInv, TypeOK
<1>1. CASE UNCHANGED vars
  BY <1>1 DEF vars, PhaseOf, Abstract!vars
\* The steps after which the transaction is as it was.
<1>2. ASSUME NEW p \in Request, NEW m, Become(p, m), UNCHANGED database,
             m.written = call[p].written, m.tx = call[p].tx, call[p].tx \in {"open", "committed"},
             call[p].pc \notin {"ok", "error"}, m.pc \notin {"ok", "error"}
      PROVE  [Abstract!Next]_(Abstract!vars)
  <2>1. PhaseOf(p)' = PhaseOf(p)
    BY <1>2, OthersStay DEF PhaseOf
  <2>. QED BY <1>2, <2>1, MovesRefine DEF Moves
<1>3. ASSUME NEW p \in Request, Enter(p)
      PROVE  [Abstract!Next]_(Abstract!vars)
  <2>. DEFINE m == [call[p] EXCEPT !.pc = "begin", !.calls = 1, !.depth = 1]
  <2>1. Become(p, m) /\ UNCHANGED database /\ call[p].pc = "idle"
    BY <1>3 DEF Enter
  <2>2. m.written = call[p].written /\ m.pc = "begin" /\ m.tx = "none" /\ call[p].tx = "none"
    BY <1>0, <2>1 DEF Call, Place
  <2>. HIDE DEF m
  <2>3. PhaseOf(p)' = PhaseOf(p)
    BY <2>1, <2>2, OthersStay DEF PhaseOf
  <2>. QED BY <2>1, <2>2, <2>3, MovesRefine DEF Moves
<1>4. ASSUME NEW p \in Request, BeginTransaction(p)
      PROVE  [Abstract!Next]_(Abstract!vars)
  <2>. DEFINE m == [call[p] EXCEPT !.pc = "running", !.tx = "open"]
              n == [call[p] EXCEPT !.pc = "unwrap", !.depth = 0, !.result = Failure]
  <2>1. /\ Become(p, m) \/ Become(p, n)
        /\ UNCHANGED database /\ call[p].pc = "begin"
    BY <1>4 DEF BeginTransaction
  <2>2. /\ call[p].tx = "none"
        /\ m.written = call[p].written /\ m.pc = "running" /\ m.tx = "open"
        /\ n.written = call[p].written /\ n.pc = "unwrap" /\ n.tx = "none"
    BY <1>0, <2>1 DEF Call, Place
  <2>. HIDE DEF m, n
  <2>3. /\ PhaseOf(p) = "working"
        /\ Become(p, m) => PhaseOf(p)' = "working"
        /\ Become(p, n) => PhaseOf(p)' = "discarded"
    BY <2>1, <2>2, OthersStay DEF PhaseOf
  <2>. QED BY <2>1, <2>2, <2>3, MovesRefine DEF Moves
<1>5. ASSUME NEW p \in Request, Nest(p)
      PROVE  [Abstract!Next]_(Abstract!vars)
  <2>. DEFINE m == [call[p] EXCEPT !.calls = @ + 1, !.depth = @ + 1]
  <2>1. /\ Become(p, m)
        /\ UNCHANGED database /\ call[p].pc = "running"
    BY <1>5 DEF Nest
  <2>2. /\ call[p].tx \in {"open", "committed"}
        /\ m.written = call[p].written /\ m.tx = call[p].tx /\ m.pc \notin {"ok", "error"}
    BY <1>0, <2>1 DEF Call, Place
  <2>. HIDE DEF m
  <2>. QED BY <1>2, <2>1, <2>2
<1>6. ASSUME NEW p \in Request, Issue(p)
      PROVE  [Abstract!Next]_(Abstract!vars)
  <2>. DEFINE m == [call[p] EXCEPT !.pc = "statement"]
  <2>1. /\ Become(p, m)
        /\ UNCHANGED database /\ call[p].pc = "running"
    BY <1>6 DEF Issue
  <2>2. /\ call[p].tx \in {"open", "committed"}
        /\ m.written = call[p].written /\ m.tx = call[p].tx /\ m.pc \notin {"ok", "error"}
    BY <1>0, <2>1 DEF Call, Place
  <2>. HIDE DEF m
  <2>. QED BY <1>2, <2>1, <2>2
<1>7. ASSUME NEW p \in Request, RegisterAfterCommit(p)
      PROVE  [Abstract!Next]_(Abstract!vars)
  <2>. DEFINE m == [call[p] EXCEPT !.registered = @ + 1]
  <2>1. /\ Become(p, m)
        /\ UNCHANGED database /\ call[p].pc = "running"
    BY <1>7 DEF RegisterAfterCommit
  <2>2. /\ call[p].tx \in {"open", "committed"}
        /\ m.written = call[p].written /\ m.tx = call[p].tx /\ m.pc \notin {"ok", "error"}
    BY <1>0, <2>1 DEF Call, Place
  <2>. HIDE DEF m
  <2>. QED BY <1>2, <2>1, <2>2
<1>8. ASSUME NEW p \in Request, Panic(p)
      PROVE  [Abstract!Next]_(Abstract!vars)
  <2>. DEFINE m == [call[p] EXCEPT !.pc = "panic", !.panicked = TRUE]
  <2>1. /\ Become(p, m)
        /\ UNCHANGED database /\ call[p].pc = "running"
    BY <1>8 DEF Panic
  <2>2. /\ call[p].tx \in {"open", "committed"}
        /\ m.written = call[p].written /\ m.tx = call[p].tx /\ m.pc \notin {"ok", "error"}
    BY <1>0, <2>1 DEF Call, Place
  <2>. HIDE DEF m
  <2>. QED BY <1>2, <2>1, <2>2
<1>9. ASSUME NEW p \in Request, RunCallback(p)
      PROVE  [Abstract!Next]_(Abstract!vars)
  <2>. DEFINE m == [call[p] EXCEPT !.ran = @ + 1]
              n == [call[p] EXCEPT !.pc = "unwrap", !.depth = 0, !.result = Failure]
              o == [call[p] EXCEPT !.pc = "panic"]
  <2>1. /\ Become(p, m) \/ Become(p, n) \/ Become(p, o)
        /\ UNCHANGED database /\ call[p].pc = "callbacks"
    BY <1>9 DEF RunCallback
  <2>2. /\ call[p].tx \in {"open", "committed"}
        /\ m.written = call[p].written /\ m.tx = call[p].tx /\ m.pc \notin {"ok", "error"}
        /\ n.written = call[p].written /\ n.tx = call[p].tx /\ n.pc \notin {"ok", "error"}
        /\ o.written = call[p].written /\ o.tx = call[p].tx /\ o.pc \notin {"ok", "error"}
    BY <1>0, <2>1 DEF Call, Place
  <2>. HIDE DEF m, n, o
  <2>. QED BY <1>2, <2>1, <2>2
<1>10. ASSUME NEW p \in Request, Finish(p)
      PROVE  [Abstract!Next]_(Abstract!vars)
  <2>. DEFINE m == [call[p] EXCEPT !.pc = "unwrap", !.depth = 0, !.result = Value]
  <2>1. /\ Become(p, m)
        /\ UNCHANGED database /\ call[p].pc = "callbacks"
    BY <1>10 DEF Finish
  <2>2. /\ call[p].tx \in {"open", "committed"}
        /\ m.written = call[p].written /\ m.tx = call[p].tx /\ m.pc \notin {"ok", "error"}
    BY <1>0, <2>1 DEF Call, Place
  <2>. HIDE DEF m
  <2>. QED BY <1>2, <2>1, <2>2
<1>11. ASSUME NEW p \in Request, Statement(p)
      PROVE  [Abstract!Next]_(Abstract!vars)
  <2>1. ASSUME NEW i \in Item,
               Become(p, [call[p] EXCEPT !.pc = "running", !.written = @ \cup {i}])
        PROVE  Abstract!Write(p, i)
    <3>. DEFINE m == [call[p] EXCEPT !.pc = "running", !.written = @ \cup {i}]
                work == [q \in Request |-> call[q].written]
                phase == [q \in Request |-> PhaseOf(q)]
    <3>1. /\ m.written = call[p].written \cup {i} /\ m.pc = "running" /\ m.tx = "open"
          /\ call[p].pc = "statement" /\ call[p].tx = "open" /\ UNCHANGED database
      BY <1>0, <1>11 DEF Statement, Call, Place
    <3>2. Become(p, m)
      BY <2>1
    <3>. HIDE DEF m
    <3>3. work' = [work EXCEPT ![p] = @ \cup {i}]
      <4>1. \A q \in Request : call'[q].written =
                IF q = p THEN call[p].written \cup {i} ELSE call[q].written
        BY <3>1, <3>2, OthersStay
      <4>. QED BY <4>1
    <3>4. PhaseOf(p) = "working" /\ PhaseOf(p)' = "working"
      BY <3>1, <3>2, OthersStay DEF PhaseOf
    <3>5. phase' = phase
      BY <3>2, <3>4, OthersStay
    <3>. QED BY <3>1, <3>3, <3>4, <3>5 DEF Abstract!Write
  <2>2. ASSUME Become(p, [call[p] EXCEPT !.pc = "running", !.failed = TRUE]), UNCHANGED database
        PROVE  [Abstract!Next]_(Abstract!vars)
    <3>. DEFINE m == [call[p] EXCEPT !.pc = "running", !.failed = TRUE]
    <3>1. /\ m.written = call[p].written /\ m.tx = call[p].tx /\ m.pc = "running"
          /\ call[p].pc = "statement" /\ call[p].tx = "open"
      BY <1>0, <1>11 DEF Statement, Call, Place
    <3>2. Become(p, m)
      BY <2>2
    <3>. HIDE DEF m
    <3>. QED BY <1>2, <2>2, <3>1, <3>2
  <2>. QED BY <1>11, <2>1, <2>2 DEF Statement, Abstract!Next
<1>12. ASSUME NEW p \in Request, Return(p)
      PROVE  [Abstract!Next]_(Abstract!vars)
  <2>1. UNCHANGED database /\ call[p].pc = "running" /\ call[p].tx = "open"
    BY <1>0, <1>12 DEF Return, Place
  <2>2. ASSUME NEW r, Become(p, [call[p] EXCEPT !.pc = "unwrap", !.depth = @ - 1, !.result = r])
        PROVE  [Abstract!Next]_(Abstract!vars)
    <3>. DEFINE m == [call[p] EXCEPT !.pc = "unwrap", !.depth = @ - 1, !.result = r]
    <3>1. Become(p, m) /\ m.written = call[p].written /\ m.tx = call[p].tx /\ m.pc = "unwrap"
      BY <1>0, <2>2 DEF Call
    <3>. HIDE DEF m
    <3>. QED BY <1>2, <2>1, <3>1
  <2>3. ASSUME NEW pc \in {"commit", "rollback"}, Become(p, [call[p] EXCEPT !.pc = pc])
        PROVE  [Abstract!Next]_(Abstract!vars)
    <3>. DEFINE m == [call[p] EXCEPT !.pc = pc]
    <3>1. Become(p, m) /\ m.written = call[p].written /\ m.tx = call[p].tx /\ m.pc = pc
      BY <1>0, <2>3 DEF Call
    <3>. HIDE DEF m
    <3>. QED BY <1>2, <2>1, <3>1
  <2>. QED BY <1>12, <2>2, <2>3 DEF Return
<1>13. ASSUME NEW p \in Request, Recover(p)
      PROVE  [Abstract!Next]_(Abstract!vars)
  <2>. DEFINE m == [call[p] EXCEPT !.pc = "unwrap", !.depth = @ - 1, !.result = Nothing]
              n == [call[p] EXCEPT !.pc = "unwrap", !.depth = 0, !.result = Failure,
                                   !.tx = IF @ = "open" THEN "rolledback" ELSE @]
  <2>1. /\ Become(p, m) \/ Become(p, n)
        /\ UNCHANGED database /\ call[p].pc = "panic"
    BY <1>13 DEF Recover
  <2>2. /\ call[p].tx \in {"open", "committed"}
        /\ m.written = call[p].written /\ m.tx = call[p].tx /\ m.pc = "unwrap"
        /\ n.written = call[p].written /\ n.pc = "unwrap"
        /\ n.tx = IF call[p].tx = "open" THEN "rolledback" ELSE "committed"
    BY <1>0, <2>1 DEF Call, Place
  <2>. HIDE DEF m, n
  <2>3. CASE Become(p, m)
    BY <1>2, <2>1, <2>2, <2>3
  <2>4. CASE Become(p, n)
    <3>1. Moves(PhaseOf(p), PhaseOf(p)')
      BY <2>1, <2>2, <2>4, OthersStay DEF PhaseOf, Moves
    <3>. QED BY <2>1, <2>2, <2>4, <3>1, MovesRefine
  <2>. QED BY <2>1, <2>3, <2>4
<1>14. ASSUME NEW p \in Request, RollbackTransaction(p)
      PROVE  [Abstract!Next]_(Abstract!vars)
  <2>. DEFINE m == [call[p] EXCEPT !.pc = "unwrap", !.depth = 0, !.result = Failure,
                                   !.tx = "rolledback"]
  <2>1. Become(p, m) /\ UNCHANGED database /\ call[p].pc = "rollback"
    BY <1>14 DEF RollbackTransaction
  <2>2. /\ call[p].tx = "open" /\ m.tx = "rolledback" /\ m.pc = "unwrap"
        /\ m.written = call[p].written
    BY <1>0, <2>1 DEF Call, Place
  <2>. HIDE DEF m
  <2>3. Moves(PhaseOf(p), PhaseOf(p)')
    BY <2>1, <2>2, OthersStay DEF PhaseOf, Moves
  <2>. QED BY <2>1, <2>2, <2>3, MovesRefine
<1>15. ASSUME NEW p \in Request, CommitTransaction(p)
      PROVE  [Abstract!Next]_(Abstract!vars)
  <2>. DEFINE refused == [call[p] EXCEPT !.pc = "unwrap", !.depth = 0, !.result = Failure,
                                         !.tx = "rolledback"]
              done == [call[p] EXCEPT !.pc = "callbacks", !.tx = "committed"]
              unheard == [refused EXCEPT !.tx = "committed"]
              work == [q \in Request |-> call[q].written]
              phase == [q \in Request |-> PhaseOf(q)]
  <2>1. /\ call[p].pc = "commit"
        /\ \/ Become(p, refused) /\ UNCHANGED database
           \/ /\ database' = database \cup ({p} \X call[p].written)
              /\ Become(p, done) \/ Become(p, unheard)
    BY <1>15 DEF CommitTransaction
  <2>2. /\ call[p].tx = "open"
        /\ refused.written = call[p].written /\ refused.tx = "rolledback" /\ refused.pc = "unwrap"
        /\ done.written = call[p].written /\ done.tx = "committed" /\ done.pc = "callbacks"
        /\ unheard.written = call[p].written /\ unheard.tx = "committed" /\ unheard.pc = "unwrap"
    BY <1>0, <2>1 DEF Call, Place
  <2>. HIDE DEF refused, done, unheard
  <2>3. CASE Become(p, refused) /\ UNCHANGED database
    <3>1. Moves(PhaseOf(p), PhaseOf(p)')
      BY <2>1, <2>2, <2>3, OthersStay DEF PhaseOf, Moves
    <3>. QED BY <2>2, <2>3, <3>1, MovesRefine
  <2>4. ASSUME NEW m, Become(p, m), m.written = call[p].written, m.tx = "committed",
               m.pc \in {"callbacks", "unwrap"},
               database' = database \cup ({p} \X call[p].written)
        PROVE  Abstract!Publish(p)
    <3>1. work' = work
      BY <2>4, OthersStay
    <3>2. PhaseOf(p) = "working" /\ PhaseOf(p)' = "published"
      BY <2>1, <2>2, <2>4, OthersStay DEF PhaseOf
    <3>3. phase' = [phase EXCEPT ![p] = "published"]
      BY <2>4, <3>2, OthersStay
    <3>. QED BY <2>4, <3>1, <3>2, <3>3 DEF Abstract!Publish
  <2>. QED BY <2>1, <2>2, <2>3, <2>4 DEF Abstract!Next
<1>16. ASSUME NEW p \in Request, Unwrap(p)
      PROVE  [Abstract!Next]_(Abstract!vars)
  <2>1. UNCHANGED database /\ call[p].pc = "unwrap"
    BY <1>16 DEF Unwrap
  <2>. DEFINE r == call[p].result
              pc == CASE call[p].depth > 0 /\ r = Nothing -> "panic"
                      [] call[p].depth > 0 /\ r # Nothing -> "running"
                      [] call[p].depth = 0 /\ r = Value   -> "ok"
                      [] call[p].depth = 0 /\ r # Value   -> "error"
              m == [call[p] EXCEPT !.result = Nothing, !.pc = pc]
  <2>2. /\ Become(p, m) /\ m.written = call[p].written /\ m.tx = call[p].tx
        /\ call[p].depth > 0 => m.pc \in {"panic", "running"}
        /\ call[p].depth = 0 => m.pc = IF call[p].result = Value THEN "ok" ELSE "error"
    <3>1. Become(p, m)
      BY <1>16 DEF Unwrap
    <3>2. m.written = call[p].written /\ m.tx = call[p].tx /\ m.pc = pc
      <4>. HIDE DEF pc
      <4>. QED BY <1>0 DEF Call
    <3>. HIDE DEF m
    <3>. QED BY <1>0, <3>1, <3>2 DEF Call
  <2>. HIDE DEF m
  <2>3. CASE call[p].depth > 0
    BY <1>0, <1>2, <2>1, <2>2, <2>3 DEF Place
  <2>4. CASE call[p].depth = 0
    <3>1. call[p].tx # "open" /\ (call[p].result = Value => call[p].tx = "committed")
      BY <1>0, <2>1, <2>4 DEF Place, Outcome
    <3>2. call[p].tx \in {"none", "committed", "rolledback"}
      BY <1>0, <3>1 DEF Call
    <3>3. Moves(PhaseOf(p), PhaseOf(p)')
      BY <2>1, <2>2, <2>4, <3>1, <3>2, OthersStay DEF PhaseOf, Moves
    <3>. QED BY <2>1, <2>2, <3>3, MovesRefine
  <2>. QED BY <1>0, <2>3, <2>4 DEF Call
<1>17. CASE Crash
  <2>. DEFINE work == [q \in Request |-> call[q].written]
              phase == [q \in Request |-> PhaseOf(q)]
              lost == {q \in Request : PhaseOf(q) = "working" /\ call[q].pc # "idle"}
  <2>1. ASSUME NEW q \in Request
        PROVE  /\ call'[q].written = call[q].written
               /\ PhaseOf(q)' = IF q \in lost THEN "discarded" ELSE PhaseOf(q)
    <3>1. CASE call[q].pc \in {"idle", "ok", "error", "dead"}
      <4>1. call'[q] = call[q]
        BY <1>17, <3>1 DEF Crash
      <4>2. call[q].pc = "dead" => call[q].tx # "open"
        BY <1>0 DEF Place
      <4>. QED BY <1>0, <3>1, <4>1, <4>2 DEF PhaseOf, Call
    <3>2. CASE call[q].pc \notin {"idle", "ok", "error", "dead"}
      <4>1. /\ call'[q].pc = "dead" /\ call'[q].written = call[q].written
            /\ call'[q].tx = IF call[q].tx = "open" THEN "rolledback" ELSE call[q].tx
        BY <1>0, <1>17, <3>2 DEF Crash, Call
      <4>2. call[q].tx \in {"none", "open", "committed", "rolledback"}
        BY <1>0 DEF Call
      <4>. QED BY <3>2, <4>1, <4>2 DEF PhaseOf
    <3>. QED BY <3>1, <3>2
  <2>2. work' = work /\ UNCHANGED database
    BY <1>17, <2>1 DEF Crash
  <2>3. phase' = [q \in Request |-> IF q \in lost THEN "discarded" ELSE phase[q]]
    BY <2>1
  <2>4. lost \in SUBSET {q \in Request : phase[q] = "working"}
    OBVIOUS
  <2>. QED BY <2>2, <2>3, <2>4 DEF Abstract!Crash, Abstract!Next
<1>. QED
  BY <1>1, <1>3, <1>4, <1>5, <1>6, <1>7, <1>8, <1>9, <1>10, <1>11, <1>12,
     <1>13, <1>14, <1>15, <1>16, <1>17
  DEF Next, Step, Terminated

-----------------------------------------------------------------------------
(***************************************************************************)
(* The theorems.                                                           *)
(***************************************************************************)

\* The invariant the others follow from: at every step of every request, what is
\* stored is what its place in ExecuteInTransaction says.
THEOREM Invariance == Spec => []IInv
<1>. QED BY InitIInv, NextIInv, PTL DEF Spec

\* The committed writes and the local states of the requests have their types.
THEOREM TypeCorrect == Spec => []TypeOK
<1>1. IInv => TypeOK
  BY DEF IInv
<1>. QED BY <1>1, Invariance, PTL

\* A caller of ExecuteInTransaction that is told of success, and a callback that runs
\* after the commit, find everything the use case wrote in the database.
THEOREM OkDurable == Spec => []OkMeansDurable
<1>1. IInv => OkMeansDurable
  BY DEF IInv, OkMeansDurable, Place, Outcome, Kept
<1>. QED BY <1>1, Invariance, PTL

\* Nothing is kept of a request with a panic in one of its bodies, recovered in a
\* nested ExecuteInTransaction or not.
THEOREM PanicDiscards == Spec => []PanicNeverCommits
<1>1. IInv => PanicNeverCommits
  BY DEF IInv, PanicNeverCommits, Outcome, Kept
<1>. QED BY <1>1, Invariance, PTL

\* ExecuteInTransaction keeps the promise of a transactional use case: all that a
\* request wrote becomes durable in one step, or none of it.
THEOREM Refinement == Spec => IsAtomicWork
<1>. QED BY Invariance, InitRefines, NextRefines, PTL DEF Spec, IsAtomicWork, Abstract!Spec
=============================================================================
