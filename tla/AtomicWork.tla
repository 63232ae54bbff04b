----------------------------- MODULE AtomicWork -----------------------------
(***************************************************************************)
(* What a transactional use case promises its caller, without saying how:  *)
(* what a request writes becomes durable all at once or not at all, and a  *)
(* request that is told "ok" has all of it durable.  An error promises     *)
(* nothing: the answer to the commit may be lost, and what runs after the  *)
(* commit may fail.  TransactionalManager implements this.                 *)
(***************************************************************************)
CONSTANTS
    Request,    \* requests, each served once
    Item        \* what a request may write

VARIABLES
    database,   \* durable writes, each with the request it belongs to
    work,       \* what each request has written so far
    phase       \* where each request is

vars == <<database, work, phase>>

Phase == {"working", "published", "discarded", "ok", "error"}

Init ==
    /\ database = {}
    /\ work = [p \in Request |-> {}]
    /\ phase = [p \in Request |-> "working"]

\* Writes of a request can be seen by nobody else while it works.
Write(p, i) ==
    /\ phase[p] = "working"
    /\ work' = [work EXCEPT ![p] = @ \cup {i}]
    /\ UNCHANGED <<database, phase>>

\* All of them become durable in one step.
Publish(p) ==
    /\ phase[p] = "working"
    /\ database' = database \cup ({p} \X work[p])
    /\ phase' = [phase EXCEPT ![p] = "published"]
    /\ UNCHANGED work

\* None of them ever will.
Discard(p) ==
    /\ phase[p] = "working"
    /\ phase' = [phase EXCEPT ![p] = "discarded"]
    /\ UNCHANGED <<database, work>>

Reply(p) ==
    /\ \/ phase[p] = "published" /\ phase' = [phase EXCEPT ![p] = "ok"]
       \/ phase[p] \in {"published", "discarded"} /\ phase' = [phase EXCEPT ![p] = "error"]
    /\ UNCHANGED <<database, work>>

\* The process dies: work in progress is lost, and nobody gets an answer.
Crash ==
    /\ \E S \in SUBSET {p \in Request : phase[p] = "working"} :
          phase' = [p \in Request |-> IF p \in S THEN "discarded" ELSE phase[p]]
    /\ UNCHANGED <<database, work>>

Next ==
    \/ \E p \in Request : (\E i \in Item : Write(p, i)) \/ Publish(p) \/ Discard(p) \/ Reply(p)
    \/ Crash

Spec == Init /\ [][Next]_vars
=============================================================================
