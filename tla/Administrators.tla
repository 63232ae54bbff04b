--------------------------- MODULE Administrators ---------------------------
(***************************************************************************)
(* The signer administrators.  Every replica of the server, when it        *)
(* starts, makes sure of an administrator given on its command line;       *)
(* requests create and delete administrators, each in the process of one   *)
(* replica, with which it dies.  An operation is a sequence of statements  *)
(* with no transaction around them.                                        *)
(***************************************************************************)
EXTENDS Naturals, FiniteSets

CONSTANTS
    Request,        \* request handlers
    Replica,        \* replicas of the server
    Host,           \* the replica whose process runs each handler
    Id,             \* ids of administrators and users
    NoId,           \* no id
    Anonymous,      \* bound: the ids that may be drawn at random for an empty one
    Flag,           \* the administrator each replica is started with, or NoId
    PageLimit,      \* bound of the code: administrators in a list, 30
    MaxFaults       \* bound: failed statements and stopped replicas

ASSUME IdAssumption == NoId \notin Id /\ Anonymous \subseteq Id
ASSUME HostAssumption == Host \in [Request -> Replica]
ASSUME FlagAssumption == Flag \in [Replica -> Id \cup {NoId}]
ASSUME PageAssumption == PageLimit \in Nat /\ PageLimit >= 2
ASSUME FaultAssumption == MaxFaults \in Nat

VARIABLES
    order,          \* the place of each administrator by its creation, 0 without a row
    handler,        \* the administrator operation each request is in
    replica,        \* how far each replica has started
    faults,         \* faults so far
    overlapped,     \* history: a deletion has counted while another had counted
    raced           \* history: a replica went to create while another was about to

adminVars == <<order, handler, replica, faults, overlapped, raced>>

Admins == {i \in Id : order[i] # 0}

\* The newest come first, and the list is cut at the page limit.
Listed == {i \in Admins : order[i] + PageLimit > Cardinality(Admins)}

Handler == [pc : {"idle", "add", "count", "dependencies", "remove", "delete", "ok", "error"}, id : Id \cup {NoId}]

QuietHandler == [pc |-> "idle", id |-> NoId]

AdminInit ==
    /\ order = [i \in Id |-> 0]
    /\ handler = [p \in Request |-> QuietHandler]
    /\ replica = [r \in Replica |-> "down"]
    /\ faults = 0
    /\ overlapped = FALSE
    /\ raced = FALSE

NoFault == UNCHANGED faults
FaultHappens == faults < MaxFaults /\ faults' = faults + 1

HandlerGoes(p, pc) == handler' = [handler EXCEPT ![p].pc = pc]
ReplicaGoes(r, pc) == replica' = [replica EXCEPT ![r] = pc]

Add(i) == order' = [order EXCEPT ![i] = Cardinality(Admins) + 1]
Remove(i) == order' = [j \in Id |-> IF j = i THEN 0 ELSE IF order[j] > order[i] THEN order[j] - 1 ELSE order[j]]

-----------------------------------------------------------------------------
(* Requests *)

\* Requests are served by a replica that has started.
Serving(p) == replica[Host[p]] = "up"

\* CreateAdmin and DeleteAdmin are called.
Begin(p, pc, i) ==
    /\ handler[p].pc = "idle"
    /\ handler' = [handler EXCEPT ![p] = [pc |-> pc, id |-> i]]
    /\ UNCHANGED <<order, replica, faults, overlapped, raced>>

\* A statement fails; its effect, if it has one, may be there all the same.
StatementFails(p) == FaultHappens /\ HandlerGoes(p, "error")

CreateAdmin(p) ==
    /\ handler[p].pc = "add"
    /\ LET i == handler[p].id IN
         \/ i \notin Admins /\ Add(i) /\ HandlerGoes(p, "ok") /\ NoFault
         \/ i \notin Admins /\ Add(i) /\ StatementFails(p)
         \/ i \in Admins /\ HandlerGoes(p, "error") /\ NoFault /\ UNCHANGED order
         \/ StatementFails(p) /\ UNCHANGED order
    /\ UNCHANGED <<replica, overlapped, raced>>

Counted == {p \in Request : handler[p].pc \in {"dependencies", "remove", "delete"}}

\* Mutant: the count is not looked at.
CountAnything(p) ==
    /\ handler[p].pc = "count"
    /\ HandlerGoes(p, "dependencies") /\ NoFault /\ overlapped' = (overlapped \/ Counted # {})
    /\ UNCHANGED <<order, replica, raced>>

CountAdmins(p) ==
    /\ handler[p].pc = "count"
    /\ \/ Cardinality(Listed) <= 1 /\ HandlerGoes(p, "error") /\ NoFault /\ UNCHANGED overlapped
       \/ /\ Cardinality(Listed) > 1
          /\ HandlerGoes(p, "dependencies") /\ NoFault
          /\ overlapped' = (overlapped \/ Counted # {})
       \/ StatementFails(p) /\ UNCHANGED overlapped
    /\ UNCHANGED <<order, replica, raced>>

\* Nothing depends on an administrator, which has no entries either: what
\* remains of removeAllDependencies is the read of the row.
RemoveAllDependencies(p) ==
    /\ handler[p].pc = "dependencies"
    /\ \/ handler[p].id \in Admins /\ HandlerGoes(p, "remove") /\ NoFault
       \/ handler[p].id \notin Admins /\ HandlerGoes(p, "error") /\ NoFault
       \/ StatementFails(p)
    /\ UNCHANGED <<order, replica, overlapped, raced>>

\* Remove reads the row for its answer, and deletes what has the id then: the
\* statement is well even if the row has gone.
GetAdmin(p) ==
    /\ handler[p].pc = "remove"
    /\ \/ handler[p].id \in Admins /\ HandlerGoes(p, "delete") /\ NoFault
       \/ handler[p].id \notin Admins /\ HandlerGoes(p, "error") /\ NoFault
       \/ StatementFails(p)
    /\ UNCHANGED <<order, replica, overlapped, raced>>

RemoveAdmin(p) ==
    /\ handler[p].pc = "delete"
    /\ LET i == handler[p].id
           Deleted == IF i \in Admins THEN Remove(i) ELSE UNCHANGED order IN
         \/ Deleted /\ HandlerGoes(p, "ok") /\ NoFault
         \/ Deleted /\ StatementFails(p)
         \/ StatementFails(p) /\ UNCHANGED order
    /\ UNCHANGED <<replica, overlapped, raced>>

Answer(p) ==
    /\ handler[p].pc \in {"ok", "error"}
    /\ handler' = [handler EXCEPT ![p] = QuietHandler]
    /\ UNCHANGED <<order, replica, faults, overlapped, raced>>

HandlerStep(p) == CreateAdmin(p) \/ CountAdmins(p) \/ RemoveAllDependencies(p) \/ GetAdmin(p) \/ RemoveAdmin(p)

-----------------------------------------------------------------------------
(* Replicas.  One that cannot have its administrator panics, and is started
   again by whatever supervises it. *)

Boot(r) == replica[r] = "down" /\ ReplicaGoes(r, "list") /\ UNCHANGED <<order, handler, faults, overlapped, raced>>

Creating(r) == \E q \in Replica \ {r} : replica[q] = "create"

\* Mutant: a replica starts over no administrators only.
ListAtEmptyStart(r) ==
    /\ replica[r] = "list"
    /\ IF Admins = {} THEN ReplicaGoes(r, "create") /\ raced' = (raced \/ Creating(r))
       ELSE ReplicaGoes(r, "down") /\ UNCHANGED raced
    /\ NoFault /\ UNCHANGED <<order, handler, overlapped>>

\* Mutant: the administrator of the flag is created whoever else there is.
ListAtAnyStart(r) ==
    /\ replica[r] = "list"
    /\ IF Flag[r] \in Listed THEN ReplicaGoes(r, "up") /\ UNCHANGED raced
       ELSE ReplicaGoes(r, "create") /\ raced' = (raced \/ Creating(r))
    /\ NoFault /\ UNCHANGED <<order, handler, overlapped>>

\* SetInitialSignerAdministrator goes on when the list cannot be read.
ListAtStart(r) ==
    /\ replica[r] = "list"
    /\ \/ Listed # {} /\ Flag[r] \in Listed \cup {NoId} /\ ReplicaGoes(r, "up") /\ NoFault /\ UNCHANGED raced
       \/ Listed # {} /\ Flag[r] \notin Listed \cup {NoId} /\ ReplicaGoes(r, "down") /\ NoFault /\ UNCHANGED raced
       \/ Listed = {} /\ ReplicaGoes(r, "create") /\ NoFault /\ raced' = (raced \/ Creating(r))
       \/ FaultHappens /\ ReplicaGoes(r, "up") /\ UNCHANGED raced
    /\ UNCHANGED <<order, handler, overlapped>>

\* What a replica may create: its flag, or a fresh id when it has none.
Own(r) == IF Flag[r] = NoId THEN Anonymous ELSE {Flag[r]}

CreateAtStart(r) ==
    /\ replica[r] = "create"
    /\ \/ \E i \in Own(r) \ Admins : /\ Add(i)
                                     /\ (ReplicaGoes(r, "up") /\ NoFault) \/ (ReplicaGoes(r, "down") /\ FaultHappens)
       \/ Flag[r] \in Admins /\ ReplicaGoes(r, "up") /\ NoFault /\ UNCHANGED order
       \/ ReplicaGoes(r, "down") /\ FaultHappens /\ UNCHANGED order
    /\ UNCHANGED <<handler, overlapped, raced>>

\* The process of a replica dies, and with it whatever its handlers were at.
Stop(r) ==
    /\ replica[r] # "down" /\ ReplicaGoes(r, "down") /\ FaultHappens
    /\ handler' = [p \in Request |-> IF Host[p] = r THEN QuietHandler ELSE handler[p]]
    /\ UNCHANGED <<order, overlapped, raced>>

ReplicaStep(r) == Boot(r) \/ ListAtStart(r) \/ CreateAtStart(r)

AdminNext ==
    \/ \E p \in Request :
         \/ Serving(p) /\ \E i \in Id, pc \in {"add", "count"} : Begin(p, pc, i)
         \/ HandlerStep(p)
         \/ Answer(p)
    \/ \E r \in Replica : ReplicaStep(r) \/ Stop(r)

AdminSpec == AdminInit /\ [][AdminNext]_adminVars

-----------------------------------------------------------------------------
AdminTypeOK ==
    /\ order \in [Id -> Nat]
    /\ {order[i] : i \in Admins} = 1..Cardinality(Admins)
    /\ handler \in [Request -> Handler]
    /\ \A p \in Request : handler[p].pc # "idle" => handler[p].id \in Id
    /\ replica \in [Replica -> {"down", "list", "create", "up"}]
    /\ faults \in Nat /\ overlapped \in BOOLEAN /\ raced \in BOOLEAN

(* The last administrator stays (DeleteAdmin, admin_usecase.go:159): whatever
   is created and deleted, and whatever fails, no step takes the last one away
   unless two deletions have counted before either removed. *)
LastAdministratorStays == [][Admins # {} /\ Admins' = {} => overlapped]_adminVars

(* A replica whose flag is an administrator of the table starts
   (docs/observability/troubleshooting.md:28).  Not so: the list it looks in
   is a page with the newest administrators (graph.go:111). *)
OwnAdministratorStarts ==
    [][\A r \in Replica : replica[r] = "list" /\ replica'[r] = "down" => Flag[r] \notin Admins]_adminVars
=============================================================================
