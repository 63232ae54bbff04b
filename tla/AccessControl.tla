---------------------------- MODULE AccessControl ----------------------------
(***************************************************************************)
(* From a request to what it does: the fan-out of a batch, the             *)
(* authorization of each of its calls and the operation on administrators, *)
(* users and accounts, or the use of a key, that the call is for.  The     *)
(* authorization reads the tables in statements of their own, before the   *)
(* operation and beside every other request.                               *)
(***************************************************************************)
EXTENDS Administrators, Sequences

CONSTANTS
    Application,    \* applications
    NoApplication,  \* no application in the header of a request
    Address,        \* addresses of accounts
    NoAddress,      \* no address, or one that cannot be parsed
    Calls,          \* the requests that are made: records of Requests
    InitialUsers,   \* users at the start: <<application, id, roles>>
    InitialAccounts,\* accounts at the start: <<application, id, address>>
    MaxBatch,       \* bound of the code: calls in a batch, 100
    MaxRequests     \* bound: requests served in a behaviour

AdminActions == {"admin.users.create", "admin.users.remove"}
ApplicationActions == {"application.users.create", "application.users.edit", "application.users.remove",
                       "application.accounts.create", "application.accounts.remove"}
AccountActions == {"application.accounts.create", "application.accounts.remove"}
KeyActions == {"rpc.method.eth_accounts"}
SigningActions == {"rpc.method.eth_signTransaction", "rpc.method.eth_signTypedData"}
RPCActions == KeyActions \cup SigningActions \cup {"rpc.method"}    \* the last without a registered method

ApplicationRoles == {"application-admin", "transaction-signer"}
Roles == ApplicationRoles \cup {"signer-admin"}

ActionsOf(role) ==
    CASE role = "signer-admin" -> AdminActions \cup ApplicationActions
      [] role = "application-admin" -> ApplicationActions \cup KeyActions
      [] role = "transaction-signer" -> SigningActions

\* What a request asks for: application is that of the path, address the
\* signer of an RPC call, and an RPC call may be a notification.
Call == [action : AdminActions \cup ApplicationActions \cup RPCActions, application : Application \cup {NoApplication},
         id : Id \cup {NoId}, address : Address \cup {NoAddress}, roles : SUBSET Roles, notification : BOOLEAN]

\* A request of the REST interface is a batch of one call.
Requests == [by : Id, header : Application \cup {NoApplication}, calls : Seq(Call)]

ASSUME CallsAssumption == Calls \subseteq Requests
\* The path of a REST call names what the call is about, and an address that
\* cannot be parsed is turned down before an account is looked for.
ASSUME PathAssumption ==
    /\ NoApplication \notin Application
    /\ \A c \in Calls : \A k \in DOMAIN c.calls :
         /\ c.calls[k].action \in ApplicationActions => c.calls[k].application \in Application
         /\ c.calls[k].action \in AdminActions \cup ApplicationActions => c.calls[k].id \in Id
         /\ c.calls[k].action \in AccountActions => c.calls[k].address \in Address
\* An id is the primary key of a user within its application.
ASSUME InitialAssumption ==
    /\ InitialUsers \subseteq Application \X Id \X SUBSET ApplicationRoles
    /\ \A u, v \in InitialUsers : u[1] = v[1] /\ u[2] = v[2] => u = v
    /\ InitialAccounts \subseteq Application \X Id \X Address
ASSUME BatchAssumption == MaxBatch \in Nat \ {0} /\ MaxRequests \in Nat

VARIABLES
    users,          \* the rows of the users, with the set of their roles
    accounts,       \* the rows of the accounts
    request,        \* what each handler is at
    held,           \* history: what the requester held at some time since its call was taken up
    served          \* requests started so far

vars == <<adminVars, users, accounts, request, held, served>>

Answers == {"result", "error", "bad request", "none"}

Idle == [pc |-> "done", by |-> NoId, header |-> NoApplication, calls |-> <<>>, answers |-> <<>>]

\* A request whose process has died: its client hears no more of it.
Lost == [Idle EXCEPT !.pc = "lost"]
Over == {"done", "lost"}

Init ==
    /\ AdminInit
    /\ users = InitialUsers
    /\ accounts = InitialAccounts
    /\ request = [p \in Request |-> Idle]
    /\ held = [p \in Request |-> {}]
    /\ served = 0

Goto(p, pc) == request' = [request EXCEPT ![p].pc = pc]

\* The call at hand, the first without an answer.
Current(p) == request[p].calls[Len(request[p].answers) + 1]

Answered(p, answer) ==
    request' = [request EXCEPT ![p].answers = Append(@, answer),
                  ![p].pc = IF Len(request[p].answers) + 1 = Len(request[p].calls) THEN "done" ELSE "call"]

\* Mutant: a notification is answered like any other call.
AlwaysAnswered(p) == Answered(p, "result")

\* Success of an RPC call is answered unless it is a notification.
Succeeds(p) == Answered(p, IF Current(p).notification THEN "none" ELSE "result")
Refused(p) == Answered(p, "error")

\* After a write, what the operation still reads may fail, or the answer to
\* the write itself is lost.
Finishes(p) == (Succeeds(p) /\ NoFault) \/ (Refused(p) /\ FaultHappens)
RefusedWhole(p) == Refused(p) /\ NoFault

\* What i holds within application a, and as an administrator without one.
Grants(i, a) ==
    {<<"role", r>> : r \in UNION {u[3] : u \in {v \in users : v[1] = a /\ v[2] = i}}}
      \cup {<<"account", c[3]>> : c \in {d \in accounts : d[1] = a /\ d[2] = i}}
      \cup (IF a = NoApplication /\ i \in Admins THEN {<<"role", "signer-admin">>} ELSE {})

Tables == <<users, accounts>>
AdminTables == <<order, handler, replica, overlapped, raced>>

-----------------------------------------------------------------------------
(* The entry point *)

\* Mutant: a batch of any length is fanned out.
FanOutAnyBatch(calls) ==
    IF calls = <<>> THEN [pc |-> "done", answers |-> <<"bad request">>] ELSE [pc |-> "call", answers |-> <<>>]

\* An empty batch and one that is too long are turned down as a whole.
FanOutRPCBatchRequest(calls) ==
    IF Len(calls) \notin 1..MaxBatch
    THEN [pc |-> "done", answers |-> <<"bad request">>]
    ELSE [pc |-> "call", answers |-> <<>>]

Arrive(p) ==
    /\ Serving(p) /\ request[p].pc \in Over /\ served < MaxRequests
    /\ served' = served + 1
    /\ \E c \in Calls : LET out == FanOutRPCBatchRequest(c.calls) IN
         request' = [request EXCEPT ![p] = [pc |-> out.pc, by |-> c.by, header |-> c.header,
                                            calls |-> c.calls, answers |-> out.answers]]
    /\ UNCHANGED <<adminVars, Tables>>

\* A panic in a call, or a failed statement of it, is answered with an error
\* and leaves the calls that follow alone.
CallFails(p) ==
    /\ request[p].pc \in {"call", "account", "execute", "write"}
    /\ handler[p].pc = "idle"
    /\ FaultHappens
    /\ Refused(p)
    /\ UNCHANGED <<AdminTables, Tables, served>>

-----------------------------------------------------------------------------
(* Authorization *)

\* Mutant: the application of the path is not compared with the header's.
AnyPath(p) == TRUE

\* ValidateApplication: the application of the path is that of the header.
ValidateApplication(p) ==
    request[p].header # NoApplication /\ Current(p).application # NoApplication
        => request[p].header = Current(p).application

\* Mutant: without an application everyone is taken for an administrator.
RolesWithoutLookup(p) ==
    LET i == request[p].by  a == request[p].header IN
    IF a = NoApplication THEN {"signer-admin"} ELSE UNION {u[3] : u \in {v \in users : v[1] = a /\ v[2] = i}}

\* GetUserRoles of an application, or GetAdminRoles without one.
RolesOf(p) ==
    LET i == request[p].by  a == request[p].header IN
    IF a = NoApplication THEN {r \in {"signer-admin"} : i \in Admins}
    ELSE UNION {u[3] : u \in {v \in users : v[1] = a /\ v[2] = i}}

\* Mutant: the account of typed data is not looked at.
AccountOf(action) == action = "rpc.method.eth_signTransaction"

RequiresAccount(action) == action \in SigningActions

AuthorizeUser(p) ==
    /\ request[p].pc = "call"
    /\ LET c == Current(p) IN
         IF /\ ValidateApplication(p)
            /\ request[p].header # NoApplication => c.action \notin AdminActions
            /\ \E r \in RolesOf(p) : c.action \in ActionsOf(r)
         THEN Goto(p, IF RequiresAccount(c.action) THEN "account" ELSE "execute")
         ELSE Refused(p)
    /\ UNCHANGED <<adminVars, Tables, served>>

\* An address that cannot be parsed is a bad request, which has no body.
AuthorizeAccount(p) ==
    /\ request[p].pc = "account"
    /\ LET c == Current(p) IN
         \/ c.address = NoAddress /\ Answered(p, "bad request")
         \/ /\ c.address # NoAddress
            /\ IF <<request[p].header, request[p].by, c.address>> \in accounts THEN Goto(p, "execute") ELSE Refused(p)
    /\ UNCHANGED <<adminVars, Tables, served>>

-----------------------------------------------------------------------------
(* Operations *)

Executing(p, action) == request[p].pc = "execute" /\ Current(p).action = action

UserRows(p) == {u \in users : u[1] = Current(p).application /\ u[2] = Current(p).id}

\* Mutant: any role may be given to a user.
AnyRoles(roles) == TRUE

ValidateApplicationScopedRoles(roles) == roles \subseteq ApplicationRoles

CreateUser(p) ==
    /\ Executing(p, "application.users.create")
    /\ LET c == Current(p) IN
         IF ValidateApplicationScopedRoles(c.roles) /\ UserRows(p) = {}
         THEN users' = users \cup {<<c.application, c.id, c.roles>>} /\ Finishes(p)
         ELSE RefusedWhole(p) /\ UNCHANGED users
    /\ UNCHANGED <<AdminTables, accounts, served>>

\* The row is edited if the version is still the one the client has read.
EditUser(p) ==
    /\ Executing(p, "application.users.edit")
    /\ LET c == Current(p) IN
         \/ /\ c.roles # {} /\ ValidateApplicationScopedRoles(c.roles) /\ UserRows(p) # {}
            /\ users' = (users \ UserRows(p)) \cup {<<c.application, c.id, c.roles>>}
            /\ Finishes(p)
         \/ RefusedWhole(p) /\ UNCHANGED users
    /\ UNCHANGED <<AdminTables, accounts, served>>

\* What depends on a user is looked for in the entries of referential
\* integrity, which are in ResourceIntegrity: here any user may have some.
RemoveAllUserDependencies(p) ==
    /\ Executing(p, "application.users.remove")
    /\ (UserRows(p) # {} /\ Goto(p, "write")) \/ Refused(p)
    /\ UNCHANGED <<adminVars, Tables, served>>

Writing(p, action) == request[p].pc = "write" /\ Current(p).action = action

\* The row is read once more, and what has its key then is deleted.
DeleteUser(p) ==
    /\ Writing(p, "application.users.remove")
    /\ \/ users' = users \ UserRows(p) /\ Finishes(p)
       \/ UserRows(p) = {} /\ RefusedWhole(p) /\ UNCHANGED users
    /\ UNCHANGED <<AdminTables, accounts, served>>

AccountRow(p) == <<Current(p).application, Current(p).id, Current(p).address>>

\* Before an account is enabled its user is read, and its key looked for in
\* the module, which is in SoftHSMKeys: here it may lack any.
GetUserOfAccount(p) ==
    /\ Executing(p, "application.accounts.create")
    /\ (UserRows(p) # {} /\ Goto(p, "write")) \/ Refused(p)
    /\ UNCHANGED <<adminVars, Tables, served>>

\* An account that is enabled already stays so, and CreateAccount looks for
\* the user again.
EnableAccounts(p) ==
    /\ Writing(p, "application.accounts.create")
    /\ \/ accounts' = accounts \cup {AccountRow(p)} /\ Finishes(p)
       \/ UserRows(p) = {} /\ RefusedWhole(p) /\ UNCHANGED accounts
    /\ UNCHANGED <<AdminTables, users, served>>

GetAccount(p) ==
    /\ Executing(p, "application.accounts.remove")
    /\ IF AccountRow(p) \in accounts THEN Goto(p, "write") ELSE Refused(p)
    /\ UNCHANGED <<adminVars, Tables, served>>

\* The user is read for the answer, after the account has gone.
DisableAccount(p) ==
    /\ Writing(p, "application.accounts.remove")
    /\ \/ accounts' = accounts \ {AccountRow(p)} /\ (Finishes(p) \/ (UserRows(p) = {} /\ RefusedWhole(p)))
       \/ AccountRow(p) \notin accounts /\ RefusedWhole(p) /\ UNCHANGED accounts
    /\ UNCHANGED <<AdminTables, users, served>>

\* The use of a key, which answers a result or an error.
UseKey(p) ==
    /\ request[p].pc = "execute" /\ Current(p).action \in RPCActions
    /\ Succeeds(p) \/ Refused(p)
    /\ UNCHANGED <<adminVars, Tables, served>>

\* The operations on administrators are those of Administrators.
BeginAdmin(p) ==
    /\ request[p].pc = "execute"
    /\ \/ Current(p).action = "admin.users.create" /\ Begin(p, "add", Current(p).id)
       \/ Current(p).action = "admin.users.remove" /\ Begin(p, "count", Current(p).id)
    /\ Goto(p, "admin")
    /\ UNCHANGED <<Tables, served>>

\* Mutant: an operation that fails is started again.
EndAdminRetries(p) ==
    /\ request[p].pc = "admin"
    /\ IF handler[p].pc = "ok" THEN Succeeds(p) ELSE Goto(p, "execute")
    /\ Answer(p)
    /\ UNCHANGED <<Tables, served>>

EndAdmin(p) ==
    /\ request[p].pc = "admin"
    /\ IF handler[p].pc = "ok" THEN Succeeds(p) ELSE Refused(p)
    /\ Answer(p)
    /\ UNCHANGED <<Tables, served>>

-----------------------------------------------------------------------------
Proceed(p) ==
    \/ AuthorizeUser(p) \/ AuthorizeAccount(p)
    \/ CreateUser(p) \/ EditUser(p) \/ RemoveAllUserDependencies(p) \/ DeleteUser(p)
    \/ GetUserOfAccount(p) \/ EnableAccounts(p) \/ GetAccount(p) \/ DisableAccount(p) \/ UseKey(p)
    \/ BeginAdmin(p) \/ EndAdmin(p)
    \/ HandlerStep(p) /\ UNCHANGED <<request, Tables, served>>

Server(r) == ReplicaStep(r) /\ UNCHANGED <<request, Tables, served>>

\* The requests a process is serving are lost with it.
Dies(r) ==
    /\ Stop(r)
    /\ request' = [p \in Request |-> IF Host[p] = r /\ request[p].pc \notin Over THEN Lost ELSE request[p]]
    /\ UNCHANGED <<Tables, served>>

\* What the requester holds now counts from the moment a call is taken up.
Held(p) == Grants(request[p].by, request[p].header)

Remember ==
    held' = [p \in Request |->
               CASE request'[p].pc \in Over -> {}
                 [] request'[p].pc = "call" /\ request'[p] # request[p] -> Held(p)'
                 [] OTHER -> held[p] \cup Held(p)']

\* The requests of the bound have been answered.
Terminated ==
    /\ served = MaxRequests /\ \A p \in Request : request[p].pc \in Over
    /\ UNCHANGED <<adminVars, Tables, request, served>>

Next ==
    /\ \/ \E p \in Request : Arrive(p) \/ Proceed(p) \/ CallFails(p)
       \/ \E r \in Replica : Server(r) \/ Dies(r)
       \/ Terminated
    /\ Remember

Spec == Init /\ [][Next]_vars

\* A handler goes on until it has answered or its process dies, and a replica
\* is started until it is up.
FairSpec ==
    /\ Spec
    /\ \A p \in Request : WF_vars(Proceed(p) /\ Remember)
    /\ \A r \in Replica : WF_vars(Server(r) /\ Remember)

-----------------------------------------------------------------------------
TypeOK ==
    /\ AdminTypeOK
    /\ users \subseteq Application \X Id \X SUBSET ApplicationRoles
    /\ \A u, v \in users : u[1] = v[1] /\ u[2] = v[2] => u = v
    /\ accounts \subseteq Application \X Id \X Address
    /\ served \in Nat
    /\ \A p \in Request : Len(request[p].answers) <= MaxBatch

(* A call is executed only for someone who has held the role for it, and to
   sign the account too, since the call was taken up: in the application of
   the header, which is that of the path, or as an administrator without one.
   So whoever was stripped of it before is refused, whatever the tables held
   earlier and whichever statement failed (AuthorizeUser,
   policy_decision_point_usecase.go:55, and AuthorizeAccount, rpc_pep.go:43). *)
ExecutedWasGranted ==
    \A p \in Request : request[p].pc \in {"execute", "write", "admin"} =>
        LET c == Current(p)  a == request[p].header IN
        /\ \E r \in Roles : <<"role", r>> \in held[p] /\ c.action \in ActionsOf(r)
        /\ c.action \in SigningActions => <<"account", c.address>> \in held[p]
        /\ c.action \in AdminActions => a = NoApplication
        /\ c.action \in ApplicationActions => a \in {NoApplication, c.application}

(* An administrator comes from one: a row is added by a request to create it
   of someone who has been an administrator since its call was taken up, or
   by a replica that starts, its own while there is none.  Two replicas may
   each appoint theirs only when one went to create while the other was about
   to, or after deletions that overlapped (graph.go:110, CreateAdmin). *)
AdministratorsComeFromOne ==
    [][\A i \in Id : order[i] = 0 /\ order'[i] # 0 =>
         \/ \E r \in Replica : replica[r] = "create" /\ i \in Own(r) /\ (Admins = {} \/ raced \/ overlapped)
         \/ \E p \in Request : /\ request[p].pc = "admin" /\ handler[p] = [pc |-> "add", id |-> i]
                               /\ <<"role", "signer-admin">> \in held[p]]_vars

(* Every call of a batch is answered in its place, whatever became of those
   before it: a result or an error when it was carried out, nothing only for
   a notification that succeeded, and a bad request only for a signer that
   cannot be parsed or for the batch as a whole (FanOutRPCBatchRequest,
   rpc_batch_request_support.go:32, recovery.go:21). *)
BatchAnsweredInOrder ==
    \A p \in Request : request[p].pc = "done" /\ request[p] # Idle =>
        LET calls == request[p].calls  answers == request[p].answers IN
        IF Len(calls) \notin 1..MaxBatch THEN answers = <<"bad request">>
        ELSE
           /\ Len(answers) = Len(calls)
           /\ \A k \in 1..Len(calls) :
                /\ answers[k] = "none" => calls[k].notification
                /\ answers[k] = "result" => ~calls[k].notification
                /\ answers[k] = "bad request" => calls[k].action \in SigningActions /\ calls[k].address = NoAddress

(* Every request is answered unless its process dies: no call of a batch, no
   other request and no failed statement stops it (recovery.go:21). *)
RequestsReply == \A p \in Request : request[p].pc \notin Over ~> request[p].pc \in Over

(* A replica that finds its administrator, or none at all and may appoint its
   own, comes up, though statements fail and others start at the same time
   (SetInitialSignerAdministrator, graph.go:109). *)
CanStart(r) == Flag[r] \in Listed \cup {NoId} \/ Listed = {}

ReplicasComeUp == \A r \in Replica : replica[r] = "list" /\ CanStart(r) ~> replica[r] = "up" \/ ~CanStart(r)
=============================================================================
