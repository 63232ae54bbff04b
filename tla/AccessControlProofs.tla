------------------------ MODULE AccessControlProofs ------------------------
(***************************************************************************)
(* Administrators and what is executed for whom, for every set of          *)
(* requests, replicas, roles given and calls made, and every bound.        *)
(***************************************************************************)
EXTENDS AccessControl, FiniteSetTheorems, TLAPS

USE DEF Over

-----------------------------------------------------------------------------
(* Administrators *)

\* The table of the administrators, and the operations on it.
RowsTyped ==
    /\ order \in [Id -> Nat] /\ IsFiniteSet(Admins)
    /\ handler \in [Request -> Handler]
    /\ \A p \in Request : handler[p].pc # "idle" => handler[p].id \in Id
    /\ overlapped \in BOOLEAN

\* Unless deletions overlap, one at most has counted, and one that has counted
\* two is the only thing that can make them fewer.
CountHolds ==
    ~overlapped =>
        /\ \A p, q \in Counted : p = q
        /\ Counted # {} => \E i, j \in Admins : i # j

AdminInv == RowsTyped /\ CountHolds

LEMMA AddedOne ==
    ASSUME RowsTyped, NEW i \in Id, i \notin Admins, Add(i)
    PROVE  /\ order' \in [Id -> Nat]
           /\ Admins' = Admins \cup {i}
           /\ IsFiniteSet(Admins)'
<1>1. Cardinality(Admins) \in Nat
      BY FS_CardinalityType DEF RowsTyped
<1>2. order' \in [Id -> Nat] /\ order'[i] # 0 /\ \A j \in Id \ {i} : order'[j] = order[j]
      BY <1>1 DEF RowsTyped, Add
<1>3. Admins' = Admins \cup {i}
      BY <1>2 DEF Admins
<1>4. QED  BY <1>2, <1>3, FS_AddElement DEF RowsTyped

LEMMA RemovedOne ==
    ASSUME RowsTyped, NEW i \in Admins, Remove(i)
    PROVE  /\ order' \in [Id -> Nat]
           /\ Admins' = Admins \ {i}
           /\ IsFiniteSet(Admins)'
<1>1. i \in Id /\ order \in [Id -> Nat] /\ order[i] > 0
      BY DEF RowsTyped, Admins
<1>2. \A j \in Id : /\ order'[j] \in Nat
                    /\ order'[j] = 0 <=> j = i \/ order[j] = 0
      BY <1>1 DEF Remove
<1>3. order' \in [Id -> Nat]
      BY <1>2 DEF Remove
<1>4. Admins' = Admins \ {i}
      BY <1>2 DEF Admins
<1>5. QED  BY <1>3, <1>4, FS_Subset DEF RowsTyped

LEMMA ListedTwo ==
    ASSUME Cardinality(Listed) > 1
    PROVE  \E i, j \in Admins : i # j
<1>1. SUFFICES ASSUME \A i, j \in Listed : i = j PROVE FALSE
      BY DEF Listed
<1>2. CASE Listed = {}
      BY <1>2, FS_EmptySet
<1>3. CASE Listed # {}
  <2>1. PICK i \in Listed : Listed = {i}
        BY <1>1, <1>3
  <2>2. QED  BY <2>1, FS_Singleton
<1>4. QED  BY <1>2, <1>3

\* Where an operation goes, the handlers of the others stay.
LEMMA HandlerMoved ==
    ASSUME RowsTyped, NEW p \in Request, NEW to, HandlerGoes(p, to),
           to \in {"dependencies", "remove", "delete", "ok", "error"},
           handler[p].pc # "idle"
    PROVE  /\ handler' \in [Request -> Handler]
           /\ handler'[p].pc = to /\ handler'[p].id = handler[p].id
           /\ \A q \in Request \ {p} : handler'[q] = handler[q]
           /\ \A q \in Request : handler'[q].pc # "idle" => handler'[q].id \in Id
           /\ to \in {"dependencies", "remove", "delete"} => Counted' = Counted \cup {p}
           /\ to \in {"ok", "error"} => Counted' = Counted \ {p}
<1> DEFINE h == [handler[p] EXCEPT !.pc = to]
<1>1. handler[p] \in Handler
      BY DEF RowsTyped
<1>2. h \in Handler /\ h.pc = to /\ h.id = handler[p].id
      BY <1>1 DEF Handler
<1>3. handler' = [handler EXCEPT ![p] = h]
      BY DEF HandlerGoes
<1> HIDE DEF h
<1>4. /\ handler' \in [Request -> Handler] /\ handler'[p] = h
      /\ \A q \in Request \ {p} : handler'[q] = handler[q]
      BY <1>2, <1>3 DEF RowsTyped
<1>5. QED  BY <1>2, <1>4 DEF RowsTyped, Counted

\* A step in which no administrator goes, and the counts that hold hold on.
LEMMA NobodyGoes ==
    ASSUME CountHolds, RowsTyped', Admins \subseteq Admins', Counted' \subseteq Counted, overlapped' = overlapped
    PROVE  AdminInv'
BY DEF CountHolds, AdminInv

LEMMA CreateAdminHolds ==
    ASSUME AdminInv, NEW p \in Request, CreateAdmin(p) PROVE AdminInv'
<1> DEFINE i == handler[p].id
<1>1. RowsTyped /\ CountHolds /\ handler[p].pc = "add" /\ i \in Id /\ overlapped' = overlapped
      BY DEF AdminInv, RowsTyped, CreateAdmin
<1>2. \E to \in {"ok", "error"} : HandlerGoes(p, to)
      BY DEF CreateAdmin, StatementFails
<1>3. (i \notin Admins /\ Add(i)) \/ order' = order
      BY DEF CreateAdmin
<1>4. order' \in [Id -> Nat] /\ Admins \subseteq Admins' /\ IsFiniteSet(Admins)'
  <2>1. CASE i \notin Admins /\ Add(i)
        BY <1>1, <2>1, AddedOne
  <2>2. CASE order' = order
        BY <1>1, <2>2 DEF RowsTyped, Admins
  <2>3. QED  BY <1>3, <2>1, <2>2
<1>5. /\ handler' \in [Request -> Handler] /\ Counted' \subseteq Counted
      /\ \A q \in Request : handler'[q].pc # "idle" => handler'[q].id \in Id
      BY <1>1, <1>2, HandlerMoved
<1>6. RowsTyped'
      BY <1>1, <1>4, <1>5 DEF RowsTyped
<1>7. QED  BY <1>1, <1>4, <1>5, <1>6, NobodyGoes

LEMMA CountAdminsHolds ==
    ASSUME AdminInv, NEW p \in Request, CountAdmins(p) PROVE AdminInv'
<1>1. RowsTyped /\ CountHolds /\ handler[p].pc = "count" /\ order' = order /\ Admins' = Admins
      BY DEF AdminInv, CountAdmins, Admins
<1>2. CASE Cardinality(Listed) > 1 /\ HandlerGoes(p, "dependencies") /\ overlapped' = (overlapped \/ Counted # {})
  <2>1. /\ handler' \in [Request -> Handler] /\ Counted' = Counted \cup {p}
        /\ \A q \in Request : handler'[q].pc # "idle" => handler'[q].id \in Id
        BY <1>1, <1>2, HandlerMoved
  <2>2. RowsTyped'
        BY <1>1, <1>2, <2>1 DEF RowsTyped
  <2>3. \E i, j \in Admins : i # j
        BY <1>2, ListedTwo
  <2>4. CountHolds'
        BY <1>1, <1>2, <2>1, <2>3 DEF CountHolds
  <2>5. QED  BY <2>2, <2>4 DEF AdminInv
<1>3. CASE HandlerGoes(p, "error") /\ overlapped' = overlapped
  <2>1. /\ handler' \in [Request -> Handler] /\ Counted' \subseteq Counted
        /\ \A q \in Request : handler'[q].pc # "idle" => handler'[q].id \in Id
        BY <1>1, <1>3, HandlerMoved
  <2>2. RowsTyped'
        BY <1>1, <1>3, <2>1 DEF RowsTyped
  <2>3. QED  BY <1>1, <1>3, <2>1, <2>2, NobodyGoes
<1>4. QED  BY <1>2, <1>3 DEF CountAdmins, StatementFails

LEMMA DependenciesHold ==
    ASSUME AdminInv, NEW p \in Request, RemoveAllDependencies(p) PROVE AdminInv'
<1>1. /\ RowsTyped /\ CountHolds /\ handler[p].pc = "dependencies" /\ p \in Counted
      /\ order' = order /\ Admins' = Admins /\ overlapped' = overlapped
      BY DEF AdminInv, RemoveAllDependencies, Admins, Counted
<1>2. \E to \in {"remove", "error"} : HandlerGoes(p, to)
      BY DEF RemoveAllDependencies, StatementFails
<1>3. /\ handler' \in [Request -> Handler] /\ Counted' \subseteq Counted
      /\ \A q \in Request : handler'[q].pc # "idle" => handler'[q].id \in Id
      BY <1>1, <1>2, HandlerMoved
<1>4. RowsTyped'
      BY <1>1, <1>3 DEF RowsTyped
<1>5. QED  BY <1>1, <1>3, <1>4, NobodyGoes

LEMMA GetAdminHolds ==
    ASSUME AdminInv, NEW p \in Request, GetAdmin(p) PROVE AdminInv'
<1>1. /\ RowsTyped /\ CountHolds /\ handler[p].pc = "remove" /\ p \in Counted
      /\ order' = order /\ Admins' = Admins /\ overlapped' = overlapped
      BY DEF AdminInv, GetAdmin, Admins, Counted
<1>2. \E to \in {"delete", "error"} : HandlerGoes(p, to)
      BY DEF GetAdmin, StatementFails
<1>3. /\ handler' \in [Request -> Handler] /\ Counted' \subseteq Counted
      /\ \A q \in Request : handler'[q].pc # "idle" => handler'[q].id \in Id
      BY <1>1, <1>2, HandlerMoved
<1>4. RowsTyped'
      BY <1>1, <1>3 DEF RowsTyped
<1>5. QED  BY <1>1, <1>3, <1>4, NobodyGoes

\* The only step that takes an administrator away, and what it leaves.
LEMMA RemoveAdminHolds ==
    ASSUME AdminInv, NEW p \in Request, RemoveAdmin(p)
    PROVE  AdminInv' /\ (Admins # {} /\ Admins' = {} => overlapped)
<1> DEFINE i == handler[p].id
<1>1. /\ RowsTyped /\ CountHolds /\ handler[p].pc = "delete" /\ p \in Counted /\ overlapped' = overlapped
      BY DEF AdminInv, RemoveAdmin, Counted
<1>2. \E to \in {"ok", "error"} : HandlerGoes(p, to)
      BY DEF RemoveAdmin, StatementFails
<1>3. /\ handler' \in [Request -> Handler] /\ Counted' = Counted \ {p}
      /\ \A q \in Request : handler'[q].pc # "idle" => handler'[q].id \in Id
      BY <1>1, <1>2, HandlerMoved
<1>4. CASE i \in Admins /\ Remove(i)
  <2>1. order' \in [Id -> Nat] /\ Admins' = Admins \ {i} /\ IsFiniteSet(Admins)'
        BY <1>1, <1>4, RemovedOne
  <2>2. RowsTyped'
        BY <1>1, <1>3, <2>1 DEF RowsTyped
  <2>3. ~overlapped => Counted' = {} /\ \E j, k \in Admins : j # k
        BY <1>1, <1>3 DEF CountHolds
  <2>4. CountHolds'
        BY <1>1, <2>3 DEF CountHolds
  <2>5. QED  BY <2>1, <2>2, <2>3, <2>4 DEF AdminInv
<1>5. CASE order' = order
  <2>1. Admins' = Admins
        BY <1>5 DEF Admins
  <2>2. RowsTyped'
        BY <1>1, <1>3, <1>5, <2>1 DEF RowsTyped
  <2>3. QED  BY <1>1, <1>3, <2>1, <2>2, NobodyGoes
<1>6. QED  BY <1>4, <1>5 DEF RemoveAdmin

LEMMA HandlerStepHolds ==
    ASSUME AdminInv, NEW p \in Request, HandlerStep(p)
    PROVE  AdminInv' /\ (Admins # {} /\ Admins' = {} => overlapped)
<1>1. CASE CreateAdmin(p)
  <2>1. Admins \subseteq Admins'
    <3>1. CASE handler[p].id \notin Admins /\ Add(handler[p].id)
          BY <1>1, <3>1, AddedOne DEF CreateAdmin, AdminInv, RowsTyped
    <3>2. CASE order' = order
          BY <3>2 DEF Admins
    <3>3. QED  BY <1>1, <3>1, <3>2 DEF CreateAdmin
  <2>2. QED  BY <1>1, <2>1, CreateAdminHolds
<1>2. CASE CountAdmins(p)
      BY <1>2, CountAdminsHolds DEF CountAdmins, Admins
<1>3. CASE RemoveAllDependencies(p)
      BY <1>3, DependenciesHold DEF RemoveAllDependencies, Admins
<1>4. CASE GetAdmin(p)
      BY <1>4, GetAdminHolds DEF GetAdmin, Admins
<1>5. CASE RemoveAdmin(p)
      BY <1>5, RemoveAdminHolds
<1>6. QED  BY <1>1, <1>2, <1>3, <1>4, <1>5 DEF HandlerStep

\* A request takes up an operation, and leaves it.
LEMMA BeginHolds ==
    ASSUME AdminInv, NEW p \in Request, NEW to \in {"add", "count"}, NEW i \in Id, Begin(p, to, i)
    PROVE  AdminInv' /\ Admins' = Admins
<1> DEFINE h == [pc |-> to, id |-> i]
<1>1. /\ RowsTyped /\ CountHolds /\ handler[p].pc = "idle" /\ handler' = [handler EXCEPT ![p] = h]
      /\ order' = order /\ Admins' = Admins /\ overlapped' = overlapped
      BY DEF AdminInv, Begin, Admins
<1>2. h \in Handler /\ h.pc \in {"add", "count"} /\ h.id \in Id
      BY DEF Handler
<1> HIDE DEF h
<1>3. /\ handler' \in [Request -> Handler] /\ handler'[p] = h
      /\ \A q \in Request \ {p} : handler'[q] = handler[q]
      BY <1>1, <1>2 DEF RowsTyped
<1>4. RowsTyped' /\ Counted' = Counted
      BY <1>1, <1>2, <1>3 DEF RowsTyped, Counted
<1>5. QED  BY <1>1, <1>4, NobodyGoes

LEMMA AnswerHolds ==
    ASSUME AdminInv, NEW p \in Request, Answer(p)
    PROVE  AdminInv' /\ Admins' = Admins /\ handler'[p].pc = "idle"
<1>1. /\ RowsTyped /\ CountHolds /\ handler[p].pc \in {"ok", "error"} /\ handler' = [handler EXCEPT ![p] = QuietHandler]
      /\ order' = order /\ Admins' = Admins /\ overlapped' = overlapped
      BY DEF AdminInv, Answer, Admins
<1>2. QuietHandler \in Handler /\ QuietHandler.pc = "idle"
      BY DEF QuietHandler, Handler
<1>3. /\ handler' \in [Request -> Handler] /\ handler'[p] = QuietHandler
      /\ \A q \in Request \ {p} : handler'[q] = handler[q]
      BY <1>1, <1>2 DEF RowsTyped
<1>4. RowsTyped' /\ Counted' = Counted
      BY <1>1, <1>2, <1>3 DEF RowsTyped, Counted
<1>5. QED  BY <1>1, <1>2, <1>3, <1>4, NobodyGoes

LEMMA OwnTyped == ASSUME NEW r \in Replica PROVE Own(r) \subseteq Id
BY IdAssumption, FlagAssumption DEF Own

\* A replica adds an administrator at the most.
LEMMA ReplicaHolds ==
    ASSUME AdminInv, NEW r \in Replica, ReplicaStep(r)
    PROVE  AdminInv' /\ Admins \subseteq Admins' /\ handler' = handler
<1>1. RowsTyped /\ CountHolds /\ handler' = handler /\ overlapped' = overlapped
      BY DEF AdminInv, ReplicaStep, Boot, ListAtStart, CreateAtStart
<1>2. order' = order \/ \E i \in Own(r) \ Admins : Add(i)
      BY DEF ReplicaStep, Boot, ListAtStart, CreateAtStart
<1>3. CASE order' = order
  <2>1. RowsTyped' /\ Counted' = Counted /\ Admins' = Admins
        BY <1>1, <1>3 DEF RowsTyped, Counted, Admins
  <2>2. QED  BY <1>1, <2>1, NobodyGoes
<1>4. ASSUME NEW i \in Own(r) \ Admins, Add(i)
      PROVE  AdminInv' /\ Admins \subseteq Admins' /\ handler' = handler
  <2>1. i \in Id
        BY OwnTyped
  <2>2. order' \in [Id -> Nat] /\ Admins \subseteq Admins' /\ IsFiniteSet(Admins)'
        BY <1>1, <1>4, <2>1, AddedOne
  <2>3. RowsTyped' /\ Counted' = Counted
        BY <1>1, <2>2 DEF RowsTyped, Counted
  <2>4. QED  BY <1>1, <2>2, <2>3, NobodyGoes
<1>5. QED  BY <1>2, <1>3, <1>4

\* A process takes its operations with it when it dies.
LEMMA StopHolds ==
    ASSUME AdminInv, NEW r \in Replica, Stop(r)
    PROVE  /\ AdminInv' /\ Admins' = Admins
           /\ \A p \in Request : handler'[p] = IF Host[p] = r THEN QuietHandler ELSE handler[p]
<1>1. /\ RowsTyped /\ CountHolds /\ order' = order /\ Admins' = Admins /\ overlapped' = overlapped
      /\ handler' = [p \in Request |-> IF Host[p] = r THEN QuietHandler ELSE handler[p]]
      BY DEF AdminInv, Stop, Admins
<1>2. QuietHandler \in Handler /\ QuietHandler.pc = "idle"
      BY DEF QuietHandler, Handler
<1>3. /\ handler' \in [Request -> Handler]
      /\ \A p \in Request : handler'[p] \in {QuietHandler, handler[p]}
      BY <1>1, <1>2 DEF RowsTyped
<1>4. RowsTyped' /\ Counted' \subseteq Counted
      BY <1>1, <1>2, <1>3 DEF RowsTyped, Counted
<1>5. QED  BY <1>1, <1>4, NobodyGoes

LEMMA NothingHolds ==
    ASSUME AdminInv, UNCHANGED <<order, handler, overlapped>>
    PROVE  AdminInv' /\ Admins' = Admins
BY DEF AdminInv, RowsTyped, CountHolds, Counted, Admins

LEMMA AdminInitHolds == ASSUME AdminInit PROVE AdminInv
<1>1. Admins = {}
      BY DEF AdminInit, Admins
<1>2. RowsTyped
      BY <1>1, FS_EmptySet DEF AdminInit, RowsTyped, QuietHandler, Handler
<1>3. Counted = {}
      BY DEF AdminInit, Counted, QuietHandler
<1>4. QED  BY <1>2, <1>3 DEF AdminInv, CountHolds

-----------------------------------------------------------------------------
(* Requests and what their requesters hold *)

Pcs == {"done", "lost", "call", "account", "execute", "write", "admin"}

RequestRecord ==
    [pc : Pcs, by : Id \cup {NoId}, header : Application \cup {NoApplication}, calls : Seq(Call),
     answers : Seq(Answers)]

Asked(p) ==
    /\ \E c \in Calls : request[p].by = c.by /\ request[p].header = c.header /\ request[p].calls = c.calls
    /\ Len(request[p].answers) < Len(request[p].calls)

RequestsTyped ==
    /\ request \in [Request -> RequestRecord]
    /\ \A p \in Request : request[p].pc \notin Over => Asked(p)

RolesGiven == \A u \in users : u[3] \subseteq ApplicationRoles

\* An operation on administrators is in the hands of the request that asked for it.
OperationsAsked == \A p \in Request : handler[p].pc # "idle" => request[p].pc = "admin"

\* From the check of the roles on, the requester has held what the call needs.
Granted(p) ==
    request[p].pc \in {"account", "execute", "write", "admin"} =>
        LET c == Current(p)  a == request[p].header IN
        /\ \E r \in Roles : <<"role", r>> \in held[p] /\ c.action \in ActionsOf(r)
        /\ c.action \in AdminActions => a = NoApplication
        /\ c.action \in ApplicationActions => a \in {NoApplication, c.application}
        /\ request[p].pc # "account" /\ c.action \in SigningActions => <<"account", c.address>> \in held[p]
        /\ request[p].pc = "admin" => c.action \in AdminActions

Inv == AdminInv /\ RequestsTyped /\ RolesGiven /\ OperationsAsked /\ \A p \in Request : Granted(p)

LEMMA CallAtHand ==
    ASSUME RequestsTyped, NEW p \in Request, request[p].pc \notin Over
    PROVE  /\ Current(p) \in Call
           /\ Current(p).action \in ApplicationActions => Current(p).application \in Application
           /\ Current(p).action \in AdminActions \cup ApplicationActions => Current(p).id \in Id
           /\ Current(p).action \in AccountActions => Current(p).address \in Address
<1> DEFINE k == Len(request[p].answers) + 1
<1>1. request[p] \in RequestRecord /\ Asked(p)
      BY DEF RequestsTyped
<1>2. PICK c \in Calls : request[p].calls = c.calls
      BY <1>1 DEF Asked
<1>3. c.calls \in Seq(Call) /\ request[p].answers \in Seq(Answers) /\ Len(request[p].answers) < Len(c.calls)
      BY <1>1, <1>2 DEF RequestRecord, Asked
<1>4. k \in DOMAIN c.calls
      BY <1>3
<1>5. Current(p) = c.calls[k] /\ c.calls[k] \in Call
      BY <1>2, <1>3, <1>4 DEF Current
<1>6. QED  BY <1>4, <1>5, PathAssumption

\* A request goes on with the call at hand.
LEMMA GotoKeeps ==
    ASSUME RequestsTyped, NEW p \in Request, request[p].pc \notin Over, NEW to \in Pcs \ Over, Goto(p, to)
    PROVE  /\ RequestsTyped' /\ request'[p].pc = to
           /\ request'[p].by = request[p].by /\ request'[p].header = request[p].header
           /\ Current(p)' = Current(p)
           /\ \A q \in Request \ {p} : request'[q] = request[q]
<1> DEFINE m == [request[p] EXCEPT !.pc = to]
<1>1. request[p] \in RequestRecord /\ Asked(p)
      BY DEF RequestsTyped
<1>2. /\ m \in RequestRecord /\ m.pc = to /\ m.by = request[p].by /\ m.header = request[p].header
      /\ m.calls = request[p].calls /\ m.answers = request[p].answers
      BY <1>1 DEF RequestRecord
<1>3. request' = [request EXCEPT ![p] = m]
      BY DEF Goto
<1> HIDE DEF m
<1>4. /\ request' \in [Request -> RequestRecord] /\ request'[p] = m
      /\ \A q \in Request \ {p} : request'[q] = request[q]
      BY <1>2, <1>3 DEF RequestsTyped
<1>5. Asked(p)' /\ Current(p)' = Current(p)
      BY <1>1, <1>2, <1>4 DEF Asked, Current
<1>6. RequestsTyped'
      BY <1>4, <1>5 DEF RequestsTyped, Asked
<1>7. QED  BY <1>2, <1>4, <1>5, <1>6

\* The call at hand is answered: the next is taken up, or none is left.
LEMMA AnswerKeeps ==
    ASSUME RequestsTyped, NEW p \in Request, request[p].pc \notin Over, NEW answer \in Answers, Answered(p, answer)
    PROVE  /\ RequestsTyped' /\ request'[p].pc \in {"done", "call"}
           /\ \A q \in Request \ {p} : request'[q] = request[q]
<1> DEFINE n == Len(request[p].answers) + 1
           m == [request[p] EXCEPT !.answers = Append(@, answer),
                   !.pc = IF n = Len(request[p].calls) THEN "done" ELSE "call"]
<1>1. request[p] \in RequestRecord /\ Asked(p)
      BY DEF RequestsTyped
<1>2. /\ Append(request[p].answers, answer) \in Seq(Answers) /\ Len(Append(request[p].answers, answer)) = n
      /\ n \in Nat /\ Len(request[p].calls) \in Nat /\ n <= Len(request[p].calls)
      BY <1>1 DEF RequestRecord, Asked
<1>3. /\ m \in RequestRecord /\ m.by = request[p].by /\ m.header = request[p].header /\ m.calls = request[p].calls
      /\ m.answers = Append(request[p].answers, answer)
      /\ m.pc = IF n = Len(request[p].calls) THEN "done" ELSE "call"
      BY <1>1, <1>2 DEF RequestRecord, Pcs
<1>4. request' = [request EXCEPT ![p] = m]
      BY DEF Answered
<1> HIDE DEF m
<1>5. /\ request' \in [Request -> RequestRecord] /\ request'[p] = m
      /\ \A q \in Request \ {p} : request'[q] = request[q]
      BY <1>3, <1>4 DEF RequestsTyped
<1>6. request'[p].pc \notin Over => Asked(p)'
      BY <1>1, <1>2, <1>3, <1>5 DEF Asked
<1>7. RequestsTyped'
      BY <1>5, <1>6 DEF RequestsTyped, Asked
<1>8. QED  BY <1>3, <1>5, <1>7

\* What has been held stays held while the call lasts.
LEMMA HeldStays ==
    ASSUME Remember, NEW p \in Request, request'[p].pc \notin Over,
           request'[p].pc = "call" => request'[p] = request[p]
    PROVE  held[p] \subseteq held'[p] /\ Held(p)' \subseteq held'[p]
<1>1. held'[p] = held[p] \cup Held(p)'
      BY DEF Remember
<1>2. QED  BY <1>1

\* The requests a step leaves alone.
LEMMA OthersGranted ==
    ASSUME Remember, NEW p \in Request, Granted(p), request'[p] = request[p]
    PROVE  Granted(p)'
<1>1. CASE request[p].pc \in {"account", "execute", "write", "admin"}
  <2>1. held[p] \subseteq held'[p]
        BY <1>1, HeldStays
  <2>2. Current(p)' = Current(p)
        BY DEF Current
  <2>3. QED  BY <1>1, <2>1, <2>2 DEF Granted
<1>2. CASE request[p].pc \notin {"account", "execute", "write", "admin"}
      BY <1>2 DEF Granted
<1>3. QED  BY <1>1, <1>2

\* One request has moved, and all are well.
Moved(p) ==
    /\ RequestsTyped' /\ \A q \in Request : Granted(q)'
    /\ \A q \in Request \ {p} : request'[q] = request[q]

\* A request that goes on, with what its call has been granted and what it has
\* still to be.
LEMMA GoesOn ==
    ASSUME Inv, Remember, NEW p \in Request, request[p].pc \in {"account", "execute"},
           NEW to \in {"execute", "write", "admin"}, Goto(p, to),
           to = "admin" => Current(p).action \in AdminActions,
           request[p].pc = "account" /\ Current(p).action \in SigningActions
             => <<"account", Current(p).address>> \in Held(p)'
    PROVE  Moved(p)
<1>1. /\ RequestsTyped' /\ request'[p].pc = to /\ request'[p].header = request[p].header
      /\ Current(p)' = Current(p) /\ \A q \in Request \ {p} : request'[q] = request[q]
      BY GotoKeeps DEF Inv, Pcs
<1>2. held[p] \subseteq held'[p] /\ Held(p)' \subseteq held'[p]
      BY <1>1, HeldStays
<1>3. Granted(p)
      BY DEF Inv
<1>4. Granted(p)'
      BY <1>1, <1>2, <1>3 DEF Granted
<1>5. \A q \in Request \ {p} : Granted(q)'
      BY <1>1, OthersGranted DEF Inv
<1>6. QED  BY <1>1, <1>4, <1>5 DEF Moved

\* A request whose call is answered.
LEMMA GetsAnswer ==
    ASSUME Inv, Remember, NEW p \in Request, request[p].pc \notin Over,
           \E answer \in Answers : Answered(p, answer)
    PROVE  Moved(p)
<1>1. /\ RequestsTyped' /\ request'[p].pc \in {"done", "call"}
      /\ \A q \in Request \ {p} : request'[q] = request[q]
      BY AnswerKeeps DEF Inv
<1>2. Granted(p)'
      BY <1>1 DEF Granted
<1>3. \A q \in Request \ {p} : Granted(q)'
      BY <1>1, OthersGranted DEF Inv
<1>4. QED  BY <1>1, <1>2, <1>3 DEF Moved

\* What is held, in tables that a step leaves alone.
LEMMA HeldSame ==
    ASSUME NEW p \in Request, users' = users, accounts' = accounts, order' = order,
           request'[p].by = request[p].by, request'[p].header = request[p].header
    PROVE  Held(p)' = Held(p)
BY DEF Held, Grants, Admins

\* A step of a request that leaves the administrators alone.
LEMMA WithinRequest ==
    ASSUME Inv, NEW p \in Request, request[p].pc # "admin", Moved(p), RolesGiven', UNCHANGED AdminTables
    PROVE  Inv' /\ Admins' = Admins
<1>1. AdminInv' /\ Admins' = Admins
      BY NothingHolds DEF Inv, AdminTables
<1>2. OperationsAsked'
      BY DEF Inv, OperationsAsked, Moved, AdminTables
<1>3. QED  BY <1>1, <1>2 DEF Inv, Moved

LEMMA ArriveHolds ==
    ASSUME Inv, Remember, NEW p \in Request, Arrive(p) PROVE Inv' /\ Admins' = Admins
<1>1. PICK c \in Calls : request' = [request EXCEPT ![p] =
             [pc |-> FanOutRPCBatchRequest(c.calls).pc, by |-> c.by, header |-> c.header,
              calls |-> c.calls, answers |-> FanOutRPCBatchRequest(c.calls).answers]]
      BY DEF Arrive
<1> DEFINE m == [pc |-> FanOutRPCBatchRequest(c.calls).pc, by |-> c.by, header |-> c.header,
                 calls |-> c.calls, answers |-> FanOutRPCBatchRequest(c.calls).answers]
<1>2. c \in Requests /\ c.calls \in Seq(Call) /\ c.by \in Id /\ c.header \in Application \cup {NoApplication}
      BY CallsAssumption DEF Requests
<1>3. /\ m \in RequestRecord /\ m.by = c.by /\ m.header = c.header /\ m.calls = c.calls
      /\ m.pc \in {"done", "call"}
      /\ m.pc = "call" => m.answers = <<>> /\ Len(c.calls) >= 1
  <2>1. CASE Len(c.calls) \notin 1..MaxBatch
    <3> DEFINE one == <<"bad request">>
    <3>1. FanOutRPCBatchRequest(c.calls) = [pc |-> "done", answers |-> one]
          BY <2>1 DEF FanOutRPCBatchRequest
    <3>2. one \in Seq(Answers)
          BY DEF Answers
    <3> HIDE DEF one
    <3>3. QED  BY <1>2, <3>1, <3>2 DEF RequestRecord, Pcs
  <2>2. CASE Len(c.calls) \in 1..MaxBatch
    <3>1. FanOutRPCBatchRequest(c.calls) = [pc |-> "call", answers |-> <<>>]
          BY <2>2 DEF FanOutRPCBatchRequest
    <3>2. Len(c.calls) >= 1
          BY <2>2, BatchAssumption
    <3>3. QED  BY <1>2, <3>1, <3>2 DEF RequestRecord, Pcs
  <2>3. QED  BY <2>1, <2>2
<1>4. request' = [request EXCEPT ![p] = m]
      BY <1>1
<1> HIDE DEF m
<1>5. /\ request' \in [Request -> RequestRecord] /\ request'[p] = m
      /\ \A q \in Request \ {p} : request'[q] = request[q]
      BY <1>3, <1>4 DEF Inv, RequestsTyped
<1>6. request'[p].pc \notin Over => Asked(p)'
      BY <1>2, <1>3, <1>5 DEF Asked
<1>7. RequestsTyped'
      BY <1>5, <1>6 DEF Inv, RequestsTyped, Asked
<1>8. Granted(p)'
      BY <1>3, <1>5 DEF Granted
<1>9. \A q \in Request \ {p} : Granted(q)'
      BY <1>5, OthersGranted DEF Inv
<1>10. Moved(p)
      BY <1>5, <1>7, <1>8, <1>9 DEF Moved
<1>11. request[p].pc # "admin" /\ UNCHANGED AdminTables /\ RolesGiven'
      BY DEF Arrive, adminVars, AdminTables, Tables, Inv, RolesGiven
<1>12. QED  BY <1>10, <1>11, WithinRequest

\* The answers that end a call.
LEMMA AnswersGiven ==
    ASSUME NEW p, Succeeds(p) \/ Refused(p) \/ Finishes(p) \/ RefusedWhole(p)
    PROVE  \E answer \in Answers : Answered(p, answer)
BY DEF Succeeds, Refused, Finishes, RefusedWhole, Answers

LEMMA CallFailsHolds ==
    ASSUME Inv, Remember, NEW p \in Request, CallFails(p) PROVE Inv' /\ Admins' = Admins
<1>1. request[p].pc \notin {"done", "lost", "admin"} /\ Refused(p) /\ UNCHANGED AdminTables /\ users' = users
      BY DEF CallFails, Tables
<1>2. Moved(p)
      BY <1>1, AnswersGiven, GetsAnswer
<1>3. RolesGiven'
      BY <1>1 DEF Inv, RolesGiven
<1>4. QED  BY <1>1, <1>2, <1>3, WithinRequest

LEMMA AuthorizeUserHolds ==
    ASSUME Inv, Remember, NEW p \in Request, AuthorizeUser(p) PROVE Inv' /\ Admins' = Admins
<1> DEFINE c == Current(p)
           to == IF RequiresAccount(c.action) THEN "account" ELSE "execute"
<1>1. request[p].pc = "call" /\ UNCHANGED AdminTables /\ users' = users /\ accounts' = accounts /\ order' = order
      BY DEF AuthorizeUser, adminVars, AdminTables, Tables
<1>2. Refused(p) => Moved(p)
      BY <1>1, AnswersGiven, GetsAnswer
<1>3. ASSUME ValidateApplication(p),
             request[p].header # NoApplication => c.action \notin AdminActions,
             \E r \in RolesOf(p) : c.action \in ActionsOf(r),
             Goto(p, to)
      PROVE  Moved(p)
  <2>1. /\ RequestsTyped' /\ request'[p].pc = to /\ request'[p].header = request[p].header
        /\ request'[p].by = request[p].by
        /\ c' = c /\ \A q \in Request \ {p} : request'[q] = request[q]
        BY <1>1, <1>3, GotoKeeps DEF Inv, Pcs
  <2>2. held[p] \subseteq held'[p] /\ Held(p) \subseteq held'[p]
        BY <1>1, <2>1, HeldStays, HeldSame
  <2>3. PICK r \in RolesOf(p) : c.action \in ActionsOf(r)
        BY <1>3
  <2>4. r \in Roles /\ <<"role", r>> \in Held(p)
    <3>1. CASE request[p].header = NoApplication
          BY <3>1, <2>3 DEF RolesOf, Held, Grants, Roles
    <3>2. CASE request[p].header # NoApplication
      <4>1. PICK u \in users : u[1] = request[p].header /\ u[2] = request[p].by /\ r \in u[3]
            BY <3>2, <2>3 DEF RolesOf
      <4>2. r \in Roles
            BY <4>1 DEF Inv, RolesGiven, Roles
      <4>3. r \in UNION {v[3] : v \in {w \in users : w[1] = request[p].header /\ w[2] = request[p].by}}
            BY <4>1
      <4>4. QED  BY <4>2, <4>3 DEF Held, Grants
    <3>3. QED  BY <3>1, <3>2
  <2>5. c.action \in AdminActions => request[p].header = NoApplication
        BY <1>3
  <2>6. c.action \in ApplicationActions => request[p].header \in {NoApplication, c.application}
        BY <1>1, <1>3, CallAtHand, PathAssumption DEF Inv, ValidateApplication
  <2>7. to # "account" => c.action \notin SigningActions
        BY DEF RequiresAccount
  <2>8. Granted(p)'
        BY <2>1, <2>2, <2>3, <2>4, <2>5, <2>6, <2>7 DEF Granted
  <2>9. \A q \in Request \ {p} : Granted(q)'
        BY <2>1, OthersGranted DEF Inv
  <2>10. QED  BY <2>1, <2>8, <2>9 DEF Moved
<1>4. Moved(p)
      BY <1>2, <1>3 DEF AuthorizeUser
<1>5. RolesGiven'
      BY <1>1 DEF Inv, RolesGiven
<1>6. QED  BY <1>1, <1>4, <1>5, WithinRequest

LEMMA AuthorizeAccountHolds ==
    ASSUME Inv, Remember, NEW p \in Request, AuthorizeAccount(p) PROVE Inv' /\ Admins' = Admins
<1> DEFINE c == Current(p)
<1>1. /\ request[p].pc = "account" /\ UNCHANGED AdminTables
      /\ users' = users /\ accounts' = accounts /\ order' = order
      BY DEF AuthorizeAccount, adminVars, AdminTables, Tables
<1>2. Refused(p) \/ Answered(p, "bad request") => Moved(p)
      BY <1>1, GetsAnswer DEF Refused, Answers
<1>3. ASSUME <<request[p].header, request[p].by, c.address>> \in accounts, Goto(p, "execute")
      PROVE  Moved(p)
  <2>1. request'[p].by = request[p].by /\ request'[p].header = request[p].header
        BY <1>1, <1>3, GotoKeeps DEF Inv, Pcs
  <2>2. <<"account", c.address>> \in Held(p)
        BY <1>3 DEF Held, Grants
  <2>3. <<"account", c.address>> \in Held(p)'
        BY <1>1, <2>1, <2>2, HeldSame
  <2>4. QED  BY <1>1, <1>3, <2>3, GoesOn
<1>4. Moved(p)
      BY <1>2, <1>3 DEF AuthorizeAccount
<1>5. RolesGiven'
      BY <1>1 DEF Inv, RolesGiven
<1>6. QED  BY <1>1, <1>4, <1>5, WithinRequest

LEMMA CreateUserHolds ==
    ASSUME Inv, Remember, NEW p \in Request, CreateUser(p) PROVE Inv' /\ Admins' = Admins
<1>1. request[p].pc = "execute" /\ UNCHANGED AdminTables /\ (Finishes(p) \/ RefusedWhole(p))
      BY DEF CreateUser, Executing
<1>2. Moved(p)
      BY <1>1, AnswersGiven, GetsAnswer
<1>3. RolesGiven'
      BY DEF CreateUser, ValidateApplicationScopedRoles, Inv, RolesGiven
<1>4. QED  BY <1>1, <1>2, <1>3, WithinRequest

LEMMA EditUserHolds ==
    ASSUME Inv, Remember, NEW p \in Request, EditUser(p) PROVE Inv' /\ Admins' = Admins
<1>1. request[p].pc = "execute" /\ UNCHANGED AdminTables /\ (Finishes(p) \/ RefusedWhole(p))
      BY DEF EditUser, Executing
<1>2. Moved(p)
      BY <1>1, AnswersGiven, GetsAnswer
<1>3. RolesGiven'
      BY DEF EditUser, ValidateApplicationScopedRoles, Inv, RolesGiven
<1>4. QED  BY <1>1, <1>2, <1>3, WithinRequest

\* What reads before it writes.
LEMMA ReadsHold ==
    ASSUME Inv, Remember, NEW p \in Request, RemoveAllUserDependencies(p) \/ GetUserOfAccount(p) \/ GetAccount(p)
    PROVE  Inv' /\ Admins' = Admins
<1>1. /\ request[p].pc = "execute" /\ UNCHANGED AdminTables /\ users' = users
      /\ Goto(p, "write") \/ Refused(p)
      BY DEF RemoveAllUserDependencies, GetUserOfAccount, GetAccount, Executing, adminVars, AdminTables, Tables
<1>2. Refused(p) => Moved(p)
      BY <1>1, AnswersGiven, GetsAnswer
<1>3. Goto(p, "write") => Moved(p)
      BY <1>1, GoesOn
<1>4. RolesGiven'
      BY <1>1 DEF Inv, RolesGiven
<1>5. QED  BY <1>1, <1>2, <1>3, <1>4, WithinRequest

LEMMA WritesHold ==
    ASSUME Inv, Remember, NEW p \in Request, DeleteUser(p) \/ EnableAccounts(p) \/ DisableAccount(p)
    PROVE  Inv' /\ Admins' = Admins
<1>1. /\ request[p].pc = "write" /\ UNCHANGED AdminTables /\ users' \subseteq users
      /\ Finishes(p) \/ RefusedWhole(p)
      BY DEF DeleteUser, EnableAccounts, DisableAccount, Writing
<1>2. Moved(p)
      BY <1>1, AnswersGiven, GetsAnswer
<1>3. RolesGiven'
      BY <1>1 DEF Inv, RolesGiven
<1>4. QED  BY <1>1, <1>2, <1>3, WithinRequest

LEMMA UseKeyHolds ==
    ASSUME Inv, Remember, NEW p \in Request, UseKey(p) PROVE Inv' /\ Admins' = Admins
<1>1. /\ request[p].pc = "execute" /\ UNCHANGED AdminTables /\ users' = users
      /\ Succeeds(p) \/ Refused(p)
      BY DEF UseKey, adminVars, AdminTables, Tables
<1>2. Moved(p)
      BY <1>1, AnswersGiven, GetsAnswer
<1>3. RolesGiven'
      BY <1>1 DEF Inv, RolesGiven
<1>4. QED  BY <1>1, <1>2, <1>3, WithinRequest

LEMMA BeginAdminHolds ==
    ASSUME Inv, Remember, NEW p \in Request, BeginAdmin(p) PROVE Inv' /\ Admins' = Admins
<1> DEFINE c == Current(p)
<1>1. /\ request[p].pc = "execute" /\ Goto(p, "admin") /\ users' = users /\ c.action \in AdminActions
      /\ \E to \in {"add", "count"} : Begin(p, to, c.id)
      BY DEF BeginAdmin, AdminActions, Tables
<1>2. c.id \in Id
      BY <1>1, CallAtHand DEF Inv
<1>3. AdminInv' /\ Admins' = Admins
      BY <1>1, <1>2, BeginHolds DEF Inv
<1>4. Moved(p)
      BY <1>1, GoesOn
<1>5. request'[p].pc = "admin" /\ \A q \in Request \ {p} : handler'[q] = handler[q]
      BY <1>1, GotoKeeps DEF Inv, Pcs, Begin, AdminInv, RowsTyped
<1>6. OperationsAsked'
      BY <1>4, <1>5 DEF Inv, OperationsAsked, Moved
<1>7. QED  BY <1>1, <1>3, <1>4, <1>6 DEF Inv, Moved, RolesGiven

LEMMA EndAdminHolds ==
    ASSUME Inv, Remember, NEW p \in Request, EndAdmin(p) PROVE Inv' /\ Admins' = Admins
<1>1. request[p].pc = "admin" /\ Answer(p) /\ users' = users /\ (Succeeds(p) \/ Refused(p))
      BY DEF EndAdmin, Tables
<1>2. AdminInv' /\ Admins' = Admins /\ handler'[p].pc = "idle"
      BY <1>1, AnswerHolds DEF Inv
<1>3. Moved(p)
      BY <1>1, AnswersGiven, GetsAnswer
<1>4. \A q \in Request \ {p} : handler'[q] = handler[q]
      BY <1>1 DEF Inv, Answer, AdminInv, RowsTyped
<1>5. OperationsAsked'
      BY <1>2, <1>3, <1>4 DEF Inv, OperationsAsked, Moved
<1>6. QED  BY <1>1, <1>2, <1>3, <1>5 DEF Inv, Moved, RolesGiven

\* Steps that no request sees.
LEMMA RequestsStay ==
    ASSUME Inv, Remember, UNCHANGED <<request, users>>
    PROVE  RequestsTyped' /\ RolesGiven' /\ \A q \in Request : Granted(q)'
BY OthersGranted DEF Inv, RequestsTyped, Asked, RolesGiven

LEMMA OperationHolds ==
    ASSUME Inv, Remember, NEW p \in Request, HandlerStep(p), UNCHANGED <<request, Tables, served>>
    PROVE  Inv' /\ (Admins # {} /\ Admins' = {} => overlapped)
<1>1. AdminInv' /\ (Admins # {} /\ Admins' = {} => overlapped)
      BY HandlerStepHolds DEF Inv
<1>2. /\ handler[p].pc # "idle" /\ \E to : HandlerGoes(p, to)
      BY DEF HandlerStep, CreateAdmin, CountAdmins, RemoveAllDependencies, GetAdmin, RemoveAdmin, StatementFails
<1>3. \A q \in Request \ {p} : handler'[q] = handler[q]
      BY <1>2 DEF HandlerGoes, Inv, AdminInv, RowsTyped
<1>4. OperationsAsked'
      BY <1>2, <1>3 DEF Inv, OperationsAsked
<1>5. QED  BY <1>1, <1>4, RequestsStay DEF Inv, Tables

LEMMA ServerHolds ==
    ASSUME Inv, Remember, NEW r \in Replica, Server(r) PROVE Inv' /\ Admins \subseteq Admins'
<1>1. AdminInv' /\ Admins \subseteq Admins' /\ handler' = handler
      BY ReplicaHolds DEF Inv, Server
<1>2. request' = request /\ users' = users
      BY DEF Server, Tables
<1>3. OperationsAsked'
      BY <1>1, <1>2 DEF Inv, OperationsAsked
<1>4. QED  BY <1>1, <1>2, <1>3, RequestsStay DEF Inv

LEMMA LostRecord == Lost \in RequestRecord /\ Lost.pc = "lost" /\ Lost.calls = <<>> /\ Lost.answers = <<>>
<1>1. Idle \in RequestRecord /\ Idle.calls = <<>> /\ Idle.answers = <<>>
      BY DEF Idle, RequestRecord, Pcs
<1>2. QED  BY <1>1 DEF Lost, RequestRecord, Pcs

\* The requests of a process that dies are lost, and nothing of them is asked.
LEMMA DiesHolds ==
    ASSUME Inv, Remember, NEW r \in Replica, Dies(r) PROVE Inv' /\ Admins' = Admins
<1>1. /\ Stop(r) /\ users' = users
      /\ request' = [p \in Request |-> IF Host[p] = r /\ request[p].pc \notin Over THEN Lost ELSE request[p]]
      BY DEF Dies, Tables
<1>2. /\ AdminInv' /\ Admins' = Admins
      /\ \A p \in Request : handler'[p] = IF Host[p] = r THEN QuietHandler ELSE handler[p]
      BY <1>1, StopHolds DEF Inv
<1>3. Lost \in RequestRecord /\ Lost.pc = "lost"
      BY LostRecord
<1>4. /\ request' \in [Request -> RequestRecord]
      /\ \A p \in Request : request'[p] = IF Host[p] = r /\ request[p].pc \notin Over THEN Lost ELSE request[p]
      BY <1>1, <1>3 DEF Inv, RequestsTyped
<1>5. RequestsTyped'
      BY <1>3, <1>4 DEF Inv, RequestsTyped, Asked
<1>6. ASSUME NEW p \in Request PROVE Granted(p)'
  <2>1. CASE request'[p] = request[p]
        BY <2>1, OthersGranted DEF Inv
  <2>2. CASE request'[p] = Lost
        BY <1>3, <2>2 DEF Granted
  <2>3. QED  BY <1>4, <2>1, <2>2
<1>7. OperationsAsked'
      BY <1>2, <1>4 DEF Inv, OperationsAsked, QuietHandler
<1>8. RolesGiven'
      BY <1>1 DEF Inv, RolesGiven
<1>9. QED  BY <1>2, <1>5, <1>6, <1>7, <1>8 DEF Inv

LEMMA InitHolds == ASSUME Init PROVE Inv
<1>1. AdminInv /\ \A p \in Request : handler[p].pc = "idle"
      BY AdminInitHolds DEF Init, AdminInit, QuietHandler
<1>2. request \in [Request -> RequestRecord] /\ \A p \in Request : request[p].pc = "done"
      BY DEF Init, Idle, RequestRecord, Pcs
<1>3. RequestsTyped /\ OperationsAsked /\ \A p \in Request : Granted(p)
      BY <1>1, <1>2 DEF RequestsTyped, OperationsAsked, Granted
<1>4. RolesGiven
  <2>1. SUFFICES ASSUME NEW u \in users PROVE u[3] \subseteq ApplicationRoles
        BY DEF RolesGiven
  <2>2. u \in Application \X Id \X SUBSET ApplicationRoles
        BY InitialAssumption DEF Init
  <2>3. QED  BY <2>2
<1>5. QED  BY <1>1, <1>3, <1>4 DEF Inv

-----------------------------------------------------------------------------
(* Every step *)

LEMMA NextHolds ==
    ASSUME Inv, [Next]_vars
    PROVE  /\ Inv'
           /\ Admins # {} /\ Admins' = {} => overlapped
<1>1. CASE UNCHANGED vars
  <2>1. AdminInv' /\ Admins' = Admins
        BY <1>1, NothingHolds DEF Inv, vars, adminVars
  <2>2. /\ RequestsTyped' /\ RolesGiven' /\ OperationsAsked'
        /\ \A p \in Request : Granted(p)'
        BY <1>1 DEF Inv, vars, adminVars, RequestsTyped, Asked, RolesGiven, OperationsAsked, Granted, Current
  <2>3. QED  BY <2>1, <2>2 DEF Inv
<1>2. ASSUME Remember, NEW p \in Request, Arrive(p) \/ Proceed(p) \/ CallFails(p)
      PROVE  Inv' /\ (Admins # {} /\ Admins' = {} => overlapped)
  <2>1. CASE HandlerStep(p) /\ UNCHANGED <<request, Tables, served>>
        BY <1>2, <2>1, OperationHolds
  <2>2. CASE Arrive(p)
        BY <1>2, <2>2, ArriveHolds
  <2>3. CASE CallFails(p)
        BY <1>2, <2>3, CallFailsHolds
  <2>4. CASE AuthorizeUser(p)
        BY <1>2, <2>4, AuthorizeUserHolds
  <2>5. CASE AuthorizeAccount(p)
        BY <1>2, <2>5, AuthorizeAccountHolds
  <2>6. CASE CreateUser(p)
        BY <1>2, <2>6, CreateUserHolds
  <2>7. CASE EditUser(p)
        BY <1>2, <2>7, EditUserHolds
  <2>8. CASE RemoveAllUserDependencies(p) \/ GetUserOfAccount(p) \/ GetAccount(p)
        BY <1>2, <2>8, ReadsHold
  <2>9. CASE DeleteUser(p) \/ EnableAccounts(p) \/ DisableAccount(p)
        BY <1>2, <2>9, WritesHold
  <2>10. CASE UseKey(p)
        BY <1>2, <2>10, UseKeyHolds
  <2>11. CASE BeginAdmin(p)
        BY <1>2, <2>11, BeginAdminHolds
  <2>12. CASE EndAdmin(p)
        BY <1>2, <2>12, EndAdminHolds
  <2>13. QED
        BY <1>2, <2>1, <2>2, <2>3, <2>4, <2>5, <2>6, <2>7, <2>8, <2>9, <2>10, <2>11, <2>12 DEF Proceed
<1>3. ASSUME Remember, NEW r \in Replica, Server(r)
      PROVE  Inv' /\ (Admins # {} /\ Admins' = {} => overlapped)
      BY <1>3, ServerHolds
<1>4. ASSUME Remember, NEW r \in Replica, Dies(r)
      PROVE  Inv' /\ (Admins # {} /\ Admins' = {} => overlapped)
      BY <1>4, DiesHolds
<1>5. ASSUME Remember, Terminated
      PROVE  Inv' /\ (Admins # {} /\ Admins' = {} => overlapped)
  <2>1. AdminInv' /\ Admins' = Admins
        BY <1>5, NothingHolds DEF Inv, Terminated, adminVars
  <2>2. UNCHANGED <<request, users>> /\ OperationsAsked'
        BY <1>5 DEF Inv, Terminated, Tables, adminVars, OperationsAsked
  <2>3. QED  BY <1>5, <2>1, <2>2, RequestsStay DEF Inv
<1>6. QED  BY <1>1, <1>2, <1>3, <1>4, <1>5 DEF Next

THEOREM Invariance == Spec => []Inv
<1>1. Init => Inv
      BY InitHolds
<1>2. Inv /\ [Next]_vars => Inv'
      BY NextHolds
<1>3. QED  BY <1>1, <1>2, PTL DEF Spec

(* Whoever executes a call has been granted it: the requester has held the    *)
(* role for it, and the account it signs with, since the call was taken up.   *)
THEOREM GrantedBeforeExecution == Spec => []ExecutedWasGranted
<1>1. Inv => ExecutedWasGranted
      BY DEF Inv, Granted, ExecutedWasGranted
<1>2. QED  BY <1>1, Invariance, PTL

(* However many requests delete administrators and whatever fails, the last   *)
(* stays unless two deletions overlap (DeleteAdmin, admin_usecase.go:159).    *)
THEOREM LastStays == Spec => LastAdministratorStays
<1> DEFINE Goes == Admins # {} /\ Admins' = {} => overlapped
<1>1. Inv /\ [Next]_vars => [Goes]_adminVars
      BY NextHolds
<1>2. QED  BY <1>1, Invariance, PTL DEF Spec, LastAdministratorStays

-----------------------------------------------------------------------------
(* Batches *)

Fits(call, answer) ==
    /\ answer = "none" => call.notification
    /\ answer = "result" => ~call.notification
    /\ answer = "bad request" => call.action \in SigningActions /\ call.address = NoAddress

\* What has been answered of a batch, and for which calls there is a signer to look at.
SoFar(p) ==
    IF Len(request[p].calls) \in 1..MaxBatch
    THEN /\ request[p].pc # "lost"
         /\ request[p].pc = "done" => Len(request[p].answers) = Len(request[p].calls)
         /\ \A k \in 1..Len(request[p].answers) : Fits(request[p].calls[k], request[p].answers[k])
         /\ request[p].pc = "account" => Current(p).action \in SigningActions
    ELSE \/ request[p].pc = "done" /\ (request[p].answers = <<"bad request">> \/ request[p] = Idle)
         \/ request[p].pc = "lost" /\ request[p].answers = <<>>

Batches == \A p \in Request : SoFar(p)

LEMMA SoFarSame ==
    ASSUME NEW p, SoFar(p), request'[p] = request[p] PROVE SoFar(p)'
BY DEF SoFar, Current

LEMMA SoFarArrives ==
    ASSUME RequestsTyped, NEW p \in Request, Arrive(p)
    PROVE  SoFar(p)' /\ \A q \in Request \ {p} : request'[q] = request[q]
<1>1. PICK c \in Calls : request' = [request EXCEPT ![p] =
             [pc |-> FanOutRPCBatchRequest(c.calls).pc, by |-> c.by, header |-> c.header,
              calls |-> c.calls, answers |-> FanOutRPCBatchRequest(c.calls).answers]]
      BY DEF Arrive
<1> DEFINE m == [pc |-> FanOutRPCBatchRequest(c.calls).pc, by |-> c.by, header |-> c.header,
                 calls |-> c.calls, answers |-> FanOutRPCBatchRequest(c.calls).answers]
<1>2. /\ m.calls = c.calls
      /\ m.pc = FanOutRPCBatchRequest(c.calls).pc /\ m.answers = FanOutRPCBatchRequest(c.calls).answers
      OBVIOUS
<1>3. request' = [request EXCEPT ![p] = m]
      BY <1>1
<1> HIDE DEF m
<1>4. request'[p] = m /\ \A q \in Request \ {p} : request'[q] = request[q]
      BY <1>3 DEF RequestsTyped
<1>5. CASE Len(c.calls) \in 1..MaxBatch
  <2>1. FanOutRPCBatchRequest(c.calls) = [pc |-> "call", answers |-> <<>>]
        BY <1>5 DEF FanOutRPCBatchRequest
  <2>2. m.pc = "call" /\ m.answers = <<>>
        BY <1>2, <2>1
  <2>3. m.pc \notin {"done", "lost", "account"}
        BY <2>2
  <2>4. Len(m.answers) = 0
        BY <2>2
  <2>5. 1..Len(m.answers) = {}
        BY <2>4
  <2>6. Len(m.calls) \in 1..MaxBatch
        BY <1>2, <1>5
  <2>7. QED  BY <1>4, <2>3, <2>5, <2>6 DEF SoFar
<1>6. CASE Len(c.calls) \notin 1..MaxBatch
  <2> DEFINE one == <<"bad request">>
  <2>1. FanOutRPCBatchRequest(c.calls) = [pc |-> "done", answers |-> one]
        BY <1>6 DEF FanOutRPCBatchRequest
  <2> HIDE DEF one
  <2>2. m.pc = "done" /\ m.answers = one
        BY <1>2, <2>1
  <2>3. QED  BY <1>2, <1>4, <1>6, <2>2 DEF SoFar, one
<1>7. QED  BY <1>4, <1>5, <1>6

LEMMA SoFarAnswered ==
    ASSUME RequestsTyped, NEW p \in Request, SoFar(p), request[p].pc \notin Over,
           NEW answer \in Answers, Answered(p, answer), Fits(Current(p), answer)
    PROVE  SoFar(p)' /\ \A q \in Request \ {p} : request'[q] = request[q]
<1> DEFINE n == Len(request[p].answers) + 1
           m == [request[p] EXCEPT !.answers = Append(@, answer),
                   !.pc = IF n = Len(request[p].calls) THEN "done" ELSE "call"]
<1>1. request[p] \in RequestRecord /\ Len(request[p].calls) \in 1..MaxBatch
      BY DEF RequestsTyped, SoFar
<1>2. /\ request[p].answers \in Seq(Answers)
      /\ Len(Append(request[p].answers, answer)) = n /\ n \in Nat
      /\ Append(request[p].answers, answer)[n] = answer
      /\ \A k \in 1..n - 1 : Append(request[p].answers, answer)[k] = request[p].answers[k]
      BY <1>1 DEF RequestRecord
<1>3. /\ m.calls = request[p].calls /\ m.answers = Append(request[p].answers, answer)
      /\ m.pc = IF n = Len(request[p].calls) THEN "done" ELSE "call"
      BY <1>1 DEF RequestRecord
<1>4. request' = [request EXCEPT ![p] = m]
      BY DEF Answered
<1> HIDE DEF m
<1>5. request'[p] = m /\ \A q \in Request \ {p} : request'[q] = request[q]
      BY <1>4 DEF RequestsTyped
<1>6. \A k \in 1..n : Fits(request[p].calls[k], m.answers[k])
  <2>1. \A k \in 1..n - 1 : Fits(request[p].calls[k], request[p].answers[k])
        BY <1>1, <1>2 DEF SoFar
  <2>2. Fits(request[p].calls[n], answer)
        BY DEF Current
  <2>3. QED  BY <1>2, <1>3, <2>1, <2>2
<1>7. QED  BY <1>1, <1>2, <1>3, <1>5, <1>6 DEF SoFar

LEMMA SoFarGoesOn ==
    ASSUME RequestsTyped, NEW p \in Request, SoFar(p), request[p].pc \notin Over,
           NEW to \in Pcs \ Over, Goto(p, to), to = "account" => Current(p).action \in SigningActions
    PROVE  SoFar(p)' /\ \A q \in Request \ {p} : request'[q] = request[q]
<1> DEFINE m == [request[p] EXCEPT !.pc = to]
<1>1. request[p] \in RequestRecord /\ Len(request[p].calls) \in 1..MaxBatch
      BY DEF RequestsTyped, SoFar
<1>2. m.pc = to /\ m.calls = request[p].calls /\ m.answers = request[p].answers
      BY <1>1 DEF RequestRecord
<1>3. request' = [request EXCEPT ![p] = m]
      BY DEF Goto
<1> HIDE DEF m
<1>4. request'[p] = m /\ \A q \in Request \ {p} : request'[q] = request[q]
      BY <1>3 DEF RequestsTyped
<1>5. Current(p)' = Current(p)
      BY <1>2, <1>4 DEF Current
<1>6. QED  BY <1>1, <1>2, <1>4, <1>5 DEF SoFar

\* A result is answered to a call, and nothing to a notification.
LEMMA AnswersFit ==
    ASSUME NEW p, Succeeds(p) \/ Refused(p) \/ Finishes(p) \/ RefusedWhole(p)
    PROVE  \E answer \in Answers : Answered(p, answer) /\ Fits(Current(p), answer)
<1>1. CASE Refused(p) \/ RefusedWhole(p)
      BY <1>1 DEF Refused, RefusedWhole, Answers, Fits
<1>2. CASE Succeeds(p)
      BY <1>2 DEF Succeeds, Answers, Fits
<1>3. QED  BY <1>1, <1>2 DEF Finishes

\* How one request may move.
Moves(p) ==
    \/ Arrive(p)
    \/ request[p].pc \notin Over /\ \E answer \in Answers : Answered(p, answer) /\ Fits(Current(p), answer)
    \/ /\ request[p].pc \notin Over
       /\ \E to \in Pcs \ Over : Goto(p, to) /\ (to = "account" => Current(p).action \in SigningActions)

LEMMA StepsMove ==
    ASSUME Inv, Batches, NEW p \in Request, Arrive(p) \/ Proceed(p) \/ CallFails(p)
    PROVE  Moves(p) \/ request' = request
<1>1. CASE AuthorizeUser(p)
      BY <1>1, AnswersFit DEF AuthorizeUser, RequiresAccount, Moves, Pcs
<1>2. CASE AuthorizeAccount(p)
  <2>1. request[p].pc = "account" /\ SoFar(p)
        BY <1>2 DEF AuthorizeAccount, Batches
  <2>2. Current(p).action \in SigningActions
        BY <2>1 DEF SoFar
  <2>3. CASE Current(p).address = NoAddress /\ Answered(p, "bad request")
        BY <2>1, <2>2, <2>3 DEF Moves, Fits, Answers
  <2>4. CASE Goto(p, "execute")
        BY <2>1, <2>4 DEF Moves, Pcs
  <2>5. CASE Refused(p)
        BY <2>1, <2>5, AnswersFit DEF Moves
  <2>6. QED  BY <1>2, <2>3, <2>4, <2>5 DEF AuthorizeAccount
<1>3. CASE CreateUser(p) \/ EditUser(p) \/ DeleteUser(p) \/ EnableAccounts(p) \/ DisableAccount(p)
      BY <1>3, AnswersFit DEF CreateUser, EditUser, DeleteUser, EnableAccounts, DisableAccount, Executing, Writing, Moves
<1>4. CASE RemoveAllUserDependencies(p) \/ GetUserOfAccount(p) \/ GetAccount(p)
      BY <1>4, AnswersFit DEF RemoveAllUserDependencies, GetUserOfAccount, GetAccount, Executing, Moves, Pcs
<1>5. CASE UseKey(p) \/ EndAdmin(p) \/ CallFails(p)
      BY <1>5, AnswersFit DEF UseKey, EndAdmin, CallFails, Moves
<1>6. CASE BeginAdmin(p)
      BY <1>6 DEF BeginAdmin, Moves, Pcs
<1>7. QED  BY <1>1, <1>2, <1>3, <1>4, <1>5, <1>6 DEF Proceed, Moves

LEMMA BatchesHold == ASSUME Inv, Batches, [Next]_vars PROVE Batches'
<1>1. ASSUME NEW p \in Request, Moves(p) PROVE Batches'
  <2>1. SoFar(p)' /\ \A q \in Request \ {p} : request'[q] = request[q]
        BY <1>1, SoFarArrives, SoFarAnswered, SoFarGoesOn DEF Moves, Inv, Batches
  <2>2. QED  BY <2>1, SoFarSame DEF Batches
<1>2. CASE request' = request
      BY <1>2, SoFarSame DEF Batches
<1>3. ASSUME NEW r \in Replica, Dies(r) PROVE Batches'
  <2>1. SUFFICES ASSUME NEW p \in Request PROVE SoFar(p)'
        BY DEF Batches
  <2>2. request'[p] = Lost \/ request'[p] = request[p]
        BY <1>3 DEF Dies
  <2>3. CASE request'[p] = Lost
    <3>1. Lost.pc = "lost" /\ Lost.answers = <<>> /\ Len(Lost.calls) = 0
          BY LostRecord
    <3>2. QED  BY <2>3, <3>1 DEF SoFar
  <2>4. QED  BY <2>2, <2>3, SoFarSame DEF Batches
<1>4. QED  BY <1>1, <1>2, <1>3, StepsMove DEF Next, Server, Terminated, vars

LEMMA BatchesThroughout == Spec => []Batches
<1>1. Init => Batches
  <2>1. SUFFICES ASSUME Init, NEW p \in Request PROVE SoFar(p)
        BY DEF Batches
  <2>2. request[p] = Idle /\ Idle.pc = "done" /\ Idle.calls = <<>>
        BY <2>1 DEF Init, Idle
  <2>3. Len(request[p].calls) = 0
        BY <2>2
  <2>4. QED  BY <2>2, <2>3 DEF SoFar
<1>2. Inv /\ Batches /\ [Next]_vars => Batches'
      BY BatchesHold
<1>3. QED  BY <1>1, <1>2, Invariance, PTL DEF Spec

(* Each call of a batch has its answer in its place, when all are answered,   *)
(* whatever became of the others (rpc_batch_request_support.go:66).           *)
THEOREM AnsweredInOrder == Spec => []BatchAnsweredInOrder
<1>1. Inv /\ Batches => BatchAnsweredInOrder
  <2>1. SUFFICES ASSUME Inv, Batches, NEW p \in Request, request[p].pc = "done", request[p] # Idle
                 PROVE  LET calls == request[p].calls  answers == request[p].answers IN
                        IF Len(calls) \notin 1..MaxBatch THEN answers = <<"bad request">>
                        ELSE /\ Len(answers) = Len(calls)
                             /\ \A k \in 1..Len(calls) : Fits(calls[k], answers[k])
        BY DEF BatchAnsweredInOrder, Fits
  <2>2. SoFar(p)
        BY <2>1 DEF Batches
  <2>3. QED  BY <2>1, <2>2 DEF SoFar
<1>2. QED  BY <1>1, Invariance, BatchesThroughout, PTL

-----------------------------------------------------------------------------
(* The tables *)

\* A user has one row, and everything in a row is what its column is for.
TablesTyped ==
    /\ users \subseteq Application \X Id \X SUBSET ApplicationRoles
    /\ \A u, v \in users : u[1] = v[1] /\ u[2] = v[2] => u = v
    /\ accounts \subseteq Application \X Id \X Address

\* Where a call on a user or an account puts its row.
LEMMA RowAtHand ==
    ASSUME RequestsTyped, NEW p \in Request, request[p].pc \notin Over, Current(p).action \in ApplicationActions
    PROVE  /\ Current(p).roles \subseteq ApplicationRoles =>
                <<Current(p).application, Current(p).id, Current(p).roles>>
                    \in Application \X Id \X SUBSET ApplicationRoles
           /\ Current(p).action \in AccountActions =>
                <<Current(p).application, Current(p).id, Current(p).address>> \in Application \X Id \X Address
BY CallAtHand

LEMMA CreateUserKeeps ==
    ASSUME RequestsTyped, TablesTyped, NEW p \in Request, CreateUser(p) PROVE TablesTyped'
<1> DEFINE c == Current(p)  row == <<c.application, c.id, c.roles>>
<1>1. request[p].pc \notin Over /\ c.action \in ApplicationActions /\ accounts' = accounts
      BY DEF CreateUser, Executing, ApplicationActions
<1>2. CASE c.roles \subseteq ApplicationRoles /\ UserRows(p) = {} /\ users' = users \cup {row}
  <2>1. row \in Application \X Id \X SUBSET ApplicationRoles
        BY <1>1, <1>2, RowAtHand
  <2>2. \A u \in users : ~(u[1] = row[1] /\ u[2] = row[2])
        BY <1>2 DEF UserRows
  <2> HIDE DEF row
  <2>3. QED  BY <1>1, <1>2, <2>1, <2>2 DEF TablesTyped
<1>3. CASE users' = users
      BY <1>1, <1>3 DEF TablesTyped
<1>4. QED  BY <1>2, <1>3 DEF CreateUser, ValidateApplicationScopedRoles

LEMMA EditUserKeeps ==
    ASSUME RequestsTyped, TablesTyped, NEW p \in Request, EditUser(p) PROVE TablesTyped'
<1> DEFINE c == Current(p)  row == <<c.application, c.id, c.roles>>
<1>1. request[p].pc \notin Over /\ c.action \in ApplicationActions /\ accounts' = accounts
      BY DEF EditUser, Executing, ApplicationActions
<1>2. CASE c.roles \subseteq ApplicationRoles /\ users' = (users \ UserRows(p)) \cup {row}
  <2>1. row \in Application \X Id \X SUBSET ApplicationRoles
        BY <1>1, <1>2, RowAtHand
  <2>2. \A u \in users \ UserRows(p) : ~(u[1] = row[1] /\ u[2] = row[2])
        BY DEF UserRows
  <2> HIDE DEF row
  <2>3. QED  BY <1>1, <1>2, <2>1, <2>2 DEF TablesTyped
<1>3. CASE users' = users
      BY <1>1, <1>3 DEF TablesTyped
<1>4. QED  BY <1>2, <1>3 DEF EditUser, ValidateApplicationScopedRoles

LEMMA EnableAccountsKeeps ==
    ASSUME RequestsTyped, TablesTyped, NEW p \in Request, EnableAccounts(p) PROVE TablesTyped'
<1>1. request[p].pc \notin Over /\ Current(p).action = "application.accounts.create"
      BY DEF EnableAccounts, Writing
<1>2. AccountRow(p) \in Application \X Id \X Address
      BY <1>1, RowAtHand DEF AccountRow, ApplicationActions, AccountActions
<1>3. users' = users /\ accounts' \subseteq accounts \cup {AccountRow(p)}
      BY DEF EnableAccounts
<1>4. QED  BY <1>2, <1>3 DEF TablesTyped

LEMMA TablesKept ==
    ASSUME RequestsTyped, TablesTyped, [Next]_vars PROVE TablesTyped'
<1>1. ASSUME NEW p \in Request, Arrive(p) \/ Proceed(p) \/ CallFails(p) PROVE TablesTyped'
  <2>1. CASE CreateUser(p) \/ EditUser(p) \/ EnableAccounts(p)
        BY <2>1, CreateUserKeeps, EditUserKeeps, EnableAccountsKeeps
  <2>2. CASE DeleteUser(p) \/ DisableAccount(p)
        BY <2>2 DEF DeleteUser, DisableAccount, TablesTyped
  <2>3. CASE UNCHANGED Tables
        BY <2>3 DEF Tables, TablesTyped
  <2>4. QED
        BY <1>1, <2>1, <2>2, <2>3
        DEF Arrive, CallFails, Proceed, AuthorizeUser, AuthorizeAccount, RemoveAllUserDependencies,
            GetUserOfAccount, GetAccount, UseKey, BeginAdmin, EndAdmin
<1>2. CASE UNCHANGED Tables
      BY <1>2 DEF Tables, TablesTyped
<1>3. QED  BY <1>1, <1>2 DEF Next, Server, Dies, Terminated, vars, Tables

-----------------------------------------------------------------------------
(* The places of the administrators *)

\* The places are those from the first to the last, each with an administrator
\* of its own.
Places ==
    /\ {order[i] : i \in Admins} = 1..Cardinality(Admins)
    /\ \A i, j \in Admins : order[i] = order[j] => i = j

\* A new administrator comes last.
LEMMA AddKeepsPlaces ==
    ASSUME RowsTyped, Places, NEW i \in Id, i \notin Admins, Add(i) PROVE Places'
<1> DEFINE n == Cardinality(Admins)
<1>1. n \in Nat
      BY FS_CardinalityType DEF RowsTyped
<1>2. Admins' = Admins \cup {i} /\ Cardinality(Admins)' = n + 1
      BY AddedOne, FS_AddElement DEF RowsTyped
<1>3. order'[i] = n + 1 /\ \A j \in Admins : order'[j] = order[j]
      BY DEF Add, RowsTyped, Admins
<1>4. \A j \in Admins : order[j] \in 1..n
      BY DEF Places
<1>5. \A k \in 1..n : \E j \in Admins : order[j] = k
      BY DEF Places
<1> HIDE DEF n
<1>6. \A j \in Admins' : order'[j] \in 1..n + 1
      BY <1>1, <1>2, <1>3, <1>4
<1>7. ASSUME NEW k \in 1..n + 1 PROVE \E j \in Admins' : order'[j] = k
  <2>1. CASE k = n + 1
        BY <2>1, <1>2, <1>3
  <2>2. CASE k \in 1..n
        BY <2>2, <1>2, <1>3, <1>5
  <2>3. QED  BY <1>1, <2>1, <2>2
<1>8. {order'[j] : j \in Admins'} = 1..n + 1
      BY <1>6, <1>7
<1>9. \A j, k \in Admins' : order'[j] = order'[k] => j = k
      BY <1>1, <1>2, <1>3, <1>4 DEF Places
<1>10. QED  BY <1>2, <1>8, <1>9 DEF Places

\* Those after one that goes move up.
LEMMA RemoveKeepsPlaces ==
    ASSUME RowsTyped, Places, NEW i \in Admins, Remove(i) PROVE Places'
<1> DEFINE n == Cardinality(Admins)
<1>1. Admins \subseteq Id /\ i \in Id /\ n \in Nat
      BY FS_CardinalityType DEF RowsTyped, Admins
<1>2. Admins' = Admins \ {i} /\ Cardinality(Admins)' = n - 1
      BY RemovedOne, FS_RemoveElement DEF RowsTyped
<1>3. \A j \in Admins : order[j] \in 1..n
      BY DEF Places
<1>4. \A k \in 1..n : \E j \in Admins : order[j] = k
      BY DEF Places
<1>5. \A j \in Admins \ {i} : /\ order[j] # order[i]
                              /\ order'[j] = IF order[j] > order[i] THEN order[j] - 1 ELSE order[j]
      BY <1>1 DEF Remove, Places
<1> HIDE DEF n
<1>6. \A j \in Admins' : order'[j] \in 1..n - 1
      BY <1>1, <1>2, <1>3, <1>5
<1>7. ASSUME NEW k \in 1..n - 1 PROVE \E j \in Admins' : order'[j] = k
  <2>1. k \in 1..n /\ k + 1 \in 1..n /\ order[i] \in 1..n
        BY <1>1, <1>3
  <2>2. CASE k < order[i]
    <3>1. PICK j \in Admins : order[j] = k
          BY <1>4, <2>1
    <3>2. j # i /\ order'[j] = k
          BY <1>5, <2>1, <2>2, <3>1
    <3>3. QED  BY <1>2, <3>2
  <2>3. CASE ~(k < order[i])
    <3>1. PICK j \in Admins : order[j] = k + 1
          BY <1>4, <2>1
    <3>2. j # i /\ order'[j] = k
          BY <1>5, <2>1, <2>3, <3>1
    <3>3. QED  BY <1>2, <3>2
  <2>4. QED  BY <2>2, <2>3
<1>8. {order'[j] : j \in Admins'} = 1..n - 1
      BY <1>6, <1>7
<1>9. ASSUME NEW j \in Admins', NEW k \in Admins', order'[j] = order'[k] PROVE j = k
  <2>1. order[j] \in 1..n /\ order[k] \in 1..n /\ order[i] \in 1..n
        BY <1>2, <1>3
  <2>2. order[j] = order[k]
        BY <1>1, <1>2, <1>5, <1>9, <2>1
  <2>3. QED  BY <1>2, <2>2 DEF Places
<1>10. QED  BY <1>2, <1>8, <1>9 DEF Places

\* Only the operations on administrators, of all a request does, change what
\* is about them.
LEMMA OthersLeaveAdmins ==
    ASSUME NEW p \in Request, Arrive(p) \/ Proceed(p) \/ CallFails(p), ~HandlerStep(p)
    PROVE  UNCHANGED <<order, replica, overlapped, raced>>
BY DEF Arrive, CallFails, Proceed, AuthorizeUser, AuthorizeAccount, CreateUser, EditUser, RemoveAllUserDependencies,
   DeleteUser, GetUserOfAccount, EnableAccounts, GetAccount, DisableAccount, UseKey, BeginAdmin, EndAdmin, Begin,
   Answer, AdminTables, adminVars

\* The table of the administrators grows by one, loses one, or stays.
LEMMA OrderMoves ==
    ASSUME RowsTyped, [Next]_vars
    PROVE  order' = order \/ (\E i \in Id : i \notin Admins /\ Add(i)) \/ \E i \in Admins : Remove(i)
<1>1. ASSUME NEW p \in Request, HandlerStep(p)
      PROVE  order' = order \/ (\E i \in Id : i \notin Admins /\ Add(i)) \/ \E i \in Admins : Remove(i)
  <2>1. handler[p].id \in Id
        BY <1>1 DEF RowsTyped, HandlerStep, CreateAdmin, CountAdmins, RemoveAllDependencies, GetAdmin, RemoveAdmin
  <2>2. QED  BY <1>1, <2>1 DEF HandlerStep, CreateAdmin, CountAdmins, RemoveAllDependencies, GetAdmin, RemoveAdmin
<1>2. ASSUME NEW r \in Replica, ReplicaStep(r) \/ Stop(r)
      PROVE  order' = order \/ \E i \in Id : i \notin Admins /\ Add(i)
      BY <1>2, OwnTyped DEF ReplicaStep, Boot, ListAtStart, CreateAtStart, Stop
<1>3. QED  BY <1>1, <1>2, OthersLeaveAdmins DEF Next, Server, Dies, Terminated, vars, adminVars

LEMMA PlacesKept == ASSUME RowsTyped, Places, [Next]_vars PROVE Places'
<1>1. CASE order' = order
      BY <1>1 DEF Places, Admins
<1>2. QED  BY <1>1, OrderMoves, AddKeepsPlaces, RemoveKeepsPlaces

-----------------------------------------------------------------------------
(* Replicas and counters *)

Starts ==
    /\ replica \in [Replica -> {"down", "list", "create", "up"}]
    /\ faults \in Nat /\ served \in Nat /\ raced \in BOOLEAN

LEMMA RequestsLeaveReplicas ==
    ASSUME NEW p \in Request, Arrive(p) \/ Proceed(p) \/ CallFails(p) PROVE replica' = replica
<1>1. CASE HandlerStep(p)
      BY <1>1 DEF HandlerStep, CreateAdmin, CountAdmins, RemoveAllDependencies, GetAdmin, RemoveAdmin
<1>2. QED  BY <1>1, OthersLeaveAdmins

\* A race is noticed where a replica has read its list, and nowhere else.
LEMMA RacedAtStart ==
    ASSUME [Next]_vars PROVE raced' = raced \/ \E r \in Replica : ListAtStart(r)
<1>1. ASSUME NEW p \in Request, Arrive(p) \/ Proceed(p) \/ CallFails(p) PROVE raced' = raced
  <2>1. CASE HandlerStep(p)
        BY <2>1 DEF HandlerStep, CreateAdmin, CountAdmins, RemoveAllDependencies, GetAdmin, RemoveAdmin
  <2>2. QED  BY <1>1, <2>1, OthersLeaveAdmins
<1>2. ASSUME NEW r \in Replica, (Server(r) /\ ~ListAtStart(r)) \/ Dies(r) PROVE raced' = raced
      BY <1>2 DEF Server, Dies, ReplicaStep, Boot, CreateAtStart, Stop
<1>3. QED  BY <1>1, <1>2 DEF Next, Terminated, vars, adminVars, Server, ReplicaStep

LEMMA StartsKept == ASSUME Starts, [Next]_vars PROVE Starts'
<1>1. faults' = faults \/ FaultHappens
  <2>1. ASSUME NEW p \in Request, Arrive(p) \/ Proceed(p) \/ CallFails(p) PROVE faults' = faults \/ FaultHappens
    <3>1. CASE HandlerStep(p)
          BY <3>1 DEF HandlerStep, CreateAdmin, CountAdmins, RemoveAllDependencies, GetAdmin, RemoveAdmin, StatementFails,
             NoFault
    <3>2. CASE CreateUser(p) \/ EditUser(p) \/ DeleteUser(p) \/ EnableAccounts(p) \/ DisableAccount(p)
          BY <3>2 DEF CreateUser, EditUser, DeleteUser, EnableAccounts, DisableAccount, Finishes, RefusedWhole, NoFault
    <3>3. QED
          BY <2>1, <3>1, <3>2
          DEF Arrive, CallFails, Proceed, AuthorizeUser, AuthorizeAccount, RemoveAllUserDependencies,
              GetUserOfAccount, GetAccount, UseKey, BeginAdmin, EndAdmin, Begin, Answer, adminVars
  <2>2. ASSUME NEW r \in Replica, Server(r) \/ Dies(r) PROVE faults' = faults \/ FaultHappens
        BY <2>2 DEF Server, Dies, ReplicaStep, Boot, ListAtStart, CreateAtStart, Stop, NoFault
  <2>3. QED  BY <2>1, <2>2 DEF Next, Terminated, vars, adminVars
<1>2. served' = served \/ served' = served + 1
  <2>1. ASSUME NEW p \in Request, Arrive(p) \/ Proceed(p) \/ CallFails(p)
        PROVE  served' = served \/ served' = served + 1
        BY <2>1
        DEF Arrive, CallFails, Proceed, AuthorizeUser, AuthorizeAccount, CreateUser, EditUser, RemoveAllUserDependencies,
            DeleteUser, GetUserOfAccount, EnableAccounts, GetAccount, DisableAccount, UseKey, BeginAdmin, EndAdmin
  <2>2. QED  BY <2>1 DEF Next, Server, Dies, Terminated, vars
<1>3. replica' = replica \/ \E r \in Replica, to \in {"down", "list", "create", "up"} : ReplicaGoes(r, to)
  <2>1. ASSUME NEW r \in Replica, Server(r) \/ Dies(r)
        PROVE  \E to \in {"down", "list", "create", "up"} : ReplicaGoes(r, to)
        BY <2>1 DEF Server, Dies, ReplicaStep, Boot, ListAtStart, CreateAtStart, Stop
  <2>2. QED  BY <2>1, RequestsLeaveReplicas DEF Next, Terminated, vars, adminVars
<1>4. faults' \in Nat /\ served' \in Nat
      BY <1>1, <1>2 DEF Starts, FaultHappens
<1>5. replica' \in [Replica -> {"down", "list", "create", "up"}]
      BY <1>3 DEF Starts, ReplicaGoes
<1>6. raced' \in BOOLEAN
  <2>1. ASSUME NEW r \in Replica, ListAtStart(r) PROVE raced' \in BOOLEAN
        BY <2>1 DEF ListAtStart, Starts
  <2>2. CASE raced' = raced
        BY <2>2 DEF Starts
  <2>3. QED  BY <2>1, <2>2, RacedAtStart
<1>7. QED  BY <1>4, <1>5, <1>6 DEF Starts

-----------------------------------------------------------------------------
(* Who becomes an administrator *)

\* Nobody becomes an administrator in the operation that deletes one.
LEMMA OnlyCreationAdds ==
    ASSUME Inv, NEW p \in Request, HandlerStep(p), ~CreateAdmin(p)
    PROVE  Admins' \subseteq Admins
<1>1. CASE RemoveAdmin(p)
  <2>1. CASE handler[p].id \in Admins /\ Remove(handler[p].id)
        BY <2>1, RemovedOne DEF Inv, AdminInv
  <2>2. CASE order' = order
        BY <2>2 DEF Admins
  <2>3. QED  BY <1>1, <2>1, <2>2 DEF RemoveAdmin
<1>2. CASE CountAdmins(p) \/ RemoveAllDependencies(p) \/ GetAdmin(p)
      BY <1>2 DEF CountAdmins, RemoveAllDependencies, GetAdmin, Admins
<1>3. QED  BY <1>1, <1>2 DEF HandlerStep

\* Who makes someone an administrator.
Made ==
    \A i \in Admins' \ Admins :
        \/ \E r \in Replica : replica[r] = "create" /\ replica'[r] # "create" /\ i \in Own(r)
        \/ \E p \in Request : /\ request[p].pc = "admin" /\ handler[p] = [pc |-> "add", id |-> i]
                              /\ <<"role", "signer-admin">> \in held[p]

LEMMA OperationMakes ==
    ASSUME Inv, NEW p \in Request, HandlerStep(p) PROVE Made
<1>1. CASE CreateAdmin(p)
  <2>1. request[p].pc = "admin" /\ Granted(p)
        BY <1>1 DEF CreateAdmin, Inv, OperationsAsked
  <2>2. Current(p).action \in AdminActions
        BY <2>1 DEF Granted
  <2>3. PICK r \in Roles : <<"role", r>> \in held[p] /\ Current(p).action \in ActionsOf(r)
        BY <2>1 DEF Granted
  <2>4. r = "signer-admin"
        BY <2>2, <2>3 DEF Roles, ApplicationRoles, ActionsOf, AdminActions, ApplicationActions, KeyActions,
           SigningActions
  <2>5. Admins' \subseteq Admins \cup {handler[p].id}
    <3>1. CASE handler[p].id \notin Admins /\ Add(handler[p].id)
          BY <1>1, <3>1, AddedOne DEF CreateAdmin, Inv, AdminInv, RowsTyped
    <3>2. CASE order' = order
          BY <3>2 DEF Admins
    <3>3. QED  BY <1>1, <3>1, <3>2 DEF CreateAdmin
  <2>6. handler[p] = [pc |-> "add", id |-> handler[p].id]
        BY <1>1 DEF CreateAdmin, Inv, AdminInv, RowsTyped, Handler
  <2>7. QED  BY <2>1, <2>3, <2>4, <2>5, <2>6 DEF Made
<1>2. CASE ~CreateAdmin(p)
      BY <1>2, OnlyCreationAdds DEF Made
<1>3. QED  BY <1>1, <1>2

LEMMA ServerMakes ==
    ASSUME Inv, Starts, NEW r \in Replica, Server(r) PROVE Made
<1>1. CASE order' = order
      BY <1>1 DEF Made, Admins
<1>2. ASSUME replica[r] = "create", NEW to \in {"up", "down"}, ReplicaGoes(r, to), NEW i \in Own(r) \ Admins, Add(i)
      PROVE  Made
  <2>1. Admins' = Admins \cup {i}
        BY <1>2, OwnTyped, AddedOne DEF Inv, AdminInv
  <2>2. replica'[r] # "create"
        BY <1>2 DEF Starts, ReplicaGoes
  <2>3. QED  BY <1>2, <2>1, <2>2 DEF Made
<1>3. QED  BY <1>1, <1>2 DEF Server, ReplicaStep, Boot, ListAtStart, CreateAtStart

\* The table of the administrators is left alone by the other steps.
LEMMA MadeBySomeone == ASSUME Inv, Starts, [Next]_vars PROVE Made
<1>1. ASSUME NEW p \in Request, HandlerStep(p) PROVE Made
      BY <1>1, OperationMakes
<1>2. ASSUME NEW r \in Replica, Server(r) PROVE Made
      BY <1>2, ServerMakes
<1>3. CASE order' = order
      BY <1>3 DEF Made, Admins
<1>4. ASSUME NEW r \in Replica, Dies(r) PROVE order' = order
      BY <1>4 DEF Dies, Stop
<1>5. QED  BY <1>1, <1>2, <1>3, <1>4, OthersLeaveAdmins DEF Next, Terminated, vars, adminVars

\* An empty list is that of an empty table.
LEMMA ListedAny == ASSUME RowsTyped, Places, Listed = {} PROVE Admins = {}
<1>1. SUFFICES ASSUME Admins # {} PROVE FALSE
      OBVIOUS
<1> DEFINE n == Cardinality(Admins)
<1>2. n \in Nat /\ n # 0
      BY <1>1, FS_CardinalityType, FS_EmptySet DEF RowsTyped
<1>3. n \in {order[i] : i \in Admins}
      BY <1>2 DEF Places
<1>4. PICK i \in Admins : order[i] = n
      BY <1>3
<1>5. n + PageLimit > n
      BY <1>2, PageAssumption
<1>6. i \in Listed
      BY <1>4, <1>5 DEF Listed
<1>7. QED  BY <1>6

\* Of replicas that are about to create an administrator, there is one, and
\* none before it, unless two raced or deletions overlapped; and who has been
\* an administrator has not left the table empty.
Appointing ==
    /\ ~raced => \A q, r \in Replica : replica[q] = "create" /\ replica[r] = "create" => q = r
    /\ ~raced /\ ~overlapped => \A r \in Replica : replica[r] = "create" => Admins = {}
    /\ ~overlapped => \A p \in Request : <<"role", "signer-admin">> \in held[p] => Admins # {}

LEMMA InitStarts == ASSUME Init PROVE Starts /\ Places /\ Appointing
<1>1. Admins = {} /\ Cardinality(Admins) = 0
      BY FS_EmptySet DEF Init, AdminInit, Admins
<1>2. {order[i] : i \in Admins} = 1..Cardinality(Admins)
      BY <1>1
<1>3. Places
      BY <1>1, <1>2 DEF Places
<1>4. Starts /\ Appointing
      BY DEF Init, AdminInit, Starts, Appointing
<1>5. QED  BY <1>3, <1>4

\* How a replica comes to create one.
LEMMA ComesToCreate ==
    ASSUME Inv, Starts, Places, [Next]_vars, NEW r \in Replica, replica'[r] = "create", replica[r] # "create"
    PROVE  /\ Admins = {} /\ order' = order
           /\ \A q \in Replica \ {r} : replica'[q] = replica[q]
           /\ ~raced' => \A q \in Replica \ {r} : replica[q] # "create"
<1>1. PICK s \in Replica : ReplicaStep(s) \/ Stop(s)
      BY RequestsLeaveReplicas DEF Next, Server, Dies, Terminated, vars, adminVars
<1>2. \E to : ReplicaGoes(s, to)
      BY <1>1 DEF ReplicaStep, Boot, ListAtStart, CreateAtStart, Stop
<1>3. s = r /\ \A q \in Replica \ {r} : replica'[q] = replica[q]
      BY <1>2 DEF Starts, ReplicaGoes
<1>4. \/ ReplicaGoes(r, "list") \/ ReplicaGoes(r, "up") \/ ReplicaGoes(r, "down")
      \/ Listed = {} /\ order' = order /\ raced' = (raced \/ Creating(r))
      BY <1>1, <1>3 DEF ReplicaStep, Boot, ListAtStart, CreateAtStart, Stop
<1>5. Listed = {} /\ order' = order /\ raced' = (raced \/ Creating(r))
      BY <1>4 DEF Starts, ReplicaGoes
<1>6. QED  BY <1>3, <1>5, ListedAny DEF Inv, AdminInv, Creating

\* What happened once is remembered.
LEMMA HistoryStays == ASSUME Inv, Starts, [Next]_vars PROVE (overlapped => overlapped') /\ (raced => raced')
<1>1. raced => raced'
      BY RacedAtStart DEF ListAtStart
<1>2. ASSUME NEW p \in Request, Arrive(p) \/ Proceed(p) \/ CallFails(p) PROVE overlapped => overlapped'
  <2>1. CASE HandlerStep(p)
        BY <2>1 DEF HandlerStep, CreateAdmin, CountAdmins, RemoveAllDependencies, GetAdmin, RemoveAdmin
  <2>2. QED  BY <1>2, <2>1, OthersLeaveAdmins
<1>3. ASSUME NEW r \in Replica, Server(r) \/ Dies(r) PROVE overlapped' = overlapped
      BY <1>3 DEF Server, Dies, ReplicaStep, Boot, ListAtStart, CreateAtStart, Stop
<1>4. QED  BY <1>1, <1>2, <1>3 DEF Next, Terminated, vars, adminVars

\* Who holds the role of an administrator is one of the table.
LEMMA HoldersInTable ==
    ASSUME RolesGiven', NEW p \in Request, <<"role", "signer-admin">> \in Held(p)' PROVE Admins' # {}
<1>1. "signer-admin" \notin ApplicationRoles
      BY DEF ApplicationRoles
<1>2. \A r : <<"role", r>> = <<"role", "signer-admin">> => r = "signer-admin"
      OBVIOUS
<1>3. \A a : <<"account", a>> # <<"role", "signer-admin">>
      OBVIOUS
<1>4. "signer-admin" \notin UNION {u[3] : u \in {v \in users' : v[1] = request'[p].header /\ v[2] = request'[p].by}}
      BY <1>1 DEF RolesGiven
<1>5. QED  BY <1>2, <1>3, <1>4 DEF Held, Grants

LEMMA AppointingKept ==
    ASSUME Inv, Starts, Places, Appointing, [Next]_vars PROVE Appointing'
<1>1. Inv' /\ (Admins # {} /\ Admins' = {} => overlapped)
      BY NextHolds
<1>2. (overlapped => overlapped') /\ (raced => raced')
      BY HistoryStays
<1>3. ASSUME ~raced', NEW q \in Replica, NEW r \in Replica, replica'[q] = "create", replica'[r] = "create"
      PROVE  q = r
  <2>1. CASE replica[q] = "create" /\ replica[r] = "create"
        BY <1>2, <1>3, <2>1 DEF Appointing
  <2>2. CASE replica[q] # "create"
        BY <1>3, <2>2, ComesToCreate
  <2>3. CASE replica[r] # "create"
        BY <1>3, <2>3, ComesToCreate
  <2>4. QED  BY <2>1, <2>2, <2>3
<1>4. ASSUME ~raced', ~overlapped', NEW r \in Replica, replica'[r] = "create" PROVE Admins' = {}
  <2>1. CASE replica[r] # "create"
        BY <1>4, <2>1, ComesToCreate DEF Admins
  <2>2. CASE replica[r] = "create"
    <3>1. /\ Admins = {}
          /\ \A q \in Replica : replica[q] = "create" => replica'[q] = "create"
          /\ \A p \in Request : <<"role", "signer-admin">> \notin held[p]
          BY <1>2, <1>4, <2>2 DEF Appointing
    <3>2. QED  BY <3>1, MadeBySomeone DEF Made
  <2>3. QED  BY <2>1, <2>2
<1>5. ASSUME ~overlapped', NEW p \in Request, <<"role", "signer-admin">> \in held'[p] PROVE Admins' # {}
  <2>1. <<"role", "signer-admin">> \in held[p] \/ <<"role", "signer-admin">> \in Held(p)'
        BY <1>5 DEF Next, Remember, vars
  <2>2. CASE <<"role", "signer-admin">> \in held[p]
        BY <1>1, <1>2, <1>5, <2>2 DEF Appointing
  <2>3. CASE <<"role", "signer-admin">> \in Held(p)'
        BY <1>1, <2>3, HoldersInTable DEF Inv
  <2>4. QED  BY <2>1, <2>2, <2>3
<1>6. QED  BY <1>3, <1>4, <1>5 DEF Appointing

(* Nobody becomes an administrator but by the request of one, or, while there *)
(* is none, by the start of a replica, for every number of replicas that race *)
(* or do not (CreateAdmin, admin_usecase.go, and graph.go:110).               *)
THEOREM AdministratorsFromAdministrators == Spec => AdministratorsComeFromOne
<1> DEFINE Comes == \A i \in Id : order[i] = 0 /\ order'[i] # 0 =>
                      \/ \E r \in Replica : replica[r] = "create" /\ i \in Own(r) /\ (Admins = {} \/ raced \/ overlapped)
                      \/ \E p \in Request : /\ request[p].pc = "admin" /\ handler[p] = [pc |-> "add", id |-> i]
                                            /\ <<"role", "signer-admin">> \in held[p]
           Known == Starts /\ Places /\ Appointing
<1>1. Init => Known
      BY InitStarts
<1>2. Inv /\ Known /\ [Next]_vars => Known'
      BY StartsKept, PlacesKept, AppointingKept DEF Inv, AdminInv
<1>3. Inv /\ Known /\ [Next]_vars => Comes
      BY MadeBySomeone DEF Made, Admins, Appointing
<1>4. Inv /\ Known /\ [Next]_vars => [Comes]_vars
      BY <1>3
<1>5. QED  BY <1>1, <1>2, <1>4, Invariance, PTL DEF Spec, AdministratorsComeFromOne

-----------------------------------------------------------------------------
(* Type correctness *)

LEMMA AnswersBounded ==
    ASSUME RequestsTyped, Batches, NEW p \in Request PROVE Len(request[p].answers) <= MaxBatch
<1>1. request[p] \in RequestRecord /\ SoFar(p)
      BY DEF RequestsTyped, Batches
<1>2. Len(request[p].answers) \in Nat /\ Len(request[p].calls) \in Nat /\ MaxBatch \in Nat \ {0}
      BY <1>1, BatchAssumption DEF RequestRecord
<1>3. CASE Len(request[p].calls) \in 1..MaxBatch
      BY <1>1, <1>2, <1>3 DEF SoFar, RequestsTyped, Asked
<1>4. CASE request[p].answers = <<"bad request">>
  <2>1. Len(<<"bad request">>) = 1
        OBVIOUS
  <2>2. Len(request[p].answers) = 1
        BY <1>4, <2>1, Zenon
  <2>3. QED  BY <1>2, <2>2
<1>5. CASE request[p] = Idle \/ request[p].answers = <<>>
  <2>1. request[p].answers = <<>>
        BY <1>5 DEF Idle
  <2>2. Len(request[p].answers) = 0
        BY <2>1
  <2>3. QED  BY <1>2, <2>2
<1>6. QED  BY <1>1, <1>3, <1>4, <1>5 DEF SoFar

(* The tables hold what their columns are for, with a row for each user; the  *)
(* administrators have the places from the first to the last; no request has  *)
(* more answers than a batch may have calls.                                  *)
THEOREM TypeCorrect == Spec => []TypeOK
<1> DEFINE Typed == TablesTyped /\ Places /\ Starts
<1>1. Init => Typed
  <2>1. SUFFICES ASSUME Init PROVE Typed
        OBVIOUS
  <2>2. TablesTyped
        BY <2>1, InitialAssumption DEF Init, TablesTyped
  <2>3. QED  BY <2>1, <2>2, InitStarts
<1>2. Inv /\ Typed /\ [Next]_vars => Typed'
      BY TablesKept, PlacesKept, StartsKept DEF Inv, AdminInv
<1>3. Inv /\ Batches /\ Typed => TypeOK
  <2>1. SUFFICES ASSUME Inv, Batches, Typed PROVE TypeOK
        OBVIOUS
  <2>2. AdminTypeOK
        BY <2>1 DEF AdminTypeOK, Inv, AdminInv, RowsTyped, Places, Starts
  <2>3. \A p \in Request : Len(request[p].answers) <= MaxBatch
        BY <2>1, AnswersBounded DEF Inv
  <2>4. QED  BY <2>1, <2>2, <2>3 DEF TypeOK, TablesTyped, Starts
<1>4. QED  BY <1>1, <1>2, <1>3, Invariance, BatchesThroughout, PTL DEF Spec
=============================================================================
