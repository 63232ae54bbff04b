-------------------------- MODULE SoftHSMKeysProofs --------------------------
(***************************************************************************)
(* SoftHSMKeys for every set of requests, users and addresses and every    *)
(* bound: one handler at a time is in the token, nothing finalizes the     *)
(* library under it, and a key that was removed never signs again.         *)
(***************************************************************************)
EXTENDS SoftHSMKeys, TLAPS

\* Where a handler holds the mutex, and where it may be logged in.
LoggedIn == {"work", "labelPublic", "labelPrivate", "destroyPublic", "unlock"}
Critical == {"login"} \cup LoggedIn

Holder ==
    /\ \A p \in Request : op[p].pc \in Critical <=> mutex = p
    /\ \A p \in session : op[p].pc \in LoggedIn
    /\ session # {} => library = "open"

\* The key a handler works on, and the keys removed.
Keys ==
    /\ \A p \in Request : op[p].address # NoAddress => op[p].address \in generated
    /\ \A p \in Request : op[p].pc \in {"labelPublic", "labelPrivate"} =>
          op[p].address \in generated \ removed
    /\ \A p \in Request : op[p].kind \in {"remove", "enable"} => op[p].address # NoAddress
    /\ \A p \in Request : op[p].kind = "enable" => op[p].user \in User
    /\ \A p \in Request : op[p].pc = "createAccount" => op[p].kind = "enable"
    /\ \A p \in Request : op[p].pc = "destroyPublic" =>
          op[p].kind = "remove" /\ private[op[p].address] # "labelled"
    /\ removed \subseteq generated
    /\ \A a \in removed : private[a] # "labelled"

\* The steps at which the two objects of a key differ.
Halfway == {"labelPrivate", "destroyPublic"}

\* Without a failed call the two objects of a key are in the same state, except
\* while the handler in the token is between them.
Halves ==
    faults = 0 =>
        /\ \A a \in Address :
              \/ public[a] = private[a]
              \/ \E p \in Request : op[p].pc \in Halfway /\ op[p].address = a
        /\ \A p \in Request : op[p].pc = "labelPrivate" => public[op[p].address] = "labelled"
        /\ \A p \in Request : op[p].pc = "destroyPublic" =>
              public[op[p].address] = "labelled" /\ private[op[p].address] = "absent"

IInv == TypeOK /\ Holder /\ ClosedOnlyDuringReset /\ Keys

-----------------------------------------------------------------------------
LEMMA InitIInv == Init => IInv
<1>. SUFFICES ASSUME Init PROVE IInv
  OBVIOUS
<1>1. TypeOK
  BY AddressAssumption, BoundAssumption
  DEF Init, TypeOK, ObjectStates, Quiet, Op, PCs
<1>2. Holder
  BY NobodyAssumption DEF Init, Holder, Quiet, Critical, LoggedIn
<1>3. ClosedOnlyDuringReset
  BY DEF Init, ClosedOnlyDuringReset
<1>4. Keys
  BY DEF Init, Keys, Quiet
<1>. QED BY <1>1, <1>2, <1>3, <1>4 DEF IInv

\* The assignment of Become, read back.
LEMMA Becomes ==
    ASSUME TypeOK, NEW p \in Request, NEW m \in Op, Become(p, m)
    PROVE  /\ op' \in [Request -> Op] /\ op'[p] = m
           /\ \A q \in Request \ {p} : op'[q] = op[q]
BY DEF TypeOK, Become

LEMMA Goes ==
    ASSUME TypeOK, NEW p \in Request, NEW pc \in PCs, Goto(p, pc)
    PROVE  /\ op' \in [Request -> Op]
           /\ op'[p].pc = pc /\ op'[p].kind = op[p].kind /\ op'[p].user = op[p].user
           /\ op'[p].address = op[p].address /\ op'[p].result = op[p].result
           /\ \A q \in Request \ {p} : op'[q] = op[q]
<1>. DEFINE m == [op[p] EXCEPT !.pc = pc]
<1>1. m \in Op /\ Become(p, m)
  BY DEF TypeOK, Op, Goto
<1>2. /\ m.pc = pc /\ m.kind = op[p].kind /\ m.user = op[p].user
      /\ m.address = op[p].address /\ m.result = op[p].result
  BY DEF TypeOK, Op
<1>. HIDE DEF m
<1>. QED BY <1>1, <1>2, Becomes

LEMMA Failing ==
    ASSUME TypeOK, NEW p \in Request, Fails(p)
    PROVE  /\ op' \in [Request -> Op]
           /\ op'[p].pc = "unlock" /\ op'[p].kind = op[p].kind /\ op'[p].user = op[p].user
           /\ op'[p].address = op[p].address /\ op'[p].result = "error"
           /\ \A q \in Request \ {p} : op'[q] = op[q]
<1>. DEFINE m == [op[p] EXCEPT !.pc = "unlock", !.result = "error"]
<1>0. op[p] \in Op
  BY DEF TypeOK
<1>1. m \in Op /\ Become(p, m)
  BY <1>0 DEF Op, Fails, PCs
<1>2. /\ m.pc = "unlock" /\ m.kind = op[p].kind /\ m.user = op[p].user
      /\ m.address = op[p].address /\ m.result = "error"
  BY DEF TypeOK, Op
<1>. HIDE DEF m
<1>. QED BY <1>1, <1>2, Becomes

\* What a step of p leaves alone in the other handlers.
Alone(p) == \A q \in Request \ {p} : op'[q] = op[q]

\* While the mutex is free nobody is in the token.
LEMMA FreeMeansEmpty ==
    ASSUME IInv, MutexFree
    PROVE  session = {} /\ \A p \in Request : op[p].pc \notin Critical
BY NobodyAssumption DEF IInv, TypeOK, Holder, MutexFree, Critical

\* One handler at a time holds the mutex.
LEMMA OneHolder ==
    ASSUME IInv, NEW p \in Request, op[p].pc \in Critical
    PROVE  mutex = p /\ \A q \in Request \ {p} : op[q].pc \notin Critical
BY DEF IInv, Holder

\* A step that leaves the token, the library, the mutex and the sessions alone, taken
\* without the mutex.
LEMMA Outside ==
    ASSUME IInv, NEW p \in Request, op' \in [Request -> Op], Alone(p),
           op[p].pc \notin Critical, op'[p].pc \notin Critical,
           op'[p].address # NoAddress => op'[p].address \in generated,
           op'[p].kind \in {"remove", "enable"} => op'[p].address # NoAddress,
           op'[p].kind = "enable" => op'[p].user \in User,
           op'[p].pc # "createAccount",
           UNCHANGED <<token, library, mutex, session>>,
           accounts' \subseteq User \X Address, served' \in 0..MaxRequests,
           faults' \in 0..MaxFaults, faults' >= faults,
           op[p].pc = "reopen" => faults' > 0
    PROVE  IInv'
<1>1. TypeOK'
  BY DEF IInv, TypeOK, token
<1>2. Holder'
  BY DEF IInv, TypeOK, Holder, Alone, Critical
<1>3. ClosedOnlyDuringReset'
  <2>1. faults \in Nat /\ faults' \in Nat
    BY BoundAssumption DEF IInv, TypeOK
  <2>. QED BY <2>1 DEF IInv, ClosedOnlyDuringReset, Alone
<1>4. Keys'
  BY DEF IInv, Keys, Alone, token, Critical, LoggedIn
<1>. QED BY <1>1, <1>2, <1>3, <1>4 DEF IInv

\* A step in the token, which leaves the library, the mutex and the sessions alone:
\* Keys is for the step to show.
LEMMA Inside ==
    ASSUME IInv, NEW p \in Request, op' \in [Request -> Op], Alone(p),
           op[p].pc \in Critical, op'[p].pc \in LoggedIn,
           UNCHANGED <<library, mutex, session, accounts, served>>,
           private' \in [Address -> ObjectStates], public' \in [Address -> ObjectStates],
           generated' \subseteq Address, removed' \subseteq Address,
           faults' \in 0..MaxFaults, faults' >= faults
    PROVE  TypeOK' /\ Holder' /\ ClosedOnlyDuringReset'
<1>1. TypeOK'
  BY DEF IInv, TypeOK
<1>2. Holder'
  BY DEF IInv, TypeOK, Holder, Alone, Critical
<1>3. ClosedOnlyDuringReset'
  <2>1. faults \in Nat /\ faults' \in Nat /\ op[p].pc # "reopen"
    BY BoundAssumption DEF IInv, TypeOK, Critical, LoggedIn
  <2>. QED BY <2>1 DEF IInv, ClosedOnlyDuringReset, Alone
<1>. QED BY <1>1, <1>2, <1>3

\* A step in the token that leaves its objects alone.
LEMMA InsideLooking ==
    ASSUME IInv, NEW p \in Request, op' \in [Request -> Op], Alone(p),
           op[p].pc \in Critical, op'[p].pc \in {"work", "unlock"},
           op'[p].address = op[p].address, op'[p].kind = op[p].kind, op'[p].user = op[p].user,
           UNCHANGED <<token, library, mutex, session, accounts, served>>,
           faults' \in 0..MaxFaults, faults' >= faults
    PROVE  IInv'
<1>1. TypeOK' /\ Holder' /\ ClosedOnlyDuringReset'
  BY Inside DEF IInv, TypeOK, token, LoggedIn
<1>2. Keys'
  BY DEF IInv, Keys, Alone, token
<1>. QED BY <1>1, <1>2 DEF IInv

-----------------------------------------------------------------------------
\* Every step keeps the invariant.
LEMMA NextIInv == IInv /\ [Next]_vars => IInv'
<1>. SUFFICES ASSUME IInv, [Next]_vars PROVE IInv'
  OBVIOUS
<1>0. /\ TypeOK
      /\ \A p \in Request : op[p] \in Op
      /\ faults \in 0..MaxFaults /\ faults \in Nat
      /\ NoFault \/ FaultHappens => faults' \in 0..MaxFaults /\ faults' >= faults
      /\ FaultHappens => faults' > 0
  BY BoundAssumption DEF IInv, TypeOK, NoFault, FaultHappens
<1>1. CASE UNCHANGED vars
  BY <1>1 DEF vars, token, IInv, TypeOK, Holder, ClosedOnlyDuringReset, Keys
<1>2. ASSUME NEW p \in Request, Call(p)
      PROVE  IInv'
  <2>1. ASSUME NEW m \in Op, Begin(p, m), m.pc \notin Critical,
               m.address # NoAddress => m.address \in generated,
               m.kind \in {"remove", "enable"} => m.address # NoAddress,
               m.kind = "enable" => m.user \in User, m.pc # "createAccount"
        PROVE  IInv'
    <3>1. op' \in [Request -> Op] /\ op'[p] = m /\ Alone(p)
      BY <1>0, <2>1, Becomes DEF Begin, Alone
    <3>2. /\ op[p].pc = "idle" /\ served' \in 0..MaxRequests /\ faults' = faults
          /\ UNCHANGED <<token, library, mutex, session>> /\ accounts' \subseteq User \X Address
      BY <2>1, BoundAssumption DEF Begin, IInv, TypeOK
    <3>. QED BY <1>0, <2>1, <3>1, <3>2, Outside DEF Critical, LoggedIn
  <2>2. NoAddress \notin generated
    BY AddressAssumption DEF IInv, TypeOK
  <2>3. CASE GenerateAccount(p) \/ CreateHSMSlot(p)
    <3>1. ASSUME NEW pc \in {"create", "close"}, NEW kind \in {"generate", "createSlot"},
                 Begin(p, [Quiet EXCEPT !.pc = pc, !.kind = kind])
          PROVE  IInv'
      <4>. DEFINE m == [Quiet EXCEPT !.pc = pc, !.kind = kind]
      <4>1. m \in Op /\ m.pc = pc /\ m.kind = kind /\ m.address = NoAddress
        BY DEF Quiet, Op, PCs, Kinds
      <4>2. Begin(p, m)
        BY <3>1
      <4>. HIDE DEF m
      <4>. QED BY <2>1, <4>1, <4>2 DEF Critical, LoggedIn
    <3>. QED BY <2>3, <3>1 DEF GenerateAccount, CreateHSMSlot
  <2>4. CASE RemoveAccount(p)
    <3>1. PICK a \in generated :
                 Begin(p, [Quiet EXCEPT !.pc = "create", !.kind = "remove", !.address = a])
      BY <2>4 DEF RemoveAccount
    <3>. DEFINE m == [Quiet EXCEPT !.pc = "create", !.kind = "remove", !.address = a]
    <3>2. m \in Op /\ m.pc = "create" /\ m.kind = "remove" /\ m.address = a
      BY DEF Quiet, Op, PCs, Kinds, IInv, TypeOK
    <3>3. Begin(p, m)
      BY <3>1
    <3>. HIDE DEF m
    <3>. QED BY <2>1, <2>2, <3>2, <3>3 DEF Critical, LoggedIn
  <2>5. CASE EnableAccounts(p) \/ DisableAccount(p) \/ SignTransaction(p)
    <3>1. PICK u \in User, a \in generated, pc \in {"create", "deleteAccount", "authorize"},
                kind \in {"enable", "disable", "sign"} :
                 Begin(p, [Quiet EXCEPT !.pc = pc, !.kind = kind, !.user = u, !.address = a])
      BY <2>5 DEF EnableAccounts, DisableAccount, SignTransaction
    <3>. DEFINE m == [Quiet EXCEPT !.pc = pc, !.kind = kind, !.user = u, !.address = a]
    <3>2. m \in Op /\ m.pc = pc /\ m.kind = kind /\ m.address = a /\ m.user = u
      BY DEF Quiet, Op, PCs, Kinds, IInv, TypeOK
    <3>3. Begin(p, m)
      BY <3>1
    <3>. HIDE DEF m
    <3>. QED BY <2>1, <2>2, <3>2, <3>3 DEF Critical, LoggedIn
  <2>. QED BY <1>2, <2>3, <2>4, <2>5 DEF Call
\* Steps without the mutex that read or write the account table, and those that fail.
<1>3. ASSUME NEW p \in Request, NEW pc \in PCs \ Critical, pc # "createAccount", Goto(p, pc),
             op[p].pc \notin Critical, op[p].pc = "reopen" => faults' > 0,
             UNCHANGED <<token, library, mutex, session, served>>,
             accounts' \subseteq User \X Address, NoFault \/ FaultHappens
      PROVE  IInv'
  <2>1. /\ op' \in [Request -> Op] /\ Alone(p)
        /\ op'[p].pc = pc /\ op'[p].address = op[p].address /\ op'[p].kind = op[p].kind
        /\ op'[p].user = op[p].user
    BY <1>0, <1>3, Goes DEF Alone
  <2>2. served' \in 0..MaxRequests
    BY <1>3 DEF IInv, TypeOK
  <2>. QED BY <1>0, <1>3, <2>1, <2>2, Outside DEF IInv, Keys
<1>4. ASSUME NEW p \in Request, AuthorizeAccount(p)
      PROVE  IInv'
  <2>1. \E pc \in {"create", "error"} : Goto(p, pc)
    BY <1>4 DEF AuthorizeAccount
  <2>. QED BY <1>3, <1>4, <2>1 DEF AuthorizeAccount, PCs, Critical, LoggedIn, IInv, TypeOK, NoFault
<1>5. ASSUME NEW p \in Request, RemoveAllForAddress(p)
      PROVE  IInv'
  <2>1. accounts' \subseteq User \X Address
    BY <1>5 DEF RemoveAllForAddress, IInv, TypeOK
  <2>. QED BY <1>3, <1>5, <2>1 DEF RemoveAllForAddress, PCs, Critical, LoggedIn, NoFault
<1>6. ASSUME NEW p \in Request, CreateAccount(p)
      PROVE  IInv'
  <2>1. op[p].kind = "enable" /\ op[p].user \in User /\ op[p].address \in Address
    BY <1>0, <1>6 DEF CreateAccount, IInv, Keys, Op
  <2>2. accounts' \subseteq User \X Address
    BY <1>6, <2>1 DEF CreateAccount, IInv, TypeOK
  <2>. QED BY <1>3, <1>6, <2>2 DEF CreateAccount, PCs, Critical, LoggedIn, NoFault
<1>7. ASSUME NEW p \in Request, DeleteAccount(p)
      PROVE  IInv'
  <2>1. accounts' \subseteq User \X Address
    BY <1>7 DEF DeleteAccount, IInv, TypeOK
  <2>2. \E pc \in {"ok", "error"} : Goto(p, pc)
    BY <1>7 DEF DeleteAccount
  <2>. QED BY <1>3, <1>7, <2>1, <2>2 DEF DeleteAccount, PCs, Critical, LoggedIn, NoFault
<1>8. ASSUME NEW p \in Request, Leave(p)
      PROVE  IInv'
  <2>1. Quiet \in Op /\ Quiet.pc = "idle" /\ Quiet.address = NoAddress /\ Quiet.kind = "none"
    BY DEF Quiet, Op, PCs
  <2>2. op' \in [Request -> Op] /\ Alone(p) /\ op'[p] = Quiet
    BY <1>0, <1>8, <2>1, Becomes DEF Leave, Alone
  <2>3. /\ op[p].pc \in {"ok", "error"}
        /\ UNCHANGED <<token, library, mutex, session, accounts, served, faults>>
    BY <1>8 DEF Leave
  <2>. HIDE DEF Quiet
  <2>. QED BY <1>0, <2>1, <2>2, <2>3, Outside DEF Critical, LoggedIn, IInv, TypeOK
\* The reset, and the opening of the library before each operation.
<1>9. ASSUME NEW p \in Request, Close(p) \/ Reopen(p) \/ Create(p)
      PROVE  IInv'
  <2>1. /\ MutexFree /\ op[p].pc \in {"close", "reopen", "create"}
        /\ UNCHANGED <<token, mutex, session, accounts, served, faults>>
    BY <1>9 DEF Close, Reopen, Create
  <2>2. \E pc \in {"reopen", "error", "create", "lock"} :
            /\ Goto(p, pc)
            /\ library' \in {"open", "closed"}
            /\ library' = "closed" => pc = "reopen" \/ (library = "closed" /\ op[p].pc = "close")
    BY <1>9 DEF Close, Reopen, Create, IInv, TypeOK
  <2>3. PICK pc \in {"reopen", "error", "create", "lock"} :
            /\ op' \in [Request -> Op] /\ Alone(p) /\ op'[p].pc = pc
            /\ op'[p].address = op[p].address /\ op'[p].kind = op[p].kind
            /\ op'[p].user = op[p].user
            /\ library' \in {"open", "closed"}
            /\ library' = "closed" => pc = "reopen" \/ (library = "closed" /\ op[p].pc = "close")
    BY <1>0, <2>2, Goes DEF PCs, Alone
  <2>4. TypeOK'
    BY <2>1, <2>3 DEF IInv, TypeOK, token
  <2>5. Holder'
    BY <2>1, <2>3, FreeMeansEmpty DEF IInv, Holder, Alone, Critical, LoggedIn
  <2>6. ClosedOnlyDuringReset'
    BY <2>1, <2>3 DEF IInv, ClosedOnlyDuringReset, Alone
  <2>7. Keys'
    BY <2>1, <2>3 DEF IInv, Keys, Alone, token
  <2>. QED BY <2>4, <2>5, <2>6, <2>7 DEF IInv
<1>10. ASSUME NEW p \in Request, Lock(p)
      PROVE  IInv'
  <2>1. /\ MutexFree /\ op[p].pc = "lock" /\ mutex' = p
        /\ UNCHANGED <<token, library, session, accounts, served, faults>>
    BY <1>10 DEF Lock
  <2>2. /\ op' \in [Request -> Op] /\ Alone(p) /\ op'[p].pc = "login"
        /\ op'[p].address = op[p].address /\ op'[p].kind = op[p].kind
        /\ op'[p].user = op[p].user
    BY <1>0, <1>10, Goes DEF Lock, PCs, Alone
  <2>3. TypeOK'
    BY <2>1, <2>2 DEF IInv, TypeOK, token
  <2>4. Holder'
    BY <2>1, <2>2, FreeMeansEmpty DEF IInv, Holder, Alone, Critical, LoggedIn
  <2>5. ClosedOnlyDuringReset'
    BY <2>1, <2>2 DEF IInv, ClosedOnlyDuringReset, Alone
  <2>6. Keys'
    BY <2>1, <2>2 DEF IInv, Keys, Alone, token
  <2>. QED BY <2>3, <2>4, <2>5, <2>6 DEF IInv
<1>11. ASSUME NEW p \in Request, Login(p)
      PROVE  IInv'
  <2>1. /\ op[p].pc = "login"
        /\ UNCHANGED <<token, library, mutex, accounts, served, faults>>
    BY <1>11 DEF Login
  <2>2. CASE Fails(p) /\ UNCHANGED session
    <3>1. /\ op' \in [Request -> Op] /\ Alone(p) /\ op'[p].pc = "unlock"
          /\ op'[p].address = op[p].address /\ op'[p].kind = op[p].kind
          /\ op'[p].user = op[p].user
      BY <1>0, <2>2, Failing DEF Alone
    <3>. QED BY <1>0, <2>1, <2>2, <3>1, InsideLooking DEF Critical
  <2>3. CASE library = "open" /\ session' = {p} /\ Goto(p, "work")
    <3>1. /\ op' \in [Request -> Op] /\ Alone(p) /\ op'[p].pc = "work"
          /\ op'[p].address = op[p].address /\ op'[p].kind = op[p].kind
          /\ op'[p].user = op[p].user
      BY <1>0, <2>3, Goes DEF PCs, Alone
    <3>2. TypeOK'
      BY <2>1, <2>3, <3>1 DEF IInv, TypeOK, token
    <3>3. Holder'
      BY <2>1, <2>3, <3>1 DEF IInv, Holder, Alone, Critical, LoggedIn
    <3>4. ClosedOnlyDuringReset'
      BY <2>1, <2>3 DEF IInv, ClosedOnlyDuringReset
    <3>5. Keys'
      BY <2>1, <3>1 DEF IInv, Keys, Alone, token
    <3>. QED BY <3>2, <3>3, <3>4, <3>5 DEF IInv
  <2>. QED BY <1>11, <2>2, <2>3 DEF Login
\* The work in the token.
<1>12. ASSUME NEW p \in Request, ListKeys(p) \/ Sign(p) \/ IsAlive(p)
      PROVE  IInv'
  <2>1. /\ op[p].pc = "work"
        /\ UNCHANGED <<token, library, mutex, session, accounts, served, faults>>
    BY <1>12 DEF ListKeys, Sign, IsAlive
  <2>2. Goto(p, "unlock") \/ Fails(p)
    BY <1>12 DEF ListKeys, Sign, IsAlive
  <2>3. /\ op' \in [Request -> Op] /\ Alone(p) /\ op'[p].pc = "unlock"
        /\ op'[p].address = op[p].address /\ op'[p].kind = op[p].kind
        /\ op'[p].user = op[p].user
    BY <1>0, <2>2, Goes, Failing DEF Alone, PCs
  <2>. QED BY <1>0, <2>1, <2>3, InsideLooking DEF Critical, LoggedIn
<1>13. ASSUME NEW p \in Request, GenerateKeyPair(p)
      PROVE  IInv'
  <2>1. /\ op[p].pc = "work" /\ op[p].kind = "generate"
        /\ UNCHANGED <<library, mutex, session, accounts, removed, served, faults>>
    BY <1>13 DEF GenerateKeyPair
  <2>2. CASE Fails(p) /\ UNCHANGED <<private, public, generated>>
    <3>1. /\ op' \in [Request -> Op] /\ Alone(p) /\ op'[p].pc = "unlock"
          /\ op'[p].address = op[p].address /\ op'[p].kind = op[p].kind
          /\ op'[p].user = op[p].user
      BY <1>0, <2>2, Failing DEF Alone
    <3>. QED BY <1>0, <2>1, <2>2, <3>1, InsideLooking DEF Critical, LoggedIn, token
  <2>3. ASSUME NEW a \in Address \ generated,
               private' = [private EXCEPT ![a] = "unlabelled"],
               public' = [public EXCEPT ![a] = "unlabelled"],
               generated' = generated \cup {a},
               Become(p, [op[p] EXCEPT !.pc = "labelPublic", !.address = a])
        PROVE  IInv'
    <3>. DEFINE m == [op[p] EXCEPT !.pc = "labelPublic", !.address = a]
    <3>1. m \in Op /\ m.pc = "labelPublic" /\ m.address = a /\ m.kind = "generate"
      BY <1>0, <2>1 DEF Op, PCs
    <3>2. Become(p, m)
      BY <2>3
    <3>. HIDE DEF m
    <3>3. op' \in [Request -> Op] /\ Alone(p) /\ op'[p] = m
      BY <1>0, <3>1, <3>2, Becomes DEF Alone
    <3>4. /\ private' \in [Address -> ObjectStates] /\ public' \in [Address -> ObjectStates]
          /\ generated' \subseteq Address /\ removed' \subseteq Address
      BY <2>1, <2>3 DEF IInv, TypeOK, ObjectStates
    <3>5. TypeOK' /\ Holder' /\ ClosedOnlyDuringReset'
      BY <1>0, <2>1, <3>1, <3>3, <3>4, Inside DEF Critical, LoggedIn
    <3>6. Keys'
      <4>1. \A q \in Request \ {p} : op'[q] = op[q] /\ op[q].pc \notin Critical
        BY <2>1, <3>3, OneHolder DEF Alone, Critical, LoggedIn
      <4>2. \A b \in removed : private'[b] = private[b]
        BY <2>3 DEF IInv, TypeOK, Keys
      <4>. QED BY <2>1, <2>3, <3>1, <3>3, <4>1, <4>2 DEF IInv, Keys, Critical, LoggedIn
    <3>. QED BY <3>5, <3>6 DEF IInv
  <2>. QED BY <1>13, <2>2, <2>3 DEF GenerateKeyPair
<1>14. ASSUME NEW p \in Request, SetPublicLabel(p) \/ SetPrivateLabel(p)
      PROVE  IInv'
  <2>1. /\ op[p].pc \in {"labelPublic", "labelPrivate"}
        /\ UNCHANGED <<library, mutex, session, accounts, generated, removed, served>>
        /\ NoFault \/ FaultHappens
    BY <1>14 DEF SetPublicLabel, SetPrivateLabel
  <2>2. /\ op' \in [Request -> Op] /\ Alone(p) /\ op'[p].pc \in {"labelPrivate", "unlock"}
        /\ op'[p].address = op[p].address /\ op'[p].kind = op[p].kind
        /\ op'[p].user = op[p].user
    BY <1>0, <1>14, Goes DEF SetPublicLabel, SetPrivateLabel, PCs, Alone
  <2>3. /\ private' \in [Address -> ObjectStates] /\ public' \in [Address -> ObjectStates]
        /\ private' = private \/ private' = [private EXCEPT ![op[p].address] = "labelled"]
    BY <1>14 DEF SetPublicLabel, SetPrivateLabel, Labelled, IInv, TypeOK, ObjectStates
  <2>4. TypeOK' /\ Holder' /\ ClosedOnlyDuringReset'
    BY <1>0, <2>1, <2>2, <2>3, Inside DEF Critical, LoggedIn, IInv, TypeOK
  <2>5. Keys'
    <3>1. \A q \in Request \ {p} : op'[q] = op[q] /\ op[q].pc \notin Critical
      BY <2>1, <2>2, OneHolder DEF Alone, Critical, LoggedIn
    <3>2. op[p].address \notin removed
      BY <2>1 DEF IInv, Keys
    <3>3. \A b \in removed : private'[b] = private[b]
      BY <2>3, <3>2 DEF IInv, TypeOK
    <3>. QED BY <2>1, <2>2, <3>1, <3>3 DEF IInv, Keys, Critical, LoggedIn
  <2>. QED BY <2>4, <2>5 DEF IInv
<1>15. ASSUME NEW p \in Request, DestroyPrivateKey(p)
      PROVE  IInv'
  <2>1. /\ op[p].pc = "work" /\ op[p].kind = "remove"
        /\ UNCHANGED <<public, library, mutex, session, accounts, generated, removed, served, faults>>
    BY <1>15 DEF DestroyPrivateKey
  <2>2. Fails(p) \/ Goto(p, "destroyPublic")
    BY <1>15 DEF DestroyPrivateKey
  <2>3. /\ op' \in [Request -> Op] /\ Alone(p) /\ op'[p].pc \in {"unlock", "destroyPublic"}
        /\ op'[p].address = op[p].address /\ op'[p].kind = op[p].kind
        /\ op'[p].user = op[p].user
    BY <1>0, <2>2, Goes, Failing DEF PCs, Alone
  <2>4. op[p].address \in Address
    BY <2>1 DEF IInv, TypeOK, Keys
  <2>5. /\ private' \in [Address -> ObjectStates]
        /\ private'[op[p].address] # "labelled" \/ op'[p].pc = "unlock"
        /\ \A b \in Address : private'[b] = private[b] \/ private'[b] = "absent"
    <3>1. \/ Fails(p) /\ private' = private
          \/ Goto(p, "destroyPublic") /\ private' = private /\ private[op[p].address] # "labelled"
          \/ Goto(p, "destroyPublic") /\ private' = [private EXCEPT ![op[p].address] = "absent"]
      BY <1>15 DEF DestroyPrivateKey
    <3>2. Fails(p) => op'[p].pc = "unlock"
      BY <1>0, Failing
    <3>. QED BY <2>4, <3>1, <3>2 DEF IInv, TypeOK, ObjectStates
  <2>6. TypeOK' /\ Holder' /\ ClosedOnlyDuringReset'
    BY <1>0, <2>1, <2>3, <2>5, Inside DEF Critical, LoggedIn, IInv, TypeOK
  <2>7. Keys'
    <3>1. \A q \in Request \ {p} : op'[q] = op[q] /\ op[q].pc \notin Critical
      BY <2>1, <2>3, OneHolder DEF Alone, Critical, LoggedIn
    <3>2. \A b \in removed : private'[b] # "labelled"
      BY <2>5 DEF IInv, TypeOK, Keys
    <3>. QED BY <2>1, <2>3, <2>5, <3>1, <3>2 DEF IInv, Keys, Critical, LoggedIn
  <2>. QED BY <2>6, <2>7 DEF IInv
<1>16. ASSUME NEW p \in Request, DestroyPublicKey(p)
      PROVE  IInv'
  <2>1. /\ op[p].pc = "destroyPublic" /\ removed' = removed \cup {op[p].address}
        /\ UNCHANGED <<private, library, mutex, session, accounts, generated, served, faults>>
    BY <1>16 DEF DestroyPublicKey
  <2>2. /\ op' \in [Request -> Op] /\ Alone(p) /\ op'[p].pc = "unlock"
        /\ op'[p].address = op[p].address /\ op'[p].kind = op[p].kind
        /\ op'[p].user = op[p].user
    BY <1>0, <1>16, Goes DEF DestroyPublicKey, PCs, Alone
  <2>3. op[p].address \in generated /\ private[op[p].address] # "labelled"
    BY <2>1 DEF IInv, Keys
  <2>4. public' \in [Address -> ObjectStates]
    BY <1>16 DEF DestroyPublicKey, IInv, TypeOK, ObjectStates
  <2>5. removed' \subseteq Address
    BY <2>1, <2>3 DEF IInv, TypeOK
  <2>6. TypeOK' /\ Holder' /\ ClosedOnlyDuringReset'
    BY <1>0, <2>1, <2>2, <2>4, <2>5, Inside DEF Critical, LoggedIn, IInv, TypeOK
  <2>7. Keys'
    <3>1. \A q \in Request \ {p} : op'[q] = op[q] /\ op[q].pc \notin Critical
      BY <2>1, <2>2, OneHolder DEF Alone, Critical, LoggedIn
    <3>. QED BY <2>1, <2>2, <2>3, <3>1 DEF IInv, Keys, Critical, LoggedIn
  <2>. QED BY <2>6, <2>7 DEF IInv
\* The deferred calls.
<1>17. ASSUME NEW p \in Request, Unlock(p)
      PROVE  IInv'
  <2>1. /\ op[p].pc = "unlock" /\ session' = session \ {p} /\ mutex' = Nobody
        /\ UNCHANGED <<token, library, accounts, served, faults>>
    BY <1>17 DEF Unlock
  <2>2. \E pc \in {"error", "removeRows", "createAccount", "ok"} :
            Goto(p, pc) /\ (pc = "createAccount" => op[p].kind = "enable")
    <3>1. op[p].result \in {"ok", "error"}
      BY <1>0 DEF Op
    <3>. QED BY <1>17, <3>1 DEF Unlock
  <2>3. /\ op' \in [Request -> Op] /\ Alone(p)
        /\ op'[p].pc \in {"error", "removeRows", "createAccount", "ok"}
        /\ op'[p].pc = "createAccount" => op[p].kind = "enable"
        /\ op'[p].address = op[p].address /\ op'[p].kind = op[p].kind
        /\ op'[p].user = op[p].user
    BY <1>0, <2>2, Goes DEF PCs, Alone
  <2>4. mutex = p /\ \A q \in Request \ {p} : op'[q] = op[q] /\ op[q].pc \notin Critical
    BY <2>1, <2>3, OneHolder DEF Alone, Critical, LoggedIn
  <2>5. TypeOK'
    BY <2>1, <2>3 DEF IInv, TypeOK, token
  <2>6. Holder'
    <3>1. \A q \in Request : op'[q].pc \notin Critical
      BY <2>3, <2>4 DEF Critical, LoggedIn
    <3>2. session' = {}
      BY <2>1, <2>4 DEF IInv, TypeOK, Holder, Critical
    <3>. QED BY <2>1, <3>1, <3>2, NobodyAssumption DEF Holder
  <2>7. ClosedOnlyDuringReset'
    BY <2>1, <2>3 DEF IInv, ClosedOnlyDuringReset, Alone
  <2>8. Keys'
    BY <2>1, <2>3 DEF IInv, Keys, Alone, token
  <2>. QED BY <2>5, <2>6, <2>7, <2>8 DEF IInv
<1>18. ASSUME NEW p \in Request, CallFails(p)
      PROVE  IInv'
  <2>1. /\ FaultHappens /\ served' \in 0..MaxRequests
        /\ UNCHANGED <<token, library, mutex, session, accounts, served>>
    BY <1>18 DEF CallFails, IInv, TypeOK
  <2>2. CASE op[p].pc \in {"login", "work", "labelPublic", "destroyPublic"} /\ Fails(p)
    <3>1. /\ op' \in [Request -> Op] /\ Alone(p) /\ op'[p].pc = "unlock"
          /\ op'[p].address = op[p].address /\ op'[p].kind = op[p].kind
          /\ op'[p].user = op[p].user
      BY <1>0, <2>2, Failing DEF Alone
    <3>. QED BY <1>0, <2>1, <2>2, <3>1, InsideLooking DEF Critical, LoggedIn
  <2>3. CASE /\ op[p].pc \in {"authorize", "close", "reopen", "create", "removeRows",
                              "createAccount", "deleteAccount"}
             /\ Goto(p, "error")
    <3>1. accounts' \subseteq User \X Address
      BY <2>1 DEF IInv, TypeOK
    <3>. QED BY <1>0, <1>3, <2>1, <2>3, <3>1 DEF PCs, Critical, LoggedIn
  <2>. QED BY <1>18, <2>2, <2>3 DEF CallFails
<1>19. CASE Crash
  <2>1. /\ FaultHappens /\ op' = [p \in Request |-> Quiet]
        /\ library' = "open" /\ mutex' = Nobody /\ session' = {}
        /\ UNCHANGED <<token, accounts, served>>
    BY <1>19 DEF Crash
  <2>2. Quiet \in Op /\ Quiet.pc = "idle" /\ Quiet.address = NoAddress /\ Quiet.kind = "none"
    BY DEF Quiet, Op, PCs
  <2>. HIDE DEF Quiet
  <2>3. TypeOK'
    BY <1>0, <2>1, <2>2 DEF IInv, TypeOK, token
  <2>4. Holder'
    BY <2>1, <2>2, NobodyAssumption DEF Holder, Critical, LoggedIn
  <2>5. ClosedOnlyDuringReset'
    BY <2>1 DEF ClosedOnlyDuringReset
  <2>6. Keys'
    BY <2>1, <2>2 DEF IInv, Keys, token
  <2>. QED BY <2>3, <2>4, <2>5, <2>6 DEF IInv
<1>. QED
  BY <1>1, <1>2, <1>4, <1>5, <1>6, <1>7, <1>8, <1>9, <1>10, <1>11, <1>12, <1>13, <1>14,
     <1>15, <1>16, <1>17, <1>18, <1>19
  DEF Next, Step, Terminated

\* A step of a handler replaces its own local state.
LEMMA StepBecomes ==
    ASSUME NEW p \in Request, Call(p) \/ Step(p) \/ CallFails(p)
    PROVE  \E m : Become(p, m)
<1>1. CASE Call(p)
  BY <1>1 DEF Call, GenerateAccount, RemoveAccount, EnableAccounts, DisableAccount,
              SignTransaction, CreateHSMSlot, Begin
<1>2. CASE AuthorizeAccount(p) \/ Close(p) \/ Reopen(p) \/ Create(p) \/ Lock(p) \/ Login(p)
  BY <1>2 DEF AuthorizeAccount, Close, Reopen, Create, Lock, Login, Goto, Fails
<1>3. CASE GenerateKeyPair(p) \/ SetPublicLabel(p) \/ SetPrivateLabel(p)
           \/ DestroyPrivateKey(p) \/ DestroyPublicKey(p)
  BY <1>3 DEF GenerateKeyPair, SetPublicLabel, SetPrivateLabel, DestroyPrivateKey,
              DestroyPublicKey, Goto, Fails
<1>4. CASE ListKeys(p) \/ Sign(p) \/ IsAlive(p) \/ Unlock(p)
  BY <1>4 DEF ListKeys, Sign, IsAlive, Unlock, Goto, Fails
<1>5. CASE RemoveAllForAddress(p) \/ CreateAccount(p) \/ DeleteAccount(p) \/ Leave(p) \/ CallFails(p)
  BY <1>5 DEF RemoveAllForAddress, CreateAccount, DeleteAccount, Leave, CallFails, Goto, Fails
<1>. QED BY <1>1, <1>2, <1>3, <1>4, <1>5 DEF Step

\* A handler at work on a signature signs or fails.
LEMMA SigningStep ==
    ASSUME NEW p \in Request, Call(p) \/ Step(p) \/ CallFails(p),
           op[p].pc = "work", op[p].kind = "sign"
    PROVE  Sign(p) \/ CallFails(p)
<1>1. ~Call(p)
  BY DEF Call, GenerateAccount, RemoveAccount, EnableAccounts, DisableAccount,
         SignTransaction, CreateHSMSlot, Begin
<1>2. ~(AuthorizeAccount(p) \/ Close(p) \/ Reopen(p) \/ Create(p) \/ Lock(p) \/ Login(p))
  BY DEF AuthorizeAccount, Close, Reopen, Create, Lock, Login
<1>3. ~(GenerateKeyPair(p) \/ SetPublicLabel(p) \/ SetPrivateLabel(p)
        \/ DestroyPrivateKey(p) \/ DestroyPublicKey(p) \/ ListKeys(p) \/ IsAlive(p))
  BY DEF GenerateKeyPair, SetPublicLabel, SetPrivateLabel, DestroyPrivateKey,
         DestroyPublicKey, ListKeys, IsAlive
<1>4. ~(Unlock(p) \/ RemoveAllForAddress(p) \/ CreateAccount(p) \/ DeleteAccount(p) \/ Leave(p))
  BY DEF Unlock, RemoveAllForAddress, CreateAccount, DeleteAccount, Leave
<1>. QED BY <1>1, <1>2, <1>3, <1>4 DEF Step

-----------------------------------------------------------------------------
\* Nobody else is halfway while a handler is in the token: what it finds is whole.
LEMMA FoundWhole ==
    ASSUME IInv, Halves, faults = 0, NEW p \in Request, op[p].pc \in Critical \ Halfway,
           NEW a \in Address
    PROVE  public[a] = private[a]
BY OneHolder DEF Halves, Halfway, Critical, LoggedIn

\* A step from and to a place where the two objects are the same, which leaves them
\* alone.
LEMMA HalvesKept ==
    ASSUME TypeOK, Halves, NEW p \in Request, Alone(p), UNCHANGED <<private, public, faults>>,
           op[p].pc \notin Halfway, op'[p].pc \notin Halfway
    PROVE  Halves'
BY DEF Halves, Halfway, Alone

LEMMA NextHalves == IInv /\ Halves /\ [Next]_vars => Halves'
<1>. SUFFICES ASSUME IInv, Halves, [Next]_vars PROVE Halves'
  OBVIOUS
<1>0. TypeOK /\ faults \in Nat /\ \A p \in Request : op[p] \in Op
  BY BoundAssumption DEF IInv, TypeOK
<1>1. CASE UNCHANGED vars
  BY <1>1 DEF vars, Halves
<1>2. CASE FaultHappens
  BY <1>0, <1>2 DEF FaultHappens, Halves
<1>3. ASSUME NEW p \in Request, NEW pc \in PCs \ Halfway, Goto(p, pc) \/ Fails(p),
             UNCHANGED <<private, public, faults>>, op[p].pc \notin Halfway
      PROVE  Halves'
  <2>1. Alone(p) /\ op'[p].pc \in {pc, "unlock"}
    BY <1>0, <1>3, Goes, Failing DEF Alone
  <2>. QED BY <1>0, <1>3, <2>1, HalvesKept DEF Halfway
<1>4. ASSUME NEW p \in Request, Call(p)
      PROVE  Halves'
  <2>1. ASSUME NEW m \in Op, Begin(p, m), m.pc \notin Halfway
        PROVE  Halves'
    <3>1. Alone(p) /\ op'[p] = m
      BY <1>0, <2>1, Becomes DEF Begin, Alone
    <3>2. op[p].pc = "idle" /\ UNCHANGED <<private, public, faults>>
      BY <2>1 DEF Begin, token
    <3>. QED BY <1>0, <2>1, <3>1, <3>2, HalvesKept DEF Halfway
  <2>2. CASE GenerateAccount(p) \/ CreateHSMSlot(p)
    BY <2>1, <2>2 DEF GenerateAccount, CreateHSMSlot, Quiet, Op, PCs, Kinds, Halfway
  <2>3. CASE RemoveAccount(p)
    BY <2>1, <2>3 DEF RemoveAccount, Quiet, Op, PCs, Kinds, Halfway, IInv, TypeOK
  <2>4. CASE EnableAccounts(p) \/ DisableAccount(p) \/ SignTransaction(p)
    BY <2>1, <2>4 DEF EnableAccounts, DisableAccount, SignTransaction, Quiet, Op, PCs, Kinds,
                      Halfway, IInv, TypeOK
  <2>. QED BY <1>4, <2>2, <2>3, <2>4 DEF Call
<1>5. ASSUME NEW p \in Request, AuthorizeAccount(p) \/ Close(p) \/ Reopen(p) \/ Create(p) \/ Lock(p)
      PROVE  Halves'
  <2>1. /\ UNCHANGED <<private, public, faults>>
        /\ op[p].pc \in {"authorize", "close", "reopen", "create", "lock"}
        /\ \E pc \in {"create", "error", "reopen", "lock", "login"} : Goto(p, pc)
    BY <1>5 DEF AuthorizeAccount, Close, Reopen, Create, Lock, token
  <2>. QED BY <1>3, <2>1 DEF PCs, Halfway
<1>6. ASSUME NEW p \in Request, Login(p) \/ ListKeys(p) \/ Sign(p) \/ IsAlive(p)
      PROVE  Halves'
  <2>1. /\ UNCHANGED <<private, public, faults>> /\ op[p].pc \in {"login", "work"}
        /\ \E pc \in {"work", "unlock"} : Goto(p, pc) \/ Fails(p)
    BY <1>6 DEF Login, ListKeys, Sign, IsAlive, token
  <2>. QED BY <1>3, <2>1 DEF PCs, Halfway
<1>7. ASSUME NEW p \in Request, Unlock(p)
      PROVE  Halves'
  <2>1. op[p].result \in {"ok", "error"}
    BY <1>0 DEF Op
  <2>2. /\ UNCHANGED <<private, public, faults>> /\ op[p].pc = "unlock"
        /\ \E pc \in {"error", "removeRows", "createAccount", "ok"} : Goto(p, pc)
    BY <1>7, <2>1 DEF Unlock, token
  <2>. QED BY <1>3, <2>2 DEF PCs, Halfway
<1>8. ASSUME NEW p \in Request, RemoveAllForAddress(p) \/ CreateAccount(p) \/ DeleteAccount(p)
      PROVE  Halves'
  <2>1. /\ UNCHANGED <<private, public, faults>>
        /\ op[p].pc \in {"removeRows", "createAccount", "deleteAccount"}
        /\ \E pc \in {"ok", "error"} : Goto(p, pc)
    BY <1>8 DEF RemoveAllForAddress, CreateAccount, DeleteAccount, token
  <2>. QED BY <1>3, <2>1 DEF PCs, Halfway
<1>9. ASSUME NEW p \in Request, Leave(p)
      PROVE  Halves'
  <2>1. Quiet \in Op /\ Quiet.pc = "idle"
    BY DEF Quiet, Op, PCs
  <2>2. /\ Alone(p) /\ op'[p] = Quiet /\ op[p].pc \in {"ok", "error"}
        /\ UNCHANGED <<private, public, faults>>
    BY <1>0, <1>9, <2>1, Becomes DEF Leave, Alone, token
  <2>. QED BY <1>0, <2>1, <2>2, HalvesKept DEF Halfway
\* The steps that change an object.
<1>10. ASSUME NEW p \in Request, GenerateKeyPair(p)
      PROVE  Halves'
  <2>1. op[p].pc = "work" /\ faults' = faults
    BY <1>10 DEF GenerateKeyPair
  <2>2. CASE Fails(p) /\ UNCHANGED <<private, public, generated>>
    BY <1>3, <2>1, <2>2 DEF PCs, Halfway
  <2>3. ASSUME NEW a \in Address \ generated,
               private' = [private EXCEPT ![a] = "unlabelled"],
               public' = [public EXCEPT ![a] = "unlabelled"],
               Become(p, [op[p] EXCEPT !.pc = "labelPublic", !.address = a])
        PROVE  Halves'
    <3>. DEFINE m == [op[p] EXCEPT !.pc = "labelPublic", !.address = a]
    <3>1. m \in Op /\ m.pc = "labelPublic"
      BY <1>0 DEF Op, PCs
    <3>2. Become(p, m)
      BY <2>3
    <3>. HIDE DEF m
    <3>3. Alone(p) /\ op'[p].pc = "labelPublic"
      BY <1>0, <3>1, <3>2, Becomes DEF Alone
    <3>4. \A q \in Request : op'[q].pc \notin Halfway
      BY <2>1, <3>3, OneHolder DEF Alone, Critical, LoggedIn, Halfway
    <3>5. faults' = 0 => \A b \in Address : public'[b] = private'[b]
      BY <2>1, <2>3, FoundWhole DEF IInv, TypeOK, Critical, LoggedIn, Halfway
    <3>. QED BY <3>4, <3>5 DEF Halves, Halfway
  <2>. QED BY <1>10, <2>2, <2>3 DEF GenerateKeyPair
<1>11. ASSUME NEW p \in Request, SetPublicLabel(p), NoFault
      PROVE  Halves'
  <2>. DEFINE a == op[p].address
  <2>1. op[p].pc = "labelPublic" /\ faults' = faults /\ private' = private /\ a \in Address
    BY <1>11 DEF SetPublicLabel, NoFault, IInv, TypeOK, Keys
  <2>2. public' = [public EXCEPT ![a] = "labelled"]
    BY <1>0, <1>11 DEF SetPublicLabel, NoFault, FaultHappens, Labelled
  <2>3. /\ op' \in [Request -> Op] /\ Alone(p) /\ op'[p].pc = "labelPrivate" /\ op'[p].address = a
    BY <1>0, <1>11, Goes DEF SetPublicLabel, PCs, Alone
  <2>4. \A q \in Request \ {p} : op'[q].pc \notin Halfway
    BY <2>1, <2>3, OneHolder DEF Alone, Critical, LoggedIn, Halfway
  <2>5. public'[a] = "labelled"
    BY <2>1, <2>2 DEF IInv, TypeOK
  <2>6. faults' = 0 => \A b \in Address \ {a} : public'[b] = private'[b]
    BY <2>1, <2>2, FoundWhole DEF IInv, TypeOK, Critical, LoggedIn, Halfway
  <2>. QED BY <2>3, <2>4, <2>5, <2>6 DEF Halves, Halfway
<1>12. ASSUME NEW p \in Request, SetPrivateLabel(p), NoFault
      PROVE  Halves'
  <2>. DEFINE a == op[p].address
  <2>1. op[p].pc = "labelPrivate" /\ faults' = faults /\ public' = public /\ a \in Address
    BY <1>12 DEF SetPrivateLabel, NoFault, IInv, TypeOK, Keys
  <2>2. private' = [private EXCEPT ![a] = "labelled"]
    BY <1>0, <1>12 DEF SetPrivateLabel, NoFault, FaultHappens, Labelled
  <2>3. Alone(p) /\ op'[p].pc = "unlock"
    BY <1>0, <1>12, Goes DEF SetPrivateLabel, PCs, Alone
  <2>4. \A q \in Request \ {p} : op'[q] = op[q] /\ op[q].pc \notin Halfway
    BY <2>1, <2>3, OneHolder DEF Alone, Critical, LoggedIn, Halfway
  <2>5. private'[a] = "labelled" /\ \A b \in Address \ {a} : private'[b] = private[b]
    BY <2>1, <2>2 DEF IInv, TypeOK
  <2>. QED BY <2>1, <2>3, <2>4, <2>5 DEF Halves, Halfway
<1>13. ASSUME NEW p \in Request, DestroyPrivateKey(p)
      PROVE  Halves'
  <2>. DEFINE a == op[p].address
  <2>1. op[p].pc = "work" /\ faults' = faults /\ public' = public /\ a \in Address
    BY <1>13 DEF DestroyPrivateKey, IInv, TypeOK, Keys
  <2>2. CASE Fails(p) /\ UNCHANGED private
    BY <1>3, <2>1, <2>2 DEF PCs, Halfway
  <2>3. CASE Goto(p, "destroyPublic") /\ private' = private
    <3>1. private[a] # "labelled" /\ public[a] = "labelled"
      BY <1>0, <1>13, <2>1, <2>3, Goes, Failing DEF DestroyPrivateKey, TypeOK, PCs
    <3>. QED BY <1>0, <2>1, <3>1, FoundWhole DEF Halves, Critical, LoggedIn, Halfway
  <2>4. CASE Goto(p, "destroyPublic") /\ private[a] = "labelled"
             /\ private' = [private EXCEPT ![a] = "absent"]
    <3>1. Alone(p) /\ op'[p].pc = "destroyPublic" /\ op'[p].address = a
      BY <1>0, <2>4, Goes DEF PCs, Alone
    <3>2. \A q \in Request \ {p} : op'[q].pc \notin Halfway
      BY <2>1, <3>1, OneHolder DEF Alone, Critical, LoggedIn, Halfway
    <3>3. private'[a] = "absent" /\ \A b \in Address \ {a} : private'[b] = private[b]
      BY <2>1, <2>4 DEF IInv, TypeOK
    <3>4. faults = 0 => \A b \in Address : public[b] = private[b]
      BY <2>1, FoundWhole DEF Critical, LoggedIn, Halfway
    <3>. QED BY <2>1, <2>4, <3>1, <3>2, <3>3, <3>4 DEF Halves, Halfway
  <2>. QED BY <1>13, <2>2, <2>3, <2>4 DEF DestroyPrivateKey
<1>14. ASSUME NEW p \in Request, DestroyPublicKey(p)
      PROVE  Halves'
  <2>. DEFINE a == op[p].address
  <2>1. /\ op[p].pc = "destroyPublic" /\ faults' = faults /\ private' = private
        /\ a \in Address
    BY <1>14 DEF DestroyPublicKey, IInv, TypeOK, Keys
  <2>2. Alone(p) /\ op'[p].pc = "unlock"
    BY <1>0, <1>14, Goes DEF DestroyPublicKey, PCs, Alone
  <2>3. \A q \in Request \ {p} : op'[q] = op[q] /\ op[q].pc \notin Halfway
    BY <2>1, <2>2, OneHolder DEF Alone, Critical, LoggedIn, Halfway
  <2>4. faults = 0 => public'[a] = "absent" /\ private[a] = "absent"
    BY <1>14, <2>1 DEF DestroyPublicKey, Halves, IInv, TypeOK
  <2>5. \A b \in Address \ {a} : public'[b] = public[b]
    BY <1>14, <2>1 DEF DestroyPublicKey, IInv, TypeOK
  <2>. QED BY <2>1, <2>2, <2>3, <2>4, <2>5 DEF Halves, Halfway
<1>. QED
  BY <1>1, <1>2, <1>4, <1>5, <1>6, <1>7, <1>8, <1>9, <1>10, <1>11, <1>12, <1>13, <1>14
  DEF Next, Step, CallFails, Crash, Terminated, SetPublicLabel, SetPrivateLabel

-----------------------------------------------------------------------------
\* The public object of a key is there until the key is removed, and the private one
\* is not there before the key is generated.
Presence ==
    /\ \A a \in generated \ removed : public[a] # "absent"
    /\ \A a \in Address \ generated : private[a] = "absent"

LEMMA NextPresence == IInv /\ Presence /\ [Next]_vars => Presence'
<1>. SUFFICES ASSUME IInv, Presence, [Next]_vars PROVE Presence'
  OBVIOUS
<1>0. TypeOK
  BY DEF IInv
<1>1. CASE UNCHANGED token
  BY <1>1 DEF token, Presence
<1>2. ASSUME NEW p \in Request, GenerateKeyPair(p)
      PROVE  Presence'
  BY <1>0, <1>2 DEF GenerateKeyPair, Presence, TypeOK
<1>3. ASSUME NEW p \in Request, SetPublicLabel(p)
      PROVE  Presence'
  BY <1>0, <1>3 DEF SetPublicLabel, Labelled, Presence, TypeOK
<1>4. ASSUME NEW p \in Request, SetPrivateLabel(p)
      PROVE  Presence'
  <2>1. op[p].address \in generated
    BY <1>4 DEF SetPrivateLabel, IInv, Keys
  <2>. QED BY <1>0, <1>4, <2>1 DEF SetPrivateLabel, Labelled, Presence, TypeOK
<1>5. ASSUME NEW p \in Request, DestroyPrivateKey(p)
      PROVE  Presence'
  BY <1>0, <1>5 DEF DestroyPrivateKey, Presence, TypeOK
<1>6. ASSUME NEW p \in Request, DestroyPublicKey(p)
      PROVE  Presence'
  BY <1>0, <1>6 DEF DestroyPublicKey, Presence, TypeOK
<1>7. ASSUME NEW p \in Request, Call(p) \/ CallFails(p)
      PROVE  UNCHANGED token
  BY <1>7 DEF Call, GenerateAccount, RemoveAccount, EnableAccounts, DisableAccount,
              SignTransaction, CreateHSMSlot, Begin, CallFails, token
<1>8. ASSUME NEW p \in Request,
             \/ AuthorizeAccount(p) \/ Close(p) \/ Reopen(p) \/ Create(p) \/ Lock(p) \/ Login(p)
             \/ ListKeys(p) \/ Sign(p) \/ IsAlive(p) \/ Unlock(p)
      PROVE  UNCHANGED token
  BY <1>8 DEF AuthorizeAccount, Close, Reopen, Create, Lock, Login, ListKeys, Sign, IsAlive,
              Unlock, token
<1>9. ASSUME NEW p \in Request,
             RemoveAllForAddress(p) \/ CreateAccount(p) \/ DeleteAccount(p) \/ Leave(p)
      PROVE  UNCHANGED token
  BY <1>9 DEF RemoveAllForAddress, CreateAccount, DeleteAccount, Leave, token
<1>10. Crash \/ Terminated \/ UNCHANGED vars => UNCHANGED token
  BY DEF Crash, Terminated, vars, token
<1>. QED BY <1>1, <1>2, <1>3, <1>4, <1>5, <1>6, <1>7, <1>8, <1>9, <1>10 DEF Next, Step

-----------------------------------------------------------------------------
(***************************************************************************)
(* The theorems.                                                           *)
(***************************************************************************)

\* The invariant the others follow from: who holds the mutex of the signature
\* manager, who is logged in, and which keys may be gone from the token.
THEOREM Invariance == Spec => []IInv
<1>. QED BY InitIInv, NextIInv, PTL DEF Spec

\* The token, the account table and the local states of the handlers have their types.
THEOREM TypeCorrect == Spec => []TypeOK
<1>1. IInv => TypeOK
  BY DEF IInv
<1>. QED BY <1>1, Invariance, PTL

\* One handler at a time is logged in to the token, with the mutex of the signature
\* manager and an open library, whatever the resets of the factory.
THEOREM Exclusive == Spec => []SessionsExclusive
<1>1. IInv => SessionsExclusive
  BY DEF IInv, TypeOK, Holder, SessionsExclusive, Critical
<1>. QED BY <1>1, Invariance, PTL

\* Unless an initialization has failed, only a handler between the two halves of
\* Reset leaves the library closed.
THEOREM ResetReopens == Spec => []ClosedOnlyDuringReset
<1>1. IInv => ClosedOnlyDuringReset
  BY DEF IInv
<1>. QED BY <1>1, Invariance, PTL

\* A key that RemoveKey has answered for is never used by a Sign again.
THEOREM RemovedForGood == Spec => RemovedKeysNeverSign
<1>. DEFINE A == \A p \in Request :
                    op[p].pc = "work" /\ op[p].kind = "sign" /\ op'[p].result = "ok" /\ op'[p].pc = "unlock"
                       => op[p].address \notin removed
<1>1. IInv /\ [Next]_vars => [A]_vars
  <2>. SUFFICES ASSUME IInv, Next, NEW p \in Request, op[p].pc = "work", op[p].kind = "sign",
                       op'[p].result = "ok", op'[p].pc = "unlock"
                PROVE  op[p].address \notin removed
    OBVIOUS
  <2>1. TypeOK
    BY DEF IInv
  <2>2. CASE Sign(p)
    <3>1. ~Fails(p)
      BY <2>1, Failing
    <3>2. private[op[p].address] = "labelled"
      BY <2>2, <3>1 DEF Sign
    <3>. QED BY <3>2 DEF IInv, Keys
  <2>3. CASE CallFails(p)
    <3>1. Fails(p)
      BY <2>3 DEF CallFails
    <3>. QED BY <2>1, <3>1, Failing
  <2>4. CASE Crash
    BY <2>4 DEF Crash, Quiet
  <2>5. CASE Terminated
    BY <2>5 DEF Terminated, vars
  <2>6. ASSUME NEW q \in Request, Call(q) \/ Step(q) \/ CallFails(q)
        PROVE  op[p].address \notin removed
    <3>1. q # p => op'[p] = op[p]
      BY <2>1, <2>6, StepBecomes DEF TypeOK, Become
    <3>2. q = p => Sign(p) \/ CallFails(p)
      BY <2>6, SigningStep
    <3>. QED BY <2>2, <2>3, <3>1, <3>2
  <2>. QED BY <2>4, <2>5, <2>6 DEF Next
<1>. QED BY <1>1, Invariance, PTL DEF Spec, RemovedKeysNeverSign

\* As long as no call has failed, whoever takes the mutex finds each key with both of
\* its objects or with neither: what eth_accounts lists can sign.
THEOREM ListedSign == Spec => []ListedKeysSign
<1>1. Init => Halves
  BY DEF Init, Halves, Quiet
<1>2. IInv /\ Halves => ListedKeysSign
  BY FreeMeansEmpty DEF Halves, Halfway, ListedKeysSign, Critical, LoggedIn
<1>. QED BY <1>1, <1>2, NextHalves, Invariance, PTL DEF Spec

\* A removal that fails or dies between the two objects of a key never leaves a key
\* that can sign and whose public object is gone.
THEOREM NeverHidden == Spec => []NoHiddenKeys
<1>1. Init => Presence
  BY AddressAssumption DEF Init, Presence
<1>2. IInv /\ Presence => NoHiddenKeys
  BY DEF IInv, Keys, Presence, NoHiddenKeys
<1>. QED BY <1>1, <1>2, NextPresence, Invariance, PTL DEF Spec
=============================================================================
