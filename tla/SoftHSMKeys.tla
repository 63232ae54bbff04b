----------------------------- MODULE SoftHSMKeys -----------------------------
(***************************************************************************)
(* The keys of a SoftHSM slot and the accounts that use them.  One PKCS#11 *)
(* library and one token are shared by every request.  The signature       *)
(* manager runs each operation under a mutex, in a session of its own; the *)
(* factory opens the library before each operation, and the creation of a  *)
(* slot resets it: closes and opens it, with the mutex free in between.    *)
(* Key pairs live in the token, accounts in the database, and a request    *)
(* changes one after the other.                                            *)
(***************************************************************************)
EXTENDS Naturals

CONSTANTS
    Request,        \* request handlers
    Nobody,         \* no handler
    User,           \* users of the application
    Address,        \* the addresses key pairs may have
    Preloaded,      \* addresses with a key pair at the start
    NoAddress,      \* no address yet
    MaxRequests,    \* bound: requests served in a behaviour
    MaxFaults       \* bound: failed calls and crashes

ASSUME NobodyAssumption == Nobody \notin Request
ASSUME AddressAssumption == Preloaded \subseteq Address /\ NoAddress \notin Address
ASSUME BoundAssumption == MaxRequests \in Nat /\ MaxFaults \in Nat

VARIABLES
    private,        \* the private key object of each address
    public,         \* the public key object of each address
    library,        \* whether the PKCS#11 library is initialized
    mutex,          \* the handler that holds the mutex of the manager
    session,        \* the handlers logged in to the token
    accounts,       \* the rows <<user, address>> of the account table
    op,             \* the local state of each handler
    generated,      \* history: the addresses generated so far
    removed,        \* history: the addresses RemoveKey has answered for
    served,         \* requests started so far
    faults          \* faults so far

token == <<private, public, generated, removed>>
vars == <<private, public, library, mutex, session, accounts, op, generated, removed, served, faults>>

\* An object carries a time stamp as its label until it is labelled with its address.
ObjectStates == {"absent", "unlabelled", "labelled"}

Kinds == {"generate", "remove", "enable", "disable", "sign", "createSlot"}

PCs == {"idle", "authorize", "close", "reopen", "create", "lock", "login", "work",
        "labelPublic", "labelPrivate", "destroyPublic", "unlock",
        "removeRows", "createAccount", "deleteAccount", "ok", "error"}

\* result is what the operation of the manager returns.
Op == [pc : PCs, kind : Kinds \cup {"none"}, user : User \cup {Nobody},
       address : Address \cup {NoAddress}, result : {"ok", "error"}]

Quiet == [pc |-> "idle", kind |-> "none", user |-> Nobody, address |-> NoAddress, result |-> "ok"]

Init ==
    /\ private = [a \in Address |-> IF a \in Preloaded THEN "labelled" ELSE "absent"]
    /\ public = private
    /\ library = "open"
    /\ mutex = Nobody
    /\ session = {}
    /\ accounts \in SUBSET (User \X Preloaded)
    /\ op = [p \in Request |-> Quiet]
    /\ generated = Preloaded
    /\ removed = {}
    /\ served = 0
    /\ faults = 0

Become(p, local) == op' = [op EXCEPT ![p] = local]
Goto(p, pc) == Become(p, [op[p] EXCEPT !.pc = pc])
Fails(p) == Become(p, [op[p] EXCEPT !.pc = "unlock", !.result = "error"])

NoFault == UNCHANGED faults
FaultHappens == faults < MaxFaults /\ faults' = faults + 1

MutexFree == mutex = Nobody

\* What ListKeys returns: the public keys labelled with their address.
Listed == {a \in Address : public[a] = "labelled"}
-----------------------------------------------------------------------------
Begin(p, local) ==
    /\ op[p].pc = "idle"
    /\ served < MaxRequests
    /\ served' = served + 1
    /\ Become(p, local)
    /\ UNCHANGED <<token, library, mutex, session, accounts, faults>>

GenerateAccount(p) == Begin(p, [Quiet EXCEPT !.pc = "create", !.kind = "generate"])

RemoveAccount(p) ==
    \E a \in generated :
        Begin(p, [Quiet EXCEPT !.pc = "create", !.kind = "remove", !.address = a])

EnableAccounts(p) ==
    \E u \in User, a \in generated :
        Begin(p, [Quiet EXCEPT !.pc = "create", !.kind = "enable", !.user = u, !.address = a])

DisableAccount(p) ==
    \E u \in User, a \in generated :
        Begin(p, [Quiet EXCEPT !.pc = "deleteAccount", !.kind = "disable", !.user = u, !.address = a])

SignTransaction(p) ==
    \E u \in User, a \in generated :
        Begin(p, [Quiet EXCEPT !.pc = "authorize", !.kind = "sign", !.user = u, !.address = a])

CreateHSMSlot(p) == Begin(p, [Quiet EXCEPT !.pc = "close", !.kind = "createSlot"])

Call(p) ==
    \/ GenerateAccount(p) \/ RemoveAccount(p) \/ EnableAccounts(p)
    \/ DisableAccount(p) \/ SignTransaction(p) \/ CreateHSMSlot(p)
-----------------------------------------------------------------------------
\* The account check of the policy enforcement point.
AuthorizeAccount(p) ==
    /\ op[p].pc = "authorize"
    /\ \/ <<op[p].user, op[p].address>> \in accounts /\ Goto(p, "create")
       \/ <<op[p].user, op[p].address>> \notin accounts /\ Goto(p, "error")
    /\ UNCHANGED <<token, library, mutex, session, accounts, served, faults>>

\* Mutant: Close does not take the mutex.
CloseUnlocked(p) ==
    /\ op[p].pc = "close"
    /\ \/ library = "open" /\ library' = "closed" /\ Goto(p, "reopen")
       \/ library = "closed" /\ UNCHANGED library /\ Goto(p, "error")
    /\ UNCHANGED <<token, mutex, session, accounts, served, faults>>

\* Mutant: the reset leaves it to the next operation to open the library.
CloseOnly(p) ==
    /\ op[p].pc = "close"
    /\ MutexFree
    /\ \/ library = "open" /\ library' = "closed" /\ Goto(p, "create")
       \/ library = "closed" /\ UNCHANGED library /\ Goto(p, "error")
    /\ UNCHANGED <<token, mutex, session, accounts, served, faults>>

\* Reset, first half: Close takes the mutex and finalizes the library, which fails
\* when it is not initialized.
Close(p) ==
    /\ op[p].pc = "close"
    /\ MutexFree
    /\ \/ library = "open" /\ library' = "closed" /\ Goto(p, "reopen")
       \/ library = "closed" /\ UNCHANGED library /\ Goto(p, "error")
    /\ UNCHANGED <<token, mutex, session, accounts, served, faults>>

\* Reset, second half: Open fails when another handler has opened the library since.
Reopen(p) ==
    /\ op[p].pc = "reopen"
    /\ MutexFree
    /\ \/ library = "closed" /\ library' = "open" /\ Goto(p, "create")
       \/ library = "open" /\ UNCHANGED library /\ Goto(p, "error")
    /\ UNCHANGED <<token, mutex, session, accounts, served, faults>>

\* The factory opens the library and takes no offence if it is open.
Create(p) ==
    /\ op[p].pc = "create"
    /\ MutexFree
    /\ library' = "open"
    /\ Goto(p, "lock")
    /\ UNCHANGED <<token, mutex, session, accounts, served, faults>>

Lock(p) ==
    /\ op[p].pc = "lock"
    /\ MutexFree
    /\ mutex' = p
    /\ Goto(p, "login")
    /\ UNCHANGED <<token, library, session, accounts, served, faults>>

\* Mutant: the session is opened again and again until the library is open.
LoginUntilOpen(p) ==
    /\ op[p].pc = "login"
    /\ \/ library = "open" /\ session = {} /\ session' = {p} /\ Goto(p, "work")
       \/ library = "closed" /\ UNCHANGED <<session, op>>
       \/ library = "open" /\ session # {} /\ UNCHANGED session /\ Fails(p)
    /\ UNCHANGED <<token, library, mutex, accounts, served, faults>>

\* OpenSession and Login, which fail when the library is closed or the user of the
\* token is logged in already.
Login(p) ==
    /\ op[p].pc = "login"
    /\ \/ library = "open" /\ session = {} /\ session' = {p} /\ Goto(p, "work")
       \/ (library = "closed" \/ session # {}) /\ UNCHANGED session /\ Fails(p)
    /\ UNCHANGED <<token, library, mutex, accounts, served, faults>>

\* A new pair has an address that no other pair has or had.  The token may be full.
GenerateKeyPair(p) ==
    /\ op[p].pc = "work"
    /\ op[p].kind = "generate"
    /\ \/ \E a \in Address \ generated :
             /\ private' = [private EXCEPT ![a] = "unlabelled"]
             /\ public' = [public EXCEPT ![a] = "unlabelled"]
             /\ generated' = generated \cup {a}
             /\ Become(p, [op[p] EXCEPT !.pc = "labelPublic", !.address = a])
       \/ Address = generated /\ Fails(p) /\ UNCHANGED <<private, public, generated>>
    /\ UNCHANGED <<library, mutex, session, accounts, removed, served, faults>>

\* A label that cannot be set is only logged.
Labelled(object, a) == [object EXCEPT ![a] = "labelled"]

SetPublicLabel(p) ==
    /\ op[p].pc = "labelPublic"
    /\ \/ public' = Labelled(public, op[p].address) /\ NoFault
       \/ UNCHANGED public /\ FaultHappens
    /\ Goto(p, "labelPrivate")
    /\ UNCHANGED <<private, library, mutex, session, accounts, generated, removed, served>>

SetPrivateLabel(p) ==
    /\ op[p].pc = "labelPrivate"
    /\ \/ private' = Labelled(private, op[p].address) /\ NoFault
       \/ UNCHANGED private /\ FaultHappens
    /\ Goto(p, "unlock")
    /\ UNCHANGED <<public, library, mutex, session, accounts, generated, removed, served>>

\* Mutant: the private key is looked up and kept.
KeepPrivateKey(p) ==
    LET a == op[p].address IN
    /\ op[p].pc = "work"
    /\ op[p].kind = "remove"
    /\ IF private[a] # "labelled" /\ public[a] # "labelled" THEN Fails(p) ELSE Goto(p, "destroyPublic")
    /\ UNCHANGED <<token, library, mutex, session, accounts, served, faults>>

\* Mutant: only the private key is destroyed.
DestroyPrivateKeyOnly(p) ==
    LET a == op[p].address IN
    /\ op[p].pc = "work"
    /\ op[p].kind = "remove"
    /\ \/ private[a] # "labelled" /\ UNCHANGED private /\ Fails(p)
       \/ private[a] = "labelled" /\ private' = [private EXCEPT ![a] = "absent"] /\ Goto(p, "unlock")
    /\ UNCHANGED <<public, library, mutex, session, accounts, generated, removed, served, faults>>

\* RemoveKey looks both objects up by label and fails if there is none.
DestroyPrivateKey(p) ==
    LET a == op[p].address IN
    /\ op[p].pc = "work"
    /\ op[p].kind = "remove"
    /\ \/ private[a] # "labelled" /\ public[a] # "labelled" /\ UNCHANGED private /\ Fails(p)
       \/ private[a] = "labelled" /\ private' = [private EXCEPT ![a] = "absent"] /\ Goto(p, "destroyPublic")
       \/ private[a] # "labelled" /\ public[a] = "labelled" /\ UNCHANGED private /\ Goto(p, "destroyPublic")
    /\ UNCHANGED <<public, library, mutex, session, accounts, generated, removed, served, faults>>

DestroyPublicKey(p) ==
    LET a == op[p].address IN
    /\ op[p].pc = "destroyPublic"
    /\ public' = IF public[a] = "labelled" THEN [public EXCEPT ![a] = "absent"] ELSE public
    /\ removed' = removed \cup {a}
    /\ Goto(p, "unlock")
    /\ UNCHANGED <<private, library, mutex, session, accounts, generated, served, faults>>

\* EnableAccounts asks for the keys of the module.
ListKeys(p) ==
    /\ op[p].pc = "work"
    /\ op[p].kind = "enable"
    /\ \/ op[p].address \in Listed /\ Goto(p, "unlock")
       \/ op[p].address \notin Listed /\ Fails(p)
    /\ UNCHANGED <<token, library, mutex, session, accounts, served, faults>>

Sign(p) ==
    /\ op[p].pc = "work"
    /\ op[p].kind = "sign"
    /\ \/ private[op[p].address] = "labelled" /\ Goto(p, "unlock")
       \/ private[op[p].address] # "labelled" /\ Fails(p)
    /\ UNCHANGED <<token, library, mutex, session, accounts, served, faults>>

IsAlive(p) ==
    /\ op[p].pc = "work"
    /\ op[p].kind = "createSlot"
    /\ Goto(p, "unlock")
    /\ UNCHANGED <<token, library, mutex, session, accounts, served, faults>>

\* The deferred calls: log out, close the session, unlock.
Unlock(p) ==
    /\ op[p].pc = "unlock"
    /\ session' = session \ {p}
    /\ mutex' = Nobody
    /\ Goto(p, CASE op[p].result = "error" -> "error"
                 [] op[p].result = "ok" /\ op[p].kind = "remove" -> "removeRows"
                 [] op[p].result = "ok" /\ op[p].kind = "enable" -> "createAccount"
                 [] OTHER -> "ok")
    /\ UNCHANGED <<token, library, accounts, served, faults>>

\* Mutant: the addresses are kept in place of the rows.
RemoveAllKeepingAddresses(p) ==
    /\ op[p].pc = "removeRows"
    /\ accounts' = {c[2] : c \in accounts}
    /\ Goto(p, "ok")
    /\ UNCHANGED <<token, library, mutex, session, served, faults>>

\* The rows of the accounts of every user.
RemoveAllForAddress(p) ==
    /\ op[p].pc = "removeRows"
    /\ accounts' = {c \in accounts : c[2] # op[p].address}
    /\ Goto(p, "ok")
    /\ UNCHANGED <<token, library, mutex, session, served, faults>>

\* An account that exists already is as good as created.
CreateAccount(p) ==
    /\ op[p].pc = "createAccount"
    /\ accounts' = accounts \cup {<<op[p].user, op[p].address>>}
    /\ Goto(p, "ok")
    /\ UNCHANGED <<token, library, mutex, session, served, faults>>

DeleteAccount(p) ==
    /\ op[p].pc = "deleteAccount"
    /\ accounts' = accounts \ {<<op[p].user, op[p].address>>}
    /\ Goto(p, IF <<op[p].user, op[p].address>> \in accounts THEN "ok" ELSE "error")
    /\ UNCHANGED <<token, library, mutex, session, served, faults>>

Leave(p) ==
    /\ op[p].pc \in {"ok", "error"}
    /\ Become(p, Quiet)
    /\ UNCHANGED <<token, library, mutex, session, accounts, served, faults>>
-----------------------------------------------------------------------------
\* A call of the library fails, or panics, inside an operation: the deferred calls
\* run.  An initialization, a finalization or a statement fails.
CallFails(p) ==
    /\ FaultHappens
    /\ \/ op[p].pc \in {"login", "work", "labelPublic", "destroyPublic"} /\ Fails(p)
       \/ /\ op[p].pc \in {"authorize", "close", "reopen", "create", "removeRows",
                           "createAccount", "deleteAccount"}
          /\ Goto(p, "error")
    /\ UNCHANGED <<token, library, mutex, session, accounts, served>>

\* The process dies and starts again: the factory initializes the library.  Reset
\* writes the map of managers that Create reads, which may be what kills it.
Crash ==
    /\ FaultHappens
    /\ \E p \in Request : op[p].pc # "idle"
    /\ op' = [p \in Request |-> Quiet]
    /\ library' = "open"
    /\ mutex' = Nobody
    /\ session' = {}
    /\ UNCHANGED <<token, accounts, served>>

Step(p) ==
    \/ AuthorizeAccount(p) \/ Close(p) \/ Reopen(p) \/ Create(p) \/ Lock(p) \/ Login(p)
    \/ GenerateKeyPair(p) \/ SetPublicLabel(p) \/ SetPrivateLabel(p)
    \/ DestroyPrivateKey(p) \/ DestroyPublicKey(p) \/ ListKeys(p) \/ Sign(p) \/ IsAlive(p)
    \/ Unlock(p) \/ RemoveAllForAddress(p) \/ CreateAccount(p) \/ DeleteAccount(p) \/ Leave(p)

\* Every request served: the bounded model stops here.
Terminated ==
    /\ served = MaxRequests
    /\ \A p \in Request : op[p].pc = "idle"
    /\ UNCHANGED vars

Next ==
    \/ \E p \in Request : Call(p) \/ Step(p) \/ CallFails(p)
    \/ Crash
    \/ Terminated

Spec == Init /\ [][Next]_vars

\* Handlers are scheduled, and a Go mutex is given to every goroutine that waits.
FairSpec == Spec /\ \A p \in Request : WF_vars(Step(p))
-----------------------------------------------------------------------------
(***************************************************************************)
(* Properties.                                                             *)
(***************************************************************************)

\* The token, the tables and the local states have their types.
TypeOK ==
    /\ private \in [Address -> ObjectStates]
    /\ public \in [Address -> ObjectStates]
    /\ library \in {"open", "closed"}
    /\ mutex \in Request \cup {Nobody}
    /\ session \subseteq Request
    /\ accounts \subseteq User \X Address
    /\ op \in [Request -> Op]
    /\ generated \subseteq Address
    /\ removed \subseteq Address
    /\ served \in 0..MaxRequests
    /\ faults \in 0..MaxFaults

\* Login and Logout are for all sessions of a token, and Finalize is for all of the
\* library: while a handler is logged in nobody else is, it holds the mutex, and
\* the library is open, so that no reset takes the session away from it.
SessionsExclusive ==
    \A p \in session : session = {p} /\ mutex = p /\ library = "open"

\* The library is closed only between the two halves of a reset, whatever resets and
\* operations come between them, unless an initialization has failed.
ClosedOnlyDuringReset ==
    library = "closed" => faults > 0 \/ \E p \in Request : op[p].pc = "reopen"

\* Without a failed call, a key that eth_accounts lists can sign and a key that can
\* sign is listed, seen by anyone who may look at the token.
ListedKeysSign ==
    faults = 0 /\ MutexFree => \A a \in Address : public[a] = private[a]

\* RemoveKey destroys the private object first and GenerateKey labels it last, so that
\* a removal that fails or dies halfway leaves an address that is listed and cannot
\* sign, never a key that can sign and whose public object is gone.
NoHiddenKeys ==
    \A a \in Address : private[a] = "labelled" => public[a] # "absent"

\* A key that RemoveKey has removed signs no more, even for requests that were
\* authorized to use it before.
RemovedKeysNeverSign ==
    [][\A p \in Request :
         op[p].pc = "work" /\ op[p].kind = "sign" /\ op'[p].result = "ok" /\ op'[p].pc = "unlock"
            => op[p].address \notin removed]_vars

\* The mutex is released on every path, and every request is answered.
RequestsReply == \A p \in Request : op[p].pc # "idle" ~> op[p].pc = "idle"

\* addressesBackedByModule: EnableAccounts validates the addresses so that an
\* account cannot be created for an address with no key behind it.
NoAccountWithoutKey ==
    [][\A c \in accounts' \ accounts : private[c[2]] # "absent"]_vars
=============================================================================
