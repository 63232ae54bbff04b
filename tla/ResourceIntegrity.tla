------------------------- MODULE ResourceIntegrity -------------------------
(***************************************************************************)
(* The management side of the signare: applications, users, accounts, HSM  *)
(* modules and HSM slots, stored as rows of SQL tables that declare no     *)
(* foreign key.  The dependencies between them live in a table of their    *)
(* own, system_referential_integrity_entry, which the use cases write and  *)
(* consult themselves.                                                     *)
(*                                                                         *)
(* A request is a goroutine serving one REST or JSON-RPC call.  A step of  *)
(* a request is one SQL statement (or one answer of the HSM).  Requests on *)
(* modules and slots run inside one database transaction; requests on      *)
(* applications, users and accounts do not: each of their statements is    *)
(* committed when it ends (graph/wire_gen.go).  A transaction sees what is *)
(* committed plus its own writes and waits for the row locks of the        *)
(* others, which is PostgreSQL's default isolation (sql_fw.go, BeginTx).   *)
(***************************************************************************)
EXTENDS Integers, Sequences, FiniteSets

CONSTANTS
    Request,        \* request handlers that may be active at the same time
    Resource,       \* natural keys of every resource a client may name
    KindOf,         \* the kind of each resource
    ParentsOf,      \* the resources each one depends on, in the order linked
    AddressOf,      \* of an account: its application and address
    SlotOf,         \* of a slot: the slot of its module that it stands for
    Preloaded,      \* resources that exist when the model starts
    PreloadedIid,   \* their internal resource ids
    FirstIid,       \* the first internal resource id not in use
    NoResource,     \* not a resource
    MaxRequests,    \* bound: requests served in a behaviour
    MaxFaults       \* bound: failed statements and crashed handlers

\* An administrator depends on nothing and nothing depends on it: its table is
\* in Administrators.
Kinds == {"application", "user", "account", "module", "slot"}

\* What a resource of each kind records as its parents, in this order.
ParentKinds(k) ==
    CASE k = "user"    -> <<"application">>
      [] k = "account" -> <<"user">>
      [] k = "slot"    -> <<"application", "module">>
      [] OTHER         -> <<>>

\* The use cases that the dependency graph wraps in the transactional decorator.
TransactionalKinds == {"module", "slot"}

\* Mutant: no index on the slot of a module.
ConflictOfApplication(r, s) ==
    r = s \/ (KindOf[r] = "slot" /\ KindOf[s] = "slot" /\ ParentsOf[r][1] = ParentsOf[s][1])

\* Two rows that a unique index keeps apart: the primary key of every table,
\* and of an HSM slot its application, and its module with its slot there.
Conflict(r, s) ==
    \/ r = s
    \/ /\ KindOf[r] = "slot" /\ KindOf[s] = "slot"
       /\ \/ ParentsOf[r][1] = ParentsOf[s][1]
          \/ ParentsOf[r][2] = ParentsOf[s][2] /\ SlotOf[r] = SlotOf[s]

None == 0

ASSUME RequestAssumption == Request # {}
ASSUME BoundAssumption == MaxRequests \in Nat /\ MaxFaults \in Nat
ASSUME ResourceAssumption ==
    /\ NoResource \notin Resource
    /\ KindOf \in [Resource -> Kinds]
    /\ ParentsOf \in [Resource -> Seq(Resource)]
    /\ \A r \in Resource :
          /\ Len(ParentsOf[r]) = Len(ParentKinds(KindOf[r]))
          /\ \A j \in 1..Len(ParentsOf[r]) :
                KindOf[ParentsOf[r][j]] = ParentKinds(KindOf[r])[j]
ASSUME PreloadedAssumption ==
    /\ Preloaded \subseteq Resource
    /\ PreloadedIid \in [Preloaded -> Nat \ {0}]
    /\ \A r, s \in Preloaded : PreloadedIid[r] = PreloadedIid[s] => r = s
    /\ \A r, s \in Preloaded : Conflict(r, s) => r = s
    /\ \A r \in Preloaded : \A j \in 1..Len(ParentsOf[r]) : ParentsOf[r][j] \in Preloaded
    /\ FirstIid \in Nat \ {0}
    /\ \A r \in Preloaded : PreloadedIid[r] < FirstIid

Iid == Nat \ {0}
Transactional(r) == KindOf[r] \in TransactionalKinds

Entry == [child : Iid, childKind : Kinds, parent : Iid, parentKind : Kinds]

VARIABLES
    rows,       \* the internal id of the committed row of each resource, or None
    entries,    \* committed referential integrity entries
    nextIid,    \* the next fresh internal resource id
    req,        \* the local state of each request
    served,     \* requests started so far
    faults      \* faults so far

vars == <<rows, entries, nextIid, req, served, faults>>

PCs == {"idle", "slotCheck", "enableCheck", "pick", "readParent", "link", "addRow",
        "getSelf", "listChildren", "deleteEntries", "confirm", "remove", "purge", "commit"}

\* A handler that serves nothing.  links, cut and row are what an open
\* transaction has written and not committed: entries inserted, the child whose
\* entries are deleted, and what happened to the row of cur.
Idle == [pc |-> "idle", cur |-> NoResource, todo |-> {}, iid |-> None, idx |-> 0,
         up |-> None, links |-> {}, cut |-> None, row |-> "none"]

Local == [pc : PCs, cur : Resource \cup {NoResource}, todo : SUBSET Resource,
          iid : Nat, idx : Nat, up : Nat, links : SUBSET Entry, cut : Nat,
          row : {"none", "insert", "delete"}]

\* The entries recorded for a resource that exists from the start.
PreloadedLinks(r) ==
    {[child |-> PreloadedIid[r], childKind |-> KindOf[r],
      parent |-> PreloadedIid[ParentsOf[r][j]],
      parentKind |-> KindOf[ParentsOf[r][j]]] : j \in 1..Len(ParentsOf[r])}

Init ==
    /\ rows = [r \in Resource |-> IF r \in Preloaded THEN PreloadedIid[r] ELSE None]
    /\ entries = UNION {PreloadedLinks(r) : r \in Preloaded}
    /\ nextIid = FirstIid
    /\ req = [p \in Request |-> Idle]
    /\ served = 0
    /\ faults = 0

EntriesOf(c) == {e \in entries : e.child = c}
ChildrenOf(c) == {e \in entries : e.parent = c}

\* Mutant: a uniqueness check that looks at the same key only.
LockedSameKeyOnly(p, r) ==
    \E q \in Request \ {p} : req[q].row # "none" /\ req[q].cur = r

\* A row that conflicts with r was inserted or deleted by another open
\* transaction: the database makes the statement wait until that one ends.
Locked(p, r) ==
    \E q \in Request \ {p} : req[q].row # "none" /\ Conflict(req[q].cur, r)

\* Another open transaction has deleted the entries of c: deleting them waits.
EntriesLocked(p, c) ==
    EntriesOf(c) # {} /\ \E q \in Request \ {p} : req[q].cut = c

Become(p, local) == req' = [req EXCEPT ![p] = local]

\* What follows the work on one resource: EnableAccounts takes the next address
\* whatever became of this one, every other request replies.
Done(p) ==
    IF req[p].todo = {} THEN Idle
    ELSE [Idle EXCEPT !.pc = "pick", !.todo = req[p].todo]

-----------------------------------------------------------------------------
(***************************************************************************)
(* Requests.                                                               *)
(***************************************************************************)

\* A client calls: the handler p starts with the given local state.
Begin(p, local) ==
    /\ req[p].pc = "idle"
    /\ served < MaxRequests
    /\ served' = served + 1
    /\ Become(p, local)
    /\ UNCHANGED <<rows, entries, nextIid, faults>>

BeginCreate(p, pc, S) == Begin(p, [Idle EXCEPT !.pc = pc, !.todo = S])
BeginDelete(p, r) == Begin(p, [Idle EXCEPT !.pc = "getSelf", !.cur = r])

OfKind(k) == {r \in Resource : KindOf[r] = k}

CreateApplication(p) == \E r \in OfKind("application") : BeginCreate(p, "pick", {r})
CreateHSMModule(p) == \E r \in OfKind("module") : BeginCreate(p, "pick", {r})
CreateUser(p) == \E r \in OfKind("user") : BeginCreate(p, "pick", {r})
CreateHSMSlot(p) == \E r \in OfKind("slot") : BeginCreate(p, "slotCheck", {r})

\* One or more addresses of the application, for one of its users.
EnableAccounts(p) ==
    \E u \in OfKind("user") :
        \E S \in SUBSET {r \in OfKind("account") : ParentsOf[r][1] = u} :
            S # {} /\ BeginCreate(p, "enableCheck", S)

DeleteApplication(p) == \E r \in OfKind("application") : BeginDelete(p, r)
DeleteHSMModule(p) == \E r \in OfKind("module") : BeginDelete(p, r)
DeleteUser(p) == \E r \in OfKind("user") : BeginDelete(p, r)
DeleteHSMSlot(p) == \E r \in OfKind("slot") : BeginDelete(p, r)
DisableAccount(p) == \E r \in OfKind("account") : BeginDelete(p, r)

\* eth_removeAccount: the accounts of every user with this address.
DeleteAllAccountsForAddress(p) ==
    \E a \in {AddressOf[r] : r \in OfKind("account")} :
        BeginCreate(p, "purge", {r \in OfKind("account") : AddressOf[r] = a})

-----------------------------------------------------------------------------
(***************************************************************************)
(* Steps of a creation.                                                    *)
(***************************************************************************)

\* A read that decides whether a creation goes on: the last parent must exist,
\* and the HSM must agree to what is asked (Reset and IsAlive of a slot, the
\* connection and the keys behind addresses): its answer may be either.
Precheck(p) ==
    /\ req[p].pc \in {"slotCheck", "enableCheck"}
    /\ \E r \in req[p].todo :
          \/ Become(p, Idle)
          \/ /\ rows[ParentsOf[r][Len(ParentsOf[r])]] # None
             /\ Become(p, [req[p] EXCEPT !.pc = "pick"])
    /\ UNCHANGED <<rows, entries, nextIid, served, faults>>

\* The use case takes a fresh internal resource id for the new resource.
NewResource(p) ==
    /\ req[p].pc = "pick"
    /\ \E r \in req[p].todo :
          Become(p, [req[p] EXCEPT !.cur = r, !.todo = @ \ {r}, !.iid = nextIid, !.idx = 1,
                       !.pc = IF Len(ParentsOf[r]) = 0 THEN "addRow" ELSE "readParent"])
    /\ nextIid' = nextIid + 1
    /\ UNCHANGED <<rows, entries, served, faults>>

\* Get of the parent to link to; without it, PreconditionFailed.
ReadParent(p) ==
    /\ req[p].pc = "readParent"
    /\ LET parent == rows[ParentsOf[req[p].cur][req[p].idx]] IN
          \/ parent = None /\ Become(p, Done(p))
          \/ parent # None /\ Become(p, [req[p] EXCEPT !.up = parent, !.pc = "link"])
    /\ UNCHANGED <<rows, entries, nextIid, served, faults>>

\* Mutant: the natural key of the parent is recorded in place of its kind.
NewEntryByKey(p) ==
    [child |-> req[p].iid, childKind |-> KindOf[req[p].cur],
     parent |-> req[p].up, parentKind |-> ParentsOf[req[p].cur][req[p].idx]]

\* Mutant: the child is recorded as its own parent.
NewEntrySwapped(p) ==
    [child |-> req[p].iid, childKind |-> KindOf[req[p].cur],
     parent |-> req[p].iid, parentKind |-> KindOf[ParentsOf[req[p].cur][req[p].idx]]]

NewEntry(p) ==
    [child |-> req[p].iid, childKind |-> KindOf[req[p].cur],
     parent |-> req[p].up, parentKind |-> KindOf[ParentsOf[req[p].cur][req[p].idx]]]

\* Mutant: the result of CreateEntry is not looked at, and the entry is not there.
LinkNothing(p) ==
    /\ req[p].pc = "link"
    /\ Become(p, [req[p] EXCEPT !.idx = @ + 1, !.up = None,
                    !.pc = IF req[p].idx = Len(ParentsOf[req[p].cur])
                           THEN "addRow" ELSE "readParent"])
    /\ UNCHANGED <<rows, entries, nextIid, served, faults>>

\* Mutant: entries are written outside the transaction of the request.
LinkOutsideTransaction(p) ==
    /\ req[p].pc = "link"
    /\ Become(p, [req[p] EXCEPT !.idx = @ + 1, !.up = None,
                    !.pc = IF req[p].idx = Len(ParentsOf[req[p].cur])
                           THEN "addRow" ELSE "readParent"])
    /\ entries' = entries \cup {NewEntry(p)}
    /\ UNCHANGED <<rows, nextIid, served, faults>>

\* CreateEntry: the link to the parent is written before the row of the child.
LinkToParent(p) ==
    /\ req[p].pc = "link"
    /\ LET next == [req[p] EXCEPT !.idx = @ + 1, !.up = None,
                      !.pc = IF req[p].idx = Len(ParentsOf[req[p].cur])
                             THEN "addRow" ELSE "readParent"]
       IN \/ /\ Transactional(req[p].cur)
             /\ Become(p, [next EXCEPT !.links = @ \cup {NewEntry(p)}])
             /\ UNCHANGED entries
          \/ /\ ~Transactional(req[p].cur)
             /\ Become(p, next)
             /\ entries' = entries \cup {NewEntry(p)}
    /\ UNCHANGED <<rows, nextIid, served, faults>>

\* Mutant: AlreadyExists is retried instead of reported.
AddRowUntilFree(p) ==
    /\ req[p].pc = "addRow"
    /\ ~Locked(p, req[p].cur)
    /\ \A s \in Resource : Conflict(s, req[p].cur) => rows[s] = None
    /\ \/ /\ Transactional(req[p].cur)
          /\ Become(p, [req[p] EXCEPT !.row = "insert", !.pc = "commit"])
          /\ UNCHANGED rows
       \/ /\ ~Transactional(req[p].cur)
          /\ rows' = [rows EXCEPT ![req[p].cur] = req[p].iid]
          /\ Become(p, Done(p))
    /\ UNCHANGED <<entries, nextIid, served, faults>>

\* INSERT of the row.  AlreadyExists rolls a transaction back; nothing takes
\* back the entry that a request without one has written.
AddRow(p) ==
    /\ req[p].pc = "addRow"
    /\ ~Locked(p, req[p].cur)
    /\ \/ /\ \E s \in Resource : Conflict(s, req[p].cur) /\ rows[s] # None
          /\ Become(p, Done(p))
          /\ UNCHANGED rows
       \/ /\ \A s \in Resource : Conflict(s, req[p].cur) => rows[s] = None
          /\ \/ /\ Transactional(req[p].cur)
                /\ Become(p, [req[p] EXCEPT !.row = "insert", !.pc = "commit"])
                /\ UNCHANGED rows
             \/ /\ ~Transactional(req[p].cur)
                /\ rows' = [rows EXCEPT ![req[p].cur] = req[p].iid]
                /\ Become(p, Done(p))
    /\ UNCHANGED <<entries, nextIid, served, faults>>

-----------------------------------------------------------------------------
(***************************************************************************)
(* Steps of a deletion.                                                    *)
(***************************************************************************)

\* Get of the resource itself, for its internal id.
GetSelf(p) ==
    /\ req[p].pc = "getSelf"
    /\ \/ rows[req[p].cur] = None /\ Become(p, Idle)
       \/ /\ rows[req[p].cur] # None
          /\ Become(p, [req[p] EXCEPT !.iid = rows[req[p].cur], !.pc = "listChildren"])
    /\ UNCHANGED <<rows, entries, nextIid, served, faults>>

\* Mutant: the elements that depend on the resource are listed and not looked at.
ListMyChildrenEntriesOnly(p) ==
    /\ req[p].pc = "listChildren"
    /\ Become(p, [req[p] EXCEPT !.pc = "deleteEntries"])
    /\ UNCHANGED <<rows, entries, nextIid, served, faults>>

\* ListMyChildrenEntries: with an element depending on it, PreconditionFailed.
ListMyChildrenEntries(p) ==
    /\ req[p].pc = "listChildren"
    /\ \/ ChildrenOf(req[p].iid) # {} /\ Become(p, Idle)
       \/ /\ ChildrenOf(req[p].iid) = {}
          /\ Become(p, [req[p] EXCEPT !.pc = "deleteEntries"])
    /\ UNCHANGED <<rows, entries, nextIid, served, faults>>

\* Mutant: entries are deleted outside the transaction of the request.
DeleteMyEntriesAtOnce(p) ==
    /\ req[p].pc = "deleteEntries"
    /\ Become(p, [req[p] EXCEPT !.pc = "confirm"])
    /\ entries' = entries \ EntriesOf(req[p].iid)
    /\ UNCHANGED <<rows, nextIid, served, faults>>

DeleteMyEntriesIfAny(p) ==
    /\ req[p].pc = "deleteEntries"
    /\ ~EntriesLocked(p, req[p].iid)
    /\ \/ /\ Transactional(req[p].cur)
          /\ Become(p, [req[p] EXCEPT !.cut = req[p].iid, !.pc = "confirm"])
          /\ UNCHANGED entries
       \/ /\ ~Transactional(req[p].cur)
          /\ Become(p, [req[p] EXCEPT !.pc = "confirm"])
          /\ entries' = entries \ EntriesOf(req[p].iid)
    /\ UNCHANGED <<rows, nextIid, served, faults>>

\* The Get of storage.Remove; NotFound rolls a transaction back.
ConfirmRow(p) ==
    /\ req[p].pc = "confirm"
    /\ \/ rows[req[p].cur] = None /\ Become(p, Idle)
       \/ rows[req[p].cur] # None /\ Become(p, [req[p] EXCEPT !.pc = "remove"])
    /\ UNCHANGED <<rows, entries, nextIid, served, faults>>

\* The DELETE of storage.Remove: by natural key, whichever row has it now.
RemoveRow(p) ==
    /\ req[p].pc = "remove"
    /\ ~Locked(p, req[p].cur)
    /\ \/ /\ Transactional(req[p].cur)
          /\ Become(p, [req[p] EXCEPT !.pc = "commit",
                          !.row = IF rows[req[p].cur] = None THEN "none" ELSE "delete"])
          /\ UNCHANGED rows
       \/ /\ ~Transactional(req[p].cur)
          /\ rows' = [rows EXCEPT ![req[p].cur] = None]
          /\ Become(p, Idle)
    /\ UNCHANGED <<entries, nextIid, served, faults>>

\* RemoveAllForAddress, after the HSM has removed the key or refused to: the
\* rows of the accounts go, whatever entries they have stay.
RemoveAllForAddress(p) ==
    /\ req[p].pc = "purge"
    /\ \/ UNCHANGED rows
       \/ rows' = [r \in Resource |-> IF r \in req[p].todo THEN None ELSE rows[r]]
    /\ Become(p, Idle)
    /\ UNCHANGED <<entries, nextIid, served, faults>>

-----------------------------------------------------------------------------
\* The outermost ExecuteInTransaction commits what the use case wrote.
Commit(p) ==
    /\ req[p].pc = "commit"
    /\ entries' = (entries \ EntriesOf(req[p].cut)) \cup req[p].links
    /\ rows' = [rows EXCEPT ![req[p].cur] =
                   CASE req[p].row = "insert" -> req[p].iid
                     [] req[p].row = "delete" -> None
                     [] OTHER -> @]
    /\ Become(p, Done(p))
    /\ UNCHANGED <<nextIid, served, faults>>

\* A statement fails, or the handler dies: an open transaction is rolled back,
\* statements already committed stay.  EnableAccounts collects the failure of a
\* statement of one address and goes on with the others.
Fault(p) ==
    /\ req[p].pc # "idle"
    /\ faults < MaxFaults
    /\ faults' = faults + 1
    /\ \/ Become(p, Idle)
       \/ req[p].pc \in {"readParent", "link", "addRow"} /\ Become(p, Done(p))
    /\ UNCHANGED <<rows, entries, nextIid, served>>

Call(p) ==
    \/ CreateApplication(p) \/ CreateHSMModule(p) \/ CreateUser(p) \/ CreateHSMSlot(p)
    \/ EnableAccounts(p)
    \/ DeleteApplication(p) \/ DeleteHSMModule(p) \/ DeleteUser(p) \/ DeleteHSMSlot(p)
    \/ DisableAccount(p) \/ DeleteAllAccountsForAddress(p)

Step(p) ==
    \/ Precheck(p) \/ NewResource(p) \/ ReadParent(p) \/ LinkToParent(p) \/ AddRow(p)
    \/ GetSelf(p) \/ ListMyChildrenEntries(p) \/ DeleteMyEntriesIfAny(p)
    \/ ConfirmRow(p) \/ RemoveRow(p) \/ RemoveAllForAddress(p)
    \/ Commit(p)

\* Every request served: the bounded model stops here.
Terminated ==
    /\ served = MaxRequests
    /\ \A p \in Request : req[p].pc = "idle"
    /\ UNCHANGED vars

Next ==
    \/ \E p \in Request : Call(p) \/ Step(p) \/ Fault(p)
    \/ Terminated

Spec == Init /\ [][Next]_vars

\* A handler that is running goes on: goroutines are scheduled, and a statement
\* that is not waiting for a lock is answered.
FairSpec == Spec /\ \A p \in Request : WF_vars(Step(p))
-----------------------------------------------------------------------------
(***************************************************************************)
(* Properties.                                                             *)
(***************************************************************************)

\* The tables and the local state of every handler have their types.
TypeOK ==
    /\ rows \in [Resource -> Nat]
    /\ entries \subseteq Entry
    /\ nextIid \in Iid
    /\ req \in [Request -> Local]
    /\ served \in 0..MaxRequests
    /\ faults \in 0..MaxFaults

Live(r) == rows[r] # None

\* Every dependency of the row of r is recorded.
Protected(r) ==
    \A j \in 1..Len(ParentsOf[r]) :
        \E e \in EntriesOf(rows[r]) : e.parentKind = KindOf[ParentsOf[r][j]]

\* createSlot writes both entries of a slot and its row in one transaction, and
\* DeleteHSMSlot deletes them in one: no interleaving, rollback or crash shows a
\* committed slot without the entries that keep its application and its module
\* from being removed.
TransactionalRowsProtected ==
    \A r \in Resource : Transactional(r) /\ Live(r) => Protected(r)

\* CreateUser and CreateAccount write the entry before the row, DeleteUser and
\* DeleteAccount delete it just before the row.  Without a transaction a row can
\* be seen without its entry, but, as long as no statement fails, only while the
\* deletion that removed the entry of this very row is about to remove the row.
UnprotectedOnlyWhileDeleted ==
    \A r \in Resource : Live(r) /\ ~Protected(r) =>
        \/ faults > 0
        \/ \E p \in Request : req[p].pc \in {"confirm", "remove"} /\ req[p].iid = rows[r]

\* GetHSMSlotByApplication treats two slots of one application as an internal
\* error, and two applications of one slot would share its keys: the unique
\* indexes and the row locks keep the second one out, whatever the order in
\* which two creations insert, wait, commit and roll back.
OneSlotPerApplication ==
    \A r, s \in OfKind("slot") : Live(r) /\ Live(s) =>
        \/ r = s
        \/ /\ ParentsOf[r][1] # ParentsOf[s][1]
           /\ <<ParentsOf[r][2], SlotOf[r]>> # <<ParentsOf[s][2], SlotOf[s]>>

\* A resource that exists has every resource it depends on: removeAll*Dependencies
\* refuses to remove a parent, and the creation refuses a missing one.  (A user
\* or an account whose deletion fails half-way has lost its entry: see
\* UnprotectedOnlyWhileDeleted.)
DependenciesUnbroken ==
    faults = 0 => \A r \in Resource : Live(r) =>
        \A j \in 1..Len(ParentsOf[r]) : Live(ParentsOf[r][j])

AllIdle == \A p \in Request : req[p].pc = "idle"

\* Entries tell the truth.  One of a slot belongs to a slot that exists: failed
\* creations, failed deletions and crashes leave none behind.  And when nothing
\* runs, those of a resource name the rows its parents have now, not rows of the
\* same name removed since.
EntriesTrue ==
    /\ \A e \in entries : e.childKind = "slot" => \E r \in Resource : rows[r] = e.child
    /\ AllIdle /\ faults = 0 => \A r \in Resource : Live(r) =>
         \A j \in 1..Len(ParentsOf[r]) :
             \E e \in EntriesOf(rows[r]) : e.parent = rows[ParentsOf[r][j]]

\* When nothing runs, a resource whose dependents have all been removed can be
\* removed: no entry names it as parent unless a dependent of it exists.
RemovableOnceChildless ==
    AllIdle => \A r \in Resource : Live(r) /\ ChildrenOf(rows[r]) # {} =>
        \E s \in Resource : Live(s) /\ \E j \in 1..Len(ParentsOf[s]) : ParentsOf[s][j] = r

\* Every request is answered: no two transactions wait for each other's rows.
RequestsReply == \A p \in Request : req[p].pc # "idle" ~> req[p].pc = "idle"
=============================================================================
