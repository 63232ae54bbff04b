---------------------- MODULE ResourceIntegrityProofs ----------------------
(***************************************************************************)
(* ResourceIntegrity for every catalogue of resources, every number of     *)
(* requests and every bound.  IInv is the inductive invariant; its parts   *)
(* say where a handler is (Control), why internal ids identify a row       *)
(* (Identity), which links a creation has written (Linked), what the row   *)
(* locks keep apart (Locks) and who may have removed a link (Covered).     *)
(***************************************************************************)
EXTENDS ResourceIntegrity, TLAPS

\* A local state l that has taken a new internal id, one that works on the id it read.
Creating(l) ==
    \/ l.pc \in {"readParent", "link", "addRow"}
    \/ l.pc = "commit" /\ l.row = "insert"

Deleting(l) ==
    \/ l.pc \in {"listChildren", "deleteEntries", "confirm", "remove"}
    \/ l.pc = "commit" /\ l.row # "insert"

Parents(r) == 1..Len(ParentsOf[r])

Control(l) ==
    /\ Creating(l) \/ Deleting(l) \/ l.pc = "getSelf" => l.cur \in Resource
    /\ Creating(l) \/ Deleting(l) => l.iid \in Iid
    /\ l.pc \in {"readParent", "link"} => l.idx \in Parents(l.cur)
    /\ l.pc = "addRow" \/ l.row = "insert" => l.idx = Len(ParentsOf[l.cur]) + 1
    /\ l.pc = "link" => l.up \in Iid
    /\ l.row # "none" => l.pc = "commit"
    /\ l.pc = "commit" => Transactional(l.cur)
    /\ l.cut # None =>
          /\ l.cut = l.iid
          /\ l.pc \in {"confirm", "remove", "commit"}
          /\ l.row # "insert"
          /\ Transactional(l.cur)
    /\ l.links # {} => Creating(l) /\ Transactional(l.cur)
    /\ ~Creating(l) /\ ~Deleting(l) => l.iid = None

Identity ==
    /\ \A r \in Resource : rows[r] < nextIid
    /\ \A p \in Request : req[p].iid < nextIid
    /\ \A r, s \in Resource : rows[r] # None /\ rows[r] = rows[s] => r = s
    /\ \A p \in Request : Creating(req[p]) => \A r \in Resource : rows[r] # req[p].iid
    /\ \A p, q \in Request : Creating(req[p]) /\ p # q => req[p].iid # req[q].iid
    /\ \A p \in Request : Deleting(req[p]) =>
          \A r \in Resource : rows[r] = req[p].iid => r = req[p].cur
    /\ \A p \in Request : req[p].pc = "commit" /\ req[p].row = "none" =>
          \A r \in Resource : rows[r] # req[p].iid

\* The first idx - 1 links of a creation are in the table or in its transaction.
LinkedAt(p) ==
    Creating(req[p]) =>
        \A j \in Parents(req[p].cur) : j < req[p].idx =>
            \E e \in entries \cup req[p].links :
                e.child = req[p].iid /\ e.parentKind = KindOf[ParentsOf[req[p].cur][j]]
Linked == \A p \in Request : LinkedAt(p)

Locks ==
    /\ \A p \in Request : req[p].row = "insert" =>
          \A s \in Resource : Conflict(s, req[p].cur) => rows[s] = None
    /\ \A p, q \in Request : p # q /\ req[p].row = "insert" /\ req[q].row # "none" =>
          ~Conflict(req[p].cur, req[q].cur)

\* No two rows that a unique index keeps apart are committed.
SlotsApart == \A r, s \in Resource : Live(r) /\ Live(s) /\ Conflict(r, s) => r = s

\* The deletion that took the link of the row of r, and has not removed the row.
AboutToRemove(r) ==
    \E p \in Request : req[p].pc \in {"confirm", "remove"} /\ req[p].iid = rows[r]

Covered ==
    \A r \in Resource : Live(r) /\ ~Protected(r) =>
        ~Transactional(r) /\ (faults > 0 \/ AboutToRemove(r))

IInv ==
    /\ TypeOK
    /\ \A p \in Request : Control(req[p])
    /\ Identity
    /\ Linked
    /\ Locks
    /\ SlotsApart
    /\ Covered

-----------------------------------------------------------------------------
(***************************************************************************)
(* Types and control.                                                      *)
(***************************************************************************)

\* What the assumption on the catalogue says of one dependency.
LEMMA ParentFacts ==
    ASSUME NEW r \in Resource
    PROVE  /\ KindOf[r] \in Kinds
           /\ ParentsOf[r] \in Seq(Resource)
           /\ Len(ParentsOf[r]) \in Nat
           /\ \A j \in Parents(r) : /\ ParentsOf[r][j] \in Resource
                                  /\ KindOf[ParentsOf[r][j]] \in Kinds
BY ResourceAssumption DEF Parents

\* The part of the invariant that TypeOK needs to be inductive.
TypedControl == TypeOK /\ \A p \in Request : Control(req[p])

\* Idle is a local state, and satisfies Control.
LEMMA IdleLocal == Idle \in Local /\ Control(Idle)
BY DEF Idle, Local, PCs, None, Control, Creating, Deleting

\* Replacing the local state of one handler keeps the types of all of them.
LEMMA Replace ==
    ASSUME NEW p \in Request, NEW l,
           req \in [Request -> Local], \A q \in Request : Control(req[q]),
           l \in Local, Control(l), Become(p, l)
    PROVE  /\ req' \in [Request -> Local]
           /\ \A q \in Request : Control(req'[q])
           /\ req'[p] = l
           /\ \A q \in Request \ {p} : req'[q] = req[q]
<1>1. req' = [req EXCEPT ![p] = l] BY DEF Become
<1>2. req' \in [Request -> Local] /\ req'[p] = l BY <1>1
<1>3. \A q \in Request \ {p} : req'[q] = req[q] BY <1>1
<1>. QED BY <1>2, <1>3

\* The state in which the model starts has the types.
LEMMA InitTypedControl == Init => TypedControl
<1>. SUFFICES ASSUME Init PROVE TypedControl
  OBVIOUS
<1>. USE DEF Init
<1>1. rows \in [Resource -> Nat]
  BY PreloadedAssumption DEF None
<1>2. entries \subseteq Entry
  <2>. SUFFICES ASSUME NEW r \in Preloaded, NEW j \in Parents(r)
                PROVE  [child |-> PreloadedIid[r], childKind |-> KindOf[r],
                        parent |-> PreloadedIid[ParentsOf[r][j]],
                        parentKind |-> KindOf[ParentsOf[r][j]]] \in Entry
    BY DEF PreloadedLinks, Parents
  <2>1. r \in Resource BY PreloadedAssumption
  <2>2. ParentsOf[r][j] \in Preloaded BY PreloadedAssumption DEF Parents
  <2>3. PreloadedIid[r] \in Iid /\ PreloadedIid[ParentsOf[r][j]] \in Iid
    BY <2>2, PreloadedAssumption DEF Iid
  <2>. QED BY <2>1, <2>3, ParentFacts DEF Entry
<1>3. nextIid \in Iid
  BY PreloadedAssumption DEF Iid
<1>4. req \in [Request -> Local] /\ \A p \in Request : Control(req[p])
  BY IdleLocal
<1>. QED
  BY <1>1, <1>2, <1>3, <1>4, BoundAssumption DEF TypedControl, TypeOK

\* A local state of a handler that has neither taken nor read an internal id.
Neutral(l) ==
    /\ l \in Local /\ Control(l)
    /\ ~Creating(l) /\ ~Deleting(l)

\* What a handler has when it is served a request, and when it replies.
LEMMA NeutralStates ==
    ASSUME NEW p \in Request, req[p] \in Local
    PROVE  /\ Neutral(Idle)
           /\ Neutral(Done(p))
           /\ \A pc \in {"slotCheck", "enableCheck", "pick", "purge"} :
                 \A S \in SUBSET Resource : Neutral([Idle EXCEPT !.pc = pc, !.todo = S])
           /\ \A r \in Resource : Neutral([Idle EXCEPT !.pc = "getSelf", !.cur = r])
\* A local state with no internal id, link, cut or row to write is neutral.
<1>1. ASSUME NEW l \in Local, l.iid = None, l.links = {}, l.cut = None, l.row = "none",
             l.pc \in {"idle", "slotCheck", "enableCheck", "pick", "purge", "getSelf"},
             l.pc = "getSelf" => l.cur \in Resource
      PROVE  Neutral(l)
  <2>1. ~Creating(l) /\ ~Deleting(l)
    BY <1>1 DEF Creating, Deleting
  <2>2. Control(l)
    BY <1>1, <2>1 DEF Control
  <2>. QED BY <2>1, <2>2 DEF Neutral
<1>2. Neutral(Idle)
  BY IdleLocal DEF Neutral, Idle, Creating, Deleting
<1>3. ASSUME NEW pc \in {"slotCheck", "enableCheck", "pick", "purge"}, NEW S \in SUBSET Resource
      PROVE  Neutral([Idle EXCEPT !.pc = pc, !.todo = S])
  <2>. DEFINE m == [Idle EXCEPT !.pc = pc, !.todo = S]
  <2>1. m \in Local
    BY DEF Idle, Local, PCs, None
  <2>2. m.pc = pc /\ m.iid = None /\ m.links = {} /\ m.cut = None /\ m.row = "none"
    BY DEF Idle
  <2>. HIDE DEF m
  <2>3. Neutral(m)
    BY <1>1, <2>1, <2>2
  <2>. QED BY <2>3 DEF m
<1>4. ASSUME NEW r \in Resource
      PROVE  Neutral([Idle EXCEPT !.pc = "getSelf", !.cur = r])
  <2>. DEFINE m == [Idle EXCEPT !.pc = "getSelf", !.cur = r]
  <2>1. m \in Local
    BY DEF Idle, Local, PCs, None
  <2>2. /\ m.pc = "getSelf" /\ m.cur = r
        /\ m.iid = None /\ m.links = {} /\ m.cut = None /\ m.row = "none"
    BY DEF Idle
  <2>. HIDE DEF m
  <2>3. Neutral(m)
    BY <1>1, <2>1, <2>2
  <2>. QED BY <2>3 DEF m
<1>5. req[p].todo \in SUBSET Resource
  BY DEF Local
<1>6. Neutral(Done(p))
  BY <1>2, <1>3, <1>5 DEF Done
<1>. QED BY <1>2, <1>3, <1>4, <1>6

\* Every call starts a handler in a neutral state.
LEMMA CallBegins ==
    ASSUME NEW p \in Request, req[p] \in Local, Call(p)
    PROVE  \E l : Neutral(l) /\ Begin(p, l)
<1>1. ASSUME NEW pc \in {"slotCheck", "enableCheck", "pick", "purge"},
             NEW S \in SUBSET Resource, BeginCreate(p, pc, S)
      PROVE  \E l : Neutral(l) /\ Begin(p, l)
  <2>1. Neutral([Idle EXCEPT !.pc = pc, !.todo = S]) BY NeutralStates
  <2>. QED BY <1>1, <2>1 DEF BeginCreate
<1>2. ASSUME NEW r \in Resource, BeginDelete(p, r)
      PROVE  \E l : Neutral(l) /\ Begin(p, l)
  <2>1. Neutral([Idle EXCEPT !.pc = "getSelf", !.cur = r]) BY NeutralStates
  <2>. QED BY <1>2, <2>1 DEF BeginDelete
<1>. USE DEF OfKind
<1>0. ASSUME NEW r \in Resource, BeginCreate(p, "pick", {r}) \/ BeginCreate(p, "slotCheck", {r})
      PROVE  \E l : Neutral(l) /\ Begin(p, l)
  <2>1. {r} \in SUBSET Resource
    OBVIOUS
  <2>. QED BY <1>0, <1>1, <2>1
<1>3. CASE CreateApplication(p) \/ CreateHSMModule(p) \/ CreateUser(p)
  BY <1>0, <1>3 DEF CreateApplication, CreateHSMModule, CreateUser
<1>4. CASE CreateHSMSlot(p)
  BY <1>0, <1>4 DEF CreateHSMSlot
<1>5. CASE EnableAccounts(p)
  <2>. PICK u \in OfKind("user") :
             \E S \in SUBSET {r \in OfKind("account") : ParentsOf[r][1] = u} :
                 BeginCreate(p, "enableCheck", S)
    BY <1>5 DEF EnableAccounts
  <2>1. PICK S \in SUBSET {r \in OfKind("account") : ParentsOf[r][1] = u} :
             BeginCreate(p, "enableCheck", S)
    OBVIOUS
  <2>2. S \in SUBSET Resource
    OBVIOUS
  <2>. QED BY <1>1, <2>1, <2>2
<1>6. CASE DeleteAllAccountsForAddress(p)
  <2>1. PICK a : BeginCreate(p, "purge", {r \in OfKind("account") : AddressOf[r] = a})
    BY <1>6 DEF DeleteAllAccountsForAddress
  <2>2. {r \in OfKind("account") : AddressOf[r] = a} \in SUBSET Resource
    OBVIOUS
  <2>. QED BY <1>1, <2>1, <2>2
<1>7. CASE \/ DeleteApplication(p) \/ DeleteHSMModule(p) \/ DeleteUser(p)
           \/ DeleteHSMSlot(p) \/ DisableAccount(p)
  BY <1>2, <1>7
  DEF DeleteApplication, DeleteHSMModule, DeleteUser, DeleteHSMSlot, DisableAccount
<1>. QED
  BY <1>3, <1>4, <1>5, <1>6, <1>7 DEF Call

\* Every step keeps the types and what is known of where a handler is.
LEMMA NextTypedControl == TypedControl /\ [Next]_vars => TypedControl'
<1>. SUFFICES ASSUME TypedControl, [Next]_vars PROVE TypedControl'
  OBVIOUS
<1>. USE DEF TypedControl, TypeOK
<1>0. CASE UNCHANGED vars
  BY <1>0 DEF vars
<1>1. ASSUME NEW p \in Request, NEW m \in Local, Control(m), Become(p, m),
             rows' \in [Resource -> Nat], entries' \subseteq Entry, nextIid' \in Iid,
             served' \in 0..MaxRequests, faults' \in 0..MaxFaults
      PROVE  TypedControl'
  BY <1>1, Replace
<1>2. ASSUME NEW p \in Request, NEW m, Neutral(m), Become(p, m),
             UNCHANGED <<rows, entries, nextIid>>,
             served' \in 0..MaxRequests, faults' \in 0..MaxFaults
      PROVE  TypedControl'
  BY <1>1, <1>2 DEF Neutral
<1>3. ASSUME NEW p \in Request, Call(p)
      PROVE  TypedControl'
  BY <1>2, <1>3, CallBegins, BoundAssumption DEF Begin
<1>4. ASSUME NEW p \in Request, Fault(p)
      PROVE  TypedControl'
  <2>1. faults' \in 0..MaxFaults
    BY <1>4, BoundAssumption DEF Fault
  <2>2. Neutral(Idle) /\ Neutral(Done(p))
    BY NeutralStates
  <2>3. Become(p, Idle) \/ Become(p, Done(p))
    BY <1>4 DEF Fault
  <2>. QED BY <1>2, <1>4, <2>1, <2>2, <2>3 DEF Fault
<1>5. ASSUME NEW p \in Request, Step(p)
      PROVE  TypedControl'
  <2>. DEFINE l == req[p]
  <2>0. /\ l \in Local /\ Control(l)
        /\ Neutral(Idle) /\ Neutral(Done(p))
    BY NeutralStates
  <2>1. CASE Precheck(p)
    <3>1. l.pc \in {"slotCheck", "enableCheck"} => Neutral([l EXCEPT !.pc = "pick"])
      BY <2>0 DEF Local, PCs, Control, Creating, Deleting, None, Neutral
    <3>. QED BY <1>2, <2>0, <2>1, <3>1 DEF Precheck
  <2>2. CASE NewResource(p)
    <3>. PICK r \in l.todo :
             Become(p, [l EXCEPT !.cur = r, !.todo = @ \ {r}, !.iid = nextIid, !.idx = 1,
                          !.pc = IF Len(ParentsOf[r]) = 0 THEN "addRow" ELSE "readParent"])
      BY <2>2 DEF NewResource
    <3>. DEFINE m == [l EXCEPT !.cur = r, !.todo = @ \ {r}, !.iid = nextIid, !.idx = 1,
                        !.pc = IF Len(ParentsOf[r]) = 0 THEN "addRow" ELSE "readParent"]
    <3>1. r \in Resource /\ l.pc = "pick"
      BY <2>0, <2>2 DEF Local, NewResource
    <3>2. m \in Local
      BY <2>0, <3>1 DEF Local, PCs, Iid
    <3>3. Control(m)
      <4>1. /\ m.cur = r /\ m.iid = nextIid /\ m.idx = 1 /\ m.row = l.row /\ m.cut = l.cut
            /\ m.links = l.links
            /\ m.pc = IF Len(ParentsOf[r]) = 0 THEN "addRow" ELSE "readParent"
        BY <2>0 DEF Local
      <4>2. l.row = "none" /\ l.cut = None /\ l.links = {}
        BY <2>0, <3>1 DEF Control, Creating, Deleting, Local
      <4>. HIDE DEF m, l
      <4>. QED BY <3>1, <4>1, <4>2, ParentFacts DEF Control, Creating, Deleting, Parents
    <3>4. nextIid' \in Iid
      BY <2>2 DEF NewResource, Iid
    <3>. HIDE DEF m
    <3>. QED BY <1>1, <2>2, <3>2, <3>3, <3>4 DEF NewResource, m
  <2>3. CASE ReadParent(p)
    <3>. DEFINE parent == rows[ParentsOf[l.cur][l.idx]]
                m == [l EXCEPT !.up = parent, !.pc = "link"]
    <3>1. l.cur \in Resource /\ l.idx \in Parents(l.cur) /\ l.pc = "readParent"
      BY <2>0, <2>3 DEF ReadParent, Control, Creating
    <3>2. parent \in Nat
      BY <3>1, ParentFacts
    <3>3. m \in Local
      BY <2>0, <3>2 DEF Local, PCs
    <3>4. parent # None => Control(m)
      <4>. HIDE DEF parent
      <4>. QED BY <2>0, <3>1, <3>2 DEF Local, Control, Creating, Deleting, Iid, None
    <3>. QED BY <1>1, <1>2, <2>0, <2>3, <3>3, <3>4 DEF ReadParent
  <2>4. CASE LinkToParent(p)
    <3>. DEFINE m == [l EXCEPT !.idx = @ + 1, !.up = None,
                        !.pc = IF l.idx = Len(ParentsOf[l.cur]) THEN "addRow" ELSE "readParent"]
                n == [m EXCEPT !.links = @ \cup {NewEntry(p)}]
    <3>1. /\ l.cur \in Resource /\ l.idx \in Parents(l.cur) /\ l.pc = "link"
          /\ l.iid \in Iid /\ l.up \in Iid
          /\ l.row = "none" /\ l.cut = None
      BY <2>0, <2>4 DEF LinkToParent, Control, Creating, Local
    <3>2. NewEntry(p) \in Entry
      BY <3>1, ParentFacts DEF NewEntry, Entry
    <3>3. /\ m.cur = l.cur /\ m.iid = l.iid /\ m.idx = l.idx + 1 /\ m.row = l.row /\ m.cut = l.cut
          /\ m.links = l.links
          /\ m.pc = IF l.idx = Len(ParentsOf[l.cur]) THEN "addRow" ELSE "readParent"
      BY <2>0, <3>1 DEF Local
    <3>8. m \in Local
      <4>1. l.idx + 1 \in Nat /\ None \in Nat
        BY <2>0 DEF Local, None
      <4>. QED BY <2>0, <4>1 DEF Local, PCs
    <3>4. Control(m)
      <4>. HIDE DEF m
      <4>1. l.links # {} => Transactional(l.cur)
        BY <2>0 DEF Control
      <4>2. Len(ParentsOf[l.cur]) \in Nat /\ l.idx \in 1..Len(ParentsOf[l.cur])
        BY <3>1, ParentFacts DEF Parents
      <4>. HIDE DEF l
      <4>3. Creating(m) /\ ~Deleting(m)
        BY <3>3 DEF Creating, Deleting
      <4>4. m.pc = "readParent" => m.idx \in Parents(m.cur)
        BY <3>3, <4>2 DEF Parents
      <4>5. m.pc = "addRow" => m.idx = Len(ParentsOf[m.cur]) + 1
        BY <3>3
      <4>. QED BY <3>1, <3>3, <4>1, <4>3, <4>4, <4>5 DEF Control
    <3>5. n \in Local /\ (Transactional(l.cur) => Control(n))
      <4>. HIDE DEF m
      <4>1. /\ n.cur = m.cur /\ n.iid = m.iid /\ n.idx = m.idx /\ n.row = m.row
            /\ n.cut = m.cut /\ n.pc = m.pc /\ n.up = m.up
            /\ n \in Local
        BY <3>2, <3>8 DEF Local
      <4>2. m.pc \in {"addRow", "readParent"} /\ m.cur = l.cur
        BY <3>3
      <4>. HIDE DEF n, l
      <4>. QED BY <3>4, <4>1, <4>2 DEF Control, Creating, Deleting
    <3>. HIDE DEF m, n
    <3>6. CASE Transactional(l.cur) /\ Become(p, n) /\ UNCHANGED entries
      BY <1>1, <2>4, <3>5, <3>6 DEF LinkToParent
    <3>7. CASE Become(p, m) /\ entries' = entries \cup {NewEntry(p)}
      BY <1>1, <2>4, <3>2, <3>8, <3>4, <3>7 DEF LinkToParent
    <3>. QED BY <2>4, <3>6, <3>7 DEF LinkToParent, m, n
  <2>5. CASE AddRow(p)
    <3>. DEFINE m == [l EXCEPT !.row = "insert", !.pc = "commit"]
    <3>1. l.pc = "addRow" /\ Creating(l) /\ l.cur \in Resource /\ l.iid \in Iid
      BY <2>0, <2>5 DEF AddRow, Control, Creating
    <3>2. m \in Local
      BY <2>0 DEF Local, PCs
    <3>3. Transactional(l.cur) => Control(m)
      <4>1. /\ m.cur = l.cur /\ m.iid = l.iid /\ m.idx = l.idx /\ m.cut = l.cut
            /\ m.links = l.links /\ m.pc = "commit" /\ m.row = "insert"
        BY <2>0 DEF Local
      <4>2. l.cut = None
        BY <2>0, <3>1 DEF Control
      <4>. HIDE DEF m
      <4>. QED BY <2>0, <3>1, <4>1, <4>2 DEF Control, Creating, Deleting
    <3>. HIDE DEF m
    <3>4. CASE Become(p, m) /\ Transactional(l.cur) /\ UNCHANGED rows
      BY <1>1, <2>5, <3>2, <3>3, <3>4 DEF AddRow
    <3>5. CASE Become(p, Done(p)) /\ rows' \in [Resource -> Nat]
      BY <1>1, <2>0, <2>5, <3>5 DEF AddRow, Neutral
    <3>6. [rows EXCEPT ![l.cur] = l.iid] \in [Resource -> Nat]
      BY <3>1 DEF Iid
    <3>. QED BY <2>5, <3>4, <3>5, <3>6 DEF AddRow, m
  <2>6. CASE GetSelf(p)
    <3>. DEFINE m == [l EXCEPT !.iid = rows[l.cur], !.pc = "listChildren"]
    <3>1. l.pc = "getSelf" /\ l.cur \in Resource /\ rows[l.cur] \in Nat
      BY <2>0, <2>6 DEF GetSelf, Control
    <3>2. m \in Local
      BY <2>0, <3>1 DEF Local, PCs
    <3>3. rows[l.cur] # None => Control(m)
      <4>1. /\ m.cur = l.cur /\ m.iid = rows[l.cur] /\ m.cut = l.cut /\ m.row = l.row
            /\ m.links = l.links /\ m.pc = "listChildren"
        BY <2>0 DEF Local
      <4>2. l.cut = None /\ l.links = {} /\ l.row = "none"
        BY <2>0, <3>1 DEF Control, Creating, Local
      <4>. HIDE DEF m
      <4>. QED BY <3>1, <4>1, <4>2 DEF Control, Creating, Deleting, Iid, None
    <3>. HIDE DEF m
    <3>. QED BY <1>1, <1>2, <2>0, <2>6, <3>2, <3>3 DEF GetSelf, m
  <2>7. CASE ListMyChildrenEntries(p)
    <3>. DEFINE m == [l EXCEPT !.pc = "deleteEntries"]
    <3>1. l.pc = "listChildren"
      BY <2>7 DEF ListMyChildrenEntries
    <3>2. m \in Local /\ Control(m)
      BY <2>0, <3>1 DEF Local, PCs, Control, Creating, Deleting
    <3>. HIDE DEF m
    <3>. QED BY <1>1, <1>2, <2>0, <2>7, <3>2 DEF ListMyChildrenEntries, m
  <2>8. CASE DeleteMyEntriesIfAny(p)
    <3>. DEFINE m == [l EXCEPT !.pc = "confirm"]
                n == [l EXCEPT !.cut = l.iid, !.pc = "confirm"]
    <3>1. l.pc = "deleteEntries" /\ l.iid \in Iid
      BY <2>0, <2>8 DEF DeleteMyEntriesIfAny, Control, Deleting
    <3>2. m \in Local /\ Control(m)
      BY <2>0, <3>1 DEF Local, PCs, Control, Creating, Deleting
    <3>3. n \in Local /\ (Transactional(l.cur) => Control(n))
      BY <2>0, <3>1 DEF Local, PCs, Control, Creating, Deleting
    <3>4. entries \ EntriesOf(l.iid) \subseteq Entry
      OBVIOUS
    <3>. HIDE DEF m, n
    <3>. QED BY <1>1, <2>8, <3>2, <3>3, <3>4 DEF DeleteMyEntriesIfAny, m, n
  <2>9. CASE ConfirmRow(p)
    <3>. DEFINE m == [l EXCEPT !.pc = "remove"]
    <3>1. l.pc = "confirm"
      BY <2>9 DEF ConfirmRow
    <3>2. m \in Local /\ Control(m)
      BY <2>0, <3>1 DEF Local, PCs, Control, Creating, Deleting
    <3>. HIDE DEF m
    <3>. QED BY <1>1, <1>2, <2>0, <2>9, <3>2 DEF ConfirmRow, m
  <2>10. CASE RemoveRow(p)
    <3>. DEFINE m == [l EXCEPT !.pc = "commit",
                        !.row = IF rows[l.cur] = None THEN "none" ELSE "delete"]
    <3>1. l.pc = "remove"
      BY <2>10 DEF RemoveRow
    <3>2. m \in Local
      BY <2>0 DEF Local, PCs
    <3>3. Transactional(l.cur) => Control(m)
      <4>1. /\ m.cur = l.cur /\ m.iid = l.iid /\ m.idx = l.idx /\ m.cut = l.cut
            /\ m.links = l.links /\ m.pc = "commit" /\ m.row \in {"none", "delete"}
        BY <2>0 DEF Local
      <4>. HIDE DEF m
      <4>. QED BY <2>0, <3>1, <4>1 DEF Control, Creating, Deleting
    <3>4. [rows EXCEPT ![l.cur] = None] \in [Resource -> Nat]
      BY DEF None
    <3>. HIDE DEF m
    <3>5. CASE Become(p, m) /\ Transactional(l.cur) /\ UNCHANGED rows
      BY <1>1, <2>10, <3>2, <3>3, <3>5 DEF RemoveRow
    <3>6. CASE Become(p, Idle) /\ rows' = [rows EXCEPT ![l.cur] = None]
      BY <1>1, <2>0, <2>10, <3>4, <3>6 DEF RemoveRow, Neutral
    <3>. QED BY <2>10, <3>5, <3>6 DEF RemoveRow, m
  <2>11. CASE RemoveAllForAddress(p)
    <3>1. rows' \in [Resource -> Nat]
      BY <2>11 DEF RemoveAllForAddress, None
    <3>. QED BY <1>1, <2>0, <2>11, <3>1 DEF RemoveAllForAddress, Neutral
  <2>12. CASE Commit(p)
    <3>1. l.pc = "commit" /\ l.row \in {"none", "insert", "delete"} /\ l.links \subseteq Entry
      BY <2>0, <2>12 DEF Commit, Local
    <3>2. l.iid \in Nat
      BY <2>0 DEF Local
    <3>3. rows' \in [Resource -> Nat]
      BY <2>12, <3>1, <3>2 DEF Commit, None
    <3>4. entries' \subseteq Entry
      BY <2>12, <3>1 DEF Commit
    <3>. QED BY <1>1, <2>0, <2>12, <3>3, <3>4 DEF Commit, Neutral
  <2>. QED
    BY <1>5, <2>1, <2>2, <2>3, <2>4, <2>5, <2>6, <2>7, <2>8, <2>9, <2>10, <2>11, <2>12 DEF Step
<1>. QED
  BY <1>0, <1>3, <1>4, <1>5 DEF Next, Terminated, vars

-----------------------------------------------------------------------------
(***************************************************************************)
(* What each step does to the local state of the handler, field by field.  *)
(***************************************************************************)

\* The handler p goes on with the same resource and the same internal id.
Keeps(p) ==
    /\ req'[p].cur = req[p].cur
    /\ req'[p].iid = req[p].iid

\* Nor has its transaction written anything.
KeepsWrites(p) ==
    /\ req'[p].links = req[p].links
    /\ req'[p].cut = req[p].cut
    /\ req'[p].row = req[p].row

\* The other handlers are where they were.
Alone(p) == \A q \in Request \ {p} : req'[q] = req[q]

\* The assignment of Become, read back.
LEMMA Becomes ==
    ASSUME TypedControl, NEW p \in Request, NEW m, Become(p, m)
    PROVE  req'[p] = m /\ Alone(p)
BY DEF TypedControl, TypeOK, Become, Alone

\* A call, the check before a creation, a fault, a purge and a commit leave the
\* handler neutral.
LEMMA NeutralEffect ==
    ASSUME TypedControl, NEW p \in Request,
           Call(p) \/ Precheck(p) \/ Fault(p) \/ RemoveAllForAddress(p) \/ Commit(p)
    PROVE  Alone(p) /\ Neutral(req'[p])
<1>. DEFINE l == req[p]
<1>1. l \in Local /\ Control(l) /\ Neutral(Idle) /\ Neutral(Done(p))
  BY NeutralStates DEF TypedControl, TypeOK
<1>2. CASE Call(p)
  BY <1>1, <1>2, CallBegins, Becomes DEF Begin
<1>3. CASE Precheck(p)
  <2>1. l.pc \in {"slotCheck", "enableCheck"} => Neutral([l EXCEPT !.pc = "pick"])
    BY <1>1 DEF Local, PCs, Control, Creating, Deleting, None, Neutral
  <2>. QED BY <1>1, <1>3, <2>1, Becomes DEF Precheck
<1>4. CASE Fault(p) \/ RemoveAllForAddress(p) \/ Commit(p)
  BY <1>1, <1>4, Becomes DEF Fault, RemoveAllForAddress, Commit
<1>. QED BY <1>2, <1>3, <1>4

\* A call changes the local state of the handler, and no table.
LEMMA CallFrame ==
    ASSUME TypedControl, NEW p \in Request, Call(p)
    PROVE  UNCHANGED <<rows, entries, nextIid, faults>> /\ req[p].pc = "idle"
BY CallBegins DEF Begin, TypedControl, TypeOK

\* What taking a fresh id does to the handler: cur and iid are set, and nothing is
\* written.
LEMMA NewResourceEffect ==
    ASSUME TypedControl, NEW p \in Request, NewResource(p)
    PROVE  /\ Alone(p) /\ KeepsWrites(p)
           /\ ~Creating(req[p]) /\ ~Deleting(req[p])
           /\ req'[p].pc \in {"readParent", "addRow"}
           /\ req'[p].cur \in Resource /\ req'[p].iid = nextIid /\ req'[p].idx = 1
<1>. DEFINE l == req[p]
<1>0. l \in Local /\ Control(l)
  BY DEF TypedControl, TypeOK
<1>. PICK r \in l.todo :
           Become(p, [l EXCEPT !.cur = r, !.todo = @ \ {r}, !.iid = nextIid, !.idx = 1,
                        !.pc = IF Len(ParentsOf[r]) = 0 THEN "addRow" ELSE "readParent"])
  BY DEF NewResource
<1>. DEFINE m == [l EXCEPT !.cur = r, !.todo = @ \ {r}, !.iid = nextIid, !.idx = 1,
                    !.pc = IF Len(ParentsOf[r]) = 0 THEN "addRow" ELSE "readParent"]
<1>1. req'[p] = m /\ Alone(p)
  BY Becomes
<1>2. /\ m.cur = r /\ m.iid = nextIid /\ m.idx = 1 /\ m.row = l.row /\ m.cut = l.cut
      /\ m.links = l.links
      /\ m.pc = IF Len(ParentsOf[r]) = 0 THEN "addRow" ELSE "readParent"
      /\ r \in Resource
  BY <1>0 DEF Local
<1>3. ~Creating(l) /\ ~Deleting(l)
  BY DEF NewResource, Creating, Deleting
<1>. HIDE DEF m
<1>. QED BY <1>1, <1>2, <1>3 DEF KeepsWrites

\* Reading a parent writes nothing: the handler gives up, or remembers the id read.
LEMMA ReadParentEffect ==
    ASSUME TypedControl, NEW p \in Request, ReadParent(p)
    PROVE  /\ Alone(p)
           /\ \/ Neutral(req'[p])
              \/ /\ req'[p].pc = "link" /\ req'[p].idx = req[p].idx
                 /\ req'[p].up = rows[ParentsOf[req[p].cur][req[p].idx]]
                 /\ Keeps(p) /\ KeepsWrites(p)
<1>. DEFINE l == req[p]
            m == [l EXCEPT !.up = rows[ParentsOf[l.cur][l.idx]], !.pc = "link"]
<1>1. l \in Local /\ Neutral(Done(p))
  BY NeutralStates DEF TypedControl, TypeOK
<1>2. /\ m.cur = l.cur /\ m.iid = l.iid /\ m.idx = l.idx /\ m.row = l.row /\ m.cut = l.cut
      /\ m.links = l.links /\ m.pc = "link" /\ m.up = rows[ParentsOf[l.cur][l.idx]]
  BY <1>1 DEF Local
<1>3. Become(p, Done(p)) \/ Become(p, m)
  BY DEF ReadParent
<1>. HIDE DEF m
<1>. QED BY <1>1, <1>2, <1>3, Becomes DEF Keeps, KeepsWrites

\* CreateEntry adds one entry to the transaction of the handler, or to the table.
LEMMA LinkToParentEffect ==
    ASSUME TypedControl, NEW p \in Request, LinkToParent(p)
    PROVE  /\ Alone(p) /\ Keeps(p)
           /\ req[p].pc = "link"
           /\ req'[p].pc \in {"readParent", "addRow"} /\ req'[p].idx = req[p].idx + 1
           /\ req'[p].cut = req[p].cut /\ req'[p].row = req[p].row
           /\ req[p].links \subseteq req'[p].links
           /\ entries \subseteq entries'
           /\ NewEntry(p) \in entries' \cup req'[p].links
           /\ \/ entries' = entries /\ req'[p].links = req[p].links \cup {NewEntry(p)}
              \/ /\ entries' = entries \cup {NewEntry(p)} /\ req'[p].links = req[p].links
                 /\ ~Transactional(req[p].cur)
<1>. DEFINE l == req[p]
            m == [l EXCEPT !.idx = @ + 1, !.up = None,
                    !.pc = IF l.idx = Len(ParentsOf[l.cur]) THEN "addRow" ELSE "readParent"]
            n == [m EXCEPT !.links = @ \cup {NewEntry(p)}]
<1>1. l \in Local
  BY DEF TypedControl, TypeOK
<1>2. /\ m.cur = l.cur /\ m.iid = l.iid /\ m.idx = l.idx + 1 /\ m.row = l.row /\ m.cut = l.cut
      /\ m.links = l.links
      /\ m.pc \in {"addRow", "readParent"}
  BY <1>1 DEF Local
<1>3. /\ n.cur = l.cur /\ n.iid = l.iid /\ n.idx = l.idx + 1 /\ n.row = l.row /\ n.cut = l.cut
      /\ n.links = l.links \cup {NewEntry(p)}
      /\ n.pc \in {"addRow", "readParent"}
  BY <1>1 DEF Local
<1>4. \/ Become(p, n) /\ entries' = entries
      \/ Become(p, m) /\ entries' = entries \cup {NewEntry(p)} /\ ~Transactional(l.cur)
  BY DEF LinkToParent
<1>5. l.pc = "link"
  BY DEF LinkToParent
<1>. HIDE DEF m, n
<1>. QED BY <1>2, <1>3, <1>4, <1>5, Becomes DEF Keeps

\* The INSERT puts the row in the table or in the transaction of the handler, or
\* finds a conflicting row and gives up.
LEMMA AddRowEffect ==
    ASSUME TypedControl, NEW p \in Request, AddRow(p)
    PROVE  /\ Alone(p) /\ Creating(req[p]) /\ req[p].pc = "addRow"
           /\ \/ Neutral(req'[p]) /\ rows' = rows
              \/ /\ Neutral(req'[p]) /\ ~Transactional(req[p].cur) /\ ~Locked(p, req[p].cur)
                 /\ \A s \in Resource : Conflict(s, req[p].cur) => rows[s] = None
                 /\ rows' = [rows EXCEPT ![req[p].cur] = req[p].iid]
              \/ /\ req'[p].pc = "commit" /\ req'[p].row = "insert" /\ req'[p].idx = req[p].idx
                 /\ Keeps(p) /\ req'[p].links = req[p].links /\ req'[p].cut = req[p].cut
                 /\ rows' = rows /\ ~Locked(p, req[p].cur)
                 /\ \A s \in Resource : Conflict(s, req[p].cur) => rows[s] = None
<1>. DEFINE l == req[p]
            m == [l EXCEPT !.row = "insert", !.pc = "commit"]
<1>1. l \in Local /\ Neutral(Done(p))
  BY NeutralStates DEF TypedControl, TypeOK
<1>2. /\ m.cur = l.cur /\ m.iid = l.iid /\ m.idx = l.idx /\ m.row = "insert" /\ m.cut = l.cut
      /\ m.links = l.links /\ m.pc = "commit"
  BY <1>1 DEF Local
<1>3. l.pc = "addRow" /\ Creating(l) /\ ~Locked(p, l.cur)
  BY DEF AddRow, Creating
<1>4. \/ Become(p, Done(p)) /\ rows' = rows
      \/ /\ \A s \in Resource : Conflict(s, l.cur) => rows[s] = None
         /\ \/ Become(p, m) /\ rows' = rows
            \/ /\ Become(p, Done(p)) /\ rows' = [rows EXCEPT ![l.cur] = l.iid]
               /\ ~Transactional(l.cur)
  BY DEF AddRow
<1>. HIDE DEF m
<1>. QED BY <1>1, <1>2, <1>3, <1>4, Becomes DEF Keeps

\* A deletion remembers the id its row has now, or ends without one.
LEMMA GetSelfEffect ==
    ASSUME TypedControl, NEW p \in Request, GetSelf(p)
    PROVE  /\ Alone(p)
           /\ \/ Neutral(req'[p])
              \/ /\ req'[p].pc = "listChildren"
                 /\ req'[p].cur = req[p].cur /\ req'[p].iid = rows[req[p].cur]
                 /\ req[p].cur \in Resource /\ rows[req[p].cur] # None
                 /\ KeepsWrites(p)
<1>. DEFINE l == req[p]
            m == [l EXCEPT !.iid = rows[l.cur], !.pc = "listChildren"]
<1>1. l \in Local /\ Neutral(Idle) /\ l.cur \in Resource
  BY NeutralStates DEF TypedControl, TypeOK, GetSelf, Control
<1>2. /\ m.cur = l.cur /\ m.iid = rows[l.cur] /\ m.row = l.row /\ m.cut = l.cut
      /\ m.links = l.links /\ m.pc = "listChildren"
  BY <1>1 DEF Local
<1>3. Become(p, Idle) \/ (Become(p, m) /\ rows[l.cur] # None)
  BY DEF GetSelf
<1>. HIDE DEF m
<1>. QED BY <1>1, <1>2, <1>3, Becomes DEF KeepsWrites

\* Listing the children writes nothing: the handler ends, or goes on to its entries.
LEMMA ListMyChildrenEffect ==
    ASSUME TypedControl, NEW p \in Request, ListMyChildrenEntries(p)
    PROVE  /\ Alone(p) /\ req[p].pc = "listChildren"
           /\ \/ Neutral(req'[p])
              \/ /\ req'[p].pc = "deleteEntries" /\ Keeps(p) /\ KeepsWrites(p)
                 /\ ChildrenOf(req[p].iid) = {}
<1>. DEFINE l == req[p]
            m == [l EXCEPT !.pc = "deleteEntries"]
<1>1. l \in Local /\ Neutral(Idle)
  BY NeutralStates DEF TypedControl, TypeOK
<1>2. /\ m.cur = l.cur /\ m.iid = l.iid /\ m.row = l.row /\ m.cut = l.cut
      /\ m.links = l.links /\ m.pc = "deleteEntries"
  BY <1>1 DEF Local
<1>3. l.pc = "listChildren" /\ (Become(p, Idle) \/ (Become(p, m) /\ ChildrenOf(l.iid) = {}))
  BY DEF ListMyChildrenEntries
<1>. HIDE DEF m
<1>. QED BY <1>1, <1>2, <1>3, Becomes DEF Keeps, KeepsWrites

\* The entries of the row are deleted in the transaction, or in the table.
LEMMA DeleteMyEntriesEffect ==
    ASSUME TypedControl, NEW p \in Request, DeleteMyEntriesIfAny(p)
    PROVE  /\ Alone(p) /\ Keeps(p) /\ req[p].pc = "deleteEntries" /\ req'[p].pc = "confirm"
           /\ req'[p].links = req[p].links /\ req'[p].row = req[p].row
           /\ \/ entries' = entries /\ Transactional(req[p].cur) /\ req'[p].cut = req[p].iid
              \/ entries' = entries \ EntriesOf(req[p].iid) /\ ~Transactional(req[p].cur)
<1>. DEFINE l == req[p]
            m == [l EXCEPT !.pc = "confirm"]
            n == [l EXCEPT !.cut = l.iid, !.pc = "confirm"]
<1>1. l \in Local
  BY DEF TypedControl, TypeOK
<1>2. /\ m.cur = l.cur /\ m.iid = l.iid /\ m.row = l.row /\ m.links = l.links /\ m.pc = "confirm"
  BY <1>1 DEF Local
<1>3. /\ n.cur = l.cur /\ n.iid = l.iid /\ n.row = l.row /\ n.links = l.links /\ n.pc = "confirm"
      /\ n.cut = l.iid
  BY <1>1 DEF Local
<1>4. /\ l.pc = "deleteEntries"
      /\ \/ Become(p, n) /\ entries' = entries /\ Transactional(l.cur)
         \/ Become(p, m) /\ entries' = entries \ EntriesOf(l.iid) /\ ~Transactional(l.cur)
  BY DEF DeleteMyEntriesIfAny
<1>. HIDE DEF m, n
<1>. QED BY <1>2, <1>3, <1>4, Becomes DEF Keeps

\* The Get of storage.Remove writes nothing.
LEMMA ConfirmRowEffect ==
    ASSUME TypedControl, NEW p \in Request, ConfirmRow(p)
    PROVE  /\ Alone(p) /\ req[p].pc = "confirm"
           /\ \/ Neutral(req'[p]) /\ rows[req[p].cur] = None
              \/ req'[p].pc = "remove" /\ Keeps(p) /\ KeepsWrites(p)
<1>. DEFINE l == req[p]
            m == [l EXCEPT !.pc = "remove"]
<1>1. l \in Local /\ Neutral(Idle)
  BY NeutralStates DEF TypedControl, TypeOK
<1>2. /\ m.cur = l.cur /\ m.iid = l.iid /\ m.row = l.row /\ m.cut = l.cut
      /\ m.links = l.links /\ m.pc = "remove"
  BY <1>1 DEF Local
<1>3. l.pc = "confirm" /\ ((Become(p, Idle) /\ rows[l.cur] = None) \/ Become(p, m))
  BY DEF ConfirmRow
<1>. HIDE DEF m
<1>. QED BY <1>1, <1>2, <1>3, Becomes DEF Keeps, KeepsWrites

\* The DELETE takes the row out of the table, or marks it in the transaction.
LEMMA RemoveRowEffect ==
    ASSUME TypedControl, NEW p \in Request, RemoveRow(p)
    PROVE  /\ Alone(p) /\ req[p].pc = "remove" /\ ~Locked(p, req[p].cur)
           /\ \/ /\ Neutral(req'[p]) /\ rows' = [rows EXCEPT ![req[p].cur] = None]
                 /\ ~Transactional(req[p].cur)
              \/ /\ req'[p].pc = "commit" /\ Keeps(p) /\ rows' = rows
                 /\ Transactional(req[p].cur)
                 /\ req'[p].row = IF rows[req[p].cur] = None THEN "none" ELSE "delete"
                 /\ req'[p].links = req[p].links /\ req'[p].cut = req[p].cut
<1>. DEFINE l == req[p]
            m == [l EXCEPT !.pc = "commit",
                    !.row = IF rows[l.cur] = None THEN "none" ELSE "delete"]
<1>1. l \in Local /\ Neutral(Idle)
  BY NeutralStates DEF TypedControl, TypeOK
<1>2. /\ m.cur = l.cur /\ m.iid = l.iid /\ m.cut = l.cut
      /\ m.row = IF rows[l.cur] = None THEN "none" ELSE "delete"
      /\ m.links = l.links /\ m.pc = "commit"
  BY <1>1 DEF Local
<1>3. /\ l.pc = "remove" /\ ~Locked(p, l.cur)
      /\ \/ Become(p, m) /\ rows' = rows /\ Transactional(l.cur)
         \/ Become(p, Idle) /\ rows' = [rows EXCEPT ![l.cur] = None] /\ ~Transactional(l.cur)
  BY DEF RemoveRow
<1>. HIDE DEF m
<1>. QED BY <1>1, <1>2, <1>3, Becomes DEF Keeps

-----------------------------------------------------------------------------
(***************************************************************************)
(* An internal id identifies a row and the one creation that works on it.  *)
(***************************************************************************)

\* The ids of the preloaded resources are in use and differ from each other.
LEMMA InitIdentity == Init => Identity
<1>. SUFFICES ASSUME Init PROVE Identity
  OBVIOUS
<1>1. \A p \in Request : req[p] = Idle
  BY DEF Init
<1>2. \A p \in Request : req[p].iid = None /\ ~Creating(req[p]) /\ ~Deleting(req[p])
                          /\ req[p].pc # "commit"
  BY <1>1 DEF Idle, Creating, Deleting
<1>3. \A r \in Resource : rows[r] = IF r \in Preloaded THEN PreloadedIid[r] ELSE None
  BY DEF Init
<1>4. \A r \in Resource : rows[r] < nextIid
  BY <1>3, PreloadedAssumption DEF None, Init
<1>5. \A p \in Request : req[p].iid < nextIid
  BY <1>2, PreloadedAssumption DEF None, Init
<1>. QED BY <1>2, <1>3, <1>4, <1>5, PreloadedAssumption DEF Identity

\* NewInternalResourceID gives every resource an id that no other row, entry or
\* creation in progress has, and no step makes two of them share one.
LEMMA NextIdentity == TypedControl /\ Identity /\ [Next]_vars => Identity'
<1>. SUFFICES ASSUME TypedControl, Identity, [Next]_vars PROVE Identity'
  OBVIOUS
<1>0. /\ TypedControl'
      /\ \A p \in Request : Control(req[p]) /\ Control(req'[p])
      /\ nextIid \in Nat /\ nextIid' \in Nat
      /\ \A r \in Resource : rows[r] \in Nat /\ rows'[r] \in Nat
      /\ \A p \in Request : req[p].iid \in Nat /\ req'[p].iid \in Nat
  BY NextTypedControl DEF TypedControl, TypeOK, Iid, Local
<1>1. \A p \in Request : Neutral(req'[p]) =>
          /\ ~Creating(req'[p]) /\ ~Deleting(req'[p]) /\ req'[p].iid = None
          /\ req'[p].pc # "commit"
  BY DEF Neutral, Control, Creating, Deleting
<1>2. \A p \in Request : Creating(req[p]) \/ Deleting(req[p]) => req[p].iid # None
  BY <1>0 DEF Control, Iid, None
<1>3. \A p \in Request : req[p].pc = "commit" /\ req[p].row = "none" => Deleting(req[p])
  BY DEF Deleting
\* The handler stops, and rows go at most.
<1>4. ASSUME NEW p \in Request, Alone(p), Neutral(req'[p]), nextIid' = nextIid,
             \A r \in Resource : rows'[r] = rows[r] \/ rows'[r] = None
      PROVE  Identity'
  <2>1. \A r \in Resource : rows'[r] < nextIid'
    BY <1>0, <1>4 DEF Identity, None
  <2>2. \A q \in Request : req'[q].iid < nextIid'
    BY <1>0, <1>1, <1>4 DEF Identity, Alone, None
  <2>. QED BY <1>1, <1>2, <1>3, <1>4, <2>1, <2>2 DEF Identity, Alone
\* The handler goes on with the same id, and rows are as they were.
<1>5. ASSUME NEW p \in Request, Alone(p), Keeps(p), rows' = rows, nextIid' = nextIid,
             Creating(req'[p]) => Creating(req[p]),
             Deleting(req'[p]) => Deleting(req[p]),
             req'[p].pc = "commit" /\ req'[p].row = "none" =>
                 \A r \in Resource : rows[r] # req[p].iid
      PROVE  Identity'
  BY <1>5 DEF Identity, Alone, Keeps
\* The row of a creation appears, and the creation ends.
<1>6. ASSUME NEW p \in Request, Alone(p), Neutral(req'[p]), nextIid' = nextIid, Creating(req[p]),
             rows' = [rows EXCEPT ![req[p].cur] = req[p].iid]
      PROVE  Identity'
  <2>0. \A r \in Resource : rows'[r] = IF r = req[p].cur THEN req[p].iid ELSE rows[r]
    BY <1>0, <1>6 DEF TypedControl, TypeOK
  <2>1. \A r \in Resource : rows'[r] < nextIid'
    BY <1>6, <2>0 DEF Identity
  <2>2. \A q \in Request : req'[q].iid < nextIid'
    BY <1>0, <1>1, <1>6 DEF Identity, Alone, None
  <2>3. \A r, s \in Resource : rows'[r] # None /\ rows'[r] = rows'[s] => r = s
    BY <1>6, <2>0 DEF Identity
  <2>4. \A q \in Request \ {p} : req[q].iid # req[p].iid
    BY <1>6 DEF Identity
  <2>. QED BY <1>1, <1>2, <1>3, <1>6, <2>0, <2>1, <2>2, <2>3, <2>4 DEF Identity, Alone
<1>7. CASE UNCHANGED vars
  BY <1>7 DEF vars, Identity, Creating, Deleting
<1>8. ASSUME NEW p \in Request, Call(p) \/ Precheck(p) \/ Fault(p)
      PROVE  Identity'
  <2>1. UNCHANGED <<rows, nextIid>>
    BY <1>8, CallFrame DEF Fault, Precheck
  <2>. QED BY <1>4, <1>8, <2>1, NeutralEffect
<1>9. ASSUME NEW p \in Request, RemoveAllForAddress(p)
      PROVE  Identity'
  <2>1. \A r \in Resource : rows'[r] = rows[r] \/ rows'[r] = None
    BY <1>9 DEF RemoveAllForAddress
  <2>. QED BY <1>4, <1>9, <2>1, NeutralEffect DEF RemoveAllForAddress
<1>10. ASSUME NEW p \in Request, NewResource(p)
       PROVE  Identity'
  <2>1. /\ Alone(p) /\ ~Creating(req[p]) /\ ~Deleting(req[p])
        /\ req'[p].iid = nextIid /\ nextIid' = nextIid + 1 /\ rows' = rows
        /\ req'[p].pc \in {"readParent", "addRow"}
    BY <1>10, NewResourceEffect DEF NewResource
  <2>2. ~Deleting(req'[p]) /\ req'[p].pc # "commit" /\ Creating(req'[p])
    BY <2>1 DEF Deleting, Creating
  <2>3. \A r \in Resource : rows'[r] < nextIid' /\ rows'[r] # req'[p].iid
    BY <1>0, <2>1 DEF Identity
  <2>4. \A q \in Request : req'[q].iid < nextIid'
    BY <1>0, <2>1 DEF Identity, Alone
  <2>5. \A q \in Request \ {p} : req'[q].iid # req'[p].iid
    BY <1>0, <2>1 DEF Identity, Alone
  <2>. QED BY <2>1, <2>2, <2>3, <2>4, <2>5 DEF Identity, Alone
<1>11. ASSUME NEW p \in Request, ReadParent(p) \/ LinkToParent(p)
       PROVE  Identity'
  <2>1. /\ rows' = rows /\ nextIid' = nextIid /\ Alone(p) /\ Creating(req[p])
        /\ \/ Neutral(req'[p])
           \/ Keeps(p) /\ req'[p].pc \in {"readParent", "link", "addRow"}
    BY <1>11, ReadParentEffect, LinkToParentEffect DEF ReadParent, LinkToParent, Creating
  <2>2. CASE Neutral(req'[p])
    BY <1>4, <2>1, <2>2
  <2>3. CASE Keeps(p) /\ req'[p].pc \in {"readParent", "link", "addRow"}
    <3>1. ~Deleting(req'[p]) /\ req'[p].pc # "commit"
      BY <2>3 DEF Deleting
    <3>. QED BY <1>5, <2>1, <2>3, <3>1
  <2>. QED BY <2>1, <2>2, <2>3
<1>12. ASSUME NEW p \in Request, AddRow(p)
       PROVE  Identity'
  <2>1. nextIid' = nextIid
    BY <1>12 DEF AddRow
  <2>2. ASSUME req'[p].pc = "commit", req'[p].row = "insert"
        PROVE  ~Deleting(req'[p]) /\ req'[p].row # "none"
    BY <2>2 DEF Deleting
  <2>. QED BY <1>4, <1>5, <1>6, <1>12, <2>1, <2>2, AddRowEffect
<1>13. ASSUME NEW p \in Request, GetSelf(p)
       PROVE  Identity'
  <2>1. rows' = rows /\ nextIid' = nextIid
    BY <1>13 DEF GetSelf
  <2>2. CASE Neutral(req'[p])
    BY <1>4, <1>13, <2>1, <2>2, GetSelfEffect
  <2>3. CASE ~Neutral(req'[p])
    <3>1. /\ Alone(p) /\ req'[p].pc = "listChildren" /\ req[p].cur \in Resource
          /\ req'[p].cur = req[p].cur /\ req'[p].iid = rows[req[p].cur] /\ rows[req[p].cur] # None
      BY <1>13, <2>3, GetSelfEffect
    <3>2. ~Creating(req'[p]) /\ req'[p].pc # "commit"
      BY <3>1 DEF Creating
    <3>3. req'[p].iid < nextIid
      BY <3>1 DEF Identity
    <3>4. \A q \in Request : Creating(req[q]) => req'[p].iid # req[q].iid
      BY <3>1 DEF Identity
    <3>5. \A r \in Resource : rows[r] = req'[p].iid => r = req'[p].cur
      BY <3>1 DEF Identity
    <3>. QED BY <2>1, <3>1, <3>2, <3>3, <3>4, <3>5 DEF Identity, Alone
  <2>. QED BY <2>2, <2>3
<1>14. ASSUME NEW p \in Request,
              ListMyChildrenEntries(p) \/ DeleteMyEntriesIfAny(p) \/ ConfirmRow(p)
       PROVE  Identity'
  <2>1. /\ rows' = rows /\ nextIid' = nextIid /\ Alone(p) /\ Deleting(req[p])
        /\ \/ Neutral(req'[p])
           \/ Keeps(p) /\ req'[p].pc \in {"deleteEntries", "confirm", "remove"}
    BY <1>14, ListMyChildrenEffect, DeleteMyEntriesEffect, ConfirmRowEffect
    DEF ListMyChildrenEntries, DeleteMyEntriesIfAny, ConfirmRow, Deleting
  <2>2. CASE Neutral(req'[p])
    BY <1>4, <2>1, <2>2
  <2>3. CASE Keeps(p) /\ req'[p].pc \in {"deleteEntries", "confirm", "remove"}
    <3>1. ~Creating(req'[p]) /\ req'[p].pc # "commit"
      BY <2>3 DEF Creating
    <3>. QED BY <1>5, <2>1, <2>3, <3>1
  <2>. QED BY <2>1, <2>2, <2>3
<1>15. ASSUME NEW p \in Request, RemoveRow(p)
       PROVE  Identity'
  <2>1. nextIid' = nextIid /\ Deleting(req[p]) /\ Alone(p)
    BY <1>15, RemoveRowEffect DEF RemoveRow, Deleting
  <2>2. CASE Neutral(req'[p]) /\ rows' = [rows EXCEPT ![req[p].cur] = None]
    <3>1. \A r \in Resource : rows'[r] = rows[r] \/ rows'[r] = None
      BY <2>2 DEF TypedControl, TypeOK
    <3>. QED BY <1>4, <2>1, <2>2, <3>1
  <2>3. CASE /\ req'[p].pc = "commit" /\ Keeps(p) /\ rows' = rows
             /\ req'[p].row = IF rows[req[p].cur] = None THEN "none" ELSE "delete"
    <3>1. ~Creating(req'[p])
      BY <2>3 DEF Creating
    <3>2. ASSUME req'[p].row = "none", NEW r \in Resource PROVE rows[r] # req[p].iid
      <4>1. rows[req[p].cur] = None
        BY <2>3, <3>2
      <4>2. rows[r] = req[p].iid => r = req[p].cur
        BY <2>1 DEF Identity
      <4>. QED BY <1>2, <2>1, <4>1, <4>2
    <3>. QED BY <1>5, <2>1, <2>3, <3>1, <3>2
  <2>. QED BY <1>15, <2>2, <2>3, RemoveRowEffect
<1>16. ASSUME NEW p \in Request, Commit(p)
       PROVE  Identity'
  <2>1. nextIid' = nextIid /\ Alone(p) /\ Neutral(req'[p]) /\ req[p].pc = "commit"
    BY <1>16, NeutralEffect DEF Commit
  <2>2. CASE req[p].row = "insert"
    <3>1. rows' = [rows EXCEPT ![req[p].cur] = req[p].iid]
      BY <1>16, <2>2 DEF Commit
    <3>. QED BY <1>6, <2>1, <2>2, <3>1 DEF Creating
  <2>3. CASE req[p].row # "insert"
    <3>1. \A r \in Resource : rows'[r] = rows[r] \/ rows'[r] = None
      BY <1>16, <2>3 DEF Commit, TypedControl, TypeOK
    <3>. QED BY <1>4, <2>1, <3>1
  <2>. QED BY <2>2, <2>3
<1>. QED
  BY <1>7, <1>8, <1>9, <1>10, <1>11, <1>12, <1>13, <1>14, <1>15, <1>16
  DEF Next, Terminated, Step

-----------------------------------------------------------------------------
(***************************************************************************)
(* A creation has written the links it has passed.                         *)
(***************************************************************************)

\* No creation is in progress at the start.
LEMMA InitLinked == Init => Linked
BY DEF Init, Linked, LinkedAt, Idle, Creating

\* No step deletes the links of a creation in progress: its id is its own.
LEMMA LinksStay ==
    ASSUME TypedControl, Identity, [Next]_vars,
           NEW q \in Request, Creating(req[q]), NEW e \in entries, e.child = req[q].iid,
           NEW p \in Request, Alone(p), p # q \/ req[p].pc # "commit",
           Call(p) \/ Step(p) \/ Fault(p)
    PROVE  e \in entries'
<1>1. CASE DeleteMyEntriesIfAny(p)
  <2>1. /\ req[p].pc = "deleteEntries"
        /\ entries' = entries \/ entries' = entries \ EntriesOf(req[p].iid)
    BY <1>1, DeleteMyEntriesEffect
  <2>2. p # q
    BY <2>1 DEF Creating
  <2>3. req[p].iid # req[q].iid
    BY <2>2 DEF Identity
  <2>. QED BY <2>1, <2>3 DEF EntriesOf
<1>2. CASE Commit(p)
  <2>1. p # q /\ entries' = (entries \ EntriesOf(req[p].cut)) \cup req[p].links
    BY <1>2 DEF Commit
  <2>2. req[p].cut \in {None, req[p].iid} /\ req[q].iid # None
    BY DEF TypedControl, Control, Iid, None
  <2>3. req[p].iid # req[q].iid
    BY <2>1 DEF Identity
  <2>. QED BY <2>1, <2>2, <2>3 DEF EntriesOf
<1>3. CASE LinkToParent(p)
  BY <1>3, LinkToParentEffect
<1>4. CASE Call(p) \/ Fault(p)
  BY <1>4, CallFrame DEF Fault
<1>5. CASE \/ Precheck(p) \/ NewResource(p) \/ ReadParent(p) \/ AddRow(p) \/ GetSelf(p)
           \/ ListMyChildrenEntries(p) \/ ConfirmRow(p) \/ RemoveRow(p) \/ RemoveAllForAddress(p)
  BY <1>5 DEF Precheck, NewResource, ReadParent, AddRow, GetSelf, ListMyChildrenEntries,
     ConfirmRow, RemoveRow, RemoveAllForAddress
<1>. QED BY <1>1, <1>2, <1>3, <1>4, <1>5 DEF Step

\* A creation that reaches the INSERT has linked every parent it must: each step of
\* createSlot, CreateUser and CreateAccount adds a link and none loses one.
LEMMA NextLinked == TypedControl /\ Identity /\ Linked /\ [Next]_vars => Linked'
<1>. SUFFICES ASSUME TypedControl, Identity, Linked, [Next]_vars PROVE Linked'
  OBVIOUS
<1>0. CASE UNCHANGED vars
  BY <1>0 DEF vars, Linked, LinkedAt, Creating
<1>1. ASSUME NEW p \in Request, Call(p) \/ Step(p) \/ Fault(p), Alone(p), LinkedAt(p)'
      PROVE  Linked'
  <2>. SUFFICES ASSUME NEW q \in Request \ {p}, Creating(req[q]),
                       NEW j \in Parents(req[q].cur), j < req[q].idx
                PROVE  \E e \in entries' \cup req[q].links :
                           e.child = req[q].iid /\ e.parentKind = KindOf[ParentsOf[req[q].cur][j]]
    BY <1>1 DEF Linked, LinkedAt, Alone, Creating
  <2>1. PICK e \in entries \cup req[q].links :
             e.child = req[q].iid /\ e.parentKind = KindOf[ParentsOf[req[q].cur][j]]
    BY DEF Linked, LinkedAt
  <2>2. e \in entries => e \in entries'
    BY <1>1, <2>1, LinksStay
  <2>. QED BY <2>1, <2>2
<1>2. ASSUME NEW p \in Request, ~Creating(req'[p]) PROVE LinkedAt(p)'
  BY <1>2 DEF LinkedAt, Creating
<1>3. ASSUME NEW p \in Request, Neutral(req'[p]) PROVE LinkedAt(p)'
  BY <1>2, <1>3 DEF Neutral
<1>4. ASSUME NEW p \in Request, Creating(req[p]), Keeps(p), req'[p].idx = req[p].idx,
             req'[p].links = req[p].links, entries' = entries
      PROVE  LinkedAt(p)'
  BY <1>4 DEF Linked, LinkedAt, Keeps
<1>5. ASSUME NEW p \in Request,
             Call(p) \/ Precheck(p) \/ Fault(p) \/ RemoveAllForAddress(p) \/ Commit(p)
      PROVE  LinkedAt(p)' /\ Alone(p)
  BY <1>3, <1>5, NeutralEffect
<1>6. ASSUME NEW p \in Request, NewResource(p)
      PROVE  LinkedAt(p)' /\ Alone(p)
  BY <1>6, NewResourceEffect DEF LinkedAt, Parents
<1>7. ASSUME NEW p \in Request, ReadParent(p)
      PROVE  LinkedAt(p)' /\ Alone(p)
  BY <1>3, <1>4, <1>7, ReadParentEffect DEF ReadParent, Creating, KeepsWrites
<1>8. ASSUME NEW p \in Request, LinkToParent(p)
      PROVE  LinkedAt(p)' /\ Alone(p)
  <2>1. /\ Alone(p) /\ Keeps(p) /\ Creating(req[p])
        /\ req'[p].idx = req[p].idx + 1 /\ req[p].idx \in Nat
        /\ entries \cup req[p].links \subseteq entries' \cup req'[p].links
        /\ NewEntry(p) \in entries' \cup req'[p].links
    BY <1>8, LinkToParentEffect DEF Creating, TypedControl, TypeOK, Local
  <2>2. ASSUME NEW j \in Parents(req[p].cur), j < req[p].idx + 1
        PROVE  \E e \in entries' \cup req'[p].links :
                   e.child = req[p].iid /\ e.parentKind = KindOf[ParentsOf[req[p].cur][j]]
    <3>1. CASE j < req[p].idx
      BY <2>1, <3>1 DEF Linked, LinkedAt
    <3>2. CASE j = req[p].idx
      BY <2>1, <3>2 DEF NewEntry
    <3>. QED BY <2>1, <2>2, <3>1, <3>2 DEF Parents
  <2>. QED BY <2>1, <2>2 DEF LinkedAt, Keeps
<1>9. ASSUME NEW p \in Request, AddRow(p)
      PROVE  LinkedAt(p)' /\ Alone(p)
  BY <1>3, <1>4, <1>9, AddRowEffect DEF AddRow
<1>10. ASSUME NEW p \in Request,
              \/ GetSelf(p) \/ ListMyChildrenEntries(p) \/ DeleteMyEntriesIfAny(p)
              \/ ConfirmRow(p) \/ RemoveRow(p)
       PROVE  LinkedAt(p)' /\ Alone(p)
  <2>1. CASE GetSelf(p)
    BY <1>2, <1>3, <2>1, GetSelfEffect DEF Creating
  <2>2. CASE ListMyChildrenEntries(p) \/ DeleteMyEntriesIfAny(p) \/ ConfirmRow(p)
    BY <1>2, <1>3, <2>2, ListMyChildrenEffect, DeleteMyEntriesEffect, ConfirmRowEffect DEF Creating
  <2>3. CASE RemoveRow(p)
    BY <1>2, <1>3, <2>3, RemoveRowEffect DEF Creating
  <2>. QED BY <1>10, <2>1, <2>2, <2>3
<1>. QED
  BY <1>0, <1>1, <1>5, <1>6, <1>7, <1>8, <1>9, <1>10 DEF Next, Terminated, Step

-----------------------------------------------------------------------------
(***************************************************************************)
(* Row locks and unique indexes.                                           *)
(***************************************************************************)

\* Rows that a unique index keeps apart exclude each other both ways.
LEMMA ConflictSymmetric ==
    ASSUME NEW r, NEW s
    PROVE  Conflict(r, s) <=> Conflict(s, r)
BY DEF Conflict

\* The preloaded rows conflict with none, and no transaction is open.
LEMMA InitLocks == Init => Locks /\ SlotsApart
<1>. SUFFICES ASSUME Init PROVE Locks /\ SlotsApart
  OBVIOUS
<1>1. \A p \in Request : req[p].row = "none"
  BY DEF Init, Idle
<1>2. \A r \in Resource : rows[r] # None => r \in Preloaded
  BY DEF Init
<1>. QED BY <1>1, <1>2, PreloadedAssumption DEF Locks, SlotsApart, Live

\* Row locks and unique indexes: a row inserted by an open transaction conflicts with
\* no committed row and with no row of another open transaction.
LEMMA NextLocks ==
    TypedControl /\ Locks /\ SlotsApart /\ [Next]_vars =>
        Locks' /\ SlotsApart'
<1>. SUFFICES ASSUME TypedControl, Locks, SlotsApart, [Next]_vars
              PROVE  Locks' /\ SlotsApart'
  OBVIOUS
<1>0. CASE UNCHANGED vars
  BY <1>0 DEF vars, Locks, SlotsApart, Live, Conflict
<1>1. \A p \in Request : Neutral(req'[p]) => req'[p].row = "none"
  BY DEF Neutral, Control, Creating, Deleting
<1>2. \A p \in Request : /\ Control(req[p])
                         /\ Creating(req[p]) => req[p].cur \in Resource
  BY DEF TypedControl, Control
\* Rows go at most, and the handler's transaction writes no row of its own.
<1>3. ASSUME NEW p \in Request, Alone(p),
             \A r \in Resource : rows'[r] = rows[r] \/ rows'[r] = None,
             req'[p].row = "none" \/ (req'[p].row = req[p].row /\ req'[p].cur = req[p].cur)
      PROVE  Locks' /\ SlotsApart'
  <2>1. SlotsApart'
    BY <1>3 DEF SlotsApart, Live, Conflict
  <2>. QED BY <1>3, <2>1 DEF Locks, Alone, Conflict
\* The transaction of the handler takes the lock of the row it inserts or deletes.
<1>4. ASSUME NEW p \in Request, Alone(p), rows' = rows, ~Locked(p, req[p].cur),
             req'[p].cur = req[p].cur,
             req'[p].row = "insert" =>
                 \A s \in Resource : Conflict(s, req[p].cur) => rows[s] = None
      PROVE  Locks' /\ SlotsApart'
  <2>1. SlotsApart'
    BY <1>4 DEF SlotsApart, Live, Conflict
  <2>2. \A q \in Request \ {p} : req[q].row # "none" =>
            ~Conflict(req[q].cur, req[p].cur) /\ ~Conflict(req[p].cur, req[q].cur)
    BY <1>4, ConflictSymmetric DEF Locked
  <2>3. \A q \in Request : req'[q].row = "insert" =>
            \A s \in Resource : Conflict(s, req'[q].cur) => rows'[s] = None
    BY <1>4 DEF Locks, Alone
  <2>4. \A q, o \in Request : q # o /\ req'[q].row = "insert" /\ req'[o].row # "none" =>
            ~Conflict(req'[q].cur, req'[o].cur)
    <3>. TAKE q, o \in Request
    <3>1. CASE q # p /\ o # p
      BY <1>4, <3>1 DEF Locks, Alone
    <3>2. CASE q = p /\ o # p
      BY <1>4, <2>2, <3>2 DEF Alone
    <3>3. CASE q # p /\ o = p
      BY <1>4, <2>2, <3>3 DEF Alone
    <3>. QED BY <3>1, <3>2, <3>3
  <2>. QED BY <2>1, <2>3, <2>4 DEF Locks, Conflict
\* A row appears that conflicts with none, and nobody else has its lock.
<1>5. ASSUME NEW p \in Request, Alone(p), Neutral(req'[p]), req[p].cur \in Resource,
             rows' = [rows EXCEPT ![req[p].cur] = req[p].iid],
             \A s \in Resource : Conflict(s, req[p].cur) => rows[s] = None,
             \A q \in Request \ {p} : req[q].row = "insert" => ~Conflict(req[p].cur, req[q].cur)
      PROVE  Locks' /\ SlotsApart'
  <2>0. \A r \in Resource : rows'[r] = IF r = req[p].cur THEN req[p].iid ELSE rows[r]
    BY <1>5 DEF TypedControl, TypeOK
  <2>1. \A r, s \in Resource : rows'[r] # None /\ rows'[s] # None /\ Conflict(r, s) => r = s
    <3>. TAKE r, s \in Resource
    <3>1. CASE r = req[p].cur /\ s # r
      BY <1>5, <2>0, <3>1, ConflictSymmetric
    <3>2. CASE s = req[p].cur /\ s # r
      BY <1>5, <2>0, <3>2
    <3>3. CASE r # req[p].cur /\ s # req[p].cur
      BY <2>0, <3>3 DEF SlotsApart, Live
    <3>. QED BY <3>1, <3>2, <3>3
  <2>2. SlotsApart'
    BY <2>1 DEF SlotsApart, Live, Conflict
  <2>. QED BY <1>1, <1>5, <2>0, <2>2 DEF Locks, Alone, Conflict
<1>6. ASSUME NEW p \in Request, Call(p) \/ Precheck(p) \/ Fault(p) \/ RemoveAllForAddress(p)
      PROVE  Locks' /\ SlotsApart'
  <2>1. \A r \in Resource : rows'[r] = rows[r] \/ rows'[r] = None
    BY <1>6, CallFrame DEF Precheck, Fault, RemoveAllForAddress
  <2>. QED BY <1>1, <1>3, <1>6, <2>1, NeutralEffect
<1>7. ASSUME NEW p \in Request, NewResource(p) \/ ReadParent(p) \/ LinkToParent(p)
      PROVE  Locks' /\ SlotsApart'
  <2>1. /\ rows' = rows /\ Alone(p) /\ req[p].pc # "commit"
        /\ Neutral(req'[p]) \/ req'[p].row = req[p].row
    BY <1>7, NewResourceEffect, ReadParentEffect, LinkToParentEffect
    DEF NewResource, ReadParent, LinkToParent, KeepsWrites
  <2>2. req'[p].row = "none"
    BY <1>1, <1>2, <2>1 DEF Control, TypedControl, TypeOK, Local
  <2>. QED BY <1>3, <2>1, <2>2
<1>8. ASSUME NEW p \in Request, AddRow(p)
      PROVE  Locks' /\ SlotsApart'
  <2>1. req[p].cur \in Resource /\ Alone(p)
    BY <1>2, <1>8, AddRowEffect
  <2>2. ~Locked(p, req[p].cur) =>
            \A q \in Request \ {p} : req[q].row = "insert" => ~Conflict(req[p].cur, req[q].cur)
    BY ConflictSymmetric DEF Locked
  <2>3. CASE Neutral(req'[p]) /\ rows' = rows
    BY <1>1, <1>3, <2>1, <2>3
  <2>4. CASE ~(Neutral(req'[p]) /\ rows' = rows)
    BY <1>4, <1>5, <1>8, <2>1, <2>2, <2>4, AddRowEffect DEF Keeps
  <2>. QED BY <2>3, <2>4
<1>9. ASSUME NEW p \in Request,
             \/ GetSelf(p) \/ ListMyChildrenEntries(p) \/ DeleteMyEntriesIfAny(p) \/ ConfirmRow(p)
      PROVE  Locks' /\ SlotsApart'
  <2>1. /\ rows' = rows /\ Alone(p)
        /\ \/ Neutral(req'[p])
           \/ req'[p].row = req[p].row /\ req'[p].cur = req[p].cur
    BY <1>9, GetSelfEffect, ListMyChildrenEffect, DeleteMyEntriesEffect, ConfirmRowEffect
    DEF GetSelf, ListMyChildrenEntries, DeleteMyEntriesIfAny, ConfirmRow, Keeps, KeepsWrites
  <2>. QED BY <1>1, <1>3, <2>1
<1>10. ASSUME NEW p \in Request, RemoveRow(p)
       PROVE  Locks' /\ SlotsApart'
  <2>1. CASE Neutral(req'[p]) /\ rows' = [rows EXCEPT ![req[p].cur] = None]
    <3>1. \A r \in Resource : rows'[r] = rows[r] \/ rows'[r] = None
      BY <2>1 DEF TypedControl, TypeOK
    <3>. QED BY <1>1, <1>3, <1>10, <2>1, <3>1, RemoveRowEffect
  <2>2. CASE ~Neutral(req'[p])
    BY <1>4, <1>10, <2>2, RemoveRowEffect DEF Keeps
  <2>. QED BY <1>4, <1>10, <2>1, <2>2, RemoveRowEffect DEF Keeps
<1>11. ASSUME NEW p \in Request, Commit(p)
       PROVE  Locks' /\ SlotsApart'
  <2>1. Alone(p) /\ Neutral(req'[p]) /\ req[p].pc = "commit"
    BY <1>11, NeutralEffect DEF Commit
  <2>2. CASE req[p].row = "insert"
    <3>1. rows' = [rows EXCEPT ![req[p].cur] = req[p].iid] /\ req[p].cur \in Resource
      BY <1>2, <1>11, <2>1, <2>2 DEF Commit, Creating
    <3>. QED BY <1>5, <2>1, <2>2, <3>1 DEF Locks
  <2>3. CASE req[p].row # "insert"
    <3>1. \A r \in Resource : rows'[r] = rows[r] \/ rows'[r] = None
      BY <1>11, <2>3 DEF Commit, TypedControl, TypeOK
    <3>. QED BY <1>1, <1>3, <2>1, <3>1
  <2>. QED BY <2>2, <2>3
<1>. QED
  BY <1>0, <1>6, <1>7, <1>8, <1>9, <1>10, <1>11 DEF Next, Terminated, Step

-----------------------------------------------------------------------------
(***************************************************************************)
(* Who may have taken a link of a committed row.                           *)
(***************************************************************************)

\* Every preloaded row has the entries that protect it.
LEMMA InitCovered == Init => Covered
<1>. SUFFICES ASSUME Init, NEW r \in Resource, Live(r), NEW j \in Parents(r)
              PROVE  \E e \in EntriesOf(rows[r]) : e.parentKind = KindOf[ParentsOf[r][j]]
  BY DEF Covered, Protected, Parents
<1>1. r \in Preloaded /\ rows[r] = PreloadedIid[r]
  BY DEF Init, Live
<1>. DEFINE e == [child |-> PreloadedIid[r], childKind |-> KindOf[r],
                  parent |-> PreloadedIid[ParentsOf[r][j]],
                  parentKind |-> KindOf[ParentsOf[r][j]]]
<1>2. e \in entries
  BY <1>1 DEF Init, PreloadedLinks, Parents
<1>3. e.child = rows[r] /\ e.parentKind = KindOf[ParentsOf[r][j]]
  BY <1>1
<1>. HIDE DEF e
<1>. QED BY <1>2, <1>3 DEF EntriesOf

\* Entries that only become more protect what they protected.
LEMMA ProtectedStays ==
    ASSUME NEW r \in Resource, rows'[r] = rows[r], Protected(r),
           \A e \in entries : e.child = rows[r] => e \in entries'
    PROVE  Protected(r)'
BY DEF Protected, EntriesOf

\* A row loses its entries only to a deletion of that row: the heart of the proof, one
\* step per statement of a creation, a deletion and a commit.
LEMMA NextCovered ==
    TypedControl /\ Identity /\ Linked /\ Covered /\ [Next]_vars => Covered'
<1>. SUFFICES ASSUME TypedControl, Identity, Linked, Covered, [Next]_vars PROVE Covered'
  OBVIOUS
<1>0. /\ \A p \in Request : Control(req[p]) /\ req[p] \in Local
      /\ faults \in Nat /\ rows \in [Resource -> Nat] /\ entries \subseteq Entry
  BY BoundAssumption DEF TypedControl, TypeOK
<1>1. CASE UNCHANGED vars
  BY <1>1 DEF vars, Covered, Live, Protected, EntriesOf, AboutToRemove, Transactional
\* No row and no entry appears or goes except the rows removed, and the handler,
\* if it was about to remove a row that is still there, is so after the step.
<1>2. ASSUME NEW p \in Request, Alone(p), entries' = entries, faults' >= faults,
             \A r \in Resource : rows'[r] = rows[r] \/ rows'[r] = None,
             \A r \in Resource :
                 /\ rows'[r] # None /\ ~Transactional(r)
                 /\ req[p].pc \in {"confirm", "remove"} /\ req[p].iid = rows[r]
                 => \/ faults' > 0
                    \/ req'[p].pc \in {"confirm", "remove"} /\ req'[p].iid = rows[r]
      PROVE  Covered'
  <2>. SUFFICES ASSUME NEW r \in Resource, rows'[r] # None, ~Protected(r)'
                PROVE  ~Transactional(r) /\ (faults' > 0 \/ AboutToRemove(r)')
    BY DEF Covered, Live, Transactional
  <2>1. rows'[r] = rows[r] /\ Live(r) /\ ~Protected(r)
    BY <1>2, ProtectedStays DEF Live
  <2>2. ~Transactional(r) /\ (faults > 0 \/ AboutToRemove(r))
    BY <2>1 DEF Covered
  <2>3. faults' \in Int
    BY NextTypedControl DEF TypedControl, TypeOK
  <2>4. CASE faults > 0
    BY <1>0, <1>2, <2>2, <2>3, <2>4
  <2>5. CASE AboutToRemove(r)
    <3>1. PICK q \in Request : req[q].pc \in {"confirm", "remove"} /\ req[q].iid = rows[r]
      BY <2>5 DEF AboutToRemove
    <3>2. CASE q = p
      BY <1>2, <2>1, <2>2, <3>1, <3>2 DEF AboutToRemove
    <3>3. CASE q # p
      BY <1>2, <2>1, <2>2, <3>1, <3>3 DEF AboutToRemove, Alone
    <3>. QED BY <3>2, <3>3
  <2>. QED BY <2>2, <2>4, <2>5
\* The row of a creation appears with all its links.
<1>3. ASSUME NEW p \in Request, Alone(p), Creating(req[p]), req[p].pc \in {"addRow", "commit"},
             rows' = [rows EXCEPT ![req[p].cur] = req[p].iid], faults' = faults,
             entries \cup req[p].links \subseteq entries'
      PROVE  Covered'
  <2>. SUFFICES ASSUME NEW r \in Resource, rows'[r] # None, ~Protected(r)'
                PROVE  ~Transactional(r) /\ (faults' > 0 \/ AboutToRemove(r)')
    BY DEF Covered, Live, Transactional
  <2>1. CASE r = req[p].cur
    <3>1. /\ rows'[r] = req[p].iid /\ req[p].idx = Len(ParentsOf[r]) + 1
      BY <1>0, <1>3, <2>1 DEF Control, Creating
    <3>2. ASSUME NEW j \in Parents(r)
          PROVE  \E e \in entries' : e.child = req[p].iid /\ e.parentKind = KindOf[ParentsOf[r][j]]
      <4>1. j < req[p].idx
        BY <3>1, ParentFacts DEF Parents
      <4>. QED BY <1>3, <2>1, <4>1 DEF Linked, LinkedAt
    <3>3. Protected(r)'
      BY <3>1, <3>2 DEF Protected, EntriesOf, Parents
    <3>. QED BY <3>3
  <2>2. CASE r # req[p].cur
    <3>1. rows'[r] = rows[r] /\ Live(r) /\ ~Protected(r)
      BY <1>0, <1>3, <2>2, ProtectedStays DEF Live
    <3>2. req[p].pc \notin {"confirm", "remove"}
      BY <1>3
    <3>. QED BY <1>3, <3>1, <3>2 DEF Covered, AboutToRemove, Alone
  <2>. QED BY <2>1, <2>2
<1>4. ASSUME NEW p \in Request, Call(p) \/ Precheck(p) \/ Fault(p) \/ RemoveAllForAddress(p)
      PROVE  Covered'
  <2>1. /\ Alone(p) /\ entries' = entries /\ faults' >= faults
        /\ \A r \in Resource : rows'[r] = rows[r] \/ rows'[r] = None
        /\ req[p].pc \in {"confirm", "remove"} => faults' > 0
    <3>1. CASE Call(p)
      BY <1>0, <1>4, <3>1, NeutralEffect, CallFrame
    <3>2. CASE Precheck(p)
      <4>1. Alone(p)
        BY <1>4, <3>2, NeutralEffect
      <4>2. rows' = rows /\ entries' = entries /\ faults' = faults /\ req[p].pc \in {"slotCheck", "enableCheck"}
        BY <3>2 DEF Precheck
      <4>. QED BY <1>0, <4>1, <4>2
    <3>3. CASE RemoveAllForAddress(p)
      <4>1. Alone(p)
        BY <1>4, <3>3, NeutralEffect
      <4>2. \A r \in Resource : rows'[r] = rows[r] \/ rows'[r] = None
        BY <3>3 DEF RemoveAllForAddress
      <4>3. entries' = entries /\ faults' = faults /\ req[p].pc = "purge"
        BY <3>3 DEF RemoveAllForAddress
      <4>. QED BY <1>0, <4>1, <4>2, <4>3
    <3>4. CASE Fault(p)
      <4>1. Alone(p)
        BY <1>4, <3>4, NeutralEffect
      <4>2. rows' = rows /\ entries' = entries /\ faults' = faults + 1
        BY <3>4 DEF Fault
      <4>. QED BY <1>0, <4>1, <4>2
    <3>. QED BY <1>4, <3>1, <3>2, <3>3, <3>4
  <2>. QED BY <1>2, <2>1
<1>5. ASSUME NEW p \in Request, NewResource(p) \/ ReadParent(p)
      PROVE  Covered'
  <2>1. /\ Alone(p) /\ entries' = entries /\ faults' = faults /\ rows' = rows
        /\ req[p].pc \notin {"confirm", "remove"}
    BY <1>5, NewResourceEffect, ReadParentEffect DEF NewResource, ReadParent
  <2>. QED BY <1>0, <1>2, <2>1
<1>6. ASSUME NEW p \in Request, LinkToParent(p)
      PROVE  Covered'
  <2>1. /\ Alone(p) /\ entries \subseteq entries' /\ faults' = faults /\ rows' = rows
        /\ req[p].pc \notin {"confirm", "remove"}
    BY <1>6, LinkToParentEffect DEF LinkToParent
  <2>2. ASSUME NEW r \in Resource, Live(r), ~Protected(r)'
        PROVE  ~Transactional(r) /\ (faults > 0 \/ AboutToRemove(r)')
    <3>1. ~Protected(r)
      BY <2>1, <2>2, ProtectedStays
    <3>. QED BY <2>1, <2>2, <3>1 DEF Covered, AboutToRemove, Alone
  <2>. QED BY <2>1, <2>2 DEF Covered, Live, Transactional
<1>7. ASSUME NEW p \in Request, AddRow(p)
      PROVE  Covered'
  <2>1. /\ Alone(p) /\ Creating(req[p]) /\ req[p].pc = "addRow"
        /\ entries' = entries /\ faults' = faults
    BY <1>7, AddRowEffect DEF AddRow
  <2>2. CASE rows' = rows
    BY <1>0, <1>2, <2>1, <2>2
  <2>3. CASE rows' = [rows EXCEPT ![req[p].cur] = req[p].iid] /\ ~Transactional(req[p].cur)
    <3>1. req[p].links = {}
      BY <1>0, <2>3 DEF Control
    <3>. QED BY <1>3, <2>1, <2>3, <3>1
  <2>. QED BY <1>7, <2>2, <2>3, AddRowEffect
<1>8. ASSUME NEW p \in Request, GetSelf(p) \/ ListMyChildrenEntries(p)
      PROVE  Covered'
  <2>1. /\ Alone(p) /\ entries' = entries /\ faults' = faults /\ rows' = rows
        /\ req[p].pc \notin {"confirm", "remove"}
    BY <1>8, GetSelfEffect, ListMyChildrenEffect DEF GetSelf, ListMyChildrenEntries
  <2>. QED BY <1>0, <1>2, <2>1
<1>9. ASSUME NEW p \in Request, DeleteMyEntriesIfAny(p)
      PROVE  Covered'
  <2>1. /\ Alone(p) /\ Keeps(p) /\ Deleting(req[p]) /\ req[p].pc = "deleteEntries"
        /\ req'[p].pc = "confirm" /\ rows' = rows /\ faults' = faults
        /\ \/ entries' = entries
           \/ entries' = entries \ EntriesOf(req[p].iid) /\ ~Transactional(req[p].cur)
    BY <1>9, DeleteMyEntriesEffect DEF DeleteMyEntriesIfAny, Deleting
  <2>2. CASE entries' = entries
    BY <1>0, <1>2, <2>1, <2>2
  <2>3. CASE entries' = entries \ EntriesOf(req[p].iid) /\ ~Transactional(req[p].cur)
    <3>1. ASSUME NEW r \in Resource, Live(r), ~Protected(r)'
          PROVE  ~Transactional(r) /\ (faults > 0 \/ AboutToRemove(r)')
      <4>1. CASE rows[r] = req[p].iid
        <5>1. r = req[p].cur
          BY <2>1, <4>1 DEF Identity
        <5>. QED BY <2>1, <2>3, <4>1, <5>1 DEF AboutToRemove, Keeps
      <4>2. CASE rows[r] # req[p].iid
        <5>1. ~Protected(r)
          BY <2>1, <2>3, <3>1, <4>2, ProtectedStays DEF EntriesOf
        <5>. QED BY <2>1, <3>1, <5>1 DEF Covered, AboutToRemove, Alone
      <4>. QED BY <4>1, <4>2
    <3>. QED BY <2>1, <3>1 DEF Covered, Live, Transactional
  <2>. QED BY <2>1, <2>2, <2>3
<1>10. ASSUME NEW p \in Request, ConfirmRow(p)
       PROVE  Covered'
  <2>1. /\ Alone(p) /\ Deleting(req[p]) /\ entries' = entries /\ faults' = faults /\ rows' = rows
        /\ \/ rows[req[p].cur] = None
           \/ req'[p].pc = "remove" /\ req'[p].iid = req[p].iid
    BY <1>10, ConfirmRowEffect DEF ConfirmRow, Deleting, Keeps
  <2>2. ASSUME NEW r \in Resource, rows[r] # None, req[p].iid = rows[r]
        PROVE  r = req[p].cur
    BY <2>1, <2>2 DEF Identity
  <2>. QED BY <1>0, <1>2, <2>1, <2>2
<1>11. ASSUME NEW p \in Request, RemoveRow(p)
       PROVE  Covered'
  <2>1. /\ Alone(p) /\ Deleting(req[p]) /\ entries' = entries /\ faults' = faults
        /\ \/ rows' = [rows EXCEPT ![req[p].cur] = None]
           \/ rows' = rows /\ Transactional(req[p].cur)
    BY <1>11, RemoveRowEffect DEF RemoveRow, Deleting
  <2>2. ASSUME NEW r \in Resource, rows[r] # None, req[p].iid = rows[r]
        PROVE  r = req[p].cur
    BY <2>1, <2>2 DEF Identity
  <2>3. CASE rows' = [rows EXCEPT ![req[p].cur] = None]
    BY <1>0, <1>2, <2>1, <2>2, <2>3
  <2>4. CASE rows' = rows /\ Transactional(req[p].cur)
    BY <1>0, <1>2, <2>1, <2>2, <2>4
  <2>. QED BY <2>1, <2>3, <2>4
<1>12. ASSUME NEW p \in Request, Commit(p)
       PROVE  Covered'
  <2>1. /\ Alone(p) /\ req[p].pc = "commit" /\ faults' = faults
        /\ entries' = (entries \ EntriesOf(req[p].cut)) \cup req[p].links
    BY <1>12, NeutralEffect DEF Commit
  <2>2. CASE req[p].row = "insert"
    <3>1. req[p].cut = None
      BY <1>0, <2>2 DEF Control
    <3>2. EntriesOf(req[p].cut) = {}
      BY <1>0, <3>1 DEF EntriesOf, Entry, Iid, None
    <3>3. rows' = [rows EXCEPT ![req[p].cur] = req[p].iid]
      BY <1>12, <2>2 DEF Commit
    <3>4. entries \cup req[p].links \subseteq entries'
      BY <2>1, <3>2
    <3>. QED BY <1>3, <2>1, <2>2, <3>3, <3>4 DEF Creating
  <2>3. CASE req[p].row # "insert"
    <3>1. /\ Deleting(req[p]) /\ req[p].cut \in {None, req[p].iid} /\ req[p].row \in {"none", "delete"}
          /\ req[p].cur \in Resource
      BY <1>0, <2>1, <2>3 DEF Control, Deleting, Local
    <3>2. ASSUME NEW r \in Resource, rows'[r] # None
          PROVE  rows'[r] = rows[r] /\ rows[r] # req[p].cut
      <4>1. CASE req[p].row = "none"
        <5>1. rows' = rows
          BY <1>0, <1>12, <3>1, <4>1 DEF Commit
        <5>2. rows[r] # req[p].iid
          BY <2>1, <4>1 DEF Identity
        <5>. QED BY <3>1, <3>2, <5>1, <5>2
      <4>2. CASE req[p].row = "delete"
        <5>1. rows' = [rows EXCEPT ![req[p].cur] = None]
          BY <1>12, <4>2 DEF Commit
        <5>2. rows'[r] = rows[r] /\ r # req[p].cur
          BY <1>0, <3>2, <5>1
        <5>3. rows[r] # req[p].iid
          BY <3>1, <5>2 DEF Identity
        <5>. QED BY <3>1, <3>2, <5>2, <5>3
      <4>. QED BY <3>1, <4>1, <4>2
    <3>3. ASSUME NEW r \in Resource, rows'[r] # None, ~Protected(r)'
          PROVE  ~Transactional(r) /\ (faults > 0 \/ AboutToRemove(r)')
      <4>1. rows'[r] = rows[r] /\ rows[r] # req[p].cut /\ Live(r)
        BY <3>2, <3>3 DEF Live
      <4>2. \A e \in entries : e.child = rows[r] => e \in entries'
        BY <2>1, <4>1 DEF EntriesOf
      <4>3. ~Protected(r)
        BY <3>3, <4>1, <4>2, ProtectedStays
      <4>. QED BY <2>1, <4>1, <4>3 DEF Covered, AboutToRemove, Alone
    <3>. QED BY <2>1, <3>3 DEF Covered, Live, Transactional
  <2>. QED BY <2>2, <2>3
<1>. QED
  BY <1>1, <1>4, <1>5, <1>6, <1>7, <1>8, <1>9, <1>10, <1>11, <1>12 DEF Next, Terminated, Step

-----------------------------------------------------------------------------
(***************************************************************************)
(* The theorems.                                                           *)
(***************************************************************************)

\* Every step keeps each part of IInv.
LEMMA InvStep == IInv /\ [Next]_vars => IInv'
<1>. SUFFICES ASSUME IInv, [Next]_vars PROVE IInv'
  OBVIOUS
<1>1. TypedControl /\ Identity /\ Linked /\ Locks /\ SlotsApart /\ Covered
  BY DEF IInv, TypedControl
<1>2. TypedControl' BY <1>1, NextTypedControl
<1>3. Identity' BY <1>1, NextIdentity
<1>4. Linked' BY <1>1, NextLinked
<1>5. Locks' /\ SlotsApart' BY <1>1, NextLocks
<1>6. Covered' BY <1>1, NextCovered
<1>. QED BY <1>2, <1>3, <1>4, <1>5, <1>6 DEF IInv, TypedControl

\* IInv holds in every reachable state.
THEOREM Invariance == Spec => []IInv
<1>1. Init => IInv
  BY InitTypedControl, InitIdentity, InitLinked, InitLocks, InitCovered DEF IInv, TypedControl
<1>. QED BY <1>1, InvStep, PTL DEF Spec

\* The tables and the local states have their types, whatever the catalogue, the
\* number of handlers and the bounds.
THEOREM TypeCorrect == Spec => []TypeOK
BY Invariance, PTL DEF IInv

\* createSlot and DeleteHSMSlot: no committed slot is without the entries that
\* protect its application and its module.
THEOREM SlotsProtected == Spec => []TransactionalRowsProtected
<1>1. IInv => TransactionalRowsProtected
  BY DEF IInv, Covered, TransactionalRowsProtected
<1>. QED BY <1>1, Invariance, PTL

\* CreateUser, CreateAccount, DeleteUser and DeleteAccount: without a failure a
\* row lacks an entry only while a deletion is about to remove that very row.
THEOREM ProtectedUntilDeleted == Spec => []UnprotectedOnlyWhileDeleted
<1>1. IInv => UnprotectedOnlyWhileDeleted
  BY DEF IInv, Covered, AboutToRemove, UnprotectedOnlyWhileDeleted
<1>. QED BY <1>1, Invariance, PTL

\* GetHSMSlotByApplication never finds two slots, and no slot of a module is
\* that of two applications: any number of creations of slots leave at most
\* one committed in each place of a unique index.
THEOREM UniqueSlot == Spec => []OneSlotPerApplication
<1>1. IInv => OneSlotPerApplication
  <2>. SUFFICES ASSUME IInv, NEW r \in OfKind("slot"), NEW s \in OfKind("slot"), Live(r), Live(s), r # s
                PROVE  /\ ParentsOf[r][1] # ParentsOf[s][1]
                       /\ <<ParentsOf[r][2], SlotOf[r]>> # <<ParentsOf[s][2], SlotOf[s]>>
    BY DEF OneSlotPerApplication
  <2>1. r \in Resource /\ s \in Resource /\ KindOf[r] = "slot" /\ KindOf[s] = "slot"
    BY DEF OfKind
  <2>2. ~Conflict(r, s)
    BY <2>1 DEF IInv, SlotsApart
  <2>. QED BY <2>1, <2>2 DEF Conflict
<1>. QED BY <1>1, Invariance, PTL
=============================================================================
