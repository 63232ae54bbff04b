--------------------- MODULE SequentialIntegrityProofs ---------------------
(***************************************************************************)
(* What ResourceIntegrity promises when one request runs at a time, for    *)
(* every catalogue of resources and every bound.  With two handlers it is  *)
(* not so: a parent goes between the check and the link (ReadParent,       *)
(* LinkToParent), or comes back under a new id.  The inductive invariant   *)
(* adds to IInv whose entries the table holds (Owned), that what the one   *)
(* handler has read is still so (ReadIsTrue) and which rows the entries    *)
(* name (Told).                                                            *)
(***************************************************************************)
EXTENDS ResourceIntegrityProofs

\* One handler: requests are served one after the other.
Sequential == \A p, q \in Request : p = q

\* An entry carries the kind of its child, and nobody else's id.
Owned ==
    /\ \A e \in entries : e.child < nextIid
    /\ \A e \in entries : \A r \in Resource : rows[r] = e.child => e.childKind = KindOf[r]
    /\ \A p \in Request : Creating(req[p]) =>
          \A e \in entries \cup req[p].links : e.child = req[p].iid => e.childKind = KindOf[req[p].cur]
    /\ \A p \in Request : \A e \in req[p].links : e.child = req[p].iid

\* A creation has linked the rows its parents have, a deletion works on the row
\* that is there, and nothing depends on it any more once it has looked.
ReadIsTrue(l) ==
    /\ l.pc = "link" => l.up = rows[ParentsOf[l.cur][l.idx]]
    /\ Creating(l) => \A j \in Parents(l.cur) : j < l.idx =>
          /\ rows[ParentsOf[l.cur][j]] # None
          /\ \E e \in entries \cup l.links : e.child = l.iid /\ e.parent = rows[ParentsOf[l.cur][j]]
    /\ Deleting(l) => rows[l.cur] = l.iid
    /\ Deleting(l) /\ l.pc # "listChildren" => ChildrenOf(l.iid) = {}
    /\ Deleting(l) /\ l.pc \notin {"listChildren", "deleteEntries"} /\ Transactional(l.cur) =>
          l.cut = l.iid

Purging(l) == l.pc = "purge" => l.todo \subseteq OfKind("account")

SlotEntriesLive ==
    \A e \in entries : e.childKind = "slot" => \E r \in Resource : rows[r] = e.child

\* The deletion that has taken the entries of r and is about to take its row.
Removes(r) ==
    /\ ~Transactional(r)
    /\ \E p \in Request : req[p].pc \in {"confirm", "remove"} /\ req[p].iid = rows[r]

Told ==
    faults = 0 => \A r \in Resource : Live(r) => \A j \in Parents(r) :
        /\ Live(ParentsOf[r][j])
        /\ \/ \E e \in entries : e.child = rows[r] /\ e.parent = rows[ParentsOf[r][j]]
           \/ Removes(r)

Reads == \A p \in Request : ReadIsTrue(req[p]) /\ Purging(req[p])

-----------------------------------------------------------------------------
(***************************************************************************)
(* Facts of the catalogue, and what is purged.                             *)
(***************************************************************************)

\* A parent is of another kind than its child, and no account: see ParentKinds.
LEMMA ParentDiffers ==
    ASSUME NEW r \in Resource, NEW j \in Parents(r)
    PROVE  /\ ParentsOf[r][j] \in Resource
           /\ ParentsOf[r][j] # r
           /\ KindOf[ParentsOf[r][j]] # "account"
<1>1. /\ ParentsOf[r][j] \in Resource /\ KindOf[r] \in Kinds
      /\ KindOf[ParentsOf[r][j]] = ParentKinds(KindOf[r])[j]
      /\ Len(ParentsOf[r]) = Len(ParentKinds(KindOf[r]))
  BY ParentFacts, ResourceAssumption DEF Parents
<1>2. CASE KindOf[r] \in {"user", "account"}
  <2>1. Len(ParentKinds(KindOf[r])) = 1
    BY <1>2 DEF ParentKinds
  <2>2. j = 1
    BY <1>1, <2>1 DEF Parents
  <2>. QED BY <1>1, <1>2, <2>2 DEF ParentKinds
<1>3. CASE KindOf[r] = "slot"
  <2>1. ParentKinds(KindOf[r]) = <<"application", "module">>
    BY <1>3 DEF ParentKinds
  <2>2. j \in {1, 2}
    BY <1>1, <2>1 DEF Parents
  <2>. QED BY <1>1, <1>3, <2>1, <2>2
<1>4. CASE KindOf[r] \in {"application", "module"}
  <2>1. Len(ParentKinds(KindOf[r])) = 0
    BY <1>4 DEF ParentKinds
  <2>. QED BY <1>1, <2>1 DEF Parents
<1>. QED BY <1>1, <1>2, <1>3, <1>4 DEF Kinds

\* eth_removeAccount purges accounts, and nothing else does.
LEMMA OnlyAccountsPurged ==
    ASSUME TypedControl, NEW p \in Request, Purging(req[p]), Call(p) \/ Step(p) \/ Fault(p)
    PROVE  Purging(req'[p])
<1>. DEFINE l == req[p]
<1>0. l \in Local /\ req \in [Request -> Local]
  BY DEF TypedControl, TypeOK
<1>1. Idle.pc # "purge" /\ Done(p).pc # "purge"
  BY DEF Idle, Done
<1>2. ASSUME NEW pc, NEW v, pc # "purge" \/ v \subseteq OfKind("account"),
             BeginCreate(p, pc, v)
      PROVE  Purging(req'[p])
  <2>. DEFINE m == [Idle EXCEPT !.pc = pc, !.todo = v]
  <2>1. m.pc = pc /\ m.todo = v
    BY DEF Idle
  <2>2. req'[p] = m
    BY <1>2, Becomes DEF BeginCreate, Begin
  <2>. QED BY <1>2, <2>1, <2>2 DEF Purging
<1>3. ASSUME NEW r, BeginDelete(p, r) PROVE Purging(req'[p])
  <2>1. req'[p] = [Idle EXCEPT !.pc = "getSelf", !.cur = r]
    BY <1>3, Becomes DEF BeginDelete, Begin
  <2>. QED BY <2>1 DEF Purging, Idle
<1>4. CASE Call(p)
  <2>1. CASE CreateApplication(p) \/ CreateHSMModule(p) \/ CreateUser(p) \/ CreateHSMSlot(p) \/ EnableAccounts(p)
    <3>1. \E v : \/ BeginCreate(p, "pick", v) \/ BeginCreate(p, "slotCheck", v)
                 \/ BeginCreate(p, "enableCheck", v)
      BY <2>1 DEF CreateApplication, CreateHSMModule, CreateUser, CreateHSMSlot, EnableAccounts
    <3>. QED BY <1>2, <3>1
  <2>2. CASE DeleteAllAccountsForAddress(p)
    <3>1. PICK a : BeginCreate(p, "purge", {r \in OfKind("account") : AddressOf[r] = a})
      BY <2>2 DEF DeleteAllAccountsForAddress
    <3>2. {r \in OfKind("account") : AddressOf[r] = a} \subseteq OfKind("account")
      OBVIOUS
    <3>. QED BY <1>2, <3>1, <3>2
  <2>3. CASE DeleteApplication(p) \/ DeleteHSMModule(p) \/ DeleteUser(p) \/ DeleteHSMSlot(p) \/ DisableAccount(p)
    BY <1>3, <2>3 DEF DeleteApplication, DeleteHSMModule, DeleteUser, DeleteHSMSlot, DisableAccount
  <2>. QED BY <1>4, <2>1, <2>2, <2>3 DEF Call
<1>5. CASE Step(p) \/ Fault(p)
  <2>1. req'[p].pc # "purge"
    <3>1. CASE Fault(p) \/ RemoveAllForAddress(p) \/ Commit(p)
      BY <1>1, <3>1, Becomes DEF Fault, RemoveAllForAddress, Commit
    <3>2. CASE Precheck(p)
      BY <1>0, <1>1, <3>2, Becomes DEF Precheck, Local
    <3>. DEFINE up == [l EXCEPT !.up = rows[ParentsOf[l.cur][l.idx]], !.pc = "link"]
                ins == [l EXCEPT !.row = "insert", !.pc = "commit"]
                self == [l EXCEPT !.iid = rows[l.cur], !.pc = "listChildren"]
                del == [l EXCEPT !.pc = "deleteEntries"]
                rem == [l EXCEPT !.pc = "remove"]
                com == [l EXCEPT !.pc = "commit", !.row = IF rows[l.cur] = None THEN "none" ELSE "delete"]
    <3>0. "purge" \notin {up.pc, ins.pc, self.pc, del.pc, rem.pc, com.pc}
      BY <1>0 DEF Local
    <3>3. CASE ReadParent(p) \/ AddRow(p)
      <4>1. \E v \in {Done(p), up, ins} : Become(p, v)
        BY <3>3 DEF ReadParent, AddRow
      <4>. HIDE DEF up, ins
      <4>. QED BY <1>1, <3>0, <4>1, Becomes
    <3>7. CASE GetSelf(p) \/ ListMyChildrenEntries(p) \/ ConfirmRow(p) \/ RemoveRow(p)
      <4>1. \E v \in {Idle, self, del, rem, com} : Become(p, v)
        BY <3>7 DEF GetSelf, ListMyChildrenEntries, ConfirmRow, RemoveRow
      <4>. HIDE DEF self, del, rem, com
      <4>. QED BY <1>1, <3>0, <4>1, Becomes
    <3>4. CASE NewResource(p)
      BY <3>4, NewResourceEffect
    <3>5. CASE LinkToParent(p)
      BY <3>5, LinkToParentEffect
    <3>6. CASE DeleteMyEntriesIfAny(p)
      BY <3>6, DeleteMyEntriesEffect
    <3>. QED BY <1>5, <3>1, <3>2, <3>3, <3>4, <3>5, <3>6, <3>7 DEF Step
  <2>. QED BY <2>1 DEF Purging
<1>. QED BY <1>4, <1>5
-----------------------------------------------------------------------------
(***************************************************************************)
(* Whose the entries are.  This part does not need Sequential.             *)
(***************************************************************************)

\* The preloaded entries are those of the preloaded rows.
LEMMA InitOwned == Init => Owned /\ SlotEntriesLive
<1>. SUFFICES ASSUME Init PROVE Owned /\ SlotEntriesLive
  OBVIOUS
<1>1. \A p \in Request : ~Creating(req[p]) /\ req[p].links = {}
  BY DEF Init, Idle, Creating
<1>2. ASSUME NEW e \in entries
      PROVE  /\ e.child < nextIid
             /\ \A s \in Resource : rows[s] = e.child => e.childKind = KindOf[s]
             /\ \E s \in Resource : rows[s] = e.child
  <2>1. PICK r \in Preloaded : e \in PreloadedLinks(r)
    BY DEF Init
  <2>2. e.child = PreloadedIid[r] /\ e.childKind = KindOf[r]
    BY <2>1 DEF PreloadedLinks
  <2>3. /\ r \in Resource /\ rows[r] = PreloadedIid[r] /\ PreloadedIid[r] # None
        /\ PreloadedIid[r] < nextIid
    BY PreloadedAssumption DEF Init, None
  <2>4. ASSUME NEW s \in Resource, rows[s] = e.child PROVE s = r
    BY <2>2, <2>3, <2>4, PreloadedAssumption DEF Init
  <2>. QED BY <2>2, <2>3, <2>4
<1>. QED BY <1>1, <1>2 DEF Owned, SlotEntriesLive

\* Entries are written with the fresh id of the creation and the kind of what it
\* creates, so no row ever finds an entry of another under its id.
LEMMA NextOwned == IInv /\ Owned /\ [Next]_vars => Owned'
<1>. SUFFICES ASSUME IInv, Owned, [Next]_vars PROVE Owned'
  OBVIOUS
<1>0. /\ TypedControl /\ TypedControl' /\ Identity
      /\ nextIid \in Nat /\ entries \subseteq Entry
      /\ \A p \in Request : /\ Control(req[p]) /\ Control(req'[p]) /\ req[p].iid \in Nat
                            /\ req[p].links \subseteq Entry
      /\ rows \in [Resource -> Nat]
  BY NextTypedControl DEF IInv, TypedControl, TypeOK, Iid, Local
<1>1. \A p \in Request : Neutral(req'[p]) => ~Creating(req'[p])
  BY DEF Neutral
<1>2. \A p \in Request : /\ ~Creating(req[p]) => req[p].links = {}
                         /\ ~Creating(req'[p]) => req'[p].links = {}
  BY <1>0 DEF Control
<1>3. \A e \in Entry : e.child \in Nat /\ e.child # None
  BY DEF Entry, Iid, None
\* Rows and entries go at most, and the handler creates nothing.
<1>4. ASSUME NEW p \in Request, Alone(p), ~Creating(req'[p]), nextIid' = nextIid,
             \A r \in Resource : rows'[r] = rows[r] \/ rows'[r] = None,
             entries' \subseteq entries
      PROVE  Owned'
  <2>1. \A e \in entries' : e.child < nextIid'
    BY <1>4 DEF Owned
  <2>2. \A e \in entries' : \A r \in Resource : rows'[r] = e.child => e.childKind = KindOf[r]
    BY <1>0, <1>3, <1>4 DEF Owned
  <2>3. \A q \in Request : Creating(req'[q]) =>
            \A e \in entries' \cup req'[q].links :
                e.child = req'[q].iid => e.childKind = KindOf[req'[q].cur]
    BY <1>4 DEF Owned, Alone
  <2>4. \A q \in Request : \A e \in req'[q].links : e.child = req'[q].iid
    BY <1>2, <1>4 DEF Owned, Alone
  <2>. QED BY <2>1, <2>2, <2>3, <2>4 DEF Owned, Creating
\* The creation goes on, and no table changes.
<1>5. ASSUME NEW p \in Request, Alone(p), Creating(req[p]), Keeps(p), nextIid' = nextIid,
             rows' = rows, entries' = entries, req'[p].links = req[p].links
      PROVE  Owned'
  BY <1>5 DEF Owned, Alone, Keeps, Creating
\* The creation ends with its row in the table, and its links.
<1>6. ASSUME NEW p \in Request, Alone(p), Neutral(req'[p]), Creating(req[p]), nextIid' = nextIid,
             rows' = [rows EXCEPT ![req[p].cur] = req[p].iid],
             entries' \subseteq entries \cup req[p].links
      PROVE  Owned'
  <2>0. \A r \in Resource : rows'[r] = IF r = req[p].cur THEN req[p].iid ELSE rows[r]
    BY <1>0, <1>6
  <2>1. /\ req[p].iid < nextIid
        /\ \A q \in Request \ {p} : Creating(req[q]) => req[q].iid # req[p].iid
        /\ \A r \in Resource : rows[r] # req[p].iid
    BY <1>0, <1>6 DEF Identity
  <2>2. \A e \in req[p].links : e.child = req[p].iid
    BY DEF Owned
  <2>3. \A e \in entries' : e.child < nextIid'
    BY <1>6, <2>1, <2>2 DEF Owned
  <2>4. \A e \in entries' : \A r \in Resource : rows'[r] = e.child => e.childKind = KindOf[r]
    BY <1>6, <2>0, <2>1, <2>2 DEF Owned
  <2>5. \A q \in Request : Creating(req'[q]) =>
            \A e \in entries' \cup req'[q].links :
                e.child = req'[q].iid => e.childKind = KindOf[req'[q].cur]
    BY <1>1, <1>6, <2>1, <2>2 DEF Owned, Alone
  <2>6. \A q \in Request : \A e \in req'[q].links : e.child = req'[q].iid
    BY <1>1, <1>2, <1>6 DEF Owned, Alone
  <2>. QED BY <2>3, <2>4, <2>5, <2>6 DEF Owned, Creating
<1>7. CASE UNCHANGED vars
  BY <1>7 DEF vars, Owned, Creating
<1>8. ASSUME NEW p \in Request, Call(p) \/ Precheck(p) \/ Fault(p) \/ RemoveAllForAddress(p)
      PROVE  Owned'
  <2>1. /\ entries' = entries /\ nextIid' = nextIid
        /\ \A r \in Resource : rows'[r] = rows[r] \/ rows'[r] = None
    BY <1>0, <1>8, CallFrame DEF Fault, Precheck, RemoveAllForAddress
  <2>. QED BY <1>0, <1>1, <1>4, <1>8, <2>1, NeutralEffect
<1>9. ASSUME NEW p \in Request, NewResource(p)
      PROVE  Owned'
  <2>1. /\ Alone(p) /\ req'[p].iid = nextIid /\ nextIid' = nextIid + 1
        /\ rows' = rows /\ entries' = entries /\ req'[p].links = {}
    BY <1>0, <1>2, <1>9, NewResourceEffect DEF NewResource, KeepsWrites
  <2>2. \A e \in entries : e.child < nextIid' /\ e.child # req'[p].iid
    BY <1>0, <1>3, <2>1 DEF Owned
  <2>3. \A q \in Request : Creating(req'[q]) =>
            \A e \in entries' \cup req'[q].links :
                e.child = req'[q].iid => e.childKind = KindOf[req'[q].cur]
    BY <2>1, <2>2 DEF Owned, Alone
  <2>4. \A q \in Request : \A e \in req'[q].links : e.child = req'[q].iid
    BY <2>1 DEF Owned, Alone
  <2>. QED BY <2>1, <2>2, <2>3, <2>4 DEF Owned, Creating
<1>10. ASSUME NEW p \in Request, ReadParent(p)
       PROVE  Owned'
  <2>1. rows' = rows /\ entries' = entries /\ nextIid' = nextIid /\ Creating(req[p])
    BY <1>10 DEF ReadParent, Creating
  <2>. QED BY <1>0, <1>1, <1>4, <1>5, <1>10, <2>1, ReadParentEffect DEF KeepsWrites
<1>11. ASSUME NEW p \in Request, LinkToParent(p)
       PROVE  Owned'
  <2>1. /\ Alone(p) /\ Keeps(p) /\ Creating(req[p]) /\ rows' = rows /\ nextIid' = nextIid
        /\ entries' \cup req'[p].links \subseteq entries \cup req[p].links \cup {NewEntry(p)}
        /\ entries' \subseteq entries \cup {NewEntry(p)}
        /\ req'[p].links \subseteq req[p].links \cup {NewEntry(p)}
    BY <1>0, <1>11, LinkToParentEffect DEF LinkToParent, Creating
  <2>2. NewEntry(p).child = req[p].iid /\ NewEntry(p).childKind = KindOf[req[p].cur]
    BY DEF NewEntry
  <2>3. /\ req[p].iid < nextIid
        /\ \A q \in Request \ {p} : Creating(req[q]) => req[q].iid # req[p].iid
        /\ \A r \in Resource : rows[r] # req[p].iid
    BY <1>0, <2>1 DEF Identity
  <2>4. \A e \in entries' : e.child < nextIid'
    BY <2>1, <2>2, <2>3 DEF Owned
  <2>5. \A e \in entries' : \A r \in Resource : rows'[r] = e.child => e.childKind = KindOf[r]
    BY <2>1, <2>2, <2>3 DEF Owned
  <2>6. \A q \in Request : Creating(req'[q]) =>
            \A e \in entries' \cup req'[q].links :
                e.child = req'[q].iid => e.childKind = KindOf[req'[q].cur]
    <3>. SUFFICES ASSUME NEW q \in Request, Creating(req'[q]), NEW e \in entries' \cup req'[q].links,
                         e.child = req'[q].iid
                  PROVE  e.childKind = KindOf[req'[q].cur]
      OBVIOUS
    <3>1. CASE q = p
      BY <2>1, <2>2, <3>1 DEF Owned, Keeps
    <3>2. CASE q # p
      BY <2>1, <2>2, <2>3, <3>2 DEF Owned, Alone
    <3>. QED BY <3>1, <3>2
  <2>7. \A q \in Request : \A e \in req'[q].links : e.child = req'[q].iid
    BY <2>1, <2>2 DEF Owned, Alone, Keeps
  <2>. QED BY <2>4, <2>5, <2>6, <2>7 DEF Owned, Creating
<1>12. ASSUME NEW p \in Request, AddRow(p)
       PROVE  Owned'
  <2>1. entries' = entries /\ nextIid' = nextIid
    BY <1>12 DEF AddRow
  <2>. QED BY <1>0, <1>1, <1>4, <1>5, <1>6, <1>12, <2>1, AddRowEffect
<1>13. ASSUME NEW p \in Request,
              \/ GetSelf(p) \/ ListMyChildrenEntries(p) \/ DeleteMyEntriesIfAny(p)
              \/ ConfirmRow(p) \/ RemoveRow(p)
       PROVE  Owned'
  <2>1. nextIid' = nextIid /\ entries' \subseteq entries
    BY <1>13 DEF GetSelf, ListMyChildrenEntries, DeleteMyEntriesIfAny, ConfirmRow, RemoveRow
  <2>2. \A r \in Resource : rows'[r] = rows[r] \/ rows'[r] = None
    BY <1>0, <1>13 DEF GetSelf, ListMyChildrenEntries, DeleteMyEntriesIfAny, ConfirmRow, RemoveRow
  <2>3. Alone(p) /\ ~Creating(req'[p])
    <3>1. CASE GetSelf(p) \/ ListMyChildrenEntries(p) \/ DeleteMyEntriesIfAny(p) \/ ConfirmRow(p)
      BY <1>0, <1>1, <3>1, GetSelfEffect, ListMyChildrenEffect, DeleteMyEntriesEffect, ConfirmRowEffect
      DEF Creating
    <3>2. CASE RemoveRow(p)
      BY <1>0, <1>1, <3>2, RemoveRowEffect DEF Creating
    <3>. QED BY <1>13, <3>1, <3>2
  <2>. QED BY <1>4, <2>1, <2>2, <2>3
<1>14. ASSUME NEW p \in Request, Commit(p)
       PROVE  Owned'
  <2>1. /\ Alone(p) /\ Neutral(req'[p]) /\ nextIid' = nextIid
        /\ req[p].pc = "commit"
        /\ entries' = (entries \ EntriesOf(req[p].cut)) \cup req[p].links
    BY <1>0, <1>14, NeutralEffect DEF Commit
  <2>2. CASE req[p].row = "insert"
    BY <1>6, <1>14, <2>1, <2>2 DEF Commit, Creating
  <2>3. CASE req[p].row # "insert"
    <3>1. req[p].links = {}
      BY <1>2, <2>1, <2>3 DEF Creating
    <3>2. \A r \in Resource : rows'[r] = rows[r] \/ rows'[r] = None
      BY <1>0, <1>14, <2>3 DEF Commit
    <3>. QED BY <1>1, <1>4, <2>1, <3>1, <3>2
  <2>. QED BY <2>2, <2>3
<1>. QED
  BY <1>7, <1>8, <1>9, <1>10, <1>11, <1>12, <1>13, <1>14 DEF Next, Terminated, Step
-----------------------------------------------------------------------------
(***************************************************************************)
(* What the one handler has read.                                          *)
(***************************************************************************)

\* A handler that neither creates nor deletes relies on nothing it has read.
LEMMA NeutralReads ==
    ASSUME NEW l, Neutral(l) PROVE ReadIsTrue(l)
BY DEF Neutral, ReadIsTrue, Creating

\* No handler runs at the start, and the preloaded entries name the preloaded rows.
LEMMA InitTold == Init => Reads /\ Told
<1>. SUFFICES ASSUME Init PROVE Reads /\ Told
  OBVIOUS
<1>1. Reads
  BY IdleLocal DEF Init, Reads, ReadIsTrue, Purging, Idle, Creating, Deleting
<1>2. ASSUME NEW r \in Resource, Live(r), NEW j \in Parents(r)
      PROVE  /\ Live(ParentsOf[r][j])
             /\ \E e \in entries : e.child = rows[r] /\ e.parent = rows[ParentsOf[r][j]]
  <2>1. r \in Preloaded /\ rows[r] = PreloadedIid[r]
    BY <1>2 DEF Init, Live
  <2>2. ParentsOf[r][j] \in Preloaded /\ ParentsOf[r][j] \in Resource
    BY <2>1, PreloadedAssumption DEF Parents
  <2>3. rows[ParentsOf[r][j]] = PreloadedIid[ParentsOf[r][j]] /\ Live(ParentsOf[r][j])
    BY <2>2, PreloadedAssumption DEF Init, Live, None
  <2>. DEFINE e == [child |-> PreloadedIid[r], childKind |-> KindOf[r],
                    parent |-> PreloadedIid[ParentsOf[r][j]],
                    parentKind |-> KindOf[ParentsOf[r][j]]]
  <2>4. e \in entries
    BY <2>1 DEF Init, PreloadedLinks, Parents
  <2>5. e.child = rows[r] /\ e.parent = rows[ParentsOf[r][j]]
    BY <2>1, <2>3
  <2>. HIDE DEF e
  <2>. QED BY <2>3, <2>4, <2>5
<1>. QED BY <1>1, <1>2 DEF Told

\* Alone, a handler finds the tables at its next statement as it left them.
LEMMA NextReads ==
    ASSUME IInv, NEW p \in Request, ReadIsTrue(req[p]), Call(p) \/ Step(p) \/ Fault(p)
    PROVE  ReadIsTrue(req[p])'
<1>. DEFINE l == req[p]  m == req'[p]
<1>0. TypedControl /\ Control(l) /\ l \in Local /\ entries \subseteq Entry
  BY DEF IInv, TypedControl, TypeOK
<1>1. Neutral(m) => ReadIsTrue(req[p])'
  BY DEF Neutral, ReadIsTrue, Creating, Deleting
<1>2. CASE Call(p) \/ Precheck(p) \/ Fault(p) \/ RemoveAllForAddress(p) \/ Commit(p)
  BY <1>0, <1>1, <1>2, NeutralEffect
<1>3. CASE NewResource(p)
  <2>1. m.pc \in {"readParent", "addRow"} /\ m.idx = 1
    BY <1>0, <1>3, NewResourceEffect
  <2>2. \A j \in Parents(m.cur) : ~(j < m.idx)
    BY <2>1 DEF Parents
  <2>. QED BY <2>1, <2>2 DEF ReadIsTrue, Creating, Deleting
<1>4. CASE ReadParent(p)
  <2>1. CASE ~Neutral(m)
    <3>1. /\ m.pc = "link" /\ m.idx = l.idx /\ m.up = rows[ParentsOf[l.cur][l.idx]]
          /\ m.cur = l.cur /\ m.iid = l.iid /\ m.links = l.links
          /\ rows' = rows /\ entries' = entries /\ Creating(l)
      BY <1>0, <1>4, <2>1, ReadParentEffect DEF ReadParent, Keeps, KeepsWrites, Creating
    <3>2. ~Deleting(m)
      BY <3>1 DEF Deleting
    <3>. QED BY <3>1, <3>2 DEF ReadIsTrue, Creating, Deleting, ChildrenOf
  <2>. QED BY <1>1, <2>1
<1>5. CASE LinkToParent(p)
  <2>1. /\ m.cur = l.cur /\ m.iid = l.iid /\ m.idx = l.idx + 1
        /\ m.pc \in {"readParent", "addRow"} /\ l.pc = "link" /\ Creating(l)
        /\ rows' = rows
        /\ entries \cup l.links \subseteq entries' \cup m.links
        /\ NewEntry(p) \in entries' \cup m.links
    BY <1>0, <1>5, LinkToParentEffect DEF LinkToParent, Keeps, Creating
  <2>2. /\ NewEntry(p).child = l.iid /\ NewEntry(p).parent = rows[ParentsOf[l.cur][l.idx]]
        /\ rows[ParentsOf[l.cur][l.idx]] # None /\ l.idx \in Nat
    BY <1>0, <2>1 DEF NewEntry, ReadIsTrue, Control, Iid, None, Local
  <2>3. ASSUME NEW j \in Parents(l.cur), j < m.idx
        PROVE  /\ rows[ParentsOf[l.cur][j]] # None
               /\ \E e \in entries' \cup m.links :
                      e.child = l.iid /\ e.parent = rows[ParentsOf[l.cur][j]]
    <3>1. CASE j < l.idx
      BY <2>1, <3>1 DEF ReadIsTrue
    <3>2. CASE j = l.idx
      BY <2>1, <2>2, <3>2
    <3>. QED BY <2>1, <2>2, <2>3, <3>1, <3>2 DEF Parents
  <2>. QED BY <2>1, <2>3 DEF ReadIsTrue, Creating, Deleting
<1>6. CASE AddRow(p)
  <2>1. CASE ~Neutral(m)
    <3>1. /\ m.pc = "commit" /\ m.row = "insert" /\ m.idx = l.idx
          /\ m.cur = l.cur /\ m.iid = l.iid /\ m.links = l.links
          /\ rows' = rows /\ entries' = entries /\ Creating(l)
      BY <1>0, <1>6, <2>1, AddRowEffect DEF AddRow, Keeps
    <3>. QED BY <3>1 DEF ReadIsTrue, Creating, Deleting
  <2>. QED BY <1>1, <2>1
<1>7. CASE GetSelf(p)
  <2>1. CASE ~Neutral(m)
    <3>1. m.pc = "listChildren" /\ m.iid = rows[m.cur] /\ rows' = rows
      BY <1>0, <1>7, <2>1, GetSelfEffect DEF GetSelf
    <3>. QED BY <3>1 DEF ReadIsTrue, Creating, Deleting
  <2>. QED BY <1>1, <2>1
<1>8. CASE ListMyChildrenEntries(p)
  <2>1. CASE ~Neutral(m)
    <3>1. /\ m.pc = "deleteEntries" /\ m.iid = l.iid /\ m.cur = l.cur /\ rows' = rows
          /\ entries' = entries /\ ChildrenOf(l.iid) = {} /\ Deleting(l)
      BY <1>0, <1>8, <2>1, ListMyChildrenEffect DEF ListMyChildrenEntries, Keeps, Deleting
    <3>. QED BY <3>1 DEF ReadIsTrue, Creating, Deleting, ChildrenOf
  <2>. QED BY <1>1, <2>1
<1>9. CASE DeleteMyEntriesIfAny(p)
  <2>1. /\ m.pc = "confirm" /\ m.iid = l.iid /\ m.cur = l.cur /\ rows' = rows
        /\ entries' \subseteq entries /\ l.pc = "deleteEntries" /\ Deleting(l)
        /\ Transactional(l.cur) => m.cut = l.iid
    BY <1>0, <1>9, DeleteMyEntriesEffect DEF DeleteMyEntriesIfAny, Keeps, Deleting
  <2>. QED BY <2>1 DEF ReadIsTrue, Creating, Deleting, ChildrenOf, Transactional
<1>10. CASE ConfirmRow(p)
  <2>1. CASE ~Neutral(m)
    <3>1. /\ m.pc = "remove" /\ m.iid = l.iid /\ m.cur = l.cur /\ m.cut = l.cut
          /\ rows' = rows /\ entries' = entries /\ Deleting(l) /\ l.pc = "confirm"
      BY <1>0, <1>10, <2>1, ConfirmRowEffect DEF ConfirmRow, Keeps, KeepsWrites, Deleting
    <3>. QED BY <3>1 DEF ReadIsTrue, Creating, Deleting, ChildrenOf, Transactional
  <2>. QED BY <1>1, <2>1
<1>11. CASE RemoveRow(p)
  <2>1. CASE ~Neutral(m)
    <3>1. /\ m.pc = "commit" /\ m.iid = l.iid /\ m.cur = l.cur /\ m.cut = l.cut
          /\ rows' = rows /\ entries' = entries /\ Deleting(l) /\ l.pc = "remove"
          /\ m.row # "insert"
      BY <1>0, <1>11, <2>1, RemoveRowEffect DEF RemoveRow, Keeps, Deleting
    <3>. QED BY <3>1 DEF ReadIsTrue, Creating, Deleting, ChildrenOf, Transactional
  <2>. QED BY <1>1, <2>1
<1>. QED
  BY <1>2, <1>3, <1>4, <1>5, <1>6, <1>7, <1>8, <1>9, <1>10, <1>11 DEF Step
-----------------------------------------------------------------------------
(***************************************************************************)
(* Entries of slots.                                                       *)
(***************************************************************************)

\* createSlot writes the entries of a slot in the transaction of its row, and
\* DeleteHSMSlot deletes them in one; no other row is theirs.
LEMMA NextSlotEntries ==
    ASSUME IInv, Owned, SlotEntriesLive, Reads, Next PROVE SlotEntriesLive'
<1>0. /\ TypedControl /\ Identity /\ Locks /\ rows \in [Resource -> Nat]
      /\ entries \subseteq Entry
      /\ \A p \in Request : Control(req[p])
  BY DEF IInv, TypedControl, TypeOK
\* Rows stay, and no entry of a slot is added.
<1>1. ASSUME rows' = rows, \A e \in entries' : e.childKind = "slot" => e \in entries
      PROVE  SlotEntriesLive'
  BY <1>1 DEF SlotEntriesLive
\* A row that is no slot goes.
<1>2. ASSUME \A r \in Resource : rows'[r] = rows[r] \/ KindOf[r] # "slot", entries' = entries
      PROVE  SlotEntriesLive'
  <2>. SUFFICES ASSUME NEW e \in entries, e.childKind = "slot"
                PROVE  \E r \in Resource : rows'[r] = e.child
    BY <1>2 DEF SlotEntriesLive
  <2>1. PICK r \in Resource : rows[r] = e.child
    BY DEF SlotEntriesLive
  <2>2. KindOf[r] = "slot"
    BY <2>1 DEF Owned
  <2>. QED BY <1>2, <2>1, <2>2
<1>3. ASSUME NEW p \in Request, Call(p) \/ Precheck(p) \/ Fault(p) \/ NewResource(p) \/ ReadParent(p)
      PROVE  SlotEntriesLive'
  BY <1>0, <1>1, <1>3, CallFrame DEF Fault, Precheck, NewResource, ReadParent
<1>4. ASSUME NEW p \in Request, LinkToParent(p)
      PROVE  SlotEntriesLive'
  <2>1. rows' = rows /\ req[p].cur \in Resource
    BY <1>0, <1>4 DEF LinkToParent, Control, Creating
  <2>2. NewEntry(p).childKind = KindOf[req[p].cur]
    BY DEF NewEntry
  <2>3. \/ entries' = entries
        \/ entries' = entries \cup {NewEntry(p)} /\ ~Transactional(req[p].cur)
    BY <1>0, <1>4, LinkToParentEffect
  <2>. QED BY <1>1, <2>1, <2>2, <2>3 DEF Transactional, TransactionalKinds
<1>5. ASSUME NEW p \in Request, AddRow(p)
      PROVE  SlotEntriesLive'
  <2>1. entries' = entries /\ req[p].cur \in Resource
    BY <1>0, <1>5 DEF AddRow, Control, Creating
  <2>2. \/ rows' = rows
        \/ rows' = [rows EXCEPT ![req[p].cur] = req[p].iid] /\ ~Transactional(req[p].cur)
    BY <1>0, <1>5, AddRowEffect
  <2>. QED BY <1>0, <1>2, <2>1, <2>2 DEF Transactional, TransactionalKinds
<1>6. ASSUME NEW p \in Request,
             \/ GetSelf(p) \/ ListMyChildrenEntries(p) \/ DeleteMyEntriesIfAny(p) \/ ConfirmRow(p)
      PROVE  SlotEntriesLive'
  <2>1. rows' = rows /\ entries' \subseteq entries
    BY <1>6 DEF GetSelf, ListMyChildrenEntries, DeleteMyEntriesIfAny, ConfirmRow
  <2>. QED BY <1>1, <2>1
<1>7. ASSUME NEW p \in Request, RemoveRow(p)
      PROVE  SlotEntriesLive'
  <2>1. entries' = entries /\ req[p].cur \in Resource
    BY <1>0, <1>7 DEF RemoveRow, Control, Deleting
  <2>2. \/ rows' = rows
        \/ rows' = [rows EXCEPT ![req[p].cur] = None] /\ ~Transactional(req[p].cur)
    BY <1>0, <1>7, RemoveRowEffect
  <2>. QED BY <1>0, <1>2, <2>1, <2>2 DEF Transactional, TransactionalKinds
<1>8. ASSUME NEW p \in Request, RemoveAllForAddress(p)
      PROVE  SlotEntriesLive'
  <2>1. /\ entries' = entries /\ req[p].todo \subseteq OfKind("account")
        /\ \A r \in Resource : rows'[r] = rows[r] \/ r \in req[p].todo
    BY <1>8 DEF RemoveAllForAddress, Reads, Purging
  <2>. QED BY <1>2, <2>1 DEF OfKind
<1>9. ASSUME NEW p \in Request, Commit(p)
      PROVE  SlotEntriesLive'
  <2>. DEFINE l == req[p]
  <2>1. /\ entries' = (entries \ EntriesOf(l.cut)) \cup l.links
        /\ l.pc = "commit" /\ l.cur \in Resource /\ l.row \in {"none", "insert", "delete"}
    BY <1>0, <1>9 DEF Commit, Control, Creating, Deleting, TypedControl, TypeOK, Local
  <2>2. CASE l.row = "insert"
    <3>1. rows' = [rows EXCEPT ![l.cur] = l.iid] /\ rows[l.cur] = None
      BY <1>0, <1>9, <2>1, <2>2 DEF Commit, Locks, Conflict
    <3>2. \A e \in l.links : e.child = rows'[l.cur]
      BY <1>0, <2>1, <3>1 DEF Owned
    <3>3. \A e \in entries : e.childKind = "slot" => \E r \in Resource : rows'[r] = e.child
      <4>. SUFFICES ASSUME NEW e \in entries, e.childKind = "slot"
                    PROVE  \E r \in Resource : rows'[r] = e.child
        OBVIOUS
      <4>1. PICK r \in Resource : rows[r] = e.child
        BY DEF SlotEntriesLive
      <4>2. r # l.cur
        BY <1>0, <3>1, <4>1 DEF Entry, Iid, None
      <4>. QED BY <1>0, <3>1, <4>1, <4>2
    <3>. QED BY <2>1, <3>2, <3>3 DEF SlotEntriesLive
  <2>3. CASE l.row # "insert"
    <3>1. Deleting(l) /\ ~Creating(l) /\ Transactional(l.cur) /\ l.links = {}
      BY <1>0, <2>1, <2>3 DEF Control, Deleting, Creating
    <3>2. l.cut = l.iid /\ rows[l.cur] = l.iid
      BY <2>1, <3>1 DEF Reads, ReadIsTrue
    <3>3. \A r \in Resource : rows'[r] = rows[r] \/ r = l.cur
      BY <1>0, <1>9 DEF Commit
    <3>. SUFFICES ASSUME NEW e \in entries, e.child # l.iid, e.childKind = "slot"
                  PROVE  \E r \in Resource : rows'[r] = e.child
      BY <2>1, <3>1, <3>2 DEF SlotEntriesLive, EntriesOf
    <3>4. PICK r \in Resource : rows[r] = e.child
      BY DEF SlotEntriesLive
    <3>. QED BY <3>2, <3>3, <3>4
  <2>. QED BY <2>2, <2>3
<1>10. CASE UNCHANGED vars
  BY <1>10 DEF vars, SlotEntriesLive
<1>. QED
  BY <1>3, <1>4, <1>5, <1>6, <1>7, <1>8, <1>9, <1>10 DEF Next, Terminated, Step
-----------------------------------------------------------------------------
(***************************************************************************)
(* Which rows the entries name.                                            *)
(***************************************************************************)

\* Without a second handler no row that something depends on goes, and none is
\* replaced between the check and the link.
LEMMA NextTold ==
    ASSUME IInv, Told, Reads, Sequential, Next PROVE Told'
<1>0. /\ TypedControl /\ Identity /\ Locks /\ rows \in [Resource -> Nat]
      /\ entries \subseteq Entry /\ faults \in Nat
      /\ \A p \in Request : Control(req[p])
  BY BoundAssumption DEF IInv, TypedControl, TypeOK
\* No row changes and no entry goes; a deletion about to remove a row goes on.
<1>1. ASSUME faults' = 0 => faults = 0, rows' = rows, entries \subseteq entries',
             \A r \in Resource : Live(r) /\ Removes(r) => Removes(r)'
      PROVE  Told'
  BY <1>1 DEF Told, Live
\* The row of a creation appears with its links.
<1>2. ASSUME NEW p \in Request, faults' = faults, req[p].pc = "addRow" \/ req[p].row = "insert",
             Creating(req[p]), req[p].cur \in Resource, rows[req[p].cur] = None,
             rows' = [rows EXCEPT ![req[p].cur] = req[p].iid],
             entries \cup req[p].links \subseteq entries'
      PROVE  Told'
  <2>. DEFINE c == req[p].cur
  <2>0. \A r \in Resource : rows'[r] = IF r = c THEN req[p].iid ELSE rows[r]
    BY <1>0, <1>2
  <2>. SUFFICES ASSUME faults = 0, NEW r \in Resource, rows'[r] # None, NEW j \in Parents(r)
                PROVE  /\ rows'[ParentsOf[r][j]] # None
                       /\ \E e \in entries' : e.child = rows'[r] /\ e.parent = rows'[ParentsOf[r][j]]
    BY <1>2 DEF Told, Live
  <2>1. ParentsOf[r][j] \in Resource
    BY ParentDiffers
  <2>2. CASE r = c
    <3>1. req[p].idx = Len(ParentsOf[r]) + 1
      BY <1>0, <1>2, <2>2 DEF Control
    <3>2. j < req[p].idx
      BY <3>1, ParentFacts DEF Parents
    <3>3. /\ rows[ParentsOf[r][j]] # None
          /\ \E e \in entries \cup req[p].links :
                 e.child = req[p].iid /\ e.parent = rows[ParentsOf[r][j]]
      BY <1>2, <2>2, <3>2 DEF Reads, ReadIsTrue
    <3>4. rows'[ParentsOf[r][j]] = rows[ParentsOf[r][j]] /\ rows'[r] = req[p].iid
      BY <1>2, <2>0, <2>1, <2>2, <3>3
    <3>. QED BY <1>2, <3>3, <3>4
  <2>3. CASE r # c
    <3>1. rows'[r] = rows[r] /\ Live(r)
      BY <2>0, <2>3 DEF Live
    <3>2. ~Removes(r)
      <4>1. req[p].pc \notin {"confirm", "remove"}
        BY <1>0, <1>2 DEF Control
      <4>. QED BY <4>1 DEF Removes, Sequential
    <3>3. /\ rows[ParentsOf[r][j]] # None
          /\ \E e \in entries : e.child = rows[r] /\ e.parent = rows[ParentsOf[r][j]]
      BY <3>1, <3>2 DEF Told, Live
    <3>4. rows'[ParentsOf[r][j]] = rows[ParentsOf[r][j]]
      BY <1>2, <2>0, <2>1, <3>3
    <3>. QED BY <1>2, <3>1, <3>3, <3>4
  <2>. QED BY <2>2, <2>3
\* A row without children goes, and at most its own entries.
<1>3. ASSUME NEW p \in Request, faults' = faults, req[p].pc \in {"remove", "commit"},
             Deleting(req[p]), req[p].cur \in Resource,
             rows' = [rows EXCEPT ![req[p].cur] = None],
             \A e \in entries : e.child # req[p].iid => e \in entries'
      PROVE  Told'
  <2>. DEFINE c == req[p].cur
  <2>0. /\ \A r \in Resource : rows'[r] = IF r = c THEN None ELSE rows[r]
        /\ rows[c] = req[p].iid /\ ChildrenOf(req[p].iid) = {}
    BY <1>0, <1>3 DEF Reads, ReadIsTrue
  <2>. SUFFICES ASSUME faults = 0, NEW r \in Resource, rows'[r] # None, NEW j \in Parents(r)
                PROVE  /\ rows'[ParentsOf[r][j]] # None
                       /\ \E e \in entries' : e.child = rows'[r] /\ e.parent = rows'[ParentsOf[r][j]]
    BY <1>3 DEF Told, Live
  <2>1. ParentsOf[r][j] \in Resource
    BY ParentDiffers
  <2>2. r # c /\ rows'[r] = rows[r] /\ Live(r)
    BY <2>0 DEF Live
  <2>3. rows[r] # req[p].iid
    BY <1>0, <1>3, <2>2 DEF Identity
  <2>4. ~Removes(r)
    BY <2>3 DEF Removes, Sequential
  <2>5. rows[ParentsOf[r][j]] # None
    BY <2>2 DEF Told, Live
  <2>6. PICK e \in entries : e.child = rows[r] /\ e.parent = rows[ParentsOf[r][j]]
    BY <2>2, <2>4 DEF Told
  <2>7. ParentsOf[r][j] # c
    BY <2>0, <2>6 DEF ChildrenOf
  <2>8. rows'[ParentsOf[r][j]] = rows[ParentsOf[r][j]]
    BY <2>0, <2>1, <2>7
  <2>. QED BY <1>3, <2>2, <2>3, <2>5, <2>6, <2>8
\* One handler, so what is about to be removed is what it works on.
<1>4. ASSUME NEW p \in Request, req[p].pc \notin {"confirm", "remove"}, NEW r \in Resource
      PROVE  ~Removes(r)
  BY <1>4 DEF Removes, Sequential
<1>5. ASSUME NEW p \in Request, NEW r \in Resource, Live(r), Removes(r)
      PROVE  r = req[p].cur /\ ~Transactional(r) /\ rows[r] = req[p].iid
  <2>1. req[p].pc \in {"confirm", "remove"} /\ req[p].iid = rows[r] /\ ~Transactional(r)
    BY <1>5 DEF Removes, Sequential
  <2>2. Deleting(req[p])
    BY <2>1 DEF Deleting
  <2>. QED BY <1>0, <2>1, <2>2 DEF Identity
<1>6. ASSUME NEW p \in Request, Call(p) \/ Precheck(p) \/ NewResource(p) \/ ReadParent(p) \/ LinkToParent(p)
      PROVE  Told'
  <2>1. /\ rows' = rows /\ entries \subseteq entries' /\ faults' = faults
        /\ req[p].pc \notin {"confirm", "remove"}
    BY <1>0, <1>6, CallFrame DEF Precheck, NewResource, ReadParent, LinkToParent
  <2>. QED BY <1>1, <1>4, <2>1
<1>7. ASSUME NEW p \in Request, Fault(p) PROVE Told'
  BY <1>0, <1>7 DEF Fault, Told
<1>8. ASSUME NEW p \in Request, AddRow(p) PROVE Told'
  <2>1. /\ entries' = entries /\ faults' = faults /\ req[p].pc = "addRow" /\ Creating(req[p])
        /\ req[p].cur \in Resource
    BY <1>0, <1>8 DEF AddRow, Creating, Control
  <2>2. CASE rows' = rows
    BY <1>1, <1>4, <2>1, <2>2
  <2>3. CASE rows' # rows
    <3>1. /\ rows' = [rows EXCEPT ![req[p].cur] = req[p].iid] /\ ~Transactional(req[p].cur)
          /\ \A s \in Resource : Conflict(s, req[p].cur) => rows[s] = None
      BY <1>0, <1>8, <2>3, AddRowEffect
    <3>2. rows[req[p].cur] = None /\ req[p].links = {}
      BY <1>0, <2>1, <3>1 DEF Conflict, Control
    <3>. QED BY <1>2, <2>1, <3>1, <3>2
  <2>. QED BY <2>2, <2>3
<1>9. ASSUME NEW p \in Request, GetSelf(p) \/ ListMyChildrenEntries(p) PROVE Told'
  <2>1. /\ rows' = rows /\ entries' = entries /\ faults' = faults
        /\ req[p].pc \notin {"confirm", "remove"}
    BY <1>9 DEF GetSelf, ListMyChildrenEntries
  <2>. QED BY <1>1, <1>4, <2>1
<1>10. ASSUME NEW p \in Request, DeleteMyEntriesIfAny(p) PROVE Told'
  <2>1. /\ rows' = rows /\ faults' = faults /\ req[p].pc = "deleteEntries" /\ Deleting(req[p])
        /\ req'[p].pc = "confirm" /\ req'[p].iid = req[p].iid
        /\ \/ entries' = entries
           \/ entries' = entries \ EntriesOf(req[p].iid) /\ ~Transactional(req[p].cur)
    BY <1>0, <1>10, DeleteMyEntriesEffect DEF DeleteMyEntriesIfAny, Keeps, Deleting
  <2>2. CASE entries' = entries
    BY <1>1, <1>4, <2>1, <2>2
  <2>3. CASE entries' = entries \ EntriesOf(req[p].iid) /\ ~Transactional(req[p].cur)
    <3>. SUFFICES ASSUME faults = 0, NEW r \in Resource, Live(r), NEW j \in Parents(r)
                  PROVE  /\ Live(ParentsOf[r][j])
                         /\ \/ \E e \in entries' : e.child = rows[r] /\ e.parent = rows[ParentsOf[r][j]]
                            \/ Removes(r)'
      BY <2>1 DEF Told, Live
    <3>1. /\ Live(ParentsOf[r][j])
          /\ \E e \in entries : e.child = rows[r] /\ e.parent = rows[ParentsOf[r][j]]
      BY <1>4, <2>1 DEF Told
    <3>2. CASE rows[r] = req[p].iid
      <4>1. r = req[p].cur
        BY <1>0, <2>1, <3>2 DEF Identity
      <4>. QED BY <2>1, <2>3, <3>1, <3>2, <4>1 DEF Removes, Transactional
    <3>3. CASE rows[r] # req[p].iid
      BY <2>3, <3>1, <3>3 DEF EntriesOf
    <3>. QED BY <3>2, <3>3
  <2>. QED BY <2>1, <2>2, <2>3
<1>11. ASSUME NEW p \in Request, ConfirmRow(p) PROVE Told'
  <2>1. /\ rows' = rows /\ entries' = entries /\ faults' = faults /\ req[p].pc = "confirm"
        /\ Deleting(req[p])
        /\ \/ rows[req[p].cur] = None
           \/ req'[p].pc = "remove" /\ req'[p].iid = req[p].iid
    BY <1>0, <1>11, ConfirmRowEffect DEF ConfirmRow, Keeps, Deleting
  <2>2. rows[req[p].cur] # None
    BY <1>0, <2>1 DEF Reads, ReadIsTrue, Control, Iid, None
  <2>3. ASSUME NEW r \in Resource, Live(r), Removes(r) PROVE Removes(r)'
    BY <1>5, <2>1, <2>2, <2>3 DEF Removes, Transactional
  <2>. QED BY <1>1, <2>1, <2>3
<1>12. ASSUME NEW p \in Request, RemoveRow(p) PROVE Told'
  <2>1. /\ entries' = entries /\ faults' = faults /\ req[p].pc = "remove" /\ Deleting(req[p])
        /\ req[p].cur \in Resource
        /\ \/ rows' = [rows EXCEPT ![req[p].cur] = None]
           \/ rows' = rows /\ Transactional(req[p].cur)
    BY <1>0, <1>12, RemoveRowEffect DEF RemoveRow, Deleting, Control
  <2>2. CASE rows' = [rows EXCEPT ![req[p].cur] = None]
    BY <1>3, <2>1, <2>2
  <2>3. CASE rows' = rows /\ Transactional(req[p].cur)
    BY <1>1, <1>5, <2>1, <2>3
  <2>. QED BY <2>1, <2>2, <2>3
<1>13. ASSUME NEW p \in Request, RemoveAllForAddress(p) PROVE Told'
  <2>1. /\ entries' = entries /\ faults' = faults /\ req[p].todo \subseteq OfKind("account")
        /\ req[p].pc = "purge"
        /\ \A r \in Resource : rows'[r] = rows[r] \/ (rows'[r] = None /\ KindOf[r] = "account")
    BY <1>13 DEF RemoveAllForAddress, Reads, Purging, OfKind
  <2>. SUFFICES ASSUME faults = 0, NEW r \in Resource, rows'[r] # None, NEW j \in Parents(r)
                PROVE  /\ rows'[ParentsOf[r][j]] # None
                       /\ \E e \in entries : e.child = rows'[r] /\ e.parent = rows'[ParentsOf[r][j]]
    BY <2>1 DEF Told, Live
  <2>2. rows'[r] = rows[r] /\ rows'[ParentsOf[r][j]] = rows[ParentsOf[r][j]]
    BY <2>1, ParentDiffers
  <2>. QED BY <1>4, <2>1, <2>2 DEF Told, Live
<1>14. ASSUME NEW p \in Request, Commit(p) PROVE Told'
  <2>. DEFINE l == req[p]
  <2>1. /\ entries' = (entries \ EntriesOf(l.cut)) \cup l.links /\ faults' = faults
        /\ l.pc = "commit" /\ l.cur \in Resource /\ l.row \in {"none", "insert", "delete"}
    BY <1>0, <1>14 DEF Commit, Control, Creating, Deleting, TypedControl, TypeOK, Local
  <2>2. CASE l.row = "insert"
    <3>1. rows' = [rows EXCEPT ![l.cur] = l.iid] /\ rows[l.cur] = None /\ l.cut = None
      BY <1>0, <1>14, <2>1, <2>2 DEF Commit, Locks, Conflict, Control
    <3>2. entries \cup l.links \subseteq entries'
      BY <1>0, <2>1, <3>1 DEF EntriesOf, Entry, Iid, None
    <3>. QED BY <1>2, <2>1, <2>2, <3>1, <3>2 DEF Creating
  <2>3. CASE l.row # "insert"
    <3>1. Deleting(l) /\ l.iid \in Iid /\ l.cut \in {None, l.iid}
      BY <1>0, <2>1, <2>3 DEF Control, Deleting
    <3>2. rows[l.cur] = l.iid
      BY <3>1 DEF Reads, ReadIsTrue
    <3>3. l.row = "delete"
      BY <1>0, <2>1, <2>3, <3>2 DEF Identity
    <3>4. rows' = [rows EXCEPT ![l.cur] = None]
      BY <1>14, <3>3 DEF Commit
    <3>5. \A e \in entries : e.child # l.iid => e \in entries'
      BY <1>0, <2>1, <3>1 DEF EntriesOf, Entry, Iid, None
    <3>. QED BY <1>3, <2>1, <3>1, <3>4, <3>5
  <2>. QED BY <2>2, <2>3
<1>15. CASE UNCHANGED vars
  BY <1>1, <1>15 DEF vars, Removes, Transactional
<1>. QED
  BY <1>6, <1>7, <1>8, <1>9, <1>10, <1>11, <1>12, <1>13, <1>14, <1>15 DEF Next, Terminated, Step
-----------------------------------------------------------------------------
(***************************************************************************)
(* The theorems.                                                           *)
(***************************************************************************)

\* The inductive invariant of sequential requests.
SequentialInv == IInv /\ Owned /\ Reads /\ SlotEntriesLive /\ Told

LEMMA SequentialInvariance ==
    ASSUME Sequential PROVE Spec => []SequentialInv
<1>1. Init => SequentialInv
  BY InitTypedControl, InitIdentity, InitLinked, InitLocks, InitCovered, InitOwned, InitTold
  DEF SequentialInv, IInv, TypedControl
<1>2. SequentialInv /\ [Next]_vars => SequentialInv'
  <2>. SUFFICES ASSUME SequentialInv, [Next]_vars PROVE SequentialInv'
    OBVIOUS
  <2>. USE DEF SequentialInv
  <2>1. IInv'
    BY InvStep
  <2>2. Owned'
    BY NextOwned
  <2>3. CASE UNCHANGED vars
    BY <2>1, <2>2, <2>3
    DEF vars, Reads, ReadIsTrue, Purging, Creating, Deleting, ChildrenOf, Transactional,
        SlotEntriesLive, Told, Live, Removes
  <2>4. CASE Next
    <3>1. Reads'
      <4>1. CASE Terminated
        BY <4>1 DEF Terminated, vars, Reads, ReadIsTrue, Purging, Creating, Deleting, ChildrenOf,
           Transactional
      <4>2. CASE \E p \in Request : Call(p) \/ Step(p) \/ Fault(p)
        <5>1. PICK p \in Request : Call(p) \/ Step(p) \/ Fault(p)
          BY <4>2
        <5>2. ReadIsTrue(req[p])' /\ Purging(req[p])'
          BY <5>1, NextReads, OnlyAccountsPurged DEF Reads, IInv, TypedControl, Purging
        <5>3. \A q \in Request : q = p
          BY DEF Sequential
        <5>. QED BY <5>2, <5>3 DEF Reads
      <4>. QED BY <2>4, <4>1, <4>2 DEF Next
    <3>2. SlotEntriesLive'
      BY <2>4, NextSlotEntries
    <3>3. Told'
      BY <2>4, NextTold
    <3>. QED BY <2>1, <2>2, <3>1, <3>2, <3>3
  <2>. QED BY <2>3, <2>4
<1>. QED BY <1>1, <1>2, PTL DEF Spec

\* removeAll*Dependencies and the creations: as long as requests are served one
\* after the other and none fails half-way, a resource that exists has every
\* resource it depends on, whatever the catalogue.
THEOREM SequentialDependencies ==
    ASSUME Sequential PROVE Spec => []DependenciesUnbroken
<1>1. SequentialInv => DependenciesUnbroken
  BY DEF SequentialInv, Told, DependenciesUnbroken, Parents
<1>. QED BY <1>1, SequentialInvariance, PTL

\* CreateEntry, createSlot and DeleteHSMSlot: the entries of slots belong to slots
\* that exist, even when requests fail, and those of a resource name the rows its
\* parents have now.
THEOREM SequentialEntries ==
    ASSUME Sequential PROVE Spec => []EntriesTrue
<1>1. SequentialInv => EntriesTrue
  <2>. SUFFICES ASSUME SequentialInv PROVE EntriesTrue
    OBVIOUS
  <2>1. SlotEntriesLive
    BY DEF SequentialInv
  <2>2. ASSUME AllIdle, faults = 0, NEW r \in Resource, Live(r), NEW j \in 1..Len(ParentsOf[r])
        PROVE  \E e \in EntriesOf(rows[r]) : e.parent = rows[ParentsOf[r][j]]
    <3>1. ~Removes(r)
      BY <2>2 DEF AllIdle, Removes
    <3>2. \E e \in entries : e.child = rows[r] /\ e.parent = rows[ParentsOf[r][j]]
      BY <2>2, <3>1 DEF SequentialInv, Told, Parents
    <3>. QED BY <3>2 DEF EntriesOf
  <2>. QED BY <2>1, <2>2 DEF EntriesTrue, SlotEntriesLive
<1>. QED BY <1>1, SequentialInvariance, PTL
=============================================================================
