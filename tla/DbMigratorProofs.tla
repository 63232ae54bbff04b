-------------------------- MODULE DbMigratorProofs --------------------------
(***************************************************************************)
(* The clean mark names the schema, for every set of processes, binaries   *)
(* and targets but the empty schema, and every bound.                      *)
(***************************************************************************)
EXTENDS DbMigrator, TLAPS

-----------------------------------------------------------------------------
(* A step and the schemas it goes through *)

Stepping == {"dirty", "execute", "clean", "next"}

\* The schema after the statements before the k-th, over that of version v.
After(script, v, k) ==
    (Expected(v) \ UNION {script[j].drops : j \in 1..k - 1}) \cup UNION {script[j].adds : j \in 1..k - 1}

\* The first statement of the step up to v is the one that adds this.
Marker(v) == CASE v = 1 -> Table("cfg_admin") [] v = 2 -> Configuration [] v = 3 -> DefaultChainId

\* Steps go one up or, for a version that was asked for, one down.
StepPlanned(p) ==
    LET o == op[p] IN
    /\ o.pc \in {"read"} \cup Stepping => IF o.asked THEN o.target \in Target ELSE o.target = o.binary
    /\ o.pc \in Stepping =>
         \/ o.version = o.from + 1 /\ o.version <= o.target
         \/ o.from = o.version + 1 /\ o.version >= o.target /\ o.asked
    /\ o.pc = "dirty" => o.statement = 1
    /\ o.pc = "execute" => o.statement \in 1..Len(Script(p))

\* A run for a version of its own is alone.
AskedAlone == \A p \in Process : op[p].pc \in Active /\ op[p].asked => \A q \in Others(p) : op[q].pc \notin Active

Typed ==
    /\ schema \subseteq Elements
    /\ mark \in [version : 0..Latest, dirty : BOOLEAN]
    /\ op \in [Process -> Op]
    /\ runs \in Nat /\ faults \in Nat /\ overlapped \in BOOLEAN

Plans == Typed /\ AskedAlone /\ \A p \in Process : StepPlanned(p)

-----------------------------------------------------------------------------
(* Who changes the schema *)

\* The process has executed a statement of its step.
Past(p) == (op[p].pc = "execute" /\ op[p].statement > 1) \/ op[p].pc = "clean"

Reached(p) == After(Script(p), op[p].from, IF op[p].pc = "clean" THEN Len(Script(p)) + 1 ELSE op[p].statement)

\* The process is about to begin the step from version v.
Before(p, v) ==
    \/ op[p].pc = "dirty" /\ v = op[p].from
    \/ op[p].pc = "execute" /\ op[p].statement = 1 /\ v = op[p].from
    \/ op[p].pc = "next" /\ op[p].version # op[p].target /\ v = op[p].version

Fresh(p, v) ==
    /\ schema = Expected(v)
    /\ \A q \in Process : ~Past(q)
    /\ op[p].pc = "execute" => mark.dirty

Stale(p, v) == ~op[p].asked /\ Marker(v + 1) \in schema

PastAlone == \A p, q \in Process : Past(p) /\ Past(q) => p = q
PastReached == \A p \in Process : Past(p) => mark.dirty /\ schema = Reached(p)
BeforeKnown == \A p \in Process : \A v \in 0..Latest : Before(p, v) => Fresh(p, v) \/ Stale(p, v)

Schemas == PastAlone /\ PastReached /\ BeforeKnown /\ CleanMarkNamesSchema

-----------------------------------------------------------------------------
(* The scripts *)

LEMMA Differ ==
    /\ \A t \in Tables : Table(t) \notin {Configuration, PinNotNull, SlotNotNull, ChainId, DefaultChainId}
    /\ Configuration \notin {PinNotNull, SlotNotNull, ChainId, DefaultChainId}
    /\ PinNotNull \notin {SlotNotNull, ChainId, DefaultChainId}
    /\ SlotNotNull \notin {ChainId, DefaultChainId}
    /\ ChainId # DefaultChainId
BY DEF Table, Configuration, PinNotNull, SlotNotNull, ChainId, DefaultChainId, Slot, Tables

LEMMA UpOne ==
    /\ Len(Up[1]) = 7
    /\ \A k \in 1..7 : Up[1][k].drops = {} /\ Up[1][k].adds \subseteq Elements
    /\ Table("cfg_admin") \in Up[1][1].adds /\ Table("cfg_admin") \in Up[1][1].forbids
    /\ UNION {Up[1][j].adds : j \in 1..7} = {Table(t) : t \in Tables} \cup {ChainId, PinNotNull, SlotNotNull}
BY DEF Up, CreateTable, Statement, Elements, Tables, Slot

LEMMA UpTwo ==
    /\ Len(Up[2]) = 3
    /\ Up[2][1].adds = {Configuration} /\ Up[2][1].drops = {} /\ Configuration \in Up[2][1].forbids
    /\ Up[2][2].adds = {} /\ Up[2][2].drops = {PinNotNull}
    /\ Up[2][3].adds = {} /\ Up[2][3].drops = {SlotNotNull}
BY DEF Up, AddColumn, DropNotNull, Statement

LEMMA UpThree ==
    /\ Len(Up[3]) = 1
    /\ Up[3][1].adds = {DefaultChainId} /\ Up[3][1].drops = {ChainId} /\ DefaultChainId \in Up[3][1].forbids
BY DEF Up, RenameColumn, Statement

LEMMA DownTwo ==
    /\ Len(Down[2]) = 3
    /\ Down[2][1].adds = {} /\ Down[2][1].drops = {Configuration}
    /\ Down[2][2].adds = {PinNotNull} /\ Down[2][2].drops = {}
    /\ Down[2][3].adds = {SlotNotNull} /\ Down[2][3].drops = {}
BY DEF Down, DropColumn, SetNotNull, Statement

LEMMA DownThree ==
    /\ Len(Down[3]) = 1
    /\ Down[3][1].adds = {ChainId} /\ Down[3][1].drops = {DefaultChainId}
BY DEF Down, RenameColumn, Statement

LEMMA AfterNone ==
    ASSUME NEW script, NEW v PROVE After(script, v, 1) = Expected(v)
<1>1. 1..1 - 1 = {}
      OBVIOUS
<1>2. QED  BY <1>1 DEF After

LEMMA AfterNext ==
    ASSUME NEW script, NEW v, NEW k \in Nat \ {0}, \A j \in 1..k - 1 : script[j].adds \cap script[k].drops = {}
    PROVE  After(script, v, k + 1) = (After(script, v, k) \ script[k].drops) \cup script[k].adds
<1> DEFINE D(n) == UNION {script[j].drops : j \in 1..n}
           A(n) == UNION {script[j].adds : j \in 1..n}
<1>1. 1..k = (1..k - 1) \cup {k} /\ k + 1 - 1 = k
      OBVIOUS
<1>2. D(k) = D(k - 1) \cup script[k].drops /\ A(k) = A(k - 1) \cup script[k].adds
      BY <1>1
<1>3. A(k - 1) \cap script[k].drops = {}
      OBVIOUS
<1>4. /\ After(script, v, k + 1) = (Expected(v) \ D(k)) \cup A(k)
      /\ After(script, v, k) = (Expected(v) \ D(k - 1)) \cup A(k - 1)
      BY <1>1 DEF After
<1> HIDE DEF D, A
<1>5. QED  BY <1>2, <1>3, <1>4

\* The schemas a script goes through, in closed form.  A script has seven statements at
\* most: its recursion is unrolled.
LEMMA Executed ==
    ASSUME NEW script, Len(script) \in 1..7,
           \A k \in 1..Len(script) : \A j \in 1..k - 1 : script[j].adds \cap script[k].drops = {},
           NEW v
    PROVE  Executing(script, v) = {After(script, v, k + 1) : k \in 0..Len(script)}
<1> DEFINE N == Len(script)
           along(f) == [k \in 0..N |-> IF k = 0 THEN Expected(v)
                                       ELSE (f[k - 1] \ script[k].drops) \cup script[k].adds]
           after == CHOOSE f : f = along(f)
           closed == [k \in 0..N |-> After(script, v, k + 1)]
<1>1. closed = along(closed)
  <2>1. ASSUME NEW k \in 0..N
        PROVE  After(script, v, k + 1) = along(closed)[k]
    <3>1. CASE k = 0
          BY <3>1, AfterNone
    <3>2. CASE k # 0
      <4>1. k \in Nat \ {0} /\ k \in 1..N /\ k - 1 \in 0..N /\ k - 1 + 1 = k
            BY <3>2
      <4>2. After(script, v, k + 1) = (After(script, v, k) \ script[k].drops) \cup script[k].adds
            BY <4>1, AfterNext
      <4>3. closed[k - 1] = After(script, v, k)
            BY <4>1
      <4>4. QED  BY <3>2, <4>2, <4>3
    <3>3. QED  BY <3>1, <3>2
  <2>2. QED  BY <2>1
<1>2. after = along(after)
      BY <1>1
<1>3. \A k \in 0..N : after[k] = closed[k]
  <2> DEFINE P(k) == k \in 0..N => after[k] = closed[k]
  <2>1. P(0)
        BY <1>1, <1>2
  <2>2. ASSUME NEW k \in 1..7, P(k - 1)
        PROVE  P(k)
    <3>1. SUFFICES ASSUME k \in 0..N
                   PROVE  after[k] = closed[k]
          OBVIOUS
    <3>2. k # 0 /\ k - 1 \in 0..N /\ after[k - 1] = closed[k - 1]
          BY <2>2, <3>1
    <3> HIDE DEF after, closed
    <3>3. QED  BY <1>1, <1>2, <3>1, <3>2
  <2> HIDE DEF P
  <2>3. P(1) /\ P(2) /\ P(3)
        BY <2>1, <2>2
  <2>4. P(4) /\ P(5) /\ P(6) /\ P(7)
        BY <2>2, <2>3
  <2>5. \A k \in 0..7 : P(k)
        BY <2>1, <2>3, <2>4
  <2> HIDE DEF after, closed
  <2>6. \A k \in 0..N : k \in 0..7
        OBVIOUS
  <2>7. QED  BY <2>5, <2>6 DEF P
<1>4. Executing(script, v) = {after[k] : k \in 0..N}
      BY DEF Executing
<1>5. \A k \in 0..N : closed[k] = After(script, v, k + 1)
      OBVIOUS
<1> HIDE DEF after, closed
<1>6. QED  BY <1>3, <1>4, <1>5

\* What the statements of a script do not undo of one another, and where it leads.
Leads(script, v, w) ==
    /\ Len(script) \in 1..7
    /\ \A k \in 1..Len(script) : /\ script[k].adds \subseteq Elements
                               /\ \A j \in 1..k - 1 : script[j].adds \cap script[k].drops = {}
    /\ After(script, v, Len(script) + 1) = Expected(w)

LEMMA UpOneLeads == Leads(Up[1], 0, 1)
<1>1. \A k \in 1..7 : \A j \in 1..k - 1 : Up[1][j].adds \cap Up[1][k].drops = {}
      BY UpOne
<1>2. UNION {Up[1][j].adds : j \in 1..8 - 1} = Expected(1)
      BY UpOne DEF Expected
<1>3. After(Up[1], 0, 8) = Expected(1)
      BY <1>2 DEF After, Expected
<1>4. QED  BY <1>1, <1>3, UpOne DEF Leads

LEMMA UpTwoLeads == Leads(Up[2], 1, 2)
<1>1. \A k \in 1..3 : \A j \in 1..k - 1 : Up[2][j].adds \cap Up[2][k].drops = {}
      BY UpTwo, Differ
<1>2. 1..4 - 1 = {1, 2, 3}
      OBVIOUS
<1>3. /\ UNION {Up[2][j].adds : j \in 1..4 - 1} = {Configuration}
      /\ UNION {Up[2][j].drops : j \in 1..4 - 1} = {PinNotNull, SlotNotNull}
      BY <1>2, UpTwo
<1>4. After(Up[2], 1, 4) = Expected(2)
      BY <1>3, Differ DEF After, Expected
<1>5. \A k \in 1..3 : Up[2][k].adds \subseteq Elements
      BY UpTwo DEF Elements
<1>6. QED  BY <1>1, <1>4, <1>5, UpTwo DEF Leads

LEMMA UpThreeLeads == Leads(Up[3], 2, 3)
<1>1. 1..2 - 1 = {1} /\ 1..1 - 1 = {}
      OBVIOUS
<1>2. /\ UNION {Up[3][j].adds : j \in 1..2 - 1} = {DefaultChainId}
      /\ UNION {Up[3][j].drops : j \in 1..2 - 1} = {ChainId}
      BY <1>1, UpThree
<1>3. After(Up[3], 2, 2) = Expected(3)
      BY <1>2, Differ DEF After, Expected
<1>4. QED  BY <1>1, <1>3, UpThree DEF Leads, Elements

LEMMA DownTwoLeads == Leads(Down[2], 2, 1)
<1>1. \A k \in 1..3 : \A j \in 1..k - 1 : Down[2][j].adds \cap Down[2][k].drops = {}
      BY DownTwo
<1>2. 1..4 - 1 = {1, 2, 3}
      OBVIOUS
<1>3. /\ UNION {Down[2][j].adds : j \in 1..4 - 1} = {PinNotNull, SlotNotNull}
      /\ UNION {Down[2][j].drops : j \in 1..4 - 1} = {Configuration}
      BY <1>2, DownTwo
<1>4. After(Down[2], 2, 4) = Expected(1)
      BY <1>3, Differ DEF After, Expected
<1>5. \A k \in 1..3 : Down[2][k].adds \subseteq Elements
      BY DownTwo DEF Elements
<1>6. QED  BY <1>1, <1>4, <1>5, DownTwo DEF Leads

LEMMA DownThreeLeads == Leads(Down[3], 3, 2)
<1>1. 1..2 - 1 = {1} /\ 1..1 - 1 = {}
      OBVIOUS
<1>2. /\ UNION {Down[3][j].adds : j \in 1..2 - 1} = {ChainId}
      /\ UNION {Down[3][j].drops : j \in 1..2 - 1} = {DefaultChainId}
      BY <1>1, DownThree
<1>3. After(Down[3], 3, 2) = Expected(2)
      BY <1>2, Differ DEF After, Expected
<1>4. QED  BY <1>1, <1>3, DownThree DEF Leads, Elements

\* A step up from v begins with a statement that adds its marker, and no step
\* up drops one.
LEMMA Markers ==
    ASSUME NEW w \in 1..3
    PROVE  /\ Marker(w) \in Up[w][1].adds /\ Marker(w) \in Up[w][1].forbids
           /\ \A u \in 1..3 : \A k \in 1..Len(Up[u]) : Marker(w) \notin Up[u][k].drops
<1>1. Table("cfg_admin") \notin {Configuration, PinNotNull, SlotNotNull, ChainId, DefaultChainId}
      BY Differ DEF Tables
<1>2. Marker(w) \in {Table("cfg_admin"), Configuration, DefaultChainId}
      BY DEF Marker
<1>3. Marker(w) \notin {PinNotNull, SlotNotNull, ChainId}
      BY <1>1, <1>2, Differ
<1>4. \A u \in 1..3 : \A k \in 1..Len(Up[u]) : Up[u][k].drops \subseteq {PinNotNull, SlotNotNull, ChainId}
      BY UpOne, UpTwo, UpThree
<1>5. Marker(w) \in Up[w][1].adds /\ Marker(w) \in Up[w][1].forbids
      BY UpOne, UpTwo, UpThree DEF Marker
<1>6. QED  BY <1>3, <1>4, <1>5

LEMMA ExpectedDiffer ==
    ASSUME NEW v \in 0..3, NEW w \in 0..3, Expected(v) = Expected(w) PROVE v = w
<1>1. /\ Table("cfg_admin") \notin Expected(0)
      /\ \A u \in 1..3 : Table("cfg_admin") \in Expected(u)
      BY DEF Expected, Tables
<1>2. /\ PinNotNull \in Expected(1)
      /\ \A u \in {0, 2, 3} : PinNotNull \notin Expected(u)
      BY Differ DEF Expected
<1>3. /\ DefaultChainId \in Expected(3)
      /\ \A u \in {0, 1, 2} : DefaultChainId \notin Expected(u)
      BY Differ DEF Expected
<1>4. QED  BY <1>1, <1>2, <1>3

LEMMA ExpectedElements == \A v \in 0..3 : Expected(v) \subseteq Elements
BY DEF Expected, Elements

LEMMA DownOne == Len(Down[1]) = 2 /\ \A k \in 1..2 : Down[1][k].adds = {}
BY DEF Down, DropTableIfExists, Statement

-----------------------------------------------------------------------------
(* Types and plans *)

LEMMA OpMoved ==
    ASSUME Typed, NEW p \in Process, NEW local \in Op, Become(p, local)
    PROVE  /\ op' \in [Process -> Op] /\ op'[p] = local
           /\ \A q \in Others(p) : op'[q] = op[q] /\ q \in Process
BY DEF Typed, Become, Others

\* A script that a plan leads to.
LEMMA ScriptBounds ==
    ASSUME Plans, NEW p \in Process, op[p].pc \in Stepping
    PROVE  Len(Script(p)) \in 1..7 /\ \A k \in 1..Len(Script(p)) : Script(p)[k].adds \subseteq Elements
<1>1. op[p] \in Op /\ StepPlanned(p)
      BY DEF Plans, Typed
<1>2. /\ op[p].from \in 0..3 /\ op[p].version \in 0..3
      /\ op[p].version = op[p].from + 1 \/ op[p].from = op[p].version + 1
      BY <1>1 DEF StepPlanned, Op, Latest
<1>3. Script(p) \in {Up[1], Up[2], Up[3], Down[1], Down[2], Down[3]}
      BY <1>2 DEF Script
<1> DEFINE Fine(s) == Len(s) \in 1..7 /\ \A k \in 1..Len(s) : s[k].adds \subseteq Elements
<1>4. \A s, v, w : Leads(s, v, w) => Fine(s)
      BY DEF Leads
<1>5. Fine(Down[1])
      BY DownOne
<1> HIDE DEF Fine
<1>6. Fine(Script(p))
      BY <1>3, <1>4, <1>5, UpOneLeads, UpTwoLeads, UpThreeLeads, DownTwoLeads, DownThreeLeads
<1>7. QED  BY <1>6 DEF Fine

\* A run that goes on leaves the others as they are.
LEMMA PlansGoOn ==
    ASSUME Plans, NEW p \in Process, op[p].pc \in Active, NEW local \in Op, Become(p, local),
           local.asked = op[p].asked, StepPlanned(p)',
           schema' \subseteq Elements, mark' \in [version : 0..Latest, dirty : BOOLEAN],
           runs' \in Nat, faults' \in Nat, overlapped' \in BOOLEAN
    PROVE  Plans'
<1>1. /\ op' \in [Process -> Op] /\ op'[p] = local
      /\ \A q \in Others(p) : op'[q] = op[q] /\ q \in Process
      BY OpMoved DEF Plans
<1>2. Typed'
      BY <1>1 DEF Typed
<1>3. AskedAlone'
  <2>1. SUFFICES ASSUME NEW q \in Process, op'[q].pc \in Active, op'[q].asked, NEW r \in Others(q)
                 PROVE  op'[r].pc \notin Active
        BY DEF AskedAlone, Others
  <2>2. op[q].pc \in Active /\ op[q].asked
        BY <1>1, <2>1 DEF Others
  <2>3. op[r].pc \notin Active
        BY <2>2 DEF Plans, AskedAlone
  <2>4. r # p
        BY <2>3
  <2>5. QED  BY <1>1, <2>3, <2>4 DEF Others
<1>4. \A q \in Process : StepPlanned(q)'
  <2>1. \A q \in Others(p) : StepPlanned(q)'
        BY <1>1 DEF Plans, StepPlanned, Script, Others
  <2>2. QED  BY <2>1 DEF Others
<1>5. QED  BY <1>2, <1>3, <1>4 DEF Plans

\* It goes to another point of the same step, or ends.
LEMMA PlansGoto ==
    ASSUME Plans, NEW p \in Process, op[p].pc \in Active,
           NEW pc \in (Ended \cup Stepping) \ {"execute"}, Goto(p, pc), pc \in Stepping => op[p].pc \in Stepping,
           pc # "dirty",
           schema' = schema, mark' \in [version : 0..Latest, dirty : BOOLEAN],
           runs' = runs, faults' \in Nat, overlapped' = overlapped
    PROVE  Plans'
<1> DEFINE local == [op[p] EXCEPT !.pc = pc]
<1>1. op[p] \in Op /\ Typed /\ StepPlanned(p)
      BY DEF Plans, Typed
<1>2. /\ local \in Op /\ local.pc = pc /\ local.asked = op[p].asked /\ local.target = op[p].target
      /\ local.binary = op[p].binary /\ local.from = op[p].from /\ local.version = op[p].version
      BY <1>1 DEF Op, Ended, Active, Stepping
<1>3. Become(p, local)
      BY DEF Goto
<1> HIDE DEF local
<1>4. op'[p] = local
      BY <1>1, <1>2, <1>3, OpMoved
<1>5. StepPlanned(p)'
      BY <1>1, <1>2, <1>4 DEF StepPlanned, Stepping, Ended
<1>6. QED  BY <1>1, <1>2, <1>3, <1>5, PlansGoOn DEF Typed

\* The next step from version v.
LEMMA PlansStepFrom ==
    ASSUME Plans, NEW p \in Process, op[p].pc \in {"read", "next"}, NEW v \in 0..Latest, v # op[p].target,
           ~op[p].asked => v < op[p].target,
           StepFrom(p, v), UNCHANGED <<schema, mark, runs, faults, overlapped>>
    PROVE  /\ Plans'
           /\ op'[p].pc = "dirty" /\ op'[p].from = v /\ op'[p].asked = op[p].asked
<1> DEFINE w == IF v < op[p].target THEN v + 1 ELSE v - 1
           local == [op[p] EXCEPT !.pc = "dirty", !.from = v, !.statement = 1, !.version = w]
<1>1. op[p] \in Op /\ Typed /\ StepPlanned(p)
      BY DEF Plans, Typed
<1>2. /\ w \in 0..Latest
      /\ (w = v + 1 /\ w <= op[p].target) \/ (v = w + 1 /\ w >= op[p].target /\ op[p].asked)
      BY <1>1 DEF Op, Latest
<1>3. Become(p, local)
      BY DEF StepFrom
<1> HIDE DEF w
<1>4. /\ local \in Op /\ local.pc = "dirty" /\ local.asked = op[p].asked /\ local.target = op[p].target
      /\ local.binary = op[p].binary /\ local.from = v /\ local.version = w /\ local.statement = 1
      BY <1>1, <1>2 DEF Op, Active
<1> HIDE DEF local
<1>5. op'[p] = local
      BY <1>1, <1>3, <1>4, OpMoved
<1>6. StepPlanned(p)'
      BY <1>1, <1>2, <1>4, <1>5 DEF StepPlanned, Stepping
<1>7. Plans'
      BY <1>1, <1>3, <1>4, <1>6, PlansGoOn DEF Typed, Active
<1>8. QED  BY <1>4, <1>5, <1>7

LEMMA StartPlans ==
    ASSUME Plans, NEW p \in Process, Start(p)
    PROVE  Plans' /\ op[p].pc \in Ended /\ op'[p].pc = "read" /\ (\A q \in Others(p) : op'[q] = op[q])
             /\ schema' = schema /\ mark' = mark
<1>1. PICK b \in Binary, t \in 0..Latest :
         \/ t = b /\ Become(p, [Quiet EXCEPT !.pc = "read", !.binary = b, !.target = t])
         \/ /\ t \in Target
            /\ \A q \in Others(p) : op[q].pc \notin Active
            /\ Become(p, [Quiet EXCEPT !.pc = "read", !.binary = b, !.target = t, !.asked = TRUE])
      BY DEF Start
<1>2. b \in 0..Latest /\ Quiet \in Op /\ ~Quiet.asked
      BY BinaryAssumption DEF Latest, Quiet, Op, Ended
<1> DEFINE upgrade == [Quiet EXCEPT !.pc = "read", !.binary = b, !.target = t]
           chosen == [Quiet EXCEPT !.pc = "read", !.binary = b, !.target = t, !.asked = TRUE]
<1>3. /\ upgrade \in Op /\ upgrade.pc = "read" /\ upgrade.target = t /\ upgrade.binary = b /\ ~upgrade.asked
      /\ chosen \in Op /\ chosen.pc = "read" /\ chosen.target = t /\ chosen.binary = b /\ chosen.asked
      BY <1>2 DEF Op, Active
<1> HIDE DEF upgrade, chosen
<1>4. PICK local \in Op :
         /\ Become(p, local) /\ local.pc = "read" /\ local.target = t /\ local.binary = b
         /\ IF local.asked THEN t \in Target /\ \A q \in Others(p) : op[q].pc \notin Active ELSE t = b
      BY <1>1, <1>3 DEF upgrade, chosen
<1>5. /\ op' \in [Process -> Op] /\ op'[p] = local
      /\ \A q \in Others(p) : op'[q] = op[q] /\ q \in Process
      BY <1>4, OpMoved DEF Plans
<1>6. op[p].pc \in Ended /\ schema' = schema /\ mark' = mark /\ faults' = faults /\ runs' = runs + 1
      /\ overlapped' \in BOOLEAN /\ \A q \in Others(p) : op[q].pc \in Active => ~op[q].asked
      BY DEF Start
<1>7. Typed'
      BY <1>5, <1>6 DEF Plans, Typed
<1>8. \A q \in Process : StepPlanned(q)'
  <2>1. StepPlanned(p)'
        BY <1>4, <1>5 DEF StepPlanned, Stepping
  <2>2. \A q \in Others(p) : StepPlanned(q)'
        BY <1>5 DEF Plans, StepPlanned, Script
  <2>3. QED  BY <2>1, <2>2 DEF Others
<1>9. AskedAlone'
  <2>1. SUFFICES ASSUME NEW q \in Process, op'[q].pc \in Active, op'[q].asked, NEW r \in Others(q)
                 PROVE  op'[r].pc \notin Active
        BY DEF AskedAlone, Others
  <2>2. CASE q = p
        BY <1>2, <1>4, <1>5, <2>1, <2>2
  <2>3. CASE q # p
        BY <1>5, <1>6, <2>1, <2>3 DEF Others
  <2>4. QED  BY <2>2, <2>3
<1>10. QED  BY <1>4, <1>5, <1>6, <1>7, <1>8, <1>9 DEF Plans

\* The read of the version ends the run or plans its first step.
LEMMA ReadPlans ==
    ASSUME Plans, NEW p \in Process, ReadVersion(p)
    PROVE  /\ Plans' /\ schema' = schema /\ mark' = mark
           /\ \/ op'[p].pc \in Ended
              \/ ~mark.dirty /\ op'[p].pc = "dirty" /\ op'[p].from = mark.version
<1>1. /\ Typed /\ op[p] \in Op /\ StepPlanned(p) /\ op[p].pc = "read" /\ mark.version \in 0..Latest
      /\ UNCHANGED <<schema, mark, runs, faults, overlapped>>
      BY DEF Plans, Typed, ReadVersion
<1>2. ASSUME NEW pc \in {"error", "panic", "ok"}, Goto(p, pc)
      PROVE  Plans' /\ op'[p].pc \in Ended
  <2>1. Plans'
        BY <1>1, <1>2, PlansGoto DEF Typed, Active, Ended, Stepping
  <2>2. op'[p].pc = pc
        BY <1>1, <1>2 DEF Goto, Become, Typed, Op
  <2>3. QED  BY <2>1, <2>2 DEF Ended
<1>3. ASSUME ~Refused(p), ~OutOfRange(p), op[p].target # mark.version, StepFrom(p, mark.version)
      PROVE  Plans' /\ ~mark.dirty /\ op'[p].pc = "dirty" /\ op'[p].from = mark.version
  <2>1. ~mark.dirty /\ ~(op[p].target < mark.version /\ mark.version > op[p].binary)
        BY <1>3 DEF Refused, OutOfRange
  <2>2. ~op[p].asked => mark.version < op[p].target
        BY <1>1, <1>3, <2>1 DEF StepPlanned, Op, Latest
  <2>3. QED  BY <1>1, <1>3, <2>1, <2>2, PlansStepFrom
<1>4. QED  BY <1>1, <1>2, <1>3 DEF ReadVersion

LEMMA NextPlans ==
    ASSUME Plans, NEW p \in Process, NextStep(p)
    PROVE  /\ Plans' /\ schema' = schema /\ mark' = mark
           /\ \/ op'[p].pc \in Ended
              \/ /\ op[p].version # op[p].target /\ op'[p].pc = "dirty" /\ op'[p].from = op[p].version
                 /\ op'[p].asked = op[p].asked
<1>1. /\ Typed /\ op[p] \in Op /\ StepPlanned(p) /\ op[p].pc = "next"
      /\ UNCHANGED <<schema, mark, runs, faults, overlapped>>
      BY DEF Plans, Typed, NextStep
<1>2. CASE op[p].version = op[p].target /\ Goto(p, "ok")
  <2>1. Plans'
        BY <1>1, <1>2, PlansGoto DEF Typed, Active, Ended, Stepping
  <2>2. op'[p].pc = "ok"
        BY <1>1, <1>2 DEF Goto, Become, Typed, Op
  <2>3. QED  BY <1>1, <2>1, <2>2 DEF Ended
<1>3. CASE op[p].version # op[p].target /\ StepFrom(p, op[p].version)
  <2>1. ~op[p].asked => op[p].version < op[p].target
        BY <1>1, <1>3 DEF StepPlanned, Op, Latest, Stepping
  <2>2. op[p].version \in 0..Latest
        BY <1>1 DEF Op
  <2>3. QED  BY <1>1, <1>3, <2>1, <2>2, PlansStepFrom
<1>4. QED  BY <1>2, <1>3 DEF NextStep

LEMMA MarkPlans ==
    ASSUME Plans, NEW p \in Process, NEW dirty \in BOOLEAN, op[p].pc = (IF dirty THEN "dirty" ELSE "clean"),
           SetMigrationVersion(p, dirty), Goto(p, IF dirty THEN "execute" ELSE "next"),
           UNCHANGED <<schema, runs, faults, overlapped>>
    PROVE  Plans' /\ op'[p] = [op[p] EXCEPT !.pc = IF dirty THEN "execute" ELSE "next"]
<1> DEFINE pc == IF dirty THEN "execute" ELSE "next"
           local == [op[p] EXCEPT !.pc = pc]
<1>1. op[p] \in Op /\ Typed /\ StepPlanned(p) /\ op[p].pc \in Stepping /\ op[p].pc \in Active
      BY DEF Plans, Typed, Stepping, Active
<1>2. mark' \in [version : 0..Latest, dirty : BOOLEAN]
      BY <1>1 DEF SetMigrationVersion, Op
<1>3. /\ local \in Op /\ local.pc = pc /\ local.asked = op[p].asked /\ local.target = op[p].target
      /\ local.binary = op[p].binary /\ local.from = op[p].from /\ local.version = op[p].version
      /\ local.statement = op[p].statement
      BY <1>1 DEF Op, Active
<1>4. Become(p, local)
      BY DEF Goto
<1> HIDE DEF local
<1>5. op'[p] = local
      BY <1>1, <1>3, <1>4, OpMoved
<1>6. Script(p)' = Script(p) /\ Len(Script(p)) \in 1..7
      BY <1>1, <1>3, <1>5, ScriptBounds DEF Script
<1>7. StepPlanned(p)'
  <2>1. op'[p].statement = op[p].statement /\ (dirty => op[p].statement = 1)
        BY <1>1, <1>3, <1>5 DEF StepPlanned
  <2>2. op'[p].pc = "execute" => dirty
        BY <1>3, <1>5
  <2>3. op'[p].pc = "execute" => op'[p].statement \in 1..Len(Script(p))'
    <3>1. \A n \in 1..7 : 1 \in 1..n
          OBVIOUS
    <3>2. QED  BY <1>6, <2>1, <2>2, <3>1
  <2>4. op'[p].pc # "dirty" /\ op'[p].pc \in Stepping
        BY <1>3, <1>5 DEF Stepping
  <2>5. QED  BY <1>1, <1>3, <1>5, <2>3, <2>4 DEF StepPlanned
<1>8. QED  BY <1>1, <1>2, <1>3, <1>4, <1>5, <1>7, PlansGoOn DEF Typed, local

LEMMA RunPlans ==
    ASSUME Plans, NEW p \in Process, RunStatement(p) PROVE Plans'
<1> DEFINE n == op[p].statement
           s == Script(p)[n]
<1>1. /\ op[p] \in Op /\ Typed /\ StepPlanned(p) /\ op[p].pc = "execute" /\ op[p].pc \in Active
      /\ Len(Script(p)) \in 1..7 /\ n \in 1..Len(Script(p)) /\ s.adds \subseteq Elements
      /\ UNCHANGED <<mark, runs, faults, overlapped>>
      BY ScriptBounds DEF Plans, Typed, RunStatement, StepPlanned, Stepping, Active
<1>2. CASE ~Executable(s) /\ Goto(p, "error") /\ UNCHANGED schema
      BY <1>1, <1>2, PlansGoto DEF Typed, Active, Ended, Stepping
<1> DEFINE pc == IF n = Len(Script(p)) THEN "clean" ELSE "execute"
           local == [op[p] EXCEPT !.statement = @ + 1, !.pc = pc]
<1>3. CASE schema' = (schema \ s.drops) \cup s.adds /\ Become(p, local)
  <2>1. schema' \subseteq Elements
        BY <1>1, <1>3 DEF Typed
  <2>2. /\ local \in Op /\ local.pc = pc /\ local.asked = op[p].asked /\ local.target = op[p].target
        /\ local.binary = op[p].binary /\ local.from = op[p].from /\ local.version = op[p].version
        /\ local.statement = n + 1 /\ pc \in {"clean", "execute"}
    <3>1. pc \in {"clean", "execute"} /\ n + 1 \in Nat
          BY <1>1 DEF Op
    <3> HIDE DEF pc
    <3>2. QED  BY <1>1, <3>1 DEF Op, Active
  <2> HIDE DEF local
  <2>3. op'[p] = local
        BY <1>1, <1>3, <2>2, OpMoved
  <2>4. Script(p)' = Script(p)
        BY <2>2, <2>3 DEF Script
  <2>5. StepPlanned(p)'
        BY <1>1, <2>2, <2>3, <2>4 DEF StepPlanned, Stepping
  <2>6. QED  BY <1>1, <1>3, <2>1, <2>2, <2>5, PlansGoOn DEF Typed
<1>4. QED  BY <1>2, <1>3 DEF RunStatement

\* A statement is executed, or ends the run.
LEMMA StatementMoves ==
    ASSUME Plans, NEW p \in Process, RunStatement(p)
    PROVE  /\ op[p].pc = "execute" /\ UNCHANGED <<mark, runs, faults, overlapped>>
           /\ \A q \in Others(p) : op'[q] = op[q]
           /\ op'[p].asked = op[p].asked /\ op'[p].target = op[p].target
           /\ \/ op'[p].pc = "error" /\ schema' = schema
              \/ LET s == Script(p)[op[p].statement] IN
                 /\ Executable(s) /\ schema' = (schema \ s.drops) \cup s.adds
                 /\ op'[p].from = op[p].from /\ op'[p].version = op[p].version
                 /\ op'[p].pc = (IF op[p].statement = Len(Script(p)) THEN "clean" ELSE "execute")
                 /\ op'[p].statement = op[p].statement + 1
<1> DEFINE n == op[p].statement
           s == Script(p)[n]
           pc == IF n = Len(Script(p)) THEN "clean" ELSE "execute"
           local == [op[p] EXCEPT !.statement = @ + 1, !.pc = pc]
<1>1. /\ op[p] \in Op /\ Typed /\ op[p].pc = "execute"
      /\ UNCHANGED <<mark, runs, faults, overlapped>>
      BY DEF Plans, Typed, RunStatement
<1>2. CASE ~Executable(s) /\ Goto(p, "error") /\ UNCHANGED schema
      BY <1>1, <1>2 DEF Goto, Become, Typed, Others, Op
<1>3. CASE Executable(s) /\ schema' = (schema \ s.drops) \cup s.adds /\ Become(p, local)
  <2>1. /\ local \in Op /\ local.from = op[p].from /\ local.version = op[p].version
        /\ local.asked = op[p].asked /\ local.target = op[p].target
        /\ local.statement = n + 1 /\ local.pc = pc
    <3>1. pc \in {"clean", "execute"} /\ n + 1 \in Nat
          BY <1>1 DEF Op
    <3> HIDE DEF pc
    <3>2. QED  BY <1>1, <3>1 DEF Op, Active
  <2> HIDE DEF local
  <2>2. op'[p] = local /\ \A q \in Others(p) : op'[q] = op[q]
        BY <1>1, <1>3, <2>1, OpMoved
  <2>3. QED  BY <1>1, <1>3, <2>1, <2>2
<1>4. QED  BY <1>2, <1>3 DEF RunStatement

LEMMA FailsPlans ==
    ASSUME Plans, NEW p \in Process, Fails(p)
    PROVE  Plans' /\ op'[p].pc = "error" /\ schema' = schema /\ mark' = mark
<1>1. /\ Typed /\ op[p].pc \in Active /\ Goto(p, "error") /\ faults' \in Nat
      /\ UNCHANGED <<schema, mark, runs, overlapped>>
      BY DEF Plans, Typed, Fails
<1>2. Plans'
      BY <1>1, PlansGoto DEF Typed, Ended, Stepping
<1>3. op'[p].pc = "error"
      BY <1>1 DEF Goto, Become, Typed, Op
<1>4. QED  BY <1>1, <1>2, <1>3

-----------------------------------------------------------------------------
(* The schema and the mark.  No step of a plan leads to the empty schema. *)

LEMMA StepLeads ==
    ASSUME 0 \notin Target, Plans, NEW p \in Process, op[p].pc \in Stepping
    PROVE  /\ Leads(Script(p), op[p].from, op[p].version)
           /\ op[p].from \in 0..3 /\ op[p].version \in 1..3
           /\ ~op[p].asked => op[p].version = op[p].from + 1 /\ Script(p) = Up[op[p].version]
<1>1. op[p] \in Op /\ StepPlanned(p)
      BY DEF Plans, Typed
<1>2. /\ op[p].from \in 0..3 /\ op[p].version \in 0..3 /\ op[p].target \in 0..3
      /\ \/ op[p].version = op[p].from + 1
         \/ op[p].from = op[p].version + 1 /\ op[p].asked /\ op[p].version \in 1..3
      BY <1>1 DEF StepPlanned, Op, Latest
<1>3. CASE op[p].version = op[p].from + 1
  <2>1. Script(p) = Up[op[p].version] /\ op[p].version \in 1..3 /\ op[p].from = op[p].version - 1
        BY <1>2, <1>3 DEF Script
  <2>2. Leads(Up[op[p].version], op[p].version - 1, op[p].version)
        BY <2>1, UpOneLeads, UpTwoLeads, UpThreeLeads
  <2>3. QED  BY <1>2, <1>3, <2>1, <2>2
<1>4. CASE op[p].from = op[p].version + 1 /\ op[p].asked /\ op[p].version \in 1..3
  <2>1. Script(p) = Down[op[p].from] /\ op[p].from \in {2, 3} /\ op[p].version = op[p].from - 1
        BY <1>2, <1>4 DEF Script
  <2>2. Leads(Down[op[p].from], op[p].from, op[p].from - 1)
        BY <2>1, DownTwoLeads, DownThreeLeads
  <2>3. QED  BY <1>2, <1>4, <2>1, <2>2
<1>5. QED  BY <1>2, <1>3, <1>4

\* An upgrade that is about to begin a step begins one of the scripts.
LEMMA UpgradeBegins ==
    ASSUME Plans, NEW p \in Process, NEW v \in 0..Latest, Before(p, v), ~op[p].asked
    PROVE  v + 1 \in 1..3 /\ (op[p].pc # "next" => op[p].version = v + 1)
<1>1. op[p] \in Op /\ StepPlanned(p)
      BY DEF Plans, Typed
<1>2. QED  BY <1>1 DEF Before, StepPlanned, Stepping, Op, Latest

\* The others, when a step changes neither the schema nor who is past what.
LEMMA OthersBefore ==
    ASSUME Plans, Schemas, NEW p \in Process, \A q \in Others(p) : op'[q] = op[q],
           schema' = schema, mark'.dirty \/ mark' = mark, Past(p)' => Past(p),
           NEW q \in Others(p), NEW v \in 0..Latest, Before(q, v)'
    PROVE  Fresh(q, v)' \/ Stale(q, v)'
<1>1. q \in Process /\ Before(q, v) /\ op'[q] = op[q]
      BY DEF Others, Before
<1>2. Fresh(q, v) \/ Stale(q, v)
      BY <1>1 DEF Schemas, BeforeKnown
<1>3. CASE Stale(q, v)
      BY <1>1, <1>3 DEF Stale
<1>4. CASE Fresh(q, v)
  <2>1. \A r \in Process : ~Past(r)'
        BY <1>4 DEF Fresh, Past, Others
  <2>2. QED  BY <1>1, <1>4, <2>1 DEF Fresh
<1>5. QED  BY <1>2, <1>3, <1>4

\* A process ends or reads: what the others are at stands.
LEMMA Leaves ==
    ASSUME Plans, Schemas, NEW p \in Process, op'[p].pc \notin Stepping, \A q \in Others(p) : op'[q] = op[q],
           schema' = schema, mark' = mark
    PROVE  Schemas'
<1>1. ~Past(p)' /\ \A v \in 0..Latest : ~Before(p, v)'
      BY DEF Past, Before, Stepping
<1>2. \A q \in Process : Past(q)' => q # p /\ Past(q) /\ Reached(q)' = Reached(q)
      BY <1>1 DEF Past, Reached, Script, Others
<1>3. PastAlone' /\ PastReached'
      BY <1>2 DEF Schemas, PastAlone, PastReached
<1>4. BeforeKnown'
      BY <1>1, OthersBefore DEF BeforeKnown, Others
<1>5. CleanMarkNamesSchema'
      BY DEF Schemas, CleanMarkNamesSchema
<1>6. QED  BY <1>3, <1>4, <1>5 DEF Schemas

\* A process is about to begin a step, and was not in the middle of one.
LEMMA BeginsStep ==
    ASSUME Plans, Schemas, NEW p \in Process, \A q \in Others(p) : op'[q] = op[q],
           schema' = schema, mark' = mark \/ mark'.dirty, ~Past(p), ~Past(p)',
           NEW v \in 0..Latest, \A w \in 0..Latest : Before(p, w)' => w = v,
           Fresh(p, v)' \/ Stale(p, v)'
    PROVE  Schemas'
<1>1. \A q \in Process : Past(q)' => q # p /\ Past(q) /\ Reached(q)' = Reached(q)
      BY DEF Past, Reached, Script, Others
<1>2. PastAlone' /\ PastReached'
      BY <1>1 DEF Schemas, PastAlone, PastReached
<1>3. BeforeKnown'
      BY OthersBefore DEF BeforeKnown, Others
<1>4. CleanMarkNamesSchema'
      BY DEF Schemas, CleanMarkNamesSchema
<1>5. QED  BY <1>2, <1>3, <1>4 DEF Schemas

LEMMA ReadSchemas ==
    ASSUME Plans, Schemas, NEW p \in Process, ReadVersion(p) PROVE Schemas'
<1>1. /\ schema' = schema /\ mark' = mark /\ op[p].pc = "read" /\ mark.version \in 0..Latest
      /\ \/ op'[p].pc \in Ended
         \/ ~mark.dirty /\ op'[p].pc = "dirty" /\ op'[p].from = mark.version
      BY ReadPlans DEF ReadVersion, Plans, Typed
<1>2. \A q \in Others(p) : op'[q] = op[q]
      BY DEF ReadVersion, StepFrom, Goto, Become, Plans, Typed, Others
<1>3. CASE op'[p].pc \in Ended
      BY <1>1, <1>2, <1>3, Leaves DEF Ended, Stepping
<1>4. CASE ~mark.dirty /\ op'[p].pc = "dirty" /\ op'[p].from = mark.version
  <2>1. \A q \in Process : ~Past(q)
        BY <1>4 DEF Schemas, PastReached
  <2>2. ~Past(p)' /\ \A w \in 0..Latest : Before(p, w)' => w = mark.version
        BY <1>4 DEF Past, Before
  <2>3. \A q \in Process : ~Past(q)'
        BY <1>2, <2>1, <2>2 DEF Past, Others
  <2>4. Fresh(p, mark.version)'
        BY <1>1, <1>4, <2>3 DEF Fresh, Schemas, CleanMarkNamesSchema
  <2>5. QED  BY <1>1, <1>2, <2>1, <2>2, <2>4, BeginsStep
<1>5. QED  BY <1>1, <1>3, <1>4

LEMMA NextSchemas ==
    ASSUME Plans, Schemas, NEW p \in Process, NextStep(p) PROVE Schemas'
<1>1. /\ schema' = schema /\ mark' = mark /\ op[p].pc = "next" /\ op[p].version \in 0..Latest
      /\ \/ op'[p].pc \in Ended
         \/ /\ op[p].version # op[p].target /\ op'[p].pc = "dirty" /\ op'[p].from = op[p].version
            /\ op'[p].asked = op[p].asked
      BY NextPlans DEF NextStep, Plans, Typed, Op
<1>2. \A q \in Others(p) : op'[q] = op[q]
      BY DEF NextStep, StepFrom, Goto, Become, Plans, Typed, Others
<1>3. CASE op'[p].pc \in Ended
      BY <1>1, <1>2, <1>3, Leaves DEF Ended, Stepping
<1>4. CASE /\ op[p].version # op[p].target /\ op'[p].pc = "dirty" /\ op'[p].from = op[p].version
           /\ op'[p].asked = op[p].asked
  <2> DEFINE v == op[p].version
  <2>1. Fresh(p, v) \/ Stale(p, v)
        BY <1>1, <1>4 DEF Schemas, BeforeKnown, Before
  <2>2. ~Past(p) /\ ~Past(p)' /\ \A w \in 0..Latest : Before(p, w)' => w = v
        BY <1>1, <1>4 DEF Past, Before
  <2>3. Stale(p, v) => v \in 0..Latest /\ (\A u : u = v + 1 => Marker(u) \in schema')
        BY <1>1 DEF Stale
  <2>4. (\A q \in Process : ~Past(q)) => \A q \in Process : ~Past(q)'
        BY <1>2, <2>2 DEF Past, Others
  <2> HIDE DEF v
  <2>5. \E u \in 0..Latest : u = v /\ (Fresh(p, u)' \/ Stale(p, u)')
        BY <1>1, <1>4, <2>1, <2>3, <2>4 DEF Fresh, Stale, v
  <2>6. QED  BY <1>1, <1>2, <2>2, <2>5, BeginsStep
<1>5. QED  BY <1>1, <1>3, <1>4

LEMMA DirtySchemas ==
    ASSUME Plans, Schemas, NEW p \in Process, MarkDirty(p) PROVE Plans' /\ Schemas'
<1>1. /\ schema' = schema /\ mark'.dirty /\ op[p].pc = "dirty" /\ op[p] \in Op /\ op[p].statement = 1
      /\ Goto(p, "execute") /\ SetMigrationVersion(p, TRUE) /\ UNCHANGED <<schema, runs, faults, overlapped>>
      BY DEF MarkDirty, SetMigrationVersion, Plans, Typed, StepPlanned
<1>2. Plans' /\ op'[p] = [op[p] EXCEPT !.pc = "execute"]
      BY <1>1, MarkPlans
<1>3. /\ op'[p].pc = "execute" /\ op'[p].from = op[p].from /\ op'[p].asked = op[p].asked
      /\ op'[p].statement = 1 /\ op[p].from \in 0..Latest
      BY <1>1, <1>2 DEF Op
<1>4. \A q \in Others(p) : op'[q] = op[q]
      BY <1>1 DEF Goto, Become, Plans, Typed, Others
<1>5. ~Past(p) /\ ~Past(p)' /\ \A w \in 0..Latest : Before(p, w)' => w = op[p].from
      BY <1>1, <1>3 DEF Past, Before
<1>6. PICK v \in 0..Latest : v = op[p].from
      BY <1>3
<1>7. Fresh(p, v) \/ Stale(p, v)
      BY <1>1, <1>6 DEF Schemas, BeforeKnown, Before
<1>8. (\A q \in Process : ~Past(q)) => \A q \in Process : ~Past(q)'
      BY <1>4, <1>5 DEF Past, Others
<1>9. Fresh(p, v)' \/ Stale(p, v)'
      BY <1>1, <1>3, <1>7, <1>8 DEF Fresh, Stale
<1>10. Schemas'
      BY <1>1, <1>4, <1>5, <1>6, <1>9, BeginsStep
<1>11. QED  BY <1>2, <1>10

LEMMA CleanSchemas ==
    ASSUME 0 \notin Target, Plans, Schemas, NEW p \in Process, MarkClean(p) PROVE Plans' /\ Schemas'
<1>1. /\ schema' = schema /\ op[p].pc = "clean" /\ op[p] \in Op /\ Past(p)
      /\ mark' = [version |-> op[p].version, dirty |-> FALSE]
      /\ Goto(p, "next") /\ SetMigrationVersion(p, FALSE) /\ UNCHANGED <<schema, runs, faults, overlapped>>
      BY DEF MarkClean, SetMigrationVersion, Plans, Typed, Past
<1>2. Plans' /\ op'[p] = [op[p] EXCEPT !.pc = "next"]
      BY <1>1, MarkPlans
<1>3. op'[p].pc = "next" /\ op'[p].version = op[p].version /\ op[p].version \in 0..Latest
      BY <1>1, <1>2 DEF Op
<1>4. \A q \in Others(p) : op'[q] = op[q]
      BY <1>1 DEF Goto, Become, Plans, Typed, Others
<1>5. schema = Expected(op[p].version)
  <2>1. schema = After(Script(p), op[p].from, Len(Script(p)) + 1)
        BY <1>1 DEF Schemas, PastReached, Reached
  <2>2. Leads(Script(p), op[p].from, op[p].version)
        BY <1>1, StepLeads DEF Stepping
  <2>3. QED  BY <2>1, <2>2 DEF Leads
<1>6. \A q \in Process : ~Past(q)'
  <2>1. ~Past(p)'
        BY <1>3 DEF Past
  <2>2. \A q \in Others(p) : ~Past(q)
        BY <1>1 DEF Schemas, PastAlone, Others
  <2>3. QED  BY <1>4, <2>1, <2>2 DEF Past, Others
<1>7. BeforeKnown'
  <2>1. SUFFICES ASSUME NEW q \in Process, NEW v \in 0..Latest, Before(q, v)' PROVE Fresh(q, v)' \/ Stale(q, v)'
        BY DEF BeforeKnown
  <2>2. CASE q = p
        BY <1>1, <1>3, <1>5, <1>6, <2>1, <2>2 DEF Before, Fresh
  <2>3. CASE q # p
    <3>1. op'[q] = op[q] /\ Before(q, v)
          BY <1>4, <2>1, <2>3 DEF Others, Before
    <3>2. ~Fresh(q, v)
          BY <1>1 DEF Fresh
    <3>3. QED  BY <1>1, <3>1, <3>2 DEF Schemas, BeforeKnown, Stale
  <2>4. QED  BY <2>2, <2>3
<1>8. CleanMarkNamesSchema'
      BY <1>1, <1>5 DEF CleanMarkNamesSchema
<1>9. QED  BY <1>2, <1>6, <1>7, <1>8 DEF Schemas, PastAlone, PastReached

\* Nobody else can begin a step over what an executed statement has changed.
LEMMA OthersAreLate ==
    ASSUME 0 \notin Target, Plans, Schemas, NEW p \in Process, op[p].pc = "execute",
           NEW q \in Others(p), NEW v \in 0..Latest, Before(q, v),
           schema' = (schema \ Script(p)[op[p].statement].drops) \cup Script(p)[op[p].statement].adds,
           Past(p) \/ (op[p].statement = 1 /\ schema = Expected(op[p].from))
    PROVE  ~op[q].asked /\ Marker(v + 1) \in schema'
<1> DEFINE w == op[p].version
           n == op[p].statement
<1>1. q \in Process /\ op[q].pc \in Active /\ op[p].pc \in Active
      BY DEF Others, Before, Active
<1>2. ~op[q].asked /\ ~op[p].asked
      BY <1>1 DEF Plans, AskedAlone, Others
<1>3. /\ w \in 1..3 /\ w = op[p].from + 1 /\ op[p].from \in 0..3 /\ Script(p) = Up[w]
      /\ n \in 1..Len(Up[w])
      BY <1>2, StepLeads DEF Stepping, Plans, StepPlanned
<1>4. v + 1 \in 1..3 /\ v \in 0..3
      BY <1>1, <1>2, UpgradeBegins
<1>5. Marker(v + 1) \notin Up[w][n].drops
      BY <1>3, <1>4, Markers
<1>6. CASE Stale(q, v)
      BY <1>2, <1>3, <1>5, <1>6 DEF Stale
<1>7. CASE Fresh(q, v)
  <2>1. n = 1 /\ schema = Expected(op[p].from) /\ schema = Expected(v)
        BY <1>7 DEF Fresh
  <2>2. v = op[p].from
        BY <1>3, <1>4, <2>1, ExpectedDiffer
  <2>3. Marker(v + 1) \in Up[w][n].adds
        BY <1>3, <2>1, <2>2, Markers
  <2>4. QED  BY <1>2, <1>3, <2>3
<1>8. QED  BY <1>1, <1>6, <1>7 DEF Schemas, BeforeKnown

\* A statement that succeeds is executed over the schema that its script has led to.
LEMMA StatementKnown ==
    ASSUME 0 \notin Target, Plans, Schemas, NEW p \in Process, op[p].pc = "execute",
           Executable(Script(p)[op[p].statement])
    PROVE  /\ mark.dirty /\ schema = After(Script(p), op[p].from, op[p].statement)
           /\ \A q \in Others(p) : ~Past(q)
           /\ Past(p) \/ (op[p].statement = 1 /\ schema = Expected(op[p].from))
<1> DEFINE n == op[p].statement
           s == Script(p)[n]
<1>1. op[p] \in Op /\ n \in 1..Len(Script(p)) /\ Len(Script(p)) \in 1..7
      BY ScriptBounds DEF Plans, Typed, StepPlanned, Stepping
<1>2. Past(p) \/ (n = 1 /\ schema = Expected(op[p].from) /\ mark.dirty /\ \A q \in Process : ~Past(q))
  <2>1. CASE n > 1
        BY <2>1 DEF Past
  <2>2. CASE n = 1
    <3>1. PICK v \in 0..Latest : v = op[p].from
          BY <1>1 DEF Op
    <3>2. Fresh(p, v) \/ Stale(p, v)
          BY <2>2, <3>1 DEF Schemas, BeforeKnown, Before
    <3>3. ~Stale(p, v)
      <4>1. SUFFICES ASSUME ~op[p].asked, Marker(v + 1) \in schema PROVE FALSE
            BY DEF Stale
      <4>2. Script(p) = Up[v + 1] /\ v + 1 \in 1..3
            BY <3>1, <4>1, StepLeads DEF Stepping
      <4>3. Marker(v + 1) \in s.forbids
            BY <2>2, <4>2, Markers
      <4>4. QED  BY <4>1, <4>3 DEF Executable
    <3>4. QED  BY <2>2, <3>1, <3>2, <3>3 DEF Fresh
  <2>3. QED  BY <1>1, <2>1, <2>2
<1>3. CASE Past(p)
      BY <1>3 DEF Schemas, PastReached, PastAlone, Reached, Others
<1>4. CASE n = 1 /\ schema = Expected(op[p].from) /\ mark.dirty /\ \A q \in Process : ~Past(q)
      BY <1>4, AfterNone DEF Others
<1>5. QED  BY <1>2, <1>3, <1>4

LEMMA RunSchemas ==
    ASSUME 0 \notin Target, Plans, Schemas, NEW p \in Process, RunStatement(p) PROVE Schemas'
<1> DEFINE n == op[p].statement
           s == Script(p)[n]
<1>1. /\ op[p] \in Op /\ op[p].pc = "execute" /\ mark' = mark /\ \A q \in Others(p) : op'[q] = op[q]
      /\ n \in 1..Len(Script(p)) /\ Len(Script(p)) \in 1..7 /\ op[p].from \in 0..3
      /\ Leads(Script(p), op[p].from, op[p].version)
      BY ScriptBounds, StepLeads, StatementMoves DEF Plans, Typed, StepPlanned, Stepping
<1>2. CASE op'[p].pc = "error" /\ schema' = schema
      BY <1>1, <1>2, Leaves DEF Stepping
<1>3. CASE op'[p].pc # "error"
  <2>1. /\ Executable(s) /\ schema' = (schema \ s.drops) \cup s.adds
        /\ op'[p].from = op[p].from /\ op'[p].version = op[p].version /\ op'[p].statement = n + 1
        /\ op'[p].pc = (IF n = Len(Script(p)) THEN "clean" ELSE "execute")
        BY <1>3, StatementMoves
  <2>2. op'[p].pc \in {"clean", "execute"}
        BY <2>1
  <2>3. Script(p)' = Script(p)
        BY <2>1 DEF Script
  <2>4. /\ mark.dirty /\ schema = After(Script(p), op[p].from, n) /\ \A q \in Others(p) : ~Past(q)
        /\ Past(p) \/ (n = 1 /\ schema = Expected(op[p].from))
        BY <1>1, <2>1, StatementKnown
  <2>5. schema' = After(Script(p), op[p].from, n + 1)
    <3>1. n \in Nat \ {0} /\ \A j \in 1..n - 1 : Script(p)[j].adds \cap s.drops = {}
          BY <1>1 DEF Leads
    <3>2. QED  BY <2>1, <2>4, <3>1, AfterNext
  <2>6. schema' = Reached(p)'
    <3>1. n + 1 = IF op'[p].pc = "clean" THEN Len(Script(p)) + 1 ELSE op'[p].statement
          BY <1>1, <2>1
    <3>2. QED  BY <2>1, <2>3, <2>5, <3>1 DEF Reached
  <2>7. \A q \in Process : Past(q)' => q = p
        BY <1>1, <2>4 DEF Past, Others
  <2>8. PastAlone' /\ PastReached'
        BY <1>1, <2>4, <2>6, <2>7 DEF PastAlone, PastReached
  <2>9. \A v \in 0..Latest : ~Before(p, v)'
        BY <1>1, <2>1, <2>2 DEF Before
  <2>10. BeforeKnown'
    <3>1. SUFFICES ASSUME NEW q \in Others(p), NEW v \in 0..Latest, Before(q, v)' PROVE Stale(q, v)'
          BY <2>9 DEF BeforeKnown, Others
    <3>2. op'[q] = op[q] /\ Before(q, v)
          BY <1>1, <3>1 DEF Before
    <3>3. ~op[q].asked /\ Marker(v + 1) \in schema'
          BY <1>1, <2>1, <2>4, <3>2, OthersAreLate
    <3>4. QED  BY <3>2, <3>3 DEF Stale
  <2>11. CleanMarkNamesSchema'
        BY <1>1, <2>4 DEF CleanMarkNamesSchema
  <2>12. QED  BY <2>8, <2>10, <2>11 DEF Schemas
<1>4. QED  BY <1>2, <1>3, StatementMoves

-----------------------------------------------------------------------------
(* Every step *)

LEMMA InitHolds == ASSUME Init PROVE Plans /\ Schemas /\ \A p \in Process : op[p].pc = "idle"
<1>1. Quiet \in Op /\ Quiet.pc = "idle"
      BY DEF Quiet, Op, Latest, Ended
<1>2. \A p \in Process : op[p] \in Op /\ op[p].pc = "idle"
      BY <1>1 DEF Init
<1>3. op \in [Process -> Op]
      BY <1>1 DEF Init
<1>4. Plans
  <2>1. Typed
    <3>1. mark \in [version : 0..Latest, dirty : BOOLEAN]
          BY DEF Init, Latest
    <3>2. overlapped \in BOOLEAN
          BY DEF Init
    <3>3. schema \subseteq Elements /\ runs \in Nat /\ faults \in Nat
          BY DEF Init
    <3>4. QED  BY <1>3, <3>1, <3>2, <3>3 DEF Typed
  <2>2. AskedAlone /\ \A p \in Process : StepPlanned(p)
        BY <1>2 DEF AskedAlone, StepPlanned, Stepping, Active
  <2>3. QED  BY <2>1, <2>2 DEF Plans
<1>5. Schemas
      BY <1>2 DEF Init, Schemas, PastAlone, PastReached, BeforeKnown, Before, Past, CleanMarkNamesSchema, Expected
<1>6. QED  BY <1>2, <1>4, <1>5

LEMMA PlansHold == ASSUME Plans, [Next]_vars PROVE Plans'
<1>1. CASE UNCHANGED vars
      BY <1>1 DEF vars, Plans, Typed, AskedAlone, StepPlanned, Script
<1>2. ASSUME NEW p \in Process, Start(p) \/ Proceed(p) \/ Fails(p) PROVE Plans'
  <2>1. CASE MarkDirty(p)
        BY <2>1, MarkPlans DEF MarkDirty
  <2>2. CASE MarkClean(p)
        BY <2>2, MarkPlans DEF MarkClean
  <2>3. QED  BY <1>2, <2>1, <2>2, StartPlans, ReadPlans, NextPlans, RunPlans, FailsPlans DEF Proceed
<1>3. QED  BY <1>1, <1>2 DEF Next, Terminated

LEMMA SchemasHold == ASSUME 0 \notin Target, Plans, Schemas, [Next]_vars PROVE Schemas'
<1>1. CASE UNCHANGED vars
      BY <1>1 DEF vars, Schemas, PastAlone, PastReached, BeforeKnown, Before, Past, Reached, Script, Fresh, Stale,
         CleanMarkNamesSchema
<1>2. ASSUME NEW p \in Process, Start(p) \/ Proceed(p) \/ Fails(p) PROVE Schemas'
  <2>1. CASE Start(p)
        BY <2>1, StartPlans, Leaves DEF Stepping
  <2>2. CASE Fails(p)
    <3>1. \A q \in Others(p) : op'[q] = op[q]
          BY <2>2 DEF Fails, Goto, Become, Plans, Typed, Others
    <3>2. QED  BY <2>2, <3>1, FailsPlans, Leaves DEF Stepping
  <2>3. QED  BY <1>2, <2>1, <2>2, ReadSchemas, DirtySchemas, RunSchemas, CleanSchemas, NextSchemas DEF Proceed
<1>3. QED  BY <1>1, <1>2 DEF Next, Terminated

-----------------------------------------------------------------------------
(* Where a dirty mark points to, when the runs come one by one *)

Apart == \A p, q \in Process : op[p].pc \in Active /\ op[q].pc \in Active => p = q

\* The mark is that of the run's step.
Follows(p) ==
    /\ op[p].pc = "dirty" => mark = [version |-> op[p].from, dirty |-> FALSE]
    /\ op[p].pc \in {"execute", "clean"} => mark = [version |-> op[p].version, dirty |-> TRUE]
    /\ op[p].pc = "next" => mark = [version |-> op[p].version, dirty |-> FALSE]

OneByOne == ~overlapped => Apart /\ \A p \in Process : Follows(p)

\* Schema s is on the way to version v.
Towards(s, v) ==
    \/ v > 0 /\ s \in Executing(Up[v], v - 1)
    \/ v < Latest /\ s \in Executing(Down[v + 1], v + 1)

\* So it is all along the script of a step.
LEMMA OnTheWay ==
    ASSUME 0 \notin Target, Plans, NEW p \in Process, op[p].pc \in Stepping,
           NEW k \in 1..Len(Script(p)) + 1
    PROVE  Towards(After(Script(p), op[p].from, k), op[p].version)
<1> DEFINE f == op[p].from
           v == op[p].version
<1>1. Leads(Script(p), f, v) /\ f \in 0..3 /\ v \in 1..3 /\ op[p] \in Op /\ StepPlanned(p)
      BY StepLeads DEF Plans, Typed
<1>2. k - 1 \in 0..Len(Script(p)) /\ k - 1 + 1 = k
      BY <1>1 DEF Leads
<1>3. After(Script(p), f, k) \in Executing(Script(p), f)
  <2>1. Executing(Script(p), f) = {After(Script(p), f, i + 1) : i \in 0..Len(Script(p))}
        BY <1>1, Executed DEF Leads
  <2>2. QED  BY <1>2, <2>1
<1>4. f = v - 1 \/ f = v + 1
      BY <1>1 DEF StepPlanned
<1>5. CASE f = v - 1
  <2>1. Script(p) = Up[v]
        BY <1>1, <1>5 DEF Script
  <2>2. QED  BY <1>1, <1>3, <1>5, <2>1 DEF Towards
<1>6. CASE f = v + 1
  <2>1. Script(p) = Down[v + 1] /\ v < Latest
        BY <1>1, <1>6 DEF Script, Latest
  <2>2. QED  BY <1>3, <1>6, <2>1 DEF Towards
<1>7. QED  BY <1>4, <1>5, <1>6

\* The active process moves: it is the only one.
LEMMA OneMoves ==
    ASSUME OneByOne, NEW p \in Process, op[p].pc \in Active, \A q \in Others(p) : op'[q] = op[q],
           overlapped' = overlapped, ~overlapped => Follows(p)'
    PROVE  OneByOne'
<1>1. SUFFICES ASSUME ~overlapped PROVE Apart' /\ \A q \in Process : Follows(q)'
      BY DEF OneByOne
<1>2. \A q \in Others(p) : op'[q] = op[q] /\ op[q].pc \notin Active
      BY <1>1 DEF OneByOne, Apart, Others
<1>3. Apart'
      BY <1>2 DEF Apart, Others
<1>4. \A q \in Others(p) : Follows(q)'
      BY <1>2 DEF Follows, Active
<1>5. QED  BY <1>1, <1>3, <1>4 DEF Others

LEMMA OneByOneHolds ==
    ASSUME Plans, OneByOne, [Next]_vars PROVE OneByOne'
<1>1. CASE UNCHANGED vars
      BY <1>1 DEF vars, OneByOne, Apart, Follows
<1>2. Typed /\ \A p \in Process : op[p] \in Op
      BY DEF Plans, Typed
<1>3. ASSUME NEW p \in Process, Start(p)
      PROVE  OneByOne'
  <2>1. /\ op[p].pc \in Ended /\ op'[p].pc = "read" /\ mark' = mark
        /\ \A q \in Others(p) : op'[q] = op[q]
        BY <1>3, StartPlans
  <2>2. SUFFICES ASSUME ~overlapped' PROVE Apart' /\ \A q \in Process : Follows(q)'
        BY DEF OneByOne
  <2>3. ~overlapped /\ \A q \in Others(p) : op[q].pc \notin Active
        BY <1>3, <2>2 DEF Start
  <2>4. Apart'
        BY <2>1, <2>3 DEF Apart, Others
  <2>5. QED  BY <2>1, <2>3, <2>4 DEF Follows, Active, Others
<1>4. ASSUME NEW p \in Process, Proceed(p) \/ Fails(p)
      PROVE  OneByOne'
  <2>1. overlapped' = overlapped /\ op[p].pc \in Active
        BY <1>4 DEF Proceed, Fails, ReadVersion, MarkDirty, RunStatement, MarkClean, NextStep, Active
  <2>2. \A q \in Others(p) : op'[q] = op[q]
        BY <1>2, <1>4 DEF Proceed, Fails, ReadVersion, MarkDirty, RunStatement, MarkClean, NextStep, StepFrom,
                          Goto, Become, Typed, Others
  <2>3. CASE op'[p].pc \in Ended
    <3>1. Follows(p)'
          BY <2>3 DEF Follows, Ended
    <3>2. QED  BY <2>1, <2>2, <3>1, OneMoves
  <2>4. CASE ReadVersion(p) /\ op'[p].pc \notin Ended
    <3>1. ~mark.dirty /\ op'[p].pc = "dirty" /\ op'[p].from = mark.version /\ mark' = mark
          BY <2>4, ReadPlans
    <3>2. Follows(p)'
          BY <1>2, <3>1 DEF Follows, Typed
    <3>3. QED  BY <2>1, <2>2, <3>2, OneMoves
  <2>5. CASE MarkDirty(p)
    <3>1. op'[p].pc = "execute" /\ op'[p].version = op[p].version
          BY <1>2, <2>5 DEF MarkDirty, Goto, Become, Typed, Op
    <3>2. mark' = [version |-> op[p].version, dirty |-> TRUE]
          BY <2>5 DEF MarkDirty, SetMigrationVersion
    <3>3. QED  BY <2>1, <2>2, <3>1, <3>2, OneMoves DEF Follows
  <2>6. CASE RunStatement(p) /\ op'[p].pc \notin Ended
    <3>1. /\ op[p].pc = "execute" /\ op'[p].pc \in {"execute", "clean"} /\ op'[p].version = op[p].version
          /\ mark' = mark
          BY <2>6, StatementMoves DEF Ended
    <3>2. ~overlapped => Follows(p)'
          BY <3>1 DEF OneByOne, Follows
    <3>3. QED  BY <2>1, <2>2, <3>2, OneMoves
  <2>7. CASE MarkClean(p)
    <3>1. op'[p].pc = "next" /\ op'[p].version = op[p].version
          BY <1>2, <2>7 DEF MarkClean, Goto, Become, Typed, Op
    <3>2. mark' = [version |-> op[p].version, dirty |-> FALSE]
          BY <2>7 DEF MarkClean, SetMigrationVersion
    <3>3. QED  BY <2>1, <2>2, <3>1, <3>2, OneMoves DEF Follows
  <2>8. CASE NextStep(p) /\ op'[p].pc \notin Ended
    <3>1. op[p].pc = "next" /\ op'[p].pc = "dirty" /\ op'[p].from = op[p].version /\ mark' = mark
          BY <2>8, NextPlans DEF NextStep
    <3>2. ~overlapped => Follows(p)'
          BY <3>1 DEF OneByOne, Follows
    <3>3. QED  BY <2>1, <2>2, <3>2, OneMoves
  <2>9. CASE Fails(p)
    <3>1. op'[p].pc \in Ended
          BY <2>9, FailsPlans DEF Ended
    <3>2. QED  BY <2>3, <3>1
  <2>10. QED  BY <1>4, <2>3, <2>4, <2>5, <2>6, <2>7, <2>8, <2>9 DEF Proceed
<1>5. QED  BY <1>1, <1>3, <1>4 DEF Next, Terminated

LEMMA DirtyMarkHolds ==
    ASSUME 0 \notin Target, Plans, Schemas, OneByOne, DirtyMarkLocatesSchema, [Next]_vars
    PROVE  DirtyMarkLocatesSchema'
<1>1. Typed /\ \A p \in Process : op[p] \in Op
      BY DEF Plans, Typed
<1>2. DirtyMarkLocatesSchema <=> (mark.dirty /\ ~overlapped => Towards(schema, mark.version))
      BY DEF DirtyMarkLocatesSchema, Towards
<1>3. SUFFICES ASSUME mark'.dirty, ~overlapped' PROVE Towards(schema, mark.version)'
      BY DEF DirtyMarkLocatesSchema, Towards
<1>4. CASE schema' = schema /\ mark' = mark /\ (overlapped => overlapped')
      BY <1>2, <1>3, <1>4 DEF Towards
<1>5. ASSUME NEW p \in Process, MarkDirty(p)
      PROVE  Towards(schema, mark.version)'
  <2>1. /\ op[p].pc = "dirty" /\ ~overlapped /\ schema' = schema
        /\ mark' = [version |-> op[p].version, dirty |-> TRUE]
        BY <1>3, <1>5 DEF MarkDirty, SetMigrationVersion
  <2>2. schema = Expected(op[p].from)
        BY <2>1 DEF OneByOne, Follows, Schemas, CleanMarkNamesSchema
  <2>3. schema = After(Script(p), op[p].from, 1) /\ 1 \in 1..Len(Script(p)) + 1
        BY <2>1, <2>2, AfterNone, ScriptBounds DEF Stepping
  <2>4. Towards(schema, op[p].version)
        BY <2>1, <2>3, OnTheWay DEF Stepping
  <2>5. QED  BY <2>1, <2>4
<1>6. ASSUME NEW p \in Process, RunStatement(p), schema' # schema
      PROVE  Towards(schema, mark.version)'
  <2> DEFINE n == op[p].statement
             s == Script(p)[n]
  <2>1. /\ op[p].pc = "execute" /\ mark' = mark /\ ~overlapped
        /\ Executable(s) /\ schema' = (schema \ s.drops) \cup s.adds
        BY <1>3, <1>6, StatementMoves
  <2>2. schema = After(Script(p), op[p].from, n)
        BY <2>1, StatementKnown
  <2>3. /\ n \in 1..Len(Script(p)) /\ Len(Script(p)) \in 1..7
        /\ \A j \in 1..n - 1 : Script(p)[j].adds \cap s.drops = {}
        BY <2>1, StepLeads DEF Plans, StepPlanned, Stepping, Leads
  <2>4. n \in Nat \ {0} /\ n + 1 \in 1..Len(Script(p)) + 1
        BY <2>3
  <2>5. schema' = After(Script(p), op[p].from, n + 1)
        BY <2>1, <2>2, <2>3, <2>4, AfterNext
  <2>6. Towards(schema', op[p].version)
        BY <2>1, <2>4, <2>5, OnTheWay DEF Stepping
  <2>7. mark.version = op[p].version
        BY <2>1 DEF OneByOne, Follows
  <2>8. QED  BY <2>1, <2>6, <2>7
<1>7. ASSUME NEW p \in Process, Start(p) \/ ReadVersion(p) \/ NextStep(p) \/ Fails(p)
      PROVE  schema' = schema /\ mark' = mark /\ (overlapped => overlapped')
      BY <1>1, <1>7 DEF Typed, Start, ReadVersion, NextStep, Fails
<1>8. ASSUME NEW p \in Process, RunStatement(p), schema' = schema
      PROVE  schema' = schema /\ mark' = mark /\ (overlapped => overlapped')
      BY <1>8 DEF RunStatement
<1>9. ASSUME NEW p \in Process, MarkClean(p)
      PROVE  FALSE
      BY <1>3, <1>9 DEF MarkClean, SetMigrationVersion
<1>10. QED  BY <1>4, <1>5, <1>6, <1>7, <1>8, <1>9 DEF Next, Terminated, Proceed, vars

-----------------------------------------------------------------------------
(* How far the schema has come *)

\* The schemas from which version w has not been left.
Through(w) == IF w = Latest THEN {Expected(w)} ELSE Executing(Up[w + 1], w)

LEMMA ThroughIs ==
    /\ \A w \in 0..2 : Through(w) = {After(Up[w + 1], w, k + 1) : k \in 0..Len(Up[w + 1])}
    /\ Through(3) = {Expected(3)}
<1>1. \A w \in 0..2 : Leads(Up[w + 1], w, w + 1)
      BY UpOneLeads, UpTwoLeads, UpThreeLeads
<1>2. \A w \in 0..2 : Executing(Up[w + 1], w) = {After(Up[w + 1], w, k + 1) : k \in 0..Len(Up[w + 1])}
      BY <1>1, Executed DEF Leads
<1>3. QED  BY <1>2 DEF Through, Latest

LEMMA AtLeastThrough == \A w \in 0..3 : AtLeast(w) <=> \E u \in w..3 : schema \in Through(u)
BY DEF AtLeast, Through, Latest

\* A schema has come as far as the version it is that of.
LEMMA ExpectedReached ==
    ASSUME NEW w \in 0..3 PROVE Expected(w) \in Through(w)
<1>1. CASE w = 3
      BY <1>1, ThroughIs
<1>2. CASE w \in 0..2
  <2>1. Len(Up[w + 1]) \in 1..7
        BY <1>2, UpOne, UpTwo, UpThree
  <2>2. Expected(w) = After(Up[w + 1], w, 0 + 1) /\ 0 \in 0..Len(Up[w + 1])
        BY <2>1, AfterNone
  <2>3. QED  BY <1>2, <2>2, ThroughIs
<1>3. QED  BY <1>1, <1>2

LEMMA LastTable ==
    /\ \A j \in 1..6 : Table("system_referential_integrity_entry") \notin Up[1][j].adds
    /\ Table("system_referential_integrity_entry") \notin {PinNotNull, SlotNotNull, ChainId}
<1> DEFINE last == "system_referential_integrity_entry"
<1>1. \A t \in Tables \ {last} : Table(t) # Table(last)
      BY DEF Table
<1>2. Table(last) \notin {PinNotNull, SlotNotNull, ChainId}
      BY Differ DEF Tables
<1>3. \A j \in 1..6 : \E t \in Tables \ {last} : Up[1][j].adds \subseteq {Table(t), PinNotNull, SlotNotNull, ChainId}
  <2>1. /\ Up[1][1].adds = {Table("cfg_admin")} /\ Up[1][2].adds = {Table("cfg_application"), ChainId}
        /\ Up[1][3].adds = {Table("cfg_user")} /\ Up[1][4].adds = {Table("cfg_account")}
        /\ Up[1][5].adds = {Table("cfg_hardware_security_module")}
        /\ Up[1][6].adds = {Table(Slot), PinNotNull, SlotNotNull}
        BY DEF Up, CreateTable, Statement
  <2>2. {"cfg_admin", "cfg_application", "cfg_user", "cfg_account", "cfg_hardware_security_module", Slot}
          \subseteq Tables \ {last}
        BY DEF Tables, Slot
  <2>3. QED  BY <2>1, <2>2
<1>4. QED  BY <1>1, <1>2, <1>3

\* Before its last statement the script of version u has not led there: it leaves the
\* last table to that statement, or the column constraint, or the name of a column.
LEMMA NotThereYet ==
    ASSUME NEW u \in 1..3, NEW n \in 1..Len(Up[u]), NEW w \in 0..3,
           After(Up[u], u - 1, n) \in Through(w)
    PROVE  w <= u - 1
<1> DEFINE E == Table("system_referential_integrity_entry")
<1>1. \A x \in 1..2 : \A j \in 1..Len(Up[x + 1]) : Up[x + 1][j].drops \subseteq {PinNotNull, SlotNotNull, ChainId}
      BY UpTwo, UpThree
<1>2. CASE u = 1
  <2>1. E \notin After(Up[1], 0, n)
    <3>1. n - 1 \in 0..6 /\ Expected(0) = {}
          BY <1>2, UpOne DEF Expected
    <3>2. QED  BY <3>1, LastTable DEF After
  <2>2. \A x \in 1..3 : E \in Expected(x)
        BY DEF Expected, Tables
  <2>3. ASSUME NEW x \in 1..2, NEW k \in 0..Len(Up[x + 1])
        PROVE  E \in After(Up[x + 1], x, k + 1)
    <3>1. Len(Up[x + 1]) \in 1..3
          BY UpTwo, UpThree
    <3>2. E \notin UNION {Up[x + 1][j].drops : j \in 1..(k + 1) - 1}
      <4>1. \A j \in 1..(k + 1) - 1 : j \in 1..Len(Up[x + 1])
            BY <3>1
      <4>2. QED  BY <1>1, <4>1, LastTable
    <3>3. QED  BY <2>2, <3>2 DEF After
  <2>4. \A x \in 1..3 : \A s \in Through(x) : E \in s
        BY <2>2, <2>3, ThroughIs
  <2>5. QED  BY <1>2, <2>1, <2>4
<1>3. CASE u = 2
  <2>1. SlotNotNull \in After(Up[2], 1, n)
    <3>1. n \in 1..3 /\ SlotNotNull \in Expected(1)
          BY <1>3, UpTwo DEF Expected
    <3>2. \A j \in 1..n - 1 : SlotNotNull \notin Up[2][j].drops
          BY <3>1, UpTwo, Differ
    <3>3. QED  BY <3>1, <3>2 DEF After
  <2>2. SlotNotNull \notin Expected(2) /\ SlotNotNull \notin Expected(3)
        BY Differ DEF Expected
  <2>3. \A k \in 0..1 : SlotNotNull \notin After(Up[3], 2, k + 1)
        BY <2>2, UpThree, Differ DEF After
  <2>4. \A x \in 2..3 : \A s \in Through(x) : SlotNotNull \notin s
    <3>1. Through(2) = {After(Up[3], 2, k + 1) : k \in 0..1}
      <4>1. 2 \in 0..2 /\ 2 + 1 = 3
            OBVIOUS
      <4>2. Through(2) = {After(Up[3], 2, k + 1) : k \in 0..Len(Up[3])}
            BY <4>1, ThroughIs
      <4>3. QED  BY <4>2, UpThree
    <3>2. QED  BY <2>2, <2>3, <3>1, ThroughIs
  <2>5. QED  BY <1>3, <2>1, <2>4
<1>4. CASE u = 3
  <2>1. After(Up[3], 2, n) = Expected(2)
        BY <1>4, UpThree, AfterNone
  <2>2. ChainId \in Expected(2) /\ ChainId \notin Expected(3)
        BY Differ DEF Expected
  <2>3. QED  BY <1>4, <2>1, <2>2, ThroughIs
<1>5. QED  BY <1>2, <1>3, <1>4

\* A statement of an upgrade takes nothing back, whatever the others have done to the
\* schema since it was planned.
LEMMA UpgradeOnward ==
    ASSUME 0 \notin Target, Plans, Schemas, NEW p \in Process, RunStatement(p), ~op[p].asked,
           NEW w \in 0..3, AtLeast(w)
    PROVE  AtLeast(w)'
<1> DEFINE n == op[p].statement
           s == Script(p)[n]
           u == op[p].version
<1>1. CASE schema' = schema
      BY <1>1 DEF AtLeast
<1>2. CASE schema' # schema
  <2>1. /\ op[p].pc = "execute" /\ Executable(s) /\ schema' = (schema \ s.drops) \cup s.adds
        BY <1>2, StatementMoves
  <2>2. schema = After(Script(p), op[p].from, n)
        BY <2>1, StatementKnown
  <2>3. /\ n \in 1..Len(Script(p)) /\ Len(Script(p)) \in 1..7 /\ op[p].from = u - 1 /\ u \in 1..3
        /\ Script(p) = Up[u] /\ \A j \in 1..n - 1 : Script(p)[j].adds \cap s.drops = {}
        BY <2>1, StepLeads DEF Plans, StepPlanned, Stepping, Leads
  <2>4. n \in Nat \ {0} /\ n \in 0..Len(Up[u])
        BY <2>3
  <2>5. schema' = After(Up[u], u - 1, n + 1)
        BY <2>1, <2>2, <2>3, <2>4, AfterNext
  <2>6. PICK x \in w..3 : schema \in Through(x)
        BY AtLeastThrough
  <2>7. x <= u - 1 /\ x \in 0..3
        BY <2>2, <2>3, <2>6, NotThereYet
  <2>8. schema' \in Through(u - 1)
        BY <2>3, <2>4, <2>5, ThroughIs
  <2>9. u - 1 \in w..3
        BY <2>3, <2>6, <2>7
  <2>10. QED  BY <2>8, <2>9 DEF AtLeast, Through, Latest
<1>3. QED  BY <1>1, <1>2

\* A step that a run has completed stays completed.
Done == \A p \in Process : op[p].pc = "next" /\ ~op[p].asked => AtLeast(op[p].version)

LEMMA DoneHolds ==
    ASSUME 0 \notin Target, Plans, Schemas, Done, [Next]_vars PROVE Done'
<1>1. CASE UNCHANGED vars
      BY <1>1 DEF vars, Done, AtLeast
<1>2. Typed /\ \A p \in Process : op[p] \in Op
      BY DEF Plans, Typed
<1>3. ASSUME NEW p \in Process, Start(p) \/ Proceed(p) \/ Fails(p),
             NEW q \in Process, op'[q].pc = "next", ~op'[q].asked
      PROVE  AtLeast(op[q].version)'
  <2>1. CASE q = p
    <3>1. MarkClean(p)
      <4>1. ~Start(p) /\ ~Fails(p)
            BY <1>3, <2>1, StartPlans, FailsPlans
      <4>2. ~ReadVersion(p) /\ ~NextStep(p)
            BY <1>3, <2>1, ReadPlans, NextPlans DEF Ended
      <4>3. ~RunStatement(p)
            BY <1>3, <2>1, StatementMoves
      <4>4. MarkDirty(p) => op'[p].pc = "execute"
            BY <1>2 DEF MarkDirty, Goto, Become, Typed, Op
      <4>5. QED  BY <1>3, <2>1, <4>1, <4>2, <4>3, <4>4 DEF Proceed
    <3>2. mark' = [version |-> op[p].version, dirty |-> FALSE] /\ op'[p].version = op[p].version
          BY <1>2, <3>1 DEF MarkClean, SetMigrationVersion, Goto, Become, Typed, Op
    <3>3. schema' = Expected(op[p].version) /\ op[p].version \in 0..3
      <4>1. Schemas'
            BY <3>1, CleanSchemas
      <4>2. QED  BY <1>2, <3>2, <4>1 DEF Schemas, CleanMarkNamesSchema, Op, Latest
    <3>4. \E x \in op[p].version..3 : schema' \in Through(x)
          BY <3>3, ExpectedReached
    <3>5. QED  BY <2>1, <3>2, <3>4 DEF AtLeast, Through, Latest
  <2>2. CASE q # p
    <3>1. op'[q] = op[q]
          BY <1>2, <1>3, <2>2, StartPlans, StatementMoves
             DEF Proceed, Fails, ReadVersion, MarkDirty, MarkClean, NextStep, StepFrom, Goto, Become, Typed, Others
    <3>2. AtLeast(op[q].version) /\ op[q].version \in 0..3 /\ op[q].pc \in Active
          BY <1>2, <1>3, <3>1 DEF Done, Op, Latest, Active
    <3>3. CASE RunStatement(p)
      <4>1. ~op[p].asked
        <5>1. op[p].pc \in Active
              BY <3>3 DEF RunStatement, Active
        <5>2. QED  BY <2>2, <3>2, <5>1 DEF Plans, AskedAlone, Others
      <4>2. \A w \in 0..3 : AtLeast(w) => AtLeast(w)'
            BY <3>3, <4>1, UpgradeOnward
      <4>3. QED  BY <3>1, <3>2, <4>2 DEF AtLeast
    <3>4. CASE ~RunStatement(p)
      <4>1. schema' = schema
            BY <1>3, <3>4 DEF Start, Proceed, Fails, ReadVersion, MarkDirty, MarkClean, NextStep
      <4>2. QED  BY <3>1, <3>2, <4>1 DEF AtLeast
    <3>5. QED  BY <3>3, <3>4
  <2>3. QED  BY <2>1, <2>2
<1>4. QED  BY <1>1, <1>3 DEF Next, Terminated, Done

-----------------------------------------------------------------------------
(* The theorems *)

(* The state keeps its type: no plan leaves the versions there are, and no    *)
(* run executes past the end of a script (Migrate, dbmigrator.go:190).        *)
THEOREM TypesHold == Spec => []TypeOK
<1>1. Init => Plans
      BY InitHolds
<1>2. Plans /\ [Next]_vars => Plans'
      BY PlansHold
<1>3. Plans => TypeOK
      BY DEF Plans, Typed, StepPlanned, TypeOK
<1>4. QED  BY <1>1, <1>2, <1>3, PTL DEF Spec

(* A version marked clean names the schema of the database, whatever fails    *)
(* and however many processes upgrade it, unless someone asks for version 0:  *)
(* its script leaves tables behind (000001_initial_schema.down.sql).          *)
THEOREM CleanMarkIsTrue ==
    ASSUME 0 \notin Target PROVE Spec => []CleanMarkNamesSchema
<1>1. Init => Plans /\ Schemas
      BY InitHolds
<1>2. Plans /\ Schemas /\ [Next]_vars => (Plans /\ Schemas)'
      BY PlansHold, SchemasHold
<1>3. Schemas => CleanMarkNamesSchema
      BY DEF Schemas
<1>4. QED  BY <1>1, <1>2, <1>3, PTL DEF Spec

(* A dirty mark tells where a migration stopped, for runs one by one: the    *)
(* schema is at a statement of a script that leads to the marked version      *)
(* (migrateStep, dbmigrator.go:239).                                          *)
THEOREM DirtyMarkIsTrue ==
    ASSUME 0 \notin Target PROVE Spec => []DirtyMarkLocatesSchema
<1> DEFINE Known == Plans /\ Schemas /\ OneByOne /\ DirtyMarkLocatesSchema
<1>1. Init => Known
  <2>1. SUFFICES ASSUME Init PROVE OneByOne /\ DirtyMarkLocatesSchema
        BY InitHolds
  <2>2. \A p \in Process : op[p].pc = "idle"
        BY <2>1, InitHolds
  <2>3. QED  BY <2>1, <2>2 DEF Init, OneByOne, Apart, Follows, Active, DirtyMarkLocatesSchema
<1>2. Known /\ [Next]_vars => Known'
      BY PlansHold, SchemasHold, OneByOneHolds, DirtyMarkHolds
<1>3. Known => DirtyMarkLocatesSchema
      OBVIOUS
<1>4. QED  BY <1>1, <1>2, <1>3, PTL DEF Spec

\* What the answers of the upgrade command rest on, all the way.
LEMMA DoneThroughout ==
    ASSUME 0 \notin Target PROVE Spec => [](Plans /\ Schemas /\ Done)
<1>1. Init => Plans /\ Schemas /\ Done
  <2>1. SUFFICES ASSUME Init PROVE Done
        BY InitHolds
  <2>2. QED  BY <2>1, InitHolds DEF Done
<1>2. Plans /\ Schemas /\ Done /\ [Next]_vars => (Plans /\ Schemas /\ Done)'
      BY PlansHold, SchemasHold, DoneHolds
<1>3. QED  BY <1>1, <1>2, PTL DEF Spec

(* The upgrade command answers well only when the schema has come as far as  *)
(* its binary asks for, however many processes upgrade the database and       *)
(* whatever fails (Migrate, dbmigrator.go:190).                               *)
THEOREM OkIsUpgraded ==
    ASSUME 0 \notin Target PROVE Spec => OkMeansUpgraded
<1> DEFINE A == \A p \in Process :
                  op'[p].pc = "ok" /\ op[p].pc # "ok" /\ ~op[p].asked => AtLeast(op[p].target)'
<1>1. Plans /\ Schemas /\ Done /\ [Next]_vars => [A]_vars
  <2>1. SUFFICES ASSUME Plans, Schemas, Done, Next, NEW p \in Process,
                        op'[p].pc = "ok", op[p].pc # "ok", ~op[p].asked
                 PROVE  AtLeast(op[p].target)'
        OBVIOUS
  <2>2. Typed /\ \A q \in Process : op[q] \in Op
        BY <2>1 DEF Plans, Typed
  <2>3. PICK q \in Process : Start(q) \/ Proceed(q) \/ Fails(q)
        BY <2>1 DEF Next, Terminated, vars
  <2>4. q = p
        BY <2>1, <2>2, <2>3, StartPlans, StatementMoves
           DEF Proceed, Fails, ReadVersion, MarkDirty, MarkClean, NextStep, StepFrom, Goto, Become, Typed, Others
  <2>5. ReadVersion(p) \/ NextStep(p)
    <3>1. ~Start(p) /\ ~Fails(p) /\ ~RunStatement(p)
          BY <2>1, StartPlans, FailsPlans, StatementMoves
    <3>2. \A pc \in {"execute", "next"} : ~Goto(p, pc)
          BY <2>1, <2>2 DEF Goto, Become, Typed, Op
    <3>3. ~MarkDirty(p) /\ ~MarkClean(p)
          BY <3>2 DEF MarkDirty, MarkClean
    <3>4. QED  BY <2>3, <2>4, <3>1, <3>3 DEF Proceed
  <2>6. \A pc \in {"error", "panic", "ok"} : Goto(p, pc) => op'[p].pc = pc /\ op'[p].target = op[p].target
        BY <2>2 DEF Goto, Become, Typed, Op
  <2>7. ASSUME NEW v, StepFrom(p, v)
        PROVE  FALSE
    <3> DEFINE w == IF v < op[p].target THEN v + 1 ELSE v - 1
               local == [op[p] EXCEPT !.pc = "dirty", !.from = v, !.statement = 1, !.version = w]
    <3>1. op'[p] = local
          BY <2>2, <2>7 DEF StepFrom, Become, Typed
    <3> HIDE DEF w
    <3>2. local.pc = "dirty"
          BY <2>2 DEF Op
    <3> HIDE DEF local
    <3>3. QED  BY <2>1, <3>1, <3>2
  <2>8. /\ schema' = schema /\ op'[p].target = op[p].target /\ op[p].target \in 0..3
        /\ \E w \in op[p].target..3 : schema \in Through(w)
    <3>1. op[p].target \in 0..3
          BY <2>2 DEF Op, Latest
    <3>2. CASE ReadVersion(p)
      <4>1. /\ schema' = schema /\ ~mark.dirty /\ op[p].target = mark.version
            /\ op'[p].target = op[p].target
            BY <2>1, <2>6, <2>7, <3>2 DEF ReadVersion, Refused
      <4>2. schema = Expected(op[p].target)
            BY <2>1, <4>1 DEF Schemas, CleanMarkNamesSchema
      <4>3. QED  BY <3>1, <4>1, <4>2, ExpectedReached
    <3>3. CASE NextStep(p)
      <4>1. /\ schema' = schema /\ op[p].pc = "next" /\ op[p].version = op[p].target
            /\ op'[p].target = op[p].target
            BY <2>1, <2>6, <2>7, <3>3 DEF NextStep
      <4>2. AtLeast(op[p].target)
            BY <2>1, <4>1 DEF Done
      <4>3. QED  BY <3>1, <4>1, <4>2, AtLeastThrough
    <3>4. QED  BY <2>5, <3>2, <3>3
  <2>9. QED  BY <2>8 DEF AtLeast, Through, Latest
<1>2. QED  BY <1>1, DoneThroughout, PTL DEF Spec, OkMeansUpgraded

(* No statement of an upgrade takes the schema back, not even that of a       *)
(* binary older than the database (mapMigrationsDown, dbmigrator.go:285).     *)
THEOREM UpgradesOnward ==
    ASSUME 0 \notin Target PROVE Spec => UpgradesNeverDowngrade
<1> DEFINE A == \A v \in 1..Latest : AtLeast(v) /\ ~AtLeast(v)' => \E p \in Process : op[p].asked
<1>1. Plans /\ Schemas /\ Done /\ [Next]_vars => [A]_vars
  <2>1. SUFFICES ASSUME Plans, Schemas, Next, NEW v \in 1..3, AtLeast(v), ~AtLeast(v)'
                 PROVE  \E p \in Process : op[p].asked
        BY DEF Latest
  <2>2. schema' # schema
        BY <2>1 DEF AtLeast
  <2>3. PICK p \in Process : RunStatement(p)
        BY <2>1, <2>2 DEF Next, Terminated, vars, Start, Proceed, Fails, ReadVersion, MarkDirty, MarkClean, NextStep
  <2>4. QED  BY <2>1, <2>3, UpgradeOnward
<1>2. QED  BY <1>1, DoneThroughout, PTL DEF Spec, UpgradesNeverDowngrade
=============================================================================
