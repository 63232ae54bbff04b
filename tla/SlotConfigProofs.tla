-------------------------- MODULE SlotConfigProofs --------------------------
(***************************************************************************)
(* SlotConfig for every set of handlers, addresses and pins and every      *)
(* bound: a resource version stands for one state of the row, edits in     *)
(* transactions commit over the row they have read, and all edits together *)
(* implement SlotObject.                                                   *)
(***************************************************************************)
EXTENDS SlotConfig, TLAPS

\* The slot of SlotObject that a row stands for.
Config(row) == [kind |-> row.kind, keys |-> row.keys, pin |-> row.pin]

\* What the local state of a handler has at each place.
Shape(l) ==
    /\ l.pc = "idle" => l = Quiet
    /\ l.pc # "idle" => l.call \in LocalKeyCalls \cup EditCalls
    /\ l.pc = "read" => l.call \in LocalKeyCalls
    /\ l.pc = "check" => l.call \in EditCalls /\ l.seen # NoSlot
    /\ l.pc \in {"update", "confirm"} => l.seen # NoSlot /\ Abstract!Allowed(Config(l.seen), l.call)
    /\ l.pc = "confirm" =>
          /\ l.pending # NoSlot
          /\ Config(l.pending) = Abstract!Effect(Config(l.seen), l.call)

\* Versions are fresh, and never come back.
Versions ==
    /\ slot # NoSlot => slot.version < nextVersion
    /\ \A p \in Client : op[p].seen # NoSlot => op[p].seen.version < nextVersion
    /\ \A p \in Client : op[p].pc = "confirm" => op[p].pending.version < nextVersion
    /\ \A p \in Client : op[p].seen # NoSlot /\ slot # NoSlot /\ op[p].seen.version = slot.version
          => op[p].seen = slot
    /\ \A p, q \in Client : op[p].pc = "confirm" /\ op[q].seen # NoSlot
          => op[q].seen.version # op[p].pending.version

\* One transaction at a time has written the row, and it is the row it has seen.
OneWriter ==
    /\ CommitsOverWhatItSaw
    /\ \A p, q \in Client : op[p].pc = "confirm" /\ op[q].pc = "confirm" => p = q

IInv ==
    /\ TypeOK
    /\ \A p \in Client : Shape(op[p])
    /\ Versions
    /\ OneWriter

-----------------------------------------------------------------------------
\* A slot that does not exist is no row.
LEMMA NoRow == NoSlot \notin Row
BY NoSlotAssumption DEF Row

LEMMA QuietShape == Quiet \in Op /\ Shape(Quiet) /\ Quiet.pc = "idle" /\ Quiet.seen = NoSlot
BY DEF Quiet, Op, PCs, Shape

LEMMA InitIInv == Init => IInv
<1>. SUFFICES ASSUME Init PROVE IInv
  OBVIOUS
<1>1. TypeOK
  BY QuietShape, BoundAssumption DEF Init, TypeOK, Row
<1>2. \A p \in Client : op[p] = Quiet
  BY DEF Init
<1>3. Versions
  BY <1>2, QuietShape DEF Init, Versions
<1>4. OneWriter
  BY <1>2, QuietShape DEF OneWriter, CommitsOverWhatItSaw
<1>. QED BY <1>1, <1>2, <1>3, <1>4, QuietShape DEF IInv

\* What a step of p leaves alone in the other handlers.
Alone(p) == \A q \in Client \ {p} : op'[q] = op[q]

\* The assignment of Become, read back.
LEMMA Becomes ==
    ASSUME TypeOK, NEW p \in Client, NEW m \in Op, Become(p, m)
    PROVE  op' \in [Client -> Op] /\ op'[p] = m /\ Alone(p)
BY DEF TypeOK, Become, Alone

LEMMA Goes ==
    ASSUME TypeOK, NEW p \in Client, NEW pc \in PCs, Goto(p, pc)
    PROVE  /\ op' \in [Client -> Op] /\ Alone(p)
           /\ op'[p].pc = pc /\ op'[p].call = op[p].call
           /\ op'[p].seen = op[p].seen /\ op'[p].pending = op[p].pending
<1>. DEFINE m == [op[p] EXCEPT !.pc = pc]
<1>0. op[p] \in Op
  BY DEF TypeOK
<1>1. m \in Op /\ Become(p, m)
  BY <1>0 DEF Op, Goto
<1>2. m.pc = pc /\ m.call = op[p].call /\ m.seen = op[p].seen /\ m.pending = op[p].pending
  BY <1>0 DEF Op
<1>. HIDE DEF m
<1>. QED BY <1>1, <1>2, Becomes

\* The row that an UPDATE writes: a fresh version, and the effect of the call on the
\* row, when that is the row the caller has seen.
LEMMA WrittenRow ==
    ASSUME TypeOK, NEW p \in Client, slot # NoSlot, op[p].seen = slot,
           op[p].call \in LocalKeyCalls \cup EditCalls
    PROVE  /\ Written(p) \in Row
           /\ Written(p).version = nextVersion
           /\ Config(Written(p)) = Abstract!Effect(Config(slot), op[p].call)
<1>1. slot \in Row /\ nextVersion \in Nat
  BY DEF TypeOK
<1>2. CASE op[p].call.name = "add"
  BY <1>1, <1>2 DEF Written, Row, Config, Abstract!Effect, LocalKeyCalls, EditCalls
<1>3. CASE op[p].call.name = "remove"
  BY <1>1, <1>3 DEF Written, Row, Config, Abstract!Effect, LocalKeyCalls, EditCalls
<1>4. CASE op[p].call.name = "pin"
  BY <1>1, <1>4 DEF Written, Row, Config, Abstract!Effect, LocalKeyCalls, EditCalls
<1>5. CASE op[p].call.name = "config"
  BY <1>1, <1>5 DEF Written, Row, Config, Abstract!Effect, LocalKeyCalls, EditCalls
<1>. QED BY <1>2, <1>3, <1>4, <1>5 DEF LocalKeyCalls, EditCalls

\* A handler that leaves the row and the version alone, and no transaction open.
LEMMA Local ==
    ASSUME IInv, NEW p \in Client, op' \in [Client -> Op], Alone(p),
           Shape(op'[p]), op'[p].pc # "confirm",
           op'[p].seen \in {op[p].seen, slot, NoSlot},
           UNCHANGED <<slot, nextVersion>>, calls' \in 0..MaxCalls, faults' \in 0..MaxFaults
    PROVE  IInv'
<1>1. TypeOK'
  BY DEF IInv, TypeOK
<1>2. \A q \in Client : Shape(op'[q])
  BY DEF IInv, Alone
<1>3. Versions'
  BY DEF IInv, Versions, OneWriter, CommitsOverWhatItSaw, Shape, Alone
<1>4. OneWriter'
  BY DEF IInv, OneWriter, CommitsOverWhatItSaw, Alone
<1>. QED BY <1>1, <1>2, <1>3, <1>4 DEF IInv

\* A handler that goes elsewhere with the call and the row it has.
LEMMA Moves ==
    ASSUME IInv, NEW p \in Client, NEW pc \in {"update", "applied", "ok", "error"}, Goto(p, pc),
           op[p].pc # "idle",
           pc = "update" => op[p].seen # NoSlot /\ Abstract!Allowed(Config(op[p].seen), op[p].call),
           UNCHANGED <<slot, nextVersion>>, calls' \in 0..MaxCalls, faults' \in 0..MaxFaults
    PROVE  IInv'
<1>1. /\ op' \in [Client -> Op] /\ Alone(p)
      /\ op'[p].pc = pc /\ op'[p].call = op[p].call /\ op'[p].seen = op[p].seen
  BY Goes DEF IInv, PCs
<1>2. Shape(op'[p])
  BY <1>1 DEF IInv, Shape
<1>. QED BY <1>1, <1>2, Local

\* A step that replaces the row, with no transaction open and for a version that
\* nobody has seen, and moves no handler to the commit.
LEMMA Fresh ==
    ASSUME IInv, slot' \in Row \cup {NoSlot}, nextVersion' \in Nat, nextVersion' >= nextVersion,
           op' \in [Client -> Op], \A q \in Client : Shape(op'[q]) /\ op'[q].pc # "confirm",
           \A q \in Client : op'[q].seen = op[q].seen,
           slot' # NoSlot => /\ slot'.version < nextVersion'
                             /\ \A q \in Client : op[q].seen # NoSlot => op[q].seen.version # slot'.version,
           calls' \in 0..MaxCalls, faults' \in 0..MaxFaults
    PROVE  IInv'
<1>1. TypeOK'
  BY DEF IInv, TypeOK
<1>2. \A q \in Client : op[q].seen # NoSlot => op[q].seen.version < nextVersion'
  <2>1. \A q \in Client : op[q].seen # NoSlot => op[q].seen.version \in Nat /\ nextVersion \in Nat
    BY DEF IInv, TypeOK, Op, Row
  <2>. QED BY <2>1 DEF IInv, Versions
<1>3. Versions'
  BY <1>2 DEF Versions
<1>4. OneWriter'
  BY DEF OneWriter, CommitsOverWhatItSaw
<1>. QED BY <1>1, <1>3, <1>4 DEF IInv

\* The invariant is inductive: each step, or a stutter, keeps it.
LEMMA NextIInv == IInv /\ [Next]_vars => IInv'
<1>. SUFFICES ASSUME IInv, [Next]_vars PROVE IInv'
  OBVIOUS
<1>0. TypeOK /\ Versions /\ OneWriter /\ \A p \in Client : op[p] \in Op /\ Shape(op[p])
  BY DEF IInv, TypeOK
<1>00. /\ calls \in 0..MaxCalls /\ faults \in 0..MaxFaults
       /\ calls < MaxCalls => calls + 1 \in 0..MaxCalls
       /\ NoFault \/ FaultHappens => faults' \in 0..MaxFaults
  BY <1>0, BoundAssumption DEF TypeOK, NoFault, FaultHappens
<1>1. CASE UNCHANGED vars
  BY <1>1 DEF vars, IInv, TypeOK, Versions, OneWriter, CommitsOverWhatItSaw
<1>2. ASSUME NEW p \in Client, BeginLocalKeyCall(p)
      PROVE  IInv'
  <2>1. PICK c \in LocalKeyCalls : Begin(p, [Quiet EXCEPT !.pc = "read", !.call = c])
    BY <1>2 DEF BeginLocalKeyCall
  <2>. DEFINE m == [Quiet EXCEPT !.pc = "read", !.call = c]
  <2>2. m \in Op /\ m.seen = NoSlot /\ m.pc = "read" /\ Shape(m)
    BY DEF Quiet, Op, PCs, Shape
  <2>3. /\ Become(p, m) /\ UNCHANGED <<slot, nextVersion>>
        /\ calls' \in 0..MaxCalls /\ faults' \in 0..MaxFaults
    BY <1>00, <2>1 DEF Begin
  <2>. HIDE DEF m
  <2>. QED BY <1>0, <2>2, <2>3, Becomes, Local
<1>3. ASSUME NEW p \in Client, BeginEdit(p)
      PROVE  IInv'
  <2>1. PICK c \in EditCalls :
           Begin(p, [Quiet EXCEPT !.pc = "check", !.call = c, !.seen = slot])
    BY <1>3 DEF BeginEdit
  <2>. DEFINE m == [Quiet EXCEPT !.pc = "check", !.call = c, !.seen = slot]
  <2>2. m \in Op /\ m.seen = slot /\ m.pc = "check" /\ Shape(m)
    BY <1>0, <1>3 DEF BeginEdit, TypeOK, Quiet, Op, PCs, Shape
  <2>3. /\ Become(p, m) /\ UNCHANGED <<slot, nextVersion>>
        /\ calls' \in 0..MaxCalls /\ faults' \in 0..MaxFaults
    BY <1>00, <2>1 DEF Begin
  <2>. HIDE DEF m
  <2>. QED BY <1>0, <2>2, <2>3, Becomes, Local
<1>4. ASSUME NEW p \in Client, ReadSlot(p)
      PROVE  IInv'
  <2>1. /\ op[p].pc = "read" /\ UNCHANGED <<slot, nextVersion>>
        /\ calls' \in 0..MaxCalls /\ faults' \in 0..MaxFaults
    BY <1>00, <1>4 DEF ReadSlot
  <2>2. CASE Goto(p, "error")
    BY <2>1, <2>2, Moves
  <2>3. CASE ~Goto(p, "error")
    <3>. DEFINE m == [op[p] EXCEPT !.pc = "update", !.seen = slot]
    <3>1. /\ slot # NoSlot /\ slot.kind = "LKV"
          /\ (op[p].call.name = "add") <=> (op[p].call.key \notin slot.keys)
          /\ Become(p, m)
      BY <1>4, <2>3 DEF ReadSlot
    <3>2. m \in Op /\ m.pc = "update" /\ m.seen = slot /\ m.call = op[p].call
      BY <1>0 DEF TypeOK, Op, PCs
    <3>. HIDE DEF m
    <3>3. op[p].call \in LocalKeyCalls
      BY <1>0, <2>1 DEF Shape
    <3>4. Abstract!Allowed(Config(slot), op[p].call)
      BY <3>1, <3>3 DEF Abstract!Allowed, Config, LocalKeyCalls
    <3>5. Shape(m)
      BY <3>1, <3>2, <3>3, <3>4 DEF Shape
    <3>. QED BY <1>0, <2>1, <3>1, <3>2, <3>5, Becomes, Local
  <2>. QED BY <2>2, <2>3
<1>5. ASSUME NEW p \in Client, CheckSlot(p)
      PROVE  IInv'
  <2>1. /\ op[p].pc = "check" /\ UNCHANGED <<slot, nextVersion>>
        /\ calls' \in 0..MaxCalls /\ faults' \in 0..MaxFaults
    BY <1>00, <1>5 DEF CheckSlot
  <2>2. CASE Goto(p, "error")
    BY <2>1, <2>2, Moves
  <2>3. CASE ~Goto(p, "error")
    <3>1. /\ slot.kind = op[p].seen.kind /\ Goto(p, "update")
          /\ op[p].call.name = "config" => slot.kind = "AKV"
      BY <1>5, <2>3 DEF CheckSlot
    <3>2. op[p].call \in EditCalls /\ op[p].seen # NoSlot
      BY <1>0, <2>1 DEF Shape
    <3>3. Abstract!Allowed(Config(op[p].seen), op[p].call)
      BY <3>1, <3>2 DEF Abstract!Allowed, Config, EditCalls
    <3>. QED BY <2>1, <3>1, <3>2, <3>3, Moves
  <2>. QED BY <2>2, <2>3
<1>6. ASSUME NEW p \in Client, Finish(p)
      PROVE  IInv'
  <2>1. /\ op[p].pc = "applied" /\ UNCHANGED <<slot, nextVersion>>
        /\ calls' \in 0..MaxCalls /\ faults' \in 0..MaxFaults
        /\ Goto(p, "ok") \/ Goto(p, "error")
    BY <1>00, <1>6 DEF Finish
  <2>. QED BY <2>1, Moves
<1>7. ASSUME NEW p \in Client, Leave(p)
      PROVE  IInv'
  <2>1. /\ Become(p, Quiet) /\ UNCHANGED <<slot, nextVersion>>
        /\ calls' \in 0..MaxCalls /\ faults' \in 0..MaxFaults
    BY <1>00, <1>7 DEF Leave
  <2>. QED BY <1>0, <2>1, QuietShape, Becomes, Local
<1>8. ASSUME NEW p \in Client, FailedStatement(p)
      PROVE  IInv'
  <2>1. /\ op[p].pc # "idle" /\ Goto(p, "error") /\ UNCHANGED <<slot, nextVersion>>
        /\ calls' \in 0..MaxCalls /\ faults' \in 0..MaxFaults
    BY <1>00, <1>8 DEF FailedStatement
  <2>. QED BY <2>1, Moves
<1>9. ASSUME NEW p \in Client, UpdateLocalKey(p)
      PROVE  IInv'
  <2>1. /\ op[p].pc = "update" /\ ~RowLocked
        /\ calls' \in 0..MaxCalls /\ faults' \in 0..MaxFaults
    BY <1>00, <1>9 DEF UpdateLocalKey
  <2>2. CASE Goto(p, "error") /\ UNCHANGED <<slot, nextVersion>>
    BY <2>1, <2>2, Moves
  <2>3. CASE /\ Matches(p) /\ slot' = Written(p) /\ nextVersion' = nextVersion + 1
             /\ Goto(p, "applied")
    <3>1. slot # NoSlot /\ op[p].seen = slot /\ op[p].call \in LocalKeyCalls \cup EditCalls
      BY <1>0, <2>1, <2>3 DEF Matches, Versions, Shape
    <3>2. slot' \in Row /\ slot'.version = nextVersion
      BY <1>0, <2>3, <3>1, WrittenRow
    <3>3. /\ op' \in [Client -> Op] /\ Alone(p) /\ op'[p].pc = "applied"
          /\ op'[p].call = op[p].call /\ op'[p].seen = op[p].seen
      BY <1>0, <2>3, Goes DEF PCs
    <3>4. \A q \in Client : /\ Shape(op'[q]) /\ op'[q].pc # "confirm"
                            /\ op'[q].seen = op[q].seen
      BY <1>0, <2>1, <3>1, <3>3 DEF Shape, Alone, RowLocked
    <3>5. nextVersion \in Nat /\ nextVersion' \in Nat
      BY <1>0, <2>3 DEF TypeOK
    <3>6. \A q \in Client : op[q].seen # NoSlot => op[q].seen.version # slot'.version
      BY <1>0, <3>2, <3>5 DEF Versions
    <3>. QED BY <2>1, <2>3, <3>2, <3>3, <3>4, <3>5, <3>6, Fresh
  <2>. QED BY <1>9, <2>2, <2>3 DEF UpdateLocalKey
<1>10. ASSUME NEW p \in Client, UpdateInTransaction(p)
       PROVE  IInv'
  <2>1. /\ op[p].pc = "update" /\ ~RowLocked /\ UNCHANGED slot
        /\ calls' \in 0..MaxCalls /\ faults' \in 0..MaxFaults
    BY <1>00, <1>10 DEF UpdateInTransaction
  <2>2. CASE Goto(p, "error") /\ UNCHANGED nextVersion
    BY <2>1, <2>2, Moves
  <2>. DEFINE m == [op[p] EXCEPT !.pc = "confirm", !.pending = Written(p)]
  <2>3. CASE Matches(p) /\ nextVersion' = nextVersion + 1 /\ Become(p, m)
    <3>1. /\ slot # NoSlot /\ op[p].seen = slot /\ op[p].call \in LocalKeyCalls \cup EditCalls
          /\ Abstract!Allowed(Config(op[p].seen), op[p].call)
      BY <1>0, <2>1, <2>3 DEF Matches, Versions, Shape
    <3>2. /\ Written(p) \in Row /\ Written(p).version = nextVersion
          /\ Config(Written(p)) = Abstract!Effect(Config(slot), op[p].call)
      BY <1>0, <3>1, WrittenRow
    <3>3. /\ m \in Op /\ m.pc = "confirm" /\ m.seen = slot /\ m.call = op[p].call
          /\ m.pending = Written(p)
      BY <1>0, <3>1, <3>2 DEF Op, PCs
    <3>. HIDE DEF m
    <3>4. op' \in [Client -> Op] /\ op'[p] = m /\ Alone(p)
      BY <1>0, <2>3, <3>3, Becomes
    <3>5. Shape(m)
      BY <3>1, <3>2, <3>3, NoRow DEF Shape
    <3>6. nextVersion \in Nat /\ nextVersion' = nextVersion + 1
      BY <1>0, <2>3 DEF TypeOK
    <3>7. \A q \in Client : q # p => op'[q].pc # "confirm"
      BY <2>1, <3>4 DEF Alone, RowLocked
    <3>8. TypeOK'
      BY <1>0, <2>1, <3>4, <3>6 DEF TypeOK
    <3>9. \A q \in Client : op'[q].seen = op[q].seen
      BY <3>1, <3>3, <3>4 DEF Alone
    <3>10. \A q \in Client : op[q].seen # NoSlot =>
              op[q].seen.version < nextVersion' /\ op[q].seen.version # nextVersion
      <4>1. \A q \in Client : op[q].seen # NoSlot => op[q].seen.version \in Nat
        BY <1>0 DEF Op, Row
      <4>. QED BY <1>0, <3>6, <4>1 DEF Versions
    <3>11. slot.version < nextVersion'
      <4>1. slot.version \in Nat
        BY <1>0, <3>1 DEF TypeOK, Row
      <4>. QED BY <1>0, <3>1, <3>6, <4>1 DEF Versions
    <3>12. \A q \in Client : op'[q].pc = "confirm" =>
              op'[q].pending.version = nextVersion /\ op'[q].seen = slot' /\ q = p
      BY <2>1, <3>2, <3>3, <3>4, <3>7
    <3>13. Versions'
      BY <1>0, <2>1, <3>6, <3>9, <3>10, <3>11, <3>12 DEF Versions
    <3>14. OneWriter'
      BY <3>12 DEF OneWriter, CommitsOverWhatItSaw
    <3>. QED BY <1>0, <3>4, <3>5, <3>8, <3>13, <3>14 DEF IInv, Alone
  <2>. QED BY <1>10, <2>2, <2>3 DEF UpdateInTransaction
<1>11. ASSUME NEW p \in Client, Commit(p)
       PROVE  IInv'
  <2>. DEFINE m == [op[p] EXCEPT !.pc = "applied", !.pending = NoSlot]
              n == [op[p] EXCEPT !.pc = "error", !.pending = NoSlot]
  <2>1. /\ op[p].pc = "confirm" /\ UNCHANGED nextVersion
        /\ calls' \in 0..MaxCalls /\ faults' \in 0..MaxFaults
        /\ \/ slot' = op[p].pending /\ Become(p, m)
           \/ UNCHANGED slot /\ Become(p, n)
    BY <1>00, <1>11 DEF Commit
  <2>2. /\ m \in Op /\ m.pc = "applied" /\ m.seen = op[p].seen /\ m.call = op[p].call
        /\ n \in Op /\ n.pc = "error" /\ n.seen = op[p].seen /\ n.call = op[p].call
    BY <1>0 DEF Op, PCs
  <2>3. Shape(m) /\ Shape(n)
    BY <1>0, <2>1, <2>2 DEF Shape
  <2>. HIDE DEF m, n
  <2>4. CASE slot' = op[p].pending /\ Become(p, m)
    <3>1. op' \in [Client -> Op] /\ op'[p] = m /\ Alone(p)
      BY <1>0, <2>2, <2>4, Becomes
    <3>2. slot' \in Row \cup {NoSlot} /\ nextVersion' \in Nat /\ nextVersion' >= nextVersion
      BY <1>0, <2>1, <2>4 DEF TypeOK, Op
    <3>3. \A q \in Client : /\ Shape(op'[q]) /\ op'[q].pc # "confirm"
                            /\ op'[q].seen = op[q].seen
      BY <1>0, <2>1, <2>2, <2>3, <3>1 DEF Alone, OneWriter
    <3>4. /\ slot'.version < nextVersion'
          /\ \A q \in Client : op[q].seen # NoSlot => op[q].seen.version # slot'.version
      BY <1>0, <2>1, <2>4 DEF Versions
    <3>. QED BY <2>1, <3>1, <3>2, <3>3, <3>4, Fresh
  <2>5. CASE UNCHANGED slot /\ Become(p, n)
    BY <1>0, <2>1, <2>2, <2>3, <2>5, Becomes, Local
  <2>. QED BY <2>1, <2>4, <2>5
<1>12. CASE CreateHSMSlot
  <2>1. /\ slot = NoSlot /\ calls' \in 0..MaxCalls /\ faults' \in 0..MaxFaults
        /\ nextVersion' = nextVersion + 1 /\ op' = op
    BY <1>00, <1>12 DEF CreateHSMSlot
  <2>2. nextVersion \in Nat /\ nextVersion' \in Nat /\ op' \in [Client -> Op]
    BY <1>0, <2>1 DEF TypeOK
  <2>3. slot' \in Row /\ slot'.version = nextVersion
    BY <1>12, <2>2 DEF CreateHSMSlot, Row
  <2>4. \A q \in Client : op[q].pc # "confirm"
    BY <1>0, <2>1 DEF OneWriter, CommitsOverWhatItSaw, Shape
  <2>5. \A q \in Client : op[q].seen # NoSlot => op[q].seen.version # slot'.version
    BY <1>0, <2>2, <2>3 DEF Versions
  <2>. QED BY <1>0, <2>1, <2>2, <2>3, <2>4, <2>5, Fresh
<1>13. CASE DeleteHSMSlot
  <2>1. /\ slot' = NoSlot /\ calls' \in 0..MaxCalls /\ faults' \in 0..MaxFaults
        /\ nextVersion' = nextVersion /\ op' = op /\ ~RowLocked
    BY <1>00, <1>13 DEF DeleteHSMSlot
  <2>2. nextVersion \in Nat /\ op' \in [Client -> Op]
    BY <1>0, <2>1 DEF TypeOK
  <2>. QED BY <1>0, <2>1, <2>2, Fresh DEF RowLocked
<1>14. CASE Crash
  <2>1. /\ op' = [p \in Client |-> Quiet] /\ UNCHANGED <<slot, nextVersion>>
        /\ calls' \in 0..MaxCalls /\ faults' \in 0..MaxFaults
    BY <1>00, <1>14 DEF Crash
  <2>2. \A p \in Client : op'[p] = Quiet
    BY <2>1
  <2>3. TypeOK'
    BY <1>0, <2>1, QuietShape DEF TypeOK
  <2>4. Versions' /\ OneWriter'
    BY <1>0, <2>1, <2>2, QuietShape DEF Versions, OneWriter, CommitsOverWhatItSaw
  <2>. QED BY <2>2, <2>3, <2>4, QuietShape DEF IInv
<1>. QED
  BY <1>1, <1>2, <1>3, <1>4, <1>5, <1>6, <1>7, <1>8, <1>9, <1>10, <1>11, <1>12, <1>13, <1>14
  DEF Next, Step, Terminated

-----------------------------------------------------------------------------
(***************************************************************************)
(* Every step of SlotConfig is a step of SlotObject, or none.              *)
(***************************************************************************)

\* The state of SlotObject that a state stands for.
Slot == IF slot = NoSlot THEN NoSlot ELSE Config(slot)
Call(p) == [call |-> op[p].call, phase |-> PhaseOf(p)]
Calling == [p \in Client |-> Call(p)]

\* A step of p changes its own call only.
LEMMA OneCall ==
    ASSUME TypeOK, NEW p \in Client, op' \in [Client -> Op], Alone(p)
    PROVE  Calling' = [Calling EXCEPT ![p] = Call(p)']
<1>1. \A q \in Client \ {p} : Call(q)' = Call(q)
  BY DEF Alone, Call, PhaseOf
<1>2. Calling' = [q \in Client |-> Call(q)']
  BY DEF Calling
<1>. QED BY <1>1, <1>2 DEF Calling

\* The configuration of a row is no missing slot.
LEMMA NoConfig ==
    ASSUME NEW row \in Row
    PROVE  Config(row) \in Abstract!Object /\ Config(row) # NoSlot
<1>1. Config(row) \in [kind : ModuleKind, keys : SUBSET Address, pin : Pin]
  BY DEF Row, Config
<1>. QED BY <1>1, NoSlotAssumption DEF Abstract!Object

\* The steps of SlotObject on the state that is stood for.
LEMMA Stutters ==
    ASSUME Slot' = Slot, Calling' = Calling
    PROVE  [Abstract!Next]_(Abstract!vars)
BY DEF Slot, Calling, Call, Config, Abstract!vars

LEMMA Answers ==
    ASSUME TypeOK, NEW p \in Client, op' \in [Client -> Op], Alone(p), UNCHANGED slot,
           op'[p].call = op[p].call,
           \/ PhaseOf(p)' = PhaseOf(p)
           \/ PhaseOf(p) = "applied" /\ PhaseOf(p)' = "ok"
           \/ PhaseOf(p) \in {"called", "applied"} /\ PhaseOf(p)' = "error"
    PROVE  [Abstract!Next]_(Abstract!vars)
<1>1. Calling' = [Calling EXCEPT ![p] = Call(p)']
  BY OneCall
<1>2. Calling[p] = Call(p) /\ Calling[p].phase = PhaseOf(p) /\ Slot' = Slot
  BY DEF Calling, Call, Slot, Config
<1>3. CASE PhaseOf(p)' = PhaseOf(p)
  <2>1. Call(p)' = Call(p)
    BY <1>3 DEF Call
  <2>2. Calling' = Calling
    BY <1>1, <1>2, <2>1 DEF Calling
  <2>. QED BY <1>2, <2>2, Stutters
<1>4. CASE \/ PhaseOf(p) = "applied" /\ PhaseOf(p)' = "ok"
           \/ PhaseOf(p) \in {"called", "applied"} /\ PhaseOf(p)' = "error"
  <2>1. Calling' = [Calling EXCEPT ![p].phase = PhaseOf(p)']
    BY <1>1, <1>2 DEF Call, Calling
  <2>2. Abstract!Answer(p)
    BY <1>2, <1>4, <2>1 DEF Abstract!Answer, Calling, Call, Slot, Config
  <2>. QED BY <2>2 DEF Abstract!Next
<1>. QED BY <1>3, <1>4

LEMMA TakesEffect ==
    ASSUME TypeOK, NEW p \in Client, op' \in [Client -> Op], Alone(p),
           op'[p].call = op[p].call, PhaseOf(p) = "called", PhaseOf(p)' = "applied",
           slot # NoSlot, slot' \in Row, Abstract!Allowed(Config(slot), op[p].call),
           Config(slot)' = Abstract!Effect(Config(slot), op[p].call)
    PROVE  [Abstract!Next]_(Abstract!vars)
<1>1. Calling' = [Calling EXCEPT ![p] = Call(p)']
  BY OneCall
<1>2. /\ Calling[p] = Call(p) /\ Calling[p].phase = PhaseOf(p) /\ Calling[p].call = op[p].call
      /\ Call(p)' = [Call(p) EXCEPT !.phase = "applied"]
  BY DEF Calling, Call
<1>3. Calling' = [Calling EXCEPT ![p].phase = "applied"]
  BY <1>1, <1>2
<1>4. Slot # NoSlot /\ Slot = Config(slot) /\ Slot' = Config(slot)'
  <2>1. slot \in Row
    BY DEF TypeOK
  <2>2. Config(slot) # NoSlot /\ Config(slot)' # NoSlot /\ slot' # NoSlot
    BY <2>1, NoConfig, NoRow
  <2>. QED BY <2>2 DEF Slot
<1>5. Abstract!TakeEffect(p)
  BY <1>2, <1>3, <1>4 DEF Abstract!TakeEffect, Calling, Call, Slot, Config
<1>. QED BY <1>5 DEF Abstract!Next

\* A handler that begins a call.
LEMMA Invokes ==
    ASSUME TypeOK, NEW p \in Client, NEW m \in Op, Become(p, m), UNCHANGED slot,
           op[p].pc = "idle", m.pc \in {"read", "check"}, m.call \in LocalKeyCalls \cup EditCalls
    PROVE  [Abstract!Next]_(Abstract!vars)
<1>1. op' \in [Client -> Op] /\ op'[p] = m /\ Alone(p)
  BY Becomes
<1>2. Calling' = [Calling EXCEPT ![p] = Call(p)']
  BY <1>1, OneCall
<1>3. Call(p)' = [call |-> m.call, phase |-> "called"]
  BY <1>1 DEF Call, PhaseOf
<1>4. Calling[p].phase = "none" /\ Slot' = Slot
  BY DEF Calling, Call, PhaseOf, Slot, Config
<1>5. m.call \in Abstract!Calls
  BY DEF Abstract!Calls, LocalKeyCalls, EditCalls
<1>6. Abstract!Invoke(p, m.call)
  BY <1>2, <1>3, <1>4 DEF Abstract!Invoke, Calling, Call, Slot, Config
<1>. QED BY <1>5, <1>6 DEF Abstract!Next

\* A handler that goes to an answer, or on with a call that has had no effect.
LEMMA GoesOn ==
    ASSUME TypeOK, NEW p \in Client, NEW pc \in PCs, Goto(p, pc), UNCHANGED slot,
           \/ pc = "error" /\ op[p].pc \in {"read", "check", "update", "applied"}
           \/ pc = "ok" /\ op[p].pc = "applied"
           \/ pc = "update" /\ op[p].pc = "check"
    PROVE  [Abstract!Next]_(Abstract!vars)
<1>1. /\ op' \in [Client -> Op] /\ Alone(p)
      /\ op'[p].pc = pc /\ op'[p].call = op[p].call
  BY Goes
<1>2. \/ PhaseOf(p)' = PhaseOf(p)
      \/ PhaseOf(p) = "applied" /\ PhaseOf(p)' = "ok"
      \/ PhaseOf(p) \in {"called", "applied"} /\ PhaseOf(p)' = "error"
  BY <1>1 DEF PhaseOf
<1>. QED BY <1>1, <1>2, Answers

LEMMA InitRefines == Init => Abstract!Init
<1>. SUFFICES ASSUME Init PROVE Abstract!Init
  OBVIOUS
<1>1. Slot \in Abstract!Object \cup {NoSlot}
  <2>1. slot \in Row \cup {NoSlot}
    BY DEF Init, Row
  <2>. QED BY <2>1, NoConfig DEF Slot
<1>2. Calling = [p \in Client |-> Abstract!Quiet]
  BY DEF Init, Quiet, Abstract!Quiet, Calling, Call, PhaseOf
<1>. QED BY <1>1, <1>2 DEF Abstract!Init, Slot, Calling, Call, Config

LEMMA NextRefines == IInv /\ [Next]_vars => [Abstract!Next]_(Abstract!vars)
<1>. SUFFICES ASSUME IInv, [Next]_vars PROVE [Abstract!Next]_(Abstract!vars)
  OBVIOUS
<1>0. TypeOK /\ Versions /\ OneWriter /\ \A p \in Client : op[p] \in Op /\ Shape(op[p])
  BY DEF IInv, TypeOK
<1>1. CASE UNCHANGED vars
  BY <1>1, Stutters DEF vars, Slot, Calling, Call, PhaseOf, Config
<1>2. ASSUME NEW p \in Client, BeginLocalKeyCall(p)
      PROVE  [Abstract!Next]_(Abstract!vars)
  <2>1. PICK c \in LocalKeyCalls : Begin(p, [Quiet EXCEPT !.pc = "read", !.call = c])
    BY <1>2 DEF BeginLocalKeyCall
  <2>. DEFINE m == [Quiet EXCEPT !.pc = "read", !.call = c]
  <2>2. m \in Op /\ m.call = c /\ m.pc = "read"
    BY DEF Quiet, Op, PCs
  <2>3. Become(p, m) /\ UNCHANGED slot /\ op[p].pc = "idle"
    BY <2>1 DEF Begin
  <2>. HIDE DEF m
  <2>. QED BY <1>0, <2>2, <2>3, Invokes
<1>3. ASSUME NEW p \in Client, BeginEdit(p)
      PROVE  [Abstract!Next]_(Abstract!vars)
  <2>1. PICK c \in EditCalls :
           Begin(p, [Quiet EXCEPT !.pc = "check", !.call = c, !.seen = slot])
    BY <1>3 DEF BeginEdit
  <2>. DEFINE m == [Quiet EXCEPT !.pc = "check", !.call = c, !.seen = slot]
  <2>2. m \in Op /\ m.call = c /\ m.pc = "check"
    BY <1>0 DEF TypeOK, Quiet, Op, PCs
  <2>3. Become(p, m) /\ UNCHANGED slot /\ op[p].pc = "idle"
    BY <2>1 DEF Begin
  <2>. HIDE DEF m
  <2>. QED BY <1>0, <2>2, <2>3, Invokes
<1>4. ASSUME NEW p \in Client, ReadSlot(p)
      PROVE  [Abstract!Next]_(Abstract!vars)
  <2>1. op[p].pc = "read" /\ UNCHANGED slot
    BY <1>4 DEF ReadSlot
  <2>2. CASE Goto(p, "error")
    BY <1>0, <2>1, <2>2, GoesOn DEF PCs
  <2>3. CASE ~Goto(p, "error")
    <3>. DEFINE m == [op[p] EXCEPT !.pc = "update", !.seen = slot]
    <3>1. Become(p, m)
      BY <1>4, <2>3 DEF ReadSlot
    <3>2. m \in Op /\ m.pc = "update" /\ m.call = op[p].call
      BY <1>0 DEF TypeOK, Op, PCs
    <3>. HIDE DEF m
    <3>3. op' \in [Client -> Op] /\ op'[p] = m /\ Alone(p)
      BY <1>0, <3>1, <3>2, Becomes
    <3>4. PhaseOf(p)' = PhaseOf(p)
      BY <2>1, <3>2, <3>3 DEF PhaseOf
    <3>. QED BY <1>0, <2>1, <3>2, <3>3, <3>4, Answers
  <2>. QED BY <2>2, <2>3
<1>5. ASSUME NEW p \in Client, CheckSlot(p)
      PROVE  [Abstract!Next]_(Abstract!vars)
  <2>1. op[p].pc = "check" /\ UNCHANGED slot /\ (Goto(p, "error") \/ Goto(p, "update"))
    BY <1>5 DEF CheckSlot
  <2>. QED BY <1>0, <2>1, GoesOn DEF PCs
<1>6. ASSUME NEW p \in Client, Finish(p)
      PROVE  [Abstract!Next]_(Abstract!vars)
  <2>1. op[p].pc = "applied" /\ UNCHANGED slot /\ (Goto(p, "ok") \/ Goto(p, "error"))
    BY <1>6 DEF Finish
  <2>. QED BY <1>0, <2>1, GoesOn DEF PCs
<1>7. ASSUME NEW p \in Client, Leave(p)
      PROVE  [Abstract!Next]_(Abstract!vars)
  <2>1. op[p].pc \in {"ok", "error"} /\ Become(p, Quiet) /\ UNCHANGED slot
    BY <1>7 DEF Leave
  <2>2. op' \in [Client -> Op] /\ op'[p] = Quiet /\ Alone(p)
    BY <1>0, <2>1, QuietShape, Becomes
  <2>3. Calling' = [Calling EXCEPT ![p] = Call(p)']
    BY <1>0, <2>2, OneCall
  <2>4. Call(p)' = Abstract!Quiet /\ Calling[p].phase \in {"ok", "error"} /\ Slot' = Slot
    BY <2>1, <2>2 DEF Call, Calling, PhaseOf, Quiet, Abstract!Quiet, Slot, Config
  <2>5. Abstract!Leave(p)
    BY <2>3, <2>4 DEF Abstract!Leave, Calling, Call, Slot, Config
  <2>. QED BY <2>5 DEF Abstract!Next
<1>8. ASSUME NEW p \in Client, FailedStatement(p)
      PROVE  [Abstract!Next]_(Abstract!vars)
  <2>1. op[p].pc \in {"read", "check", "update"} /\ UNCHANGED slot /\ Goto(p, "error")
    BY <1>8 DEF FailedStatement
  <2>. QED BY <1>0, <2>1, GoesOn DEF PCs
\* A local key call takes effect when its UPDATE finds the version it has seen.
<1>9. ASSUME NEW p \in Client, UpdateLocalKey(p)
      PROVE  [Abstract!Next]_(Abstract!vars)
  <2>1. op[p].pc = "update"
    BY <1>9 DEF UpdateLocalKey
  <2>2. CASE Goto(p, "error") /\ UNCHANGED slot
    BY <1>0, <2>1, <2>2, GoesOn DEF PCs
  <2>3. CASE Matches(p) /\ slot' = Written(p) /\ Goto(p, "applied")
    <3>1. /\ slot # NoSlot /\ op[p].seen = slot /\ op[p].call \in LocalKeyCalls \cup EditCalls
          /\ Abstract!Allowed(Config(slot), op[p].call)
      BY <1>0, <2>1, <2>3 DEF Matches, Versions, Shape
    <3>2. slot' \in Row /\ Config(Written(p)) = Abstract!Effect(Config(slot), op[p].call)
      BY <1>0, <2>3, <3>1, WrittenRow
    <3>3. /\ op' \in [Client -> Op] /\ Alone(p)
          /\ op'[p].pc = "applied" /\ op'[p].call = op[p].call
      BY <1>0, <2>3, Goes DEF PCs
    <3>4. PhaseOf(p) = "called" /\ PhaseOf(p)' = "applied"
      BY <2>1, <3>3 DEF PhaseOf
    <3>5. Config(slot)' = Config(Written(p))
      BY <2>3 DEF Config
    <3>. QED BY <1>0, <3>1, <3>2, <3>3, <3>4, <3>5, TakesEffect
  <2>. QED BY <1>9, <2>2, <2>3 DEF UpdateLocalKey
<1>10. ASSUME NEW p \in Client, UpdateInTransaction(p)
       PROVE  [Abstract!Next]_(Abstract!vars)
  <2>. DEFINE m == [op[p] EXCEPT !.pc = "confirm", !.pending = Written(p)]
  <2>1. op[p].pc = "update" /\ UNCHANGED slot
    BY <1>10 DEF UpdateInTransaction
  <2>2. CASE Goto(p, "error")
    BY <1>0, <2>1, <2>2, GoesOn DEF PCs
  <2>3. CASE Matches(p) /\ Become(p, m)
    <3>1. slot # NoSlot /\ op[p].seen = slot /\ op[p].call \in LocalKeyCalls \cup EditCalls
      BY <1>0, <2>1, <2>3 DEF Matches, Versions, Shape
    <3>2. Written(p) \in Row
      BY <1>0, <3>1, WrittenRow
    <3>3. m \in Op /\ m.pc = "confirm" /\ m.call = op[p].call
      BY <1>0, <3>2 DEF Op, PCs
    <3>. HIDE DEF m
    <3>4. op' \in [Client -> Op] /\ op'[p] = m /\ Alone(p)
      BY <1>0, <2>3, <3>3, Becomes
    <3>5. PhaseOf(p)' = PhaseOf(p)
      BY <2>1, <3>3, <3>4 DEF PhaseOf
    <3>. QED BY <1>0, <2>1, <3>3, <3>4, <3>5, Answers
  <2>. QED BY <1>10, <2>2, <2>3 DEF UpdateInTransaction
\* An edit in a transaction takes effect when it commits.
<1>11. ASSUME NEW p \in Client, Commit(p)
       PROVE  [Abstract!Next]_(Abstract!vars)
  <2>. DEFINE m == [op[p] EXCEPT !.pc = "applied", !.pending = NoSlot]
              n == [op[p] EXCEPT !.pc = "error", !.pending = NoSlot]
  <2>1. /\ op[p].pc = "confirm"
        /\ \/ slot' = op[p].pending /\ Become(p, m)
           \/ UNCHANGED slot /\ Become(p, n)
    BY <1>11 DEF Commit
  <2>2. /\ m \in Op /\ m.pc = "applied" /\ m.call = op[p].call
        /\ n \in Op /\ n.pc = "error" /\ n.call = op[p].call
    BY <1>0 DEF Op, PCs
  <2>. HIDE DEF m, n
  <2>3. CASE slot' = op[p].pending /\ Become(p, m)
    <3>1. op' \in [Client -> Op] /\ op'[p] = m /\ Alone(p)
      BY <1>0, <2>2, <2>3, Becomes
    <3>2. op[p].seen = slot
      BY <1>0, <2>1 DEF OneWriter, CommitsOverWhatItSaw
    <3>3. /\ slot # NoSlot /\ op[p].pending # NoSlot
          /\ Abstract!Allowed(Config(slot), op[p].call)
          /\ Config(op[p].pending) = Abstract!Effect(Config(slot), op[p].call)
      BY <1>0, <2>1, <3>2 DEF Shape
    <3>4. slot' \in Row
      BY <1>0, <2>3, <3>3 DEF Op
    <3>5. Config(slot)' = Config(op[p].pending)
      BY <2>3 DEF Config
    <3>6. PhaseOf(p) = "called" /\ PhaseOf(p)' = "applied"
      BY <2>1, <2>2, <3>1 DEF PhaseOf
    <3>. QED BY <1>0, <2>2, <3>1, <3>3, <3>4, <3>5, <3>6, TakesEffect
  <2>4. CASE UNCHANGED slot /\ Become(p, n)
    <3>1. op' \in [Client -> Op] /\ op'[p] = n /\ Alone(p)
      BY <1>0, <2>2, <2>4, Becomes
    <3>2. PhaseOf(p) = "called" /\ PhaseOf(p)' = "error"
      BY <2>1, <2>2, <3>1 DEF PhaseOf
    <3>. QED BY <1>0, <2>2, <2>4, <3>1, <3>2, Answers
  <2>. QED BY <2>1, <2>3, <2>4
<1>12. CASE CreateHSMSlot
  <2>1. slot = NoSlot /\ op' = op /\ nextVersion \in Nat
    BY <1>0, <1>12 DEF CreateHSMSlot, TypeOK
  <2>2. slot' \in Row
    BY <1>12, <2>1 DEF CreateHSMSlot, Row
  <2>3. Slot = NoSlot /\ Slot' \in Abstract!Object \cup {NoSlot} /\ Calling' = Calling
    BY <2>1, <2>2, NoConfig DEF Slot, Calling, Call, PhaseOf, Config
  <2>4. Abstract!Replace
    BY <2>3 DEF Abstract!Replace, Slot, Calling, Call, Config
  <2>. QED BY <2>4 DEF Abstract!Next
<1>13. CASE DeleteHSMSlot
  <2>1. slot' = NoSlot /\ op' = op
    BY <1>13 DEF DeleteHSMSlot
  <2>2. Slot' = NoSlot /\ Calling' = Calling
    BY <2>1 DEF Slot, Calling, Call, PhaseOf
  <2>3. Abstract!Replace
    BY <2>2 DEF Abstract!Replace, Slot, Calling, Call, Config
  <2>. QED BY <2>3 DEF Abstract!Next
<1>14. CASE Crash
  <2>1. UNCHANGED slot /\ op' = [p \in Client |-> Quiet]
    BY <1>14 DEF Crash
  <2>2. Slot' = Slot /\ Calling' = [p \in Client |-> Abstract!Quiet]
    BY <2>1 DEF Slot, Calling, Call, PhaseOf, Quiet, Abstract!Quiet, Config
  <2>3. Abstract!Crash
    BY <2>2 DEF Abstract!Crash, Slot, Calling, Call, Config
  <2>. QED BY <2>3 DEF Abstract!Next
<1>. QED
  BY <1>1, <1>2, <1>3, <1>4, <1>5, <1>6, <1>7, <1>8, <1>9, <1>10, <1>11, <1>12, <1>13, <1>14
  DEF Next, Step, Terminated

-----------------------------------------------------------------------------
(***************************************************************************)
(* The theorems.                                                           *)
(***************************************************************************)

\* The invariant the others follow from: what each handler has at each place of its
\* call, that versions are fresh, and that one transaction at a time has the row.
THEOREM Invariance == Spec => []IInv
<1>. QED BY InitIInv, NextIInv, PTL DEF Spec

\* The row, the local states of the handlers and the counters have their types.
THEOREM TypeCorrect == Spec => []TypeOK
<1>1. IInv => TypeOK
  BY DEF IInv
<1>. QED BY <1>1, Invariance, PTL

\* An UPDATE that finds the version its caller has read finds the row its caller has
\* read, even after the slot was deleted and created again.
THEOREM VersionsIdentify == Spec => []VersionNamesOneState
<1>1. IInv => VersionNamesOneState
  BY DEF IInv, Versions, Shape, Matches, VersionNamesOneState
<1>. QED BY <1>1, Invariance, PTL

\* EditPin and EditConfig commit over the row that their UPDATE found.
THEOREM CommitsOverSeen == Spec => []CommitsOverWhatItSaw
<1>1. IInv => CommitsOverWhatItSaw
  BY DEF IInv, OneWriter
<1>. QED BY <1>1, Invariance, PTL

\* Imports, removals and edits of one slot are linearizable: SlotConfig implements
\* SlotObject, with the effect of a call at its UPDATE or at its COMMIT.
THEOREM Refinement == Spec => IsSlotObject
<1>. QED BY InitRefines, NextRefines, Invariance, PTL DEF Spec, IsSlotObject, Abstract!Spec
=============================================================================
