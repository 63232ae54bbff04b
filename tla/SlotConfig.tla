----------------------------- MODULE SlotConfig -----------------------------
(***************************************************************************)
(* Concurrent edits of the row of one HSM slot.  The keys of a local key   *)
(* vault live in the configuration column: AddLocalKey and RemoveLocalKey  *)
(* read the row, change the key store they have read and write all of it   *)
(* back, without a transaction.  EditPin and EditConfig write one column   *)
(* in a transaction, for a resource version that the client has read.      *)
(* Every UPDATE names the version it is meant for and sets a fresh one.    *)
(***************************************************************************)
EXTENDS Naturals

CONSTANTS
    Client,         \* request handlers
    Address,        \* addresses of keys
    Pin,            \* pins
    ModuleKind,     \* the kinds of modules a slot may be created in
    NoSlot,         \* the value of a row that does not exist
    NoCall,         \* no call in progress
    MaxCalls,       \* bound: calls served in a behaviour
    MaxFaults       \* bound: failed statements, lost answers and crashes

ASSUME KindAssumption == ModuleKind \subseteq {"SoftHSM", "AKV", "LKV"}
ASSUME BoundAssumption == MaxCalls \in Nat /\ MaxFaults \in Nat
ASSUME NoSlotAssumption ==
    /\ NoSlot \notin [version : Nat, kind : ModuleKind, keys : SUBSET Address, pin : Pin]
    /\ NoSlot \notin [kind : ModuleKind, keys : SUBSET Address, pin : Pin]

VARIABLES
    slot,           \* the committed row, or NoSlot
    nextVersion,    \* the next fresh resource version
    op,             \* the local state of each handler
    calls,          \* calls started so far
    faults          \* faults so far

vars == <<slot, nextVersion, op, calls, faults>>

\* The kind is that of the slot's module, which is not edited.
Row == [version : Nat, kind : ModuleKind, keys : SUBSET Address, pin : Pin]

LocalKeyCalls == [name : {"add", "remove"}, key : Address]
EditCalls == [name : {"pin"}, pin : Pin] \cup [name : {"config"}, keys : SUBSET Address]

PCs == {"idle", "read", "check", "update", "confirm", "applied", "ok", "error"}

\* seen is the row the caller decided on; pending the row an open transaction has
\* written and not committed.
Op == [pc : PCs, call : LocalKeyCalls \cup EditCalls \cup {NoCall},
       seen : Row \cup {NoSlot}, pending : Row \cup {NoSlot}]

Quiet == [pc |-> "idle", call |-> NoCall, seen |-> NoSlot, pending |-> NoSlot]

Init ==
    /\ slot \in {NoSlot} \cup [version : {0}, kind : ModuleKind, keys : {{}}, pin : Pin]
    /\ nextVersion = 1
    /\ op = [p \in Client |-> Quiet]
    /\ calls = 0
    /\ faults = 0

Become(p, local) == op' = [op EXCEPT ![p] = local]
Goto(p, pc) == Become(p, [op[p] EXCEPT !.pc = pc])

NoFault == UNCHANGED faults
FaultHappens == faults < MaxFaults /\ faults' = faults + 1

\* The row is locked by a transaction that has updated it.
RowLocked == \E q \in Client : op[q].pc = "confirm"

-----------------------------------------------------------------------------
Begin(p, local) ==
    /\ op[p].pc = "idle"
    /\ calls < MaxCalls
    /\ calls' = calls + 1
    /\ Become(p, local)
    /\ UNCHANGED <<slot, nextVersion, faults>>

\* eth_importKey and eth_removeAccount on a slot of a local key vault.
BeginLocalKeyCall(p) ==
    \E c \in LocalKeyCalls : Begin(p, [Quiet EXCEPT !.pc = "read", !.call = c])

\* A client has read the slot, at some earlier time, and sends the version it saw.
BeginEdit(p) ==
    /\ slot # NoSlot
    /\ \E c \in EditCalls : Begin(p, [Quiet EXCEPT !.pc = "check", !.call = c, !.seen = slot])

\* GetHSMSlot and the checks of AddLocalKey and RemoveLocalKey.
ReadSlot(p) ==
    /\ op[p].pc = "read"
    /\ \/ /\ slot # NoSlot => slot.kind # "LKV"
          /\ Goto(p, "error")
       \/ /\ slot # NoSlot /\ slot.kind = "LKV"
          /\ (op[p].call.name = "add") <=> (op[p].call.key \in slot.keys)
          /\ Goto(p, "error")
       \/ /\ slot # NoSlot /\ slot.kind = "LKV"
          /\ (op[p].call.name = "add") <=> (op[p].call.key \notin slot.keys)
          /\ Become(p, [op[p] EXCEPT !.pc = "update", !.seen = slot])
    /\ UNCHANGED <<slot, nextVersion, calls, faults>>

\* The checks of EditPin, which the module may refuse, and of EditConfig.
CheckSlot(p) ==
    /\ op[p].pc = "check"
    /\ \/ slot = NoSlot /\ Goto(p, "error")
       \/ slot # NoSlot /\ slot.kind # op[p].seen.kind /\ Goto(p, "error")
       \/ slot # NoSlot /\ op[p].call.name = "config" /\ slot.kind # "AKV" /\ Goto(p, "error")
       \/ op[p].call.name = "pin" /\ Goto(p, "error")
       \/ /\ slot # NoSlot
          /\ slot.kind = op[p].seen.kind
          /\ op[p].call.name = "config" => slot.kind = "AKV"
          /\ Goto(p, "update")
    /\ UNCHANGED <<slot, nextVersion, calls, faults>>

\* Mutant: the UPDATE of the pin leaves the version as it is.
WrittenKeepingPinVersion(p) ==
    LET c == op[p].call  row == [slot EXCEPT !.version = nextVersion]
    IN CASE c.name = "add"    -> [row EXCEPT !.keys = op[p].seen.keys \cup {c.key}]
         [] c.name = "remove" -> [row EXCEPT !.keys = op[p].seen.keys \ {c.key}]
         [] c.name = "pin"    -> [slot EXCEPT !.pin = c.pin]
         [] c.name = "config" -> [row EXCEPT !.keys = c.keys]

\* What the UPDATE of a call writes: its column, computed from the row it has
\* seen, and a fresh version.
Written(p) ==
    LET c == op[p].call  row == [slot EXCEPT !.version = nextVersion]
    IN CASE c.name = "add"    -> [row EXCEPT !.keys = op[p].seen.keys \cup {c.key}]
         [] c.name = "remove" -> [row EXCEPT !.keys = op[p].seen.keys \ {c.key}]
         [] c.name = "pin"    -> [row EXCEPT !.pin = c.pin]
         [] c.name = "config" -> [row EXCEPT !.keys = c.keys]

\* Mutant: an UPDATE by id only.
MatchesAnyVersion(p) == slot # NoSlot

\* The WHERE clause of the UPDATE.
Matches(p) == slot # NoSlot /\ slot.version = op[p].seen.version

\* UPDATE of a local key, committed when it ends.  It waits for the row.
UpdateLocalKey(p) ==
    /\ op[p].pc = "update"
    /\ op[p].call.name \in {"add", "remove"}
    /\ ~RowLocked
    /\ \/ ~Matches(p) /\ Goto(p, "error") /\ UNCHANGED <<slot, nextVersion>>
       \/ /\ Matches(p)
          /\ slot' = Written(p)
          /\ nextVersion' = nextVersion + 1
          /\ Goto(p, "applied")
    /\ UNCHANGED <<calls, faults>>

\* UPDATE in the transaction of EditPin or EditConfig: others see it at commit.
UpdateInTransaction(p) ==
    /\ op[p].pc = "update"
    /\ op[p].call.name \in {"pin", "config"}
    /\ ~RowLocked
    /\ \/ ~Matches(p) /\ Goto(p, "error") /\ UNCHANGED nextVersion
       \/ /\ Matches(p)
          /\ nextVersion' = nextVersion + 1
          /\ Become(p, [op[p] EXCEPT !.pc = "confirm", !.pending = Written(p)])
    /\ UNCHANGED <<slot, calls, faults>>

\* Mutant: the error of the read after the UPDATE does not end the transaction.
CommitAfterFailure(p) ==
    /\ op[p].pc = "confirm"
    /\ slot' = op[p].pending
    /\ \/ Become(p, [op[p] EXCEPT !.pc = "applied", !.pending = NoSlot]) /\ NoFault
       \/ Become(p, [op[p] EXCEPT !.pc = "error", !.pending = NoSlot]) /\ FaultHappens
    /\ UNCHANGED <<nextVersion, calls>>

\* The row is read back and the transaction committed; either may fail.
Commit(p) ==
    /\ op[p].pc = "confirm"
    /\ \/ /\ slot' = op[p].pending
          /\ Become(p, [op[p] EXCEPT !.pc = "applied", !.pending = NoSlot])
          /\ NoFault
       \/ /\ Become(p, [op[p] EXCEPT !.pc = "error", !.pending = NoSlot])
          /\ FaultHappens
          /\ UNCHANGED slot
    /\ UNCHANGED <<nextVersion, calls>>

\* A local key call reads the row back: it may be gone, and the read may fail.  The
\* answer to the commit of an edit may be lost.
Finish(p) ==
    /\ op[p].pc = "applied"
    /\ \/ Goto(p, "ok") /\ NoFault /\ (op[p].call.name \in {"add", "remove"} => slot # NoSlot)
       \/ Goto(p, "error") /\ NoFault /\ op[p].call.name \in {"add", "remove"} /\ slot = NoSlot
       \/ Goto(p, "error") /\ FaultHappens
    /\ UNCHANGED <<slot, nextVersion, calls>>

Leave(p) ==
    /\ op[p].pc \in {"ok", "error"}
    /\ Become(p, Quiet)
    /\ UNCHANGED <<slot, nextVersion, calls, faults>>

\* A statement before the UPDATE fails.
FailedStatement(p) ==
    /\ op[p].pc \in {"read", "check", "update"}
    /\ Goto(p, "error")
    /\ FaultHappens
    /\ UNCHANGED <<slot, nextVersion, calls>>

\* Mutant: the pin of the request is not stored.
CreateHSMSlotWithoutPin ==
    /\ slot = NoSlot
    /\ calls < MaxCalls
    /\ calls' = calls + 1
    /\ \E k \in ModuleKind : slot' = [version |-> nextVersion, kind |-> k, keys |-> {}]
    /\ nextVersion' = nextVersion + 1
    /\ UNCHANGED <<op, faults>>

\* A slot is created, with the keys of the request when its module is an AKV.
CreateHSMSlot ==
    /\ slot = NoSlot
    /\ calls < MaxCalls
    /\ calls' = calls + 1
    /\ \E x \in Pin, k \in ModuleKind, S \in SUBSET Address :
          /\ k # "AKV" => S = {}
          /\ slot' = [version |-> nextVersion, kind |-> k, keys |-> S, pin |-> x]
    /\ nextVersion' = nextVersion + 1
    /\ UNCHANGED <<op, faults>>

DeleteHSMSlot ==
    /\ slot # NoSlot
    /\ ~RowLocked
    /\ calls < MaxCalls
    /\ calls' = calls + 1
    /\ slot' = NoSlot
    /\ UNCHANGED <<nextVersion, op, faults>>

\* The process dies: an open transaction is rolled back.
Crash ==
    /\ FaultHappens
    /\ op' = [p \in Client |-> Quiet]
    /\ UNCHANGED <<slot, nextVersion, calls>>

Step(p) ==
    \/ ReadSlot(p) \/ CheckSlot(p) \/ UpdateLocalKey(p) \/ UpdateInTransaction(p)
    \/ Commit(p) \/ Finish(p) \/ Leave(p) \/ FailedStatement(p)

\* Every call answered: the bounded model stops here.
Terminated ==
    /\ calls = MaxCalls
    /\ \A p \in Client : op[p].pc = "idle"
    /\ UNCHANGED vars

Next ==
    \/ \E p \in Client : BeginLocalKeyCall(p) \/ BeginEdit(p) \/ Step(p)
    \/ CreateHSMSlot \/ DeleteHSMSlot
    \/ Crash
    \/ Terminated

Spec == Init /\ [][Next]_vars
-----------------------------------------------------------------------------
(***************************************************************************)
(* Properties.                                                             *)
(***************************************************************************)

\* The row, the local states and the counters have their types.
TypeOK ==
    /\ slot \in Row \cup {NoSlot}
    /\ nextVersion \in Nat
    /\ op \in [Client -> Op]
    /\ calls \in 0..MaxCalls
    /\ faults \in 0..MaxFaults

\* The resource version an UPDATE compares stands for the whole row: if it is the
\* one the caller has seen, nothing of the row has changed since, not even by way
\* of a deletion and a new creation of the slot.
VersionNamesOneState ==
    \A p \in Client : op[p].pc = "update" /\ Matches(p) => op[p].seen = slot

\* An edit in a transaction commits over the row it has updated, and there is one.
CommitsOverWhatItSaw ==
    \A p \in Client : op[p].pc = "confirm" => slot = op[p].seen

PhaseOf(p) ==
    CASE op[p].pc = "idle" -> "none"
      [] op[p].pc \in {"read", "check", "update", "confirm"} -> "called"
      [] OTHER -> op[p].pc

Abstract == INSTANCE SlotObject WITH
    object <- IF slot = NoSlot THEN NoSlot ELSE [kind |-> slot.kind, keys |-> slot.keys, pin |-> slot.pin],
    client <- [p \in Client |-> [call |-> op[p].call, phase |-> PhaseOf(p)]]

\* Every edit takes effect at one instant or not at all: no imported key is lost
\* to another import, to a removal or to a new pin, whatever the interleaving, and
\* ok is answered only for edits that were made.
IsSlotObject == Abstract!Spec
=============================================================================
