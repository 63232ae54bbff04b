----------------------------- MODULE DbMigrator -----------------------------
(***************************************************************************)
(* The migrator of the database schema.  A run of the upgrade command      *)
(* reads the version mark of the database, plans the steps to its target   *)
(* and takes them one by one: it marks the step's version dirty, executes  *)
(* the script, and marks the version clean.  The mutex of the migrator     *)
(* belongs to one process: two processes may migrate one database at the   *)
(* same time, and each step of a run may fail or be its last.              *)
(***************************************************************************)
EXTENDS Naturals, Sequences

CONSTANTS
    Process,        \* processes that run the upgrade command
    Binary,         \* the numbers of steps of the binaries in use
    Target,         \* versions a caller of MigrateFromFiles may ask for
    MaxRuns,        \* bound: runs started in a behaviour
    MaxFaults       \* bound: failed calls and crashes

Latest == 3

ASSUME BinaryAssumption == Binary \subseteq 1..Latest
ASSUME TargetAssumption == Target \subseteq 0..Latest
ASSUME BoundAssumption == MaxRuns \in Nat /\ MaxFaults \in Nat

VARIABLES
    schema,         \* the tables and columns of the database
    mark,           \* the row of the migrations table
    op,             \* the local state of each process
    runs,           \* runs started so far
    faults,         \* faults so far
    overlapped      \* history: two runs have been active at the same time

vars == <<schema, mark, op, runs, faults, overlapped>>

-----------------------------------------------------------------------------
(* The scripts.  A statement succeeds when what it needs is there and what it
   forbids is not.  A table stands for its columns; only those that a later
   step changes have an element of their own. *)

Tables == {"cfg_admin", "cfg_application", "cfg_user", "cfg_account", "cfg_hardware_security_module",
           "cfg_hardware_security_module_slot", "system_referential_integrity_entry"}

Slot == "cfg_hardware_security_module_slot"
Table(t) == <<t, "table">>
Configuration == <<Slot, "configuration">>
PinNotNull == <<Slot, "pin NOT NULL">>
SlotNotNull == <<Slot, "slot NOT NULL">>
ChainId == <<"cfg_application", "chain_id">>
DefaultChainId == <<"cfg_application", "default_chain_id">>

Elements == {Table(t) : t \in Tables} \cup {Configuration, PinNotNull, SlotNotNull, ChainId, DefaultChainId}
ColumnsOf(t) == {e \in Elements : e[1] = t} \ {Table(t)}

Statement(needs, forbids, adds, drops) == [needs |-> needs, forbids |-> forbids, adds |-> adds, drops |-> drops]
CreateTable(t, columns) == Statement({}, {Table(t)}, {Table(t)} \cup columns, {})
DropTableIfExists(t) == Statement({}, {}, {}, {Table(t)} \cup ColumnsOf(t))
AddColumn(c) == Statement({Table(c[1])}, {c}, {c}, {})
DropColumn(c) == Statement({c}, {}, {}, {c})
SetNotNull(c) == Statement({Table(c[1])}, {}, {c}, {})
DropNotNull(c) == Statement({Table(c[1])}, {}, {}, {c})
RenameColumn(c, d) == Statement({c}, {d}, {d}, {c})

Up == <<
    << CreateTable("cfg_admin", {}), CreateTable("cfg_application", {ChainId}), CreateTable("cfg_user", {}),
       CreateTable("cfg_account", {}), CreateTable("cfg_hardware_security_module", {}),
       CreateTable(Slot, {PinNotNull, SlotNotNull}), CreateTable("system_referential_integrity_entry", {}) >>,
    << AddColumn(Configuration), DropNotNull(PinNotNull), DropNotNull(SlotNotNull) >>,
    << RenameColumn(ChainId, DefaultChainId) >> >>

\* The first script names five tables in the plural: of those there are none to drop.
Down == <<
    << DropTableIfExists(Slot), DropTableIfExists("system_referential_integrity_entry") >>,
    << DropColumn(Configuration), SetNotNull(PinNotNull), SetNotNull(SlotNotNull) >>,
    << RenameColumn(DefaultChainId, ChainId) >> >>

Executable(s) == s.needs \subseteq schema /\ s.forbids \cap schema = {}

-----------------------------------------------------------------------------
Ended == {"idle", "ok", "error", "panic"}
Active == {"read", "dirty", "execute", "clean", "next"}

\* version is that of the step being taken, from the version the step starts at.
Op == [pc : Ended \cup Active, binary : 0..Latest, target : 0..Latest, asked : BOOLEAN,
       from : 0..Latest, version : 0..Latest, statement : Nat]

Quiet == [pc |-> "idle", binary |-> 0, target |-> 0, asked |-> FALSE, from |-> 0, version |-> 0, statement |-> 1]

Init ==
    /\ schema = {}
    /\ mark = [version |-> 0, dirty |-> FALSE]
    /\ op = [p \in Process |-> Quiet]
    /\ runs = 0
    /\ faults = 0
    /\ overlapped = FALSE

Become(p, local) == op' = [op EXCEPT ![p] = local]
Goto(p, pc) == Become(p, [op[p] EXCEPT !.pc = pc])
Others(p) == Process \ {p}

\* The upgrade command asks for no version and gets the last step of its
\* binary.  A run with a version of its own is given the database for itself:
\* that is a bound of the model, no code sees to it.
Start(p) ==
    /\ op[p].pc \in Ended
    /\ runs < MaxRuns
    /\ \A q \in Others(p) : op[q].pc \in Active => ~op[q].asked
    /\ \E b \in Binary, t \in 0..Latest :
         \/ t = b /\ Become(p, [Quiet EXCEPT !.pc = "read", !.binary = b, !.target = t])
         \/ /\ t \in Target
            /\ \A q \in Others(p) : op[q].pc \notin Active
            /\ Become(p, [Quiet EXCEPT !.pc = "read", !.binary = b, !.target = t, !.asked = TRUE])
    /\ overlapped' = (overlapped \/ \E q \in Others(p) : op[q].pc \in Active)
    /\ runs' = runs + 1
    /\ UNCHANGED <<schema, mark, faults>>

\* Mutant: every step goes up.
StepUpFrom(p, v) ==
    Become(p, [op[p] EXCEPT !.pc = "dirty", !.from = v, !.statement = 1, !.version = v + 1])

\* The step after the one that has led to version v.
StepFrom(p, v) ==
    Become(p, [op[p] EXCEPT !.pc = "dirty", !.from = v, !.statement = 1,
                            !.version = IF v < op[p].target THEN v + 1 ELSE v - 1])

\* Mutant: the dirty mark is only logged.
RefusedUnlessDirty(p) == op[p].target # mark.version /\ op[p].target > op[p].binary

Refused(p) == mark.dirty \/ (op[p].target # mark.version /\ op[p].target > op[p].binary)

\* Mutant: an older binary that has the scripts to go back.
InRange(p) == FALSE

\* The steps down from a version that the binary does not have are looked up
\* in its list all the same.
OutOfRange(p) == op[p].target < mark.version /\ mark.version > op[p].binary

ReadVersion(p) ==
    /\ op[p].pc = "read"
    /\ \/ Refused(p) /\ Goto(p, "error")
       \/ ~Refused(p) /\ OutOfRange(p) /\ Goto(p, "panic")
       \/ ~Refused(p) /\ ~OutOfRange(p) /\ op[p].target = mark.version /\ Goto(p, "ok")
       \/ ~Refused(p) /\ ~OutOfRange(p) /\ op[p].target # mark.version /\ StepFrom(p, mark.version)
    /\ UNCHANGED <<schema, mark, runs, faults, overlapped>>

SetMigrationVersion(p, dirty) == mark' = [version |-> op[p].version, dirty |-> dirty]

\* Mutant: the version the step comes from is marked dirty.
MarkFromDirty(p) ==
    /\ op[p].pc = "dirty"
    /\ mark' = [version |-> op[p].from, dirty |-> TRUE]
    /\ Goto(p, "execute")
    /\ UNCHANGED <<schema, runs, faults, overlapped>>

MarkDirty(p) ==
    /\ op[p].pc = "dirty"
    /\ SetMigrationVersion(p, TRUE)
    /\ Goto(p, "execute")
    /\ UNCHANGED <<schema, runs, faults, overlapped>>

Script(p) == IF op[p].from < op[p].version THEN Up[op[p].version] ELSE Down[op[p].from]

\* RunMigration: the statements are executed one after the other, and those
\* before one that fails remain executed.
RunStatement(p) ==
    /\ op[p].pc = "execute"
    /\ LET s == Script(p)[op[p].statement] IN
         \/ /\ Executable(s)
            /\ schema' = (schema \ s.drops) \cup s.adds
            /\ Become(p, [op[p] EXCEPT !.statement = @ + 1,
                            !.pc = IF op[p].statement = Len(Script(p)) THEN "clean" ELSE "execute"])
         \/ ~Executable(s) /\ Goto(p, "error") /\ UNCHANGED schema
    /\ UNCHANGED <<mark, runs, faults, overlapped>>

MarkClean(p) ==
    /\ op[p].pc = "clean"
    /\ SetMigrationVersion(p, FALSE)
    /\ Goto(p, "next")
    /\ UNCHANGED <<schema, runs, faults, overlapped>>

\* Mutant: the next step is looked up from the version the run began with.
NextStepFromStart(p) ==
    /\ op[p].pc = "next"
    /\ IF op[p].version = op[p].target THEN Goto(p, "ok") ELSE StepFrom(p, op[p].from)
    /\ UNCHANGED <<schema, mark, runs, faults, overlapped>>

\* Mutant: the run ends well after its first step.
NextStepIsLast(p) == op[p].pc = "next" /\ Goto(p, "ok") /\ UNCHANGED <<schema, mark, runs, faults, overlapped>>

NextStep(p) ==
    /\ op[p].pc = "next"
    /\ IF op[p].version = op[p].target THEN Goto(p, "ok") ELSE StepFrom(p, op[p].version)
    /\ UNCHANGED <<schema, mark, runs, faults, overlapped>>

\* A call fails, which the command turns into a panic, or the process dies.
Fails(p) ==
    /\ op[p].pc \in Active
    /\ faults < MaxFaults
    /\ faults' = faults + 1
    /\ Goto(p, "error")
    /\ UNCHANGED <<schema, mark, runs, overlapped>>

Proceed(p) == ReadVersion(p) \/ MarkDirty(p) \/ RunStatement(p) \/ MarkClean(p) \/ NextStep(p)

\* The runs of the bound have been made.
Terminated ==
    /\ runs = MaxRuns /\ \A p \in Process : op[p].pc \in Ended
    /\ UNCHANGED vars

Next ==
    \/ \E p \in Process : Start(p) \/ Proceed(p) \/ Fails(p)
    \/ Terminated

Spec == Init /\ [][Next]_vars

\* A run goes on until it ends.
FairSpec == Spec /\ \A p \in Process : WF_vars(Proceed(p))

-----------------------------------------------------------------------------
(* What the binary of each version works on, whatever the scripts do. *)

Expected(v) ==
    IF v = 0 THEN {}
    ELSE {Table(t) : t \in Tables}
           \cup (IF v = 1 THEN {PinNotNull, SlotNotNull} ELSE {Configuration})
           \cup (IF v = 3 THEN {DefaultChainId} ELSE {ChainId})

\* The schemas a script goes through from Expected(v).
Executing(script, v) ==
    LET after[k \in 0..Len(script)] ==
          IF k = 0 THEN Expected(v) ELSE (after[k - 1] \ script[k].drops) \cup script[k].adds
    IN {after[k] : k \in 0..Len(script)}

\* Version v has been reached and not been left.
AtLeast(v) == \E w \in v..Latest : schema \in (IF w = Latest THEN {Expected(w)} ELSE Executing(Up[w + 1], w))

TypeOK ==
    /\ schema \subseteq Elements
    /\ mark \in [version : 0..Latest, dirty : BOOLEAN]
    /\ op \in [Process -> Op]
    /\ \A p \in Process : op[p].pc = "execute" => op[p].statement \in 1..Len(Script(p))
    /\ runs \in Nat /\ faults \in Nat /\ overlapped \in BOOLEAN

(* A version marked clean (migrateStep, dbmigrator.go:239) names the schema the
   database has, whatever was interrupted and however many processes migrate
   at the same time: a second run of a script fails at its first statement. *)
CleanMarkNamesSchema == ~mark.dirty => schema = Expected(mark.version)

(* A dirty mark tells an operator where a migration stopped: the schema is on
   the way to the marked version, from the version before or after it.  Two
   runs at the same time take that away, so it is said of runs one by one. *)
DirtyMarkLocatesSchema ==
    mark.dirty /\ ~overlapped =>
        \/ mark.version > 0 /\ schema \in Executing(Up[mark.version], mark.version - 1)
        \/ mark.version < Latest /\ schema \in Executing(Down[mark.version + 1], mark.version + 1)

(* The upgrade command answers well only over a schema that has come as far as
   its binary asks for (Migrate, dbmigrator.go:190). *)
OkMeansUpgraded ==
    [][\A p \in Process : op'[p].pc = "ok" /\ op[p].pc # "ok" /\ ~op[p].asked => AtLeast(op[p].target)']_vars

(* No run of the upgrade command takes the schema back, not even that of a
   binary older than the database (mapMigrationsDown, dbmigrator.go:285). *)
UpgradesNeverDowngrade ==
    [][\A v \in 1..Latest : AtLeast(v) /\ ~AtLeast(v)' => \E p \in Process : op[p].asked]_vars

(* A run that meets a clean mark and no other run, and whose calls succeed,
   reaches its target: the scripts fit one another (Migrate, dbmigrator.go:144). *)
UndisturbedRunsSucceed ==
    \A p \in Process :
        /\ op[p].pc = "read" /\ ~mark.dirty
        /\ op[p].binary >= mark.version
        /\ op[p].binary >= op[p].target
        /\ \A q \in Others(p) : op[q].pc \notin Active
        ~> \/ op[p].pc = "ok"
           \/ op[p].pc = "error" /\ faults > 0
           \/ \E q \in Others(p) : op[q].pc \in Active
=============================================================================
