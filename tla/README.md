# The signare in TLA+

The signare signs Ethereum transactions on behalf of the users of several
applications, with keys that stay in hardware security modules (HSMs). This
directory holds TLA+ models of the parts of it where the order of steps decides
whether the result is right, the TLC configurations that check them on small
instances, and proofs, checked by TLAPS, that the most important properties hold
for every value of the constants. Paths below are relative to `src/app/pkg`.

## 1. The system

### Components

| Component | Code | State it keeps | Operations |
|---|---|---|---|
| Applications, users, accounts | `usecases/application`, `usecases/user` | rows `cfg_application`, `cfg_user`, `cfg_account` | create, edit, delete; enable, disable accounts; `eth_removeAccount` |
| HSM modules and slots | `usecases/hsmmodule`, `usecases/hsmslot` | rows of two tables; a slot holds pin, configuration, a resource version and, for a local key vault, its keys | create, edit, delete, edit pin, edit configuration, import and remove local keys |
| Referential integrity | `usecases/referentialintegrity` | table `system_referential_integrity_entry` (child id, parent id) | create an entry, list the entries of children, delete own entries |
| Transactional manager | `usecases/transactionalmanager`, `commons/persistence/sql` | one SQL transaction and a list of callbacks per request, in the context; a pool of connections | execute in a transaction (nested), register a callback, begin, commit, roll back |
| HSM connector, signature manager factory | `usecases/hsmconnector` | map from module kind to signature manager | open, reset, close; generate, remove, list, sign |
| PKCS#11 signature manager | `signaturemanager/pkcs11hsm` | a mutex; the library and the token behind it | generate, remove and list keys, sign, is-alive, open, close |
| Local key vault and Azure signature managers | `signaturemanager/localkeyvault`, `signaturemanager/akv` | none | sign, derive an address |
| Authorization | `usecases/authorization`, `infra/middleware/authorization` | roles from a file | authorize a user for an action, and for an account |
| Administrators | `usecases/admin`, `graph/graph.go` | rows `cfg_admin` | create, edit, list, delete; appoint the first when a replica starts |
| HSM connection resolver | `usecases/hsmconnection` | none | find module and slot of an application |
| REST and JSON-RPC entry points | `infra/httpinfra`, `infra/rpcinfra`, `adapters/httpin`, `adapters/rpcin` | none | parse, authorize, call a use case, answer |
| Database migrator | `commons/persistence/dbmigrator` | version and dirty mark in a table | migrate up, or to a version that is asked for |
| Encodings | `commons/rlp`, `entities`, `usecases/eip712` | none | RLP, transaction types, typed data |

### How they interact

A request is a goroutine. Middleware authenticates and authorizes it, an adapter
calls one use case, use cases call each other and the storage adapters. There is
no shared memory between requests except the signature managers; they meet in the
database, in the token of an HSM and in the PKCS#11 library. The wiring
(`graph/wire_gen.go`) decides which use cases run inside a transaction: those of
HSM modules and HSM slots do, those of applications, users and accounts do not.
Dependencies between resources are not foreign keys: use cases write and consult
entries of their own, one SQL statement at a time.

### What is hard

* A creation (read parent, write entry, write row) and a deletion (read row, list
  children, delete entries, delete row) interleave, with and without transactions.
* A statement fails or a process dies between two of these steps.
* A panic inside a nested transactional call is recovered inside it.
* Statements of a transaction, and of a callback, compete for pooled connections.
* The keys of a local key vault are read, changed and written back as a whole.
* Keys live in the token, accounts in the database; one request changes both, one
  after the other, and `EnableAccounts` reads one and writes the other.
* The PKCS#11 library is closed and opened again while other requests use it.
* A call is authorized in statements of its own, and executed later; the calls of
  a batch follow each other in one request while others change what they rely on.
* Several replicas start over one table of administrators, and stop at any point.
* Migrations are executed statement by statement, possibly by two processes and
  binaries of different age, and each may be the last thing a process does.
* A transaction is encoded twice, to be hashed and to be sent; lengths and numbers
  change their encoding at limits; a backend may answer any signature.

What makes each component correct is listed in section 3 next to its model.

## 2. Modules

| Module | Content |
|---|---|
| `ResourceIntegrity` | resources, entries and the requests on them, a SQL statement per step |
| `MCResourceIntegrity` | its instances for TLC: a catalogue of resources |
| `ResourceIntegrityProofs` | its inductive invariant and four theorems |
| `SequentialIntegrityProofs` | two theorems about requests that come one at a time |
| `AtomicWork` | abstract: all of a request's writes become durable at one instant, or none |
| `TransactionalManager` | `ExecuteInTransaction`, the SQL framework and the decorators; implements `AtomicWork` |
| `TransactionalManagerProofs` | its invariant, three safety theorems and the refinement |
| `SlotObject` | abstract: every edit of a slot takes effect at one instant or not at all |
| `SlotConfig` | reads and versioned writes of a slot's row; implements `SlotObject` |
| `SlotConfigProofs` | its invariant, three safety theorems and the refinement |
| `SoftHSMKeys` | the PKCS#11 signature manager, its factory, and the accounts that use its keys |
| `SoftHSMKeysProofs` | its invariant, five safety theorems and an action property |
| `Administrators` | the table of administrators, the operations on it and replicas that start and stop |
| `MCAdministrators` | its instance |
| `AccessControl` | extends `Administrators`: batches, authorization, and what is executed for whom |
| `MCAccessControl` | its instance: the requests of two administrators and a user |
| `AccessControlProofs` | the invariant of both and five theorems |
| `DbMigrator` | processes that migrate one database, with the scripts of the repository |
| `DbMigratorProofs` | its invariant, three safety theorems and two action properties |
| `RLP` | the encoding of transactions, and a decoder |
| `TransactionSigning` | extends `RLP`: from a transaction or typed data to what is sent |
| `MCTransactionSigning` | its instance: transactions around the limits of the encoding |
| `TransactionSigningProofs` | its invariant, the lemmas about the encoding and four theorems |

`AccessControl` composes the entry points, the authorization and the operations of
`Administrators`: its handlers take the steps of that module (`Begin`, `HandlerStep`,
`Answer`) when a call has been authorized, and its replicas are those of that
module. `AdminSpec` lets any handler begin any operation and serves `ad_page`
alone; the other runs and the theorems about administrators are about `AccessControl`.

A definition with the comment "Mutant" is a faulty variant of the
definition that follows it. No specification uses it; replacing the definition by
it must break the property it is paired with, which shows that the property can
fail.

### ResourceIntegrity

`rows` maps the natural key of every resource to the internal id of its committed
row; `entries` is the table of dependencies; `req` is the local state of each
handler. The `pc` of a handler names the statement it makes next. A handler whose
use case is transactional keeps its writes in `links`, `cut` and `row` until
`Commit`; the others write `rows` and `entries` at once. A unique index and row
locks are the operators `Conflict`, `Locked` and `EntriesLocked`: the table of slots has
an index on the application and one on the module with the slot's number in it
(`SlotOf`; only the PostgreSQL schema has the second one, `up.sql:74`). Reads do not
wait, as in PostgreSQL's default isolation level. `Fault` is a statement that fails
or a handler that dies. The answers of an HSM (`Reset`, `IsAlive`, the list of its
keys) are either of yes and no.

### TransactionalManager

A request makes nested calls of `ExecuteInTransaction`. The body of a call is any
program: it issues statements, passes on or ignores their errors, registers
callbacks, calls again, panics. `BeginTransaction` takes a connection of the pool;
`Statement` runs on the connection found in the context; `Recover` is the deferred
function, which turns a panic into a failure in the outermost call only; `Unwrap`
is the type assertion of the decorators, which panics on an absent result.
PostgreSQL's behaviour after a failed statement (the transaction can only be rolled
back, and `COMMIT` rolls it back) is in `CommitTransaction`. The answer to a commit
may be lost.

### SlotConfig

`slot` is the committed row, with the kind of the module it belongs to. A handler
that imports or removes a local key reads the row (`ReadSlot`), and writes the
whole key store it computed (`UpdateLocalKey`) if the version is still the one it
saw (`Matches`). `EditPin` and `EditConfig` do the same for the version a client
has sent, in a transaction (`UpdateInTransaction`, `Commit`). The slot may be
deleted and created again at any time, with the same id, in a module of another
kind.

### SoftHSMKeys

`private` and `public` are the key objects of the token: absent, created under a
time stamp, or labelled with their address. `library` is whether the PKCS#11
library is initialized, `mutex` the lock of the signature manager, `session` who is
logged in. Every operation opens the library (`Create`), takes the mutex (`Lock`),
opens a session (`Login`), makes its calls one step at a time and runs its deferred
calls (`Unlock`); `CreateHSMSlot` resets the library first (`Close`, `Reopen`).
`accounts` are the rows of the account table; their entries are in
`ResourceIntegrity` and left out here. `CallFails` is a failed or panicking call;
`Crash` ends the process, which also stands for the runtime's reaction to the
unsynchronised map write in `Reset`.

### Administrators and AccessControl

`order` is the place of each administrator by its creation; `Listed` is the page of
the newest that `ListAdmins` answers. `handler` is the operation of a request on the
table, a statement per step, and `replica` is how far each replica has come in
`SetInitialSignerAdministrator`. A failed statement may have had its effect. `Host` is
the replica in whose process a handler runs: calls are taken up by one that is up, and
when it stops, at any time, they are gone (`Stop`, `Dies`, `Lost`). One that cannot have
its administrator goes down and is started again. Without a flag a replica draws an id
that is not in the table (`Own`, from `Anonymous`), another one at each start.
`overlapped` remembers that a deletion counted while another one had counted, `raced`
that a replica went to create while another one was about to.

`request` holds a batch, its answers so far and the place of the call at hand.
`AuthorizeUser` reads the roles and `AuthorizeAccount` the account, each in a step of
its own; the tables may change before the call is executed. `held` is history: what
the requester held at some instant since the call was taken up. The permissions are
those of `include/rbac/permissions.yaml` for the actions on administrators, users,
accounts and keys. The version check of `EditUser` may turn an edit down at any time.

### DbMigrator

`schema` is the set of tables and of the columns that later scripts change, `mark`
the version and the dirty flag. A run reads the mark (`ReadVersion`), and for each
step marks the version dirty, executes its script and marks it clean. The scripts
are lists of statements, each with what it needs, forbids, adds and drops, taken
from the six SQL files. They are executed one by one and are not undone, as the
comment of `RunMigration` in `postgres.go` says. A run fails, or its process dies,
at any step; nothing but the mark keeps a second process from running beside it.
A run for a version of its own (`MigrateFromFiles` with a target) has the database
for itself, which is a bound of the model: the command line never asks for one.

### RLP and TransactionSigning

Bytes are numbers below 256. A transaction is a record of its fields, each possibly
absent; `IdentifyTxType` tells its kind, `Hash` encodes what is signed and
`RLPEncode` what is sent. The payload stands for its hash. A signature over a
payload is accepted by the curve in two forms, `<<r, s>>` and `<<r, Order - s>>`
with the other recovery byte, and recovers nobody of interest over any other
payload; that is all the models say of elliptic curves (`RecoverCompact`). The
backend answers with any signature, of any key and any size. The reader of a
transaction (`SenderRecovers`, `SignedAsAsked`) decodes the bytes as EIP-155 and
EIP-1559 say, with no use of the functions that encoded them but `EncodeList`.

## 3. Runs

| Run | Expectation | Question |
|---|---|---|
| `ri_sequential` | pass | One request at a time, from an empty database, seven requests, one failure: is every dependency kept and recorded under the ids the parents have, and does no failure leave an entry of a slot that does not exist? |
| `ri_concurrent` | pass | Two handlers statement by statement, three requests, two failures, two applications and three slots: do transactions protect the entries of slots, do the two unique indexes keep out a second slot of an application and a second application of a place in a module, when can a row without a transaction lack its entry, and are requests that wait for each other's rows always answered? |
| `ri_orphan_entries` | violation | Can a user be removed once `eth_removeAccount` has taken its accounts? |
| `ri_write_skew` | violation | Can a dependency be broken by two requests? |
| `tm_requests` | pass | What do "ok" and a panic mean, does the manager implement `AtomicWork`, and do requests on one connection end? |
| `sc_edits` | pass | Does the resource version make edits of a slot atomic (`SlotObject`)? |
| `sh_keys` | pass | Are sessions exclusive, does a reset leave the library open, do removed keys never sign, does a removal that fails halfway hide no key, is every request answered? |
| `sh_enable_race` | violation | Can an account be created for an address with no key? |
| `ac_requests` | pass | Two replicas start, stop and serve: has everything executed been granted, are batches answered call by call, where do administrators come from, does the last one stay, is every request answered unless its process dies, and does a replica that may start come up? |
| `ad_page` | violation | Does a replica always start with an administrator that is in the table? |
| `mg_upgrades` | pass | Does a mark tell the schema, do upgrades reach their version and never go back, whatever is interrupted or runs at the same time? |
| `tx_signing` | pass | Does the network take a signed transaction for one of the account, on the chain and with the values asked for, and are only good signatures sent? |

The properties, by the hazard they watch:

* Dependencies: `DependenciesUnbroken`, `EntriesTrue`,
  `TransactionalRowsProtected`, `UnprotectedOnlyWhileDeleted`,
  `OneSlotPerApplication`.
* Atomicity of use cases: `OkMeansDurable`, `PanicNeverCommits`,
  `IsAtomicWork`.
* Slots: `VersionNamesOneState`, `CommitsOverWhatItSaw`, `IsSlotObject`. No
  imported key is lost to another import, to a removal or to a new pin.
* Keys: `SessionsExclusive`, `ClosedOnlyDuringReset`, `ListedKeysSign`,
  `NoHiddenKeys`, `RemovedKeysNeverSign`.
* Rights: `ExecutedWasGranted` says that the gap between authorization and execution
  is all there is: whoever was stripped of a role before its call was taken up is
  refused. `AdministratorsComeFromOne` and `LastAdministratorStays` bound how the
  table of administrators grows and shrinks.
* Batches: `BatchAnsweredInOrder`.
* Migrations: `CleanMarkNamesSchema`, `DirtyMarkLocatesSchema`, `OkMeansUpgraded`,
  `UpgradesNeverDowngrade`.
* Encoding and signatures: `SenderRecovers`, `SignedAsAsked`,
  `SignaturesLowAndOwn`, `GoodAnswersSign`.
* Progress: `RequestsReply` (in three modules), `RequestsEnd`, `ReplicasComeUp`,
  `UndisturbedRunsSucceed`.

### Bounds

* `ri_sequential`: seven requests are enough to create an application, a user, a
  module, a slot and an account, and to delete and create again one that others
  depend on. `ri_concurrent` starts from a database with two applications, a
  user, a module and a slot, so that three requests are deletions and creations of what
  two handlers compete for, the third after one of the others or after its failure. Of
  the three slots two have one application and two have one place in the module, so that
  either index may be the one that keeps a slot out.
* `tm_requests`: one connection is the smallest pool and the worst case; two calls
  are nested or one after the other; two writes can be torn apart; two failures
  allow a panic or failed statement together with a failed commit.
* `sc_edits`: three calls with two handlers include a deletion and a new creation
  between the read and the write of a third call; two keys and two pins tell a lost
  update from a kept one.
* `sh_keys`: two handlers with four requests include two overlapping resets and
  operations between their halves, and a removal between the authorization and the
  signature of another request.
* `ac_requests`: two replicas, one with a flag and one without, with a handler each. Two
  requests are one that changes the tables before another, or between its authorization
  and its execution. A batch of two calls is full, with an unknown method and a
  notification among them, one of three is too long; a page of two administrators is
  full once both replicas have appointed one, and three are more than a page. Two ids may
  be drawn, one that is in the table already and one after it. One failure stops a
  replica, with the request it serves, or a statement.
* `ad_page`: a page of two instead of 30, and four administrators, so that one is
  off the page.
* `mg_upgrades`: two processes, binaries of the last two versions and targets below
  and at the current one, in four runs: an upgrade, one by an older binary, and two
  at the same time, with one interruption. Every script is executed up and, but for
  the first, down.
* `tx_signing`: data and access lists put the length of a payload on both sides of
  55 and 255 bytes; numbers are 0, and around 127, 128, 255 and 256; r and s are at
  the ends of their range and on both sides of half the order. The order is 509 and
  a word two bytes, so that both of one and of two bytes occur. A blob fee, other fields
  of types 3 and 4 and an access list occur with a gas price, with the fees of type 2
  and without either.
* `MaxRequests`, `MaxCalls`, `MaxCallbacks`, `MaxRuns` and `MaxFaults` are the only
  bounds in guards; `MaxBatch` and `PageLimit` are bounds of the code.

### Fairness

`FairSpec` asks for weak fairness of the steps of each handler once it serves a
request. In `AccessControl` that is as long as its process lives: a call of a replica
that stops is lost at once, and `RequestsReply` counts it as over. Goroutines are
scheduled; PostgreSQL grants row locks, `database/sql`
grants connections and a Go mutex is handed over in the order of waiting, and each
model serves finitely many requests, so weak fairness is enough. Nothing is assumed
of calls from clients or of failures. A replica that is down is started again by
what supervises it (`WF` of `Server`), and an upgrade goes on until it ends.
`UndisturbedRunsSucceed` and `ReplicasComeUp` name in their premises what else they
need: no other run, and a flag that is on the page.

### Disagreements found

1. `eth_removeAccount` removes the rows of accounts and not their entries: the user can
   then never be removed, although the troubleshooting guide says to remove what depends
   on it and then the resource itself (`ri_orphan_entries`).
2. A resource created while its parent is deleted breaks a dependency that the
   guide says cannot be broken (`ri_write_skew`).
3. `EnableAccounts` checks and then creates: the key may be gone in between
   (`sh_enable_race`), against the comment of `addressesBackedByModule`.
4. A replica looks for the administrator of its flag in one page of the list, and
   does not start when 30 newer ones exist, although the guide's remedy is to name
   one of the table (`ad_page`).

Also seen, and not a run:

* A transaction with a blob fee (`maxFeePerBlobGas`), blob hashes, authorizations or an
  access list, and neither a gas price nor a fee of type 2, is signed as a legacy
  transaction with a gas price of 0 and without them (`hsm_connector.go:685`), although
  `README.md:44` of the repository says that types 3 and 4 are not supported.
  `SignedAsAsked` therefore says that nothing given was left out of a transaction of
  type 2, or of a legacy one with a gas price, and of a legacy one without, only that no
  fee of type 2 was.
* The account use case is bound without the transactional decorator that the comment
  above its binding announces (`graph/usecases_injector.go:64`): an account enabled
  twice is refused by the index, and leaves the entry that was written first. A user
  created twice does the same to its application.
* Two deletions of the two administrators there are count two each, and none is left
  (`admin_usecase.go:164`).
* A nested `ExecuteInTransaction` in which a panic was recovered returns
  `(nil, nil)` (`transactional_manager_usecase.go:83`), where a test says a failure
  must surface. The type assertion in the decorators is what keeps this from
  committing half of the work: `PanicNeverCommits` holds with it and fails without.
* A private key whose label could not be set survives `RemoveKey`
  (`pkcs11_hsm.go:131`), against the comment of the interface.
* A deletion finds the internal id of a row, and another request deletes the row and
  creates it again before the first one deletes by natural key; the entries of the
  new row stay. `EntriesTrue` is therefore checked for sequential requests only.
* `README.md:44` lists type 1 among the transactions that are signed; `SignTx` turns it
  down. A gas limit of 0 is encoded with a leading zero byte, which the network refuses.
* `rlp.go:422` drops the error of a nested item; `DecodeAndDeserialize` serves no
  request.
* `rpc_api_input_adapter.go:120` adapts the wrong error variable when the keys of a
  local key vault cannot be listed.
* The first down script names five tables in the plural and leaves them
  (`000001_initial_schema.down.sql:1`): with 0 among the targets
  `CleanMarkNamesSchema` fails. Two upgrades at the same time may leave the mark dirty
  for good over an upgraded schema. `ErrMigrationInProgress` (`dbmigrator.go:26`) is
  never returned.
* A signer that cannot be parsed is answered with status 400 and no body, inside a
  batch too (`rpc_infra_response_handler.go:34`), and a notification that fails is
  answered with an id of its own making.

## 4. Proofs

Eight modules hold proofs, one for each component and a second one for
`ResourceIntegrity`. Every theorem is about `Spec`,
which has no fairness and so covers `FairSpec` too, and holds for every value
of the constants that satisfies the named assumptions in the component's module:
every set of handlers, keys, resources, every bound on calls and faults. Each
module proves an inductive invariant from a lemma for the initial states and one
for the steps with one proof step for each action; the other theorems follow from
it.

| Module | Theorem | Statement |
|---|---|---|
| `ResourceIntegrityProofs` | `TypeCorrect` | `Spec => []TypeOK` |
| | `SlotsProtected` | `Spec => []TransactionalRowsProtected` |
| | `ProtectedUntilDeleted` | `Spec => []UnprotectedOnlyWhileDeleted` |
| | `UniqueSlot` | `Spec => []OneSlotPerApplication` |
| `SequentialIntegrityProofs` | `SequentialDependencies` | `Sequential` implies `Spec => []DependenciesUnbroken` |
| | `SequentialEntries` | `Sequential` implies `Spec => []EntriesTrue` |
| `TransactionalManagerProofs` | `TypeCorrect` | `Spec => []TypeOK` |
| | `OkDurable` | `Spec => []OkMeansDurable` |
| | `PanicDiscards` | `Spec => []PanicNeverCommits` |
| | `Refinement` | `Spec => IsAtomicWork` |
| `SlotConfigProofs` | `TypeCorrect` | `Spec => []TypeOK` |
| | `VersionsIdentify` | `Spec => []VersionNamesOneState` |
| | `CommitsOverSeen` | `Spec => []CommitsOverWhatItSaw` |
| | `Refinement` | `Spec => IsSlotObject` |
| `SoftHSMKeysProofs` | `TypeCorrect` | `Spec => []TypeOK` |
| | `Exclusive` | `Spec => []SessionsExclusive` |
| | `ResetReopens` | `Spec => []ClosedOnlyDuringReset` |
| | `ListedSign` | `Spec => []ListedKeysSign` |
| | `NeverHidden` | `Spec => []NoHiddenKeys` |
| | `RemovedForGood` | `Spec => RemovedKeysNeverSign` |
| `AccessControlProofs` | `TypeCorrect` | `Spec => []TypeOK` |
| | `GrantedBeforeExecution` | `Spec => []ExecutedWasGranted` |
| | `AdministratorsFromAdministrators` | `Spec => AdministratorsComeFromOne` |
| | `LastStays` | `Spec => LastAdministratorStays` |
| | `AnsweredInOrder` | `Spec => []BatchAnsweredInOrder` |
| `DbMigratorProofs` | `TypesHold` | `Spec => []TypeOK` |
| | `CleanMarkIsTrue` | `0 \notin Target` implies `Spec => []CleanMarkNamesSchema` |
| | `DirtyMarkIsTrue` | `0 \notin Target` implies `Spec => []DirtyMarkLocatesSchema` |
| | `OkIsUpgraded` | `0 \notin Target` implies `Spec => OkMeansUpgraded` |
| | `UpgradesOnward` | `0 \notin Target` implies `Spec => UpgradesNeverDowngrade` |
| `TransactionSigningProofs` | `LowAndOwn` | `Spec => []SignaturesLowAndOwn` |
| | `GoodAnswersAccepted` | `Spec => []GoodAnswersSign` |
| | `NetworkRecoversSender` | `Spec => []SenderRecovers` |
| | `NetworkReadsRequest` | `Spec => []SignedAsAsked` |

### ResourceIntegrityProofs

None of the properties is inductive by itself. `IInv` is the conjunction of

* `TypeOK` and `Control`: which fields are set at which `pc` (a handler that links
  has an id and an index within its parents, only transactional resources have
  writes that are not committed, ...);
* `Identity`: an internal id names one resource; ids in use, in rows, entries or
  handlers, are older than `nextIid`. Without it a deletion could take away the
  entries of another resource;
* `Linked`: what a creation has linked so far: an entry, committed or its own, for
  each parent before its index;
* `Locks`: two open transactions never hold writes on conflicting rows, and an
  insert that waits to be committed conflicts with no committed row;
* `SlotsApart`: two committed slots do not conflict, on either index, which is what
  `OneSlotPerApplication` says without `Conflict`;
* `Covered`: a row without an entry is the row that a deletion at `confirm` or
  `remove` knows by its id, or a statement has failed, and it is never the row of a
  slot.

The `...Effect` lemmas say once what an action does to the parts of the state the
invariant mentions.

### SequentialIntegrityProofs

Its theorems assume `Sequential`, that there is one handler: with two they are false,
as `ri_write_skew` shows for a parent that goes between the check and the link. The
requests of the one handler still fail and die between any two statements, and the
next request runs over what they left. `SequentialInv` adds to `IInv`

* `Owned`: an entry has an id in use and the kind of the row with that id. It holds
  for any number of handlers, because ids are never given twice;
* `Reads`: what the handler has read is still so (`ReadIsTrue`). Up to its index a
  creation has linked rows that its parents have now; a deletion works on the row
  that is there and, once it has looked, has no children;
* `SlotEntriesLive`: no entry of a slot without its slot. It needs no premise on
  failures, since a slot's entries are written in its transaction;
* `Told`: without a failed statement, a row has all its parents and an entry that
  names the row each of them has, unless its deletion has just taken its entries.

`DependenciesUnbroken` says `faults = 0`, and so does `Told`: a deletion of a user or
an account that fails after its entries are gone leaves a row that nothing protects.

### TransactionalManagerProofs

Requests share only the database, and each writes items of its own, so `IInv` is
`TypeOK` and, for every request, `Place` (the depth of calls and the state of the
transaction at each `pc`), `Outcome` (a committed transaction had no failed
statement and no panic; a panic is on its way to the outermost call, or has reached
it as a failure) and `Kept` (the database holds what the request wrote exactly if
its transaction is committed). The clause of `Outcome` for a nested call that is
unwrapped after a panic, with a result of `Nothing`, is where the type assertion of
the decorators matters. The refinement maps each handler to the phase of its work:
`Write` is a statement that succeeds, `Publish` the commit, `Discard` the failure to
begin, the rollback, a commit that is refused or the death of the process, and all
else is a stutter or a reply.

### SlotConfigProofs

`Shape` says what a handler has at each `pc`: before its UPDATE and its COMMIT, a
row on which its call is allowed. `Versions` says that all versions in use are older
than `nextVersion`, that a row read with the version of the committed row is the
committed row, and that the version written by an open transaction has been read by
nobody. `OneWriter` is `CommitsOverWhatItSaw` with mutual exclusion of transactions
that have updated the row. A call then takes effect, in `SlotObject`, at the UPDATE
of a local key that matches, or at the COMMIT of an edit: `WrittenRow` is the lemma
that what is written back is the effect of the call on the row as it is.

### SoftHSMKeysProofs

`Holder`: the handlers at the places between taking and releasing the mutex are the
one that the mutex names, only they are logged in, and while somebody is, the
library is open. `Keys`: whose halves a handler at work may still label or destroy,
and that no removed key has a labelled private half; a handler that labels has
generated the pair itself and nobody has been told its address. `RemovedForGood`
follows because a signature finds the private half by its label. `Halves`, for runs
without a failed call: the two halves of a key are in the same state unless a handler
is between the two calls that label or destroy them (`Halfway`), where it says which
half is ahead. Those handlers have the mutex, so `ListedSign` follows.
`Presence` has no such premise: the public half of a key is there until the removal that
has destroyed the private one, from which `NeverHidden` follows.

### AccessControlProofs

`AdminInv` is about the table: unless two deletions overlap, at most one request has
counted, and as long as it has, there are two administrators; so the row it removes
is not the last. Listing a page does not matter to it, because a page with two
administrators shows that there are two. `Granted` follows a call: from the check of
the roles on, `held` contains a role that allows the action, and from the check of
the account on the account. `held` only grows while a call lasts (`HeldStays`), so no
change of the tables and no step of another request takes that away
(`OthersGranted`). `OperationsAsked` ties an operation on the table to the request
that was granted it, and `Appointing` is about replicas: unless two were about to create
at once or deletions overlapped, one at most is, and the list is empty while it is,
since who may fill it must have been an administrator first. Together they give
`AdministratorsFromAdministrators`. `Batches` says that
the answers given so far fit the calls in their places; every step of a request
appends at most one answer, the one of the call it is at (`SoFarAnswered`).

`TypeCorrect` says more than types. `TablesTyped`: a user has one row, since a creation
looks for the row first, in the same statement, and an edit replaces it. `Places`: the
places of the administrators are 1 up to their number, each taken once, which is what
lets `Listed` cut a page by places; a removal moves those after it up
(`RemoveKeepsPlaces`). It rests on two assumptions about inputs: the users at the start
have distinct keys (the primary key of `cfg_user`), and calls about an account carry an
address (`http_application_api_adapter.go:20` turns others down).

### DbMigratorProofs

`Plans` says where a run may be going: one version up at a time, or down for a
version that was asked for. `Schemas` says who may change the schema. A process that
has executed a statement of its step (`Past`) is the only one; the mark is dirty, and
the schema is the one its script has led to so far (`After`). A process that is about
to begin a step is `Fresh`, over exactly the schema its step starts from, or `Stale`:
what its first statement adds is there already (`Marker`), so that it fails there.
When a fresh process executes its first statement every other one becomes stale. The
lemmas about the scripts are the place where the SQL files matter: no statement
undoes an earlier one of its script, each script leads from one version to the next,
and no upgrade drops a marker. The theorem needs targets above 0, because of the
first down script.

`OneByOne`, while no two runs have overlapped: one run at most is at work, and the mark
is the one that it has written at its place (`Follows`). With `Schemas` it gives
`DirtyMarkIsTrue`, for which the recursion of `Executing` is replaced by a closed form
(`Executed`): no script has more than seven statements, so the recursion is unrolled
and needs no induction. For `OkIsUpgraded` and `UpgradesOnward`, `NotThereYet` says
that a schema inside the up script of a version is not taken for one that has reached
it, so that what a statement of an upgrade passes through is never behind where it
started (`UpgradeOnward`); `Done` says that a step a run has completed stays
completed, since nothing takes the schema back.

### TransactionSigningProofs

The answer of the backend is the one that was checked (`AnswerOnTime`), and the lemmas
`LowS` and `RecoverVFinds` say that normalising a signature gives the same or the
opposite point and that one of the two recovery bytes fits it.

`SenderRecovers` and `SignedAsAsked` are about what a reader makes of the bytes that
leave, and follow from `IInv /\ EncodedAsAsked`: the payload is the hash of what was
asked for (`PayloadAsAsked`), the signature is that of the answer or its opposite
(`SignatureOfAnswer`), and the output is the encoding of both (`OutputOfSignature`).
What is left is that every encoding is decoded to what it was encoded from:

* `ToBinary`, `ToInt`, `FlattenSeq` and `DecodeList` are functions defined by
  recursion. Each proof of what they compute shows first that such a function exists
  (`DigitsExist`, `ValuesExist`, `FlattensExist`, `ItemsExist`). The induction is the
  lemma `Least`, that a set of numbers which is not empty has a least one, from the
  well-foundedness of finite subsets: a length, a place or a number for which a
  statement failed would be the least such. No theorem with an operator as a
  parameter is needed.
* `NumberBack`: a number is read back from its digits. `LengthEncoded`: a header is
  read back, with its kind, wherever it stands. `ItemInPlace`, `DecodeBack` and
  `ListBack`: so is an item, and a list of items of any number and length.
* `AccessListRead`, `LegacyRead`, `EIP1559Read` and `WordsRead` go from there to the
  fields of a transaction, the payload that is encoded again from them, the chain and
  the recovery bit in the v of EIP-155, and the words of typed data.

The assumptions: the order is odd and larger than 2; a word has room for a number
below it (`WordAssumption`, 32 bytes in the code); and the content of each list that is
encoded has a length of eight bytes at most (`SizeAssumption`), which is what a header
has room for and what the comment in `encodeLength` (`rlp.go:230`) says of the `int`
that a Go slice has for its length. `RecoverCompact` is what is assumed of the curve.

### Only model-checked

* Liveness (`RequestsReply`, `RequestsEnd`, `ReplicasComeUp`,
  `UndisturbedRunsSucceed`): the provers do not reason about fairness and `ENABLED`.

## 5. Not modelled

* Updates of descriptions and chain ids: rows behind a version check of their own,
  without effect on what is modelled.
* The HSM connection resolver: three reads, of which a slot that changes in between
  makes a connection that fails or signs with the slot as it was.
* The JSON and REST adapters, the parsing of parameters and the wording of errors:
  conversions without state. The generated HTTP handlers.
* The header and certificate definitions that say who a request is from: inputs.
* SQLite, which serialises writers: the models take PostgreSQL's behaviour, which
  allows more.
* Elliptic curve arithmetic and hashing, and with them the hash of typed data
  (`usecases/eip712`); the Azure service; telemetry, logging, configuration.

## 6. Plan

The modules of the plan are written, in this order: `ResourceIntegrity`,
`TransactionalManager` against `AtomicWork`, `SlotConfig` against `SlotObject`,
`SoftHSMKeys`, `Administrators` and `AccessControl`, `DbMigrator`, `RLP` and
`TransactionSigning`.

The safety properties of the passing runs are proved. What is left to the runs is
liveness, and what the fairness it assumes would have to say of `ENABLED`.
