# ControlHub in TLA+

Models of the services under `src/services`, the TLC runs that check them, and
proofs TLAPS checks. The code is the reference: every definition names in
`PROJECT.json` ("map") the lines it stands for.

## The system

ControlHub manages a fleet of workstations. Two Go services hold the state:

| Part | State | Operations | Interacts with |
|---|---|---|---|
| Enrollment (`handlers/enrollment_handler.go`) | invitations with a use count, an expiry and a token | create, list, withdraw an invitation; handshake of an agent | store, device lifecycle, audit log |
| Devices (`handlers/device_handler.go`) | the status of every device: PENDING, ACTIVE, REVOKED | approve, revoke, list, get | store, audit log, sessions |
| Remote sessions (`handlers/session_handler.go`) | REQUESTED, CONNECTED, REJECTED, TERMINATED, time stamps | create, consent, terminate, list, get | devices, organization settings, audit log |
| Authentication (`handlers/auth_handler.go`, `auth/`) | refresh tokens; access and MFA tokens are signed and stored nowhere | login, MFA, refresh, logout, me | store, audit log |
| Realtime hub (`services/realtime`) | agents online with their last heartbeat; console streams, each with a buffer of 32 events | register, unregister, heartbeat, telemetry, broadcast, the watchdog | SSE handlers, telemetry webhook; nothing writes OFFLINE to the API's store |
| Groups (`handlers/group_handler.go`) | groups, memberships, parents, policies | create, update, delete, assign, remove | devices, audit log |
| Commands (`handlers/job_handler.go`) | commands with status and expiry, results | queue, bulk queue, report a result, get | devices, audit log |
| Telemetry (`handlers/telemetry_handler.go`) | samples per device, `last_seen` of the device | ingest; an answer of latest sample, history and `last_seen` | devices; nothing compares a sample with a threshold |
| Operations (`handlers/operations_handler.go`) | alerts and who acknowledged them, software packages, deployments, the license | acknowledge, register and deploy software, entitlement | devices, audit log; no alert is raised and no license issued by the service |
| Updates (`handlers/update_handler.go`, `apps/windows-agent/src/updater.rs`) | a manifest fixed in the source; the agent's staging directory | serve, verify; check and stage | nothing calls the agent's updater, whose network calls are stubs |
| Store (`store/store.go`, `store/postgres_store.go`) | all of the above | one method per query | chosen once by `main.go` |

The Windows agent's main loop, the admin console, the installer, configuration,
the router and the RBAC middleware keep no state of their own; `PROJECT.json`
says of each why it is not modelled.

### What is hard

*Concurrency.* `net/http` runs each request in a goroutine. A handler is a
sequence of store calls; each call is atomic (the mutex of the `MemoryStore`,
one statement or transaction of the `PostgresStore`), the sequence is not.
Most handlers check in one call and write in another.

*Partial failure.* Errors of many calls are assigned to `_`: consuming an
invitation, revoking and saving refresh tokens, updating a session, every audit
entry. With PostgreSQL a call can fail before it takes effect or after.

*Two stores.* They differ in what they check: the use limit, the organization,
the status. The tests run on the in-memory store; production runs on PostgreSQL.

*Time.* Invitations, tokens and licenses expire, the hub's watchdog
compares a tick that may have waited with heartbeats that did not, and the time
of a sample is drawn before it is stored.

*Answers put together from several reads.* A command and its result, a device
and its samples, a license and the devices are read in calls between which
others write; some reads fail unnoticed, and an interrupted one looks complete.

*Bounded buffers.* The hub drops an event rather than wait for a console.

`PROJECT.json` ("hazards") lists each at its line with the properties that
would notice it going wrong.

## Modules

| Module | Models | Correct when |
|---|---|---|
| `Enrollment` | invitations, handshakes, device approval and revocation, over either store | counts and devices agree, limits and revocations hold as far as overlapping requests allow, the log is true |
| `DeviceLifecycle` | abstract: what the API promises about a device's status | implemented by `Enrollment` |
| `InvitationLimit` | abstract: how many devices an invitation admits | implemented by `Enrollment` with a slack of one per other request |
| `EnrollmentRefinement` | the two refinement mappings | |
| `RemoteSession` | sessions; composes `DeviceLifecycle` for the devices under them | no connection without consent, ended is ended |
| `RealtimeHub` | the hub, its watchdog and the SSE handlers | consoles are told the truth in order, only silent agents are evicted, nothing blocks the hub |
| `AuthSessions` | login, MFA, rotation of refresh tokens, logout | MFA is never skipped, a spent token never comes back |
| `Commands` | the command queue: queueing, bulk queueing, results, the answer that shows both | what was answered as queued is stored, results belong to commands, the status follows them |
| `Groups` | groups, their hierarchy, names and members | members and parents exist, devices stay within their organization |
| `Telemetry` | samples, `last_seen`, the answer of three reads | an answer shows what belongs together, `last_seen` follows the samples |
| `Operations` | alerts, software and its deployment, the license | who acknowledged is on record, one device keeps a deployment from no other, the license is read right |
| `...Proofs` | the theorems about each of the eight modules above, in a module of its own | |
| `MC...` | symmetry and small sets for TLC | |

### How they follow the code

A request is a record in `req`: `at` names the store call it makes next, the
other fields are the handler's locals. One action is one store call with the
local computation around it. Calls that only read and whose failure makes the
handler answer an error are folded into the step they guard; a request that
ends in an error without having changed anything is left out. The last call of
a handler is the insertion of its audit entry, and the answer goes with it.

`backend` is the store `main.go` chose: it is fixed in `Init`, among `Backends`,
and never changes, so that one run and one theorem speak of both stores.
`Outcome` is what a store call does and reports. Only calls to PostgreSQL fail
(`MayFail`), before they take effect or after, and only PostgreSQL outlives the
API process: `Restart` drops every request under way. The in-memory store knows
one organization (`Tenants`, `DemoOrg`), nothing adds another, and its demo
devices are left out; users with MFA are set up beforehand, as the integration
test does with `UpdateUserMFA`, which no handler calls. `AuthSessions` keeps of
a TOTP code only whether it was accepted, and of the log only the entries its
properties are about.

The routes take any UUID. `Named` is what a caller may name: the identifiers the
service gave out, stored or announced, and one of nothing (`Unknown`); one that
`uuid.New` has yet to draw nobody can know. Several handlers drop the store's
`ErrNotFound`, and the `MemoryStore` does not always report it: in memory the
withdrawal of an invitation that never existed is logged, a consent to an unknown
session is logged and answered, and a result of an unknown command is kept. The
properties say what remains true then. In `Groups` a deleted group and in
`Operations` a device not yet enrolled stand for what does not exist; device,
alert and group updates report it in both stores, and the request ends there.

`AuditRowKept` is false for PostgreSQL: the handlers pass `r.RemoteAddr`, which
is `host:port`, as `ip_address`; the column is of type `INET`; the insertion
fails and the error is dropped. In PostgreSQL the log stays empty, so that it is
complete is stated for the in-memory store; that it reports nothing false
(`RecordsTruthful`) speaks of either, for it is said also of the entries that
requests are about to insert.

`GetCommand` makes two calls, and the `MemoryStore` returns a pointer to the
record it keeps: the answer is encoded from the live record while a result may
change its status. `Commands` keeps what was read (`status`) next to the live
record, and `Shown` says which statuses the answer may carry: the one read in
PostgreSQL; in memory the live one or, when the write fell into the encoding,
half of each (`torn`). In `Groups` an assignment in PostgreSQL is a check and an
insertion; the two reads of the check are one step, for the organization of a
device never changes. `Subtree` is what `ON DELETE CASCADE` deletes: the least set
that holds the group and is closed under `ClosedBelow`, so that it can be reasoned
about for a hierarchy of any depth.

A sample of `Telemetry` is the time it carries and whether it names its device's
organization; `samples` keeps the rows in the order they were stored, so that a
read is a set of positions. `Ingest` looks at the clock (`stamp`), and the store
call follows later: the memory store keeps that time, PostgreSQL takes `NOW()`,
the time its statement started, which is any time since the request's last call:
hence `t \in stamp .. clock`, for the `INSERT` and again for the `UPDATE` of
`last_seen`, which may have waited for the row. The memory store's `GetDevice`
returns a pointer to the device, so the answer shows `last_seen` as it is when the
answer is made (`ShownSeen`), in PostgreSQL as it was read. `RowsRead` and, in
`Operations`, `Counted` say how many rows arrive before a connection is lost:
the lists never ask `rows.Err`.

`Operations` is one organization with its license and one more that owns devices.
`day` is the calendar; the license's dates are whole days, for only their order
matters. A deployment is a pair, however many rows it has. Three fields of a
request only observe: `owed`, the devices nothing kept a deployment from, `asked`
and `low`, the day and the number of devices when the license was read.

In `RealtimeHub` each method runs under the hub's lock and is one action, but
the watchdog, which evicts several agents under one lock while consoles keep
receiving: `scan` is what it still has to evict, and the lock is taken while
`scan` is not empty. The unit of time is the 5 second period of the ticker;
`ticked` is the one tick its channel holds, and `due` the devices that were
silent for more than the TTL at that tick: a heartbeat takes a device out of it,
since `LastHeartbeat` is then later than the tick. `view` is what the console
shows; `stale` only observes which devices' latest event a buffer dropped.

## Runs

Passing runs:

| Run | Shows |
|---|---|
| `Enrollment` | either store, three requests, four devices, calls that succeed: the count accounts for devices and handshakes (`UsesAccounted`), the overshoot over `max_uses` is bounded by the other requests running (`ImplementsLimit`), in memory the log is complete (`MemoryChangesOnRecord`), a revocation is final once the approvals that overlapped it are gone (`RevocationSettles`) |
| `EnrollmentFaults` | either store, two organizations, failing calls and restarts: the count of PostgreSQL stays within the limit (`UsageWithinLimit`), a closed invitation stays closed (`ClosedInvitationAdmitsNone`), the log reports no creation, enrollment, approval or revocation that did not take place, and no withdrawal of an invitation that is still stored (`RecordsTruthful`), devices follow `DeviceLifecycle` |
| `Sessions` | either store, two requests on two sessions and on one that does not exist, failing calls and restarts: in memory a consent or termination of a stored session takes effect, in PostgreSQL no consent ever does (`DecisionsTakeEffect`); in memory decisions are on record (`ChangesOnRecord`); in PostgreSQL an ended session stays ended (`PostgresEndedIsFinal`); no session appears on a device that is not ACTIVE (`NoSessionOnInactive`) |
| `HubSafety` | two devices, a buffer of one: `ConsoleCurrent`, `EvictsOnlySilent` |
| `HubLiveness` | `SilenceDetected`, `DisconnectedLeaves` under `FairSpec` |
| `Commands` | either store, two requests, bulk requests with an unknown device, repeated results, results of unknown commands, failing calls and restarts: `PromisedIsStored`, `ResultsOwned`, and in memory `MemoryStatusShowsResult` and `AnswerNotBehind` |
| `Groups` | either store, two organizations, three groups that may nest, two devices, failing calls and restarts: `MembersExist`, `MembersWithinOrg`, `ParentsExist` |
| `Telemetry` | either store, one device, two requests, three samples, three times, statements that fail, restarts: `HistoryReachesLatest`, `SeenFollowsSample` and, in memory, `MemoryAnswerCurrent` |
| `Operations` | either store, two users, three devices, a license through its dates, failing calls and restarts: `DeployedToTheRest`, `LicenseAnswerCurrent` and, in memory, `AcknowledgedOnRecord` |
| `Auth` | either store, two users, three tokens, two requests, failing calls and restarts: forks of a token are bounded (`SuccessorsBounded`), MFA is never skipped and, in memory, on record (`MFARequired`), spent tokens stay spent (`SpentIsFinal`) |

Runs that end in a violation, each a statement of the documentation or of a test
that the code does not keep (`PROJECT.json`, "findings", quotes it):

| Run | The code does |
|---|---|
| `EnrollmentUseLimit` | overlapping handshakes enroll more devices than `max_uses` |
| `EnrollmentRevokedFinal` | an approval under way reactivates a device revoked meanwhile |

Departures of the same kind that the models show but no run is spent on: no
audit entry is stored in PostgreSQL; a consent finds no session there, for the
handler passes `uuid.Nil`, and is answered CONNECTED; a result leaves the status
of its command at QUEUED there; a consent answered after the termination
reconnects the session in memory; refreshes that overlap fork one token, which
`SuccessorsBounded` bounds; a bulk request counts and names commands that were
not stored; an update without a name blanks the name of a group in PostgreSQL;
in memory the groups below a deleted one keep it as their parent; a
termination whose update failed is answered TERMINATED; revoking a device leaves
its sessions connected; an event a full console buffer dropped is never repeated,
so a console may show a device online for good; telemetry of an evicted device
does not bring it back online; a refresh token that was not stored is handed out;
the latest sample of the memory store is the one stored last, which may be older
than one before it; samples that overlap may take `last_seen` back in PostgreSQL;
in memory the withdrawal of an invitation
that never existed is answered and logged as a success, as are a consent to and a
termination of an unknown session (in PostgreSQL they are answered so); the memory
store keeps results of commands that never existed;
`RegisterDevice` does not store the handshake's `last_seen` there; a history or
a device count cut short by a lost connection is answered as complete; the
memory store's license stays ACTIVE past its dates; `seats_remaining` may be
negative, for nothing compares the license with the devices that enroll; a
second `RegisterAgent` of a device replaces its session, whose channel is never
closed; `SaveLicense`, which nothing calls, names a conflict on a column that has
no unique constraint.

### Bounds

Identifiers (`Invitation`, `Device`, `Session`, `Token`, `Command`, `Group`, `Package`) stand for what
`uuid.New` and `crypto/rand` give: a finite supply, each used once, so a run
ends when they are used up. `Unknown` is one more, never given out: the code treats
all such alike. That is why deadlock is not checked there; the hub
has no such supply and is checked for deadlock. Two requests at a time are
enough for every race between a check and a write; three let a race meet a
third operation, where the state space allows it. In
`Enrollment` one invitation has a limit of 1 (asked for as 0, which the handler raises), so that
four devices can pass the bound of three that three requests allow; in
`EnrollmentFaults` -1 and 2 are sent. A buffer of
one drops events soonest; `HubLiveness` uses two. `TTL` is 2 periods instead of 9:
the watchdog's choice depends only on whether it was passed, and `quiet` counts
no further. Three tokens are one that is exchanged and two it forks into.
Bulk requests name one or two devices, an unknown one among them; three groups
give a hierarchy the cascade must descend twice. In `Telemetry` samples of one
device never meet those of another, so one device is enough; three samples and
three times let two requests store out of order around a third, and the limits 0,
1 and 2 are no history, one that cuts and one that cuts only what is older. In
`Operations` the license ends on day 0 and its grace period on day 1, so that the
three days are one of each status; three devices leave room for one enrolled before, one of
another organization and one that enrolls while the answer is made.
Symmetry is used for safety only, over sets the specifications never tell apart.

### Fairness

Only `RealtimeHub` assumes any. `FairSpec`: time passes and the watchdog
goroutine runs (weak fairness); a write on a closed connection returns (weak);
a select that finds the request's context done again and again takes that case
eventually, for Go picks among ready cases at random, and a goroutine waiting
for the hub's lock gets it, for `sync.RWMutex` starves nobody (strong). No
console is assumed to read; `SilenceDetected` and `DisconnectedLeaves` hold
nevertheless. Requests of the API get no fairness: a client may go away at any time.

## Proofs

Every invariant, every action property and both refinements that the passing runs
check are also proved with TLAPS, for every value of the constants that satisfies
the named assumptions of the module: sets of any size, either store, with and
without faults. The assumptions say that a "no value" is not a value, that
backends and faults are what `main.go` allows, that bounds and time spans are
natural numbers, and that what is counted is finite.

Each module follows one argument. `IInv` is the inductive invariant: the types
(`TypeOK`), what the rows of the tables have to do with each other (`RowsSound` or
a name of its own), and `RequestsSound`, what a request holds between two store
calls. The last part is what types lack: a handshake that registers must know that
its device and its invitation exist, whatever the others did since the lookup.
There is one lemma for each action; `SoundStays` shows that a request that does
not move stays sound while others write, `OneMoves` that only the one that moves
is left to look at. Every `IInv` and every strengthening below was checked with TLC
before it was proved. The temporal steps are closed by PTL.

| Module | Theorem | Shows | By |
|---|---|---|---|
| all | `InvariantHolds`, `TypeCorrect` | `IInv`, `TypeOK` | the action lemmas |
| `EnrollmentProofs` | `PostgresUsageWithinLimit` | `UsageWithinLimit` | the guard of the SQL update |
| | `RevocationIsSettled` | `RevocationSettles` | which step may reactivate |
| | `ClosedIsFinal` | `ClosedInvitationAdmitsNone` | which handshakes may still enroll |
| | `LogIsTrue` | `RecordsTruthful` | `RecordsInv`: entries are about rows, and an entry still to be inserted is already true |
| | `MemoryLogIsComplete` | `MemoryChangesOnRecord` | a change is on record, or its request is about to record it |
| | `UsesAreAccounted` | `UsesAccounted`, as long as no call may fail | `CountsInv` |
| | `LimitImplemented` | `ImplementsLimit`, as long as no call may fail | `CountsInv` maps each step to one of `InvitationLimit` or to a stutter |
| | `LifecycleImplemented` | `ImplementsLifecycle` | each step mapped to one of `DeviceLifecycle` or to a stutter |
| `RemoteSessionProofs` | `MemorySessionsOnRecord` | `ChangesOnRecord` | `SessionOnRecord`: on record, or about to be |
| | `DecisionsHaveEffect` | `DecisionsTakeEffect` | in memory `Effective`: what a request is about to answer took effect, if its session is stored; in PostgreSQL `Waiting`: a session is REQUESTED or TERMINATED |
| | `InactiveGetsNone` | `NoSessionOnInactive` | which requests saw the device ACTIVE |
| | `PostgresEndIsFinal` | `PostgresEndedIsFinal` | the guards of the SQL update |
| `RealtimeHubProofs` | `ConsolesAreCurrent` | `ConsoleCurrent` | `StreamsSound` |
| | `EvictionsAreOfSilent` | `EvictsOnlySilent` | `OnlySilentDue` |
| `AuthSessionsProofs` | `MFAIsRequired` | `MFARequired` | `Solved`: of every user a request carries or a token names |
| | `ExchangesAreBounded` | `SuccessorsBounded` | `CountsInv`: a token with successors is revoked |
| | `SpentStaysSpent` | `SpentIsFinal` | which refreshes found it live |
| `CommandsProofs` | `PromisesAreKept`, `ResultsAreOwned`, `MemoryStatusFollows` | `PromisedIsStored`, `ResultsOwned`, `MemoryStatusShowsResult` | parts of `IInv` |
| | `AnswersNotBehind` | `AnswerNotBehind` | `RequestSound`: a result that was read is of a command no longer QUEUED |
| `GroupsProofs` | `MembersHaveGroups`, `MembersStayWithinOrg`, `ParentsAreStored` | `MembersExist`, `MembersWithinOrg`, `ParentsExist` | parts of `IInv`; the closure of `Subtree` |
| `TelemetryProofs` | `MemoryAnswersAreCurrent` | `MemoryAnswerCurrent` | `SeenSound` |
| | `SeenFollows` | `SeenFollowsSample` | `RequestsSound`: an update has a sample behind it |
| | `HistoriesReachLatest` | `HistoryReachesLatest` | `AnswersSound` |
| `OperationsProofs` | `AcknowledgementsOnRecord`, `DeploymentsReachTheRest`, `LicenseAnswersAreCurrent` | `AcknowledgedOnRecord`, `DeployedToTheRest`, `LicenseAnswerCurrent` | `RequestSound`: what a deployment owes is done or still to come; the devices only grow |

Where the invariants are less obvious:

*The audit log.* That the log is true is not inductive: an entry is inserted by a
later step than the change it reports, so the invariant must say of the request
between the two that its entry is true already (`PromiseTruthful`), and that no
step of another request makes it false. Devices may be approved and revoked in
between, so what is promised is weaker than the status at the time of the change.

*The invitation's uses.* `CountsInv` says that every issued invitation has a limit
of at least one, that the count accounts for the devices and the handshakes
under way, and that devices and handshakes under way together are at most
`max_uses + |Request| - 1`. The last part is what makes the overshoot inductive: a
handshake that finds a use left finds the others in flight. Both theorems
assume that no call may fail (`CallsSucceed`: no faults, or only the memory store,
whose calls cannot fail): with failing calls the count and the devices part (a
hazard of `enrollment_handler.go:242`). The
cardinalities are handled with `FiniteSetTheorems`.

*The consoles' streams.* `ConsoleCurrent` compares a console with the hub after it
has read everything buffered. Its invariant is `Shows`: in what is being written
and what waits behind it, the last presence event of a device says what the hub
says, and if there is none the console shows it already, or nothing. `QueueAppend`
is the step that sends an event, `StreamRead` the one that writes the head of the
stream: reading a prefix changes nothing of what is shown in the end. That a
nonempty set of positions has a last one (`LastOf`), needed to unfold the `CHOOSE` of
`Seen`, follows from the well-founded inclusion of finite sets.

*The watchdog.* `OnlySilentDue` says that what the tick in the channel, and then the
scan, is about has been silent for longer than the TTL: it holds although the
tick may wait for any time, because a heartbeat takes its device out of `due`
and cannot come in while the scan holds the lock.

*The history of an answer.* The latest sample is read before the history, and
samples arrive in between. `AnswersSound` says that in PostgreSQL the latest sample
is one of the rows the query of the history finds as well; such a row is returned, or
left out for rows that are not older, and rows never change.

### Only model-checked

- `SilenceDetected` and `DisconnectedLeaves`: liveness under fairness, for which
  the provers would need `ENABLED`.
- `UseLimitKept` and `RevokedIsFinal`, which the code violates.
- That the small sets of the `MC` modules and the bounds reach the cases of interest:
  the mutants in `PROJECT.json` show it property by property.

No module declares a recursive operator, so nothing had to stay unproved for that
reason.

## Not modelled

The agent's updater: nothing calls `check_and_apply` but its own test, and the stub
it fetches the manifest with always returns the running version, so the download,
the staging and the restart are never reached. The update service answers with one
manifest fixed in the source and keeps nothing. The measurements of a sample are
stored and shown; alerts are seeded, never raised. The expiry of a
command is stored and shown, but no code compares it with the clock; the
policies of groups are stored and shown. `target_group_id` of an invitation is
stored and nothing reads it.
Password hashing, JWT and TOTP arithmetic and key handling are taken to compute
what they should. `UpdateRemoteSessionStatus` of the `PostgresStore` uses one
parameter both as the value of a `VARCHAR` column and in comparisons with text;
PostgreSQL may refuse to prepare such a statement, in which case no session ever
changes status there. The model takes the statement to be accepted; what follows
if it is not is covered by the runs with faults, where any call may fail.
`Hub.RegisterAgent` and `UnregisterAgent` are called by tests only; the model
takes them to be called by a transport at any time.

## Plan

Done: a module for every component that keeps state, the abstract specifications
of the device lifecycle and of the invitation limit, and theorems for every safety
property the runs check. What would say more about the system:

1. What the abstract specifications say by themselves, and `Enrollment` inherits:
   from `InvitationLimit`, the bound on the devices of an invitation; from
   `DeviceLifecycle`, that a device without an approval under way stays revoked.
2. With faults, what remains of `UsesAccounted`: how far the count and the devices
   can part for each call that failed.
3. A console whose buffer never was full shows every device that is registered, not
   only none wrongly.
