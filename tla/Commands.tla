------------------------------- MODULE Commands -------------------------------
(***************************************************************************)
(* The command queue of the API service: queueing, bulk queueing, results  *)
(* reported by agents, and the answer that shows a command with its result. *)
(* Requests are sequences of atomic store calls, as in Enrollment.  The    *)
(* audit entries, which no property here is about, are not part of the     *)
(* state, and expires_at is only stored and shown.                         *)
(***************************************************************************)
EXTENDS Sequences

CONSTANTS
    Command,        \* identifiers uuid.New may give to a command
    Device,         \* the enrolled devices
    Stranger,       \* an identifier of no device
    Batch,          \* lists of devices an administrator may send
    Request,        \* request goroutines that may run at the same time
    Backends,       \* the stores main.go may choose: "memory", "postgres"
    Faults,         \* whether database calls may fail and the API restart
    Unknown,        \* an identifier no command was ever given
    NoCommand, NoDevice

ASSUME BackendsAssumption == Backends \subseteq {"memory", "postgres"}
ASSUME FaultsAssumption == Faults \in BOOLEAN
ASSUME BatchAssumption == Batch \subseteq Seq(Device \cup {Stranger}) /\ <<>> \notin Batch
ASSUME NoneAssumption == /\ NoCommand \notin Command /\ Unknown \notin Command
                         /\ NoDevice \notin Device \cup {Stranger} /\ Stranger \notin Device

VARIABLES
    backend,    \* the store main.go chose, once
    commands,   \* the rows of commands
    results,    \* the rows of command_results, by the command they name
    promised,   \* commands whose CreateCommand was answered
    announced,  \* commands an answer of CreateBulkCommand named
    req         \* the local state of every request goroutine

vars == <<backend, commands, results, promised, announced, req>>

-----------------------------------------------------------------------------
CommandRecord == [status : {"NONE", "QUEUED", "SUCCESS", "FAILED"},
                  device : Device \cup {Stranger, NoDevice}]

\* An exit code, 0 or not.
Result == {"none", "zero", "nonzero"}

\* todo: the devices a bulk request still has to queue for; batch: the commands
\* it has made so far; status, result: what GetCommand has read; torn: whether
\* the status was written while GetCommand encoded it.
Point == {"idle", "command.queued", "bulk", "bulk.command.queued", "result", "encode"}

RequestState == [at : Point, cmd : Command \cup {NoCommand},
                 todo : Seq(Device \cup {Stranger}), batch : SUBSET Command,
                 status : {"NONE", "QUEUED", "SUCCESS", "FAILED"}, result : Result,
                 torn : BOOLEAN]

Idle == [at |-> "idle", cmd |-> NoCommand, todo |-> <<>>, batch |-> {},
         status |-> "NONE", result |-> "none", torn |-> FALSE]

\* As in Enrollment.
MayFail == Faults /\ backend = "postgres"

Outcome == {x \in [applied : BOOLEAN, ok : BOOLEAN] :
               /\ x.ok => x.applied
               /\ ~MayFail => x.ok}

Stored(c) == commands[c].status # "NONE"

\* Identifiers an agent may send: those of stored commands, those an answer named,
\* and one of none.  What uuid.New will draw nobody can name.
Named == {c \in Command : Stored(c)} \cup announced \cup {Unknown}

Fresh == {c \in Command : /\ ~Stored(c) /\ c \notin promised \cup announced
                          /\ \A r \in Request : req[r].cmd # c /\ c \notin req[r].batch}

Queued(c, d) == [commands EXCEPT ![c] = [status |-> "QUEUED", device |-> d]]

\* The foreign key of the commands table; the MemoryStore has none.
InsertedAlways(d) == TRUE

Inserted(d) == backend = "postgres" => d \in Device

-----------------------------------------------------------------------------
Init ==
    /\ backend \in Backends
    /\ commands = [c \in Command |-> [status |-> "NONE", device |-> NoDevice]]
    /\ results = [c \in Command \cup {Unknown} |-> "none"]
    /\ promised = {}
    /\ announced = {}
    /\ req = [r \in Request |-> Idle]

AfterCreateAlways(c, ok) == [Idle EXCEPT !.at = "command.queued", !.cmd = c]

\* CreateCommand goes on to the audit entry only when the row was stored.
AfterCreate(c, ok) == IF ok THEN [Idle EXCEPT !.at = "command.queued", !.cmd = c] ELSE Idle

(* CreateCommand: GetDevice must find the device, which nothing can remove
   before the row is inserted. *)
CreateCommand(r) ==
    /\ req[r].at = "idle"
    /\ \E c \in Fresh, d \in Device, x \in Outcome :
          /\ commands' = IF x.applied THEN Queued(c, d) ELSE commands
          /\ req' = [req EXCEPT ![r] = AfterCreate(c, x.ok)]
    /\ UNCHANGED <<backend, results, promised, announced>>

(* CreateBulkCommand: confirmed, the devices are looked up nowhere. *)
BulkStart(r) ==
    /\ req[r].at = "idle"
    /\ \E t \in Batch : req' = [req EXCEPT ![r] = [Idle EXCEPT !.at = "bulk", !.todo = t]]
    /\ UNCHANGED <<backend, commands, results, promised, announced>>

(* One round of its loop: the error of the insertion is discarded. *)
BulkCommand(r) ==
    /\ req[r].at = "bulk"
    /\ LET rest == Tail(req[r].todo)  d == Head(req[r].todo)
       IN  \E c \in Fresh, x \in Outcome :
             /\ commands' = IF x.applied /\ Inserted(d) THEN Queued(c, d) ELSE commands
             /\ req' = [req EXCEPT ![r].todo = rest, ![r].batch = @ \cup {c},
                           ![r].at = IF rest = <<>> THEN "bulk.command.queued" ELSE "bulk"]
    /\ UNCHANGED <<backend, results, promised, announced>>

(* InsertAuditLog, its error discarded, and the answer. *)
AnswerQueued(r) ==
    /\ req[r].at \in {"command.queued", "bulk.command.queued"}
    /\ promised' = promised \cup ({req[r].cmd} \ {NoCommand})
    /\ announced' = announced \cup req[r].batch
    /\ req' = [req EXCEPT ![r] = Idle]
    /\ UNCHANGED <<backend, commands, results>>

ResultKeptAlways(c) == TRUE

\* command_results refers to commands; the MemoryStore keeps any result.
ResultKept(c) == backend = "postgres" => c # Unknown /\ Stored(c)

StatusNever(c, e) == commands

\* SaveCommandResult of the MemoryStore writes the status with the result, that
\* of the PostgresStore leaves it.
StatusAfter(c, e) ==
    IF backend = "memory" /\ c # Unknown /\ Stored(c)
    THEN [commands EXCEPT ![c].status = IF e = "zero" THEN "SUCCESS" ELSE "FAILED"]
    ELSE commands

(* ReportResult: the route is public and takes any identifier, as often as the
   caller likes; a later result replaces an earlier one.  A string is two words:
   a GetCommand that encodes the record meanwhile may read half of each. *)
ReportResult(r) ==
    /\ req[r].at = "idle"
    /\ \E c \in Named, e \in {"zero", "nonzero"} :
          /\ ResultKept(c)
          /\ results' = [results EXCEPT ![c] = e]
          /\ commands' = StatusAfter(c, e)
          /\ req' = [s \in Request |->
                IF req[s].at = "encode" /\ req[s].cmd = c /\ commands' # commands
                THEN [req[s] EXCEPT !.torn = TRUE] ELSE req[s]]
    /\ UNCHANGED <<backend, promised, announced>>

(* GetCommand, first call: GetCommand of the store. *)
GetCommand(r) ==
    /\ req[r].at = "idle"
    /\ \E c \in Command :
          /\ Stored(c)
          /\ req' = [req EXCEPT ![r] = [Idle EXCEPT !.at = "result", !.cmd = c,
                                                    !.status = commands[c].status]]
    /\ UNCHANGED <<backend, commands, results, promised, announced>>

(* GetCommand, second call: GetCommandResult; an error is shown as no result. *)
GetCommandResult(r) ==
    /\ req[r].at = "result"
    /\ \E x \in Outcome :
          req' = [req EXCEPT ![r].at = "encode",
                             ![r].result = IF x.ok THEN results[req[r].cmd] ELSE "none"]
    /\ UNCHANGED <<backend, commands, results, promised, announced>>

ShownCopied(q) == {q.status}

\* The status the answer may show: the MemoryStore returned the live record,
\* the PostgresStore a copy.
Shown(q) == IF backend = "postgres" THEN {q.status}
            ELSE {commands[q.cmd].status} \cup (IF q.torn THEN {"torn"} ELSE {})

(* The answer of GetCommand. *)
AnswerCommand(r) ==
    /\ req[r].at = "encode"
    /\ req' = [req EXCEPT ![r] = Idle]
    /\ UNCHANGED <<backend, commands, results, promised, announced>>

Restart ==
    /\ MayFail
    /\ \E r \in Request : req[r].at # "idle"
    /\ req' = [r \in Request |-> Idle]
    /\ UNCHANGED <<backend, commands, results, promised, announced>>

Next ==
    \/ \E r \in Request :
          \/ CreateCommand(r) \/ BulkStart(r) \/ BulkCommand(r) \/ AnswerQueued(r)
          \/ ReportResult(r)
          \/ GetCommand(r) \/ GetCommandResult(r) \/ AnswerCommand(r)
    \/ Restart

Spec == Init /\ [][Next]_vars

-----------------------------------------------------------------------------
(* Properties *)

\* Every variable keeps its shape; in PostgreSQL a row names an enrolled device.
TypeOK ==
    /\ backend \in {"memory", "postgres"}
    /\ commands \in [Command -> CommandRecord]
    /\ backend = "postgres" => \A c \in Command : commands[c].device # Stranger
    /\ results \in [Command \cup {Unknown} -> Result]
    /\ promised \subseteq Command /\ announced \subseteq Command
    /\ req \in [Request -> RequestState]

\* A command that CreateCommand answered as queued is stored, whatever fails,
\* and with the MemoryStore so is every command of a bulk answer.  (With the
\* PostgresStore the loop of a bulk request drops the errors and counts on.)
PromisedIsStored ==
    /\ \A c \in promised : Stored(c)
    /\ backend = "memory" => \A c \in announced : Stored(c)

\* A result that names a command of the service belongs to a stored one, even
\* when agents report on commands a bulk request announced and failed to store;
\* only the MemoryStore keeps results of a command that never existed.
ResultsOwned ==
    /\ \A c \in Command : results[c] # "none" => Stored(c)
    /\ results[Unknown] # "none" => backend = "memory"

\* With the MemoryStore the status of a command shows the result recorded last,
\* however often results are replaced.  (With the PostgresStore it stays QUEUED.)
MemoryStatusShowsResult ==
    backend = "memory" => \A c \in Command :
       Stored(c) => commands[c].status = CASE results[c] = "none" -> "QUEUED"
                                           [] results[c] = "zero" -> "SUCCESS"
                                           [] results[c] = "nonzero" -> "FAILED"

\* With the MemoryStore GetCommand never shows a result next to QUEUED,
\* though it reads the command before the result and results arrive between:
\* the record it encodes is the live one.
AnswerNotBehind ==
    backend = "memory" => \A r \in Request :
       req[r].at = "encode" /\ req[r].result # "none" => "QUEUED" \notin Shown(req[r])
=============================================================================
