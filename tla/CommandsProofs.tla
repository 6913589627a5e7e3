--------------------------- MODULE CommandsProofs ---------------------------
(***************************************************************************)
(* Proofs about Commands for every set of commands, devices and requests,  *)
(* any lists sent, either store and every pattern of failures.             *)
(***************************************************************************)
EXTENDS Commands, TLAPS

-----------------------------------------------------------------------------
(* The inductive invariant *)

\* What a request whose record is q holds between two calls: a command it
\* stored or read is stored; a bulk request has a device left for its next
\* round.  In memory the rounds it made stored their commands, and a result it
\* read is no result of a command that is still QUEUED.
RequestSound(q) ==
    /\ q.at \in {"command.queued", "result", "encode"} => q.cmd \in Command /\ Stored(q.cmd)
    /\ q.at \in {"bulk", "bulk.command.queued"} => q.cmd = NoCommand
    /\ q.at = "bulk" => q.todo # <<>>
    /\ backend = "memory" =>
         /\ \A c \in q.batch : Stored(c)
         /\ q.at = "encode" /\ q.result # "none" => commands[q.cmd].status # "QUEUED"

RequestsSound == \A r \in Request : RequestSound(req[r])

RowsSound == PromisedIsStored /\ ResultsOwned /\ MemoryStatusShowsResult

IInv == TypeOK /\ RowsSound /\ RequestsSound

-----------------------------------------------------------------------------
(* Operators *)

\* In memory no call fails.
LEMMA MemoryNeverFails == backend = "memory" => ~MayFail /\ \A x \in Outcome : x.applied /\ x.ok
  BY DEF MayFail, Outcome

LEMMA IdleRecord == Idle \in RequestState /\ Idle.at = "idle" /\ Idle.batch = {}
  BY DEF Idle, RequestState, Point, Result

\* The rest of the list a bulk request works through.
LEMMA ListRest ==
  ASSUME NEW S, NEW t \in Seq(S), t # <<>>
  PROVE  Head(t) \in S /\ Tail(t) \in Seq(S)
  OBVIOUS

-----------------------------------------------------------------------------
(* What one step leaves alone *)

\* Nothing removes a command, and no command becomes QUEUED again.
LEMMA CommandsStay ==
  ASSUME IInv, [Next]_vars
  PROVE  /\ backend' = backend
         /\ \A c \in Command : Stored(c) =>
               /\ commands'[c].status # "NONE"
               /\ commands[c].status # "QUEUED" => commands'[c].status # "QUEUED"
<1> DEFINE Kept == \A c \in Command : Stored(c) =>
                      /\ commands'[c].status # "NONE"
                      /\ commands[c].status # "QUEUED" => commands'[c].status # "QUEUED"
<1> USE DEF Stored
<1>1. backend' = backend
  BY DEF Next, vars, CreateCommand, BulkStart, BulkCommand, AnswerQueued, ReportResult,
         GetCommand, GetCommandResult, AnswerCommand, Restart
<1>2. ASSUME NEW c \in Fresh, NEW d, commands' \in {commands, Queued(c, d)} PROVE Kept
  BY <1>2 DEF Fresh, Queued, IInv, TypeOK
<1>3. ASSUME NEW r \in Request, CreateCommand(r) PROVE Kept
  BY <1>2, <1>3 DEF CreateCommand
<1>4. ASSUME NEW r \in Request, BulkCommand(r) PROVE Kept
  BY <1>2, <1>4 DEF BulkCommand
<1>5. ASSUME NEW r \in Request, ReportResult(r) PROVE Kept
  <2> PICK c \in Named, e \in {"zero", "nonzero"} : commands' = StatusAfter(c, e)
    BY <1>5 DEF ReportResult
  <2>1. CASE commands' = commands
    BY <2>1
  <2>2. CASE commands' # commands
    <3>1. commands' = [commands EXCEPT ![c].status = IF e = "zero" THEN "SUCCESS" ELSE "FAILED"]
      BY <2>2 DEF StatusAfter
    <3>2. \A k \in Command : commands'[k].status \in {commands[k].status, "SUCCESS", "FAILED"}
      BY <3>1 DEF IInv, TypeOK, CommandRecord
    <3>3. QED
      BY <3>2
  <2>3. QED
    BY <2>1, <2>2
<1>6. ASSUME commands' = commands PROVE Kept
  BY <1>6
<1> HIDE DEF Kept
<1>7. Kept
  BY <1>3, <1>4, <1>5, <1>6
     DEF Next, vars, BulkStart, AnswerQueued, GetCommand, GetCommandResult, AnswerCommand,
         Restart
<1>8. QED
  BY <1>1, <1>7 DEF Kept

\* What a request holds stays sound while others move, and when the answer it
\* encodes is torn.
LEMMA SoundStays ==
  ASSUME IInv, [Next]_vars, NEW r \in Request,
         req'[r] = req[r] \/ req'[r] = [req[r] EXCEPT !.torn = TRUE]
  PROVE  RequestSound(req[r])' /\ req'[r] \in RequestState
<1> PICK q \in RequestState : q = req[r]
  BY DEF IInv, TypeOK
<1>1. RequestSound(q)
  BY DEF IInv, RequestsSound
<1>2. q.batch \subseteq Command
  BY DEF RequestState
<1>3. ASSUME NEW p \in {q, [q EXCEPT !.torn = TRUE]}
      PROVE  RequestSound(p)' /\ p \in RequestState
  <2>1. /\ p.at = q.at /\ p.cmd = q.cmd /\ p.todo = q.todo /\ p.batch = q.batch
        /\ p.result = q.result /\ p \in RequestState
    BY <1>3 DEF RequestState
  <2>2. QED
    BY <1>1, <1>2, <2>1, CommandsStay DEF RequestSound, Stored
<1>4. PICK p \in {q, [q EXCEPT !.torn = TRUE]} : p = req'[r]
  OBVIOUS
<1>5. RequestSound(p)' /\ p \in RequestState
  BY <1>3
<1>6. QED
  BY <1>4, <1>5 DEF RequestSound

\* It is enough to look at the request that moves.
LEMMA OneMoves ==
  ASSUME IInv, [Next]_vars, NEW r \in Request, NEW p \in RequestState,
         req' = [req EXCEPT ![r] = p], RequestSound(p)'
  PROVE  req' \in [Request -> RequestState] /\ RequestsSound'
<1>1. req'[r] = p /\ \A s \in Request : s # r => req'[s] = req[s]
  BY DEF IInv, TypeOK
<1>2. RequestSound(req[r])'
  BY <1>1 DEF RequestSound
<1>3. \A s \in Request : RequestSound(req[s])'
  BY <1>1, <1>2, SoundStays
<1>4. QED
  BY <1>3 DEF IInv, TypeOK, RequestsSound

\* The rows are as they were.
LEMMA RowsStay ==
  ASSUME IInv, UNCHANGED <<backend, commands, results, promised, announced>>
  PROVE  RowsSound' /\ (req' \in [Request -> RequestState] => TypeOK')
  BY DEF IInv, TypeOK, RowsSound, PromisedIsStored, ResultsOwned,
         MemoryStatusShowsResult, Stored

\* A fresh command is stored, or the call failed before.
LEMMA RowInserted ==
  ASSUME IInv, NEW c \in Fresh, NEW d \in Device \cup {Stranger}, Inserted(d),
         commands' \in {commands, Queued(c, d)},
         UNCHANGED <<backend, results, promised, announced>>
  PROVE  RowsSound' /\ (req' \in [Request -> RequestState] => TypeOK')
<1>1. /\ c \in Command /\ ~Stored(c) /\ results[c] = "none"
      /\ c \notin promised /\ c \notin announced
  BY DEF Fresh, IInv, RowsSound, ResultsOwned
<1>2. CASE commands' = commands
  BY <1>2, RowsStay
<1>3. CASE commands' = Queued(c, d)
  <2>1. /\ commands' \in [Command -> CommandRecord]
        /\ commands'[c].status = "QUEUED" /\ commands'[c].device = d
        /\ \A k \in Command : k # c => commands'[k] = commands[k]
    BY <1>1, <1>3 DEF Queued, IInv, TypeOK, CommandRecord
  <2>2. backend = "postgres" => d # Stranger
    BY NoneAssumption DEF Inserted
  <2>3. req' \in [Request -> RequestState] => TypeOK'
    BY <1>1, <2>1, <2>2 DEF IInv, TypeOK
  <2>4. RowsSound'
    BY <1>1, <2>1
       DEF IInv, TypeOK, RowsSound, PromisedIsStored, ResultsOwned,
           MemoryStatusShowsResult, Stored
  <2>5. QED
    BY <2>3, <2>4
<1>4. QED
  BY <1>2, <1>3
-----------------------------------------------------------------------------
(* The invariant holds initially and every action preserves it *)

LEMMA InitIInv == Init => IInv
<1> SUFFICES ASSUME Init PROVE IInv
  OBVIOUS
<1>1. TypeOK
  BY NoneAssumption, BackendsAssumption, IdleRecord DEF Init, TypeOK, CommandRecord, Result
<1>2. RowsSound
  BY DEF Init, RowsSound, PromisedIsStored, ResultsOwned,
         MemoryStatusShowsResult, Stored
<1>3. RequestsSound
  BY IdleRecord DEF Init, RequestsSound, RequestSound
<1>4. QED
  BY <1>1, <1>2, <1>3 DEF IInv

LEMMA CreateCommandKeeps ==
  ASSUME IInv, [Next]_vars, NEW r \in Request, CreateCommand(r)
  PROVE  IInv'
<1> PICK c \in Fresh, d \in Device, x \in Outcome :
       /\ commands' = IF x.applied THEN Queued(c, d) ELSE commands
       /\ req' = [req EXCEPT ![r] = AfterCreate(c, x.ok)]
  BY DEF CreateCommand
<1>1. /\ UNCHANGED <<backend, results, promised, announced>>
      /\ Inserted(d) /\ c \in Command /\ (x.ok => x.applied)
  BY DEF CreateCommand, Inserted, Fresh, Outcome
<1>2. PICK p \in RequestState :
         /\ p = AfterCreate(c, x.ok)
         /\ p.at \in {"idle", "command.queued"} /\ p.batch = {}
         /\ p.at = "command.queued" => x.ok /\ p.cmd = c
  <2> DEFINE e == AfterCreate(c, x.ok)
  <2>1. CASE x.ok
    <3>1. /\ e \in RequestState /\ e.at = "command.queued" /\ e.batch = {} /\ e.cmd = c
      BY <1>1, <2>1, IdleRecord DEF AfterCreate, RequestState, Point
    <3>2. QED
      BY <2>1, <3>1
  <2>2. CASE ~x.ok
    <3>1. e = Idle
      BY <2>2 DEF AfterCreate
    <3>2. QED
      BY <3>1, IdleRecord
  <2>3. QED
    BY <2>1, <2>2
<1>3. x.applied => commands'[c].status = "QUEUED"
  BY <1>1 DEF Queued, IInv, TypeOK
<1>4. RequestSound(p)'
  BY <1>1, <1>2, <1>3 DEF RequestSound, Stored
<1>5. RowsSound' /\ (req' \in [Request -> RequestState] => TypeOK')
  BY <1>1, RowInserted
<1>6. QED
  BY <1>2, <1>4, <1>5, OneMoves DEF IInv

LEMMA BulkStartKeeps ==
  ASSUME IInv, [Next]_vars, NEW r \in Request, BulkStart(r)
  PROVE  IInv'
<1> PICK t \in Batch : req' = [req EXCEPT ![r] = [Idle EXCEPT !.at = "bulk", !.todo = t]]
  BY DEF BulkStart
<1>1. t \in Seq(Device \cup {Stranger}) /\ t # <<>>
  BY BatchAssumption
<1>2. PICK p \in RequestState :
         /\ p = [Idle EXCEPT !.at = "bulk", !.todo = t]
         /\ p.at = "bulk" /\ p.cmd = NoCommand /\ p.batch = {} /\ p.todo = t
  <2> DEFINE e == [Idle EXCEPT !.at = "bulk", !.todo = t]
  <2>1. e \in RequestState /\ e.at = "bulk" /\ e.cmd = NoCommand /\ e.batch = {} /\ e.todo = t
    BY <1>1 DEF Idle, RequestState, Point, Result
  <2> HIDE DEF e
  <2>2. QED
    BY <2>1 DEF e
<1>3. RequestSound(p)'
  BY <1>1, <1>2 DEF RequestSound
<1>4. RowsSound' /\ (req' \in [Request -> RequestState] => TypeOK')
  BY RowsStay DEF BulkStart
<1>5. QED
  BY <1>2, <1>3, <1>4, OneMoves DEF IInv

LEMMA BulkCommandKeeps ==
  ASSUME IInv, [Next]_vars, NEW r \in Request, BulkCommand(r)
  PROVE  IInv'
<1> PICK q \in RequestState : q = req[r]
  BY DEF IInv, TypeOK
<1>1. q.at = "bulk" /\ q.todo # <<>> /\ q.cmd = NoCommand /\ RequestSound(q)
  BY DEF BulkCommand, IInv, RequestsSound, RequestSound
<1>2. PICK d \in Device \cup {Stranger}, rest \in Seq(Device \cup {Stranger}) :
         d = Head(q.todo) /\ rest = Tail(q.todo)
  BY <1>1, ListRest DEF RequestState
<1>3. PICK c \in Fresh, x \in Outcome :
         /\ commands' = IF x.applied /\ Inserted(d) THEN Queued(c, d) ELSE commands
         /\ req' = [req EXCEPT ![r].todo = rest, ![r].batch = @ \cup {c},
                       ![r].at = IF rest = <<>> THEN "bulk.command.queued" ELSE "bulk"]
  BY <1>2 DEF BulkCommand
<1>4. c \in Command /\ UNCHANGED <<backend, results, promised, announced>>
  BY DEF Fresh, BulkCommand
<1>5. PICK p \in RequestState :
         /\ p = [q EXCEPT !.todo = rest, !.batch = @ \cup {c},
                          !.at = IF rest = <<>> THEN "bulk.command.queued" ELSE "bulk"]
         /\ p.todo = rest /\ p.batch = q.batch \cup {c} /\ p.cmd = q.cmd
         /\ p.at = IF rest = <<>> THEN "bulk.command.queued" ELSE "bulk"
  <2> DEFINE e == [q EXCEPT !.todo = rest, !.batch = @ \cup {c},
                            !.at = IF rest = <<>> THEN "bulk.command.queued" ELSE "bulk"]
  <2>1. /\ e \in RequestState
        /\ e.todo = rest /\ e.batch = q.batch \cup {c} /\ e.cmd = q.cmd
        /\ e.at = IF rest = <<>> THEN "bulk.command.queued" ELSE "bulk"
    BY <1>4 DEF RequestState, Point
  <2> HIDE DEF e
  <2>2. QED
    BY <2>1 DEF e
<1>6. req' = [req EXCEPT ![r] = p]
  BY <1>3, <1>5 DEF IInv, TypeOK
<1>7. RequestSound(p)'
  <2>1. backend = "memory" => commands'[c].status = "QUEUED"
    <3>1. backend = "memory" => x.applied /\ Inserted(d)
      BY MemoryNeverFails DEF Inserted
    <3>2. QED
      BY <1>3, <1>4, <3>1 DEF Queued, IInv, TypeOK
  <2>2. backend = "memory" => \A k \in q.batch : commands'[k].status # "NONE"
    BY <1>1, CommandsStay DEF RequestSound, RequestState
  <2>3. QED
    BY <1>1, <1>4, <1>5, <2>1, <2>2 DEF RequestSound, Stored
<1>8. RowsSound' /\ (req' \in [Request -> RequestState] => TypeOK')
  <2>1. CASE Inserted(d)
    BY <1>3, <1>4, <2>1, RowInserted
  <2>2. CASE ~Inserted(d)
    BY <1>3, <1>4, <2>2, RowsStay
  <2>3. QED
    BY <2>1, <2>2
<1>9. QED
  BY <1>6, <1>7, <1>8, OneMoves DEF IInv

LEMMA AnswerQueuedKeeps ==
  ASSUME IInv, [Next]_vars, NEW r \in Request, AnswerQueued(r)
  PROVE  IInv'
<1> PICK q \in RequestState : q = req[r]
  BY DEF IInv, TypeOK
<1>1. /\ q.at \in {"command.queued", "bulk.command.queued"}
      /\ promised' = promised \cup ({q.cmd} \ {NoCommand})
      /\ announced' = announced \cup q.batch
      /\ req' = [req EXCEPT ![r] = Idle]
      /\ UNCHANGED <<backend, commands, results>>
  BY DEF AnswerQueued
<1>2. RequestSound(q)
  BY DEF IInv, RequestsSound
<1>3. /\ \A c \in {q.cmd} \ {NoCommand} : c \in Command /\ Stored(c)
      /\ backend = "memory" => \A c \in q.batch : Stored(c)
      /\ q.batch \subseteq Command
  BY <1>1, <1>2 DEF RequestSound, RequestState
<1>4. RequestSound(Idle)'
  BY IdleRecord DEF RequestSound
<1>5. req' \in [Request -> RequestState] /\ RequestsSound'
  BY <1>1, <1>4, IdleRecord, OneMoves
<1>6. TypeOK'
  BY <1>1, <1>3, <1>5 DEF IInv, TypeOK
<1>7. RowsSound'
  BY <1>1, <1>3
     DEF IInv, RowsSound, PromisedIsStored, ResultsOwned,
         MemoryStatusShowsResult, Stored
<1>8. QED
  BY <1>5, <1>6, <1>7 DEF IInv

LEMMA ReportResultKeeps ==
  ASSUME IInv, [Next]_vars, NEW r \in Request, ReportResult(r)
  PROVE  IInv'
<1> PICK c \in Command \cup {Unknown}, e \in {"zero", "nonzero"} :
       /\ c # Unknown => Stored(c) \/ c \in announced
       /\ ResultKept(c)
       /\ results' = [results EXCEPT ![c] = e]
       /\ commands' = StatusAfter(c, e)
       /\ req' = [s \in Request |->
             IF req[s].at = "encode" /\ req[s].cmd = c /\ commands' # commands
             THEN [req[s] EXCEPT !.torn = TRUE] ELSE req[s]]
  <2>1. PICK k \in Named, e \in {"zero", "nonzero"} : ReportResult(r)!2!(k, e)
    BY DEF ReportResult
  <2>2. k \in Command \cup {Unknown} /\ (k # Unknown => Stored(k) \/ k \in announced)
    BY DEF Named, IInv, TypeOK
  <2>3. QED
    BY <2>1, <2>2
<1>1. /\ c # Unknown => c \in Command /\ Stored(c)
      /\ c = Unknown => backend = "memory" /\ commands' = commands
      /\ UNCHANGED <<backend, promised, announced>>
  BY DEF ReportResult, ResultKept, StatusAfter, IInv, TypeOK, RowsSound, PromisedIsStored
<1>2. \A s \in Request : RequestSound(req[s])' /\ req'[s] \in RequestState
  <2> SUFFICES ASSUME NEW s \in Request PROVE RequestSound(req[s])' /\ req'[s] \in RequestState
    OBVIOUS
  <2>1. req'[s] = req[s] \/ req'[s] = [req[s] EXCEPT !.torn = TRUE]
    OBVIOUS
  <2>2. QED
    BY <2>1, SoundStays
<1>3. /\ commands' \in [Command -> CommandRecord]
      /\ \A k \in Command : commands'[k].device = commands[k].device
      /\ \A k \in Command : k # c => commands'[k] = commands[k]
      /\ backend = "memory" /\ c # Unknown =>
            commands'[c].status = IF e = "zero" THEN "SUCCESS" ELSE "FAILED"
      /\ c # Unknown => commands'[c].status # "NONE"
  <2>1. CASE backend = "memory" /\ c # Unknown
    <3>1. commands' = [commands EXCEPT ![c].status = IF e = "zero" THEN "SUCCESS" ELSE "FAILED"]
      BY <1>1, <2>1 DEF StatusAfter
    <3>2. QED
      BY <1>1, <2>1, <3>1 DEF IInv, TypeOK, CommandRecord
  <2>2. CASE backend # "memory" \/ c = Unknown
    BY <1>1, <2>2 DEF StatusAfter, Stored, IInv, TypeOK
  <2>3. QED
    BY <2>1, <2>2
<1>4. /\ results' \in [Command \cup {Unknown} -> Result]
      /\ results'[c] = e
      /\ \A k \in Command \cup {Unknown} : k # c => results'[k] = results[k]
  BY DEF IInv, TypeOK, Result
<1>5. req' \in [Request -> RequestState]
  BY <1>2
<1>6. TypeOK'
  BY <1>1, <1>3, <1>4, <1>5 DEF IInv, TypeOK
<1>7. RowsSound'
  <2>0. PromisedIsStored /\ ResultsOwned /\ MemoryStatusShowsResult
    BY DEF IInv, RowsSound
  <2>1. \A k \in Command : Stored(k) => commands'[k].status # "NONE"
    BY <1>3, NoneAssumption DEF Stored
  <2>2. PromisedIsStored'
    BY <1>1, <2>0, <2>1 DEF IInv, TypeOK, PromisedIsStored, Stored
  <2>3. ResultsOwned'
    <3>1. ASSUME NEW k \in Command, results'[k] # "none" PROVE commands'[k].status # "NONE"
      BY <1>3, <1>4, <2>0, <2>1, <3>1, NoneAssumption DEF ResultsOwned
    <3>2. results'[Unknown] # "none" => backend' = "memory"
      BY <1>1, <1>4, <2>0 DEF ResultsOwned
    <3>3. QED
      BY <3>1, <3>2 DEF ResultsOwned, Stored
  <2>4. MemoryStatusShowsResult'
    BY <1>1, <1>3, <1>4, <2>0, NoneAssumption DEF MemoryStatusShowsResult, Stored
  <2>5. QED
    BY <2>2, <2>3, <2>4 DEF RowsSound
<1>8. QED
  BY <1>2, <1>6, <1>7 DEF IInv, RequestsSound

LEMMA GetCommandKeeps ==
  ASSUME IInv, [Next]_vars, NEW r \in Request, GetCommand(r)
  PROVE  IInv'
<1> PICK c \in Command :
       /\ Stored(c)
       /\ req' = [req EXCEPT ![r] = [Idle EXCEPT !.at = "result", !.cmd = c,
                                                 !.status = commands[c].status]]
  BY DEF GetCommand
<1>1. UNCHANGED <<backend, commands, results, promised, announced>>
  BY DEF GetCommand
<1>2. commands[c].status \in {"NONE", "QUEUED", "SUCCESS", "FAILED"}
  BY DEF IInv, TypeOK, CommandRecord
<1>3. PICK p \in RequestState :
         /\ p = [Idle EXCEPT !.at = "result", !.cmd = c, !.status = commands[c].status]
         /\ p.at = "result" /\ p.cmd = c /\ p.batch = {}
  <2> DEFINE e == [Idle EXCEPT !.at = "result", !.cmd = c, !.status = commands[c].status]
  <2>1. e \in RequestState /\ e.at = "result" /\ e.cmd = c /\ e.batch = {}
    BY <1>2, IdleRecord DEF RequestState, Point
  <2> HIDE DEF e
  <2>2. QED
    BY <2>1 DEF e
<1>4. RequestSound(p)'
  BY <1>1, <1>3 DEF RequestSound, Stored
<1>5. QED
  BY <1>1, <1>3, <1>4, OneMoves, RowsStay DEF IInv

LEMMA GetCommandResultKeeps ==
  ASSUME IInv, [Next]_vars, NEW r \in Request, GetCommandResult(r)
  PROVE  IInv'
<1> PICK q \in RequestState : q = req[r]
  BY DEF IInv, TypeOK
<1>1. /\ q.at = "result" /\ RequestSound(q) /\ q.cmd \in Command /\ Stored(q.cmd)
      /\ UNCHANGED <<backend, commands, results, promised, announced>>
  BY DEF GetCommandResult, IInv, RequestsSound, RequestSound
<1>2. PICK res \in {results[q.cmd], "none"} :
         req' = [req EXCEPT ![r].at = "encode", ![r].result = res]
  BY DEF GetCommandResult
<1>3. res \in Result
  BY <1>1 DEF IInv, TypeOK, Result
<1>4. PICK p \in RequestState :
         /\ p = [q EXCEPT !.at = "encode", !.result = res]
         /\ p.at = "encode" /\ p.cmd = q.cmd /\ p.batch = q.batch /\ p.result = res
  <2> DEFINE e == [q EXCEPT !.at = "encode", !.result = res]
  <2>1. /\ e \in RequestState
        /\ e.at = "encode" /\ e.cmd = q.cmd /\ e.batch = q.batch /\ e.result = res
    BY <1>3 DEF RequestState, Point
  <2> HIDE DEF e
  <2>2. QED
    BY <2>1 DEF e
<1>5. req' = [req EXCEPT ![r] = p]
  BY <1>2, <1>4 DEF IInv, TypeOK
<1>6. backend = "memory" /\ res # "none" => commands[q.cmd].status # "QUEUED"
  BY <1>1, <1>2, <1>3 DEF IInv, RowsSound, MemoryStatusShowsResult, Result
<1>7. RequestSound(p)'
  BY <1>1, <1>4, <1>6 DEF RequestSound, Stored
<1>8. QED
  BY <1>1, <1>5, <1>7, OneMoves, RowsStay DEF IInv

LEMMA NextIInv == IInv /\ [Next]_vars => IInv'
<1> SUFFICES ASSUME IInv, [Next]_vars PROVE IInv'
  OBVIOUS
<1>1. ASSUME NEW r \in Request, AnswerCommand(r) PROVE IInv'
  <2>1. RequestSound(Idle)'
    BY IdleRecord DEF RequestSound
  <2>2. QED
    BY <1>1, <2>1, IdleRecord, OneMoves, RowsStay DEF AnswerCommand, IInv
<1>2. CASE Restart
  <2>1. (\A r \in Request : RequestSound(req[r])') /\ req' \in [Request -> RequestState]
    BY <1>2, IdleRecord DEF Restart, RequestSound
  <2>2. QED
    BY <1>2, <2>1, RowsStay DEF Restart, IInv, RequestsSound
<1>3. CASE UNCHANGED vars
  <2>1. \A r \in Request : RequestSound(req[r])'
    BY <1>3, SoundStays DEF vars
  <2>2. QED
    BY <1>3, <2>1, RowsStay DEF vars, IInv, TypeOK, RequestsSound
<1>4. QED
  BY <1>1, <1>2, <1>3, CreateCommandKeeps, BulkStartKeeps, BulkCommandKeeps, AnswerQueuedKeeps,
     ReportResultKeeps, GetCommandKeeps, GetCommandResultKeeps
     DEF Next

\* Rows and requests keep their shape, answers and results are about stored
\* commands, and what a request holds between two calls stays valid.
THEOREM InvariantHolds == Spec => []IInv
  BY InitIInv, NextIInv, PTL DEF Spec

\* Type correctness; in PostgreSQL every row names an enrolled device.
THEOREM TypeCorrect == Spec => []TypeOK
  BY InvariantHolds, PTL DEF IInv

\* What CreateCommand answered as queued is stored, whichever call fails, and
\* with the MemoryStore every command of a bulk answer is.
THEOREM PromisesAreKept == Spec => []PromisedIsStored
<1>1. IInv => PromisedIsStored
  BY DEF IInv, RowsSound
<1>2. QED
  BY <1>1, InvariantHolds, PTL

\* In either store a result that names a command of the service belongs to a
\* stored one; a result of no command is kept by the MemoryStore alone.
THEOREM ResultsAreOwned == Spec => []ResultsOwned
<1>1. IInv => ResultsOwned
  BY DEF IInv, RowsSound
<1>2. QED
  BY <1>1, InvariantHolds, PTL

\* With the MemoryStore the status of a command shows its last result.
THEOREM MemoryStatusFollows == Spec => []MemoryStatusShowsResult
<1>1. IInv => MemoryStatusShowsResult
  BY DEF IInv, RowsSound
<1>2. QED
  BY <1>1, InvariantHolds, PTL

\* With the MemoryStore no answer shows a result next to QUEUED.
THEOREM AnswersNotBehind == Spec => []AnswerNotBehind
<1>1. IInv => AnswerNotBehind
  BY DEF IInv, RequestsSound, RequestSound, AnswerNotBehind, Shown
<1>2. QED
  BY <1>1, InvariantHolds, PTL
=============================================================================
