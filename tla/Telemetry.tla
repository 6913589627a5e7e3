------------------------------ MODULE Telemetry ------------------------------
(***************************************************************************)
(* Telemetry of the API service: samples that agents post, last_seen of    *)
(* their devices, and the answer a console gets.  Requests are sequences   *)
(* of atomic store calls, as in Enrollment.  A sample is the time it       *)
(* carries and whether it names the organization of its device; what was   *)
(* measured is left out, and so are the order in which a history is listed *)
(* and the status of the device the answer also carries.                   *)
(***************************************************************************)
EXTENDS Integers, Sequences, FiniteSets

CONSTANTS
    Device,
    Request,    \* request goroutines that may run at the same time
    Limits,     \* the limits of a history asked for; 0: without a history
    MaxTime,    \* bound: the clock stops there
    MaxSamples, \* bound: samples of one device
    Backends,   \* the stores main.go may choose: "memory", "postgres"
    Faults,     \* whether database calls may fail and the API restart
    NoDevice

ASSUME BackendsAssumption == Backends \subseteq {"memory", "postgres"}
ASSUME FaultsAssumption == Faults \in BOOLEAN
ASSUME BoundsAssumption == MaxTime \in Nat /\ MaxSamples \in Nat /\ Limits \subseteq Nat
ASSUME RequestAssumption == IsFiniteSet(Request)
ASSUME NoneAssumption == NoDevice \notin Device

VARIABLES
    backend,    \* the store main.go chose, once
    clock,      \* time.Now and NOW()
    devices,    \* the devices that are enrolled
    seen,       \* last_seen of each device, NoTime when it is NULL
    samples,    \* the rows of device_telemetry per device, as they were stored
    req         \* the local state of every request goroutine

vars == <<backend, clock, devices, seen, samples, req>>

-----------------------------------------------------------------------------
Time == 0 .. MaxTime
NoTime == -1

Sample == [stamp : Time, own : BOOLEAN]

Point == {"idle", "insert", "update", "latest", "history", "respond"}

\* stamp: when the handler, then the last call, was done; seen: last_seen as
\* GetDevice returned it; latest, history: the samples read, by position.
RequestState ==
    [at : Point, dev : Device \cup {NoDevice}, own : BOOLEAN, stamp : Time, limit : Limits \cup {0},
     seen : Time \cup {NoTime}, latest : SUBSET Nat, history : SUBSET Nat]

Idle == [at |-> "idle", dev |-> NoDevice, own |-> TRUE, stamp |-> 0, limit |-> 0,
         seen |-> NoTime, latest |-> {}, history |-> {}]

\* As in Enrollment.
MayFail == Faults /\ backend = "postgres"

Outcome == {x \in [applied : BOOLEAN, ok : BOOLEAN] :
               /\ x.ok => x.applied
               /\ ~MayFail => x.ok}

Inserting(d) == {r \in Request : req[r].at = "insert" /\ req[r].dev = d}

\* Slips the properties are tested against stand before the definitions.
ReferencesAny(d) == TRUE

\* The foreign key of device_telemetry.device_id.  Devices are never deleted.
References(d) == d \in devices

-----------------------------------------------------------------------------
\* NewMemoryStore seeds devices it says were seen at its start; a database has
\* those enrolled before.
Init ==
    /\ backend \in Backends
    /\ clock = 0
    /\ devices \in SUBSET Device
    /\ seen = [d \in Device |-> IF backend = "memory" /\ d \in devices THEN 0 ELSE NoTime]
    /\ samples = [d \in Device |-> <<>>]
    /\ req = [r \in Request |-> Idle]

(* A device enrolls under an identifier of uuid.New that nobody has used.
   Handshake sets last_seen to the time it drew before RegisterDevice, whose
   INSERT in PostgreSQL does not name the column. *)
Enroll(d) ==
    /\ d \notin devices
    /\ samples[d] = <<>>
    /\ \A r \in Request : req[r].dev # d
    /\ devices' = devices \cup {d}
    /\ IF backend = "memory" THEN \E t \in 0 .. clock : seen' = [seen EXCEPT ![d] = t]
       ELSE UNCHANGED seen
    /\ UNCHANGED <<backend, clock, samples, req>>

(* IngestTelemetry, up to its store call: device and organization are those
   the request names, and the handler looks at the clock. *)
Ingest(r) ==
    /\ req[r].at = "idle"
    /\ \E d \in Device, own \in BOOLEAN :
          /\ Len(samples[d]) + Cardinality(Inserting(d)) < MaxSamples
          /\ req' = [req EXCEPT ![r] = [Idle EXCEPT !.at = "insert", !.dev = d,
                                                    !.own = own, !.stamp = clock]]
    /\ UNCHANGED <<backend, clock, devices, seen, samples>>

Stored(d, t, own) == [samples EXCEPT ![d] = Append(@, [stamp |-> t, own |-> own])]

(* SaveTelemetry of the MemoryStore, whether or not it knows the device; the
   sample keeps the handler's time, last_seen becomes the time of the call. *)
SaveInMemory(r) ==
    /\ backend = "memory"
    /\ req[r].at = "insert"
    /\ samples' = Stored(req[r].dev, req[r].stamp, req[r].own)
    /\ seen' = [seen EXCEPT ![req[r].dev] = IF req[r].dev \in devices THEN clock ELSE @]
    /\ req' = [req EXCEPT ![r] = Idle]
    /\ UNCHANGED <<backend, clock, devices>>

ProceedsAlways(x, d) == TRUE

\* SaveTelemetry of the PostgresStore returns the error of the INSERT.
Proceeds(x, d) == x.ok /\ References(d)

(* SaveTelemetry of the PostgresStore, the INSERT: recorded_at is NOW(), the
   time at which the statement started. *)
SaveInsert(r) ==
    /\ backend = "postgres"
    /\ req[r].at = "insert"
    /\ LET d == req[r].dev
       IN  \E x \in Outcome, t \in req[r].stamp .. clock :
             /\ samples' = IF x.applied /\ References(d) THEN Stored(d, t, req[r].own) ELSE samples
             /\ req' = [req EXCEPT ![r] =
                   IF Proceeds(x, d) THEN [Idle EXCEPT !.at = "update", !.dev = d, !.stamp = clock]
                                     ELSE Idle]
    /\ UNCHANGED <<backend, clock, devices, seen>>

(* SaveTelemetry of the PostgresStore, the UPDATE: NOW() again, of a statement
   that may have waited for the row. *)
SaveUpdate(r) ==
    /\ req[r].at = "update"
    /\ \E x \in Outcome, t \in req[r].stamp .. clock :
          seen' = IF x.applied /\ req[r].dev \in devices
                    THEN [seen EXCEPT ![req[r].dev] = t] ELSE seen
    /\ req' = [req EXCEPT ![r] = Idle]
    /\ UNCHANGED <<backend, clock, devices, samples>>

-----------------------------------------------------------------------------
Stamp(d, i) == samples[d][i].stamp

\* The samples of d that a query of its organization finds.
OwnRows(d) == {i \in DOMAIN samples[d] : samples[d][i].own}

\* What ORDER BY recorded_at DESC LIMIT n may return of the rows.
Newest(d, rows, n) ==
    {top \in SUBSET rows :
        /\ Cardinality(top) = IF Cardinality(rows) < n THEN Cardinality(rows) ELSE n
        /\ \A i \in top, j \in rows \ top : Stamp(d, j) <= Stamp(d, i)}

\* Without DESC.
Oldest(d, rows, n) ==
    {top \in SUBSET rows :
        /\ Cardinality(top) = IF Cardinality(rows) < n THEN Cardinality(rows) ELSE n
        /\ \A i \in top, j \in rows \ top : Stamp(d, i) <= Stamp(d, j)}

\* GetLatestTelemetry: in memory the sample stored last, of any organization,
\* which need not be the newest when requests overlap.
Latest(d) ==
    IF backend = "memory" THEN {{i \in DOMAIN samples[d] : i = Len(samples[d])}}
    ELSE Newest(d, OwnRows(d), 1)

HistoryAscending(d, n) ==
    IF backend = "memory" THEN {DOMAIN samples[d]} ELSE Oldest(d, OwnRows(d), n)

\* GetTelemetryHistory: in memory all samples, whatever the limit.
History(d, n) == IF backend = "memory" THEN {DOMAIN samples[d]} ELSE Newest(d, OwnRows(d), n)

\* How many rows are read of a history of n: rows.Err is never asked, so that a
\* connection lost while they arrive ends the history early.
RowsRead(n) == IF MayFail THEN 0 .. n ELSE {n}

(* GetDeviceTelemetry, first call: GetDevice finds the device. *)
GetDevice(r) ==
    /\ req[r].at = "idle"
    /\ \E d \in devices, n \in Limits :
          req' = [req EXCEPT ![r] = [Idle EXCEPT !.at = "latest", !.dev = d,
                                                 !.limit = n, !.seen = seen[d]]]
    /\ UNCHANGED <<backend, clock, devices, seen, samples>>

(* GetLatestTelemetry: the handler drops its error, and that of the next call. *)
GetLatest(r) ==
    /\ req[r].at = "latest"
    /\ \E top \in Latest(req[r].dev) \cup (IF MayFail THEN {{}} ELSE {}) :
          req' = [req EXCEPT ![r].at = IF req[r].limit = 0 THEN "respond" ELSE "history",
                             ![r].latest = top]
    /\ UNCHANGED <<backend, clock, devices, seen, samples>>

GetHistory(r) ==
    /\ req[r].at = "history"
    /\ \E n \in RowsRead(req[r].limit) : \E top \in History(req[r].dev, n) :
          req' = [req EXCEPT ![r].at = "respond", ![r].history = top]
    /\ UNCHANGED <<backend, clock, devices, seen, samples>>

ShownSeenCopied(r) == req[r].seen

\* The last_seen of the answer: the MemoryStore's GetDevice returned a pointer
\* to the device itself, which SaveTelemetry may have changed meanwhile.
ShownSeen(r) == IF backend = "memory" THEN seen[req[r].dev] ELSE req[r].seen

(* The answer is written. *)
Respond(r) ==
    /\ req[r].at = "respond"
    /\ req' = [req EXCEPT ![r] = Idle]
    /\ UNCHANGED <<backend, clock, devices, seen, samples>>

Restart ==
    /\ MayFail
    /\ \E r \in Request : req[r].at # "idle"
    /\ req' = [r \in Request |-> Idle]
    /\ UNCHANGED <<backend, clock, devices, seen, samples>>

Tick ==
    /\ clock < MaxTime
    /\ clock' = clock + 1
    /\ UNCHANGED <<backend, devices, seen, samples, req>>

Next ==
    \/ \E d \in Device : Enroll(d)
    \/ \E r \in Request :
          \/ Ingest(r) \/ SaveInMemory(r) \/ SaveInsert(r) \/ SaveUpdate(r)
          \/ GetDevice(r) \/ GetLatest(r) \/ GetHistory(r) \/ Respond(r)
    \/ Restart
    \/ Tick

Spec == Init /\ [][Next]_vars

-----------------------------------------------------------------------------
(* Properties *)

\* Every variable keeps its shape, and in PostgreSQL every sample is one of an
\* enrolled device.
TypeOK ==
    /\ backend \in {"memory", "postgres"}
    /\ clock \in Time
    /\ devices \subseteq Device
    /\ seen \in [Device -> Time \cup {NoTime}]
    /\ samples \in [Device -> Seq(Sample)]
    /\ \A d \in Device : backend = "postgres" /\ samples[d] # <<>> => d \in devices
    /\ req \in [Request -> RequestState]

\* The history of an answer, read after its latest sample in a call of its own,
\* contains that sample or only samples that are not older: neither the limit
\* nor a history that ends early leaves a gap behind the latest sample.
HistoryReachesLatest ==
    \A r \in Request : req[r].at = "respond" =>
       \A i \in req[r].latest :
          \/ i \in req[r].history
          \/ \A j \in req[r].history : Stamp(req[r].dev, i) <= Stamp(req[r].dev, j)

\* With the MemoryStore an answer never shows a sample younger than the
\* last_seen next to it, though samples arrive while it is put together.
MemoryAnswerCurrent ==
    backend = "memory" => \A r \in Request : req[r].at = "respond" =>
       \A i \in req[r].latest \cup req[r].history : Stamp(req[r].dev, i) <= ShownSeen(r)

\* The last_seen of an enrolled device moves only to a time at which a sample of
\* the device was stored already, whichever of the two statements fails.
SeenFollowsSample ==
    [][\A d \in Device :
          d \in devices /\ seen'[d] # seen[d] =>
             \E i \in DOMAIN samples'[d] : samples'[d][i].stamp <= seen'[d]]_vars
=============================================================================
