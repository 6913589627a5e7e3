--------------------------- MODULE TelemetryProofs ---------------------------
(***************************************************************************)
(* Proofs about Telemetry for every set of devices, requests and limits,   *)
(* every bound of the clock and of the samples, either store and every     *)
(* pattern of failures.                                                    *)
(***************************************************************************)
EXTENDS Telemetry, TLAPS

-----------------------------------------------------------------------------
(* The inductive invariant *)

\* last_seen is never ahead of the clock, and in memory never behind a sample
\* of an enrolled device.
SeenSound ==
    \A d \in Device :
       /\ seen[d] <= clock
       /\ backend = "memory" /\ d \in devices =>
             \A i \in DOMAIN samples[d] : samples[d][i].stamp <= seen[d]

\* What the state q of a request may hold: a time that has passed and samples
\* that are still stored; only a request to PostgreSQL that has stored its
\* sample updates last_seen.
RequestSound(q) ==
    /\ q.stamp <= clock
    /\ q.at # "idle" => q.dev \in Device
    /\ q.at \in {"update", "latest", "history", "respond"} => q.dev \in devices
    /\ q.at \in {"latest", "history", "respond"} =>
          q.latest \cup q.history \subseteq DOMAIN samples[q.dev]
    /\ q.at = "update" =>
          /\ backend = "postgres"
          /\ \E i \in DOMAIN samples[q.dev] : samples[q.dev][i].stamp <= q.stamp

RequestsSound == \A r \in Request : RequestSound(req[r])

IInv == TypeOK /\ SeenSound /\ RequestsSound

\* What the state q of a request that reads has read: nothing of the history
\* before its turn; in PostgreSQL a latest sample that the query of the history
\* finds as well; and then a history that does not pass the latest sample over.
AnswerSound(q) ==
    /\ q.at \in {"latest", "history"} => q.history = {}
    /\ backend = "postgres" /\ q.at \in {"history", "respond"} =>
          \A i \in q.latest : samples[q.dev][i].own
    /\ q.at = "respond" =>
          \A i \in q.latest :
             \/ i \in q.history
             \/ \A j \in q.history : samples[q.dev][i].stamp <= samples[q.dev][j].stamp

AnswersSound == \A r \in Request : AnswerSound(req[r])

-----------------------------------------------------------------------------
(* Operators *)

\* Storing a sample keeps those before it where they are.
LEMMA StoredKeeps ==
  ASSUME TypeOK, NEW d \in Device, NEW t \in Time, NEW own \in BOOLEAN
  PROVE  /\ Stored(d, t, own) \in [Device -> Seq(Sample)]
         /\ \A e \in Device : e # d => Stored(d, t, own)[e] = samples[e]
         /\ DOMAIN samples[d] \subseteq DOMAIN Stored(d, t, own)[d]
         /\ \A i \in DOMAIN samples[d] : Stored(d, t, own)[d][i] = samples[d][i]
         /\ \E k \in DOMAIN Stored(d, t, own)[d] :
               /\ Stored(d, t, own)[d][k].stamp = t
               /\ DOMAIN Stored(d, t, own)[d] = DOMAIN samples[d] \cup {k}
<1> DEFINE new == [stamp |-> t, own |-> own]
<1>1. new \in Sample /\ new.stamp = t
  BY DEF Sample
<1>2. samples[d] \in Seq(Sample) /\ samples \in [Device -> Seq(Sample)]
  BY DEF TypeOK
<1> HIDE DEF new
<1>3. /\ Append(samples[d], new) \in Seq(Sample)
      /\ DOMAIN Append(samples[d], new) = DOMAIN samples[d] \cup {Len(samples[d]) + 1}
      /\ Append(samples[d], new)[Len(samples[d]) + 1] = new
      /\ \A i \in DOMAIN samples[d] : Append(samples[d], new)[i] = samples[d][i]
  BY <1>1, <1>2
<1>4. Stored(d, t, own) = [samples EXCEPT ![d] = Append(samples[d], new)]
  BY DEF Stored, new
<1> QED
  BY <1>1, <1>2, <1>3, <1>4

\* The same of a step that stores a sample.
LEMMA StoringKeeps ==
  ASSUME TypeOK, NEW d \in Device, NEW t \in Time, NEW own \in BOOLEAN,
         samples' = Stored(d, t, own)
  PROVE  /\ samples' \in [Device -> Seq(Sample)]
         /\ \A e \in Device : e # d => samples'[e] = samples[e]
         /\ \A e \in Device : /\ DOMAIN samples[e] \subseteq DOMAIN samples'[e]
                              /\ \A i \in DOMAIN samples[e] : samples'[e][i] = samples[e][i]
         /\ \E k \in DOMAIN samples'[d] :
               samples'[d][k].stamp = t /\ DOMAIN samples'[d] = DOMAIN samples[d] \cup {k}
<1> DEFINE after == Stored(d, t, own)
<1>1. /\ after \in [Device -> Seq(Sample)]
      /\ \A e \in Device : e # d => after[e] = samples[e]
      /\ DOMAIN samples[d] \subseteq DOMAIN after[d]
      /\ \A i \in DOMAIN samples[d] : after[d][i] = samples[d][i]
      /\ \E k \in DOMAIN after[d] :
            after[d][k].stamp = t /\ DOMAIN after[d] = DOMAIN samples[d] \cup {k}
  BY StoredKeeps
<1>2. samples' = after
  OBVIOUS
<1> HIDE DEF after
<1>3. \A e \in Device : /\ DOMAIN samples[e] \subseteq DOMAIN after[e]
                        /\ \A i \in DOMAIN samples[e] : after[e][i] = samples[e][i]
  BY <1>1
<1> QED
  BY <1>1, <1>2, <1>3

\* What a query returns are positions of stored samples.
LEMMA ReadsAreRows ==
  ASSUME TypeOK, NEW d \in Device, NEW n
  PROVE  /\ \A top \in Latest(d) \cup History(d, n) : top \subseteq DOMAIN samples[d]
         /\ DOMAIN samples[d] \subseteq Nat
<1>1. samples[d] \in Seq(Sample)
  BY DEF TypeOK
<1>2. DOMAIN samples[d] \subseteq Nat
  BY <1>1
<1>3. OwnRows(d) \subseteq DOMAIN samples[d]
  BY DEF OwnRows
<1>4. \A m : \A top \in Newest(d, OwnRows(d), m) : top \subseteq DOMAIN samples[d]
  BY <1>3 DEF Newest
<1> QED
  BY <1>2, <1>4 DEF Latest, History

-----------------------------------------------------------------------------
(* The invariant holds initially and every action preserves it *)

\* The stores start sound: nothing is stored and nobody asks.
LEMMA InitIInv == Init => IInv
<1> SUFFICES ASSUME Init PROVE IInv
  OBVIOUS
<1>1. 0 \in Time /\ -1 <= 0
  BY BoundsAssumption DEF Time
<1>2. TypeOK
  BY <1>1, BackendsAssumption DEF Init, TypeOK, Time, NoTime, RequestState, Point, Idle, Sample
<1>3. SeenSound
  BY <1>1 DEF Init, SeenSound, NoTime
<1>4. RequestsSound
  BY <1>1 DEF Init, RequestsSound, RequestSound, Idle
<1> QED
  BY <1>2, <1>3, <1>4 DEF IInv

\* Time goes on and devices and samples stay, so that a sound request that does
\* not move stays sound.
LEMMA SoundStays ==
  ASSUME TypeOK, clock' \in Time, clock <= clock', backend' = backend, devices \subseteq devices',
         \A d \in Device : /\ DOMAIN samples[d] \subseteq DOMAIN samples'[d]
                           /\ \A i \in DOMAIN samples[d] : samples'[d][i] = samples[d][i],
         NEW q \in RequestState, RequestSound(q)
  PROVE  RequestSound(q)'
<1>1. q.stamp \in Int /\ clock \in Int /\ clock' \in Int
  BY BoundsAssumption DEF TypeOK, RequestState, Time
<1>2. q.stamp <= clock'
  BY <1>1 DEF RequestSound
<1>3. CASE q.at = "update"
  <2>1. q.dev \in Device /\ backend = "postgres" /\ q.dev \in devices
    BY <1>3 DEF RequestSound
  <2>2. PICK i \in DOMAIN samples[q.dev] : samples[q.dev][i].stamp <= q.stamp
    BY <1>3 DEF RequestSound
  <2>3. i \in DOMAIN samples'[q.dev] /\ samples'[q.dev][i].stamp <= q.stamp
    BY <2>1, <2>2
  <2> QED
    BY <1>2, <1>3, <2>1, <2>3 DEF RequestSound
<1>4. CASE q.at # "update"
  <2>1. q.at \in {"latest", "history", "respond"} => DOMAIN samples[q.dev] \subseteq DOMAIN samples'[q.dev]
    BY DEF RequestSound
  <2> QED
    BY <1>2, <1>4, <2>1 DEF RequestSound
<1> QED
  BY <1>3, <1>4

\* So it is enough to look at the request that moved.
LEMMA OneMoves ==
  ASSUME IInv, clock' = clock, backend' = backend, devices' = devices,
         \A d \in Device : /\ DOMAIN samples[d] \subseteq DOMAIN samples'[d]
                           /\ \A i \in DOMAIN samples[d] : samples'[d][i] = samples[d][i],
         NEW r \in Request, NEW q \in RequestState, RequestSound(q)',
         req' = [req EXCEPT ![r] = q]
  PROVE  req' \in [Request -> RequestState] /\ RequestsSound'
<1>1. req \in [Request -> RequestState] /\ TypeOK /\ clock \in Time /\ clock <= clock
  BY BoundsAssumption DEF IInv, TypeOK, Time
<1>2. req'[r] = q /\ \A s \in Request \ {r} : req'[s] = req[s]
  BY <1>1
<1>3. ASSUME NEW s \in Request \ {r} PROVE RequestSound(req[s])'
  <2>1. PICK p \in RequestState : p = req[s] /\ p = req'[s]
    BY <1>1, <1>2
  <2>2. RequestSound(p)
    BY <2>1 DEF IInv, RequestsSound
  <2>3. RequestSound(p)'
    BY <1>1, <2>2, SoundStays
  <2> QED
    BY <2>1, <2>3 DEF RequestSound
<1>4. RequestSound(req[r])'
  BY <1>2 DEF RequestSound
<1> QED
  BY <1>1, <1>3, <1>4 DEF RequestsSound

\* A step of one request that neither stores a sample nor changes last_seen.
LEMMA ReadStep ==
  ASSUME IInv, UNCHANGED <<backend, clock, devices, seen, samples>>,
         NEW r \in Request, NEW q \in RequestState, RequestSound(q),
         req' = [req EXCEPT ![r] = q]
  PROVE  IInv'
<1>1. RequestSound(q)'
  BY DEF RequestSound
<1>2. req' \in [Request -> RequestState] /\ RequestsSound'
  BY <1>1, OneMoves
<1>3. TypeOK' /\ SeenSound'
  BY <1>2 DEF IInv, TypeOK, SeenSound
<1> QED
  BY <1>2, <1>3 DEF IInv

\* A request without a sample or a device is sound.
LEMMA IdleSound ==
  ASSUME IInv
  PROVE  Idle \in RequestState /\ RequestSound(Idle) /\ (clock' = clock => RequestSound(Idle)')
<1>1. clock \in Time /\ 0 \in Time /\ 0 <= clock
  BY BoundsAssumption DEF IInv, TypeOK, Time
<1>2. Idle.at = "idle" /\ Idle.stamp = 0
  BY DEF Idle
<1>3. Idle \in RequestState
  BY <1>1 DEF Idle, RequestState, Point
<1> QED
  BY <1>1, <1>2, <1>3 DEF RequestSound

\* A device that enrolls has no sample yet, so any last_seen will do.
LEMMA EnrollIInv == ASSUME IInv, NEW d \in Device, Enroll(d) PROVE IInv'
<1>1. /\ backend' = backend /\ clock' = clock /\ samples' = samples /\ req' = req
      /\ devices' = devices \cup {d} /\ samples[d] = <<>>
  BY DEF Enroll
<1>2. clock \in Time /\ clock \in Nat /\ Time \subseteq Nat
  BY BoundsAssumption DEF IInv, TypeOK, Time
<1>3. PICK t \in Time \cup {NoTime} : t <= clock /\ seen' = [seen EXCEPT ![d] = t]
  <2>1. CASE backend = "memory"
    <3>1. \A t \in 0 .. clock : t \in Time /\ t <= clock
      BY <1>2, BoundsAssumption DEF Time
    <3> QED
      BY <2>1, <3>1 DEF Enroll
  <2>2. CASE backend # "memory"
    <3>1. seen[d] \in Time \cup {NoTime} /\ seen[d] <= clock /\ seen' = [seen EXCEPT ![d] = seen[d]]
      BY <2>2 DEF IInv, TypeOK, SeenSound, Enroll
    <3> QED
      BY <3>1
  <2> QED
    BY <2>1, <2>2
<1>4. TypeOK'
  BY <1>1, <1>3 DEF IInv, TypeOK
<1>5. SeenSound'
  BY <1>1, <1>3 DEF IInv, TypeOK, SeenSound
<1>6. RequestsSound'
  BY <1>1 DEF IInv, RequestsSound, RequestSound
<1> QED
  BY <1>4, <1>5, <1>6 DEF IInv

\* The handler's time is the clock.
LEMMA IngestIInv == ASSUME IInv, NEW r \in Request, Ingest(r) PROVE IInv'
<1>1. PICK d \in Device, own \in BOOLEAN :
         req' = [req EXCEPT ![r] = [Idle EXCEPT !.at = "insert", !.dev = d,
                                                !.own = own, !.stamp = clock]]
  BY DEF Ingest
<1> DEFINE q == [Idle EXCEPT !.at = "insert", !.dev = d, !.own = own, !.stamp = clock]
<1>2. /\ q.at = "insert" /\ q.dev = d /\ q.stamp = clock
      /\ q \in RequestState
  BY IdleSound DEF IInv, TypeOK, Idle, RequestState, Point
<1>3. clock <= clock
  BY BoundsAssumption DEF IInv, TypeOK, Time
<1>4. req' = [req EXCEPT ![r] = q] /\ UNCHANGED <<backend, clock, devices, seen, samples>>
  BY <1>1 DEF Ingest
<1> HIDE DEF q
<1>5. RequestSound(q)
  BY <1>2, <1>3 DEF RequestSound
<1> QED
  BY <1>2, <1>4, <1>5, ReadStep

\* last_seen becomes the clock, which no sample is ahead of.
LEMMA SaveInMemoryIInv == ASSUME IInv, NEW r \in Request, SaveInMemory(r) PROVE IInv'
<1> DEFINE d == req[r].dev
           t == req[r].stamp
<1>1. /\ backend = "memory" /\ backend' = backend /\ clock' = clock /\ devices' = devices
      /\ samples' = Stored(d, t, req[r].own)
      /\ seen' = [seen EXCEPT ![d] = IF d \in devices THEN clock ELSE @]
      /\ req' = [req EXCEPT ![r] = Idle]
  BY DEF SaveInMemory
<1>2. /\ TypeOK /\ req[r] \in RequestState /\ d \in Device
      /\ t \in Time /\ req[r].own \in BOOLEAN /\ t <= clock
  BY DEF IInv, TypeOK, RequestsSound, RequestSound, RequestState, SaveInMemory
<1>3. clock \in Nat
  BY BoundsAssumption DEF IInv, TypeOK, Time
<1> HIDE DEF d, t
<1>4. \A e \in Device : /\ DOMAIN samples[e] \subseteq DOMAIN samples'[e]
                        /\ \A i \in DOMAIN samples[e] : samples'[e][i] = samples[e][i]
  BY <1>1, <1>2, StoringKeeps
<1>5. req' \in [Request -> RequestState] /\ RequestsSound'
  BY <1>1, <1>4, IdleSound, OneMoves
<1>6. samples' \in [Device -> Seq(Sample)]
  BY <1>1, <1>2, StoringKeeps
<1>7. TypeOK'
  BY <1>1, <1>2, <1>5, <1>6 DEF TypeOK
<1>8. ASSUME NEW e \in Device
      PROVE  /\ seen'[e] <= clock'
             /\ e \in devices => \A i \in DOMAIN samples'[e] : samples'[e][i].stamp <= seen'[e]
  <2>1. CASE e = d
    <3>1. seen'[e] = IF e \in devices THEN clock ELSE seen[e]
      BY <1>1, <1>2, <2>1 DEF TypeOK
    <3>2. ASSUME e \in devices, NEW i \in DOMAIN samples'[e] PROVE samples'[e][i].stamp <= clock
      <4>1. PICK k \in DOMAIN samples'[d] :
               samples'[d][k].stamp = t /\ DOMAIN samples'[d] = DOMAIN samples[d] \cup {k}
        BY <1>1, <1>2, StoringKeeps
      <4>2. CASE i = k
        BY <1>2, <2>1, <4>1, <4>2
      <4>3. CASE i \in DOMAIN samples[d]
        <5>1. samples[d] \in Seq(Sample) /\ samples[d][i] \in Sample
          BY <1>2, <4>3 DEF TypeOK
        <5>2. samples[d][i].stamp \in Int /\ samples[d][i].stamp <= seen[d] /\ seen[d] <= clock
          BY <1>1, <2>1, <3>2, <4>3, <5>1, BoundsAssumption DEF IInv, SeenSound, Sample, Time
        <5>3. seen[d] \in Int
          BY <1>2, BoundsAssumption DEF TypeOK, Time, NoTime
        <5> QED
          BY <1>3, <1>4, <2>1, <4>3, <5>2, <5>3
      <4> QED
        BY <2>1, <4>1, <4>2, <4>3
    <3> QED
      BY <1>1, <1>3, <3>1, <3>2 DEF IInv, SeenSound
  <2>2. CASE e # d
    BY <1>1, <1>2, <2>2, StoringKeeps DEF IInv, TypeOK, SeenSound
  <2> QED
    BY <2>1, <2>2
<1>9. SeenSound'
  BY <1>1, <1>8 DEF SeenSound
<1> QED
  BY <1>5, <1>7, <1>9 DEF IInv

\* A request goes on to the update only when its sample is stored.
LEMMA SaveInsertIInv == ASSUME IInv, NEW r \in Request, SaveInsert(r) PROVE IInv'
<1> DEFINE d == req[r].dev
           moved == [Idle EXCEPT !.at = "update", !.dev = d, !.stamp = clock]
<1>1. PICK x \in Outcome, t \in req[r].stamp .. clock :
         /\ samples' = IF x.applied /\ References(d) THEN Stored(d, t, req[r].own) ELSE samples
         /\ req' = [req EXCEPT ![r] = IF Proceeds(x, d) THEN moved ELSE Idle]
  BY DEF SaveInsert
<1>2. /\ backend = "postgres" /\ backend' = backend /\ clock' = clock
      /\ devices' = devices /\ seen' = seen
  BY DEF SaveInsert
<1>3. /\ TypeOK /\ req[r] \in RequestState /\ d \in Device /\ req[r].own \in BOOLEAN
      /\ clock \in Time /\ req[r].stamp \in Time
  BY DEF IInv, TypeOK, RequestsSound, RequestSound, RequestState, SaveInsert
<1>4. t \in Time /\ t <= clock /\ clock \in Nat
  BY <1>3, BoundsAssumption DEF Time
<1>5. PICK q \in RequestState :
         q = moved /\ q.at = "update" /\ q.dev = d /\ q.stamp = clock
  <2>1. /\ moved.at = "update" /\ moved.dev = d /\ moved.stamp = clock
        /\ moved \in RequestState
    BY <1>3, IdleSound DEF Idle, RequestState, Point
  <2> HIDE DEF moved
  <2> QED
    BY <2>1
<1> HIDE DEF d, moved
<1>6. /\ samples' \in [Device -> Seq(Sample)]
      /\ \A e \in Device : /\ DOMAIN samples[e] \subseteq DOMAIN samples'[e]
                           /\ \A i \in DOMAIN samples[e] : samples'[e][i] = samples[e][i]
      /\ \A e \in Device : e # d => samples'[e] = samples[e]
  <2>1. CASE samples' = Stored(d, t, req[r].own)
    BY <1>3, <1>4, <2>1, StoringKeeps
  <2>2. CASE samples' = samples
    BY <1>3, <2>2 DEF TypeOK
  <2> QED
    BY <1>1, <2>1, <2>2
<1>7. \A e \in Device : samples'[e] # <<>> => e \in devices
  BY <1>1, <1>2, <1>3, <1>6 DEF TypeOK, References
<1>8. req' \in [Request -> RequestState] /\ RequestsSound'
  <2>1. CASE Proceeds(x, d)
    <3>1. d \in devices /\ samples' = Stored(d, t, req[r].own)
      BY <1>1, <2>1 DEF Proceeds, References, Outcome
    <3>2. PICK k \in DOMAIN samples'[d] : samples'[d][k].stamp = t
      BY <1>3, <1>4, <3>1, StoringKeeps
    <3>3. RequestSound(q)'
      BY <1>2, <1>3, <1>4, <1>5, <3>1, <3>2 DEF RequestSound
    <3>4. req' = [req EXCEPT ![r] = q]
      BY <1>1, <1>5, <2>1
    <3> QED
      BY <1>2, <1>5, <1>6, <3>3, <3>4, OneMoves
  <2>2. CASE ~Proceeds(x, d)
    <3>1. req' = [req EXCEPT ![r] = Idle]
      BY <1>1, <2>2
    <3> QED
      BY <1>2, <1>6, <3>1, IdleSound, OneMoves
  <2> QED
    BY <2>1, <2>2
<1>9. TypeOK'
  BY <1>2, <1>3, <1>6, <1>7, <1>8 DEF TypeOK
<1>10. SeenSound'
  BY <1>2 DEF IInv, SeenSound
<1> QED
  BY <1>8, <1>9, <1>10 DEF IInv

\* The update's time is between the insertion and the clock.
LEMMA SaveUpdateIInv == ASSUME IInv, NEW r \in Request, SaveUpdate(r) PROVE IInv'
<1> DEFINE d == req[r].dev
<1>1. PICK x \in Outcome, t \in req[r].stamp .. clock :
         seen' = IF x.applied /\ d \in devices THEN [seen EXCEPT ![d] = t] ELSE seen
  BY DEF SaveUpdate
<1>2. /\ backend' = backend /\ clock' = clock /\ devices' = devices /\ samples' = samples
      /\ req' = [req EXCEPT ![r] = Idle]
  BY DEF SaveUpdate
<1>3. /\ TypeOK /\ d \in Device /\ backend = "postgres"
      /\ clock \in Time /\ req[r].stamp \in Time
  BY DEF IInv, TypeOK, RequestsSound, RequestSound, RequestState, SaveUpdate
<1>4. t \in Time /\ t <= clock
  BY <1>3, BoundsAssumption DEF Time
<1> HIDE DEF d
<1>5. req' \in [Request -> RequestState] /\ RequestsSound'
  BY <1>2, IdleSound, OneMoves
<1>6. TypeOK'
  BY <1>1, <1>2, <1>3, <1>4, <1>5 DEF TypeOK
<1>7. SeenSound'
  BY <1>1, <1>2, <1>3, <1>4 DEF IInv, TypeOK, SeenSound
<1> QED
  BY <1>5, <1>6, <1>7 DEF IInv

\* Nothing is read yet but last_seen.
LEMMA GetDeviceIInv == ASSUME IInv, NEW r \in Request, GetDevice(r) PROVE IInv'
<1>1. PICK d \in devices, n \in Limits :
         req' = [req EXCEPT ![r] = [Idle EXCEPT !.at = "latest", !.dev = d,
                                                !.limit = n, !.seen = seen[d]]]
  BY DEF GetDevice
<1> DEFINE q == [Idle EXCEPT !.at = "latest", !.dev = d, !.limit = n, !.seen = seen[d]]
<1>2. d \in Device /\ seen[d] \in Time \cup {NoTime}
  BY DEF IInv, TypeOK
<1>3. /\ q.at = "latest" /\ q.dev = d /\ q.stamp = 0 /\ q.latest = {} /\ q.history = {}
      /\ q \in RequestState
  BY <1>2, IdleSound DEF Idle, RequestState, Point
<1>4. req' = [req EXCEPT ![r] = q] /\ UNCHANGED <<backend, clock, devices, seen, samples>>
  BY <1>1 DEF GetDevice
<1>5. 0 <= clock
  BY BoundsAssumption DEF IInv, TypeOK, Time
<1> HIDE DEF q
<1>6. RequestSound(q)
  BY <1>2, <1>3, <1>5 DEF RequestSound
<1> QED
  BY <1>3, <1>4, <1>6, ReadStep

\* What is read is stored, and samples stay.
LEMMA GetLatestIInv == ASSUME IInv, NEW r \in Request, GetLatest(r) PROVE IInv'
<1> DEFINE p == req[r]
<1>1. PICK top \in Latest(p.dev) \cup {{}} :
         req' = [req EXCEPT ![r].at = IF p.limit = 0 THEN "respond" ELSE "history",
                            ![r].latest = top]
  BY DEF GetLatest
<1>2. /\ TypeOK /\ p \in RequestState /\ RequestSound(p) /\ p.at = "latest"
      /\ req \in [Request -> RequestState]
  BY DEF IInv, TypeOK, RequestsSound, GetLatest
<1>3. p.dev \in devices /\ p.dev \in Device
  BY <1>2 DEF RequestSound, TypeOK
<1>4. top \subseteq DOMAIN samples[p.dev] /\ top \in SUBSET Nat
  BY <1>1, <1>2, <1>3, ReadsAreRows
<1> DEFINE q == [p EXCEPT !.at = IF p.limit = 0 THEN "respond" ELSE "history", !.latest = top]
<1>5. /\ q \in RequestState /\ q.at \in {"respond", "history"} /\ q.dev = p.dev
      /\ q.stamp = p.stamp /\ q.latest = top /\ q.history = p.history
  BY <1>2, <1>4 DEF RequestState, Point
<1>6. req' = [req EXCEPT ![r] = q] /\ UNCHANGED <<backend, clock, devices, seen, samples>>
  BY <1>1, <1>2 DEF GetLatest
<1> HIDE DEF p, q
<1>7. RequestSound(q)
  BY <1>2, <1>3, <1>4, <1>5 DEF RequestSound
<1> QED
  BY <1>5, <1>6, <1>7, ReadStep

\* The same for the history.
LEMMA GetHistoryIInv == ASSUME IInv, NEW r \in Request, GetHistory(r) PROVE IInv'
<1> DEFINE p == req[r]
<1>1. PICK n \in RowsRead(p.limit) : \E top \in History(p.dev, n) :
         req' = [req EXCEPT ![r].at = "respond", ![r].history = top]
  BY DEF GetHistory
<1>2. PICK top \in History(p.dev, n) :
         req' = [req EXCEPT ![r].at = "respond", ![r].history = top]
  BY <1>1
<1>3. /\ TypeOK /\ p \in RequestState /\ RequestSound(p) /\ p.at = "history"
      /\ req \in [Request -> RequestState]
  BY DEF IInv, TypeOK, RequestsSound, GetHistory
<1>4. p.dev \in devices /\ p.dev \in Device
  BY <1>3 DEF RequestSound, TypeOK
<1>5. top \subseteq DOMAIN samples[p.dev] /\ top \in SUBSET Nat
  BY <1>2, <1>3, <1>4, ReadsAreRows
<1> DEFINE q == [p EXCEPT !.at = "respond", !.history = top]
<1>6. /\ q \in RequestState /\ q.at = "respond" /\ q.dev = p.dev
      /\ q.stamp = p.stamp /\ q.latest = p.latest /\ q.history = top
  BY <1>3, <1>5 DEF RequestState, Point
<1>7. req' = [req EXCEPT ![r] = q] /\ UNCHANGED <<backend, clock, devices, seen, samples>>
  BY <1>2, <1>3 DEF GetHistory
<1> HIDE DEF p, q
<1>8. RequestSound(q)
  BY <1>3, <1>4, <1>5, <1>6 DEF RequestSound
<1> QED
  BY <1>6, <1>7, <1>8, ReadStep

\* A restart forgets the requests only.
LEMMA RestartIInv == ASSUME IInv, Restart PROVE IInv'
<1>1. req' = [r \in Request |-> Idle] /\ UNCHANGED <<backend, clock, devices, seen, samples>>
  BY DEF Restart
<1>2. Idle \in RequestState /\ RequestSound(Idle)'
  BY <1>1, IdleSound
<1>3. RequestsSound'
  BY <1>1, <1>2 DEF RequestsSound, RequestSound
<1> QED
  BY <1>1, <1>2, <1>3 DEF IInv, TypeOK, SeenSound

\* Time passing ages what was stamped.
LEMMA TickIInv == ASSUME IInv, Tick PROVE IInv'
<1>1. clock < MaxTime /\ clock' = clock + 1 /\ UNCHANGED <<backend, devices, seen, samples, req>>
  BY DEF Tick
<1>2. clock \in Nat /\ clock' \in Time /\ clock <= clock' /\ Time \subseteq Int /\ NoTime \in Int
  BY <1>1, BoundsAssumption DEF IInv, TypeOK, Time, NoTime
<1>3. TypeOK'
  BY <1>1, <1>2 DEF IInv, TypeOK
<1>4. SeenSound'
  <2>1. \A d \in Device : seen[d] \in Int /\ seen[d] <= clock
    BY <1>2 DEF IInv, TypeOK, SeenSound
  <2> QED
    BY <1>1, <1>2, <2>1 DEF IInv, SeenSound
<1>5. RequestsSound'
  <2>1. \A r \in Request : req[r].stamp \in Int
    BY <1>2 DEF IInv, TypeOK, RequestState
  <2> QED
    BY <1>1, <1>2, <2>1 DEF IInv, RequestsSound, RequestSound
<1> QED
  BY <1>3, <1>4, <1>5 DEF IInv

\* Every step preserves the inductive invariant.
LEMMA NextIInv == IInv /\ [Next]_vars => IInv'
<1> SUFFICES ASSUME IInv, [Next]_vars PROVE IInv'
  OBVIOUS
<1>1. ASSUME NEW d \in Device, Enroll(d) PROVE IInv'
  BY <1>1, EnrollIInv
<1>2. ASSUME NEW r \in Request, Ingest(r) PROVE IInv'
  BY <1>2, IngestIInv
<1>3. ASSUME NEW r \in Request, SaveInMemory(r) PROVE IInv'
  BY <1>3, SaveInMemoryIInv
<1>4. ASSUME NEW r \in Request, SaveInsert(r) PROVE IInv'
  BY <1>4, SaveInsertIInv
<1>5. ASSUME NEW r \in Request, SaveUpdate(r) PROVE IInv'
  BY <1>5, SaveUpdateIInv
<1>6. ASSUME NEW r \in Request, GetDevice(r) PROVE IInv'
  BY <1>6, GetDeviceIInv
<1>7. ASSUME NEW r \in Request, GetLatest(r) PROVE IInv'
  BY <1>7, GetLatestIInv
<1>8. ASSUME NEW r \in Request, GetHistory(r) PROVE IInv'
  BY <1>8, GetHistoryIInv
<1>9. ASSUME NEW r \in Request, Respond(r) PROVE IInv'
  <2>1. req' = [req EXCEPT ![r] = Idle] /\ UNCHANGED <<backend, clock, devices, seen, samples>>
    BY <1>9 DEF Respond
  <2> QED
    BY <2>1, IdleSound, ReadStep
<1>10. CASE Restart
  BY <1>10, RestartIInv
<1>11. CASE Tick
  BY <1>11, TickIInv
<1>12. CASE UNCHANGED vars
  BY <1>12 DEF vars, IInv, TypeOK, SeenSound, RequestsSound, RequestSound
<1> QED
  BY <1>1, <1>2, <1>3, <1>4, <1>5, <1>6, <1>7, <1>8, <1>9, <1>10, <1>11, <1>12 DEF Next

-----------------------------------------------------------------------------
(* The answer of GetDeviceTelemetry *)

\* Samples stay where they are stored.
LEMMA SamplesStay ==
  ASSUME IInv, [Next]_vars, NEW d \in Device
  PROVE  /\ backend' = backend
         /\ DOMAIN samples[d] \subseteq DOMAIN samples'[d]
         /\ \A i \in DOMAIN samples[d] : samples'[d][i] = samples[d][i]
<1>1. backend' = backend
  BY DEF Next, vars, Enroll, Ingest, SaveInMemory, SaveInsert, SaveUpdate, GetDevice, GetLatest,
         GetHistory, Respond, Restart, Tick
<1>2. CASE samples' = samples
  BY <1>1, <1>2
<1>3. ASSUME NEW e \in Device, NEW t \in Time, NEW own \in BOOLEAN, samples' = Stored(e, t, own)
      PROVE  /\ DOMAIN samples[d] \subseteq DOMAIN samples'[d]
             /\ \A i \in DOMAIN samples[d] : samples'[d][i] = samples[d][i]
  BY <1>3, StoringKeeps DEF IInv
<1>4. ASSUME NEW r \in Request, SaveInMemory(r) \/ SaveInsert(r)
      PROVE  samples' = samples \/ \E e \in Device, t \in Time, own \in BOOLEAN : samples' = Stored(e, t, own)
  <2>1. /\ req[r].dev \in Device /\ req[r].stamp \in Time /\ req[r].own \in BOOLEAN
        /\ clock \in Time
    BY <1>4 DEF IInv, TypeOK, RequestsSound, RequestSound, RequestState, SaveInMemory, SaveInsert
  <2>2. \A t \in req[r].stamp .. clock : t \in Time
    BY <2>1, BoundsAssumption DEF Time
  <2>3. CASE SaveInMemory(r)
    BY <2>1, <2>3 DEF SaveInMemory
  <2>4. CASE SaveInsert(r)
    <3>1. PICK t \in req[r].stamp .. clock :
             samples' = samples \/ samples' = Stored(req[r].dev, t, req[r].own)
      BY <2>4 DEF SaveInsert
    <3> QED
      BY <2>1, <2>2, <3>1
  <2> QED
    BY <1>4, <2>3, <2>4
<1>5. samples' = samples \/ \E r \in Request : SaveInMemory(r) \/ SaveInsert(r)
  BY DEF Next, vars, Enroll, Ingest, SaveUpdate, GetDevice, GetLatest, GetHistory, Respond,
         Restart, Tick
<1> QED
  BY <1>1, <1>2, <1>3, <1>4, <1>5

\* So that what an answer says of them stays true.
LEMMA AnswerStays ==
  ASSUME IInv, [Next]_vars, NEW q, RequestSound(q), AnswerSound(q)
  PROVE  AnswerSound(q)'
<1>1. CASE q.at \in {"history", "respond"}
  <2>1. q.dev \in Device /\ q.latest \cup q.history \subseteq DOMAIN samples[q.dev]
    BY <1>1 DEF RequestSound, IInv, TypeOK
  <2>2. /\ backend' = backend
        /\ \A i \in DOMAIN samples[q.dev] : samples'[q.dev][i] = samples[q.dev][i]
    BY <2>1, SamplesStay
  <2> QED
    BY <2>1, <2>2 DEF AnswerSound
<1>2. CASE q.at \notin {"history", "respond"}
  BY <1>2 DEF AnswerSound
<1> QED
  BY <1>1, <1>2

\* A request that reads nothing of the history yet.
LEMMA StartSound ==
  ASSUME NEW q, q.at \notin {"history", "respond"}, q.at = "latest" => q.history = {}
  PROVE  AnswerSound(q)'
BY DEF AnswerSound

\* The latest sample is one of the device's organization in PostgreSQL.
LEMMA GetLatestAnswer ==
  ASSUME IInv, AnswersSound, NEW r \in Request, GetLatest(r)
  PROVE  \E q : req' = [req EXCEPT ![r] = q] /\ AnswerSound(q)'
<1>1. PICK p \in RequestState : p = req[r] /\ p.at = "latest" /\ AnswerSound(p)
  BY DEF GetLatest, AnswersSound, IInv, TypeOK
<1>2. PICK top \in Latest(p.dev) \cup {{}} :
         req' = [req EXCEPT ![r].at = IF p.limit = 0 THEN "respond" ELSE "history",
                            ![r].latest = top]
  BY <1>1 DEF GetLatest
<1>3. samples' = samples /\ backend' = backend
  BY DEF GetLatest
<1>4. backend = "postgres" => \A i \in top : samples[p.dev][i].own
  BY DEF Latest, Newest, OwnRows
<1> DEFINE n == [p EXCEPT !.at = IF p.limit = 0 THEN "respond" ELSE "history", !.latest = top]
<1>5. /\ n.at \in {"respond", "history"} /\ n.dev = p.dev /\ n.latest = top
      /\ n.history = {}
  BY <1>1 DEF RequestState, AnswerSound
<1>6. req' = [req EXCEPT ![r] = n]
  BY <1>1, <1>2 DEF IInv, TypeOK
<1> HIDE DEF n
<1>7. PICK q : /\ q = n /\ q.at \in {"respond", "history"} /\ q.dev = p.dev /\ q.latest = top
               /\ q.history = {}
  BY <1>5
<1>8. AnswerSound(q)'
  BY <1>3, <1>4, <1>7 DEF AnswerSound
<1> QED
  BY <1>6, <1>7, <1>8

\* The history of PostgreSQL leaves out only rows that are not newer than those
\* it returns, and the latest sample is one of the rows; that of the memory store
\* leaves out none.
LEMMA GetHistoryAnswer ==
  ASSUME IInv, AnswersSound, NEW r \in Request, GetHistory(r)
  PROVE  \E q : req' = [req EXCEPT ![r] = q] /\ AnswerSound(q)'
<1>1. PICK p \in RequestState :
         p = req[r] /\ p.at = "history" /\ AnswerSound(p) /\ RequestSound(p)
  BY DEF GetHistory, AnswersSound, RequestsSound, IInv, TypeOK
<1>2. PICK m \in RowsRead(p.limit) : \E top \in History(p.dev, m) :
         req' = [req EXCEPT ![r].at = "respond", ![r].history = top]
  BY <1>1 DEF GetHistory
<1>3. PICK top \in History(p.dev, m) :
         req' = [req EXCEPT ![r].at = "respond", ![r].history = top]
  BY <1>2
<1>4. samples' = samples /\ backend' = backend /\ p.latest \subseteq DOMAIN samples[p.dev]
  BY <1>1 DEF GetHistory, RequestSound
<1>5. ASSUME NEW i \in p.latest
      PROVE  i \in top \/ \A j \in top : samples[p.dev][i].stamp <= samples[p.dev][j].stamp
  <2>1. CASE backend = "memory"
    BY <1>4, <2>1 DEF History
  <2>2. CASE backend = "postgres"
    <3>1. i \in OwnRows(p.dev)
      BY <1>1, <1>4, <2>2 DEF AnswerSound, OwnRows
    <3>2. top \in Newest(p.dev, OwnRows(p.dev), m)
      BY <2>2 DEF History
    <3> QED
      BY <3>1, <3>2 DEF Newest, Stamp
  <2> QED
    BY <2>1, <2>2 DEF IInv, TypeOK
<1> DEFINE n == [p EXCEPT !.at = "respond", !.history = top]
<1>6. /\ n.at = "respond" /\ n.dev = p.dev /\ n.latest = p.latest /\ n.history = top
  BY <1>1 DEF RequestState
<1>7. req' = [req EXCEPT ![r] = n]
  BY <1>1, <1>3 DEF IInv, TypeOK
<1> HIDE DEF n
<1>8. PICK q : /\ q = n /\ q.at = "respond" /\ q.dev = p.dev /\ q.latest = p.latest
               /\ q.history = top
  BY <1>6
<1>9. backend = "postgres" => \A i \in p.latest : samples[p.dev][i].own
  BY <1>1 DEF AnswerSound
<1>10. AnswerSound(q)'
  BY <1>4, <1>5, <1>8, <1>9 DEF AnswerSound
<1> QED
  BY <1>7, <1>8, <1>10

\* No other step makes a request read.
LEMMA OthersAnswer ==
  ASSUME IInv, NEW r \in Request,
         Ingest(r) \/ SaveInMemory(r) \/ SaveInsert(r) \/ SaveUpdate(r) \/ GetDevice(r) \/ Respond(r)
  PROVE  \E q : req' = [req EXCEPT ![r] = q] /\ AnswerSound(q)'
<1>1. Idle.at = "idle"
  BY DEF Idle
<1>2. CASE req' = [req EXCEPT ![r] = Idle]
  BY <1>1, <1>2, StartSound
<1>3. ASSUME Ingest(r) \/ SaveInsert(r) \/ GetDevice(r), req' # [req EXCEPT ![r] = Idle]
      PROVE  \E q : /\ req' = [req EXCEPT ![r] = q] /\ q.history = {}
                    /\ q.at \in {"insert", "update", "latest"}
  <2>1. CASE Ingest(r)
    <3>1. PICK d \in Device, own \in BOOLEAN :
             req' = [req EXCEPT ![r] = [Idle EXCEPT !.at = "insert", !.dev = d,
                                                    !.own = own, !.stamp = clock]]
      BY <2>1 DEF Ingest
    <3> DEFINE n == [Idle EXCEPT !.at = "insert", !.dev = d, !.own = own, !.stamp = clock]
    <3>2. n.at = "insert" /\ n.history = {} /\ req' = [req EXCEPT ![r] = n]
      BY <3>1 DEF Idle
    <3> HIDE DEF n
    <3> QED
      BY <3>2
  <2>2. CASE SaveInsert(r)
    BY <1>3, <2>2 DEF SaveInsert, Idle
  <2>3. CASE GetDevice(r)
    <3>1. PICK d \in devices, m \in Limits :
             req' = [req EXCEPT ![r] = [Idle EXCEPT !.at = "latest", !.dev = d,
                                                    !.limit = m, !.seen = seen[d]]]
      BY <2>3 DEF GetDevice
    <3> DEFINE n == [Idle EXCEPT !.at = "latest", !.dev = d, !.limit = m, !.seen = seen[d]]
    <3>2. n.at = "latest" /\ n.history = {} /\ req' = [req EXCEPT ![r] = n]
      BY <3>1 DEF Idle
    <3> HIDE DEF n
    <3> QED
      BY <3>2
  <2> QED
    BY <1>3, <2>1, <2>2, <2>3
<1>4. CASE (Ingest(r) \/ SaveInsert(r) \/ GetDevice(r)) /\ req' # [req EXCEPT ![r] = Idle]
  BY <1>3, <1>4, StartSound
<1> QED
  BY <1>2, <1>4 DEF SaveInMemory, SaveUpdate, Respond

\* Every step keeps what the answers say.
LEMMA NextAnswers == IInv /\ AnswersSound /\ [Next]_vars => AnswersSound'
<1> SUFFICES ASSUME IInv, AnswersSound, [Next]_vars PROVE AnswersSound'
  OBVIOUS
<1>1. ASSUME NEW s \in Request, req'[s] = req[s] PROVE AnswerSound(req[s])'
  <2>1. PICK p : p = req[s] /\ p = req'[s]
    BY <1>1
  <2>2. RequestSound(p) /\ AnswerSound(p)
    BY <2>1 DEF IInv, RequestsSound, AnswersSound
  <2>3. AnswerSound(p)'
    BY <2>2, AnswerStays
  <2> QED
    BY <2>1, <2>3 DEF AnswerSound
<1>2. CASE req' = req
  BY <1>1, <1>2 DEF AnswersSound
<1>3. ASSUME NEW r \in Request, NEW q, req' = [req EXCEPT ![r] = q], AnswerSound(q)'
      PROVE  AnswersSound'
  <2>1. req'[r] = q /\ \A s \in Request : s # r => req'[s] = req[s]
    BY <1>3 DEF IInv, TypeOK
  <2>2. AnswerSound(req[r])'
    BY <1>3, <2>1 DEF AnswerSound
  <2> QED
    BY <1>1, <2>1, <2>2 DEF AnswersSound
<1>4. ASSUME NEW r \in Request,
             \/ Ingest(r) \/ SaveInMemory(r) \/ SaveInsert(r) \/ SaveUpdate(r)
             \/ GetDevice(r) \/ GetLatest(r) \/ GetHistory(r) \/ Respond(r)
      PROVE  AnswersSound'
  <2>1. \E q : req' = [req EXCEPT ![r] = q] /\ AnswerSound(q)'
    BY <1>4, GetLatestAnswer, GetHistoryAnswer, OthersAnswer
  <2> QED
    BY <1>3, <2>1
<1>5. CASE Restart
  <2>1. \A s \in Request : req'[s] = Idle
    BY <1>5 DEF Restart
  <2>2. AnswerSound(Idle)'
    <3>1. Idle.at = "idle"
      BY DEF Idle
    <3> QED
      BY <3>1, StartSound
  <2> QED
    BY <2>1, <2>2 DEF AnswersSound, AnswerSound
<1> QED
  BY <1>2, <1>4, <1>5 DEF Next, vars, Enroll, Tick

-----------------------------------------------------------------------------
(* Theorems *)

\* The inductive invariant of Telemetry.
THEOREM InvariantHolds == Spec => []IInv
BY InitIInv, NextIInv, PTL DEF Spec

\* Every variable keeps its shape, and the samples of PostgreSQL are of
\* enrolled devices.
THEOREM TypeCorrect == Spec => []TypeOK
<1>1. IInv => TypeOK
  BY DEF IInv
<1> QED
  BY <1>1, InvariantHolds, PTL

\* An answer of GetDeviceTelemetry over the MemoryStore shows no sample younger
\* than the last_seen next to it, however many requests store samples meanwhile.
THEOREM MemoryAnswersAreCurrent == Spec => []MemoryAnswerCurrent
<1>1. IInv => MemoryAnswerCurrent
  <2> SUFFICES ASSUME IInv, backend = "memory", NEW r \in Request, req[r].at = "respond",
                      NEW i \in req[r].latest \cup req[r].history
               PROVE  Stamp(req[r].dev, i) <= ShownSeen(r)
    BY DEF MemoryAnswerCurrent
  <2>1. RequestSound(req[r])
    BY DEF IInv, RequestsSound
  <2>2. req[r].dev \in devices /\ req[r].dev \in Device /\ i \in DOMAIN samples[req[r].dev]
    BY <2>1 DEF RequestSound
  <2>3. samples[req[r].dev][i].stamp <= seen[req[r].dev]
    BY <2>2 DEF IInv, SeenSound
  <2> QED
    BY <2>3 DEF Stamp, ShownSeen
<1> QED
  BY <1>1, InvariantHolds, PTL

\* last_seen of an enrolled device moves only to a time at which one of its
\* samples was stored, in either store and with either statement failing.
THEOREM SeenFollows == Spec => SeenFollowsSample
<1> DEFINE Follows == \A d \in Device :
              d \in devices /\ seen'[d] # seen[d] =>
                 \E i \in DOMAIN samples'[d] : samples'[d][i].stamp <= seen'[d]
<1>1. IInv /\ [Next]_vars => [Follows]_vars
  <2> SUFFICES ASSUME IInv, [Next]_vars, NEW d \in Device, d \in devices, seen'[d] # seen[d]
               PROVE  \E i \in DOMAIN samples'[d] : samples'[d][i].stamp <= seen'[d]
    OBVIOUS
  <2>1. ASSUME NEW e \in Device, Enroll(e) PROVE FALSE
    <3>1. e # d
      BY <2>1 DEF Enroll
    <3> QED
      BY <2>1, <3>1 DEF Enroll, IInv, TypeOK
  <2>2. ASSUME NEW r \in Request, SaveInMemory(r)
        PROVE  \E i \in DOMAIN samples'[d] : samples'[d][i].stamp <= seen'[d]
    <3>1. d = req[r].dev /\ seen'[d] = clock
      BY <2>2 DEF SaveInMemory, IInv, TypeOK
    <3>2. /\ TypeOK /\ req[r].stamp \in Time /\ req[r].own \in BOOLEAN
          /\ req[r].stamp <= clock /\ samples' = Stored(d, req[r].stamp, req[r].own)
      BY <2>2, <3>1 DEF SaveInMemory, IInv, TypeOK, RequestState, RequestsSound, RequestSound
    <3> QED
      BY <3>1, <3>2, StoringKeeps
  <2>3. ASSUME NEW r \in Request, SaveUpdate(r)
        PROVE  \E i \in DOMAIN samples'[d] : samples'[d][i].stamp <= seen'[d]
    <3>1. PICK t \in req[r].stamp .. clock : d = req[r].dev /\ seen'[d] = t
      BY <2>3 DEF SaveUpdate, IInv, TypeOK
    <3>2. req[r].at = "update" /\ samples' = samples /\ RequestSound(req[r])
      BY <2>3 DEF SaveUpdate, IInv, RequestsSound
    <3>3. PICK i \in DOMAIN samples[d] : samples[d][i].stamp <= req[r].stamp
      BY <3>1, <3>2 DEF RequestSound
    <3>4. /\ samples[d] \in Seq(Sample) /\ req[r].stamp \in Time /\ clock \in Time
          /\ \A s \in Time : s \in Int
      BY BoundsAssumption DEF IInv, TypeOK, RequestState, Time
    <3>5. samples[d][i].stamp \in Int
      <4>1. samples[d][i] \in Sample
        BY <3>3, <3>4
      <4> QED
        BY <3>4, <4>1 DEF Sample
    <3>6. req[r].stamp \in Int /\ clock \in Int
      BY <3>4
    <3>7. t \in Int /\ req[r].stamp <= t
      BY <3>1, <3>6
    <3>8. samples[d][i].stamp <= t
      BY <3>3, <3>5, <3>6, <3>7
    <3> QED
      BY <3>1, <3>2, <3>3, <3>8
  <2>4. ASSUME NEW r \in Request, Ingest(r) \/ SaveInsert(r) \/ GetDevice(r) \/ GetLatest(r)
                                     \/ GetHistory(r) \/ Respond(r)
        PROVE  FALSE
    BY <2>4 DEF Ingest, SaveInsert, GetDevice, GetLatest, GetHistory, Respond
  <2>5. ~Restart /\ ~Tick /\ ~UNCHANGED vars
    BY DEF Restart, Tick, vars
  <2> QED
    BY <2>1, <2>2, <2>3, <2>4, <2>5 DEF Next
<1>2. SeenFollowsSample <=> [][Follows]_vars
  BY DEF SeenFollowsSample
<1> QED
  BY <1>1, <1>2, InvariantHolds, PTL DEF Spec

\* The history an answer of GetDeviceTelemetry shows, read after its latest
\* sample, contains that sample or nothing older, in either store, for any limit
\* and wherever a lost connection cuts the history off.
THEOREM HistoriesReachLatest == Spec => []HistoryReachesLatest
<1>1. Init => AnswersSound
  BY DEF Init, Idle, AnswersSound, AnswerSound
<1>2. AnswersSound => HistoryReachesLatest
  BY DEF AnswersSound, AnswerSound, HistoryReachesLatest, Stamp
<1> QED
  BY <1>1, <1>2, InvariantHolds, NextAnswers, PTL DEF Spec
=============================================================================
