------------------------ MODULE RemoteSessionProofs ------------------------
(***************************************************************************)
(* Proofs about RemoteSession for every set of sessions, devices and       *)
(* requests, either store and every pattern of failures.                   *)
(***************************************************************************)
EXTENDS RemoteSession, TLAPS

-----------------------------------------------------------------------------
(* The inductive invariant *)

\* A row that was not inserted is blank.
RowsSound ==
    \A s \in Session : ~Stored(s) =>
       /\ sessions[s].device = NoDevice
       /\ ~sessions[s].started /\ ~sessions[s].ended

\* A request about to insert a session holds a device and an identifier that
\* is its own; one about to record an action names a stored session or none.
RequestsSound ==
    \A r \in Request :
       /\ req[r].at = "create" =>
            /\ req[r].session \in Session /\ ~Stored(req[r].session)
            /\ req[r].device \in Device
            /\ \A q \in Request : q # r => req[q].session # req[r].session
       /\ req[r].at \in AuditAction =>
            \/ req[r].session = Unknown
            \/ req[r].session \in Session /\ Stored(req[r].session)

IInv == TypeOK /\ RowsSound /\ RequestsSound

-----------------------------------------------------------------------------
(* Operators *)

\* Updating the status of a stored session keeps the table typed, touches no
\* other session, takes no time stamp back and neither blanks the session nor
\* makes it REQUESTED.
LEMMA WithStatusType ==
  ASSUME TypeOK, NEW s \in Session, NEW st \in {"CONNECTED", "REJECTED", "TERMINATED"}
  PROVE  /\ WithStatus(s, st) \in [Session -> SessionRecord]
         /\ \A t \in Session : t # s => WithStatus(s, st)[t] = sessions[t]
         /\ WithStatus(s, st)[s].status = st
         /\ WithStatus(s, st)[s].device = sessions[s].device
         /\ WithStatus(s, st)[s].consent = sessions[s].consent
         /\ WithStatus(s, st)[s].started = (sessions[s].started \/ st = "CONNECTED")
         /\ WithStatus(s, st)[s].ended = (sessions[s].ended \/ st \in {"TERMINATED", "REJECTED"})
  BY DEF TypeOK, SessionRecord, SessionStatus, WithStatus

\* What a request holds when it is idle or about to record an action.
LEMMA RequestRecords ==
  /\ Idle \in RequestState /\ Idle.at = "idle" /\ Idle.session = NoSession
  /\ Idle.device = NoDevice
  /\ \A a \in AuditAction, s \in Session \cup {Unknown} :
        /\ AtAudit(a, s) \in RequestState
        /\ AtAudit(a, s).at = a /\ AtAudit(a, s).session = s
        /\ a \notin {"idle", "create"}
  /\ "idle" \notin AuditAction /\ "create" \notin AuditAction
  BY DEF Idle, AtAudit, RequestState, Point, AuditAction

\* The devices keep their types, whatever happens to them.
LEMMA DevicesTyped ==
  ASSUME TypeOK, Devices!Next
  PROVE  /\ status' \in [Device -> {"NONE", "PENDING", "ACTIVE", "REVOKED"}]
         /\ approvals' \subseteq Device
  BY DEF TypeOK, Devices!Next, Devices!Enroll, Devices!AdmitApproval, Devices!Approve,
         Devices!Abandon, Devices!Revoke

\* Who names a session names a stored one, or none.
LEMMA NamedStored ==
  ASSUME NEW s \in Named
  PROVE  s = Unknown \/ (s \in Session /\ Stored(s))
  BY DEF Named

\* What a consent or a termination does to the table and to the request.
LEMMA DecisionStep ==
  ASSUME TypeOK, NEW r \in Request, Consent(r) \/ Terminate(r)
  PROVE  \E s \in Session \cup {Unknown}, st \in {"CONNECTED", "REJECTED", "TERMINATED"},
            a \in AuditAction :
            /\ s = Unknown \/ (s \in Session /\ Stored(s))
            /\ sessions' \in {sessions, WithStatus(s, st)}
            /\ s = Unknown => sessions' = sessions
            /\ backend = "memory" /\ s # Unknown => sessions' = WithStatus(s, st)
            /\ backend = "postgres" /\ sessions' # sessions => st = "TERMINATED"
            /\ req' = [req EXCEPT ![r] = AtAudit(a, s)]
            /\ a = CASE st = "CONNECTED" -> "session.consent.granted"
                     [] st = "REJECTED" -> "session.consent.denied"
                     [] st = "TERMINATED" -> "session.terminated"
<1> USE DEF AuditAction
<1>m. backend = "memory" => \A x \in Outcome : x.applied
  BY DEF Outcome, MayFail
<1>1. CASE Consent(r)
  <2> PICK s \in Named, granted \in BOOLEAN, x \in Outcome : Consent(r)!2!(s, granted, x)
    BY <1>1 DEF Consent
  <2>0. s = Unknown \/ (s \in Session /\ Stored(s))
    BY NamedStored
  <2>1. CASE granted
    BY <1>m, <2>0, <2>1 DEF ConsentMatches
  <2>2. CASE ~granted
    BY <1>m, <2>0, <2>2 DEF ConsentMatches
  <2>3. QED
    BY <2>1, <2>2
<1>2. CASE Terminate(r)
  <2> PICK s \in Named, own \in Own, x \in Outcome : Terminate(r)!2!(s, own, x)
    BY <1>2 DEF Terminate
  <2>0. s = Unknown \/ (s \in Session /\ Stored(s))
    BY NamedStored
  <2>1. QED
    BY <1>m, <2>0 DEF TerminateMatches
<1>3. QED
  BY <1>1, <1>2

-----------------------------------------------------------------------------
(* The invariant holds initially and every action preserves it *)

LEMMA InitIInv == Init => IInv
  BY NoneAssumption, BackendsAssumption
     DEF Init, Devices!Init, IInv, TypeOK, RowsSound, RequestsSound, SessionRecord,
         SessionStatus, RequestState, Point, AuditAction, Idle, Stored

LEMMA NextIInv == IInv /\ [Next]_vars => IInv'
<1> SUFFICES ASSUME IInv, [Next]_vars PROVE IInv'
  OBVIOUS
<1> USE DEF IInv
<1>1. ASSUME NEW r \in Request, CreateCheck(r) PROVE IInv'
  <2> PICK d \in Device, s \in Fresh, c \in BOOLEAN :
        req' = [req EXCEPT ![r] = [at |-> "create", session |-> s, device |-> d, consent |-> c]]
    BY <1>1 DEF CreateCheck
  <2>1. s \in Session /\ ~Stored(s) /\ \A q \in Request : req[q].session # s
    BY DEF Fresh
  <2>2. UNCHANGED <<backend, status, approvals, sessions, audit>>
    BY <1>1 DEF CreateCheck
  <2>3. TypeOK'
    BY <2>1, <2>2 DEF TypeOK, RequestState, Point
  <2>4. RowsSound' /\ RequestsSound'
    BY <2>1, <2>2 DEF TypeOK, RowsSound, RequestsSound, Stored, AuditAction
  <2>5. QED
    BY <2>3, <2>4
<1>2. ASSUME NEW r \in Request, CreateInsert(r) PROVE IInv'
  <2> DEFINE s == req[r].session
             row == [status |-> InitialStatus(req[r].consent), device |-> req[r].device,
                     consent |-> req[r].consent, started |-> ~req[r].consent, ended |-> FALSE]
  <2>1. /\ s \in Session /\ ~Stored(s)
        /\ \A q \in Request : q # r => req[q].session # s
        /\ row \in SessionRecord /\ row.status # "NONE"
    BY <1>2 DEF CreateInsert, RequestsSound, TypeOK, RequestState, SessionRecord, SessionStatus,
                InitialStatus
  <2>2. /\ \/ sessions' = [sessions EXCEPT ![s] = row]
           \/ sessions' = sessions /\ req' = [req EXCEPT ![r] = Idle]
        /\ \/ req' = [req EXCEPT ![r] = AtAudit("session.requested", s)]
           \/ req' = [req EXCEPT ![r] = Idle]
        /\ UNCHANGED <<backend, status, approvals, audit>>
    <3> PICK x \in Outcome :
          /\ sessions' = IF x.applied THEN [sessions EXCEPT ![s] = row] ELSE sessions
          /\ req' = [req EXCEPT ![r] = IF x.ok THEN AtAudit("session.requested", s) ELSE Idle]
      BY <1>2 DEF CreateInsert
    <3>1. x.ok => x.applied
      BY DEF Outcome
    <3>2. UNCHANGED <<backend, status, approvals, audit>>
      BY <1>2 DEF CreateInsert
    <3> HIDE DEF row
    <3>3. QED
      BY <3>1, <3>2
  <2> HIDE DEF row
  <2>3. TypeOK'
    <3>1. sessions' \in [Session -> SessionRecord]
      BY <2>1, <2>2 DEF TypeOK
    <3>2. req' \in [Request -> RequestState]
      BY <2>1, <2>2, RequestRecords DEF TypeOK, AuditAction
    <3>3. QED
      BY <2>2, <3>1, <3>2 DEF TypeOK
  <2>4. RowsSound'
    BY <2>1, <2>2 DEF TypeOK, RowsSound, Stored
  <2>5. RequestsSound'
    <3>1. ASSUME NEW q \in Request, q # r
          PROVE  /\ req'[q] = req[q]
                 /\ req[q].at = "create" => sessions'[req[q].session].status = "NONE"
                 /\ req[q].at \in AuditAction =>
                       \/ req[q].session = Unknown
                       \/ sessions'[req[q].session].status # "NONE"
      BY <2>1, <2>2, <3>1 DEF TypeOK, RequestsSound, Stored
    <3>2. /\ req'[r].at \notin {"create"}
          /\ req'[r].at \in AuditAction => req'[r].session = s /\ sessions'[s].status # "NONE"
          /\ req'[r].session \in {s, NoSession}
      <4>1. "session.requested" \in AuditAction
        BY DEF AuditAction
      <4>2. CASE req' = [req EXCEPT ![r] = AtAudit("session.requested", s)]
        <5>1. req'[r].at = "session.requested" /\ req'[r].session = s
          BY <2>1, <4>1, <4>2, RequestRecords DEF TypeOK
        <5>2. sessions' = [sessions EXCEPT ![s] = row]
          BY <2>2, <4>1, <5>1, RequestRecords DEF TypeOK
        <5>3. sessions'[s].status # "NONE"
          BY <2>1, <5>2 DEF TypeOK
        <5>4. QED
          BY <5>1, <5>3
      <4>3. CASE req' = [req EXCEPT ![r] = Idle]
        BY <4>3, RequestRecords DEF TypeOK
      <4>4. QED
        BY <2>2, <4>2, <4>3
    <3>3. QED
      BY <2>1, <3>1, <3>2, NoneAssumption DEF RequestsSound, Stored
  <2>6. QED
    BY <2>3, <2>4, <2>5
<1>3. ASSUME NEW r \in Request, Consent(r) \/ Terminate(r) PROVE IInv'
  <2> PICK s \in Session \cup {Unknown}, st \in {"CONNECTED", "REJECTED", "TERMINATED"},
           a \in AuditAction :
            /\ s = Unknown \/ (s \in Session /\ Stored(s))
            /\ sessions' \in {sessions, WithStatus(s, st)}
            /\ s = Unknown => sessions' = sessions
            /\ req' = [req EXCEPT ![r] = AtAudit(a, s)]
    BY <1>3, DecisionStep
  <2>1. UNCHANGED <<backend, status, approvals, audit>>
    BY <1>3 DEF Consent, Terminate
  <2>2. /\ sessions' \in [Session -> SessionRecord]
        /\ \A t \in Session : /\ Stored(t)' <=> Stored(t)
                              /\ ~Stored(t) => sessions'[t] = sessions[t]
    <3>1. CASE s = Unknown
      BY <3>1 DEF Stored, TypeOK
    <3>2. CASE s \in Session /\ Stored(s)
      BY <3>2, WithStatusType DEF Stored, TypeOK
    <3>3. QED
      BY <3>1, <3>2
  <2>3. TypeOK'
    BY <2>1, <2>2 DEF TypeOK, RequestState, Point, Idle, AtAudit
  <2>4. RowsSound'
    BY <2>2 DEF RowsSound
  <2>5. /\ req'[r].at = a /\ req'[r].session = s
        /\ \A q \in Request : q # r => req'[q] = req[q]
    BY DEF TypeOK, Idle, AtAudit
  <2>6. \A q \in Request : req[q].at = "create" => req[q].session # s
    BY NoneAssumption DEF RequestsSound
  <2>7. RequestsSound'
    <3>1. a # "create"
      BY DEF AuditAction
    <3>2. ASSUME NEW q \in Request, q # r, req[q].at = "create" \/ req[q].at \in AuditAction,
                 req[q].session \in Session
          PROVE  Stored(req[q].session)' <=> Stored(req[q].session)
      <4>1. PICK t \in Session : t = req[q].session
        BY <3>2
      <4>2. req'[q].session = t
        BY <2>5, <3>2, <4>1
      <4>3. QED
        BY <2>2, <4>1, <4>2 DEF Stored
    <3>3. s # Unknown => s \in Session /\ sessions'[s].status # "NONE"
      BY <2>2 DEF Stored
    <3>4. QED
      BY <2>2, <2>5, <2>6, <3>1, <3>2, <3>3 DEF RequestsSound, Stored
  <2>8. QED
    BY <2>3, <2>4, <2>7
<1>4. ASSUME NEW r \in Request, InsertAuditLog(r) PROVE IInv'
  BY <1>4, NoneAssumption
     DEF InsertAuditLog, TypeOK, RowsSound, RequestsSound, RequestState, Point, AuditAction,
         Idle, Stored
<1>5. CASE DeviceStep
  BY <1>5, DevicesTyped DEF DeviceStep, TypeOK, RowsSound, RequestsSound, Stored
<1>6. CASE Restart
  BY <1>6, NoneAssumption
     DEF Restart, TypeOK, RowsSound, RequestsSound, RequestState, Point, AuditAction, Idle, Stored
<1>7. CASE UNCHANGED vars
  BY <1>7 DEF vars, TypeOK, RowsSound, RequestsSound, Stored
<1>8. QED
  BY <1>1, <1>2, <1>3, <1>4, <1>5, <1>6, <1>7 DEF Next

\* Rows and requests keep their shape, and what a request carries from one
\* store call to the next stays valid, whatever overlaps, fails or restarts.
THEOREM InvariantHolds == Spec => []IInv
  BY InitIInv, NextIInv, PTL DEF Spec

\* Type correctness.
THEOREM TypeCorrect == Spec => []TypeOK
  BY InvariantHolds, PTL DEF IInv
-----------------------------------------------------------------------------
(* Consent and termination are on record in memory *)

LEMMA BackendStays == [Next]_vars => backend' = backend
  BY DEF Next, vars, CreateCheck, CreateInsert, Consent, Terminate, InsertAuditLog, DeviceStep,
         Restart

\* In memory what is on record, or about to be, stays.
LEMMA OnRecordStays ==
  ASSUME IInv, [Next]_vars, backend = "memory",
         NEW s \in Session, NEW actions \in SUBSET AuditAction, OnRecord(s, actions)
  PROVE  OnRecord(s, actions)'
<1>b. req \in [Request -> RequestState] /\ ~MayFail
  BY DEF IInv, TypeOK, MayFail
<1>1. audit \subseteq audit'
  BY DEF Next, vars, CreateCheck, CreateInsert, Consent, Terminate, InsertAuditLog, DeviceStep,
         Restart
<1>2. CASE \E e \in audit : e.session = s /\ e.action \in actions
  BY <1>1, <1>2 DEF OnRecord
<1>3. ASSUME NEW r \in Request, req[r].session = s, req[r].at \in actions
      PROVE  OnRecord(s, actions)'
  <2>1. CASE InsertAuditLog(r)
    <3> DEFINE e == [action |-> req[r].at, session |-> req[r].session]
    <3>1. e \in audit' /\ e.session = s /\ e.action \in actions
      BY <1>3, <2>1 DEF InsertAuditLog, AuditRowKept
    <3>2. QED
      BY <3>1 DEF OnRecord
  <2>2. CASE ~InsertAuditLog(r)
    <3>1. req[r].at \in AuditAction
      BY <1>3
    <3>2. ~(CreateCheck(r) \/ CreateInsert(r) \/ Consent(r) \/ Terminate(r))
      BY <3>1, RequestRecords DEF CreateCheck, CreateInsert, Consent, Terminate
    <3>3. ASSUME NEW q \in Request, q # r,
                 \/ CreateCheck(q) \/ CreateInsert(q) \/ Consent(q) \/ Terminate(q)
                 \/ InsertAuditLog(q)
          PROVE  req'[r] = req[r]
      BY <1>b, <3>3 DEF CreateCheck, CreateInsert, Consent, Terminate, InsertAuditLog
    <3>4. DeviceStep \/ UNCHANGED vars => req'[r] = req[r]
      BY DEF DeviceStep, vars
    <3>5. req'[r] = req[r]
      BY <1>b, <2>2, <3>2, <3>3, <3>4 DEF Next, Restart
    <3>6. QED
      BY <1>3, <3>5 DEF OnRecord
  <2>3. QED
    BY <2>1, <2>2
<1>4. QED
  BY <1>2, <1>3 DEF OnRecord

\* What ChangesOnRecord asks of one session.
SessionOnRecord(s) ==
    /\ Stored(s) /\ sessions[s].consent
          /\ (sessions[s].started \/ sessions[s].status = "CONNECTED") =>
             OnRecord(s, {"session.consent.granted"})
    /\ sessions[s].ended => OnRecord(s, {"session.consent.denied", "session.terminated"})

LEMMA NextSessionOnRecord ==
  ASSUME IInv, [Next]_vars, backend = "memory", NEW s \in Session, SessionOnRecord(s)
  PROVE  SessionOnRecord(s)'
<1> DEFINE Granted == {"session.consent.granted"}
           Ended == {"session.consent.denied", "session.terminated"}
<1>a. /\ OnRecord(s, Granted) => OnRecord(s, Granted)'
      /\ OnRecord(s, Ended) => OnRecord(s, Ended)'
  BY OnRecordStays DEF AuditAction
<1>b. req \in [Request -> RequestState] /\ \A x \in Outcome : x.applied /\ x.ok
  BY DEF IInv, TypeOK, Outcome, MayFail
<1>c. ASSUME sessions'[s] = sessions[s] PROVE SessionOnRecord(s)'
  BY <1>a, <1>c DEF SessionOnRecord, Stored
<1>1. ASSUME NEW r \in Request, CreateInsert(r) PROVE SessionOnRecord(s)'
  <2>1. CASE s # req[r].session
    BY <1>1, <1>c, <2>1 DEF CreateInsert, IInv, TypeOK
  <2>2. CASE s = req[r].session
    <3>1. sessions' = [sessions EXCEPT ![s] =
                        [status |-> InitialStatus(req[r].consent), device |-> req[r].device,
                         consent |-> req[r].consent, started |-> ~req[r].consent, ended |-> FALSE]]
      BY <1>1, <1>b, <2>2 DEF CreateInsert
    <3>2. /\ sessions'[s].status = InitialStatus(req[r].consent)
          /\ sessions'[s].consent = req[r].consent
          /\ sessions'[s].started = ~req[r].consent
          /\ sessions'[s].ended = FALSE
      BY <3>1 DEF IInv, TypeOK
    <3>3. QED
      BY <3>2 DEF SessionOnRecord, InitialStatus
  <2>3. QED
    BY <2>1, <2>2
<1>2. ASSUME NEW r \in Request, Consent(r) \/ Terminate(r) PROVE SessionOnRecord(s)'
  <2> PICK t \in Session \cup {Unknown}, st \in {"CONNECTED", "REJECTED", "TERMINATED"},
           a \in AuditAction :
            /\ t = Unknown \/ (t \in Session /\ Stored(t))
            /\ t = Unknown => sessions' = sessions
            /\ t # Unknown => sessions' = WithStatus(t, st)
            /\ req' = [req EXCEPT ![r] = AtAudit(a, t)]
            /\ a = CASE st = "CONNECTED" -> "session.consent.granted"
                     [] st = "REJECTED" -> "session.consent.denied"
                     [] st = "TERMINATED" -> "session.terminated"
    BY <1>2, DecisionStep DEF IInv
  <2>1. CASE t = Unknown
    BY <1>c, <2>1
  <2>2. CASE t # Unknown /\ s # t
    <3>1. t \in Session /\ sessions' = WithStatus(t, st)
      BY <2>2
    <3>2. sessions'[s] = sessions[s]
      BY <2>2, <3>1, WithStatusType DEF IInv
    <3>3. QED
      BY <1>c, <3>2
  <2>3. CASE t # Unknown /\ s = t
    <3>1. req'[r].at = a /\ req'[r].session = s
      BY <1>b, <2>3, RequestRecords
    <3>2. /\ st = "CONNECTED" => OnRecord(s, Granted)'
          /\ st \in {"REJECTED", "TERMINATED"} => OnRecord(s, Ended)'
      BY <3>1 DEF OnRecord
    <3>3. /\ sessions'[s].status = st
          /\ sessions'[s].consent = sessions[s].consent
          /\ sessions'[s].started = (sessions[s].started \/ st = "CONNECTED")
          /\ sessions'[s].ended = (sessions[s].ended \/ st \in {"TERMINATED", "REJECTED"})
      BY <2>3, WithStatusType DEF IInv
    <3>4. Stored(s)
      BY <2>3
    <3>5. QED
      BY <1>a, <3>2, <3>3, <3>4 DEF SessionOnRecord
  <2>4. QED
    BY <2>1, <2>2, <2>3
<1>3. CASE sessions' = sessions
  BY <1>3, <1>c
<1>4. QED
  BY <1>1, <1>2, <1>3
     DEF Next, vars, CreateCheck, InsertAuditLog, DeviceStep, Restart

\* With the MemoryStore no session that must ask is connected without a consent
\* on record, and none ends without an entry that says who ended it.
THEOREM MemorySessionsOnRecord == Spec => []ChangesOnRecord
<1>1. ChangesOnRecord <=> (backend = "memory" => \A s \in Session : SessionOnRecord(s))
  BY DEF ChangesOnRecord, SessionOnRecord
<1>2. Init => ChangesOnRecord
  BY <1>1 DEF Init, SessionOnRecord, Stored
<1>3. IInv /\ ChangesOnRecord /\ [Next]_vars => ChangesOnRecord'
  <2> SUFFICES ASSUME IInv, ChangesOnRecord, [Next]_vars, backend' = "memory",
                      NEW s \in Session
               PROVE  SessionOnRecord(s)'
    BY DEF ChangesOnRecord, SessionOnRecord
  <2>1. backend = "memory"
    BY BackendStays
  <2>2. QED
    BY <1>1, <2>1, NextSessionOnRecord
<1>4. QED
  BY <1>2, <1>3, InvariantHolds, PTL DEF Spec

-----------------------------------------------------------------------------
(* What the answers to a decision are worth *)

\* What MemoryDecisions asks of the request whose record is q.
Effective(q) ==
    q.session # Unknown =>
       /\ q.at \in {"session.consent.granted", "session.consent.denied"} =>
            sessions[q.session].status # "REQUESTED"
       /\ q.at = "session.terminated" => sessions[q.session].ended

\* No step takes a stored session back to REQUESTED or takes its end back.
LEMMA NothingTakenBack ==
  ASSUME IInv, [Next]_vars, NEW s \in Session, Stored(s)
  PROVE  /\ sessions[s].status # "REQUESTED" => sessions'[s].status # "REQUESTED"
         /\ sessions[s].ended => sessions'[s].ended
         /\ sessions[s].started => sessions'[s].started
<1> DEFINE Kept == /\ sessions[s].status # "REQUESTED" => sessions'[s].status # "REQUESTED"
                   /\ sessions[s].ended => sessions'[s].ended
                   /\ sessions[s].started => sessions'[s].started
<1>1. ASSUME NEW r \in Request, CreateInsert(r) PROVE Kept
  BY <1>1 DEF CreateInsert, IInv, TypeOK, RequestsSound
<1>2. ASSUME NEW r \in Request, Consent(r) \/ Terminate(r) PROVE Kept
  <2> PICK t \in Session \cup {Unknown}, st \in {"CONNECTED", "REJECTED", "TERMINATED"} :
            /\ sessions' \in {sessions, WithStatus(t, st)}
            /\ t = Unknown => sessions' = sessions
    BY <1>2, DecisionStep DEF IInv
  <2>1. CASE sessions' = sessions
    BY <2>1
  <2>2. ASSUME sessions' = WithStatus(t, st), t \in Session, s # t PROVE Kept
    BY <2>2, WithStatusType DEF IInv
  <2>3. ASSUME sessions' = WithStatus(t, st), t \in Session, s = t PROVE Kept
    <3>1. /\ sessions'[s].status = st
          /\ sessions'[s].started = (sessions[s].started \/ st = "CONNECTED")
          /\ sessions'[s].ended = (sessions[s].ended \/ st \in {"TERMINATED", "REJECTED"})
      BY <2>3, WithStatusType DEF IInv
    <3>2. QED
      BY <3>1
  <2>4. QED
    BY <2>1, <2>2, <2>3
<1>3. CASE sessions' = sessions
  BY <1>3
<1>4. QED
  BY <1>1, <1>2, <1>3
     DEF Next, vars, CreateCheck, InsertAuditLog, DeviceStep, Restart

LEMMA NextEffective ==
  ASSUME IInv, [Next]_vars, backend = "memory", NEW r \in Request, Effective(req[r])
  PROVE  Effective(req[r])'
<1>b. req \in [Request -> RequestState]
  BY DEF IInv, TypeOK
<1>1. ASSUME req'[r] = req[r] PROVE Effective(req[r])'
  <2>1. req[r].at \in AuditAction =>
           req[r].session = Unknown \/ (req[r].session \in Session /\ Stored(req[r].session))
    BY DEF IInv, RequestsSound
  <2>2. QED
    BY <1>1, <2>1, NothingTakenBack DEF Effective, AuditAction
<1>2. CASE Consent(r) \/ Terminate(r)
  <2> PICK t \in Session \cup {Unknown}, st \in {"CONNECTED", "REJECTED", "TERMINATED"},
           a \in AuditAction :
            /\ t = Unknown \/ (t \in Session /\ Stored(t))
            /\ t # Unknown => sessions' = WithStatus(t, st)
            /\ req' = [req EXCEPT ![r] = AtAudit(a, t)]
            /\ a = CASE st = "CONNECTED" -> "session.consent.granted"
                     [] st = "REJECTED" -> "session.consent.denied"
                     [] st = "TERMINATED" -> "session.terminated"
    BY <1>2, DecisionStep DEF IInv
  <2>1. req'[r].at = a /\ req'[r].session = t
    BY <1>b, RequestRecords
  <2>2. t # Unknown =>
           /\ sessions'[t].status = st
           /\ sessions'[t].ended = (sessions[t].ended \/ st \in {"TERMINATED", "REJECTED"})
    BY WithStatusType DEF IInv
  <2>3. a = "session.terminated" => st = "TERMINATED"
    OBVIOUS
  <2>4. QED
    BY <2>1, <2>2, <2>3 DEF Effective
<1>3. ASSUME req'[r].at \notin {"session.consent.granted", "session.consent.denied",
                                "session.terminated"}
      PROVE  Effective(req[r])'
  BY <1>3 DEF Effective
<1>4. CASE CreateCheck(r) \/ CreateInsert(r) \/ InsertAuditLog(r)
  <2>1. req'[r].at \in {"create", "session.requested", "idle"}
    <3>1. CASE CreateCheck(r)
      BY <1>b, <3>1 DEF CreateCheck
    <3>2. CASE CreateInsert(r) \/ InsertAuditLog(r)
      <4>1. req' = [req EXCEPT ![r] = Idle]
               \/ req' = [req EXCEPT ![r] = AtAudit("session.requested", req[r].session)]
        BY <3>2 DEF CreateInsert, InsertAuditLog
      <4>2. Idle.at = "idle" /\ \A t : AtAudit("session.requested", t).at = "session.requested"
        BY DEF Idle, AtAudit
      <4>3. QED
        BY <1>b, <4>1, <4>2
    <3>3. QED
      BY <1>4, <3>1, <3>2
  <2>2. QED
    BY <1>3, <2>1
<1>5. ASSUME NEW q \in Request, q # r,
             \/ CreateCheck(q) \/ CreateInsert(q) \/ Consent(q) \/ Terminate(q)
             \/ InsertAuditLog(q)
      PROVE  req'[r] = req[r]
  BY <1>b, <1>5 DEF CreateCheck, CreateInsert, Consent, Terminate, InsertAuditLog
<1>6. DeviceStep \/ UNCHANGED vars => req'[r] = req[r]
  BY DEF DeviceStep, vars
<1>7. QED
  BY <1>1, <1>2, <1>4, <1>5, <1>6 DEF Next, Restart, MayFail

LEMMA MemoryDecisionsHold == Spec => [](backend = "memory" => MemoryDecisions)
<1> DEFINE Inv == backend = "memory" => \A r \in Request : Effective(req[r])
<1>1. Init => Inv
  BY DEF Init, Effective, Idle
<1>2. IInv /\ Inv /\ [Next]_vars => Inv'
  <2> SUFFICES ASSUME IInv, Inv, [Next]_vars, backend' = "memory", NEW r \in Request
               PROVE  Effective(req[r])'
    BY DEF Effective
  <2>1. backend = "memory"
    BY BackendStays
  <2>2. QED
    BY <2>1, NextEffective
<1>3. Inv => (backend = "memory" => MemoryDecisions)
  BY DEF Effective, MemoryDecisions
<1> HIDE DEF Inv
<1>4. QED
  BY <1>1, <1>2, <1>3, InvariantHolds, PTL DEF Spec

\* What PostgresDecisions asks of one session.
Waiting(s) ==
    Stored(s) /\ sessions[s].consent =>
       sessions[s].status \in {"REQUESTED", "TERMINATED"} /\ ~sessions[s].started

\* In PostgreSQL only the insertion and a termination touch a row.
LEMMA NextWaiting ==
  ASSUME IInv, [Next]_vars, backend = "postgres", NEW s \in Session, Waiting(s)
  PROVE  Waiting(s)'
<1>c. ASSUME sessions'[s] = sessions[s] PROVE Waiting(s)'
  BY <1>c DEF Waiting, Stored
<1>1. ASSUME NEW r \in Request, CreateInsert(r) PROVE Waiting(s)'
  <2> DEFINE row == [status |-> InitialStatus(req[r].consent), device |-> req[r].device,
                     consent |-> req[r].consent, started |-> ~req[r].consent, ended |-> FALSE]
  <2>1. row.consent => row.status = "REQUESTED" /\ ~row.started
    BY DEF InitialStatus
  <2>2. \/ sessions' = sessions
        \/ sessions' = [sessions EXCEPT ![req[r].session] = row]
    BY <1>1 DEF CreateInsert
  <2> HIDE DEF row
  <2>3. sessions'[s] \in {sessions[s], row}
    BY <2>2 DEF IInv, TypeOK
  <2>4. QED
    BY <1>c, <2>1, <2>3 DEF Waiting
<1>2. ASSUME NEW r \in Request, Consent(r) \/ Terminate(r) PROVE Waiting(s)'
  <2> PICK t \in Session \cup {Unknown}, st \in {"CONNECTED", "REJECTED", "TERMINATED"} :
            /\ t = Unknown \/ (t \in Session /\ Stored(t))
            /\ sessions' \in {sessions, WithStatus(t, st)}
            /\ t = Unknown => sessions' = sessions
            /\ sessions' # sessions => st = "TERMINATED"
    BY <1>2, DecisionStep DEF IInv
  <2>1. CASE sessions' = sessions
    BY <1>c, <2>1
  <2>2. CASE sessions' # sessions
    <3>1. t \in Session /\ Stored(t) /\ sessions' = WithStatus(t, st) /\ st = "TERMINATED"
      BY <2>2
    <3>2. CASE s # t
      BY <1>c, <3>1, <3>2, WithStatusType DEF IInv
    <3>3. CASE s = t
      <4>1. /\ sessions'[s].status = "TERMINATED"
            /\ sessions'[s].consent = sessions[s].consent
            /\ sessions'[s].started = (sessions[s].started \/ FALSE)
        BY <3>1, <3>3, WithStatusType DEF IInv
      <4>2. QED
        BY <3>1, <3>3, <4>1 DEF Waiting
    <3>4. QED
      BY <3>2, <3>3
  <2>3. QED
    BY <2>1, <2>2
<1>3. CASE sessions' = sessions
  BY <1>3, <1>c
<1>4. QED
  BY <1>1, <1>2, <1>3
     DEF Next, vars, CreateCheck, InsertAuditLog, DeviceStep, Restart

LEMMA PostgresDecisionsHold == Spec => [](backend = "postgres" => PostgresDecisions)
<1> DEFINE Inv == backend = "postgres" => \A s \in Session : Waiting(s)
<1>1. Init => Inv
  BY DEF Init, Waiting, Stored
<1>2. IInv /\ Inv /\ [Next]_vars => Inv'
  <2> SUFFICES ASSUME IInv, Inv, [Next]_vars, backend' = "postgres", NEW s \in Session
               PROVE  Waiting(s)'
    BY DEF Waiting, Stored
  <2>1. backend = "postgres"
    BY BackendStays
  <2>2. QED
    BY <2>1, NextWaiting
<1>3. Inv => (backend = "postgres" => PostgresDecisions)
  BY DEF Waiting, PostgresDecisions
<1> HIDE DEF Inv
<1>4. QED
  BY <1>1, <1>2, <1>3, InvariantHolds, PTL DEF Spec

\* Every decision is answered as done.  With the MemoryStore one about a stored
\* session was, and no request takes it back before the answer; one about a
\* session that does not exist did nothing.  With the PostgresStore no consent
\* ever connects or rejects a session.
THEOREM DecisionsHaveEffect == Spec => []DecisionsTakeEffect
<1>1. (backend = "memory" => MemoryDecisions) /\ (backend = "postgres" => PostgresDecisions)
         => DecisionsTakeEffect
  BY DEF DecisionsTakeEffect
<1>2. QED
  BY <1>1, MemoryDecisionsHold, PostgresDecisionsHold, PTL

-----------------------------------------------------------------------------
(* What a step may never do *)

\* Without a request that saw the device ACTIVE none is inserted, and none
\* sees it while it is not.
LEMMA InactiveStep ==
  ASSUME IInv, [Next]_vars, NEW d \in Device, status[d] # "ACTIVE", Creating(d) = {}
  PROVE  Creating(d)' = {} /\ \A s \in Session : ~Stored(s) => sessions'[s].device # d
<1>b. req \in [Request -> RequestState] /\ d # NoDevice
  BY NoneAssumption DEF IInv, TypeOK
<1>c. \A r \in Request : ~(req[r].at = "create" /\ req[r].device = d)
  BY DEF Creating
<1>d. ASSUME \A s \in Session : ~Stored(s) => sessions'[s] = sessions[s]
      PROVE  \A s \in Session : ~Stored(s) => sessions'[s].device # d
  BY <1>b, <1>d DEF IInv, RowsSound
<1>1. ASSUME NEW r \in Request, CreateCheck(r)
      PROVE  Creating(d)' = {} /\ \A s \in Session : ~Stored(s) => sessions'[s].device # d
  <2>1. req'[r].device # d /\ \A q \in Request : q # r => req'[q] = req[q]
    BY <1>1, <1>b DEF CreateCheck, Ready
  <2>2. sessions' = sessions
    BY <1>1 DEF CreateCheck
  <2>3. QED
    BY <1>c, <1>d, <2>1, <2>2 DEF Creating
<1>2. ASSUME NEW r \in Request, CreateInsert(r)
      PROVE  Creating(d)' = {} /\ \A s \in Session : ~Stored(s) => sessions'[s].device # d
  <2>1. req[r].device # d /\ req[r].session \in Session
    BY <1>2, <1>c DEF CreateInsert, IInv, RequestsSound
  <2>2. req'[r].at # "create" /\ \A q \in Request : q # r => req'[q] = req[q]
    BY <1>2, <1>b DEF CreateInsert, Idle, AtAudit
  <2>3. \A s \in Session : sessions'[s].device \in {sessions[s].device, req[r].device}
    BY <1>2, <2>1 DEF CreateInsert, IInv, TypeOK
  <2>4. QED
    BY <1>b, <1>c, <2>1, <2>2, <2>3 DEF Creating, IInv, RowsSound
<1>3. ASSUME NEW r \in Request, Consent(r) \/ Terminate(r)
      PROVE  Creating(d)' = {} /\ \A s \in Session : ~Stored(s) => sessions'[s].device # d
  <2> PICK t \in Session \cup {Unknown}, st \in {"CONNECTED", "REJECTED", "TERMINATED"},
           a \in AuditAction :
            /\ t = Unknown \/ (t \in Session /\ Stored(t))
            /\ sessions' \in {sessions, WithStatus(t, st)}
            /\ t = Unknown => sessions' = sessions
            /\ req' = [req EXCEPT ![r] = AtAudit(a, t)]
    BY <1>3, DecisionStep DEF IInv
  <2>1. req'[r].at # "create" /\ \A q \in Request : q # r => req'[q] = req[q]
    BY <1>b, RequestRecords
  <2>2. \A s \in Session : ~Stored(s) => sessions'[s] = sessions[s]
    BY WithStatusType DEF IInv
  <2>3. QED
    BY <1>c, <1>d, <2>1, <2>2 DEF Creating
<1>4. ASSUME NEW r \in Request, InsertAuditLog(r)
      PROVE  Creating(d)' = {} /\ \A s \in Session : ~Stored(s) => sessions'[s].device # d
  BY <1>4, <1>b, <1>c, <1>d DEF InsertAuditLog, Idle, Creating
<1>5. CASE DeviceStep
  BY <1>5, <1>c, <1>d DEF DeviceStep, Creating
<1>6. CASE Restart
  BY <1>6, <1>d DEF Restart, Creating, Idle
<1>7. CASE UNCHANGED vars
  BY <1>7, <1>c, <1>d DEF vars, Creating
<1>8. QED
  BY <1>1, <1>2, <1>3, <1>4, <1>5, <1>6, <1>7 DEF Next

\* No session appears on a device that is not ACTIVE, once the requests that
\* saw it ACTIVE are through.
THEOREM InactiveGetsNone == Spec => NoSessionOnInactive
<1>1. IInv /\ [Next]_vars =>
        [\A d \in Device :
            status[d] # "ACTIVE" /\ Creating(d) = {} =>
               /\ Creating(d)' = {}
               /\ \A s \in Session : ~Stored(s) => sessions'[s].device # d]_vars
  BY InactiveStep
<1>2. QED
  BY <1>1, InvariantHolds, PTL DEF Spec, NoSessionOnInactive

\* With the PostgresStore a session that ended is neither requested nor
\* connected again.
THEOREM PostgresEndIsFinal == Spec => PostgresEndedIsFinal
<1>1. IInv /\ [Next]_vars => [backend = "postgres" => EndStays]_vars
  <2> SUFFICES ASSUME IInv, [Next]_vars, backend = "postgres", NEW s \in Session,
                      sessions[s].status \in {"REJECTED", "TERMINATED"}
               PROVE  sessions'[s].status \in {"REJECTED", "TERMINATED"}
    BY DEF EndStays
  <2>1. ASSUME NEW r \in Request, CreateInsert(r)
        PROVE  sessions'[s].status \in {"REJECTED", "TERMINATED"}
    BY <2>1 DEF CreateInsert, IInv, TypeOK, RequestsSound, Stored
  <2>2. ASSUME NEW r \in Request, Consent(r) \/ Terminate(r)
        PROVE  sessions'[s].status \in {"REJECTED", "TERMINATED"}
    <3> PICK t \in Session \cup {Unknown}, st \in {"CONNECTED", "REJECTED", "TERMINATED"} :
              /\ sessions' \in {sessions, WithStatus(t, st)}
              /\ t = Unknown => sessions' = sessions
              /\ sessions' # sessions => st = "TERMINATED"
      BY <2>2, DecisionStep DEF IInv
    <3>1. QED
      BY WithStatusType DEF IInv
  <2>3. CASE sessions' = sessions
    BY <2>3
  <2>4. QED
    BY <2>1, <2>2, <2>3
       DEF Next, vars, CreateCheck, InsertAuditLog, DeviceStep, Restart
<1>2. QED
  BY <1>1, InvariantHolds, PTL DEF Spec, PostgresEndedIsFinal
=============================================================================
