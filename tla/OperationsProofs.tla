--------------------------- MODULE OperationsProofs ---------------------------
(***************************************************************************)
(* Proofs about Operations for every set of alerts, users, packages and    *)
(* requests, every finite set of devices, any dates of the license, either *)
(* store and every pattern of failures.                                    *)
(***************************************************************************)
EXTENDS Operations, FiniteSetTheorems, TLAPS

-----------------------------------------------------------------------------
(* The inductive invariant *)

\* What a request whose record is q holds between two calls: an acknowledgement
\* names an alert and a user; every device a deployment owes is still to come or
\* has it; the license was read by the book, and the devices there were then are
\* no more than there are, or than a call that did not fail counted since.
RequestSound(q) ==
    /\ q.at = "audit" => q.alert \in Alert /\ q.user \in User
    /\ q.at = "deploy" =>
         /\ q.pkg \in Package
         /\ \A d \in q.owed : /\ Accepts(q.pkg, d)
                              /\ d \in q.todo \/ [pkg |-> q.pkg, dev |-> d] \in deployments
    /\ q.at \in {"devices", "answer"} /\ backend = "postgres" =>
         q.status = ByTheBook(q.asked)
    /\ q.at = "devices" => q.low <= Cardinality(Ours)
    /\ q.at = "answer" => /\ ~MayFail => q.low <= q.count
                          /\ q.count <= Cardinality(Ours)

RequestsSound == \A r \in Request : RequestSound(req[r])

IInv == TypeOK /\ AcknowledgedOnRecord /\ RequestsSound

-----------------------------------------------------------------------------
(* Operators *)

LEMMA IdleRecord == Idle \in RequestState /\ Idle.at = "idle"
  BY DaysAssumption DEF Idle, RequestState, Point, LicenseStatus, Day

\* In memory no call fails.
LEMMA MemoryNeverFails == backend = "memory" => ~MayFail /\ \A x \in Outcome : x.applied /\ x.ok
  BY DEF MayFail, Outcome

\* The status the query of the PostgresStore selects is the one of the flowchart.
LEMMA StatusByTheBook ==
  ASSUME TypeOK
  PROVE  /\ Status \in LicenseStatus
         /\ backend = "postgres" => Status = ByTheBook(day)
<1>1. day \in Int /\ ValidUntil \in Int /\ ValidUntil + GracePeriodDays \in Int
      /\ ValidUntil <= ValidUntil + GracePeriodDays
  BY DaysAssumption DEF TypeOK, Day
<1>2. QED
  BY <1>1 DEF Status, ByTheBook, LicenseStatus

LEMMA OursCounted == Cardinality(Ours) \in Nat /\ IsFiniteSet(Ours)
<1>1. Ours \subseteq Device
  BY DEF Ours
<1>2. QED
  BY <1>1, DeviceAssumption, FS_Subset, FS_CardinalityType

-----------------------------------------------------------------------------
(* What one step leaves alone *)

\* Packages, deployments and enrolled devices only grow in number, and a device
\* keeps its owner.
LEMMA ThingsStay ==
  ASSUME IInv, [Next]_vars
  PROVE  /\ backend' = backend
         /\ packages \subseteq packages' /\ deployments \subseteq deployments'
         /\ owner' \in [Device -> {"none", "ours", "theirs"}]
         /\ \A d \in Device : owner[d] # "none" => owner'[d] = owner[d]
<1>1. backend' = backend /\ packages \subseteq packages' /\ deployments \subseteq deployments'
  BY DEF Next, vars, AcknowledgeAlert, InsertAuditLog, CreateSoftware, DeploySoftware,
         CreateDeployment, AnswerDeployed, GetLicense, ListDevices, AnswerLicense, Enroll,
         NextDay, Restart
<1>2. owner' = owner \/ \E d \in Device, o \in Owners :
                           owner[d] = "none" /\ owner' = [owner EXCEPT ![d] = o]
  BY DEF Next, vars, AcknowledgeAlert, InsertAuditLog, CreateSoftware, DeploySoftware,
         CreateDeployment, AnswerDeployed, GetLicense, ListDevices, AnswerLicense, Enroll,
         NextDay, Restart
<1>3. Owners \subseteq {"ours", "theirs"}
  BY DEF Owners
<1>4. QED
  BY <1>1, <1>2, <1>3 DEF IInv, TypeOK

\* No device of the organization is ever gone.
LEMMA OursGrows ==
  ASSUME IInv, [Next]_vars
  PROVE  Cardinality(Ours) <= Cardinality(Ours') /\ Cardinality(Ours') \in Nat
<1>1. Ours \subseteq Ours' /\ Ours' \subseteq Device
  BY ThingsStay DEF Ours
<1>2. QED
  BY <1>1, DeviceAssumption, FS_Subset, FS_CardinalityType

\* What a request holds stays sound while others move.
LEMMA SoundStays ==
  ASSUME IInv, [Next]_vars, NEW q \in RequestState, RequestSound(q)
  PROVE  RequestSound(q)'
<1>1. backend' = backend /\ MayFail' = MayFail
  BY ThingsStay DEF MayFail
<1>2. q.at = "deploy" => \A d \in q.owed : Accepts(q.pkg, d) => Accepts(q.pkg, d)'
  BY ThingsStay DEF Accepts, RequestState
<1>3. deployments \subseteq deployments'
  BY ThingsStay
<1>4. /\ q.low \in Nat /\ q.count \in Nat /\ Cardinality(Ours) \in Nat
      /\ Cardinality(Ours)' \in Nat /\ Cardinality(Ours) <= Cardinality(Ours)'
  BY OursGrows, OursCounted DEF RequestState
<1>5. ByTheBook(q.asked)' = ByTheBook(q.asked)
  BY DEF ByTheBook
<1>6. QED
  BY <1>1, <1>2, <1>3, <1>4, <1>5 DEF RequestSound

\* It is enough to look at the request that moves.
LEMMA OneMoves ==
  ASSUME IInv, [Next]_vars, NEW r \in Request, NEW p \in RequestState,
         req' = [req EXCEPT ![r] = p], RequestSound(p)'
  PROVE  req' \in [Request -> RequestState] /\ RequestsSound'
<1>1. req' \in [Request -> RequestState] /\ req'[r] = p
      /\ \A s \in Request : s # r => req'[s] = req[s]
  BY DEF IInv, TypeOK
<1>2. ASSUME NEW s \in Request PROVE RequestSound(req[s])'
  <2>1. CASE s = r
    BY <1>1, <2>1 DEF RequestSound
  <2>2. CASE s # r
    <3> PICK q \in RequestState : q = req[s]
      BY DEF IInv, TypeOK
    <3>1. RequestSound(q)'
      BY SoundStays DEF IInv, RequestsSound
    <3>2. QED
      BY <1>1, <2>2, <3>1 DEF RequestSound
  <2>3. QED
    BY <2>1, <2>2
<1>3. QED
  BY <1>1, <1>2 DEF RequestsSound, RequestSound

\* No request moves.
LEMMA NoneMoves ==
  ASSUME IInv, [Next]_vars, req' = req
  PROVE  req' \in [Request -> RequestState] /\ RequestsSound'
<1>1. ASSUME NEW s \in Request PROVE RequestSound(req[s])'
  <2> PICK q \in RequestState : q = req[s]
    BY DEF IInv, TypeOK
  <2>1. RequestSound(q)'
    BY SoundStays DEF IInv, RequestsSound
  <2>2. QED
    BY <2>1 DEF RequestSound
<1>2. QED
  BY <1>1 DEF IInv, TypeOK, RequestsSound

\* A request that was not about to audit leaves the record of the alerts alone.
LEMMA RecordStays ==
  ASSUME IInv, NEW r \in Request, req[r].at # "audit",
         \A s \in Request : s # r => req'[s] = req[s],
         UNCHANGED <<backend, acknowledged, audit>>
  PROVE  AcknowledgedOnRecord'
  BY DEF IInv, AcknowledgedOnRecord

\* Alerts and software are as they were.
LEMMA RowsStay ==
  ASSUME IInv, UNCHANGED <<backend, day, owner, acknowledged, packages, deployments, audit>>
  PROVE  req' \in [Request -> RequestState] => TypeOK'
  BY DEF IInv, TypeOK

-----------------------------------------------------------------------------
(* The invariant holds initially and every action preserves it *)

LEMMA InitIInv == Init => IInv
<1> SUFFICES ASSUME Init PROVE IInv
  OBVIOUS
<1>1. owner \in [Device -> {"none", "ours", "theirs"}] /\ 0 \in Day
  BY DaysAssumption DEF Init, Owners, Day
<1>2. TypeOK
  BY <1>1, BackendsAssumption, IdleRecord DEF Init, TypeOK
<1>3. AcknowledgedOnRecord
  BY DEF Init, AcknowledgedOnRecord
<1>4. RequestsSound
  BY IdleRecord DEF Init, RequestsSound, RequestSound
<1>5. QED
  BY <1>2, <1>3, <1>4 DEF IInv

LEMMA AcknowledgeAlertKeeps ==
  ASSUME IInv, [Next]_vars, NEW r \in Request, AcknowledgeAlert(r)
  PROVE  IInv'
<1> PICK a \in Alert, u \in User, x \in Outcome :
       /\ acknowledged' = IF x.applied THEN [acknowledged EXCEPT ![a] = u] ELSE acknowledged
       /\ req' = [req EXCEPT ![r] = IF x.ok THEN AfterAcknowledge(a, u) ELSE Idle]
  BY DEF AcknowledgeAlert
<1>1. req[r].at = "idle" /\ UNCHANGED <<backend, day, owner, packages, deployments, audit>>
  BY DEF AcknowledgeAlert
<1>2. PICK p \in RequestState :
         /\ req' = [req EXCEPT ![r] = p]
         /\ x.ok => p.at = "audit" /\ p.alert = a /\ p.user = u
         /\ ~x.ok => p.at = "idle"
  <2>1. CASE x.ok
    <3> DEFINE e == [Idle EXCEPT !.at = "audit", !.user = u, !.alert = a]
    <3>1. e \in RequestState /\ e.at = "audit" /\ e.alert = a /\ e.user = u
      BY IdleRecord DEF RequestState, Point
    <3>2. req' = [req EXCEPT ![r] = e]
      BY <2>1 DEF AfterAcknowledge
    <3> HIDE DEF e
    <3>3. QED
      BY <2>1, <3>1, <3>2
  <2>2. CASE ~x.ok
    BY <2>2, IdleRecord
  <2>3. QED
    BY <2>1, <2>2
<1>3. RequestSound(p)'
  BY <1>2 DEF RequestSound
<1>4. req' \in [Request -> RequestState] /\ RequestsSound'
  BY <1>2, <1>3, OneMoves
<1>5. acknowledged' \in [Alert -> User \cup {NoUser}]
  BY DEF IInv, TypeOK
<1>6. TypeOK'
  BY <1>1, <1>4, <1>5 DEF IInv, TypeOK
<1>7. AcknowledgedOnRecord'
  <2> SUFFICES ASSUME backend = "memory", NEW b \in Alert, acknowledged'[b] # NoUser
               PROVE  \/ [alert |-> b, user |-> acknowledged'[b]] \in audit
                      \/ \E s \in Request : /\ req'[s].at = "audit" /\ req'[s].alert = b
                                            /\ req'[s].user = acknowledged'[b]
    BY <1>1 DEF AcknowledgedOnRecord
  <2>1. /\ p.at = "audit" /\ p.alert = a /\ p.user = u
        /\ acknowledged' = [acknowledged EXCEPT ![a] = u]
    BY <1>2, MemoryNeverFails
  <2>2. req'[r] = p /\ \A s \in Request : s # r => req'[s] = req[s]
    BY <1>2 DEF IInv, TypeOK
  <2>3. CASE b = a
    BY <2>1, <2>2, <2>3 DEF IInv, TypeOK
  <2>4. CASE b # a
    <3>1. acknowledged'[b] = acknowledged[b]
      BY <2>1, <2>4 DEF IInv, TypeOK
    <3>2. QED
      BY <1>1, <2>2, <3>1 DEF IInv, AcknowledgedOnRecord
  <2>5. QED
    BY <2>3, <2>4
<1>8. QED
  BY <1>4, <1>6, <1>7 DEF IInv

LEMMA InsertAuditLogKeeps ==
  ASSUME IInv, [Next]_vars, NEW r \in Request, InsertAuditLog(r)
  PROVE  IInv'
<1> PICK q \in RequestState : q = req[r]
  BY DEF IInv, TypeOK
<1>1. /\ q.at = "audit" /\ q.alert \in Alert /\ q.user \in User
      /\ UNCHANGED <<backend, day, owner, acknowledged, packages, deployments>>
      /\ audit' = IF backend = "memory" THEN audit \cup {[alert |-> q.alert, user |-> q.user]}
                  ELSE audit
      /\ req' = [req EXCEPT ![r] = Idle]
  BY DEF InsertAuditLog, AuditRowKept, IInv, RequestsSound, RequestSound
<1>2. RequestSound(Idle)'
  BY IdleRecord DEF RequestSound
<1>3. req' \in [Request -> RequestState] /\ RequestsSound'
  BY <1>1, <1>2, IdleRecord, OneMoves
<1>4. TypeOK'
  BY <1>1, <1>3 DEF IInv, TypeOK
<1>5. AcknowledgedOnRecord'
  <2>1. \A s \in Request : s # r => req'[s] = req[s]
    BY <1>1
  <2>2. backend = "memory" => [alert |-> q.alert, user |-> q.user] \in audit' /\ audit \subseteq audit'
    BY <1>1
  <2>3. QED
    BY <1>1, <2>1, <2>2 DEF IInv, AcknowledgedOnRecord
<1>6. QED
  BY <1>3, <1>4, <1>5 DEF IInv
LEMMA CreateSoftwareKeeps ==
  ASSUME IInv, [Next]_vars, NEW r \in Request, CreateSoftware(r)
  PROVE  IInv'
<1>1. /\ packages \subseteq packages' /\ packages' \subseteq Package
      /\ UNCHANGED <<backend, day, owner, acknowledged, deployments, audit, req>>
  BY DEF CreateSoftware, IInv, TypeOK
<1>2. TypeOK' /\ AcknowledgedOnRecord'
  BY <1>1 DEF IInv, TypeOK, AcknowledgedOnRecord
<1>3. QED
  BY <1>1, <1>2, NoneMoves DEF IInv

LEMMA DeploySoftwareKeeps ==
  ASSUME IInv, [Next]_vars, NEW r \in Request, DeploySoftware(r)
  PROVE  IInv'
<1> PICK k \in Package, targets \in (SUBSET Device) \ {{}} :
       req' = [req EXCEPT ![r] = [Idle EXCEPT !.at = "deploy", !.pkg = k, !.todo = targets,
                                              !.owed = {d \in targets : Accepts(k, d)}]]
  BY DEF DeploySoftware
<1>1. /\ req[r].at = "idle"
      /\ UNCHANGED <<backend, day, owner, acknowledged, packages, deployments, audit>>
  BY DEF DeploySoftware
<1> DEFINE due == {d \in targets : Accepts(k, d)}
<1>2. due \subseteq targets /\ due \subseteq Device /\ \A d \in due : Accepts(k, d)
  OBVIOUS
<1> HIDE DEF due
<1>3. PICK p \in RequestState :
         /\ p = [Idle EXCEPT !.at = "deploy", !.pkg = k, !.todo = targets, !.owed = due]
         /\ p.at = "deploy" /\ p.pkg = k /\ p.todo = targets /\ p.owed = due
  <2> DEFINE e == [Idle EXCEPT !.at = "deploy", !.pkg = k, !.todo = targets, !.owed = due]
  <2>1. /\ e \in RequestState
        /\ e.at = "deploy" /\ e.pkg = k /\ e.todo = targets /\ e.owed = due
    BY <1>2, IdleRecord DEF RequestState, Point
  <2> HIDE DEF e
  <2>2. QED
    BY <2>1 DEF e
<1>4. RequestSound(p)'
  <2>1. \A d \in due : Accepts(k, d)'
    BY <1>1, <1>2 DEF Accepts
  <2>2. QED
    BY <1>2, <1>3, <2>1 DEF RequestSound
<1>5. req' = [req EXCEPT ![r] = p]
  BY <1>3 DEF due
<1>6. req' \in [Request -> RequestState] /\ RequestsSound'
  BY <1>4, <1>5, OneMoves
<1>7. AcknowledgedOnRecord'
  <2>1. \A s \in Request : s # r => req'[s] = req[s]
    BY <1>5 DEF IInv, TypeOK
  <2>2. QED
    BY <1>1, <2>1, RecordStays
<1>8. QED
  BY <1>1, <1>6, <1>7, RowsStay DEF IInv

LEMMA CreateDeploymentKeeps ==
  ASSUME IInv, [Next]_vars, NEW r \in Request, CreateDeployment(r)
  PROVE  IInv'
<1> PICK q \in RequestState : q = req[r]
  BY DEF IInv, TypeOK
<1>1. /\ q.at = "deploy" /\ q.pkg \in Package
      /\ \A d \in q.owed : /\ Accepts(q.pkg, d)
                           /\ d \in q.todo \/ [pkg |-> q.pkg, dev |-> d] \in deployments
      /\ UNCHANGED <<backend, day, owner, acknowledged, packages, audit>>
  BY DEF CreateDeployment, IInv, RequestsSound, RequestSound
<1>2. PICK d \in q.todo, x \in Outcome :
         /\ deployments' = IF x.applied /\ Accepts(q.pkg, d)
               THEN deployments \cup {[pkg |-> q.pkg, dev |-> d]} ELSE deployments
         /\ req' = [req EXCEPT ![r].todo = q.todo \ {d},
                               ![r].owed = IF x.ok THEN @ ELSE @ \ {d}]
  BY DEF CreateDeployment, Remaining
<1>3. d \in Device /\ (x.ok => x.applied)
  BY DEF RequestState, Outcome
<1> DEFINE left == IF x.ok THEN q.owed ELSE q.owed \ {d}
<1>4. left \subseteq q.owed /\ (d \in left => x.ok) /\ left \subseteq Device
  BY DEF RequestState
<1>5. PICK p \in RequestState :
         /\ p = [q EXCEPT !.todo = q.todo \ {d}, !.owed = left]
         /\ p.at = "deploy" /\ p.pkg = q.pkg /\ p.todo = q.todo \ {d} /\ p.owed = left
  <2> DEFINE e == [q EXCEPT !.todo = q.todo \ {d}, !.owed = left]
  <2> HIDE DEF left
  <2>1. /\ e \in RequestState
        /\ e.at = "deploy" /\ e.pkg = q.pkg /\ e.todo = q.todo \ {d} /\ e.owed = left
    BY <1>1, <1>4 DEF RequestState
  <2> HIDE DEF e
  <2>2. QED
    BY <2>1 DEF e
<1>6. req' = [req EXCEPT ![r] = p]
  BY <1>2, <1>5 DEF IInv, TypeOK
<1> HIDE DEF left
<1>7. RequestSound(p)'
  <2>1. \A k \in left : Accepts(q.pkg, k)'
    BY <1>1, <1>4 DEF Accepts
  <2>2. deployments \subseteq deployments'
    BY <1>2
  <2>3. d \in left => [pkg |-> q.pkg, dev |-> d] \in deployments'
    BY <1>1, <1>2, <1>3, <1>4
  <2>4. QED
    BY <1>1, <1>4, <1>5, <2>1, <2>2, <2>3 DEF RequestSound
<1>8. req' \in [Request -> RequestState] /\ RequestsSound'
  BY <1>6, <1>7, OneMoves
<1>9. TypeOK'
  <2>1. \A e \in deployments' : \/ e \in deployments
                                \/ e = [pkg |-> q.pkg, dev |-> d] /\ Accepts(q.pkg, d)
    BY <1>2
  <2>2. deployments' \subseteq Deployment
    BY <1>1, <1>3, <2>1 DEF IInv, TypeOK, Deployment
  <2>3. backend = "postgres" => \A e \in deployments' : e.pkg \in packages /\ owner[e.dev] # "none"
    BY <2>1 DEF IInv, TypeOK, Accepts
  <2>4. QED
    BY <1>1, <1>8, <2>2, <2>3 DEF IInv, TypeOK
<1>10. AcknowledgedOnRecord'
  BY <1>1, <1>6, RecordStays
<1>11. QED
  BY <1>8, <1>9, <1>10 DEF IInv

LEMMA GetLicenseKeeps ==
  ASSUME IInv, [Next]_vars, NEW r \in Request, GetLicense(r)
  PROVE  IInv'
<1> PICK status, low : status = Status /\ low = Cardinality(Ours)
  OBVIOUS
<1> PICK t \in Day : t = day
  BY DEF IInv, TypeOK
<1>1. /\ req[r].at = "idle"
      /\ req' = [req EXCEPT ![r] = [Idle EXCEPT !.at = "devices", !.status = status,
                                                !.asked = t, !.low = low]]
      /\ UNCHANGED <<backend, day, owner, acknowledged, packages, deployments, audit>>
  BY DEF GetLicense
<1>2. status \in LicenseStatus /\ low \in Nat
  BY StatusByTheBook, OursCounted DEF IInv
<1>3. PICK p \in RequestState :
         /\ p = [Idle EXCEPT !.at = "devices", !.status = status, !.asked = t, !.low = low]
         /\ p.at = "devices" /\ p.status = status /\ p.asked = t /\ p.low = low
  <2> DEFINE e == [Idle EXCEPT !.at = "devices", !.status = status, !.asked = t, !.low = low]
  <2>1. /\ e \in RequestState
        /\ e.at = "devices" /\ e.status = status /\ e.asked = t /\ e.low = low
    BY <1>2 DEF Idle, RequestState, Point
  <2> HIDE DEF e
  <2>2. QED
    BY <2>1 DEF e
<1>4. RequestSound(p)'
  <2>1. low <= Cardinality(Ours)'
    BY <1>2, OursGrows, OursCounted
  <2>2. backend = "postgres" => status = ByTheBook(t)'
    BY StatusByTheBook DEF IInv, ByTheBook
  <2>3. QED
    BY <1>1, <1>3, <2>1, <2>2 DEF RequestSound
<1>5. req' \in [Request -> RequestState] /\ RequestsSound'
  BY <1>1, <1>3, <1>4, OneMoves
<1>6. AcknowledgedOnRecord'
  BY <1>1, RecordStays
<1>7. QED
  BY <1>1, <1>5, <1>6, RowsStay DEF IInv

LEMMA ListDevicesKeeps ==
  ASSUME IInv, [Next]_vars, NEW r \in Request, ListDevices(r)
  PROVE  IInv'
<1> PICK q \in RequestState : q = req[r]
  BY DEF IInv, TypeOK
<1>1. /\ q.at = "devices" /\ q.low <= Cardinality(Ours)
      /\ backend = "postgres" => q.status = ByTheBook(q.asked)
      /\ UNCHANGED <<backend, day, owner, acknowledged, packages, deployments, audit>>
  BY DEF ListDevices, IInv, RequestsSound, RequestSound
<1> PICK all \in Nat : all = Cardinality(Ours)
  BY OursCounted
<1>2. PICK n \in Counted(all) : req' = [req EXCEPT ![r].at = "answer", ![r].count = n]
  BY DEF ListDevices, Listed
<1>3. n \in Nat /\ n <= all /\ (~MayFail => n = all)
  BY DEF Counted
<1>4. PICK p \in RequestState :
         /\ p = [q EXCEPT !.at = "answer", !.count = n]
         /\ p.at = "answer" /\ p.count = n /\ p.low = q.low
         /\ p.status = q.status /\ p.asked = q.asked
  <2> DEFINE e == [q EXCEPT !.at = "answer", !.count = n]
  <2>1. /\ e \in RequestState
        /\ e.at = "answer" /\ e.count = n /\ e.low = q.low
        /\ e.status = q.status /\ e.asked = q.asked
    BY <1>3 DEF RequestState, Point
  <2> HIDE DEF e
  <2>2. QED
    BY <2>1 DEF e
<1>5. req' = [req EXCEPT ![r] = p]
  BY <1>2, <1>4 DEF IInv, TypeOK
<1>6. RequestSound(p)'
  <2>1. MayFail' = MayFail /\ Cardinality(Ours)' = all
    BY <1>1 DEF MayFail, Ours
  <2>2. ByTheBook(q.asked)' = ByTheBook(q.asked)
    BY DEF ByTheBook
  <2>3. QED
    BY <1>1, <1>3, <1>4, <2>1, <2>2 DEF RequestSound
<1>7. req' \in [Request -> RequestState] /\ RequestsSound'
  BY <1>5, <1>6, OneMoves
<1>8. AcknowledgedOnRecord'
  BY <1>1, <1>5, RecordStays
<1>9. QED
  BY <1>1, <1>7, <1>8, RowsStay DEF IInv

LEMMA NextIInv == IInv /\ [Next]_vars => IInv'
<1> SUFFICES ASSUME IInv, [Next]_vars PROVE IInv'
  OBVIOUS
<1>1. ASSUME NEW r \in Request, AnswerDeployed(r) \/ AnswerLicense(r) PROVE IInv'
  <2>1. /\ req[r].at # "audit" /\ req' = [req EXCEPT ![r] = Idle]
        /\ UNCHANGED <<backend, day, owner, acknowledged, packages, deployments, audit>>
    BY <1>1 DEF AnswerDeployed, AnswerLicense
  <2>2. RequestSound(Idle)'
    BY IdleRecord DEF RequestSound
  <2>3. req' \in [Request -> RequestState] /\ RequestsSound'
    BY <2>1, <2>2, IdleRecord, OneMoves
  <2>4. AcknowledgedOnRecord'
    BY <2>1, RecordStays
  <2>5. QED
    BY <2>1, <2>3, <2>4, RowsStay DEF IInv
<1>2. ASSUME NEW d \in Device, Enroll(d) PROVE IInv'
  <2>1. UNCHANGED <<backend, day, acknowledged, packages, deployments, audit, req>>
    BY <1>2 DEF Enroll
  <2>2. TypeOK'
    BY <2>1, ThingsStay DEF IInv, TypeOK, Deployment
  <2>3. AcknowledgedOnRecord'
    BY <2>1 DEF IInv, AcknowledgedOnRecord
  <2>4. QED
    BY <2>1, <2>2, <2>3, NoneMoves DEF IInv
<1>3. CASE NextDay
  <2>1. UNCHANGED <<backend, owner, acknowledged, packages, deployments, audit, req>>
        /\ day' \in Day
    BY <1>3, DaysAssumption DEF NextDay, IInv, TypeOK, Day
  <2>2. TypeOK' /\ AcknowledgedOnRecord'
    BY <2>1 DEF IInv, TypeOK, AcknowledgedOnRecord
  <2>3. QED
    BY <2>1, <2>2, NoneMoves DEF IInv
<1>4. CASE Restart
  <2>1. req' \in [Request -> RequestState] /\ RequestsSound'
    BY <1>4, IdleRecord DEF Restart, RequestsSound, RequestSound
  <2>2. AcknowledgedOnRecord'
    BY <1>4, MemoryNeverFails DEF Restart, AcknowledgedOnRecord
  <2>3. QED
    BY <1>4, <2>1, <2>2, RowsStay DEF Restart, IInv
<1>5. CASE UNCHANGED vars
  <2>1. AcknowledgedOnRecord'
    BY <1>5 DEF vars, IInv, AcknowledgedOnRecord
  <2>2. QED
    BY <1>5, <2>1, NoneMoves, RowsStay DEF vars, IInv
<1>6. QED
  BY <1>1, <1>2, <1>3, <1>4, <1>5, AcknowledgeAlertKeeps, InsertAuditLogKeeps,
     CreateSoftwareKeeps, DeploySoftwareKeeps, CreateDeploymentKeeps, GetLicenseKeeps,
     ListDevicesKeeps
     DEF Next

-----------------------------------------------------------------------------
(* Theorems *)

\* Rows and requests keep their shape, acknowledgements are on record or about
\* to be, and what a request holds between two calls stays valid.
THEOREM InvariantHolds == Spec => []IInv
  BY InitIInv, NextIInv, PTL DEF Spec

\* Type correctness; in PostgreSQL CreateDeployment stores only deployments of
\* stored packages to enrolled devices.
THEOREM TypeCorrect == Spec => []TypeOK
  BY InvariantHolds, PTL DEF IInv

\* With the MemoryStore AcknowledgeAlert has whoever an alert names on record, or
\* about to be, for any number of users at once.
THEOREM AcknowledgementsOnRecord == Spec => []AcknowledgedOnRecord
  BY InvariantHolds, PTL DEF IInv

\* DeploySoftware reaches every device nothing keeps the package from, whichever
\* calls for the others fail or are rejected.
THEOREM DeploymentsReachTheRest == Spec => []DeployedToTheRest
<1>1. IInv => DeployedToTheRest
  BY DEF IInv, RequestsSound, RequestSound, DeployedToTheRest
<1>2. QED
  BY <1>1, InvariantHolds, PTL

\* GetCurrentLicense answers with the status of the day it was asked and, when no
\* call fails, with a number of devices there were between its two reads, for any
\* dates and any number of days of grace.
THEOREM LicenseAnswersAreCurrent == Spec => []LicenseAnswerCurrent
<1>1. IInv => LicenseAnswerCurrent
  BY DEF IInv, RequestsSound, RequestSound, LicenseAnswerCurrent
<1>2. QED
  BY <1>1, InvariantHolds, PTL
=============================================================================
