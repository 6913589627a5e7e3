----------------------------- MODULE Operations -----------------------------
(***************************************************************************)
(* Operations of the API service for one organization: alerts that are     *)
(* acknowledged, software that is registered and deployed, and the answer  *)
(* about the license, next to devices that enroll.  Requests are sequences *)
(* of atomic store calls, as in Enrollment.  Alerts and licenses are never *)
(* made by the service: CreateAlert and SaveLicense have no caller.        *)
(***************************************************************************)
EXTENDS Integers, FiniteSets

CONSTANTS
    Alert,          \* the alerts of the organization
    User,
    Package,        \* identifiers uuid.New may give to a software package
    Device,
    Request,        \* request goroutines that may run at the same time
    ValidUntil,     \* the dates of the organization's license, in days
    GracePeriodDays,
    LastDay,        \* bound: the calendar stops there
    Backends,       \* the stores main.go may choose: "memory", "postgres"
    Faults,         \* whether database calls may fail and the API restart
    NoAlert, NoUser, NoPackage

ASSUME BackendsAssumption == Backends \subseteq {"memory", "postgres"}
ASSUME FaultsAssumption == Faults \in BOOLEAN
ASSUME DaysAssumption == ValidUntil \in Nat /\ GracePeriodDays \in Nat /\ LastDay \in Nat
ASSUME DeviceAssumption == IsFiniteSet(Device)
ASSUME NoneAssumption == NoAlert \notin Alert /\ NoUser \notin User /\ NoPackage \notin Package

VARIABLES
    backend,        \* the store main.go chose, once
    day,            \* time.Now
    owner,          \* whose each device is: "none" before it is enrolled
    acknowledged,   \* acknowledged_by of every alert
    packages,       \* the rows of software_packages
    deployments,    \* the rows of software_deployments
    audit,          \* the audit log, as the set of its alert.acknowledged entries
    req             \* the local state of every request goroutine

vars == <<backend, day, owner, acknowledged, packages, deployments, audit, req>>

-----------------------------------------------------------------------------
Day == 0 .. LastDay

Deployment == [pkg : Package, dev : Device]

LicenseStatus == {"ACTIVE", "GRACE_PERIOD", "EXPIRED"}

Point == {"idle", "audit", "deploy", "devices", "answer"}

\* user, alert: of an acknowledgement.  pkg, todo: the package and the devices
\* still to deploy it to.  status, count: of the license answer under way.
\* Three fields only remember, for the properties: owed, the devices nothing
\* keeps a deployment from; asked and low, the day and the number of devices
\* when the license was read.
RequestState ==
    [at : Point, user : User \cup {NoUser}, alert : Alert \cup {NoAlert},
     pkg : Package \cup {NoPackage}, todo : SUBSET Device, owed : SUBSET Device,
     status : LicenseStatus, asked : Day, low : Nat, count : Nat]

Idle == [at |-> "idle", user |-> NoUser, alert |-> NoAlert,
         pkg |-> NoPackage, todo |-> {}, owed |-> {},
         status |-> "ACTIVE", asked |-> 0, low |-> 0, count |-> 0]

\* As in Enrollment.
MayFail == Faults /\ backend = "postgres"

Outcome == {x \in [applied : BOOLEAN, ok : BOOLEAN] :
               /\ x.ok => x.applied
               /\ ~MayFail => x.ok}

\* The MemoryStore serves one organization only.
Owners == IF backend = "memory" THEN {"ours"} ELSE {"ours", "theirs"}

\* As in RemoteSession.
AuditRowKept == backend = "memory"

Ours == {d \in Device : owner[d] = "ours"}

\* NewMemoryStore seeds devices; a database has those enrolled before.
Init ==
    /\ backend \in Backends
    /\ day = 0
    /\ owner \in [Device -> {"none"} \cup Owners]
    /\ acknowledged = [a \in Alert |-> NoUser]
    /\ packages = {}
    /\ deployments = {}
    /\ audit = {}
    /\ req = [r \in Request |-> Idle]

-----------------------------------------------------------------------------
(* Alerts.  The slips the properties are tested against stand first. *)

AfterAcknowledgeFirstOnly(a, u) ==
    IF acknowledged[a] = NoUser THEN [Idle EXCEPT !.at = "audit", !.user = u, !.alert = a] ELSE Idle

\* The handler audits every acknowledgement, the second one of an alert too.
AfterAcknowledge(a, u) == [Idle EXCEPT !.at = "audit", !.user = u, !.alert = a]

(* AcknowledgeAlert: the row names whoever acknowledged it last. *)
AcknowledgeAlert(r) ==
    /\ req[r].at = "idle"
    /\ \E a \in Alert, u \in User, x \in Outcome :
          /\ acknowledged' = IF x.applied THEN [acknowledged EXCEPT ![a] = u] ELSE acknowledged
          /\ req' = [req EXCEPT ![r] = IF x.ok THEN AfterAcknowledge(a, u) ELSE Idle]
    /\ UNCHANGED <<backend, day, owner, packages, deployments, audit>>

(* The error of InsertAuditLog is dropped, then the answer is written. *)
InsertAuditLog(r) ==
    /\ req[r].at = "audit"
    /\ audit' = IF AuditRowKept
                  THEN audit \cup {[alert |-> req[r].alert, user |-> req[r].user]} ELSE audit
    /\ req' = [req EXCEPT ![r] = Idle]
    /\ UNCHANGED <<backend, day, owner, acknowledged, packages, deployments>>

-----------------------------------------------------------------------------
(* Software *)

(* CreateSoftware: one insertion, then the answer. *)
CreateSoftware(r) ==
    /\ req[r].at = "idle"
    /\ \E p \in Package \ packages, x \in Outcome :
          packages' = IF x.applied THEN packages \cup {p} ELSE packages
    /\ UNCHANGED <<backend, day, owner, acknowledged, deployments, audit, req>>

AcceptsAny(p, d) == TRUE

\* The foreign keys of software_deployments; the MemoryStore has none.
Accepts(p, d) == backend = "postgres" => p \in packages /\ owner[d] # "none"

(* DeploySoftware, up to the loop: package and devices are those the request
   names.  Packages and devices are never deleted. *)
DeploySoftware(r) ==
    /\ req[r].at = "idle"
    /\ \E p \in Package, targets \in (SUBSET Device) \ {{}} :
          req' = [req EXCEPT ![r] = [Idle EXCEPT !.at = "deploy", !.pkg = p, !.todo = targets,
                                                 !.owed = {d \in targets : Accepts(p, d)}]]
    /\ UNCHANGED <<backend, day, owner, acknowledged, packages, deployments, audit>>

RemainingUnlessRejected(r, d, ok) == IF ok THEN req[r].todo \ {d} ELSE {}

\* The loop goes on whatever CreateDeployment returned.
Remaining(r, d, ok) == req[r].todo \ {d}

(* One round of the loop: CreateDeployment, its error dropped. *)
CreateDeployment(r) ==
    /\ req[r].at = "deploy"
    /\ \E d \in req[r].todo, x \in Outcome :
          LET p == req[r].pkg
          IN  /\ deployments' = IF x.applied /\ Accepts(p, d)
                    THEN deployments \cup {[pkg |-> p, dev |-> d]} ELSE deployments
              /\ req' = [req EXCEPT ![r].todo = Remaining(r, d, x.ok /\ Accepts(p, d)),
                                    ![r].owed = IF x.ok THEN @ ELSE @ \ {d}]
    /\ UNCHANGED <<backend, day, owner, acknowledged, packages, audit>>

(* The answer counts the devices of the request, deployed or not. *)
AnswerDeployed(r) ==
    /\ req[r].at = "deploy"
    /\ req[r].todo = {}
    /\ req' = [req EXCEPT ![r] = Idle]
    /\ UNCHANGED <<backend, day, owner, acknowledged, packages, deployments, audit>>

-----------------------------------------------------------------------------
(* Licensing *)

StatusGraceFirst ==
    IF backend = "memory" THEN "ACTIVE"
    ELSE IF day > ValidUntil THEN "GRACE_PERIOD"
    ELSE IF day > ValidUntil + GracePeriodDays THEN "EXPIRED"
    ELSE "ACTIVE"

\* The status GetLicense gives the license, for the row of the organization
\* that the query returns; the status that NewMemoryStore seeds is stored.
Status ==
    IF backend = "memory" THEN "ACTIVE"
    ELSE IF day > ValidUntil + GracePeriodDays THEN "EXPIRED"
    ELSE IF day > ValidUntil THEN "GRACE_PERIOD"
    ELSE "ACTIVE"

(* GetCurrentLicense, first call: GetLicense. *)
GetLicense(r) ==
    /\ req[r].at = "idle"
    /\ req' = [req EXCEPT ![r] = [Idle EXCEPT !.at = "devices", !.status = Status, !.asked = day,
                                              !.low = Cardinality(Ours)]]
    /\ UNCHANGED <<backend, day, owner, acknowledged, packages, deployments, audit>>

ListedOfAll == {d \in Device : owner[d] # "none"}

\* ListDevices: those of the organization, revoked ones too.
Listed == Ours

\* How many of n devices ListDevices returns: a failed call none, and one whose
\* connection is lost while rows arrive those that did, for rows.Err is never
\* asked; the handler drops the error.
Counted(n) == IF MayFail THEN 0 .. n ELSE {n}

(* GetCurrentLicense, second call. *)
ListDevices(r) ==
    /\ req[r].at = "devices"
    /\ \E n \in Counted(Cardinality(Listed)) :
          req' = [req EXCEPT ![r].at = "answer", ![r].count = n]
    /\ UNCHANGED <<backend, day, owner, acknowledged, packages, deployments, audit>>

(* The answer: the license, enrolled_count, and seats_remaining, which is what
   max_devices is above the count and may be negative. *)
AnswerLicense(r) ==
    /\ req[r].at = "answer"
    /\ req' = [req EXCEPT ![r] = Idle]
    /\ UNCHANGED <<backend, day, owner, acknowledged, packages, deployments, audit>>

-----------------------------------------------------------------------------
\* A device enrolls, whatever the license says.
Enroll(d) ==
    /\ owner[d] = "none"
    /\ \E o \in Owners : owner' = [owner EXCEPT ![d] = o]
    /\ UNCHANGED <<backend, day, acknowledged, packages, deployments, audit, req>>

NextDay ==
    /\ day < LastDay
    /\ day' = day + 1
    /\ UNCHANGED <<backend, owner, acknowledged, packages, deployments, audit, req>>

Restart ==
    /\ MayFail
    /\ \E r \in Request : req[r].at # "idle"
    /\ req' = [r \in Request |-> Idle]
    /\ UNCHANGED <<backend, day, owner, acknowledged, packages, deployments, audit>>

Next ==
    \/ \E r \in Request :
          \/ AcknowledgeAlert(r) \/ InsertAuditLog(r)
          \/ CreateSoftware(r) \/ DeploySoftware(r) \/ CreateDeployment(r) \/ AnswerDeployed(r)
          \/ GetLicense(r) \/ ListDevices(r) \/ AnswerLicense(r)
    \/ \E d \in Device : Enroll(d)
    \/ NextDay
    \/ Restart

Spec == Init /\ [][Next]_vars

-----------------------------------------------------------------------------
(* Properties *)

\* Every variable keeps its shape, and in PostgreSQL a deployment is one of a
\* stored package to an enrolled device.
TypeOK ==
    /\ backend \in {"memory", "postgres"}
    /\ day \in Day
    /\ owner \in [Device -> {"none", "ours", "theirs"}]
    /\ acknowledged \in [Alert -> User \cup {NoUser}]
    /\ packages \subseteq Package
    /\ deployments \subseteq Deployment
    /\ backend = "postgres" =>
          \A e \in deployments : e.pkg \in packages /\ owner[e.dev] # "none"
    /\ audit \subseteq [alert : Alert, user : User]
    /\ req \in [Request -> RequestState]

\* With the MemoryStore whoever an alert says acknowledged it is on record,
\* or about to be, also when several users acknowledge the alert at once.
AcknowledgedOnRecord ==
    backend = "memory" => \A a \in Alert : acknowledged[a] # NoUser =>
       \/ [alert |-> a, user |-> acknowledged[a]] \in audit
       \/ \E r \in Request :
             req[r].at = "audit" /\ req[r].alert = a /\ req[r].user = acknowledged[a]

\* A deployment that is answered has reached every device it could reach: one
\* that is rejected or fails does not keep it from the others.
DeployedToTheRest ==
    \A r \in Request : req[r].at = "deploy" /\ req[r].todo = {} =>
       \A d \in req[r].owed : [pkg |-> req[r].pkg, dev |-> d] \in deployments

\* The flowchart of the license check in docs/LICENSING_DESIGN.md.
ByTheBook(t) ==
    CASE t <= ValidUntil -> "ACTIVE"
      [] t > ValidUntil /\ t <= ValidUntil + GracePeriodDays -> "GRACE_PERIOD"
      [] OTHER -> "EXPIRED"

\* An answer about the license puts two reads together: the status was right
\* when the request began (with the PostgresStore), and the number of enrolled
\* devices, unless reads may fail, was right at some time since; when one fails
\* seats_remaining is too high, never too low.
LicenseAnswerCurrent ==
    \A r \in Request : req[r].at = "answer" =>
       /\ backend = "postgres" => req[r].status = ByTheBook(req[r].asked)
       /\ ~MayFail => req[r].low <= req[r].count
       /\ req[r].count <= Cardinality(Ours)
=============================================================================
