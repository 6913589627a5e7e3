---------------------------- MODULE RemoteSession ----------------------------
(***************************************************************************)
(* Remote support sessions of the API service: request, consent of the     *)
(* workstation user, termination, next to devices whose status changes     *)
(* under them.  Requests are sequences of atomic store calls, as in        *)
(* Enrollment; devices follow DeviceLifecycle, which Enrollment            *)
(* implements.                                                             *)
(***************************************************************************)
CONSTANTS
    Session,        \* identifiers uuid.New may give to a session
    Device,
    Request,        \* request goroutines that may run at the same time
    Backends,       \* the stores main.go may choose: "memory", "postgres"
    Faults,         \* whether database calls may fail and the API restart
    Unknown,        \* an identifier no session was ever given
    NoSession, NoDevice

ASSUME BackendsAssumption == Backends \subseteq {"memory", "postgres"}
ASSUME FaultsAssumption == Faults \in BOOLEAN
ASSUME NoneAssumption == /\ NoSession \notin Session \cup {Unknown}
                         /\ Unknown \notin Session
                         /\ NoDevice \notin Device

VARIABLES
    backend,            \* the store main.go chose, once
    status, approvals,  \* the devices: see DeviceLifecycle
    sessions,           \* the rows of remote_sessions
    audit,              \* the audit log, as the set of its session entries
    req                 \* the local state of every request goroutine

vars == <<backend, status, approvals, sessions, audit, req>>

Devices == INSTANCE DeviceLifecycle

-----------------------------------------------------------------------------
SessionStatus == {"NONE", "REQUESTED", "CONNECTED", "REJECTED", "TERMINATED"}

\* consent: whether the session was created with mandatory consent;
\* started, ended: whether started_at and ended_at are set.
SessionRecord ==
    [status : SessionStatus, device : Device \cup {NoDevice},
     consent : BOOLEAN, started : BOOLEAN, ended : BOOLEAN]

AuditAction == {"session.requested", "session.consent.granted",
                "session.consent.denied", "session.terminated"}

Point == {"idle", "create"} \cup AuditAction

RequestState == [at : Point, session : Session \cup {Unknown, NoSession},
                 device : Device \cup {NoDevice}, consent : BOOLEAN]

Idle == [at |-> "idle", session |-> NoSession, device |-> NoDevice, consent |-> TRUE]

AtAudit(a, s) == [Idle EXCEPT !.at = a, !.session = s]

\* As in Enrollment.
MayFail == Faults /\ backend = "postgres"

\* What a store call does and what it reports (see Enrollment).
Outcome == {x \in [applied : BOOLEAN, ok : BOOLEAN] :
               /\ x.ok => x.applied
               /\ ~MayFail => x.ok}

Stored(s) == sessions[s].status # "NONE"

\* Identifiers a caller may send: those of stored sessions and one of none.  What
\* uuid.New will draw nobody can name.
Named == {s \in Session : Stored(s)} \cup {Unknown}

Fresh == {s \in Session : ~Stored(s) /\ \A r \in Request : req[r].session # s}

-----------------------------------------------------------------------------
\* Slips the properties are tested against stand before the definitions.
WithStatusAndEnd(s, st) ==
    [sessions EXCEPT ![s].status = st,
                     ![s].started = @ \/ st = "CONNECTED",
                     ![s].ended = TRUE]

WithStatusEndingRejected(s, st) ==
    [sessions EXCEPT ![s].status = st,
                     ![s].started = @ \/ st = "CONNECTED",
                     ![s].ended = @ \/ st = "REJECTED"]

\* UpdateRemoteSessionStatus on a row it finds, the same in both stores: the
\* status is written whatever it was, the time stamps are never taken back.
WithStatus(s, st) ==
    [sessions EXCEPT ![s].status = st,
                     ![s].started = @ \/ st = "CONNECTED",
                     ![s].ended = @ \/ st \in {"TERMINATED", "REJECTED"}]

ConsentMatchesAny(s) == s # Unknown
ConsentMatchesNone(s) == FALSE

\* HandleConsent passes uuid.Nil as organization.  The MemoryStore ignores
\* the organization; the UPDATE of the PostgresStore matches no row, and the
\* handler's second attempt looks among the sessions of organization uuid.Nil,
\* of which there are none.
ConsentMatches(s) == s # Unknown /\ backend = "memory"

\* TerminateSession passes the caller's organization; own says whether it is
\* the organization of the session (the MemoryStore has only one).
Own == IF backend = "memory" THEN {TRUE} ELSE BOOLEAN

TerminateMatches(s, own) == s # Unknown /\ (backend = "memory" \/ own)

\* The audit_logs column ip_address is of type INET and the handlers pass
\* "host:port": PostgreSQL rejects the row, the handlers drop the error.
AuditRowKept == backend = "memory"

Init ==
    /\ backend \in Backends
    /\ Devices!Init
    /\ sessions = [s \in Session |-> [status |-> "NONE", device |-> NoDevice,
                                      consent |-> TRUE, started |-> FALSE, ended |-> FALSE]]
    /\ audit = {}
    /\ req = [r \in Request |-> Idle]

ReadyAlways(d) == status[d] # "NONE"

\* The status CreateSession asks for.
Ready(d) == status[d] = "ACTIVE"

(* CreateSession, first calls: the device is looked up and must be ACTIVE;
   consent is the organization's setting, TRUE when GetOrganization fails,
   unless the request says otherwise, so either value may come out. *)
CreateCheck(r) ==
    /\ req[r].at = "idle"
    /\ \E d \in Device, s \in Fresh, c \in BOOLEAN :
          /\ Ready(d)
          /\ req' = [req EXCEPT ![r] = [at |-> "create", session |-> s, device |-> d, consent |-> c]]
    /\ UNCHANGED <<backend, status, approvals, sessions, audit>>

InitiallyConnected(c) == "CONNECTED"
InitiallyPending(c) == IF c THEN "PENDING" ELSE "CONNECTED"

InitialStatus(c) == IF c THEN "REQUESTED" ELSE "CONNECTED"

(* CreateSession, next call: CreateRemoteSession inserts the row. *)
CreateInsert(r) ==
    /\ req[r].at = "create"
    /\ \E x \in Outcome :
          /\ sessions' = IF x.applied
                THEN [sessions EXCEPT ![req[r].session] =
                        [status |-> InitialStatus(req[r].consent), device |-> req[r].device,
                         consent |-> req[r].consent, started |-> ~req[r].consent, ended |-> FALSE]]
                ELSE sessions
          /\ req' = [req EXCEPT ![r] = IF x.ok THEN AtAudit("session.requested", req[r].session)
                                               ELSE Idle]
    /\ UNCHANGED <<backend, status, approvals, audit>>

(* HandleConsent: any decision but DENIED grants.  Whether a row was found or
   not, or the call failed, the handler goes on to the audit entry and answers
   200. *)
Consent(r) ==
    /\ req[r].at = "idle"
    /\ \E s \in Named, granted \in BOOLEAN, x \in Outcome :
          /\ sessions' = IF ConsentMatches(s) /\ x.applied
                THEN WithStatus(s, IF granted THEN "CONNECTED" ELSE "REJECTED")
                ELSE sessions
          /\ req' = [req EXCEPT ![r] =
                AtAudit(IF granted THEN "session.consent.granted" ELSE "session.consent.denied", s)]
    /\ UNCHANGED <<backend, status, approvals, audit>>

(* TerminateSession: the error of the call is discarded, ErrNotFound included;
   the answer always says TERMINATED. *)
Terminate(r) ==
    /\ req[r].at = "idle"
    /\ \E s \in Named, own \in Own, x \in Outcome :
          /\ sessions' = IF TerminateMatches(s, own) /\ x.applied
                THEN WithStatus(s, "TERMINATED") ELSE sessions
          /\ req' = [req EXCEPT ![r] = AtAudit("session.terminated", s)]
    /\ UNCHANGED <<backend, status, approvals, audit>>

(* The last call of every handler, its error discarded, then the answer. *)
InsertAuditLog(r) ==
    /\ req[r].at \in AuditAction
    /\ audit' = IF AuditRowKept
                  THEN audit \cup {[action |-> req[r].at, session |-> req[r].session]} ELSE audit
    /\ req' = [req EXCEPT ![r] = Idle]
    /\ UNCHANGED <<backend, status, approvals, sessions>>

\* Devices enroll and are approved and revoked meanwhile.
DeviceStep ==
    /\ Devices!Next
    /\ UNCHANGED <<backend, sessions, audit, req>>

Restart ==
    /\ MayFail
    /\ \E r \in Request : req[r].at # "idle"
    /\ req' = [r \in Request |-> Idle]
    /\ UNCHANGED <<backend, status, approvals, sessions, audit>>

Next ==
    \/ \E r \in Request :
          \/ CreateCheck(r) \/ CreateInsert(r) \/ Consent(r) \/ Terminate(r)
          \/ InsertAuditLog(r)
    \/ DeviceStep
    \/ Restart

Spec == Init /\ [][Next]_vars

-----------------------------------------------------------------------------
(* Properties *)

\* Every variable keeps its shape.
TypeOK ==
    /\ backend \in {"memory", "postgres"}
    /\ status \in [Device -> {"NONE", "PENDING", "ACTIVE", "REVOKED"}]
    /\ approvals \subseteq Device
    /\ sessions \in [Session -> SessionRecord]
    /\ audit \subseteq [action : AuditAction, session : Session \cup {Unknown}]
    /\ req \in [Request -> RequestState]

\* The log shows an entry of one of these actions for session s, or a request
\* is about to insert one.
OnRecord(s, actions) ==
    \/ \E e \in audit : e.session = s /\ e.action \in actions
    \/ \E r \in Request : req[r].session = s /\ req[r].at \in actions

\* With the MemoryStore a session that asks the workstation user first is
\* never connected, and never was, without a consent on record, and a session
\* ends only through an entry that says who ended it.
ChangesOnRecord ==
    backend = "memory" => \A s \in Session :
       /\ Stored(s) /\ sessions[s].consent
            /\ (sessions[s].started \/ sessions[s].status = "CONNECTED") =>
               OnRecord(s, {"session.consent.granted"})
       /\ sessions[s].ended =>
             OnRecord(s, {"session.consent.denied", "session.terminated"})

\* Consents and terminations are answered as done whether or not they did
\* anything.  With the MemoryStore one about a session there is took effect,
\* whatever other requests do meanwhile: a session whose consent was given or
\* denied has left REQUESTED, and one that was terminated has ended, which a
\* consent that is answered late does not take back.
MemoryDecisions ==
    \A r \in Request :
       LET s == req[r].session
       IN  s # Unknown =>
             /\ req[r].at \in {"session.consent.granted", "session.consent.denied"} =>
                   sessions[s].status # "REQUESTED"
             /\ req[r].at = "session.terminated" => sessions[s].ended

\* With the PostgresStore no consent ever does: a session that must ask waits,
\* never connected nor rejected, until somebody terminates it.
PostgresDecisions ==
    \A s \in Session :
       Stored(s) /\ sessions[s].consent =>
          sessions[s].status \in {"REQUESTED", "TERMINATED"} /\ ~sessions[s].started

\* What the answers to a decision are worth, in either store.
DecisionsTakeEffect == /\ backend = "memory" => MemoryDecisions
                       /\ backend = "postgres" => PostgresDecisions

\* The requests that found device d ACTIVE and are about to insert a session.
Creating(d) == {r \in Request : req[r].at = "create" /\ req[r].device = d}

\* Once a device is not ACTIVE and no request that saw it ACTIVE is left, no
\* session appears on it until it is activated again.
NoSessionOnInactive ==
    [][\A d \in Device :
          status[d] # "ACTIVE" /\ Creating(d) = {} =>
             /\ Creating(d)' = {}
             /\ \A s \in Session : ~Stored(s) => sessions'[s].device # d]_vars

EndStays ==
    \A s \in Session :
       sessions[s].status \in {"REJECTED", "TERMINATED"} =>
          sessions'[s].status \in {"REJECTED", "TERMINATED"}

\* With the PostgresStore a session that ended is neither requested nor connected
\* again: a late consent finds no session.  (In memory it reconnects it.)
PostgresEndedIsFinal == [][backend = "postgres" => EndStays]_vars
=============================================================================
