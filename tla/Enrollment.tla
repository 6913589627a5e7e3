------------------------------ MODULE Enrollment ------------------------------
(***************************************************************************)
(* Enrollment invitations and the device lifecycle of the API service.     *)
(*                                                                         *)
(* net/http runs every request in a goroutine of its own, and a handler is *)
(* a sequence of store calls.  Each call is atomic (the mutex of the       *)
(* MemoryStore, one statement or transaction of the PostgresStore);        *)
(* between two calls of one request any other request may run.  A request  *)
(* is therefore a small state machine, and every action below is one store *)
(* call together with the local computation around it.  Calls that change  *)
(* nothing and only make the handler answer an error are left out: the     *)
(* request ends as it began.                                               *)
(***************************************************************************)
EXTENDS Integers, FiniteSets

CONSTANTS
    Invitation,     \* identifiers uuid.New may give to an invitation
    Device,         \* identifiers uuid.New may give to a device
    Request,        \* request goroutines that may run at the same time
    Org, DemoOrg,   \* organizations (tenants); the one NewMemoryStore seeds
    MaxUsesInput,   \* values of max_uses an administrator may send
    Backends,       \* the stores main.go may choose: "memory", "postgres"
    Faults,         \* whether database calls may fail and the API restart
    Unknown,        \* an identifier no invitation was ever given
    NoInvitation, NoDevice, NoOrg

ASSUME BackendsAssumption == Backends \subseteq {"memory", "postgres"}
ASSUME FaultsAssumption == Faults \in BOOLEAN
ASSUME MaxUsesAssumption == MaxUsesInput \subseteq Int
ASSUME DemoOrgAssumption == DemoOrg \in Org
ASSUME FiniteAssumption == IsFiniteSet(Device) /\ IsFiniteSet(Request)
ASSUME NoneAssumption == /\ NoInvitation \notin Invitation \cup {Unknown}
                         /\ Unknown \notin Invitation
                         /\ NoDevice \notin Device
                         /\ NoOrg \notin Org

VARIABLES
    backend,        \* the store main.go chose, once
    invitations,    \* the rows of enrollment_invitations, deleted ones included
    tokens,         \* invitations whose token an administrator was given
    status,         \* the status column of each device
    origin,         \* the invitation a device enrolled with
    audit,          \* the audit log, as the set of its entries
    req             \* the local state of every request goroutine

vars == <<backend, invitations, tokens, status, origin, audit, req>>

-----------------------------------------------------------------------------
(* Types *)

InvitationState == {"unused", "live", "deleted"}

InvitationRecord ==
    [state : InvitationState, org : Org \cup {NoOrg}, requiresApproval : BOOLEAN,
     maxUses : Nat, timesUsed : Nat, expired : BOOLEAN]

DeviceStatus == {"NONE", "PENDING", "ACTIVE", "REVOKED"}

AuditAction == {"device.invitation.created", "device.invitation.revoked",
                "device.enrolled", "device.approved", "device.revoked"}

AuditEntry == [action : AuditAction, org : Org, id : Invitation \cup {Unknown} \cup Device]

\* Where a request stands: between requests, before a store call of its
\* handler, or before the InsertAuditLog call that records an action.
Point == {"idle", "consume", "register", "approve"} \cup AuditAction

RequestState ==
    [at : Point, org : Org \cup {NoOrg},
     inv : Invitation \cup {Unknown, NoInvitation}, dev : Device \cup {NoDevice}]

Idle == [at |-> "idle", org |-> NoOrg, inv |-> NoInvitation, dev |-> NoDevice]

At(p, o, i, d) == [at |-> p, org |-> o, inv |-> i, dev |-> d]

\* Only calls that cross a network fail, and only a database outlives the API.
MayFail == Faults /\ backend = "postgres"

\* What a store call does and what it reports.  A failing database call may
\* or may not have taken effect: the connection or the context can go either
\* before the statement runs or after it committed.
Outcome == {x \in [applied : BOOLEAN, ok : BOOLEAN] :
               /\ x.ok => x.applied
               /\ ~MayFail => x.ok}

-----------------------------------------------------------------------------
(* Helpers *)

\* Nothing adds an organization to the MemoryStore.
Tenants == IF backend = "memory" THEN {DemoOrg} ELSE Org

Live(i) == invitations[i].state = "live"

Exhausted(i) == invitations[i].timesUsed >= invitations[i].maxUses

\* Slips the properties are tested against: the lookup forgets one refusal.
UsableIgnoringLimit(i) == Live(i) /\ ~invitations[i].expired
UsableIgnoringExpiry(i) == Live(i) /\ ~Exhausted(i)

\* GetEnrollmentInvitationByHash finds the row and neither refusal applies.
Usable(i) == Live(i) /\ ~invitations[i].expired /\ ~Exhausted(i)

UsesUnclamped(n) == n

\* MaxUses as CreateInvitation stores it.
Uses(n) == IF n <= 0 THEN 1 ELSE n

\* Devices no handshake has taken an identifier for.
Fresh == {d \in Device : status[d] = "NONE" /\ \A r \in Request : req[r].dev # d}

\* Whether the store keeps an audit row.  The handlers pass r.RemoteAddr
\* ("host:port") as ip_address; the audit_logs column is of type INET, which
\* takes no port, so PostgreSQL rejects the INSERT and the handler drops the
\* error.
AuditRowKept == backend = "memory"

-----------------------------------------------------------------------------
\* The two demo devices of the MemoryStore, which no invitation enrolled, are
\* left out.
Init ==
    /\ backend \in Backends
    /\ invitations = [i \in Invitation |->
          [state |-> "unused", org |-> NoOrg, requiresApproval |-> TRUE,
           maxUses |-> 0, timesUsed |-> 0, expired |-> FALSE]]
    /\ tokens = {}
    /\ status = [d \in Device |-> "NONE"]
    /\ origin = [d \in Device |-> NoInvitation]
    /\ audit = {}
    /\ req = [r \in Request |-> Idle]

(* CreateInvitation: the row is stored under a fresh identifier; on an error
   the handler answers 500 and the token is lost, stored row or not. *)
CreateInvitation(r) ==
    /\ req[r].at = "idle"
    /\ \E i \in Invitation, o \in Tenants, n \in MaxUsesInput, appr \in BOOLEAN, x \in Outcome :
          /\ invitations[i].state = "unused"
          /\ invitations' = IF x.applied
                THEN [invitations EXCEPT ![i] =
                        [state |-> "live", org |-> o, requiresApproval |-> appr,
                         maxUses |-> Uses(n), timesUsed |-> 0, expired |-> FALSE]]
                ELSE invitations
          /\ req' = IF x.ok
                THEN [req EXCEPT ![r] = At("device.invitation.created", o, i, NoDevice)]
                ELSE req
    /\ UNCHANGED <<backend, tokens, status, origin, audit>>

\* Identifiers a caller may send: those of invitations that were issued, deleted
\* since or not, and one of none.  What uuid.New will draw nobody can name.
Named == {i \in Invitation : invitations[i].state # "unused"} \cup {Unknown}

WithdrawableUnscoped(i, o) == backend = "postgres" => i # Unknown

\* DeleteEnrollmentInvitation succeeds: in PostgreSQL when it found the row, in
\* the caller's organization; in memory whatever the identifier names.
Withdrawable(i, o) ==
    backend = "postgres" => i # Unknown /\ Live(i) /\ invitations[i].org = o

\* The table without the invitation, if there is one.
Without(i) ==
    IF i = Unknown THEN invitations ELSE [invitations EXCEPT ![i].state = "deleted"]

(* RevokeInvitation *)
RevokeInvitation(r) ==
    /\ req[r].at = "idle"
    /\ \E i \in Named, o \in Tenants, x \in Outcome :
          /\ Withdrawable(i, o)
          /\ invitations' = IF x.applied THEN Without(i) ELSE invitations
          /\ req' = IF x.ok
                THEN [req EXCEPT ![r] = At("device.invitation.revoked", o, i, NoDevice)]
                ELSE req
    /\ UNCHANGED <<backend, tokens, status, origin, audit>>

(* Handshake, first call: the lookup of the token.  Everything it checks is
   checked here and never again.  The identifier uuid.New will give to the
   device is drawn here, which nobody can observe. *)
HandshakeLookup(r) ==
    /\ req[r].at = "idle"
    /\ \E i \in tokens, d \in Fresh :
          /\ Usable(i)
          /\ req' = [req EXCEPT ![r] = At("consume", invitations[i].org, i, d)]
    /\ UNCHANGED <<backend, invitations, tokens, status, origin, audit>>

ConsumableBeyondLimit(i) == Live(i)

\* ConsumeEnrollmentInvitation: the MemoryStore increments whatever the count
\* is, the PostgresStore only below max_uses.  A deleted row is not found.
Consumable(i) == Live(i) /\ (backend = "postgres" => ~Exhausted(i))

ConsumedNever(i) == invitations

Consumed(i) == IF Consumable(i)
                 THEN [invitations EXCEPT ![i].timesUsed = @ + 1]
                 ELSE invitations

(* Handshake, second call: one use is consumed.  The error of the call, be it
   ErrTokenExhausted or a database failure, is discarded. *)
HandshakeConsume(r) ==
    /\ req[r].at = "consume"
    /\ \E x \in Outcome :
          invitations' = IF x.applied THEN Consumed(req[r].inv) ELSE invitations
    /\ req' = [req EXCEPT ![r].at = "register"]
    /\ UNCHANGED <<backend, tokens, status, origin, audit>>

(* Handshake, third call: GetOrganization fails, the agent gets a 500 and the
   use stays consumed.  (When it succeeds it changes nothing: organizations
   are never created or deleted by the service.) *)
HandshakeNoOrganization(r) ==
    /\ MayFail
    /\ req[r].at = "register"
    /\ req' = [req EXCEPT ![r] = Idle]
    /\ UNCHANGED <<backend, invitations, tokens, status, origin, audit>>

InitiallyActive(i) == "ACTIVE"

InitialStatus(i) == IF invitations[i].requiresApproval THEN "PENDING" ELSE "ACTIVE"

(* Handshake, fourth call: RegisterDevice stores the device and its key in
   one transaction.  On an error the agent gets a 500, even when the
   transaction committed. *)
HandshakeRegister(r) ==
    /\ req[r].at = "register"
    /\ LET d == req[r].dev  i == req[r].inv
       IN  \E x \in Outcome :
             /\ status' = IF x.applied THEN [status EXCEPT ![d] = InitialStatus(i)] ELSE status
             /\ origin' = IF x.applied THEN [origin EXCEPT ![d] = i] ELSE origin
             /\ req' = [req EXCEPT ![r] = IF x.ok THEN [@ EXCEPT !.at = "device.enrolled"]
                                                  ELSE Idle]
    /\ UNCHANGED <<backend, invitations, tokens, audit>>

ApprovableAlways(d) == status[d] # "NONE"

Approvable(d) == status[d] = "PENDING"

ApproveCheckOnly(r) ==
    /\ req[r].at = "idle"
    /\ \E d \in Device :
          /\ Approvable(d)
          /\ req' = [req EXCEPT ![r] = At("device.approved", invitations[origin[d]].org,
                                          NoInvitation, d)]
    /\ UNCHANGED <<backend, invitations, tokens, status, origin, audit>>

(* ApproveDevice, first call: GetDevice, and the check that the status it
   returned is PENDING.  The MemoryStore returns the live record, whose
   status is read after the lock is released: that single read is this step. *)
ApproveCheck(r) ==
    /\ req[r].at = "idle"
    /\ \E d \in Device :
          /\ Approvable(d)
          /\ req' = [req EXCEPT ![r] = At("approve", invitations[origin[d]].org, NoInvitation, d)]
    /\ UNCHANGED <<backend, invitations, tokens, status, origin, audit>>

(* ApproveDevice, second call: UpdateDeviceStatus writes ACTIVE over whatever
   the status has become. *)
ApproveUpdate(r) ==
    /\ req[r].at = "approve"
    /\ \E x \in Outcome :
          /\ status' = IF x.applied THEN [status EXCEPT ![req[r].dev] = "ACTIVE"] ELSE status
          /\ req' = [req EXCEPT ![r] = IF x.ok THEN [@ EXCEPT !.at = "device.approved"]
                                               ELSE Idle]
    /\ UNCHANGED <<backend, invitations, tokens, origin, audit>>

(* RevokeDevice: UpdateDeviceStatus writes REVOKED whatever the status is. *)
RevokeDevice(r) ==
    /\ req[r].at = "idle"
    /\ \E d \in Device, x \in Outcome :
          /\ status[d] # "NONE"
          /\ status' = IF x.applied THEN [status EXCEPT ![d] = "REVOKED"] ELSE status
          /\ req' = IF x.ok
                THEN [req EXCEPT ![r] = At("device.revoked", invitations[origin[d]].org,
                                           NoInvitation, d)]
                ELSE req
    /\ UNCHANGED <<backend, invitations, tokens, origin, audit>>

\* The entry a request at an audit point is about to insert.
Entry(q) == [action |-> q.at, org |-> q.org,
             id |-> IF q.at \in {"device.invitation.created", "device.invitation.revoked"}
                      THEN q.inv ELSE q.dev]

(* The last call of every handler: InsertAuditLog, its error discarded, then
   the answer.  The answer to CreateInvitation carries the token. *)
InsertAuditLog(r) ==
    /\ req[r].at \in AuditAction
    /\ audit' = IF AuditRowKept THEN audit \cup {Entry(req[r])} ELSE audit
    /\ tokens' = IF req[r].at = "device.invitation.created"
                   THEN tokens \cup {req[r].inv} ELSE tokens
    /\ req' = [req EXCEPT ![r] = Idle]
    /\ UNCHANGED <<backend, invitations, status, origin>>

(* ExpiresAt passes.  CreateInvitation clamps the lifetime to 1..168 hours,
   so no invitation is born expired. *)
Expire(i) ==
    /\ Live(i) /\ ~invitations[i].expired
    /\ invitations' = [invitations EXCEPT ![i].expired = TRUE]
    /\ UNCHANGED <<backend, tokens, status, origin, audit, req>>

(* The API process dies and is started again on the same database: every
   request in progress is gone, whatever it had done stays. *)
Restart ==
    /\ MayFail
    /\ \E r \in Request : req[r].at # "idle"
    /\ req' = [r \in Request |-> Idle]
    /\ UNCHANGED <<backend, invitations, tokens, status, origin, audit>>

Next ==
    \/ \E r \in Request :
          \/ CreateInvitation(r) \/ RevokeInvitation(r)
          \/ HandshakeLookup(r) \/ HandshakeConsume(r)
          \/ HandshakeNoOrganization(r) \/ HandshakeRegister(r)
          \/ ApproveCheck(r) \/ ApproveUpdate(r) \/ RevokeDevice(r)
          \/ InsertAuditLog(r)
    \/ \E i \in Invitation : Expire(i)
    \/ Restart

Spec == Init /\ [][Next]_vars

-----------------------------------------------------------------------------
(* Invariants *)

\* Every variable keeps its shape.
TypeOK ==
    /\ backend \in {"memory", "postgres"}
    /\ invitations \in [Invitation -> InvitationRecord]
    /\ tokens \subseteq Invitation
    /\ status \in [Device -> DeviceStatus]
    /\ origin \in [Device -> Invitation \cup {NoInvitation}]
    /\ audit \subseteq AuditEntry
    /\ req \in [Request -> RequestState]

\* Nothing but a slip of the lookup could let invitation i be used again.
Spent(i) == \/ invitations[i].state = "deleted"
            \/ invitations[i].state = "live" /\ (invitations[i].expired \/ Exhausted(i))

\* The devices enrolled with invitation i.
Enrolled(i) == {d \in Device : origin[d] = i}

\* The handshakes on invitation i that passed the lookup and have not
\* registered their device yet, and those among them past the consumption.
InFlight(i) == {r \in Request : req[r].inv = i /\ req[r].at \in {"consume", "register"}}

Spending(i) == {r \in Request : req[r].inv = i /\ req[r].at = "register"}

\* The guarded UPDATE of the PostgresStore keeps times_used within max_uses
\* whatever handshakes overlap and whichever calls fail.
UsageWithinLimit ==
    backend = "postgres" =>
       \A i \in Invitation : invitations[i].timesUsed <= invitations[i].maxUses

\* While calls succeed, the count kept in the invitation accounts for every
\* enrolled device and every handshake on its way to one.  In the
\* PostgresStore the account is exact only below the limit: from there on the
\* handler goes on without a use (the error it discards).
UsesAccounted ==
    \A i \in Invitation :
       LET spent == Cardinality(Enrolled(i)) + Cardinality(Spending(i))
       IN  Live(i) =>
             /\ invitations[i].timesUsed <= spent
             /\ backend = "memory" \/ ~Exhausted(i) => invitations[i].timesUsed = spent

\* What AUDIT_LOGGING.md says of the audit log: every lifecycle change of a
\* device is in it, or the request that made it is about to insert the entry.
\* No device is enrolled, approved (when its invitation asks for it) or
\* revoked silently.
ChangesOnRecord ==
    \A d \in Device :
       LET OnRecord(a) ==
              \/ \E e \in audit : e.action = a /\ e.id = d
              \/ \E r \in Request : req[r].at = a /\ req[r].dev = d
       IN  /\ status[d] # "NONE" => OnRecord("device.enrolled")
           /\ status[d] = "ACTIVE" /\ invitations[origin[d]].requiresApproval
                => OnRecord("device.approved")
           /\ status[d] = "REVOKED" => OnRecord("device.revoked")

\* The MemoryStore keeps that promise.
MemoryChangesOnRecord == backend = "memory" => ChangesOnRecord

\* The entries of the log and those a request is about to insert.
Reports == audit \cup {Entry(req[r]) : r \in {s \in Request : req[s].at \in AuditAction}}

\* What an entry says happened, in the organization it names.  The exception is
\* in memory, where withdrawing an invitation that never existed is reported too.
Truthful(e) ==
    /\ e.action = "device.invitation.created" =>
         invitations[e.id].state # "unused" /\ e.org = invitations[e.id].org
    /\ e.action = "device.invitation.revoked" =>
         IF e.id = Unknown THEN backend = "memory"
         ELSE invitations[e.id].state = "deleted" /\ e.org = invitations[e.id].org
    /\ e.action = "device.enrolled" => status[e.id] # "NONE"
    /\ e.action \in {"device.approved", "device.revoked"} =>
         status[e.id] \in {"ACTIVE", "REVOKED"}
    /\ e.action \in {"device.enrolled", "device.approved", "device.revoked"} =>
         e.org = invitations[origin[e.id]].org

\* No handler reports what did not happen, in either store, whichever calls
\* fail: the change an entry is about precedes the entry and stays.
RecordsTruthful == \A e \in Reports : Truthful(e)

\* What DEVICE_ENROLLMENT.md says of max_uses: an explicit limit on the
\* devices an invitation enrolls.
UseLimitKept ==
    \A i \in Invitation : Enrolled(i) # {} =>
       Cardinality(Enrolled(i)) <= invitations[i].maxUses

-----------------------------------------------------------------------------
(* Action properties *)

\* The requests that found device d PENDING and are about to write ACTIVE.
Approving(d) == {r \in Request : req[r].at = "approve" /\ req[r].dev = d}

\* A revocation is final once no approval that was already under way is left:
\* nothing that starts later brings the device back.
RevocationSettles ==
    [][\A d \in Device :
          status[d] = "REVOKED" /\ Approving(d) = {} =>
             status'[d] = "REVOKED" /\ Approving(d)' = {}]_vars

\* An invitation that is deleted, expired or used up, and on which no
\* handshake is under way, never enrolls a device again.
ClosedInvitationAdmitsNone ==
    [][\A i \in Invitation :
          Spent(i) /\ InFlight(i) = {} =>
             Spent(i)' /\ InFlight(i)' = {} /\ Enrolled(i)' = Enrolled(i)]_vars

\* What DEVICE_ENROLLMENT.md says of REVOKED: only REMOVED follows it.
RevokedIsFinal ==
    [][\A d \in Device : status[d] = "REVOKED" => status'[d] = "REVOKED"]_vars
=============================================================================
