-------------------------- MODULE EnrollmentProofs --------------------------
(***************************************************************************)
(* Proofs about Enrollment for every set of invitations, devices, requests *)
(* and organizations, every backend and every pattern of failures.         *)
(***************************************************************************)
EXTENDS EnrollmentRefinement, FiniteSetTheorems, TLAPS

-----------------------------------------------------------------------------
(* The inductive invariant *)

\* A stored invitation belongs to an organization; only stored invitations
\* have had a token handed out or a device enrolled.
RowsSound ==
    /\ \A i \in Invitation : invitations[i].state # "unused" => invitations[i].org \in Org
    /\ \A i \in tokens : invitations[i].state # "unused"
    /\ \A d \in Device :
          /\ status[d] # "NONE" => origin[d] \in Invitation
          /\ origin[d] \in Invitation => invitations[origin[d]].state # "unused"
          /\ origin[d] \in Invitation => status[d] # "NONE"

\* What a request holds between two calls is still there when the next call
\* is made: the handshake's device identifier is unused and its own, the
\* device of any other call exists.
RequestsSound ==
    \A r \in Request :
       /\ req[r].at # "idle" => req[r].org \in Org
       /\ req[r].at \in {"consume", "register"} =>
            /\ req[r].inv \in Invitation
            /\ invitations[req[r].inv].state # "unused"
            /\ req[r].dev \in Device
            /\ status[req[r].dev] = "NONE"
            /\ \A s \in Request : s # r => req[s].dev # req[r].dev
       /\ req[r].at \in {"approve", "device.enrolled", "device.approved", "device.revoked"} =>
            req[r].dev \in Device /\ status[req[r].dev] # "NONE"
       /\ req[r].at = "device.invitation.created" =>
            req[r].inv \in Invitation /\ invitations[req[r].inv].state # "unused"
       /\ req[r].at = "device.invitation.revoked" =>
            \/ req[r].inv = Unknown
            \/ req[r].inv \in Invitation /\ invitations[req[r].inv].state # "unused"

IInv == TypeOK /\ RowsSound /\ RequestsSound

-----------------------------------------------------------------------------
(* Operators *)

\* CreateInvitation never stores a limit below one.
LEMMA UsesPositive == ASSUME NEW n \in Int PROVE Uses(n) \in Nat /\ Uses(n) >= 1
  BY DEF Uses

\* Requests are made in organizations of the service.
LEMMA TenantsAreOrgs == Tenants \subseteq Org
  BY DemoOrgAssumption DEF Tenants

\* Consuming a use keeps the table typed and touches only a count.
LEMMA ConsumedType ==
  ASSUME TypeOK, NEW i \in Invitation
  PROVE  /\ Consumed(i) \in [Invitation -> InvitationRecord]
         /\ \A j \in Invitation :
              /\ Consumed(i)[j].state = invitations[j].state
              /\ Consumed(i)[j].org = invitations[j].org
              /\ Consumed(i)[j].requiresApproval = invitations[j].requiresApproval
              /\ Consumed(i)[j].maxUses = invitations[j].maxUses
              /\ Consumed(i)[j].expired = invitations[j].expired
              /\ Consumed(i)[j].timesUsed \in
                    {invitations[j].timesUsed, invitations[j].timesUsed + 1}
  BY DEF TypeOK, InvitationRecord, Consumed

\* Who names an invitation names one that was issued, or none.
LEMMA NamedIssued ==
  ASSUME NEW i \in Named
  PROVE  i = Unknown \/ (i \in Invitation /\ invitations[i].state # "unused")
  BY DEF Named

\* Withdrawing keeps the table typed and touches only the state of the row, if
\* the identifier names one.
LEMMA WithoutType ==
  ASSUME TypeOK, NEW i \in Named
  PROVE  /\ Without(i) \in [Invitation -> InvitationRecord]
         /\ \A j \in Invitation :
              /\ Without(i)[j].state = "unused" <=> invitations[j].state = "unused"
              /\ Without(i)[j].state \in {invitations[j].state, "deleted"}
              /\ Without(i)[j].org = invitations[j].org
              /\ Without(i)[j].requiresApproval = invitations[j].requiresApproval
              /\ Without(i)[j].maxUses = invitations[j].maxUses
              /\ Without(i)[j].timesUsed = invitations[j].timesUsed
              /\ Without(i)[j].expired = invitations[j].expired
              /\ j # i => Without(i)[j] = invitations[j]
         /\ i # Unknown => i \in Invitation /\ Without(i)[i].state = "deleted"
<1>1. CASE i = Unknown
  BY <1>1, NoneAssumption DEF TypeOK, InvitationRecord, Without
<1>2. CASE i # Unknown
  <2>1. i \in Invitation /\ invitations[i].state # "unused"
    BY <1>2 DEF Named
  <2>2. Without(i) = [invitations EXCEPT ![i].state = "deleted"]
    BY <1>2 DEF Without
  <2>3. QED
    BY <2>1, <2>2 DEF TypeOK, InvitationRecord, InvitationState
<1>3. QED
  BY <1>1, <1>2

-----------------------------------------------------------------------------
(* The invariant holds initially and every action preserves it *)

LEMMA InitIInv == Init => IInv
  BY NoneAssumption, BackendsAssumption
     DEF Init, IInv, TypeOK, RowsSound, RequestsSound, InvitationRecord, InvitationState,
         DeviceStatus, RequestState, Point, Idle, AuditEntry

LEMMA NextIInv == IInv /\ [Next]_vars => IInv'
<1> SUFFICES ASSUME IInv, [Next]_vars PROVE IInv'
  OBVIOUS
<1> USE DEF IInv, At, Idle, Outcome
<1>1. ASSUME NEW r \in Request, CreateInvitation(r) PROVE IInv'
  <2> PICK i \in Invitation, o \in Tenants, n \in MaxUsesInput, appr \in BOOLEAN, x \in Outcome :
        CreateInvitation(r)!2!(i, o, n, appr, x)
    BY <1>1 DEF CreateInvitation
  <2>0. o \in Org
    BY TenantsAreOrgs
  <2> DEFINE row == [state |-> "live", org |-> o, requiresApproval |-> appr,
                     maxUses |-> Uses(n), timesUsed |-> 0, expired |-> FALSE]
  <2>1. row \in InvitationRecord /\ row.state = "live" /\ row.org \in Org
    BY <2>0, UsesPositive, MaxUsesAssumption DEF InvitationRecord, InvitationState
  <2>2. invitations' = [invitations EXCEPT ![i] = row] \/ invitations' = invitations
    OBVIOUS
  <2>3. invitations' \in [Invitation -> InvitationRecord]
    BY <2>1, <2>2 DEF TypeOK
  <2>4. \A j \in Invitation : /\ j # i => invitations'[j] = invitations[j]
                              /\ x.ok => invitations'[i] = row
                              /\ invitations'[i] \in {invitations[i], row}
    BY <2>2 DEF TypeOK
  <2>5. UNCHANGED <<backend, tokens, status, origin, audit>>
    BY <1>1 DEF CreateInvitation
  <2>6. \/ req' = req
        \/ x.ok /\ req' = [req EXCEPT ![r] = At("device.invitation.created", o, i, NoDevice)]
    OBVIOUS
  <2> HIDE DEF row
  <2>7. TypeOK'
    BY <2>0, <2>3, <2>5, <2>6 DEF TypeOK, RequestState, Point, AuditAction
  <2>8. RowsSound'
    BY <2>1, <2>4, <2>5 DEF TypeOK, RowsSound
  <2>9. RequestsSound'
    <3>1. \A j \in Invitation :
             invitations[j].state # "unused" => invitations'[j].state # "unused"
      BY <2>1, <2>4
    <3>2. x.ok => invitations'[i].state # "unused"
      BY <2>1, <2>4
    <3>3. CASE req' = req
      BY <3>1, <3>3, <2>5 DEF RequestsSound
    <3>4. CASE x.ok /\ req' = [req EXCEPT ![r] = At("device.invitation.created", o, i, NoDevice)]
      BY <2>0, <3>1, <3>2, <3>4, <2>5, NoneAssumption DEF TypeOK, RequestsSound, RequestState
    <3>5. QED
      BY <3>3, <3>4, <2>6
  <2>10. QED
    BY <2>7, <2>8, <2>9
<1>2. ASSUME NEW r \in Request, RevokeInvitation(r) PROVE IInv'
  <2> PICK i \in Named, o \in Tenants, x \in Outcome : RevokeInvitation(r)!2!(i, o, x)
    BY <1>2 DEF RevokeInvitation
  <2>0. o \in Org
    BY TenantsAreOrgs
  <2>1. invitations' \in [Invitation -> InvitationRecord]
    BY WithoutType DEF TypeOK
  <2>2. \A j \in Invitation : /\ invitations'[j].org = invitations[j].org
                              /\ invitations'[j].state = "unused" <=> invitations[j].state = "unused"
    BY WithoutType
  <2>3. UNCHANGED <<backend, tokens, status, origin, audit>>
    BY <1>2 DEF RevokeInvitation
  <2>4. req' = req \/ req' = [req EXCEPT ![r] = At("device.invitation.revoked", o, i, NoDevice)]
    OBVIOUS
  <2>5. TypeOK'
    BY <2>0, <2>1, <2>3, <2>4, NamedIssued DEF TypeOK, RequestState, Point, AuditAction
  <2>6. RowsSound'
    BY <2>2, <2>3 DEF TypeOK, RowsSound
  <2>7. i = Unknown \/ (i \in Invitation /\ invitations[i].state # "unused")
    BY NamedIssued
  <2>8. RequestsSound'
    BY <2>0, <2>2, <2>3, <2>4, <2>7, NoneAssumption DEF TypeOK, RequestsSound, RequestState
  <2>9. QED
    BY <2>5, <2>6, <2>8
<1>3. ASSUME NEW r \in Request, HandshakeLookup(r) PROVE IInv'
  BY <1>3, NoneAssumption
     DEF HandshakeLookup, Fresh, Usable, Live, TypeOK, RowsSound, RequestsSound,
         InvitationRecord, RequestState, Point, AuditAction
<1>4. ASSUME NEW r \in Request, HandshakeConsume(r) PROVE IInv'
  <2>1. req[r].inv \in Invitation
    BY <1>4 DEF HandshakeConsume, RequestsSound
  <2>2. invitations' = invitations \/ invitations' = Consumed(req[r].inv)
    BY <1>4 DEF HandshakeConsume
  <2>3. invitations' \in [Invitation -> InvitationRecord]
    BY <2>1, <2>2, ConsumedType DEF TypeOK
  <2>4. \A j \in Invitation : /\ invitations'[j].org = invitations[j].org
                              /\ invitations'[j].state = invitations[j].state
    BY <2>1, <2>2, ConsumedType
  <2>5. /\ req' = [req EXCEPT ![r].at = "register"]
        /\ UNCHANGED <<backend, tokens, status, origin, audit>>
    BY <1>4 DEF HandshakeConsume
  <2>6. TypeOK'
    BY <2>3, <2>5 DEF TypeOK, RequestState, Point
  <2>7. RowsSound'
    BY <2>4, <2>5 DEF TypeOK, RowsSound
  <2>8. RequestsSound'
    BY <1>4, <2>4, <2>5 DEF HandshakeConsume, TypeOK, RequestsSound, RequestState
  <2>9. QED
    BY <2>6, <2>7, <2>8
<1>5. ASSUME NEW r \in Request, HandshakeNoOrganization(r) PROVE IInv'
  BY <1>5, NoneAssumption
     DEF HandshakeNoOrganization, TypeOK, RowsSound, RequestsSound, RequestState, Point
<1>6. ASSUME NEW r \in Request, HandshakeRegister(r) PROVE IInv'
  BY <1>6, NoneAssumption
     DEF HandshakeRegister, InitialStatus, DeviceStatus, TypeOK, RowsSound, RequestsSound,
         RequestState, Point, AuditAction
<1>7. ASSUME NEW r \in Request, ApproveCheck(r) PROVE IInv'
  BY <1>7
     DEF ApproveCheck, Approvable, TypeOK, RowsSound, RequestsSound, RequestState, Point,
         AuditAction
<1>8. ASSUME NEW r \in Request, ApproveUpdate(r) PROVE IInv'
  BY <1>8, NoneAssumption
     DEF ApproveUpdate, DeviceStatus, TypeOK, RowsSound, RequestsSound, RequestState, Point,
         AuditAction
<1>9. ASSUME NEW r \in Request, RevokeDevice(r) PROVE IInv'
  BY <1>9
     DEF RevokeDevice, DeviceStatus, TypeOK, RowsSound, RequestsSound, RequestState, Point,
         AuditAction
<1>10. ASSUME NEW r \in Request, InsertAuditLog(r) PROVE IInv'
  BY <1>10, NoneAssumption
     DEF InsertAuditLog, Entry, AuditEntry, AuditAction, TypeOK, RowsSound, RequestsSound,
         RequestState, Point
<1>11. ASSUME NEW i \in Invitation, Expire(i) PROVE IInv'
  <2>1. invitations' \in [Invitation -> InvitationRecord]
    BY <1>11 DEF Expire, TypeOK, InvitationRecord
  <2>2. \A j \in Invitation : /\ invitations'[j].org = invitations[j].org
                              /\ invitations'[j].state = invitations[j].state
    BY <1>11 DEF Expire, TypeOK, InvitationRecord
  <2>3. UNCHANGED <<backend, tokens, status, origin, audit, req>>
    BY <1>11 DEF Expire
  <2>4. QED
    BY <2>1, <2>2, <2>3 DEF TypeOK, RowsSound, RequestsSound
<1>12. CASE Restart
  BY <1>12, NoneAssumption
     DEF Restart, TypeOK, RowsSound, RequestsSound, RequestState, Point
<1>13. CASE UNCHANGED vars
  BY <1>13 DEF vars, TypeOK, RowsSound, RequestsSound
<1>14. QED
  BY <1>1, <1>2, <1>3, <1>4, <1>5, <1>6, <1>7, <1>8, <1>9, <1>10, <1>11, <1>12, <1>13
     DEF Next

\* The tables, the log and the local state of every request keep their shape,
\* and what a request carries from one store call to the next stays valid,
\* whatever overlaps, fails or restarts.
THEOREM InvariantHolds == Spec => []IInv
  BY InitIInv, NextIInv, PTL DEF Spec

\* Type correctness.
THEOREM TypeCorrect == Spec => []TypeOK
  BY InvariantHolds, PTL DEF IInv

-----------------------------------------------------------------------------
(* The limit the PostgresStore keeps on times_used *)

LEMMA NextUsage == IInv /\ UsageWithinLimit /\ [Next]_vars => UsageWithinLimit'
<1> SUFFICES ASSUME IInv, UsageWithinLimit, [Next]_vars,
                    backend' = "postgres", NEW j \in Invitation
             PROVE  invitations'[j].timesUsed <= invitations'[j].maxUses
  BY DEF UsageWithinLimit
<1>0. backend = "postgres"
  BY DEF Next, vars, CreateInvitation, RevokeInvitation, HandshakeLookup, HandshakeConsume,
         HandshakeNoOrganization, HandshakeRegister, ApproveCheck, ApproveUpdate,
         RevokeDevice, InsertAuditLog, Expire, Restart
<1>1. invitations[j].timesUsed <= invitations[j].maxUses
  BY <1>0 DEF UsageWithinLimit
<1>2. ASSUME NEW r \in Request, CreateInvitation(r)
      PROVE  invitations'[j].timesUsed <= invitations'[j].maxUses
  BY <1>1, <1>2, UsesPositive, MaxUsesAssumption DEF CreateInvitation, IInv, TypeOK
<1>3. ASSUME NEW r \in Request, RevokeInvitation(r)
      PROVE  invitations'[j].timesUsed <= invitations'[j].maxUses
  BY <1>1, <1>3, WithoutType DEF RevokeInvitation, IInv
<1>4. ASSUME NEW r \in Request, HandshakeConsume(r)
      PROVE  invitations'[j].timesUsed <= invitations'[j].maxUses
  BY <1>0, <1>1, <1>4
     DEF HandshakeConsume, Consumed, Consumable, Exhausted, IInv, TypeOK, InvitationRecord
<1>5. ASSUME NEW i \in Invitation, Expire(i)
      PROVE  invitations'[j].timesUsed <= invitations'[j].maxUses
  BY <1>1, <1>5 DEF Expire, IInv, TypeOK, InvitationRecord
<1>6. CASE UNCHANGED invitations
  BY <1>1, <1>6
<1>7. QED
  BY <1>2, <1>3, <1>4, <1>5, <1>6
     DEF Next, HandshakeLookup, HandshakeNoOrganization, HandshakeRegister, ApproveCheck,
         ApproveUpdate, RevokeDevice, InsertAuditLog, Restart, vars

\* The guarded UPDATE keeps times_used within max_uses for every invitation,
\* whatever handshakes overlap and whichever database calls fail.
THEOREM PostgresUsageWithinLimit == Spec => []UsageWithinLimit
<1>1. Init => UsageWithinLimit
  BY DEF Init, UsageWithinLimit
<1>2. IInv /\ UsageWithinLimit /\ [Next]_vars => UsageWithinLimit'
  BY NextUsage
<1>3. QED
  BY <1>1, <1>2, InvariantHolds, PTL DEF Spec

-----------------------------------------------------------------------------
(* The device lifecycle *)

\* How one step may change the status of a device and the approvals under way
\* on it.
LEMMA LifecycleStep ==
  ASSUME IInv, [Next]_vars, NEW d \in Device
  PROVE  /\ \/ status'[d] = status[d]
            \/ status[d] = "NONE" /\ status'[d] \in {"PENDING", "ACTIVE"}
            \/ Approving(d) # {} /\ status'[d] = "ACTIVE"
            \/ status[d] # "NONE" /\ status'[d] = "REVOKED"
         /\ Approving(d)' # {} => Approving(d) # {} \/ status[d] = "PENDING"
<1> USE DEF IInv, Approving, At, Idle
<1> DEFINE Goal == /\ \/ status'[d] = status[d]
                      \/ status[d] = "NONE" /\ status'[d] \in {"PENDING", "ACTIVE"}
                      \/ Approving(d) # {} /\ status'[d] = "ACTIVE"
                      \/ status[d] # "NONE" /\ status'[d] = "REVOKED"
                   /\ Approving(d)' # {} => Approving(d) # {} \/ status[d] = "PENDING"
<1>1. ASSUME NEW r \in Request, CreateInvitation(r) PROVE Goal
  BY <1>1 DEF CreateInvitation, TypeOK
<1>2. ASSUME NEW r \in Request, RevokeInvitation(r) PROVE Goal
  BY <1>2 DEF RevokeInvitation, TypeOK
<1>3. ASSUME NEW r \in Request, HandshakeLookup(r) PROVE Goal
  BY <1>3 DEF HandshakeLookup, TypeOK
<1>4. ASSUME NEW r \in Request, HandshakeConsume(r) PROVE Goal
  BY <1>4 DEF HandshakeConsume, TypeOK, RequestState
<1>5. ASSUME NEW r \in Request, HandshakeNoOrganization(r) PROVE Goal
  BY <1>5 DEF HandshakeNoOrganization, TypeOK
<1>6. ASSUME NEW r \in Request, HandshakeRegister(r) PROVE Goal
  BY <1>6 DEF HandshakeRegister, InitialStatus, TypeOK, RequestsSound, RequestState
<1>7. ASSUME NEW r \in Request, ApproveCheck(r) PROVE Goal
  BY <1>7 DEF ApproveCheck, Approvable, TypeOK
<1>8. ASSUME NEW r \in Request, ApproveUpdate(r) PROVE Goal
  BY <1>8 DEF ApproveUpdate, TypeOK, RequestsSound, RequestState
<1>9. ASSUME NEW r \in Request, RevokeDevice(r) PROVE Goal
  BY <1>9 DEF RevokeDevice, TypeOK
<1>10. ASSUME NEW r \in Request, InsertAuditLog(r) PROVE Goal
  BY <1>10 DEF InsertAuditLog, TypeOK
<1>11. ASSUME NEW i \in Invitation, Expire(i) PROVE Goal
  BY <1>11 DEF Expire
<1>12. CASE Restart
  BY <1>12 DEF Restart
<1>13. CASE UNCHANGED vars
  BY <1>13 DEF vars
<1>14. QED
  BY <1>1, <1>2, <1>3, <1>4, <1>5, <1>6, <1>7, <1>8, <1>9, <1>10, <1>11, <1>12, <1>13
     DEF Next

\* A revocation is final once no approval that was already under way is left.
THEOREM RevocationIsSettled == Spec => RevocationSettles
<1>1. IInv /\ [Next]_vars =>
        [\A d \in Device :
            status[d] = "REVOKED" /\ Approving(d) = {} =>
               status'[d] = "REVOKED" /\ Approving(d)' = {}]_vars
  BY LifecycleStep
<1>2. QED
  BY <1>1, InvariantHolds, PTL DEF Spec, RevocationSettles

-----------------------------------------------------------------------------
(* Enrollment implements DeviceLifecycle *)

\* The actions that neither write a status nor begin or end an approval.
LEMMA LifecycleStutters ==
  ASSUME IInv, NEW r \in Request,
         \/ CreateInvitation(r) \/ RevokeInvitation(r) \/ HandshakeLookup(r)
         \/ HandshakeConsume(r) \/ HandshakeNoOrganization(r) \/ InsertAuditLog(r)
  PROVE  status' = status /\ \A d \in Device : Approving(d)' = Approving(d)
<1> SUFFICES ASSUME NEW d \in Device PROVE status' = status /\ Approving(d)' = Approving(d)
  BY DEF CreateInvitation, RevokeInvitation, HandshakeLookup, HandshakeConsume,
         HandshakeNoOrganization, InsertAuditLog
<1>1. /\ req[r].at \notin {"approve"}
      /\ req'[r].at \notin {"approve"}
      /\ \A s \in Request : s # r => req'[s] = req[s]
  BY DEF IInv, TypeOK, RequestState, At, Idle, AuditAction, CreateInvitation, RevokeInvitation,
         HandshakeLookup, HandshakeConsume, HandshakeNoOrganization, InsertAuditLog
<1>2. status' = status
  BY DEF CreateInvitation, RevokeInvitation, HandshakeLookup, HandshakeConsume,
         HandshakeNoOrganization, InsertAuditLog
<1>3. QED
  BY <1>1, <1>2 DEF Approving

LEMMA LifecycleNext == IInv /\ [Next]_vars => [Lifecycle!Next]_(Lifecycle!vars)
<1> SUFFICES ASSUME IInv, [Next]_vars PROVE [Lifecycle!Next]_(Lifecycle!vars)
  OBVIOUS
<1> USE DEF Lifecycle!Next, Lifecycle!vars
<1>1. ASSUME NEW r \in Request,
             \/ CreateInvitation(r) \/ RevokeInvitation(r) \/ HandshakeLookup(r)
             \/ HandshakeConsume(r) \/ HandshakeNoOrganization(r) \/ InsertAuditLog(r)
      PROVE  UNCHANGED Lifecycle!vars
  BY <1>1, LifecycleStutters
<1>2. ASSUME NEW r \in Request, HandshakeRegister(r) PROVE [Lifecycle!Next]_(Lifecycle!vars)
  <2>1. \A d \in Device : Approving(d)' = Approving(d)
    BY <1>2 DEF HandshakeRegister, Approving, Idle, IInv, TypeOK, RequestState
  <2>2. CASE status' = status
    BY <2>1, <2>2
  <2>3. CASE status' # status
    <3>1. /\ req[r].dev \in Device
          /\ status[req[r].dev] = "NONE"
          /\ \E s \in {"PENDING", "ACTIVE"} : status' = [status EXCEPT ![req[r].dev] = s]
      BY <1>2, <2>3 DEF HandshakeRegister, InitialStatus, IInv, RequestsSound
    <3>2. Lifecycle!Enroll(req[r].dev)
      BY <2>1, <3>1 DEF Lifecycle!Enroll
    <3>3. QED
      BY <3>1, <3>2
  <2>4. QED
    BY <2>2, <2>3
<1>3. ASSUME NEW r \in Request, ApproveCheck(r) PROVE [Lifecycle!Next]_(Lifecycle!vars)
  <2> PICK d \in Device : /\ Approvable(d)
                          /\ req' = [req EXCEPT ![r] = At("approve", invitations[origin[d]].org,
                                                          NoInvitation, d)]
    BY <1>3 DEF ApproveCheck
  <2>1. \A e \in Device : Approving(e)' # {} <=> Approving(e) # {} \/ e = d
    BY <1>3 DEF ApproveCheck, Approving, At, IInv, TypeOK, RequestState
  <2>2. {e \in Device : Approving(e) # {}}' = {e \in Device : Approving(e) # {}} \cup {d}
    BY <2>1
  <2>3. Lifecycle!AdmitApproval(d)
    BY <1>3, <2>2 DEF ApproveCheck, Approvable, Lifecycle!AdmitApproval
  <2>4. QED
    BY <2>3
<1>4. ASSUME NEW r \in Request, ApproveUpdate(r) PROVE [Lifecycle!Next]_(Lifecycle!vars)
  <2> PICK d \in Device : d = req[r].dev
    BY <1>4 DEF ApproveUpdate, IInv, RequestsSound
  <2>1. Approving(d) # {}
    BY <1>4 DEF ApproveUpdate, Approving, IInv, RequestsSound
  <2>2. \A e \in Device : e # d => Approving(e)' = Approving(e)
    BY <1>4 DEF ApproveUpdate, Approving, Idle, IInv, TypeOK, RequestState, RequestsSound
  <2>3. Approving(d)' \subseteq Approving(d)
    BY <1>4 DEF ApproveUpdate, Approving, Idle, IInv, TypeOK, RequestState, RequestsSound
  <2>4. {e \in Device : Approving(e) # {}}' \in
           {{e \in Device : Approving(e) # {}}, {e \in Device : Approving(e) # {}} \ {d}}
    <3>1. CASE Approving(d)' = {}
      BY <2>1, <2>2, <3>1
    <3>2. CASE Approving(d)' # {}
      BY <2>1, <2>2, <3>2
    <3>3. QED
      BY <3>1, <3>2
  <2>5. CASE status' = [status EXCEPT ![d] = "ACTIVE"]
    <3>1. Lifecycle!Approve(d)
      BY <2>1, <2>4, <2>5 DEF Lifecycle!Approve
    <3>2. QED
      BY <2>1, <3>1
  <2>6. CASE status' = status
    <3>1. Lifecycle!Abandon
      BY <2>1, <2>4, <2>6 DEF Lifecycle!Abandon
    <3>2. QED
      BY <3>1
  <2>7. QED
    BY <1>4, <2>5, <2>6 DEF ApproveUpdate
<1>5. ASSUME NEW r \in Request, RevokeDevice(r) PROVE [Lifecycle!Next]_(Lifecycle!vars)
  <2> PICK d \in Device, x \in Outcome : RevokeDevice(r)!2!(d, x)
    BY <1>5 DEF RevokeDevice
  <2>1. \A e \in Device : Approving(e)' = Approving(e)
    BY <1>5 DEF RevokeDevice, Approving, At, IInv, TypeOK, RequestState
  <2>2. CASE x.applied
    <3>1. Lifecycle!Revoke(d)
      BY <2>1, <2>2 DEF Lifecycle!Revoke
    <3>2. QED
      BY <3>1
  <2>3. CASE ~x.applied
    BY <2>1, <2>3
  <2>4. QED
    BY <2>2, <2>3
<1>6. ASSUME NEW i \in Invitation, Expire(i) PROVE UNCHANGED Lifecycle!vars
  BY <1>6 DEF Expire, Approving
<1>7. CASE Restart
  <2>1. {e \in Device : Approving(e) # {}}' = {}
    BY <1>7 DEF Restart, Approving, Idle
  <2>2. Lifecycle!Abandon
    BY <1>7, <2>1 DEF Restart, Lifecycle!Abandon
  <2>3. QED
    BY <2>2
<1>8. CASE UNCHANGED vars
  BY <1>8 DEF vars, Approving
<1>9. QED
  BY <1>1, <1>2, <1>3, <1>4, <1>5, <1>6, <1>7, <1>8 DEF Next

\* The service changes the status of a device only as DeviceLifecycle allows.
THEOREM LifecycleImplemented == Spec => ImplementsLifecycle
<1>1. Init => Lifecycle!Init
  BY DEF Init, Idle, Approving, Lifecycle!Init
<1>2. IInv /\ [Next]_vars => [Lifecycle!Next]_(Lifecycle!vars)
  BY LifecycleNext
<1>3. QED
  BY <1>1, <1>2, InvariantHolds, PTL DEF Spec, ImplementsLifecycle, Lifecycle!Spec
-----------------------------------------------------------------------------
(* What stays *)

\* What the tables never take back: an invitation keeps its organization, its
\* terms and its limit, a deleted one stays deleted, a device keeps its
\* invitation and an approved or revoked one is never PENDING again.
LEMMA HistoryStays ==
  ASSUME IInv, [Next]_vars
  PROVE  /\ backend' = backend
         /\ \A i \in Invitation : invitations[i].state # "unused" =>
               /\ invitations'[i].state # "unused"
               /\ invitations'[i].org = invitations[i].org
               /\ invitations'[i].requiresApproval = invitations[i].requiresApproval
               /\ invitations'[i].maxUses = invitations[i].maxUses
               /\ invitations'[i].timesUsed >= invitations[i].timesUsed
               /\ invitations[i].expired => invitations'[i].expired
               /\ invitations[i].state = "deleted" => invitations'[i].state = "deleted"
         /\ \A d \in Device : status[d] # "NONE" =>
               /\ status'[d] # "NONE"
               /\ origin'[d] = origin[d]
               /\ status[d] \in {"ACTIVE", "REVOKED"} => status'[d] \in {"ACTIVE", "REVOKED"}
<1> USE DEF IInv
<1> DEFINE Rows == \A i \in Invitation : invitations[i].state # "unused" =>
               /\ invitations'[i].state # "unused"
               /\ invitations'[i].org = invitations[i].org
               /\ invitations'[i].requiresApproval = invitations[i].requiresApproval
               /\ invitations'[i].maxUses = invitations[i].maxUses
               /\ invitations'[i].timesUsed >= invitations[i].timesUsed
               /\ invitations[i].expired => invitations'[i].expired
               /\ invitations[i].state = "deleted" => invitations'[i].state = "deleted"
           Devs == \A d \in Device : status[d] # "NONE" =>
               /\ status'[d] # "NONE"
               /\ origin'[d] = origin[d]
               /\ status[d] \in {"ACTIVE", "REVOKED"} => status'[d] \in {"ACTIVE", "REVOKED"}
<1>0. \A i \in Invitation : invitations[i].timesUsed \in Int
  BY DEF TypeOK, InvitationRecord
<1>1. backend' = backend
  BY DEF Next, vars, CreateInvitation, RevokeInvitation, HandshakeLookup, HandshakeConsume,
         HandshakeNoOrganization, HandshakeRegister, ApproveCheck, ApproveUpdate,
         RevokeDevice, InsertAuditLog, Expire, Restart
<1>2. Rows
  <2>1. ASSUME NEW r \in Request, CreateInvitation(r) PROVE Rows
    BY <1>0, <2>1 DEF CreateInvitation, TypeOK
  <2>2. ASSUME NEW r \in Request, RevokeInvitation(r) PROVE Rows
    BY <1>0, <2>2, WithoutType DEF RevokeInvitation
  <2>3. ASSUME NEW r \in Request, HandshakeConsume(r) PROVE Rows
    <3>1. req[r].inv \in Invitation
      BY <2>3 DEF HandshakeConsume, RequestsSound
    <3>2. CASE invitations' = invitations
      BY <1>0, <3>2
    <3>3. CASE invitations' = Consumed(req[r].inv)
      <4>1. \A i \in Invitation : invitations'[i].timesUsed \in
               {invitations[i].timesUsed, invitations[i].timesUsed + 1}
        BY <3>1, <3>3, ConsumedType
      <4>2. \A i \in Invitation : invitations'[i].timesUsed >= invitations[i].timesUsed
        BY <1>0, <4>1
      <4>3. QED
        BY <3>1, <3>3, <4>2, ConsumedType
    <3>4. QED
      BY <2>3, <3>2, <3>3 DEF HandshakeConsume
  <2>4. ASSUME NEW i \in Invitation, Expire(i) PROVE Rows
    BY <1>0, <2>4 DEF Expire, TypeOK, InvitationRecord
  <2>5. CASE UNCHANGED invitations
    BY <1>0, <2>5
  <2>6. QED
    BY <2>1, <2>2, <2>3, <2>4, <2>5
       DEF Next, vars, HandshakeLookup, HandshakeNoOrganization, HandshakeRegister,
           ApproveCheck, ApproveUpdate, RevokeDevice, InsertAuditLog, Restart
<1>3. Devs
  <2>1. ASSUME NEW r \in Request, HandshakeRegister(r) PROVE Devs
    BY <2>1 DEF HandshakeRegister, TypeOK, RequestsSound
  <2>2. ASSUME NEW r \in Request, ApproveUpdate(r) PROVE Devs
    BY <2>2 DEF ApproveUpdate, TypeOK, RequestsSound
  <2>3. ASSUME NEW r \in Request, RevokeDevice(r) PROVE Devs
    BY <2>3 DEF RevokeDevice, TypeOK
  <2>4. CASE UNCHANGED <<status, origin>>
    BY <2>4
  <2>5. QED
    BY <2>1, <2>2, <2>3, <2>4
       DEF Next, vars, CreateInvitation, RevokeInvitation, HandshakeLookup, HandshakeConsume,
           HandshakeNoOrganization, ApproveCheck, InsertAuditLog, Expire, Restart
<1>4. QED
  BY <1>1, <1>2, <1>3

-----------------------------------------------------------------------------
(* The audit log is true *)

\* Every invitation of the MemoryStore belongs to its one organization.
MemoryOrgs ==
    backend = "memory" =>
       \A i \in Invitation : invitations[i].state # "unused" => invitations[i].org = DemoOrg

LEMMA NextMemoryOrgs == IInv /\ MemoryOrgs /\ [Next]_vars => MemoryOrgs'
<1> SUFFICES ASSUME IInv, MemoryOrgs, [Next]_vars, backend' = "memory",
                    NEW j \in Invitation, invitations'[j].state # "unused"
             PROVE  invitations'[j].org = DemoOrg
  BY DEF MemoryOrgs
<1>0. backend = "memory"
  BY HistoryStays
<1>1. CASE invitations[j].state # "unused"
  BY <1>0, <1>1, HistoryStays DEF MemoryOrgs
<1>2. CASE invitations[j].state = "unused"
  <2>1. ASSUME NEW r \in Request, CreateInvitation(r) PROVE invitations'[j].org = DemoOrg
    BY <1>0, <1>2, <2>1 DEF CreateInvitation, Tenants, IInv, TypeOK
  <2>2. ASSUME NEW r \in Request, RevokeInvitation(r) PROVE invitations'[j].state = "unused"
    BY <1>2, <2>2, WithoutType DEF RevokeInvitation, IInv
  <2>3. ASSUME NEW r \in Request, HandshakeConsume(r) PROVE invitations'[j].state = "unused"
    BY <1>2, <2>3, ConsumedType DEF HandshakeConsume, IInv, RequestsSound
  <2>4. ASSUME NEW i \in Invitation, Expire(i) PROVE invitations'[j].state = "unused"
    BY <1>2, <2>4 DEF Expire, IInv, TypeOK, InvitationRecord
  <2>5. QED
    BY <1>2, <2>1, <2>2, <2>3, <2>4
       DEF Next, vars, HandshakeLookup, HandshakeNoOrganization, HandshakeRegister,
           ApproveCheck, ApproveUpdate, RevokeDevice, InsertAuditLog, Restart
<1>3. QED
  BY <1>1, <1>2

\* An entry is about a row there is, of the kind its action names; in memory a
\* withdrawal may be about none.
EntriesSound ==
    \A e \in audit :
       /\ e.action = "device.invitation.created" => e.id \in Invitation
       /\ e.action = "device.invitation.revoked" => e.id \in Invitation \cup {Unknown}
       /\ e.action \in {"device.enrolled", "device.approved", "device.revoked"} =>
            e.id \in Device /\ status[e.id] # "NONE"

\* What an entry that request record q is going to insert will say is already
\* true, and the organization it will name is that of the invitation.
PromiseTruthful(q) ==
    /\ q.at \in {"consume", "register", "device.invitation.created"} =>
         q.org = invitations[q.inv].org
    /\ q.at = "device.invitation.revoked" =>
         IF q.inv = Unknown THEN backend = "memory"
         ELSE invitations[q.inv].state = "deleted" /\ q.org = invitations[q.inv].org
    /\ q.at \in {"approve", "device.enrolled", "device.approved", "device.revoked"} =>
         q.org = invitations[origin[q.dev]].org
    /\ q.at \in {"device.approved", "device.revoked"} =>
         status[q.dev] \in {"ACTIVE", "REVOKED"}

LogTruthful == \A e \in audit : Truthful(e)

RecordsInv ==
    LogTruthful /\ EntriesSound /\ \A r \in Request : PromiseTruthful(req[r])

\* A request keeps its promise with the entry it inserts.
LEMMA PromiseKept ==
  ASSUME IInv, NEW r \in Request, req[r].at \in AuditAction, PromiseTruthful(req[r])
  PROVE  Truthful(Entry(req[r]))
<1> PICK q \in RequestState : q = req[r]
  BY DEF IInv, TypeOK
<1> DEFINE e == Entry(q)
<1>1. /\ e.action = q.at /\ e.org = q.org
      /\ q.at \in {"device.invitation.created", "device.invitation.revoked"} => e.id = q.inv
      /\ q.at \in {"device.enrolled", "device.approved", "device.revoked"} => e.id = q.dev
  BY DEF Entry
<1>2. /\ q.at = "device.invitation.created" => invitations[q.inv].state # "unused"
      /\ q.at = "device.enrolled" => status[q.dev] # "NONE"
  BY DEF IInv, RequestsSound
<1>3. PromiseTruthful(q)
  OBVIOUS
<1> HIDE DEF e
<1>4. Truthful(e)
  BY <1>1, <1>2, <1>3 DEF PromiseTruthful, Truthful
<1>5. QED
  BY <1>4 DEF e

\* A promise made stays true: only the request that moves must be looked at.
LEMMA PromiseStays ==
  ASSUME IInv, [Next]_vars, NEW r \in Request, PromiseTruthful(req[r]), req'[r] = req[r]
  PROVE  PromiseTruthful(req[r])'
<1> PICK q \in RequestState : q = req[r]
  BY DEF IInv, TypeOK
<1>1. /\ q.at \in {"consume", "register", "device.invitation.created"} =>
            q.inv \in Invitation /\ invitations[q.inv].state # "unused"
      /\ q.at = "device.invitation.revoked" /\ q.inv # Unknown =>
            q.inv \in Invitation /\ invitations[q.inv].state # "unused"
      /\ q.at \in {"approve", "device.enrolled", "device.approved", "device.revoked"} =>
            /\ q.dev \in Device /\ status[q.dev] # "NONE"
            /\ origin[q.dev] \in Invitation /\ invitations[origin[q.dev]].state # "unused"
  BY DEF IInv, RequestsSound, RowsSound
<1>2. PromiseTruthful(q)
  OBVIOUS
<1>3. PromiseTruthful(q)'
  BY <1>1, <1>2, HistoryStays DEF PromiseTruthful
<1>4. QED
  BY <1>3 DEF PromiseTruthful

\* The entries of the log stay true.
LEMMA EntriesStay ==
  ASSUME IInv, [Next]_vars, LogTruthful, EntriesSound, audit' = audit
  PROVE  LogTruthful' /\ EntriesSound'
<1> SUFFICES ASSUME NEW e \in audit
             PROVE  /\ Truthful(e)'
                    /\ e.action \in {"device.enrolled", "device.approved", "device.revoked"} =>
                          status'[e.id] # "NONE"
  BY DEF LogTruthful, EntriesSound
<1>1. e.action \in {"device.enrolled", "device.approved", "device.revoked"} =>
         /\ e.id \in Device /\ status[e.id] # "NONE"
         /\ origin[e.id] \in Invitation /\ invitations[origin[e.id]].state # "unused"
  BY DEF EntriesSound, IInv, RowsSound
<1>2. Truthful(e)
  BY DEF LogTruthful
<1>3. /\ e.action = "device.invitation.created" =>
            e.id \in Invitation /\ invitations[e.id].state # "unused"
      /\ e.action = "device.invitation.revoked" /\ e.id # Unknown =>
            e.id \in Invitation /\ invitations[e.id].state # "unused"
  BY <1>2 DEF Truthful, EntriesSound
<1>4. QED
  BY <1>1, <1>2, <1>3, HistoryStays DEF Truthful

LEMMA NextRecords == IInv /\ MemoryOrgs /\ RecordsInv /\ [Next]_vars => RecordsInv'
<1> SUFFICES ASSUME IInv, MemoryOrgs, RecordsInv, [Next]_vars PROVE RecordsInv'
  OBVIOUS
<1> USE DEF RecordsInv
<1>a. ASSUME NEW r \in Request, \A s \in Request : s # r => req'[s] = req[s],
             PromiseTruthful(req[r])', audit' = audit
      PROVE  RecordsInv'
  BY <1>a, PromiseStays, EntriesStay
<1>b. req \in [Request -> RequestState]
  BY DEF IInv, TypeOK
<1>1. ASSUME NEW r \in Request, CreateInvitation(r) PROVE RecordsInv'
  <2> PICK i \in Invitation, o \in Tenants, n \in MaxUsesInput, appr \in BOOLEAN, x \in Outcome :
        CreateInvitation(r)!2!(i, o, n, appr, x)
    BY <1>1 DEF CreateInvitation
  <2>1. audit' = audit
    BY <1>1 DEF CreateInvitation
  <2>2. CASE req' = req
    BY <1>a, <2>1, <2>2, PromiseStays
  <2>3. CASE req' # req
    <3>1. x.applied /\ req' = [req EXCEPT ![r] = At("device.invitation.created", o, i, NoDevice)]
      BY <2>3 DEF Outcome
    <3>2. invitations'[i].org = o
      BY <3>1 DEF IInv, TypeOK
    <3>3. PromiseTruthful(req[r])'
      BY <1>b, <3>1, <3>2 DEF PromiseTruthful, At
    <3>4. QED
      BY <1>a, <1>b, <2>1, <3>1, <3>3
  <2>4. QED
    BY <2>2, <2>3
<1>2. ASSUME NEW r \in Request, RevokeInvitation(r) PROVE RecordsInv'
  <2> PICK i \in Named, o \in Tenants, x \in Outcome : RevokeInvitation(r)!2!(i, o, x)
    BY <1>2 DEF RevokeInvitation
  <2>1. audit' = audit /\ backend' = backend
    BY <1>2 DEF RevokeInvitation
  <2>2. CASE req' = req
    BY <1>a, <2>1, <2>2, PromiseStays
  <2>3. CASE req' # req
    <3>1. x.applied /\ req' = [req EXCEPT ![r] = At("device.invitation.revoked", o, i, NoDevice)]
      BY <2>3 DEF Outcome
    <3>2. i = Unknown => backend' = "memory"
      BY <2>1 DEF Withdrawable, IInv, TypeOK
    <3>3. i # Unknown => invitations'[i].state = "deleted" /\ o = invitations'[i].org
      <4> SUFFICES ASSUME i # Unknown
                   PROVE  invitations'[i].state = "deleted" /\ o = invitations'[i].org
        OBVIOUS
      <4>1. /\ i \in Invitation /\ invitations'[i].state = "deleted"
            /\ invitations'[i].org = invitations[i].org
        BY <3>1, WithoutType DEF IInv
      <4>2. invitations[i].state # "unused"
        BY DEF Named
      <4>3. CASE backend = "postgres"
        BY <4>1, <4>3 DEF Withdrawable
      <4>4. CASE backend = "memory"
        BY <4>1, <4>2, <4>4 DEF Tenants, MemoryOrgs
      <4>5. QED
        BY <4>1, <4>3, <4>4 DEF IInv, TypeOK
    <3>4. PromiseTruthful(req[r])'
      BY <1>b, <3>1, <3>2, <3>3 DEF PromiseTruthful, At
    <3>5. QED
      BY <1>a, <1>b, <2>1, <3>1, <3>4
  <2>4. QED
    BY <2>2, <2>3
<1>3. ASSUME NEW r \in Request, HandshakeLookup(r) PROVE RecordsInv'
  BY <1>3, <1>a, <1>b DEF HandshakeLookup, At, PromiseTruthful
<1>4. ASSUME NEW r \in Request, HandshakeConsume(r) PROVE RecordsInv'
  <2>1. /\ req[r].inv \in Invitation /\ invitations[req[r].inv].state # "unused"
        /\ req[r].org = invitations[req[r].inv].org
    BY <1>4 DEF HandshakeConsume, IInv, RequestsSound, PromiseTruthful
  <2>2. /\ req'[r].at = "register" /\ req'[r].inv = req[r].inv /\ req'[r].org = req[r].org
        /\ \A s \in Request : s # r => req'[s] = req[s]
        /\ audit' = audit
    BY <1>4, <1>b DEF HandshakeConsume, RequestState
  <2>3. PromiseTruthful(req[r])'
    BY <2>1, <2>2, HistoryStays DEF PromiseTruthful
  <2>4. QED
    BY <1>a, <2>2, <2>3
<1>5. ASSUME NEW r \in Request, HandshakeNoOrganization(r) PROVE RecordsInv'
  BY <1>5, <1>a, <1>b DEF HandshakeNoOrganization, Idle, PromiseTruthful
<1>6. ASSUME NEW r \in Request, HandshakeRegister(r) PROVE RecordsInv'
  <2> PICK x \in Outcome :
        /\ status' = IF x.applied THEN [status EXCEPT ![req[r].dev] = InitialStatus(req[r].inv)]
                                  ELSE status
        /\ origin' = IF x.applied THEN [origin EXCEPT ![req[r].dev] = req[r].inv] ELSE origin
        /\ req' = [req EXCEPT ![r] = IF x.ok THEN [@ EXCEPT !.at = "device.enrolled"] ELSE Idle]
    BY <1>6 DEF HandshakeRegister
  <2>1. audit' = audit /\ invitations' = invitations
    BY <1>6 DEF HandshakeRegister
  <2>2. /\ req[r].inv \in Invitation /\ req[r].dev \in Device
        /\ req[r].org = invitations[req[r].inv].org
    BY <1>6 DEF HandshakeRegister, IInv, RequestsSound, PromiseTruthful
  <2>3. CASE x.ok
    <3>1. origin'[req[r].dev] = req[r].inv
      BY <2>2, <2>3 DEF Outcome, IInv, TypeOK
    <3>2. /\ req'[r].at = "device.enrolled" /\ req'[r].dev = req[r].dev
          /\ req'[r].org = req[r].org
      BY <1>b, <2>3 DEF RequestState
    <3>3. PromiseTruthful(req[r])'
      BY <2>1, <2>2, <3>1, <3>2 DEF PromiseTruthful
    <3>4. QED
      BY <1>a, <1>b, <2>1, <3>3
  <2>4. CASE ~x.ok
    <3>1. PromiseTruthful(req[r])'
      BY <1>b, <2>4 DEF Idle, PromiseTruthful
    <3>2. QED
      BY <1>a, <1>b, <2>1, <3>1
  <2>5. QED
    BY <2>3, <2>4
<1>7. ASSUME NEW r \in Request, ApproveCheck(r) PROVE RecordsInv'
  BY <1>7, <1>a, <1>b DEF ApproveCheck, At, PromiseTruthful
<1>8. ASSUME NEW r \in Request, ApproveUpdate(r) PROVE RecordsInv'
  <2> PICK x \in Outcome :
        /\ status' = IF x.applied THEN [status EXCEPT ![req[r].dev] = "ACTIVE"] ELSE status
        /\ req' = [req EXCEPT ![r] = IF x.ok THEN [@ EXCEPT !.at = "device.approved"] ELSE Idle]
    BY <1>8 DEF ApproveUpdate
  <2>1. audit' = audit /\ invitations' = invitations /\ origin' = origin
    BY <1>8 DEF ApproveUpdate
  <2>2. req[r].dev \in Device /\ req[r].org = invitations[origin[req[r].dev]].org
    BY <1>8 DEF ApproveUpdate, IInv, RequestsSound, PromiseTruthful
  <2>3. CASE x.ok
    <3>1. status'[req[r].dev] = "ACTIVE"
      BY <2>2, <2>3 DEF Outcome, IInv, TypeOK
    <3>2. /\ req'[r].at = "device.approved" /\ req'[r].dev = req[r].dev
          /\ req'[r].org = req[r].org
      BY <1>b, <2>3 DEF RequestState
    <3>3. PromiseTruthful(req[r])'
      BY <2>1, <2>2, <3>1, <3>2 DEF PromiseTruthful
    <3>4. QED
      BY <1>a, <1>b, <2>1, <3>3
  <2>4. CASE ~x.ok
    <3>1. PromiseTruthful(req[r])'
      BY <1>b, <2>4 DEF Idle, PromiseTruthful
    <3>2. QED
      BY <1>a, <1>b, <2>1, <3>1
  <2>5. QED
    BY <2>3, <2>4
<1>9. ASSUME NEW r \in Request, RevokeDevice(r) PROVE RecordsInv'
  <2> PICK d \in Device, x \in Outcome : RevokeDevice(r)!2!(d, x)
    BY <1>9 DEF RevokeDevice
  <2>1. audit' = audit /\ invitations' = invitations /\ origin' = origin
    BY <1>9 DEF RevokeDevice
  <2>2. CASE req' = req
    BY <1>a, <2>1, <2>2, PromiseStays
  <2>3. CASE req' # req
    <3>1. req' = [req EXCEPT ![r] = At("device.revoked", invitations[origin[d]].org,
                                       NoInvitation, d)]
      BY <2>3
    <3>2. status'[d] = "REVOKED"
      <4>1. x.applied
        BY <2>3 DEF Outcome
      <4>2. QED
        BY <4>1 DEF IInv, TypeOK
    <3>3. PromiseTruthful(req[r])'
      BY <1>b, <2>1, <3>1, <3>2 DEF PromiseTruthful, At
    <3>4. QED
      BY <1>a, <1>b, <2>1, <3>1, <3>3
  <2>4. QED
    BY <2>2, <2>3
<1>10. ASSUME NEW r \in Request, InsertAuditLog(r) PROVE RecordsInv'
  <2>1. /\ UNCHANGED <<backend, invitations, status, origin>>
        /\ req' = [req EXCEPT ![r] = Idle]
        /\ audit' \in {audit, audit \cup {Entry(req[r])}}
        /\ req[r].at \in AuditAction
    BY <1>10 DEF InsertAuditLog
  <2>2. \A s \in Request : PromiseTruthful(req'[s])
    BY <1>b, <2>1 DEF PromiseTruthful, Idle
  <2>3. \A s \in Request : PromiseTruthful(req[s])'
    BY <2>1, <2>2 DEF PromiseTruthful
  <2>4. Truthful(Entry(req[r]))
    BY <2>1, PromiseKept
  <2> DEFINE e == Entry(req[r])
  <2>5. /\ e.action = "device.invitation.created" => e.id \in Invitation
        /\ e.action = "device.invitation.revoked" => e.id \in Invitation \cup {Unknown}
        /\ e.action \in {"device.enrolled", "device.approved", "device.revoked"} =>
              e.id \in Device /\ status[e.id] # "NONE"
    BY <2>1 DEF Entry, IInv, RequestsSound
  <2> HIDE DEF e
  <2>6. EntriesSound'
    BY <2>1, <2>5 DEF EntriesSound, e
  <2>7. LogTruthful'
    BY <2>1, <2>4 DEF LogTruthful, Truthful
  <2>8. QED
    BY <2>3, <2>6, <2>7
<1>11. ASSUME NEW i \in Invitation, Expire(i) PROVE RecordsInv'
  <2>1. req' = req /\ audit' = audit
    BY <1>11 DEF Expire
  <2>2. QED
    BY <2>1, PromiseStays, EntriesStay
<1>12. CASE Restart
  <2>1. (\A s \in Request : req'[s] = Idle) /\ audit' = audit
    BY <1>12 DEF Restart
  <2>2. \A s \in Request : PromiseTruthful(req[s])'
    BY <2>1 DEF PromiseTruthful, Idle
  <2>3. QED
    BY <2>1, <2>2, EntriesStay
<1>13. CASE UNCHANGED vars
  <2>1. req' = req /\ audit' = audit
    BY <1>13 DEF vars
  <2>2. QED
    BY <2>1, PromiseStays, EntriesStay
<1>14. QED
  BY <1>1, <1>2, <1>3, <1>4, <1>5, <1>6, <1>7, <1>8, <1>9, <1>10, <1>11, <1>12, <1>13
     DEF Next

\* In either store no entry, of the log or about to be inserted, runs ahead of the
\* tables or names the wrong organization, whatever overlaps, fails or restarts.
\* Only in memory does a report name an invitation that never existed.
THEOREM LogIsTrue == Spec => []RecordsTruthful
<1>1. Init => RecordsInv /\ MemoryOrgs
  BY DEF Init, Idle, RecordsInv, LogTruthful, EntriesSound, PromiseTruthful, MemoryOrgs
<1>2. IInv /\ MemoryOrgs /\ RecordsInv /\ [Next]_vars => MemoryOrgs' /\ RecordsInv'
  BY NextMemoryOrgs, NextRecords
<1>3. IInv /\ RecordsInv => RecordsTruthful
  BY PromiseKept DEF RecordsInv, RecordsTruthful, LogTruthful, Reports
<1>4. QED
  BY <1>1, <1>2, <1>3, InvariantHolds, PTL DEF Spec
-----------------------------------------------------------------------------
(* The audit log of the MemoryStore is complete *)

\* A change of device d of kind a is in the log or about to be inserted.
Recorded(d, a) ==
    \/ \E e \in audit : e.action = a /\ e.id = d
    \/ \E r \in Request : req[r].at = a /\ req[r].dev = d

DeviceAction == {"device.enrolled", "device.approved", "device.revoked"}

\* In memory no call fails and no request is lost: what is about to be
\* inserted is inserted, and what is in the log stays.
LEMMA OnRecordStays ==
  ASSUME IInv, [Next]_vars, backend = "memory",
         NEW d \in Device, NEW a \in DeviceAction, Recorded(d, a)
  PROVE  Recorded(d, a)'
<1> USE DEF DeviceAction
<1>b. req \in [Request -> RequestState]
  BY DEF IInv, TypeOK
<1>1. audit \subseteq audit'
  BY DEF Next, vars, CreateInvitation, RevokeInvitation, HandshakeLookup, HandshakeConsume,
         HandshakeNoOrganization, HandshakeRegister, ApproveCheck, ApproveUpdate,
         RevokeDevice, InsertAuditLog, Expire, Restart
<1>2. CASE \E e \in audit : e.action = a /\ e.id = d
  BY <1>1, <1>2 DEF Recorded
<1>3. CASE \E r \in Request : req[r].at = a /\ req[r].dev = d
  <2> PICK r \in Request : req[r].at = a /\ req[r].dev = d
    BY <1>3
  <2>1. CASE InsertAuditLog(r)
    <3>1. Entry(req[r]) \in audit' /\ Entry(req[r]).action = a /\ Entry(req[r]).id = d
      BY <2>1 DEF InsertAuditLog, AuditRowKept, Entry
    <3>2. QED
      BY <3>1 DEF Recorded
  <2>2. CASE ~InsertAuditLog(r)
    <3>1. ~MayFail
      BY DEF MayFail
    <3>2. ASSUME NEW s \in Request, s # r,
                 \/ CreateInvitation(s) \/ RevokeInvitation(s)
                 \/ HandshakeLookup(s) \/ HandshakeConsume(s)
                 \/ HandshakeNoOrganization(s) \/ HandshakeRegister(s)
                 \/ ApproveCheck(s) \/ ApproveUpdate(s) \/ RevokeDevice(s)
                 \/ InsertAuditLog(s)
          PROVE  req'[r] = req[r]
      BY <1>b, <3>2
         DEF CreateInvitation, RevokeInvitation, HandshakeLookup, HandshakeConsume,
             HandshakeNoOrganization, HandshakeRegister, ApproveCheck, ApproveUpdate,
             RevokeDevice, InsertAuditLog
    <3>3. ~(\/ CreateInvitation(r) \/ RevokeInvitation(r)
            \/ HandshakeLookup(r) \/ HandshakeConsume(r)
            \/ HandshakeNoOrganization(r) \/ HandshakeRegister(r)
            \/ ApproveCheck(r) \/ ApproveUpdate(r) \/ RevokeDevice(r))
      BY DEF CreateInvitation, RevokeInvitation, HandshakeLookup, HandshakeConsume,
             HandshakeNoOrganization, HandshakeRegister, ApproveCheck, ApproveUpdate,
             RevokeDevice
    <3>4. (\E i \in Invitation : Expire(i)) \/ UNCHANGED vars => req'[r] = req[r]
      BY DEF Expire, vars
    <3>5. req'[r] = req[r]
      BY <2>2, <3>1, <3>2, <3>3, <3>4 DEF Next, Restart
    <3>6. QED
      BY <3>5 DEF Recorded
  <2>3. QED
    BY <2>1, <2>2
<1>4. QED
  BY <1>2, <1>3 DEF Recorded

\* What ChangesOnRecord asks of one device.
DeviceOnRecord(d) ==
    /\ status[d] # "NONE" => Recorded(d, "device.enrolled")
    /\ status[d] = "ACTIVE" /\ invitations[origin[d]].requiresApproval =>
         Recorded(d, "device.approved")
    /\ status[d] = "REVOKED" => Recorded(d, "device.revoked")

LEMMA NextDeviceOnRecord ==
  ASSUME IInv, [Next]_vars, backend = "memory", NEW d \in Device, DeviceOnRecord(d)
  PROVE  DeviceOnRecord(d)'
<1>a. \A a \in DeviceAction : Recorded(d, a) => Recorded(d, a)'
  BY OnRecordStays
<1>b. req \in [Request -> RequestState] /\ \A x \in Outcome : x.applied /\ x.ok
  BY DEF IInv, TypeOK, Outcome, MayFail
<1>c. ASSUME status'[d] = status[d]
      PROVE  DeviceOnRecord(d)'
  BY <1>a, <1>c, HistoryStays DEF DeviceOnRecord, DeviceAction, IInv, RowsSound
<1>1. ASSUME NEW r \in Request, HandshakeRegister(r) PROVE DeviceOnRecord(d)'
  <2>1. CASE d # req[r].dev
    BY <1>1, <1>c, <2>1 DEF HandshakeRegister, IInv, TypeOK
  <2>2. CASE d = req[r].dev
    <3>1. /\ req' = [req EXCEPT ![r] = [@ EXCEPT !.at = "device.enrolled"]]
          /\ status' = [status EXCEPT ![d] = InitialStatus(req[r].inv)]
          /\ origin' = [origin EXCEPT ![d] = req[r].inv]
          /\ invitations' = invitations
      BY <1>1, <1>b, <2>2 DEF HandshakeRegister
    <3>2. req'[r].at = "device.enrolled" /\ req'[r].dev = d
      BY <1>b, <2>2, <3>1 DEF RequestState
    <3>3. Recorded(d, "device.enrolled")'
      BY <3>2 DEF Recorded
    <3>4. status'[d] = InitialStatus(req[r].inv) /\ origin'[d] = req[r].inv
      BY <3>1 DEF IInv, TypeOK
    <3>5. QED
      BY <3>1, <3>3, <3>4 DEF InitialStatus, DeviceOnRecord
  <2>3. QED
    BY <2>1, <2>2
<1>2. ASSUME NEW r \in Request, ApproveUpdate(r) PROVE DeviceOnRecord(d)'
  <2>1. CASE d # req[r].dev
    BY <1>2, <1>c, <2>1 DEF ApproveUpdate, IInv, TypeOK
  <2>2. CASE d = req[r].dev
    <3>1. /\ req' = [req EXCEPT ![r] = [@ EXCEPT !.at = "device.approved"]]
          /\ status' = [status EXCEPT ![d] = "ACTIVE"]
      BY <1>2, <1>b, <2>2 DEF ApproveUpdate
    <3>2. req'[r].at = "device.approved" /\ req'[r].dev = d
      BY <1>b, <2>2, <3>1 DEF RequestState
    <3>3. Recorded(d, "device.approved")'
      BY <3>2 DEF Recorded
    <3>4. status'[d] = "ACTIVE"
      BY <3>1 DEF IInv, TypeOK
    <3>5. status[d] # "NONE"
      BY <1>2, <2>2 DEF ApproveUpdate, IInv, RequestsSound
    <3>6. Recorded(d, "device.enrolled")'
      BY <1>a, <3>5 DEF DeviceOnRecord, DeviceAction
    <3>7. QED
      BY <3>3, <3>4, <3>6 DEF DeviceOnRecord
  <2>3. QED
    BY <2>1, <2>2
<1>3. ASSUME NEW r \in Request, RevokeDevice(r) PROVE DeviceOnRecord(d)'
  <2> PICK e \in Device, x \in Outcome : RevokeDevice(r)!2!(e, x)
    BY <1>3 DEF RevokeDevice
  <2>1. CASE d # e
    BY <1>c, <2>1 DEF IInv, TypeOK
  <2>2. CASE d = e
    <3>1. /\ req' = [req EXCEPT ![r] = At("device.revoked", invitations[origin[d]].org,
                                          NoInvitation, d)]
          /\ status' = [status EXCEPT ![d] = "REVOKED"]
          /\ status[d] # "NONE"
      BY <1>b, <2>2
    <3>2. req'[r].at = "device.revoked" /\ req'[r].dev = d
      BY <1>b, <3>1 DEF At
    <3>3. Recorded(d, "device.revoked")'
      BY <3>2 DEF Recorded
    <3>4. status'[d] = "REVOKED"
      BY <3>1 DEF IInv, TypeOK
    <3>5. Recorded(d, "device.enrolled")'
      BY <1>a, <3>1 DEF DeviceOnRecord, DeviceAction
    <3>6. QED
      BY <3>3, <3>4, <3>5 DEF DeviceOnRecord
  <2>3. QED
    BY <2>1, <2>2
<1>4. CASE status' = status
  BY <1>4, <1>c
<1>5. QED
  BY <1>1, <1>2, <1>3, <1>4
     DEF Next, vars, CreateInvitation, RevokeInvitation, HandshakeLookup, HandshakeConsume,
         HandshakeNoOrganization, ApproveCheck, InsertAuditLog, Expire, Restart

\* With the MemoryStore no device is enrolled, approved or revoked silently.
THEOREM MemoryLogIsComplete == Spec => []MemoryChangesOnRecord
<1>1. MemoryChangesOnRecord <=> (backend = "memory" => \A d \in Device : DeviceOnRecord(d))
  BY DEF MemoryChangesOnRecord, ChangesOnRecord, DeviceOnRecord, Recorded
<1>2. Init => MemoryChangesOnRecord
  BY <1>1 DEF Init, DeviceOnRecord
<1>3. IInv /\ MemoryChangesOnRecord /\ [Next]_vars => MemoryChangesOnRecord'
  <2> SUFFICES ASSUME IInv, MemoryChangesOnRecord, [Next]_vars, backend' = "memory"
               PROVE  (\A d \in Device : DeviceOnRecord(d))'
    BY DEF MemoryChangesOnRecord, ChangesOnRecord, DeviceOnRecord, Recorded
  <2>1. backend = "memory"
    BY HistoryStays
  <2>2. QED
    BY <1>1, <2>1, NextDeviceOnRecord
<1>4. QED
  BY <1>2, <1>3, InvariantHolds, PTL DEF Spec

-----------------------------------------------------------------------------
(* A closed invitation stays closed *)

\* No lookup admits a handshake on a spent invitation, and no device is
\* enrolled without one.
LEMMA ClosedStep ==
  ASSUME IInv, [Next]_vars, NEW i \in Invitation, Spent(i), InFlight(i) = {}
  PROVE  Spent(i)' /\ InFlight(i)' = {} /\ Enrolled(i)' = Enrolled(i)
<1>b. /\ req \in [Request -> RequestState]
      /\ \A j \in Invitation : /\ invitations[j].timesUsed \in Nat
                               /\ invitations[j].maxUses \in Nat
                               /\ invitations[j].expired \in BOOLEAN
                               /\ invitations[j].state \in InvitationState
  BY DEF IInv, TypeOK, InvitationRecord
<1>1. Spent(i)'
  <2>1. IInv'
    BY NextIInv
  <2>2. /\ invitations'[i].timesUsed \in Nat /\ invitations'[i].maxUses \in Nat
        /\ invitations'[i].state \in InvitationState
    BY <2>1 DEF IInv, TypeOK, InvitationRecord
  <2>3. QED
    BY <1>b, <2>2, HistoryStays DEF Spent, Exhausted, InvitationState
<1>2. InFlight(i)' = {}
  <2> SUFFICES ASSUME NEW r \in Request, req'[r].inv = i, req'[r].at \in {"consume", "register"}
               PROVE  FALSE
    BY DEF InFlight
  <2>1. ~(req[r].inv = i /\ req[r].at \in {"consume", "register"})
    BY DEF InFlight
  <2>2. req'[r] # req[r] /\ req'[r] # Idle
    BY <2>1 DEF Idle
  <2>3. HandshakeLookup(r) \/ HandshakeConsume(r)
    <3>1. ~((\E j \in Invitation : Expire(j)) \/ Restart \/ UNCHANGED vars)
      BY <2>2 DEF Expire, Restart, vars
    <3>2. PICK s \in Request :
            \/ CreateInvitation(s) \/ RevokeInvitation(s)
            \/ HandshakeLookup(s) \/ HandshakeConsume(s)
            \/ HandshakeNoOrganization(s) \/ HandshakeRegister(s)
            \/ ApproveCheck(s) \/ ApproveUpdate(s) \/ RevokeDevice(s)
            \/ InsertAuditLog(s)
      BY <3>1 DEF Next
    <3>3. s = r
      BY <1>b, <2>2, <3>2
         DEF CreateInvitation, RevokeInvitation, HandshakeLookup, HandshakeConsume,
             HandshakeNoOrganization, HandshakeRegister, ApproveCheck, ApproveUpdate,
             RevokeDevice, InsertAuditLog
    <3>4. ~(\/ CreateInvitation(r) \/ RevokeInvitation(r) \/ ApproveCheck(r) \/ RevokeDevice(r))
      BY <1>b, <2>2 DEF At, CreateInvitation, RevokeInvitation, ApproveCheck, RevokeDevice
    <3>5. ~(\/ HandshakeNoOrganization(r) \/ HandshakeRegister(r) \/ ApproveUpdate(r)
            \/ InsertAuditLog(r))
      BY <1>b, <2>2
         DEF RequestState, HandshakeNoOrganization, HandshakeRegister, ApproveUpdate,
             InsertAuditLog
    <3>6. QED
      BY <3>2, <3>3, <3>4, <3>5
  <2>4. CASE HandshakeLookup(r)
    <3>1. Usable(i)
      BY <1>b, <2>4 DEF HandshakeLookup, At
    <3>2. QED
      BY <3>1 DEF Usable, Live, Spent
  <2>5. CASE HandshakeConsume(r)
    BY <1>b, <2>1, <2>5 DEF HandshakeConsume, RequestState
  <2>6. QED
    BY <2>3, <2>4, <2>5
<1>3. Enrolled(i)' = Enrolled(i)
  <2>1. ASSUME NEW r \in Request, HandshakeRegister(r) PROVE Enrolled(i)' = Enrolled(i)
    <3>1. req[r].inv # i
      BY <2>1 DEF HandshakeRegister, InFlight
    <3>2. origin[req[r].dev] # i
      BY <2>1 DEF HandshakeRegister, IInv, RequestsSound, RowsSound
    <3>3. QED
      BY <2>1, <3>1, <3>2 DEF HandshakeRegister, Enrolled, IInv, TypeOK
  <2>2. CASE origin' = origin
    BY <2>2 DEF Enrolled
  <2>3. QED
    BY <2>1, <2>2
       DEF Next, vars, CreateInvitation, RevokeInvitation, HandshakeLookup, HandshakeConsume,
           HandshakeNoOrganization, ApproveCheck, ApproveUpdate, RevokeDevice,
           InsertAuditLog, Expire, Restart
<1>4. QED
  BY <1>1, <1>2, <1>3

\* Once an invitation is deleted, expired or used up and no handshake on it is
\* under way, it enrolls nobody any more.
THEOREM ClosedIsFinal == Spec => ClosedInvitationAdmitsNone
<1>1. IInv /\ [Next]_vars =>
        [\A i \in Invitation :
            Spent(i) /\ InFlight(i) = {} =>
               Spent(i)' /\ InFlight(i)' = {} /\ Enrolled(i)' = Enrolled(i)]_vars
  BY ClosedStep
<1>2. QED
  BY <1>1, InvariantHolds, PTL DEF Spec, ClosedInvitationAdmitsNone
-----------------------------------------------------------------------------
(* Counting the devices of an invitation, while calls succeed *)

\* Devices and requests can be counted.
LEMMA CountsOfParts ==
  /\ \A S \in SUBSET Device : IsFiniteSet(S) /\ Cardinality(S) \in Nat
  /\ \A S \in SUBSET Request : /\ IsFiniteSet(S) /\ Cardinality(S) \in Nat
                               /\ Cardinality(S) <= Cardinality(Request)
  /\ Cardinality(Request) \in Nat
  BY FiniteAssumption, FS_Subset, FS_CardinalityType

LEMMA CountsOfSets ==
  \A i \in Invitation :
     /\ IsFiniteSet(Enrolled(i)) /\ Cardinality(Enrolled(i)) \in Nat
     /\ IsFiniteSet(Spending(i)) /\ Cardinality(Spending(i)) \in Nat
     /\ IsFiniteSet(InFlight(i)) /\ Cardinality(InFlight(i)) \in Nat
<1>1. \A i \in Invitation : /\ Enrolled(i) \in SUBSET Device
                            /\ Spending(i) \in SUBSET Request
                            /\ InFlight(i) \in SUBSET Request
  BY DEF Enrolled, Spending, InFlight
<1>2. QED
  BY <1>1, CountsOfParts

\* An invitation that was not issued has no device and no handshake.
LEMMA UnusedIsEmpty ==
  ASSUME IInv, NEW i \in Invitation, invitations[i].state = "unused"
  PROVE  Enrolled(i) = {} /\ Spending(i) = {} /\ InFlight(i) = {}
  BY DEF IInv, RowsSound, RequestsSound, Enrolled, Spending, InFlight

\* The calls outside the handshake neither enroll a device nor move one.
LEMMA SetsStay ==
  ASSUME IInv, NEW i \in Invitation, ~MayFail,
         \/ \E r \in Request :
               \/ CreateInvitation(r) \/ RevokeInvitation(r) \/ ApproveCheck(r)
               \/ ApproveUpdate(r) \/ RevokeDevice(r) \/ InsertAuditLog(r)
         \/ \E j \in Invitation : Expire(j)
         \/ UNCHANGED vars
  PROVE  Enrolled(i)' = Enrolled(i) /\ Spending(i)' = Spending(i) /\ InFlight(i)' = InFlight(i)
<1>b. req \in [Request -> RequestState]
  BY DEF IInv, TypeOK
<1>1. CASE \E r \in Request :
               \/ CreateInvitation(r) \/ RevokeInvitation(r) \/ ApproveCheck(r)
               \/ ApproveUpdate(r) \/ RevokeDevice(r) \/ InsertAuditLog(r)
  <2> PICK r \in Request :
               \/ CreateInvitation(r) \/ RevokeInvitation(r) \/ ApproveCheck(r)
               \/ ApproveUpdate(r) \/ RevokeDevice(r) \/ InsertAuditLog(r)
    BY <1>1
  <2>1. origin' = origin /\ \A s \in Request : s # r => req'[s] = req[s]
    BY <1>b DEF CreateInvitation, RevokeInvitation, ApproveCheck, ApproveUpdate, RevokeDevice,
                InsertAuditLog
  <2>2. req[r].at \notin {"consume", "register"}
    BY DEF CreateInvitation, RevokeInvitation, ApproveCheck, ApproveUpdate, RevokeDevice,
           InsertAuditLog, AuditAction
  <2>3. req'[r].at \notin {"consume", "register"}
    <3>1. CASE CreateInvitation(r) \/ RevokeInvitation(r) \/ ApproveCheck(r) \/ RevokeDevice(r)
      BY <1>b, <2>2, <3>1
         DEF At, CreateInvitation, RevokeInvitation, ApproveCheck, RevokeDevice
    <3>2. CASE ApproveUpdate(r) \/ InsertAuditLog(r)
      BY <1>b, <3>2 DEF Idle, RequestState, ApproveUpdate, InsertAuditLog
    <3>3. QED
      BY <3>1, <3>2
  <2>4. QED
    BY <2>1, <2>2, <2>3 DEF Enrolled, Spending, InFlight
<1>2. CASE (\E j \in Invitation : Expire(j)) \/ UNCHANGED vars
  BY <1>2 DEF Expire, vars, Enrolled, Spending, InFlight
<1>3. QED
  BY <1>1, <1>2

\* A lookup puts one handshake on a usable invitation.
LEMMA SetsOfLookup ==
  ASSUME IInv, NEW r \in Request, HandshakeLookup(r)
  PROVE  /\ invitations' = invitations
         /\ \E i \in Invitation :
               /\ Usable(i)
               /\ InFlight(i)' = InFlight(i) \cup {r}
               /\ \A j \in Invitation : /\ Enrolled(j)' = Enrolled(j)
                                        /\ Spending(j)' = Spending(j)
                                        /\ j # i => InFlight(j)' = InFlight(j)
<1>b. req \in [Request -> RequestState] /\ tokens \subseteq Invitation
  BY DEF IInv, TypeOK
<1> PICK i \in tokens, d \in Fresh :
        Usable(i) /\ req' = [req EXCEPT ![r] = At("consume", invitations[i].org, i, d)]
  BY DEF HandshakeLookup
<1>1. /\ req[r].at = "idle" /\ req'[r].at = "consume" /\ req'[r].inv = i
      /\ \A s \in Request : s # r => req'[s] = req[s]
      /\ UNCHANGED <<invitations, origin>>
  BY <1>b DEF HandshakeLookup, At
<1>2. QED
  BY <1>b, <1>1 DEF Enrolled, Spending, InFlight

\* A consumption, whether it finds a use or not, makes the handshake spend.
LEMMA SetsOfConsume ==
  ASSUME IInv, NEW r \in Request, HandshakeConsume(r)
  PROVE  \E i \in Invitation :
            /\ i = req[r].inv
            /\ r \in InFlight(i) /\ r \notin Spending(i)
            /\ Spending(i)' = Spending(i) \cup {r}
            /\ \A j \in Invitation : /\ Enrolled(j)' = Enrolled(j)
                                     /\ InFlight(j)' = InFlight(j)
                                     /\ j # i => Spending(j)' = Spending(j)
<1>b. req \in [Request -> RequestState]
  BY DEF IInv, TypeOK
<1>1. /\ req[r].at = "consume" /\ req'[r].at = "register" /\ req'[r].inv = req[r].inv
      /\ \A s \in Request : s # r => req'[s] = req[s]
      /\ origin' = origin /\ req[r].inv \in Invitation
  BY <1>b DEF HandshakeConsume, RequestState, IInv, RequestsSound
<1>2. PICK i \in Invitation : i = req[r].inv
  BY <1>1
<1>3. \A j \in Invitation : Enrolled(j)' = Enrolled(j) /\ InFlight(j)' = InFlight(j)
  BY <1>1 DEF Enrolled, InFlight
<1>4. \A j \in Invitation : j # i => Spending(j)' = Spending(j)
  BY <1>1, <1>2 DEF Spending
<1>5. Spending(i)' = Spending(i) \cup {r} /\ r \in InFlight(i) /\ r \notin Spending(i)
  BY <1>1, <1>2 DEF Spending, InFlight
<1>6. QED
  BY <1>2, <1>3, <1>4, <1>5

\* A registration turns a spending handshake into a device no invitation had.
LEMMA SetsOfRegister ==
  ASSUME IInv, NEW r \in Request, HandshakeRegister(r), ~MayFail
  PROVE  /\ invitations' = invitations
         /\ \E i \in Invitation, d \in Device :
               /\ r \in Spending(i) /\ r \in InFlight(i)
               /\ \A j \in Invitation : d \notin Enrolled(j)
               /\ Enrolled(i)' = Enrolled(i) \cup {d}
               /\ Spending(i)' = Spending(i) \ {r}
               /\ InFlight(i)' = InFlight(i) \ {r}
               /\ \A j \in Invitation : j # i => /\ Enrolled(j)' = Enrolled(j)
                                                 /\ Spending(j)' = Spending(j)
                                                 /\ InFlight(j)' = InFlight(j)
<1>b. req \in [Request -> RequestState] /\ origin \in [Device -> Invitation \cup {NoInvitation}]
  BY DEF IInv, TypeOK
<1>1. /\ req[r].at = "register" /\ req[r].inv \in Invitation /\ req[r].dev \in Device
      /\ status[req[r].dev] = "NONE" /\ origin[req[r].dev] \notin Invitation
  BY DEF HandshakeRegister, IInv, RequestsSound, RowsSound
<1>2. PICK i \in Invitation, d \in Device : i = req[r].inv /\ d = req[r].dev
  BY <1>1
<1>3. /\ origin' = [origin EXCEPT ![d] = i]
      /\ req' = [req EXCEPT ![r] = [@ EXCEPT !.at = "device.enrolled"]]
      /\ invitations' = invitations
  BY <1>2 DEF HandshakeRegister, Outcome, MayFail
<1>4. /\ req'[r].at = "device.enrolled"
      /\ \A s \in Request : s # r => req'[s] = req[s]
      /\ origin'[d] = i
      /\ \A e \in Device : e # d => origin'[e] = origin[e]
  BY <1>b, <1>3 DEF RequestState
<1>5. \A j \in Invitation : d \notin Enrolled(j)
  BY <1>1, <1>2 DEF Enrolled
<1>6. Enrolled(i)' = Enrolled(i) \cup {d}
  BY <1>4 DEF Enrolled
<1>7. \A j \in Invitation : j # i => Enrolled(j)' = Enrolled(j)
  BY <1>1, <1>2, <1>4 DEF Enrolled
<1>8. /\ r \in Spending(i) /\ r \in InFlight(i)
      /\ Spending(i)' = Spending(i) \ {r} /\ InFlight(i)' = InFlight(i) \ {r}
  BY <1>1, <1>2, <1>4 DEF Spending, InFlight
<1>9. \A j \in Invitation : j # i => Spending(j)' = Spending(j) /\ InFlight(j)' = InFlight(j)
  BY <1>1, <1>2, <1>4 DEF Spending, InFlight
<1>10. QED
  BY <1>3, <1>5, <1>6, <1>7, <1>8, <1>9
\* What is counted: a limit of at least one once an invitation is issued, the
\* account of the uses, and what a lookup that saw a use left may overshoot.
CountsInv ==
    /\ \A i \in Invitation :
          IF invitations[i].state = "unused" THEN invitations[i].maxUses = 0
                                             ELSE invitations[i].maxUses >= 1
    /\ UsesAccounted
    /\ \A i \in Invitation : InFlight(i) # {} =>
          Cardinality(Enrolled(i)) + Cardinality(InFlight(i))
             <= invitations[i].maxUses + Cardinality(Request) - 1

\* CountsInv, invitation by invitation.
Counted(i) ==
    LET spent == Cardinality(Enrolled(i)) + Cardinality(Spending(i))
    IN  /\ IF invitations[i].state = "unused" THEN invitations[i].maxUses = 0
                                              ELSE invitations[i].maxUses >= 1
        /\ Live(i) =>
             /\ invitations[i].timesUsed <= spent
             /\ backend = "memory" \/ ~Exhausted(i) => invitations[i].timesUsed = spent
        /\ InFlight(i) # {} =>
             Cardinality(Enrolled(i)) + Cardinality(InFlight(i))
                <= invitations[i].maxUses + Cardinality(Request) - 1

LEMMA CountedAll == CountsInv <=> \A i \in Invitation : Counted(i)
  BY DEF CountsInv, UsesAccounted, Counted

LEMMA NextCounted ==
  ASSUME IInv, [Next]_vars, ~MayFail, NEW i \in Invitation, Counted(i)
  PROVE  Counted(i)'
<1>b. /\ \A j \in Invitation : /\ invitations[j].timesUsed \in Nat
                               /\ invitations[j].maxUses \in Nat
                               /\ invitations[j].state \in InvitationState
      /\ invitations \in [Invitation -> InvitationRecord]
      /\ req \in [Request -> RequestState]
      /\ backend' = backend
      /\ \A x \in Outcome : x.applied /\ x.ok
  BY HistoryStays DEF IInv, TypeOK, InvitationRecord, Outcome, MayFail
<1>c. /\ Cardinality(Enrolled(i)) \in Nat /\ Cardinality(Spending(i)) \in Nat
      /\ Cardinality(InFlight(i)) \in Nat /\ Cardinality(Request) \in Nat
      /\ IsFiniteSet(Enrolled(i)) /\ IsFiniteSet(Spending(i)) /\ IsFiniteSet(InFlight(i))
  BY CountsOfSets, CountsOfParts
<1>d. ASSUME Enrolled(i)' = Enrolled(i), Spending(i)' = Spending(i),
             InFlight(i)' = InFlight(i), invitations'[i] = invitations[i]
      PROVE  Counted(i)'
  BY <1>b, <1>d DEF Counted, Live, Exhausted
<1>1. ASSUME NEW r \in Request, CreateInvitation(r) PROVE Counted(i)'
  <2> PICK j \in Invitation, o \in Tenants, n \in MaxUsesInput, appr \in BOOLEAN, x \in Outcome :
        CreateInvitation(r)!2!(j, o, n, appr, x)
    BY <1>1 DEF CreateInvitation
  <2>1. Enrolled(i)' = Enrolled(i) /\ Spending(i)' = Spending(i) /\ InFlight(i)' = InFlight(i)
    BY <1>1, SetsStay
  <2>2. CASE i # j
    BY <1>b, <1>d, <2>1, <2>2
  <2>3. CASE i = j
    <3>1. Enrolled(i) = {} /\ Spending(i) = {} /\ InFlight(i) = {}
      BY <2>3, UnusedIsEmpty
    <3>2. /\ invitations'[i].state = "live"
          /\ invitations'[i].maxUses = Uses(n)
          /\ invitations'[i].timesUsed = 0
      BY <1>b, <2>3
    <3>3. Uses(n) >= 1
      BY UsesPositive, MaxUsesAssumption
    <3>4. Cardinality(Enrolled(i)) = 0 /\ Cardinality(Spending(i)) = 0
      BY <3>1, FS_EmptySet
    <3>5. QED
      BY <2>1, <3>1, <3>2, <3>3, <3>4 DEF Counted
  <2>4. QED
    BY <2>2, <2>3
<1>2. ASSUME NEW r \in Request, RevokeInvitation(r) PROVE Counted(i)'
  <2> PICK j \in Named, o \in Tenants, x \in Outcome : RevokeInvitation(r)!2!(j, o, x)
    BY <1>2 DEF RevokeInvitation
  <2>1. Enrolled(i)' = Enrolled(i) /\ Spending(i)' = Spending(i) /\ InFlight(i)' = InFlight(i)
    BY <1>2, SetsStay
  <2>2. CASE i # j
    <3>1. invitations'[i] = invitations[i]
      BY <2>2, WithoutType DEF IInv
    <3>2. QED
      BY <1>b, <1>d, <2>1, <3>1
  <2>3. CASE i = j
    <3>0. i # Unknown
      BY NoneAssumption
    <3>1. /\ invitations'[i].state = "deleted"
          /\ invitations'[i].maxUses = invitations[i].maxUses
          /\ invitations[i].state # "unused"
      BY <1>b, <2>3, <3>0, WithoutType DEF IInv, Named
    <3>2. QED
      BY <2>1, <3>1 DEF Counted, Live
  <2>4. QED
    BY <2>2, <2>3
<1>3. ASSUME NEW r \in Request, HandshakeLookup(r) PROVE Counted(i)'
  <2>1. invitations' = invitations
    BY <1>3, SetsOfLookup
  <2>2. PICK k \in Invitation :
           /\ Usable(k)
           /\ InFlight(k)' = InFlight(k) \cup {r}
           /\ \A j \in Invitation : /\ Enrolled(j)' = Enrolled(j)
                                    /\ Spending(j)' = Spending(j)
                                    /\ j # k => InFlight(j)' = InFlight(j)
    BY <1>3, SetsOfLookup
  <2>3. CASE i # k
    BY <1>d, <2>1, <2>2, <2>3
  <2>4. CASE i = k
    <3>1. InFlight(i) \cup {r} \in SUBSET Request
      BY DEF InFlight
    <3>2. /\ Cardinality(InFlight(i) \cup {r}) \in Nat
          /\ Cardinality(InFlight(i) \cup {r}) <= Cardinality(Request)
      BY <3>1, CountsOfParts
    <3>3. /\ Live(i)
          /\ invitations[i].timesUsed < invitations[i].maxUses
          /\ invitations[i].timesUsed = Cardinality(Enrolled(i)) + Cardinality(Spending(i))
      BY <1>b, <2>2, <2>4 DEF Usable, Counted, Exhausted
    <3>4. Cardinality(Enrolled(i)) + Cardinality(InFlight(i) \cup {r})
             <= invitations[i].maxUses + Cardinality(Request) - 1
      BY <1>b, <1>c, <3>2, <3>3
    <3>5. QED
      BY <1>b, <2>1, <2>2, <2>4, <3>4 DEF Counted, Live, Exhausted
  <2>5. QED
    BY <2>3, <2>4
<1>4. ASSUME NEW r \in Request, HandshakeConsume(r) PROVE Counted(i)'
  <2>1. PICK k \in Invitation :
           /\ k = req[r].inv
           /\ r \in InFlight(k) /\ r \notin Spending(k)
           /\ Spending(k)' = Spending(k) \cup {r}
           /\ \A j \in Invitation : /\ Enrolled(j)' = Enrolled(j)
                                    /\ InFlight(j)' = InFlight(j)
                                    /\ j # k => Spending(j)' = Spending(j)
    BY <1>4, SetsOfConsume
  <2>2. invitations' = Consumed(k)
    BY <1>4, <1>b, <2>1 DEF HandshakeConsume
  <2>3. CASE i # k
    <3>1. invitations'[i] = invitations[i]
      BY <1>b, <2>2, <2>3 DEF Consumed
    <3>2. QED
      BY <1>d, <2>1, <2>3, <3>1
  <2>4. CASE i = k
    <3>1. Cardinality(Spending(i) \cup {r}) = Cardinality(Spending(i)) + 1
      BY <1>c, <2>1, <2>4, FS_AddElement
    <3>2. /\ invitations'[i].state = invitations[i].state
          /\ invitations'[i].maxUses = invitations[i].maxUses
          /\ invitations'[i].timesUsed = IF Consumable(i) THEN invitations[i].timesUsed + 1
                                                          ELSE invitations[i].timesUsed
      BY <1>b, <2>2, <2>4 DEF Consumed, InvitationRecord
    <3>3. /\ Enrolled(i)' = Enrolled(i) /\ InFlight(i)' = InFlight(i)
          /\ Cardinality(Spending(i)') = Cardinality(Spending(i)) + 1
      BY <2>1, <2>4, <3>1
    <3>4. /\ invitations[i].timesUsed \in Nat /\ invitations[i].maxUses \in Nat
          /\ backend \in {"memory", "postgres"}
      BY <1>b DEF IInv, TypeOK
    <3>5. Live(i)' <=> Live(i)
      BY <3>2 DEF Live
    <3>6. ASSUME Live(i)
          PROVE  LET spent == Cardinality(Enrolled(i)') + Cardinality(Spending(i)')
                 IN  /\ invitations'[i].timesUsed <= spent
                     /\ backend = "memory" \/ ~Exhausted(i)' =>
                           invitations'[i].timesUsed = spent
      <4>1. /\ invitations[i].timesUsed <= Cardinality(Enrolled(i)) + Cardinality(Spending(i))
            /\ backend = "memory" \/ ~Exhausted(i) =>
                  invitations[i].timesUsed = Cardinality(Enrolled(i)) + Cardinality(Spending(i))
        BY <3>6 DEF Counted
      <4>2. CASE Consumable(i)
        <5>1. backend = "memory" \/ ~Exhausted(i)
          BY <3>4, <4>2 DEF Consumable
        <5>2. QED
          BY <1>c, <3>2, <3>3, <3>4, <4>1, <4>2, <5>1
      <4>3. CASE ~Consumable(i)
        <5>1. backend = "postgres" /\ Exhausted(i)
          BY <3>4, <3>6, <4>3 DEF Consumable
        <5>2. Exhausted(i)'
          BY <3>2, <4>3, <5>1 DEF Exhausted
        <5>3. QED
          BY <1>c, <3>2, <3>3, <3>4, <4>1, <4>3, <5>1, <5>2
      <4>4. QED
        BY <4>2, <4>3
    <3>7. QED
      BY <1>b, <3>2, <3>3, <3>5, <3>6 DEF Counted
  <2>5. QED
    BY <2>3, <2>4
<1>5. ASSUME NEW r \in Request, HandshakeRegister(r) PROVE Counted(i)'
  <2>1. invitations' = invitations
    BY <1>5, SetsOfRegister
  <2>2. PICK k \in Invitation, d \in Device :
           /\ r \in Spending(k) /\ r \in InFlight(k)
           /\ \A j \in Invitation : d \notin Enrolled(j)
           /\ Enrolled(k)' = Enrolled(k) \cup {d}
           /\ Spending(k)' = Spending(k) \ {r}
           /\ InFlight(k)' = InFlight(k) \ {r}
           /\ \A j \in Invitation : j # k => /\ Enrolled(j)' = Enrolled(j)
                                             /\ Spending(j)' = Spending(j)
                                             /\ InFlight(j)' = InFlight(j)
    BY <1>5, SetsOfRegister
  <2>3. CASE i # k
    BY <1>d, <2>1, <2>2, <2>3
  <2>4. CASE i = k
    <3>1. Cardinality(Enrolled(i) \cup {d}) = Cardinality(Enrolled(i)) + 1
      BY <1>c, <2>2, FS_AddElement
    <3>2. Cardinality(Spending(i) \ {r}) = Cardinality(Spending(i)) - 1
      BY <1>c, <2>2, <2>4, FS_RemoveElement
    <3>3. Cardinality(InFlight(i) \ {r}) = Cardinality(InFlight(i)) - 1
      BY <1>c, <2>2, <2>4, FS_RemoveElement
    <3>4. InFlight(i) # {}
      BY <2>2, <2>4
    <3>5. /\ Cardinality(Enrolled(i)') = Cardinality(Enrolled(i)) + 1
          /\ Cardinality(Spending(i)') = Cardinality(Spending(i)) - 1
          /\ Cardinality(InFlight(i)') = Cardinality(InFlight(i)) - 1
      BY <2>2, <2>4, <3>1, <3>2, <3>3
    <3>6. /\ Cardinality(Enrolled(i)') + Cardinality(Spending(i)')
                = Cardinality(Enrolled(i)) + Cardinality(Spending(i))
          /\ Cardinality(Enrolled(i)') + Cardinality(InFlight(i)')
                = Cardinality(Enrolled(i)) + Cardinality(InFlight(i))
      BY <1>c, <3>5
    <3>7. QED
      BY <1>b, <2>1, <3>4, <3>6 DEF Counted, Live, Exhausted
  <2>5. QED
    BY <2>3, <2>4
<1>6. ASSUME NEW r \in Request, ApproveCheck(r) \/ ApproveUpdate(r) \/ RevokeDevice(r)
                                  \/ InsertAuditLog(r)
      PROVE Counted(i)'
  <2>1. invitations' = invitations
    BY <1>6 DEF ApproveCheck, ApproveUpdate, RevokeDevice, InsertAuditLog
  <2>2. QED
    BY <1>6, <1>d, <2>1, SetsStay
<1>7. ASSUME NEW j \in Invitation, Expire(j) PROVE Counted(i)'
  <2>1. /\ invitations'[i].state = invitations[i].state
        /\ invitations'[i].maxUses = invitations[i].maxUses
        /\ invitations'[i].timesUsed = invitations[i].timesUsed
    BY <1>7, <1>b DEF Expire, InvitationRecord
  <2>2. Enrolled(i)' = Enrolled(i) /\ Spending(i)' = Spending(i) /\ InFlight(i)' = InFlight(i)
    BY <1>7, SetsStay
  <2>3. QED
    BY <1>b, <2>1, <2>2 DEF Counted, Live, Exhausted
<1>8. CASE UNCHANGED vars
  BY <1>8, <1>d, SetsStay DEF vars
<1>9. ~Restart /\ \A r \in Request : ~HandshakeNoOrganization(r)
  BY DEF Restart, HandshakeNoOrganization, MayFail
<1>10. QED
  BY <1>1, <1>2, <1>3, <1>4, <1>5, <1>6, <1>7, <1>8, <1>9 DEF Next

\* No call of the service can fail: no database does, or none is used.
CallsSucceed == ~Faults \/ "postgres" \notin Backends

LEMMA NoneFails == ASSUME CallsSucceed PROVE Spec => []~MayFail
<1> DEFINE Fixed == backend \in Backends
<1>1. Init => Fixed
  BY DEF Init
<1>2. Fixed /\ [Next]_vars => Fixed'
  BY DEF Next, vars, CreateInvitation, RevokeInvitation, HandshakeLookup, HandshakeConsume,
         HandshakeRegister, HandshakeNoOrganization, ApproveCheck, ApproveUpdate,
         RevokeDevice, InsertAuditLog, Expire, Restart
<1>3. Fixed => ~MayFail
  BY DEF MayFail, CallsSucceed
<1>4. QED
  BY <1>1, <1>2, <1>3, PTL DEF Spec

\* While calls succeed the counts are right in every state.
LEMMA CountsHold == ASSUME CallsSucceed PROVE Spec => []CountsInv
<1>1. Init => CountsInv
  <2> SUFFICES ASSUME Init, NEW i \in Invitation PROVE Counted(i)
    BY CountedAll
  <2>1. InFlight(i) = {} /\ ~Live(i)
    BY DEF Init, InFlight, Idle, Live
  <2>2. QED
    BY <2>1 DEF Init, Counted
<1>2. IInv /\ ~MayFail /\ CountsInv /\ [Next]_vars => CountsInv'
  BY CountedAll, NextCounted DEF CountsInv, UsesAccounted, Counted
<1>3. QED
  BY <1>1, <1>2, InvariantHolds, NoneFails, PTL DEF Spec

\* While calls succeed, times_used accounts for every enrolled device and every
\* handshake on its way to one (in PostgreSQL as long as it is below the limit).
THEOREM UsesAreAccounted == ASSUME CallsSucceed PROVE Spec => []UsesAccounted
<1>1. CountsInv => UsesAccounted
  BY DEF CountsInv
<1>2. QED
  BY <1>1, CountsHold, PTL
-----------------------------------------------------------------------------
(* Enrollment implements InvitationLimit while calls succeed *)

\* Both modules count with the same operator.
LEMMA SameCardinality == \A S : Limit!Cardinality(S) = Cardinality(S)
  BY DEF Limit!Cardinality, Limit!IsFiniteSet, Cardinality, IsFiniteSet

\* What one step does to an invitation other than those it is about.
LEMMA LimitStutter ==
  ASSUME \A i \in Invitation : /\ invitations'[i].maxUses = invitations[i].maxUses
                               /\ Enrolled(i)' = Enrolled(i)
                               /\ Spent(i)' = Spent(i)
                               /\ InFlight(i)' = InFlight(i) \/ ~Spent(i)
                                    \/ (InFlight(i) # {} /\ InFlight(i)' # {})
  PROVE  UNCHANGED Limit!vars
  BY DEF Limit!vars, Closed

\* Expiring or withdrawing an invitation closes it, or will when the
\* handshakes on it are through.
LEMMA LimitClose ==
  ASSUME IInv, CountsInv, NEW i \in Invitation, invitations[i].state # "unused",
         \A j \in Invitation : /\ invitations'[j].maxUses = invitations[j].maxUses
                               /\ Enrolled(j)' = Enrolled(j)
                               /\ InFlight(j)' = InFlight(j)
                               /\ j # i => Spent(j)' = Spent(j),
         Spent(i)'
  PROVE  [Limit!Next]_(Limit!vars)
<1>1. UNCHANGED <<[j \in Invitation |-> invitations[j].maxUses],
                  [j \in Invitation |-> Enrolled(j)]>>
  OBVIOUS
<1>2. CASE InFlight(i) = {}
  <2>1. Closed' = Closed \cup {i}
    BY <1>2 DEF Closed
  <2>2. [j \in Invitation |-> invitations[j].maxUses][i] > 0
    BY DEF CountsInv, IInv, TypeOK, InvitationRecord
  <2>3. Limit!Close(i)
    BY <1>1, <2>1, <2>2 DEF Limit!Close
  <2>4. QED
    BY <2>3 DEF Limit!Next
<1>3. CASE InFlight(i) # {}
  <2>1. Closed' = Closed
    BY <1>3 DEF Closed
  <2>2. QED
    BY <1>1, <2>1 DEF Limit!vars
<1>4. QED
  BY <1>2, <1>3

LEMMA LimitNext ==
  ASSUME ~MayFail, IInv, CountsInv, [Next]_vars
  PROVE  [Limit!Next]_(Limit!vars)
<1>b. /\ \A j \in Invitation : /\ invitations[j].timesUsed \in Nat
                               /\ invitations[j].maxUses \in Nat
                               /\ invitations[j].state \in InvitationState
      /\ invitations \in [Invitation -> InvitationRecord]
      /\ req \in [Request -> RequestState]
      /\ \A x \in Outcome : x.applied /\ x.ok
  BY DEF IInv, TypeOK, InvitationRecord, Outcome, MayFail
<1>1. ASSUME NEW r \in Request, CreateInvitation(r) PROVE [Limit!Next]_(Limit!vars)
  <2> PICK i \in Invitation, o \in Tenants, n \in MaxUsesInput, appr \in BOOLEAN, x \in Outcome :
        CreateInvitation(r)!2!(i, o, n, appr, x)
    BY <1>1 DEF CreateInvitation
  <2>1. Uses(n) \in Nat \ {0}
    BY UsesPositive, MaxUsesAssumption
  <2>2. \A j \in Invitation : Enrolled(j)' = Enrolled(j) /\ InFlight(j)' = InFlight(j)
    BY <1>1, SetsStay
  <2>3. /\ invitations[i].maxUses = 0 /\ ~Spent(i)
        /\ \A j \in Invitation : j # i => invitations'[j] = invitations[j]
        /\ invitations'[i].maxUses = Uses(n) /\ invitations'[i].timesUsed = 0
        /\ invitations'[i].state = "live" /\ ~invitations'[i].expired
    BY <1>b DEF CountsInv, Spent
  <2>4. ~Spent(i)' /\ \A j \in Invitation : j # i => Spent(j)' = Spent(j)
    BY <2>1, <2>3 DEF Spent, Exhausted
  <2>5. Closed' = Closed
    BY <2>2, <2>3, <2>4 DEF Closed
  <2>6. [j \in Invitation |-> invitations[j].maxUses]'
           = [[j \in Invitation |-> invitations[j].maxUses] EXCEPT ![i] = Uses(n)]
    <3>1. \A j \in Invitation : invitations'[j].maxUses =
                                   IF j = i THEN Uses(n) ELSE invitations[j].maxUses
      BY <2>3
    <3>2. [j \in Invitation |-> invitations'[j].maxUses]
             = [j \in Invitation |-> IF j = i THEN Uses(n) ELSE invitations[j].maxUses]
      BY <3>1
    <3>3. QED
      BY <3>2
  <2>7. Limit!Issue(i)
    BY <2>1, <2>2, <2>3, <2>5, <2>6 DEF Limit!Issue
  <2>8. QED
    BY <2>7 DEF Limit!Next
<1>2. ASSUME NEW r \in Request, RevokeInvitation(r) PROVE [Limit!Next]_(Limit!vars)
  <2> PICK i \in Named, o \in Tenants, x \in Outcome : RevokeInvitation(r)!2!(i, o, x)
    BY <1>2 DEF RevokeInvitation
  <2>1. \A j \in Invitation : Enrolled(j)' = Enrolled(j) /\ InFlight(j)' = InFlight(j)
    BY <1>2, SetsStay
  <2>2. \A j \in Invitation : /\ invitations'[j].maxUses = invitations[j].maxUses
                              /\ j # i => invitations'[j] = invitations[j]
    BY <1>b, WithoutType DEF IInv
  <2>3. \A j \in Invitation : j # i => Spent(j)' = Spent(j)
    BY <2>2 DEF Spent, Exhausted
  <2>4. CASE i = Unknown
    <3>1. \A j \in Invitation : Spent(j)' = Spent(j)
      BY <2>3, <2>4, NoneAssumption
    <3>2. QED
      BY <2>1, <2>2, <3>1, LimitStutter
  <2>5. CASE i # Unknown
    <3>1. i \in Invitation /\ invitations[i].state # "unused"
      BY <2>5 DEF Named
    <3>2. Spent(i)'
      BY <1>b, <2>5, WithoutType DEF IInv, Spent
    <3>3. QED
      BY <2>1, <2>2, <2>3, <3>1, <3>2, LimitClose
  <2>6. QED
    BY <2>4, <2>5
<1>3. ASSUME NEW r \in Request, HandshakeLookup(r) PROVE [Limit!Next]_(Limit!vars)
  <2>1. invitations' = invitations
    BY <1>3, SetsOfLookup
  <2>2. PICK k \in Invitation :
           /\ Usable(k)
           /\ InFlight(k)' = InFlight(k) \cup {r}
           /\ \A j \in Invitation : /\ Enrolled(j)' = Enrolled(j)
                                    /\ Spending(j)' = Spending(j)
                                    /\ j # k => InFlight(j)' = InFlight(j)
    BY <1>3, SetsOfLookup
  <2>3. ~Spent(k)
    BY <2>2 DEF Usable, Live, Spent
  <2>4. \A j \in Invitation : Spent(j)' = Spent(j)
    BY <2>1 DEF Spent, Exhausted
  <2>5. QED
    BY <2>1, <2>2, <2>3, <2>4, LimitStutter
<1>4. ASSUME NEW r \in Request, HandshakeConsume(r) PROVE [Limit!Next]_(Limit!vars)
  <2>1. PICK k \in Invitation :
           /\ k = req[r].inv
           /\ r \in InFlight(k)
           /\ \A j \in Invitation : Enrolled(j)' = Enrolled(j) /\ InFlight(j)' = InFlight(j)
    BY <1>4, SetsOfConsume
  <2>2. invitations' = Consumed(k)
    BY <1>4, <1>b, <2>1 DEF HandshakeConsume
  <2>3. \A j \in Invitation : /\ j # k => invitations'[j] = invitations[j]
                              /\ invitations'[j].maxUses = invitations[j].maxUses
    BY <1>b, <2>2 DEF Consumed, InvitationRecord
  <2>4. \A j \in Invitation : j # k => Spent(j)' = Spent(j)
    BY <2>3 DEF Spent, Exhausted
  <2>5. InFlight(k) # {}
    BY <2>1
  <2>6. Closed' = Closed
    BY <2>1, <2>4, <2>5 DEF Closed
  <2>7. QED
    BY <2>1, <2>3, <2>6 DEF Limit!vars
<1>5. ASSUME NEW r \in Request, HandshakeRegister(r) PROVE [Limit!Next]_(Limit!vars)
  <2>1. invitations' = invitations
    BY <1>5, SetsOfRegister
  <2>2. PICK i \in Invitation, d \in Device :
           /\ r \in InFlight(i)
           /\ \A j \in Invitation : d \notin Enrolled(j)
           /\ Enrolled(i)' = Enrolled(i) \cup {d}
           /\ InFlight(i)' = InFlight(i) \ {r}
           /\ \A j \in Invitation : j # i => /\ Enrolled(j)' = Enrolled(j)
                                             /\ InFlight(j)' = InFlight(j)
    BY <1>5, SetsOfRegister
  <2>3. \A j \in Invitation : Spent(j)' = Spent(j)
    BY <2>1 DEF Spent, Exhausted
  <2>4. i \notin Closed /\ Closed' \in {Closed, Closed \cup {i}}
    BY <2>2, <2>3 DEF Closed
  <2>5. /\ Cardinality(Enrolled(i)) < invitations[i].maxUses + (Cardinality(Request) - 1)
        /\ invitations[i].maxUses > 0
    <3>1. /\ Cardinality(Enrolled(i)) \in Nat /\ Cardinality(InFlight(i)) \in Nat
          /\ IsFiniteSet(InFlight(i)) /\ Cardinality(Request) \in Nat
      BY CountsOfSets, CountsOfParts
    <3>2. InFlight(i) # {}
      BY <2>2
    <3>3. Cardinality(InFlight(i)) # 0
      BY <3>1, <3>2, FS_EmptySet
    <3>4. invitations[i].state # "unused"
      BY <3>2, UnusedIsEmpty
    <3>5. QED
      BY <1>b, <3>1, <3>2, <3>3, <3>4 DEF CountsInv
  <2>6. [j \in Invitation |-> Enrolled(j)]'
           = [[j \in Invitation |-> Enrolled(j)] EXCEPT ![i] = @ \cup {d}]
    BY <2>2
  <2>7. Limit!Admit(i, d)
    BY <2>1, <2>2, <2>4, <2>5, <2>6, SameCardinality DEF Limit!Admit
  <2>8. QED
    BY <2>7 DEF Limit!Next
<1>6. ASSUME \/ \E r \in Request : \/ ApproveCheck(r) \/ ApproveUpdate(r) \/ RevokeDevice(r)
                                   \/ InsertAuditLog(r)
             \/ UNCHANGED vars
      PROVE [Limit!Next]_(Limit!vars)
  <2>1. invitations' = invitations
    BY <1>6 DEF vars, ApproveCheck, ApproveUpdate, RevokeDevice, InsertAuditLog
  <2>2. \A j \in Invitation : Enrolled(j)' = Enrolled(j) /\ InFlight(j)' = InFlight(j)
    BY <1>6, SetsStay
  <2>3. \A j \in Invitation : Spent(j)' = Spent(j)
    BY <2>1 DEF Spent, Exhausted
  <2>4. QED
    BY <2>1, <2>2, <2>3, LimitStutter
<1>7. ASSUME NEW i \in Invitation, Expire(i) PROVE [Limit!Next]_(Limit!vars)
  <2>1. \A j \in Invitation : Enrolled(j)' = Enrolled(j) /\ InFlight(j)' = InFlight(j)
    BY <1>7, SetsStay
  <2>2. /\ \A j \in Invitation : /\ invitations'[j].maxUses = invitations[j].maxUses
                                 /\ j # i => invitations'[j] = invitations[j]
        /\ invitations[i].state = "live" /\ invitations'[i].state = "live"
        /\ invitations'[i].expired
    BY <1>7, <1>b DEF Expire, Live, InvitationRecord
  <2>3. Spent(i)' /\ \A j \in Invitation : j # i => Spent(j)' = Spent(j)
    BY <2>2 DEF Spent, Exhausted
  <2>4. QED
    BY <2>1, <2>2, <2>3, LimitClose
<1>8. ~Restart /\ \A r \in Request : ~HandshakeNoOrganization(r)
  BY DEF Restart, HandshakeNoOrganization, MayFail
<1>9. QED
  BY <1>1, <1>2, <1>3, <1>4, <1>5, <1>6, <1>7, <1>8 DEF Next

\* While calls succeed, an invitation admits at most one device per other
\* request beyond its limit, each device once, and none after it closed.
THEOREM LimitImplemented == ASSUME CallsSucceed PROVE Spec => ImplementsLimit
<1>1. Init => Limit!Init
  BY NoneAssumption DEF Init, Limit!Init, Closed, Spent, Enrolled, Idle
<1>2. IInv /\ ~MayFail /\ CountsInv /\ [Next]_vars => [Limit!Next]_(Limit!vars)
  BY LimitNext
<1>3. QED
  BY <1>1, <1>2, InvariantHolds, NoneFails, CountsHold, PTL DEF Spec, ImplementsLimit, Limit!Spec
=============================================================================
