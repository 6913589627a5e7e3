------------------------ MODULE EnrollmentRefinement ------------------------
(***************************************************************************)
(* Enrollment implements the two specifications of what it promises.       *)
(***************************************************************************)
EXTENDS Enrollment

\* An approval is admitted between the check and the update of ApproveDevice.
Lifecycle == INSTANCE DeviceLifecycle
                WITH approvals <- {d \in Device : Approving(d) # {}}

\* Devices change status only as DeviceLifecycle allows, with the overlaps,
\* failures and restarts of the service.
ImplementsLifecycle == Lifecycle!Spec

\* An invitation is closed when it can no longer be used and no handshake that
\* passed the lookup is left.
Closed == {i \in Invitation : Spent(i) /\ InFlight(i) = {}}

Limit == INSTANCE InvitationLimit
            WITH limit <- [i \in Invitation |-> invitations[i].maxUses],
                 admitted <- [i \in Invitation |-> Enrolled(i)],
                 closed <- Closed,
                 Slack <- Cardinality(Request) - 1

\* While calls succeed, an invitation admits devices only as InvitationLimit
\* allows with a slack of one device per other request running.
ImplementsLimit == Limit!Spec
=============================================================================
