-------------------------- MODULE DeviceLifecycle --------------------------
(***************************************************************************)
(* What the API service promises about the status of a device, whatever    *)
(* requests overlap: a device enrolls once, PENDING or ACTIVE; an approval *)
(* is admitted only while the device is PENDING and may take effect at any *)
(* later time, once admitted; a revocation takes effect at once, and is    *)
(* undone only by an approval admitted before it.                          *)
(***************************************************************************)
CONSTANT Device

VARIABLES
    status,     \* the status of each device
    approvals   \* devices with an approval admitted and not yet settled

vars == <<status, approvals>>

Init ==
    /\ status = [d \in Device |-> "NONE"]
    /\ approvals = {}

Enroll(d) ==
    /\ status[d] = "NONE"
    /\ \E s \in {"PENDING", "ACTIVE"} : status' = [status EXCEPT ![d] = s]
    /\ UNCHANGED approvals

AdmitApproval(d) ==
    /\ status[d] = "PENDING"
    /\ approvals' = approvals \cup {d}
    /\ UNCHANGED status

\* Several approvals of one device may be under way: the last one settles it.
Approve(d) ==
    /\ d \in approvals
    /\ status' = [status EXCEPT ![d] = "ACTIVE"]
    /\ approvals' \in {approvals, approvals \ {d}}

\* Approvals under way fail, or die with the process that ran them.
Abandon ==
    /\ \E lost \in SUBSET approvals : approvals' = approvals \ lost
    /\ UNCHANGED status

Revoke(d) ==
    /\ status[d] # "NONE"
    /\ status' = [status EXCEPT ![d] = "REVOKED"]
    /\ UNCHANGED approvals

Next ==
    \/ \E d \in Device : Enroll(d) \/ AdmitApproval(d) \/ Approve(d) \/ Revoke(d)
    \/ Abandon

Spec == Init /\ [][Next]_vars
=============================================================================
