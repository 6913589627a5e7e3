-------------------------- MODULE InvitationLimit --------------------------
(***************************************************************************)
(* What an enrollment invitation promises: it admits each device at most   *)
(* once, at most Slack devices beyond its limit, and none after it closed  *)
(* for good.  Slack = 0 is the limit the documentation describes; the      *)
(* service keeps it with the number of other requests running at a time.   *)
(***************************************************************************)
EXTENDS Integers, FiniteSets

CONSTANTS Invitation, Device, Slack

VARIABLES
    limit,      \* the number of uses granted, 0 before the invitation exists
    admitted,   \* the devices each invitation admitted
    closed      \* invitations that admit no device any more

vars == <<limit, admitted, closed>>

Init ==
    /\ limit = [i \in Invitation |-> 0]
    /\ admitted = [i \in Invitation |-> {}]
    /\ closed = {}

Issue(i) ==
    /\ limit[i] = 0
    /\ limit'[i] \in Nat \ {0}
    /\ limit' = [limit EXCEPT ![i] = limit'[i]]
    /\ UNCHANGED <<admitted, closed>>

\* Admitting the last device may close the invitation in the same step.
Admit(i, d) ==
    /\ limit[i] > 0 /\ i \notin closed
    /\ \A j \in Invitation : d \notin admitted[j]
    /\ Cardinality(admitted[i]) < limit[i] + Slack
    /\ admitted' = [admitted EXCEPT ![i] = @ \cup {d}]
    /\ closed' \in {closed, closed \cup {i}}
    /\ UNCHANGED limit

\* Expiry, withdrawal or exhaustion.
Close(i) ==
    /\ limit[i] > 0
    /\ closed' = closed \cup {i}
    /\ UNCHANGED <<limit, admitted>>

Next ==
    \E i \in Invitation : Issue(i) \/ (\E d \in Device : Admit(i, d)) \/ Close(i)

Spec == Init /\ [][Next]_vars
=============================================================================
