-------------------------------- MODULE Groups --------------------------------
(***************************************************************************)
(* Device groups of the API service: their names, their hierarchy and the  *)
(* devices in them.  Requests are sequences of atomic store calls, as in   *)
(* Enrollment; in PostgreSQL an assignment and a removal are several       *)
(* statements without a transaction.  Descriptions, policies and audit     *)
(* entries, which no property here is about, are not part of the state.    *)
(***************************************************************************)
EXTENDS Integers, FiniteSets

CONSTANTS
    Group,          \* identifiers uuid.New may give to a group
    Name, Blank,    \* names, and the one a request without a name carries
    Device,         \* the enrolled devices
    Org, DemoOrg,   \* organizations; the one NewMemoryStore seeds
    Request,        \* request goroutines that may run at the same time
    Backends,       \* the stores main.go may choose: "memory", "postgres"
    Faults,         \* whether database calls may fail and the API restart
    NoGroup, NoDevice, NoOrg

ASSUME BackendsAssumption == Backends \subseteq {"memory", "postgres"}
ASSUME FaultsAssumption == Faults \in BOOLEAN
ASSUME DemoOrgAssumption == DemoOrg \in Org
ASSUME GroupAssumption == IsFiniteSet(Group) /\ Blank \notin Name
ASSUME NoneAssumption == NoGroup \notin Group /\ NoDevice \notin Device /\ NoOrg \notin Org

VARIABLES
    backend,    \* the store main.go chose, once
    owner,      \* the organization of each device, which never changes
    groups,     \* the rows of device_groups; of a deleted one only that it was
    members,    \* the rows of group_memberships
    req         \* the local state of every request goroutine

vars == <<backend, owner, groups, members, req>>

-----------------------------------------------------------------------------
GroupRecord == [state : {"unused", "live", "deleted"}, org : Org \cup {NoOrg},
                parent : Group \cup {NoGroup}, name : Name \cup {Blank}]

\* todo: the devices still to assign; dev: the one being assigned or removed.
Point == {"idle", "assign", "insert", "delete", "audit"}

RequestState == [at : Point, org : Org \cup {NoOrg}, group : Group \cup {NoGroup},
                 todo : SUBSET Device, dev : Device \cup {NoDevice}]

\* A group without a row: never made, or deleted.
NoRow(s) == [state |-> s, org |-> NoOrg, parent |-> NoGroup, name |-> Blank]

Idle == [at |-> "idle", org |-> NoOrg, group |-> NoGroup, todo |-> {}, dev |-> NoDevice]

\* Before the InsertAuditLog call of a handler.
Audit == [Idle EXCEPT !.at = "audit"]

\* As in Enrollment.
MayFail == Faults /\ backend = "postgres"

Outcome == {x \in [applied : BOOLEAN, ok : BOOLEAN] :
               /\ x.ok => x.applied
               /\ ~MayFail => x.ok}

Tenants == IF backend = "memory" THEN {DemoOrg} ELSE Org

Live(g) == groups[g].state = "live"

\* The groups an administrator has heard of.  No query tells a deleted one from
\* one that never existed, so it stands for that, too.
Known == {g \in Group : groups[g].state # "unused"}

\* The rows the foreign key of parent_group_id lets a group refer to; the
\* MemoryStore keeps whatever the request says.
Parents == {NoGroup} \cup {g \in Known : backend = "postgres" => Live(g)}

\* The constraint uq_group_org_name.
NameFree(g, o, n) ==
    backend = "postgres" =>
       \A h \in Group \ {g} : Live(h) /\ groups[h].org = o => groups[h].name # n

ChildrenOnly(g) == {g} \cup {h \in Group : groups[h].parent = g}

\* A set that holds, with a group, every group below it.
ClosedBelow(S) == \A h \in Group : groups[h].parent \in S => h \in S

\* What ON DELETE CASCADE takes along: the group and the groups below it, the
\* least set that holds the group and those below any of its members.
Subtree(g) == {h \in Group : \A S \in SUBSET Group : g \in S /\ ClosedBelow(S) => h \in S}

\* The MemoryStore deletes one group, whose children keep it as their parent.
Doomed(g) == IF backend = "memory" THEN {g} ELSE Subtree(g)

-----------------------------------------------------------------------------
Init ==
    /\ backend \in Backends
    /\ owner \in [Device -> Tenants]
    /\ groups = [g \in Group |-> NoRow("unused")]
    /\ members = {}
    /\ req = [r \in Request |-> Idle]

(* CreateGroup: the handler refuses a missing name. *)
CreateGroup(r) ==
    /\ req[r].at = "idle"
    /\ \E g \in Group \ Known, o \in Tenants, p \in Parents, n \in Name, x \in Outcome :
          /\ NameFree(g, o, n)
          /\ groups' = IF x.applied
                THEN [groups EXCEPT ![g] = [state |-> "live", org |-> o, parent |-> p, name |-> n]]
                ELSE groups
          /\ req' = IF x.ok THEN [req EXCEPT ![r] = Audit] ELSE req
    /\ UNCHANGED <<backend, owner, members>>

\* The MemoryStore keeps the name when the request carries none, the
\* PostgresStore writes what it is given.
NewName(g, n) == IF n = Blank /\ backend = "memory" THEN groups[g].name ELSE n

(* UpdateGroup *)
UpdateGroup(r) ==
    /\ req[r].at = "idle"
    /\ \E g \in Group, o \in Tenants, n \in Name \cup {Blank}, x \in Outcome :
          /\ Live(g) /\ groups[g].org = o
          /\ NameFree(g, o, NewName(g, n))
          /\ groups' = IF x.applied THEN [groups EXCEPT ![g].name = NewName(g, n)] ELSE groups
          /\ req' = IF x.ok THEN [req EXCEPT ![r] = Audit] ELSE req
    /\ UNCHANGED <<backend, owner, members>>

MembersLeft(gone) == members

\* The memberships that survive the deletion of some groups.
MembersWithout(gone) == {m \in members : m[1] \notin gone}

(* DeleteGroup: the MemoryStore reports success whatever it finds. *)
DeleteGroup(r) ==
    /\ req[r].at = "idle"
    /\ \E g \in Known, o \in Tenants, x \in Outcome :
          /\ backend = "postgres" => Live(g) /\ groups[g].org = o
          /\ groups' = IF x.applied
                THEN [h \in Group |-> IF h \in Doomed(g) THEN NoRow("deleted") ELSE groups[h]]
                ELSE groups
          /\ members' = IF x.applied THEN MembersWithout(Doomed(g)) ELSE members
          /\ req' = IF x.ok THEN [req EXCEPT ![r] = Audit] ELSE req
    /\ UNCHANGED <<backend, owner>>

(* AssignDevices: the group and the devices are whatever the request says. *)
AssignDevices(r) ==
    /\ req[r].at = "idle"
    /\ \E g \in Known, o \in Tenants, ds \in (SUBSET Device) \ {{}} :
          req' = [req EXCEPT ![r] = [Idle EXCEPT !.at = "assign", !.org = o, !.group = g,
                                                 !.todo = ds]]
    /\ UNCHANGED <<backend, owner, groups, members>>

ContinueAlways(q) == [q EXCEPT !.at = "assign", !.dev = NoDevice]

\* The loop goes on with the devices left, or ends.
Continue(q) == IF q.todo = {} THEN Audit ELSE [q EXCEPT !.at = "assign", !.dev = NoDevice]

AssignableUnchecked(q, d) == Live(q.group)

\* What AssignDeviceToGroup checks before it links device d.
Assignable(q, d) ==
    /\ Live(q.group)
    /\ backend = "postgres" => groups[q.group].org = q.org /\ owner[d] = q.org

(* One round of the loop.  The MemoryStore checks and links under its lock;
   the PostgresStore only checks here.  An error is discarded. *)
AssignDevice(r) ==
    /\ req[r].at = "assign"
    /\ \E d \in req[r].todo, x \in Outcome :
          LET left == [req[r] EXCEPT !.todo = @ \ {d}]
              found == Assignable(req[r], d) /\ x.ok
          IN  /\ members' = IF found /\ backend = "memory"
                               THEN members \cup {<<req[r].group, d>>} ELSE members
              /\ req' = [req EXCEPT ![r] =
                    IF found /\ backend = "postgres"
                    THEN [left EXCEPT !.at = "insert", !.dev = d] ELSE Continue(left)]
    /\ UNCHANGED <<backend, owner, groups>>

LinkableAlways(g) == TRUE

\* The foreign key of group_memberships.
Linkable(g) == Live(g)

(* The INSERT of the PostgresStore. *)
AssignInsert(r) ==
    /\ req[r].at = "insert"
    /\ \E x \in Outcome :
          members' = IF Linkable(req[r].group) /\ x.applied
                       THEN members \cup {<<req[r].group, req[r].dev>>} ELSE members
    /\ req' = [req EXCEPT ![r] = Continue(@)]
    /\ UNCHANGED <<backend, owner, groups>>

(* RemoveDevice: the MemoryStore removes the link if there is one; the
   PostgresStore finds the group first. *)
RemoveDevice(r) ==
    /\ req[r].at = "idle"
    /\ \E g \in Known, o \in Tenants, d \in Device :
          \/ /\ backend = "memory"
             /\ members' = members \ {<<g, d>>}
             /\ req' = [req EXCEPT ![r] = Audit]
          \/ /\ backend = "postgres"
             /\ Live(g) /\ groups[g].org = o
             /\ req' = [req EXCEPT ![r] = [Idle EXCEPT !.at = "delete", !.org = o, !.group = g,
                                                       !.dev = d]]
             /\ members' = members
    /\ UNCHANGED <<backend, owner, groups>>

RemoveDelete(r) ==
    /\ req[r].at = "delete"
    /\ \E x \in Outcome :
          /\ members' = IF x.applied THEN members \ {<<req[r].group, req[r].dev>>} ELSE members
          /\ req' = [req EXCEPT ![r] = IF x.ok THEN Audit ELSE Idle]
    /\ UNCHANGED <<backend, owner, groups>>

(* InsertAuditLog, its error discarded, and the answer. *)
Answer(r) ==
    /\ req[r].at = "audit"
    /\ req' = [req EXCEPT ![r] = Idle]
    /\ UNCHANGED <<backend, owner, groups, members>>

Restart ==
    /\ MayFail
    /\ \E r \in Request : req[r].at # "idle"
    /\ req' = [r \in Request |-> Idle]
    /\ UNCHANGED <<backend, owner, groups, members>>

Next ==
    \/ \E r \in Request :
          \/ CreateGroup(r) \/ UpdateGroup(r) \/ DeleteGroup(r)
          \/ AssignDevices(r) \/ AssignDevice(r) \/ AssignInsert(r)
          \/ RemoveDevice(r) \/ RemoveDelete(r) \/ Answer(r)
    \/ Restart

Spec == Init /\ [][Next]_vars

-----------------------------------------------------------------------------
(* Properties *)

\* Every variable keeps its shape, a stored group has an organization, and the
\* loop of an assignment has devices left.
TypeOK ==
    /\ backend \in {"memory", "postgres"}
    /\ owner \in [Device -> Org]
    /\ groups \in [Group -> GroupRecord]
    /\ \A g \in Group : Live(g) => groups[g].org \in Org
    /\ members \subseteq Group \X Device
    /\ req \in [Request -> RequestState]
    /\ \A r \in Request : req[r].at = "assign" => req[r].todo # {}

\* Deleting a group unassigns its devices, and those of the groups deleted with
\* it, for good: an assignment that checked the group before does not link one
\* to it afterwards.
MembersExist == \A m \in members : Live(m[1])

\* A group holds devices of its own organization only, though the check is not
\* one step with the link.
MembersWithinOrg == \A m \in members : owner[m[2]] = groups[m[1]].org

\* In PostgreSQL no group is left under a deleted one, however deep the
\* hierarchy is and whatever is created while it is taken down.
ParentsExist ==
    backend = "postgres" =>
       \A g \in Group : Live(g) /\ groups[g].parent # NoGroup => Live(groups[g].parent)
=============================================================================
