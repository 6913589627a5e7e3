----------------------------- MODULE GroupsProofs -----------------------------
(***************************************************************************)
(* Proofs about Groups for every set of groups, devices, organizations and *)
(* requests, either store and every pattern of failures.                   *)
(***************************************************************************)
EXTENDS Groups, TLAPS

-----------------------------------------------------------------------------
(* The inductive invariant *)

\* What a request whose record is q holds between two calls: an assignment is to
\* a group that was created, has a device left for its next round, and inserts
\* only a device of the organization the group has, if it still has one.
RequestSound(q) ==
    /\ q.at = "assign" => q.todo # {}
    /\ q.at \in {"assign", "insert"} => q.group \in Known
    /\ q.at = "insert" =>
         /\ q.dev \in Device
         /\ Live(q.group) => groups[q.group].org = owner[q.dev]

RequestsSound == \A r \in Request : RequestSound(req[r])

\* The MemoryStore serves one organization, and checks no other.
MemoryServesOne ==
    backend = "memory" => /\ \A d \in Device : owner[d] = DemoOrg
                          /\ \A g \in Group : Live(g) => groups[g].org = DemoOrg

RowsSound == MembersExist /\ MembersWithinOrg /\ ParentsExist /\ MemoryServesOne

IInv == TypeOK /\ RowsSound /\ RequestsSound

-----------------------------------------------------------------------------
(* Operators *)

LEMMA IdleRecord == Idle \in RequestState /\ Idle.at = "idle"
  BY DEF Idle, RequestState, Point

LEMMA AuditRecord == Audit \in RequestState /\ Audit.at = "audit"
  BY DEF Audit, Idle, RequestState, Point

LEMMA NoRowRecord ==
  ASSUME NEW s \in {"unused", "deleted"}
  PROVE  NoRow(s) \in GroupRecord /\ NoRow(s).state = s
  BY DEF NoRow, GroupRecord

\* A cascade takes the group itself and, with a group, the groups below it.
LEMMA SubtreeClosed ==
  ASSUME NEW g \in Group
  PROVE  /\ g \in Subtree(g)
         /\ \A h \in Group : groups[h].parent \in Subtree(g) => h \in Subtree(g)
  BY DEF Subtree, ClosedBelow

\* The group itself goes in either store.
LEMMA DoomedHolds ==
  ASSUME NEW g \in Group
  PROVE  g \in Doomed(g)
  BY SubtreeClosed DEF Doomed

\* The loop of an assignment goes on with devices left, or ends in the answer.
LEMMA ContinueRecord ==
  ASSUME NEW q \in RequestState, q.at \in {"assign", "insert"}
  PROVE  /\ Continue(q) \in RequestState
         /\ Continue(q).at \in {"assign", "audit"}
         /\ Continue(q).at = "assign" => Continue(q).todo # {} /\ Continue(q).group = q.group
<1>1. CASE q.todo = {}
  BY <1>1, AuditRecord DEF Continue
<1>2. CASE q.todo # {}
  <2> DEFINE e == [q EXCEPT !.at = "assign", !.dev = NoDevice]
  <2>1. e \in RequestState /\ e.at = "assign" /\ e.todo = q.todo /\ e.group = q.group
    BY DEF RequestState, Point
  <2>2. Continue(q) = e
    BY <1>2 DEF Continue
  <2> HIDE DEF e
  <2>3. QED
    BY <1>2, <2>1, <2>2
<1>3. QED
  BY <1>1, <1>2

-----------------------------------------------------------------------------
(* What one step leaves alone *)

\* A group that was created never gets another row: it keeps its organization
\* until it is deleted, and stays deleted.
LEMMA GroupsStay ==
  ASSUME IInv, [Next]_vars
  PROVE  /\ backend' = backend /\ owner' = owner
         /\ \A g \in Known : /\ groups'[g].state # "unused"
                             /\ groups'[g].state = "live" =>
                                  Live(g) /\ groups'[g].org = groups[g].org
<1> DEFINE Kept == \A g \in Known : /\ groups'[g].state # "unused"
                                    /\ groups'[g].state = "live" =>
                                         Live(g) /\ groups'[g].org = groups[g].org
<1> USE DEF Known, Live
<1>1. backend' = backend /\ owner' = owner
  BY DEF Next, vars, CreateGroup, UpdateGroup, DeleteGroup, AssignDevices, AssignDevice,
         AssignInsert, RemoveDevice, RemoveDelete, Answer, Restart
<1>2. ASSUME NEW r \in Request, CreateGroup(r) PROVE Kept
  BY <1>2 DEF CreateGroup, IInv, TypeOK
<1>3. ASSUME NEW r \in Request, UpdateGroup(r) PROVE Kept
  BY <1>3 DEF UpdateGroup, IInv, TypeOK, GroupRecord
<1>4. ASSUME NEW r \in Request, DeleteGroup(r) PROVE Kept
  <2> PICK g \in Known, x \in Outcome :
         groups' = IF x.applied
                THEN [h \in Group |-> IF h \in Doomed(g) THEN NoRow("deleted") ELSE groups[h]]
                ELSE groups
    BY <1>4 DEF DeleteGroup
  <2>1. \A h \in Group : groups'[h] = groups[h] \/ groups'[h] = NoRow("deleted")
    OBVIOUS
  <2>2. QED
    BY <2>1, NoRowRecord
<1>5. ASSUME groups' = groups PROVE Kept
  BY <1>5
<1> HIDE DEF Kept
<1>6. Kept
  BY <1>2, <1>3, <1>4, <1>5
     DEF Next, vars, AssignDevices, AssignDevice, AssignInsert, RemoveDevice, RemoveDelete,
         Answer, Restart
<1>7. QED
  BY <1>1, <1>6 DEF Kept

\* What a request holds stays sound whatever the step does to the groups.
LEMMA SoundStays ==
  ASSUME IInv, [Next]_vars, NEW q \in RequestState, RequestSound(q)
  PROVE  RequestSound(q)'
<1>1. q.group \in Known => q.group \in Known'
  BY GroupsStay DEF Known
<1>2. q.at = "insert" => /\ q.group \in Known /\ q.dev \in Device
                         /\ Live(q.group) => groups[q.group].org = owner[q.dev]
  BY DEF RequestSound
<1>3. q.at = "insert" =>
         (groups'[q.group].state = "live" => groups'[q.group].org = owner'[q.dev])
  BY <1>2, GroupsStay
<1>4. QED
  BY <1>1, <1>2, <1>3 DEF RequestSound, Live

\* It is enough to look at the request that moves.
LEMMA OneMoves ==
  ASSUME IInv, [Next]_vars, NEW r \in Request, NEW p \in RequestState,
         req' = [req EXCEPT ![r] = p], RequestSound(p)'
  PROVE  req' \in [Request -> RequestState] /\ RequestsSound'
<1>1. req' \in [Request -> RequestState] /\ req'[r] = p
      /\ \A s \in Request : s # r => req'[s] = req[s]
  BY DEF IInv, TypeOK
<1>2. ASSUME NEW s \in Request PROVE RequestSound(req[s])'
  <2>1. CASE s = r
    BY <1>1, <2>1 DEF RequestSound
  <2>2. CASE s # r
    <3> PICK q \in RequestState : q = req[s]
      BY DEF IInv, TypeOK
    <3>1. RequestSound(q)'
      BY SoundStays DEF IInv, RequestsSound
    <3>2. QED
      BY <1>1, <2>2, <3>1 DEF RequestSound
  <2>3. QED
    BY <2>1, <2>2
<1>3. QED
  BY <1>1, <1>2 DEF RequestsSound, RequestSound

\* A step that takes one request to its answer, or to nothing, or none at all.
LEMMA SettlesOne ==
  ASSUME IInv, [Next]_vars, NEW r \in Request,
         \/ req' = req
         \/ \E p \in RequestState : /\ p.at \in {"idle", "audit", "delete"}
                                    /\ req' = [req EXCEPT ![r] = p]
  PROVE  req' \in [Request -> RequestState] /\ RequestsSound'
<1>1. CASE req' = req
  <2> PICK p \in RequestState : p = req[r]
    BY DEF IInv, TypeOK
  <2>1. req' = [req EXCEPT ![r] = p]
    BY <1>1 DEF IInv, TypeOK
  <2>2. RequestSound(p)'
    BY SoundStays DEF IInv, RequestsSound
  <2>3. QED
    BY <2>1, <2>2, OneMoves
<1>2. ASSUME NEW p \in RequestState, p.at \in {"idle", "audit", "delete"},
             req' = [req EXCEPT ![r] = p]
      PROVE  req' \in [Request -> RequestState] /\ RequestsSound'
  <2>1. RequestSound(p)'
    BY <1>2 DEF RequestSound
  <2>2. QED
    BY <1>2, <2>1, OneMoves
<1>3. QED
  BY <1>1, <1>2

\* All but the requests is as it was.
LEMMA RowsStay ==
  ASSUME IInv, UNCHANGED <<backend, owner, groups, members>>, RequestsSound',
         req' \in [Request -> RequestState]
  PROVE  IInv'
<1>1. TypeOK'
  BY DEF IInv, TypeOK, RequestsSound, RequestSound, Live
<1>2. RowsSound'
  BY DEF IInv, RowsSound, MembersExist, MembersWithinOrg, ParentsExist, MemoryServesOne, Live
<1>3. QED
  BY <1>1, <1>2 DEF IInv

\* A link of a group to a device of its organization, or none.
LEMMA LinkKept ==
  ASSUME IInv, UNCHANGED <<backend, owner, groups>>, RequestsSound',
         req' \in [Request -> RequestState],
         members' \subseteq members \/
           \E g \in Group, d \in Device :
              /\ members' = members \cup {<<g, d>>}
              /\ Live(g) /\ groups[g].org = owner[d]
  PROVE  IInv'
<1>1. TypeOK'
  BY DEF IInv, TypeOK, RequestsSound, RequestSound, Live
<1>2. MembersExist' /\ MembersWithinOrg'
  <2>1. CASE members' \subseteq members
    BY <2>1 DEF IInv, RowsSound, MembersExist, MembersWithinOrg, Live
  <2>2. ASSUME NEW g \in Group, NEW d \in Device, members' = members \cup {<<g, d>>},
               Live(g), groups[g].org = owner[d]
        PROVE  MembersExist' /\ MembersWithinOrg'
    BY <2>2 DEF IInv, RowsSound, MembersExist, MembersWithinOrg, Live
  <2>3. QED
    BY <2>1, <2>2
<1>3. ParentsExist' /\ MemoryServesOne'
  BY DEF IInv, RowsSound, ParentsExist, MemoryServesOne, Live
<1>4. QED
  BY <1>1, <1>2, <1>3 DEF IInv, RowsSound
-----------------------------------------------------------------------------
(* The invariant holds initially and every action preserves it *)

LEMMA InitIInv == Init => IInv
<1> SUFFICES ASSUME Init PROVE IInv
  OBVIOUS
<1>1. backend \in {"memory", "postgres"} /\ owner \in [Device -> Tenants]
  BY BackendsAssumption DEF Init
<1>2. Tenants \subseteq Org /\ (backend = "memory" => Tenants = {DemoOrg})
  BY DemoOrgAssumption DEF Tenants
<1>3. groups \in [Group -> GroupRecord] /\ \A g \in Group : ~Live(g)
  BY NoRowRecord DEF Init, Live
<1>4. members = {} /\ req \in [Request -> RequestState]
      /\ \A r \in Request : req[r] = Idle
  BY IdleRecord DEF Init
<1>5. TypeOK
  BY <1>1, <1>2, <1>3, <1>4, IdleRecord DEF TypeOK
<1>6. RowsSound
  BY <1>1, <1>2, <1>3, <1>4
     DEF RowsSound, MembersExist, MembersWithinOrg, ParentsExist, MemoryServesOne
<1>7. RequestsSound
  BY <1>4, IdleRecord DEF RequestsSound, RequestSound
<1>8. QED
  BY <1>5, <1>6, <1>7 DEF IInv

LEMMA CreateGroupKeeps ==
  ASSUME IInv, [Next]_vars, NEW r \in Request, CreateGroup(r)
  PROVE  IInv'
<1> PICK g \in Group \ Known, o \in Tenants, p \in Parents, n \in Name, x \in Outcome :
       /\ groups' = IF x.applied
             THEN [groups EXCEPT ![g] = [state |-> "live", org |-> o, parent |-> p, name |-> n]]
             ELSE groups
       /\ req' = IF x.ok THEN [req EXCEPT ![r] = Audit] ELSE req
  BY DEF CreateGroup
<1>1. UNCHANGED <<backend, owner, members>>
  BY DEF CreateGroup
<1>2. req' \in [Request -> RequestState] /\ RequestsSound'
  BY AuditRecord, SettlesOne DEF CreateGroup
<1>3. CASE groups' = groups
  BY <1>1, <1>2, <1>3, RowsStay
<1>4. CASE groups' # groups
  <2>1. ~Live(g) /\ g \in Group
    BY DEF Known, Live
  <2>2. /\ o \in Org /\ (backend = "memory" => o = DemoOrg)
        /\ p \in Group \cup {NoGroup}
        /\ backend = "postgres" /\ p # NoGroup => Live(p)
    BY DemoOrgAssumption DEF Tenants, Parents, Known
  <2>3. /\ groups' \in [Group -> GroupRecord]
        /\ groups'[g].state = "live" /\ groups'[g].org = o /\ groups'[g].parent = p
        /\ \A h \in Group : h # g => groups'[h] = groups[h]
    BY <1>4, <2>1, <2>2 DEF IInv, TypeOK, GroupRecord
  <2>4. TypeOK'
    BY <1>1, <1>2, <2>2, <2>3 DEF IInv, TypeOK, RequestsSound, RequestSound, Live
  <2>5. MembersExist' /\ MembersWithinOrg'
    BY <1>1, <2>1, <2>3 DEF IInv, TypeOK, RowsSound, MembersExist, MembersWithinOrg, Live
  <2>6. ParentsExist'
    BY <1>1, <2>1, <2>2, <2>3 DEF IInv, TypeOK, GroupRecord, RowsSound, ParentsExist, Live
  <2>7. MemoryServesOne'
    BY <1>1, <2>2, <2>3 DEF IInv, RowsSound, MemoryServesOne, Live
  <2>8. QED
    BY <1>2, <2>4, <2>5, <2>6, <2>7 DEF IInv, RowsSound
<1>5. QED
  BY <1>3, <1>4

LEMMA UpdateGroupKeeps ==
  ASSUME IInv, [Next]_vars, NEW r \in Request, UpdateGroup(r)
  PROVE  IInv'
<1> PICK g \in Group, n \in Name \cup {Blank}, x \in Outcome :
       groups' = IF x.applied THEN [groups EXCEPT ![g].name = NewName(g, n)] ELSE groups
  BY DEF UpdateGroup
<1>1. UNCHANGED <<backend, owner, members>>
  BY DEF UpdateGroup
<1>2. req' \in [Request -> RequestState] /\ RequestsSound'
  BY AuditRecord, SettlesOne DEF UpdateGroup
<1>3. NewName(g, n) \in Name \cup {Blank}
  BY DEF NewName, IInv, TypeOK, GroupRecord
<1>4. /\ groups' \in [Group -> GroupRecord]
      /\ \A h \in Group : /\ groups'[h].state = groups[h].state
                          /\ groups'[h].org = groups[h].org
                          /\ groups'[h].parent = groups[h].parent
  BY <1>3 DEF IInv, TypeOK, GroupRecord
<1>5. TypeOK'
  BY <1>1, <1>2, <1>4 DEF IInv, TypeOK, RequestsSound, RequestSound, Live
<1>6. RowsSound'
  BY <1>1, <1>4
     DEF IInv, TypeOK, GroupRecord, RowsSound, MembersExist, MembersWithinOrg, ParentsExist,
         MemoryServesOne, Live
<1>7. QED
  BY <1>2, <1>5, <1>6 DEF IInv

LEMMA DeleteGroupKeeps ==
  ASSUME IInv, [Next]_vars, NEW r \in Request, DeleteGroup(r)
  PROVE  IInv'
<1> PICK g \in Known, x \in Outcome :
       /\ groups' = IF x.applied
             THEN [h \in Group |-> IF h \in Doomed(g) THEN NoRow("deleted") ELSE groups[h]]
             ELSE groups
       /\ members' = IF x.applied THEN MembersWithout(Doomed(g)) ELSE members
  BY DEF DeleteGroup
<1>1. UNCHANGED <<backend, owner>> /\ g \in Group
  BY DEF DeleteGroup, Known
<1>2. req' \in [Request -> RequestState] /\ RequestsSound'
  BY AuditRecord, SettlesOne DEF DeleteGroup
<1>3. CASE ~x.applied
  BY <1>1, <1>2, <1>3, RowsStay
<1>4. CASE x.applied
  <2>1. /\ groups' \in [Group -> GroupRecord]
        /\ \A h \in Doomed(g) : h \in Group => groups'[h].state = "deleted"
        /\ \A h \in Group \ Doomed(g) : groups'[h] = groups[h]
    BY <1>4, NoRowRecord DEF IInv, TypeOK
  <2>2. members' \subseteq members /\ \A m \in members' : m[1] \notin Doomed(g)
    BY <1>4 DEF MembersWithout
  <2>3. TypeOK'
    BY <1>1, <1>2, <2>1, <2>2 DEF IInv, TypeOK, RequestsSound, RequestSound, Live
  <2>4. MembersExist' /\ MembersWithinOrg'
    <3> SUFFICES ASSUME NEW m \in members'
                 PROVE  groups'[m[1]].state = "live" /\ owner'[m[2]] = groups'[m[1]].org
      BY DEF MembersExist, MembersWithinOrg, Live
    <3>1. m \in members /\ m[1] \in Group \ Doomed(g)
      BY <2>2 DEF IInv, TypeOK
    <3>2. QED
      BY <1>1, <2>1, <3>1 DEF IInv, RowsSound, MembersExist, MembersWithinOrg, Live
  <2>5. ParentsExist'
    <3> SUFFICES ASSUME backend = "postgres", NEW h \in Group, groups'[h].state = "live",
                        groups'[h].parent # NoGroup
                 PROVE  groups'[groups'[h].parent].state = "live"
      BY <1>1 DEF ParentsExist, Live
    <3>1. h \notin Doomed(g) /\ groups'[h] = groups[h]
      BY <2>1
    <3>2. PICK k \in Group : k = groups[h].parent
      BY <3>1 DEF IInv, TypeOK, GroupRecord
    <3>3. k \notin Doomed(g)
      BY <1>1, <3>1, <3>2, SubtreeClosed DEF Doomed
    <3>4. Live(k)
      BY <3>1, <3>2 DEF IInv, RowsSound, ParentsExist, Live
    <3>5. QED
      BY <2>1, <3>1, <3>2, <3>3, <3>4 DEF Live
  <2>6. MemoryServesOne'
    BY <1>1, <2>1 DEF IInv, RowsSound, MemoryServesOne, Live
  <2>7. QED
    BY <1>2, <2>3, <2>4, <2>5, <2>6 DEF IInv, RowsSound
<1>5. QED
  BY <1>3, <1>4
LEMMA AssignDevicesKeeps ==
  ASSUME IInv, [Next]_vars, NEW r \in Request, AssignDevices(r)
  PROVE  IInv'
<1> PICK g \in Known, o \in Tenants, ds \in (SUBSET Device) \ {{}} :
       req' = [req EXCEPT ![r] = [Idle EXCEPT !.at = "assign", !.org = o, !.group = g,
                                              !.todo = ds]]
  BY DEF AssignDevices
<1>1. o \in Org /\ g \in Group
  BY DemoOrgAssumption DEF Tenants, Known
<1>2. PICK p \in RequestState :
         /\ p = [Idle EXCEPT !.at = "assign", !.org = o, !.group = g, !.todo = ds]
         /\ p.at = "assign" /\ p.group = g /\ p.todo = ds
  <2> DEFINE e == [Idle EXCEPT !.at = "assign", !.org = o, !.group = g, !.todo = ds]
  <2>1. e \in RequestState /\ e.at = "assign" /\ e.group = g /\ e.todo = ds
    BY <1>1 DEF Idle, RequestState, Point
  <2> HIDE DEF e
  <2>2. QED
    BY <2>1 DEF e
<1>3. g \in Known'
  BY GroupsStay DEF Known
<1>4. RequestSound(p)'
  BY <1>2, <1>3 DEF RequestSound
<1>5. QED
  BY <1>2, <1>4, OneMoves, RowsStay DEF AssignDevices

\* What was checked before the insertion of the PostgresStore, or before the
\* link of the MemoryStore.
LEMMA AssignableOrg ==
  ASSUME IInv, NEW q \in RequestState, RequestSound(q), q.at = "assign",
         NEW d \in Device, Assignable(q, d)
  PROVE  q.group \in Group /\ Live(q.group) /\ groups[q.group].org = owner[d]
<1>1. q.group \in Group /\ Live(q.group)
  BY DEF RequestSound, Known, Assignable
<1>2. CASE backend = "memory"
  BY <1>1, <1>2 DEF IInv, RowsSound, MemoryServesOne
<1>3. CASE backend = "postgres"
  BY <1>1, <1>3 DEF Assignable
<1>4. QED
  BY <1>1, <1>2, <1>3 DEF IInv, TypeOK

LEMMA AssignDeviceKeeps ==
  ASSUME IInv, [Next]_vars, NEW r \in Request, AssignDevice(r)
  PROVE  IInv'
<1> PICK q \in RequestState : q = req[r]
  BY DEF IInv, TypeOK
<1>1. /\ q.at = "assign" /\ RequestSound(q)
      /\ UNCHANGED <<backend, owner, groups>>
  BY DEF AssignDevice, IInv, RequestsSound
<1>2. PICK d \in q.todo, x \in Outcome :
         LET left == [q EXCEPT !.todo = @ \ {d}]
             found == Assignable(q, d) /\ x.ok
         IN  /\ members' = IF found /\ backend = "memory"
                              THEN members \cup {<<q.group, d>>} ELSE members
             /\ req' = [req EXCEPT ![r] =
                   IF found /\ backend = "postgres"
                   THEN [left EXCEPT !.at = "insert", !.dev = d] ELSE Continue(left)]
  BY DEF AssignDevice
<1>3. d \in Device
  BY DEF RequestState
<1>4. PICK left \in RequestState :
         /\ left = [q EXCEPT !.todo = @ \ {d}]
         /\ left.at = "assign" /\ left.group = q.group
  <2> DEFINE e == [q EXCEPT !.todo = @ \ {d}]
  <2>1. e \in RequestState /\ e.at = "assign" /\ e.group = q.group
    BY <1>1 DEF RequestState
  <2> HIDE DEF e
  <2>2. QED
    BY <2>1 DEF e
<1>5. q.group \in Known'
  BY <1>1, GroupsStay DEF RequestSound, Known
<1>6. CASE Assignable(q, d) /\ x.ok /\ backend = "postgres"
  <2>1. /\ members' = members
        /\ req' = [req EXCEPT ![r] = [left EXCEPT !.at = "insert", !.dev = d]]
    BY <1>2, <1>4, <1>6
  <2>2. PICK p \in RequestState :
           /\ p = [left EXCEPT !.at = "insert", !.dev = d]
           /\ p.at = "insert" /\ p.dev = d /\ p.group = q.group
    <3> DEFINE e == [left EXCEPT !.at = "insert", !.dev = d]
    <3>1. e \in RequestState /\ e.at = "insert" /\ e.dev = d /\ e.group = q.group
      BY <1>3, <1>4 DEF RequestState, Point
    <3> HIDE DEF e
    <3>2. QED
      BY <3>1 DEF e
  <2>3. groups'[q.group].org = owner'[d]
    BY <1>1, <1>3, <1>6, AssignableOrg
  <2>4. RequestSound(p)'
    BY <1>3, <1>5, <2>2, <2>3 DEF RequestSound
  <2>5. QED
    BY <1>1, <2>1, <2>2, <2>4, OneMoves, RowsStay
<1>7. CASE ~(Assignable(q, d) /\ x.ok /\ backend = "postgres")
  <2>1. req' = [req EXCEPT ![r] = Continue(left)]
    BY <1>2, <1>4, <1>7
  <2>2. PICK p \in RequestState :
           /\ p = Continue(left) /\ p.at \in {"assign", "audit"}
           /\ p.at = "assign" => p.todo # {} /\ p.group = q.group
    <3> DEFINE e == Continue(left)
    <3>1. /\ e \in RequestState /\ e.at \in {"assign", "audit"}
          /\ e.at = "assign" => e.todo # {} /\ e.group = q.group
      BY <1>4, ContinueRecord
    <3> HIDE DEF e
    <3>2. QED
      BY <3>1 DEF e
  <2>3. RequestSound(p)'
    BY <1>5, <2>2 DEF RequestSound
  <2>4. req' \in [Request -> RequestState] /\ RequestsSound'
    BY <2>1, <2>2, <2>3, OneMoves
  <2>5. CASE members' = members
    BY <1>1, <2>4, <2>5, RowsStay
  <2>6. CASE members' # members
    <3>1. Assignable(q, d) /\ members' = members \cup {<<q.group, d>>}
      BY <1>2, <2>6
    <3>2. QED
      BY <1>1, <1>3, <2>4, <3>1, AssignableOrg, LinkKept
  <2>7. QED
    BY <2>5, <2>6
<1>8. QED
  BY <1>6, <1>7

LEMMA AssignInsertKeeps ==
  ASSUME IInv, [Next]_vars, NEW r \in Request, AssignInsert(r)
  PROVE  IInv'
<1> PICK q \in RequestState : q = req[r]
  BY DEF IInv, TypeOK
<1>1. /\ q.at = "insert" /\ RequestSound(q)
      /\ UNCHANGED <<backend, owner, groups>>
      /\ req' = [req EXCEPT ![r] = Continue(q)]
  BY DEF AssignInsert, IInv, RequestsSound
<1>2. PICK x \in Outcome :
         members' = IF Linkable(q.group) /\ x.applied
                      THEN members \cup {<<q.group, q.dev>>} ELSE members
  BY DEF AssignInsert
<1>3. q.group \in Known /\ q.group \in Group /\ q.dev \in Device
  BY <1>1 DEF RequestSound, Known
<1>4. PICK p \in RequestState :
         /\ p = Continue(q) /\ p.at \in {"assign", "audit"}
         /\ p.at = "assign" => p.todo # {} /\ p.group = q.group
  BY <1>1, ContinueRecord
<1>5. q.group \in Known'
  BY <1>3, GroupsStay DEF Known
<1>6. RequestSound(p)'
  BY <1>4, <1>5 DEF RequestSound
<1>7. req' \in [Request -> RequestState] /\ RequestsSound'
  BY <1>1, <1>4, <1>6, OneMoves
<1>8. CASE members' = members
  BY <1>1, <1>7, <1>8, RowsStay
<1>9. CASE members' # members
  <2>1. Live(q.group) /\ groups[q.group].org = owner[q.dev]
        /\ members' = members \cup {<<q.group, q.dev>>}
    BY <1>1, <1>2, <1>9 DEF Linkable, RequestSound
  <2>2. QED
    BY <1>1, <1>3, <1>7, <2>1, LinkKept
<1>10. QED
  BY <1>8, <1>9

LEMMA RemoveDeviceKeeps ==
  ASSUME IInv, [Next]_vars, NEW r \in Request, RemoveDevice(r)
  PROVE  IInv'
<1> PICK g \in Known, o \in Tenants, d \in Device :
       \/ /\ members' = members \ {<<g, d>>}
          /\ req' = [req EXCEPT ![r] = Audit]
       \/ /\ req' = [req EXCEPT ![r] = [Idle EXCEPT !.at = "delete", !.org = o, !.group = g,
                                                    !.dev = d]]
          /\ members' = members
  BY DEF RemoveDevice
<1>1. o \in Org /\ g \in Group /\ UNCHANGED <<backend, owner, groups>>
  BY DemoOrgAssumption DEF Tenants, Known, RemoveDevice
<1>2. PICK p \in RequestState :
         /\ p = [Idle EXCEPT !.at = "delete", !.org = o, !.group = g, !.dev = d]
         /\ p.at = "delete"
  <2> DEFINE e == [Idle EXCEPT !.at = "delete", !.org = o, !.group = g, !.dev = d]
  <2>1. e \in RequestState /\ e.at = "delete"
    BY <1>1 DEF Idle, RequestState, Point
  <2> HIDE DEF e
  <2>2. QED
    BY <2>1 DEF e
<1>3. req' \in [Request -> RequestState] /\ RequestsSound'
  BY <1>2, AuditRecord, SettlesOne
<1>4. members' \subseteq members
  OBVIOUS
<1>5. QED
  BY <1>1, <1>3, <1>4, LinkKept

LEMMA RemoveDeleteKeeps ==
  ASSUME IInv, [Next]_vars, NEW r \in Request, RemoveDelete(r)
  PROVE  IInv'
<1>1. /\ UNCHANGED <<backend, owner, groups>>
      /\ members' \subseteq members
  BY DEF RemoveDelete
<1>2. req' \in [Request -> RequestState] /\ RequestsSound'
  BY IdleRecord, AuditRecord, SettlesOne DEF RemoveDelete
<1>3. QED
  BY <1>1, <1>2, LinkKept

LEMMA NextIInv == IInv /\ [Next]_vars => IInv'
<1> SUFFICES ASSUME IInv, [Next]_vars PROVE IInv'
  OBVIOUS
<1>1. ASSUME NEW r \in Request, Answer(r) PROVE IInv'
  BY <1>1, IdleRecord, SettlesOne, RowsStay DEF Answer
<1>2. CASE Restart
  <2>1. req' \in [Request -> RequestState] /\ RequestsSound'
    BY <1>2, IdleRecord DEF Restart, RequestsSound, RequestSound
  <2>2. QED
    BY <1>2, <2>1, RowsStay DEF Restart
<1>3. CASE UNCHANGED vars
  <2>1. req' \in [Request -> RequestState] /\ RequestsSound'
    BY <1>3 DEF vars, IInv, TypeOK, RequestsSound, RequestSound, Known, Live
  <2>2. QED
    BY <1>3, <2>1, RowsStay DEF vars
<1>4. QED
  BY <1>1, <1>2, <1>3, CreateGroupKeeps, UpdateGroupKeeps, DeleteGroupKeeps, AssignDevicesKeeps,
     AssignDeviceKeeps, AssignInsertKeeps, RemoveDeviceKeeps, RemoveDeleteKeeps
     DEF Next

-----------------------------------------------------------------------------
(* Theorems *)

\* Groups, members and requests keep their shape; every member is of a group
\* that exists and has the organization of the device, every parent exists in
\* PostgreSQL, and what a request holds between two calls stays valid.
THEOREM InvariantHolds == Spec => []IInv
  BY InitIInv, NextIInv, PTL DEF Spec

\* Type correctness; a group that is stored has an organization, and the loop of
\* an assignment has devices left.
THEOREM TypeCorrect == Spec => []TypeOK
  BY InvariantHolds, PTL DEF IInv

\* DeleteGroup leaves no member behind, and an assignment that checked the group
\* before adds none afterwards, for any number of requests and failing calls.
THEOREM MembersHaveGroups == Spec => []MembersExist
<1>1. IInv => MembersExist
  BY DEF IInv, RowsSound
<1>2. QED
  BY <1>1, InvariantHolds, PTL

\* AssignDevices links no device to a group of another organization, though it
\* checks and links in several statements.
THEOREM MembersStayWithinOrg == Spec => []MembersWithinOrg
<1>1. IInv => MembersWithinOrg
  BY DEF IInv, RowsSound
<1>2. QED
  BY <1>1, InvariantHolds, PTL

\* In PostgreSQL DeleteGroup leaves no group under a deleted one, for a hierarchy
\* of any size and depth.
THEOREM ParentsAreStored == Spec => []ParentsExist
<1>1. IInv => ParentsExist
  BY DEF IInv, RowsSound
<1>2. QED
  BY <1>1, InvariantHolds, PTL
=============================================================================
