-------------------------- MODULE RealtimeHubProofs --------------------------
(***************************************************************************)
(* Proofs about RealtimeHub for every set of devices, consoles and         *)
(* telemetry requests, every TTL and every size of the buffers.            *)
(***************************************************************************)
EXTENDS RealtimeHub, FiniteSetTheorems, SequenceTheorems, TLAPS

-----------------------------------------------------------------------------
(* The inductive invariant *)

\* The presence events about device d in the stream s.
About(s, d) == {k \in DOMAIN s : s[k].dev = d /\ s[k].event # "telemetry"}

\* The last of them, if there is one, says that the device is p.
LatestIs(s, d, p) ==
    \A k \in About(s, d) : (\A j \in About(s, d) : j <= k) => s[k].event = p

\* Once a console whose record is cl has read what is buffered for it, it shows
\* device d as p, or nothing about d was ever buffered for it.
Shows(cl, d, p) ==
    LET s == cl.writing \o cl.queue
    IN  /\ LatestIs(s, d, p)
        /\ About(s, d) = {} /\ cl.view[d] # "unknown" => cl.view[d] = p

\* The watchdog's tick, and then its scan, are about devices that are silent for
\* longer than the TTL.
OnlySilentDue == \A d \in due \cup scan : quiet[d] > TTL

\* A handler that does not write holds no event; every console that is
\* registered will show each device as it is in the hub, but for those of which
\* its buffer dropped the latest event.
StreamsSound ==
    \A c \in Client :
       /\ clients[c].at \in {"select", "leaving"} => clients[c].writing = <<>>
       /\ Registered(c) => \A d \in Device \ stale[c] : Shows(clients[c], d, presence[d])

IInv == TypeOK /\ OnlySilentDue /\ StreamsSound

\* What a step that touches the consoles has to keep of it.
ConsolesSound ==
    /\ clients \in [Client -> ClientState]
    /\ \A c \in Client : Len(clients[c].queue) <= Capacity /\ Len(clients[c].writing) <= 1
    /\ stale \in [Client -> SUBSET Device]
    /\ StreamsSound

-----------------------------------------------------------------------------
(* Streams of events *)

\* A set of positions in a sequence has a last one.
LEMMA LastOf ==
  ASSUME NEW n \in Nat, NEW S \in SUBSET (1 .. n), S # {}
  PROVE  \E k \in S : \A j \in S : j <= k
<1> DEFINE Rest == {k .. n : k \in S}
<1>1. Rest \subseteq FiniteSubsetsOf(1 .. n) /\ Rest # {}
  <2>1. ASSUME NEW k \in S PROVE k .. n \in FiniteSubsetsOf(1 .. n)
    BY FS_Interval DEF FiniteSubsetsOf
  <2>2. QED
    BY <2>1
<1>2. PICK T \in Rest : \A U \in Rest : <<U, T>> \notin StrictSubsetOrdering(1 .. n)
  <2> HIDE DEF Rest
  <2>1. IsWellFoundedOn(StrictSubsetOrdering(1 .. n), FiniteSubsetsOf(1 .. n))
    BY FS_StrictSubsetOrderingWellFounded
  <2>2. QED
    BY <1>1, <2>1, WFMin
<1>3. PICK k \in S : T = k .. n
  OBVIOUS
<1>4. ASSUME NEW j \in S, ~(j <= k) PROVE FALSE
  <2>1. /\ j .. n \in Rest /\ j .. n \subseteq k .. n /\ k .. n \subseteq 1 .. n
        /\ k \in k .. n /\ k \notin j .. n
    BY <1>4
  <2>2. <<j .. n, k .. n>> \in StrictSubsetOrdering(1 .. n)
    BY <2>1 DEF StrictSubsetOrdering
  <2>3. QED
    BY <1>2, <1>3, <2>1, <2>2
<1>5. QED
  BY <1>4

\* What is buffered for a console, one event after another.
LEMMA StreamOf ==
  ASSUME NEW w \in Seq(Event), NEW q \in Seq(Event)
  PROVE  /\ w \o q \in Seq(Event) /\ Len(w \o q) = Len(w) + Len(q)
         /\ DOMAIN (w \o q) = 1 .. Len(w) + Len(q)
         /\ \A i \in 1 .. Len(w) : (w \o q)[i] = w[i]
         /\ \A i \in 1 .. Len(q) : (w \o q)[Len(w) + i] = q[i]
<1>1. Len(w) \in Nat /\ Len(q) \in Nat
  BY LenProperties
<1>2. /\ w \o q \in Seq(Event)
      /\ Len(w \o q) = Len(w) + Len(q)
      /\ \A i \in 1 .. Len(w) + Len(q) : (w \o q)[i] =
                     IF i <= Len(w) THEN w[i] ELSE q[i - Len(w)]
  BY ConcatProperties
<1>3. DOMAIN (w \o q) = 1 .. Len(w) + Len(q)
  BY <1>2, LenProperties
<1>4. ASSUME NEW i \in 1 .. Len(q) PROVE (w \o q)[Len(w) + i] = q[i]
  <2>1. Len(w) + i \in 1 .. Len(w) + Len(q) /\ ~(Len(w) + i <= Len(w)) /\ (Len(w) + i) - Len(w) = i
    BY <1>1
  <2>2. QED
    BY <1>2, <2>1
<1>5. QED
  BY <1>1, <1>2, <1>3, <1>4

\* An event appended to a stream.
LEMMA StreamAppend ==
  ASSUME NEW s \in Seq(Event), NEW e \in Event, NEW d \in Device
  PROVE  /\ e.dev = d /\ e.event # "telemetry" => /\ LatestIs(Append(s, e), d, e.event)
                                                  /\ About(Append(s, e), d) # {}
         /\ ~(e.dev = d /\ e.event # "telemetry") =>
              /\ About(Append(s, e), d) = About(s, d)
              /\ \A p : LatestIs(s, d, p) => LatestIs(Append(s, e), d, p)
<1> DEFINE t == Append(s, e)
<1>1. /\ Len(s) \in Nat /\ DOMAIN s = 1 .. Len(s) /\ DOMAIN t = 1 .. Len(s) + 1
      /\ t[Len(s) + 1] = e
      /\ \A i \in 1 .. Len(s) : t[i] = s[i]
  BY AppendProperties, LenProperties
<1> HIDE DEF t
<1>2. \A k \in 1 .. Len(s) : k \in About(t, d) <=> k \in About(s, d)
  BY <1>1 DEF About
<1>3. Len(s) + 1 \in About(t, d) <=> e.dev = d /\ e.event # "telemetry"
  BY <1>1 DEF About
<1>4. About(s, d) \subseteq 1 .. Len(s) /\ About(t, d) \subseteq 1 .. Len(s) + 1
  BY <1>1 DEF About
<1>5. CASE e.dev = d /\ e.event # "telemetry"
  <2>1. Len(s) + 1 \in About(t, d)
    BY <1>3, <1>5
  <2>2. \A k \in About(t, d) : (\A j \in About(t, d) : j <= k) => k = Len(s) + 1
    BY <1>1, <1>4, <2>1
  <2>3. QED
    <3>1. LatestIs(t, d, e.event)
      BY <1>1, <2>2 DEF LatestIs
    <3>2. QED
      BY <1>5, <2>1, <3>1 DEF t
<1>6. CASE ~(e.dev = d /\ e.event # "telemetry")
  <2>1. About(t, d) = About(s, d)
    <3>1. About(t, d) \subseteq 1 .. Len(s)
      BY <1>1, <1>3, <1>4, <1>6
    <3>2. QED
      BY <1>2, <1>4, <3>1
  <2>2. \A k \in About(s, d) : t[k] = s[k]
    BY <1>1, <1>4
  <2>3. QED
    <3>1. \A p : LatestIs(s, d, p) => LatestIs(t, d, p)
      BY <2>1, <2>2 DEF LatestIs
    <3>2. QED
      BY <1>6, <2>1, <3>1 DEF t
<1>7. QED
  BY <1>5, <1>6
\* The events of a stream are those of its parts.
LEMMA AboutParts ==
  ASSUME NEW w \in Seq(Event), NEW q \in Seq(Event), NEW d \in Device
  PROVE  /\ Len(w) \in Nat /\ Len(q) \in Nat
         /\ About(w, d) \subseteq 1 .. Len(w) /\ About(q, d) \subseteq 1 .. Len(q)
         /\ About(w \o q, d) \subseteq 1 .. Len(w) + Len(q)
         /\ \A k \in 1 .. Len(w) : k \in About(w \o q, d) <=> k \in About(w, d)
         /\ \A k \in 1 .. Len(q) : Len(w) + k \in About(w \o q, d) <=> k \in About(q, d)
         /\ \A j \in About(w \o q, d) :
               j \in About(w, d) \/ \E k \in About(q, d) : j = Len(w) + k
<1> DEFINE s == w \o q
<1>1. /\ Len(w) \in Nat /\ Len(q) \in Nat
      /\ DOMAIN w = 1 .. Len(w) /\ DOMAIN q = 1 .. Len(q)
  BY LenProperties
<1>2. /\ DOMAIN s = 1 .. Len(w) + Len(q)
      /\ \A i \in 1 .. Len(w) : s[i] = w[i]
      /\ \A i \in 1 .. Len(q) : s[Len(w) + i] = q[i]
  BY StreamOf
<1> HIDE DEF s
<1>3. /\ About(w, d) \subseteq 1 .. Len(w) /\ About(q, d) \subseteq 1 .. Len(q)
      /\ About(s, d) \subseteq 1 .. Len(w) + Len(q)
  BY <1>1, <1>2 DEF About
<1>4. \A k \in 1 .. Len(w) : k \in About(s, d) <=> k \in About(w, d)
  BY <1>1, <1>2 DEF About
<1>5. \A k \in 1 .. Len(q) : Len(w) + k \in About(s, d) <=> k \in About(q, d)
  <2> SUFFICES ASSUME NEW k \in 1 .. Len(q)
               PROVE  Len(w) + k \in About(s, d) <=> k \in About(q, d)
    OBVIOUS
  <2>1. Len(w) + k \in 1 .. Len(w) + Len(q) /\ s[Len(w) + k] = q[k]
    BY <1>1, <1>2
  <2>2. QED
    BY <1>1, <1>2, <2>1 DEF About
<1>6. ASSUME NEW j \in About(s, d), j \notin About(w, d)
      PROVE  \E k \in About(q, d) : j = Len(w) + k
  <2>1. j \in 1 .. Len(w) + Len(q) /\ j \notin 1 .. Len(w)
    BY <1>3, <1>4, <1>6
  <2>2. j - Len(w) \in 1 .. Len(q) /\ j = Len(w) + (j - Len(w))
    BY <1>1, <2>1
  <2>3. QED
    BY <1>5, <1>6, <2>2
<1>7. QED
  BY <1>1, <1>3, <1>4, <1>5, <1>6 DEF s

\* What a console shows after reading s, having shown v before.
LEMMA SeenIs ==
  ASSUME NEW v \in [Device -> {"unknown", "online", "offline"}], NEW s \in Seq(Event)
  PROVE  /\ Seen(v, s) \in [Device -> {"unknown", "online", "offline"}]
         /\ \A d \in Device : \A p :
               /\ LatestIs(s, d, p)
               /\ About(s, d) = {} /\ v[d] # "unknown" => v[d] = p
               => (Seen(v, s)[d] # "unknown" => Seen(v, s)[d] = p)
<1>1. ASSUME NEW d \in Device, About(s, d) = {} PROVE Seen(v, s)[d] = v[d]
  BY <1>1 DEF Seen, About
<1>2. ASSUME NEW d \in Device, About(s, d) # {}
      PROVE  /\ Seen(v, s)[d] \in {"online", "offline"}
             /\ \A p : LatestIs(s, d, p) => Seen(v, s)[d] = p
  <2> DEFINE last == CHOOSE k \in About(s, d) : \A j \in About(s, d) : j <= k
  <2>1. DOMAIN s = 1 .. Len(s) /\ Len(s) \in Nat
    BY LenProperties
  <2>2. About(s, d) \subseteq 1 .. Len(s)
    BY <2>1 DEF About
  <2>3. last \in About(s, d) /\ \A j \in About(s, d) : j <= last
    BY <1>2, <2>1, <2>2, LastOf
  <2>4. Seen(v, s)[d] = s[last].event
    BY <1>2 DEF Seen, About
  <2> HIDE DEF last
  <2>5. s[last] \in Event /\ s[last].event # "telemetry"
    BY <2>2, <2>3, ElementOfSeq DEF About
  <2>6. QED
    BY <2>3, <2>4, <2>5 DEF LatestIs, Event
<1>3. \A d \in Device : Seen(v, s)[d] \in {"unknown", "online", "offline"}
  BY <1>1, <1>2
<1>4. Seen(v, s) \in [Device -> {"unknown", "online", "offline"}]
  BY <1>3 DEF Seen
<1>5. QED
  BY <1>1, <1>2, <1>4

\* Reading the first part of a stream changes nothing of what it will show.
LEMMA StreamRead ==
  ASSUME NEW v \in [Device -> {"unknown", "online", "offline"}],
         NEW w \in Seq(Event), NEW q \in Seq(Event), NEW d \in Device, NEW p,
         LatestIs(w \o q, d, p),
         About(w \o q, d) = {} /\ v[d] # "unknown" => v[d] = p
  PROVE  /\ LatestIs(q, d, p)
         /\ About(q, d) = {} /\ Seen(v, w)[d] # "unknown" => Seen(v, w)[d] = p
<1>1. LatestIs(q, d, p)
  <2> SUFFICES ASSUME NEW k \in About(q, d), \A j \in About(q, d) : j <= k
               PROVE  q[k].event = p
    BY DEF LatestIs
  <2>1. k \in 1 .. Len(q) /\ Len(w) + k \in About(w \o q, d)
    BY AboutParts
  <2>2. \A j \in About(w \o q, d) : j <= Len(w) + k
    <3> SUFFICES ASSUME NEW j \in About(w \o q, d) PROVE j <= Len(w) + k
      OBVIOUS
    <3>1. CASE j \in About(w, d)
      <4>1. j \in 1 .. Len(w) /\ Len(w) \in Nat
        BY <3>1, AboutParts
      <4>2. QED
        BY <2>1, <4>1
    <3>2. ASSUME NEW i \in About(q, d), j = Len(w) + i PROVE j <= Len(w) + k
      <4>1. i \in 1 .. Len(q) /\ i <= k /\ Len(w) \in Nat
        BY AboutParts
      <4>2. QED
        BY <2>1, <3>2, <4>1
    <3>3. QED
      BY <3>1, <3>2, AboutParts
  <2>3. (w \o q)[Len(w) + k] = q[k]
    BY <2>1, StreamOf
  <2>4. QED
    BY <2>1, <2>2, <2>3 DEF LatestIs
<1>2. ASSUME About(q, d) = {}
      PROVE  About(w \o q, d) = About(w, d) /\ LatestIs(w, d, p)
  <2>1. About(w \o q, d) = About(w, d)
    <3>1. \A j \in About(w \o q, d) : j \in About(w, d)
      BY <1>2, AboutParts
    <3>2. \A j \in About(w, d) : j \in About(w \o q, d)
      BY AboutParts
    <3>3. QED
      BY <3>1, <3>2
  <2>2. \A k \in About(w, d) : (w \o q)[k] = w[k]
    BY AboutParts, StreamOf
  <2>3. QED
    BY <2>1, <2>2 DEF LatestIs
<1>3. ASSUME About(q, d) = {}, Seen(v, w)[d] # "unknown" PROVE Seen(v, w)[d] = p
  BY <1>2, <1>3, SeenIs
<1>4. QED
  BY <1>1, <1>3

\* An event appended to the last part of a stream.
LEMMA AppendAfter ==
  ASSUME NEW w \in Seq(Event), NEW q \in Seq(Event), NEW e \in Event
  PROVE  w \o Append(q, e) = Append(w \o q, e)
<1>1. <<e>> \in Seq(Event)
  OBVIOUS
<1>2. PICK one \in Seq(Event) : one = <<e>>
  BY <1>1
<1>3. Append(q, e) = q \o one /\ Append(w \o q, e) = (w \o q) \o one
  BY <1>2, StreamOf, AppendIsConcat
<1>4. (w \o q) \o one = w \o (q \o one)
  BY ConcatAssociative
<1>5. QED
  BY <1>3, <1>4

-----------------------------------------------------------------------------
(* Consoles *)

LEMMA GoneRecord ==
  /\ Gone \in ClientState /\ Gone.at = "gone" /\ Gone.writing = <<>> /\ Gone.queue = <<>>
  /\ \A d \in Device : Gone.view[d] = "unknown"
  BY EmptySeq DEF Gone, ClientState

LEMMA ClientFields ==
  ASSUME NEW cl \in ClientState
  PROVE  /\ cl.queue \in Seq(Event) /\ cl.writing \in Seq(Event)
         /\ cl.view \in [Device -> {"unknown", "online", "offline"}]
         /\ cl.at \in {"gone", "select", "writing", "leaving"}
         /\ Len(cl.queue) \in Nat /\ Len(cl.writing) \in Nat
  BY LenProperties DEF ClientState

\* An event that a buffer accepts.
LEMMA QueueAppend ==
  ASSUME NEW cl \in ClientState, NEW e \in Event
  PROVE  LET next == [cl EXCEPT !.queue = Append(@, e)]
         IN  /\ next \in ClientState
             /\ next.at = cl.at /\ next.writing = cl.writing
             /\ Len(next.queue) = Len(cl.queue) + 1
             /\ \A d \in Device :
                   IF e.dev = d /\ e.event # "telemetry" THEN Shows(next, d, e.event)
                   ELSE \A p : Shows(cl, d, p) => Shows(next, d, p)
<1> DEFINE next == [cl EXCEPT !.queue = Append(@, e)]
<1>1. /\ cl.queue \in Seq(Event) /\ cl.writing \in Seq(Event)
  BY ClientFields
<1>2. Append(cl.queue, e) \in Seq(Event) /\ Len(Append(cl.queue, e)) = Len(cl.queue) + 1
  BY <1>1, AppendProperties
<1>3. /\ next \in ClientState
      /\ next.at = cl.at /\ next.writing = cl.writing /\ next.view = cl.view
      /\ next.queue = Append(cl.queue, e)
  BY <1>2 DEF ClientState
<1> HIDE DEF next
<1> DEFINE s == cl.writing \o cl.queue
<1>4. s \in Seq(Event)
  BY <1>1, StreamOf
<1>5. next.writing \o next.queue = Append(s, e)
  BY <1>1, <1>3, AppendAfter
<1> HIDE DEF s
<1>6. ASSUME NEW d \in Device, e.dev = d /\ e.event # "telemetry" PROVE Shows(next, d, e.event)
  BY <1>4, <1>5, <1>6, StreamAppend DEF Shows
<1>7. ASSUME NEW d \in Device, ~(e.dev = d /\ e.event # "telemetry"), NEW p, Shows(cl, d, p)
      PROVE  Shows(next, d, p)
  BY <1>3, <1>4, <1>5, <1>7, StreamAppend DEF Shows, s
<1>8. QED
  BY <1>2, <1>3, <1>6, <1>7 DEF next

\* A broadcast keeps every console sound that is sound about the other devices,
\* when the hub's view of the one it is about is what it says.
LEMMA BroadcastKeeps ==
  ASSUME IInv, NEW e \in Event, Broadcast(e),
         IF e.event = "telemetry" THEN presence' = presence
         ELSE presence' = [presence EXCEPT ![e.dev] = e.event]
  PROVE  ConsolesSound'
<1>1. e.dev \in Device /\ e.event \in {"online", "offline", "telemetry"}
  BY DEF Event
<1>2. /\ \A c \in Client : clients'[c] =
            IF Takes(c) THEN [clients[c] EXCEPT !.queue = Append(@, e)] ELSE clients[c]
      /\ \A c \in Client : stale'[c] =
            IF e.event = "telemetry" \/ ~Registered(c) THEN stale[c]
            ELSE IF Takes(c) THEN stale[c] \ {e.dev} ELSE stale[c] \cup {e.dev}
  BY DEF Broadcast
<1>3. stale' \in [Client -> SUBSET Device]
  <2>1. ASSUME NEW c \in Client PROVE stale'[c] \in SUBSET Device
    <3>1. stale[c] \subseteq Device
      BY DEF IInv, TypeOK
    <3>2. stale'[c] \in {stale[c], stale[c] \ {e.dev}, stale[c] \cup {e.dev}}
      BY <1>2
    <3>3. QED
      BY <1>1, <3>1, <3>2
  <2>2. QED
    BY <2>1 DEF Broadcast
<1>4. ASSUME NEW c \in Client
      PROVE  /\ clients'[c] \in ClientState
             /\ Len(clients'[c].queue) <= Capacity /\ Len(clients'[c].writing) <= 1
             /\ clients'[c].at \in {"select", "leaving"} => clients'[c].writing = <<>>
             /\ clients'[c].at # "gone" =>
                  \A d \in Device \ stale'[c] : Shows(clients'[c], d, presence'[d])
  <2> PICK cl \in ClientState : cl = clients[c]
    BY DEF IInv, TypeOK
  <2>1. /\ Len(cl.queue) \in Nat /\ Len(cl.queue) <= Capacity /\ Len(cl.writing) <= 1
        /\ cl.at \in {"select", "leaving"} => cl.writing = <<>>
        /\ cl.at # "gone" => \A d \in Device \ stale[c] : Shows(cl, d, presence[d])
    BY ClientFields DEF IInv, TypeOK, StreamsSound, Registered
  <2>2. \A d \in Device : e.dev # d \/ e.event = "telemetry" => presence'[d] = presence[d]
    BY DEF IInv, TypeOK
  <2>3. e.event # "telemetry" => presence'[e.dev] = e.event
    BY <1>1 DEF IInv, TypeOK
  <2>4. CASE Takes(c)
    <3> DEFINE next == [cl EXCEPT !.queue = Append(@, e)]
    <3>1. clients'[c] = next
      BY <1>2, <2>4
    <3>2. /\ next \in ClientState
          /\ next.at = cl.at /\ next.writing = cl.writing
          /\ Len(next.queue) = Len(cl.queue) + 1
          /\ \A d \in Device :
                IF e.dev = d /\ e.event # "telemetry" THEN Shows(next, d, e.event)
                ELSE \A p : Shows(cl, d, p) => Shows(next, d, p)
      BY QueueAppend
    <3> HIDE DEF next
    <3>3. Len(next.queue) <= Capacity
      BY <2>1, <2>4, <3>2, CapacityAssumption DEF Takes, HasRoom
    <3>4. \A d \in Device : d \notin stale'[c] /\ (e.dev # d \/ e.event = "telemetry") =>
             d \notin stale[c]
      BY <1>2, <2>4 DEF Takes
    <3>5. next.at # "gone" => \A d \in Device \ stale'[c] : Shows(next, d, presence'[d])
      BY <2>1, <2>2, <2>3, <3>2, <3>4
    <3>6. QED
      BY <2>1, <3>1, <3>2, <3>3, <3>5
  <2>5. CASE ~Takes(c)
    <3>1. clients'[c] = cl
      BY <1>2, <2>5
    <3>2. cl.at # "gone" => \A d \in Device \ stale'[c] :
             d \notin stale[c] /\ presence'[d] = presence[d]
      BY <1>2, <2>2, <2>5 DEF Registered
    <3>3. QED
      BY <2>1, <3>1, <3>2
  <2>6. QED
    BY <2>4, <2>5
<1>5. clients' \in [Client -> ClientState]
  BY <1>4 DEF Broadcast
<1>6. StreamsSound'
  BY <1>4 DEF StreamsSound, Registered
<1>7. QED
  BY <1>3, <1>4, <1>5, <1>6 DEF ConsolesSound

\* A step of one console that leaves the hub's view of the devices alone.
LEMMA OneConsole ==
  ASSUME IInv, NEW c \in Client, NEW next \in ClientState,
         clients' = [clients EXCEPT ![c] = next],
         stale' = stale \/ stale' = [stale EXCEPT ![c] = {}],
         presence' = presence,
         Len(next.queue) <= Capacity, Len(next.writing) <= 1,
         next.at \in {"select", "leaving"} => next.writing = <<>>,
         next.at # "gone" => \A d \in Device \ stale'[c] : Shows(next, d, presence[d])
  PROVE  ConsolesSound'
<1>1. clients' \in [Client -> ClientState] /\ stale' \in [Client -> SUBSET Device]
  BY DEF IInv, TypeOK
<1>2. clients'[c] = next /\ \A x \in Client : x # c => clients'[x] = clients[x] /\ stale'[x] = stale[x]
  BY DEF IInv, TypeOK
<1>3. ASSUME NEW x \in Client
      PROVE  /\ Len(clients'[x].queue) <= Capacity /\ Len(clients'[x].writing) <= 1
             /\ clients'[x].at \in {"select", "leaving"} => clients'[x].writing = <<>>
             /\ clients'[x].at # "gone" =>
                  \A d \in Device \ stale'[x] : Shows(clients'[x], d, presence'[d])
  <2>1. CASE x = c
    BY <1>2, <2>1
  <2>2. CASE x # c
    <3>1. clients'[x] = clients[x] /\ stale'[x] = stale[x]
      BY <1>2, <2>2
    <3>2. /\ Len(clients[x].queue) <= Capacity /\ Len(clients[x].writing) <= 1
          /\ clients[x].at \in {"select", "leaving"} => clients[x].writing = <<>>
          /\ clients[x].at # "gone" =>
               \A d \in Device \ stale[x] : Shows(clients[x], d, presence[d])
      BY DEF IInv, TypeOK, StreamsSound, Registered
    <3>3. QED
      BY <3>1, <3>2
  <2>3. QED
    BY <2>1, <2>2
<1>4. StreamsSound'
  BY <1>3 DEF StreamsSound, Registered
<1>5. QED
  BY <1>1, <1>3, <1>4 DEF ConsolesSound

\* A console as the hub knows it.
LEMMA ConsoleIs ==
  ASSUME IInv, NEW c \in Client
  PROVE  /\ clients[c] \in ClientState
         /\ Len(clients[c].queue) <= Capacity /\ Len(clients[c].writing) <= 1
         /\ clients[c].at \in {"select", "leaving"} => clients[c].writing = <<>>
         /\ clients[c].at # "gone" =>
              \A d \in Device \ stale[c] : Shows(clients[c], d, presence[d])
  BY DEF IInv, TypeOK, StreamsSound, Registered

LEMMA RegisterClientKeeps ==
  ASSUME IInv, NEW c \in Client, RegisterClient(c)
  PROVE  ConsolesSound'
<1> DEFINE n == [Gone EXCEPT !.at = "writing"]
<1>1. /\ n \in ClientState /\ n.at = "writing" /\ n.queue = <<>> /\ n.writing = <<>>
      /\ \A d \in Device : n.view[d] = "unknown"
  BY EmptySeq DEF Gone, ClientState
<1> HIDE DEF n
<1>2. PICK next \in ClientState :
         /\ next = n /\ next.at = "writing" /\ next.queue = <<>> /\ next.writing = <<>>
         /\ \A d \in Device : next.view[d] = "unknown"
  BY <1>1
<1>3. ASSUME NEW d \in Device, NEW p PROVE Shows(next, d, p)
  <2>1. next.writing \o next.queue = <<>>
    BY <1>2, EmptySeq, ConcatEmptySeq
  <2>2. About(<<>>, d) = {}
    BY DEF About
  <2>3. QED
    BY <1>2, <2>1, <2>2 DEF Shows, LatestIs
<1>4. Len(next.queue) <= Capacity /\ Len(next.writing) <= 1
  BY <1>2, EmptySeq, CapacityAssumption
<1>5. /\ clients' = [clients EXCEPT ![c] = next] /\ stale' = [stale EXCEPT ![c] = {}]
      /\ presence' = presence
  BY <1>2 DEF RegisterClient, n
<1>6. QED
  BY <1>2, <1>3, <1>4, <1>5, OneConsole

LEMMA ReceiveKeeps ==
  ASSUME IInv, NEW c \in Client, Receive(c)
  PROVE  ConsolesSound'
<1>1. PICK cl \in ClientState : cl = clients[c]
  BY ConsoleIs
<1>2. /\ cl.at = "select" /\ cl.queue # <<>> /\ cl.writing = <<>>
      /\ Len(cl.queue) <= Capacity
      /\ \A d \in Device \ stale[c] : Shows(cl, d, presence[d])
  BY <1>1, ConsoleIs DEF Receive
<1>3. PICK q \in Seq(Event) : q = cl.queue
  BY ClientFields
<1>4. PICK h \in Event, t \in Seq(Event) : h = Head(q) /\ t = Tail(q)
  BY <1>2, <1>3, HeadTailProperties
<1> DEFINE n == [cl EXCEPT !.at = "writing", !.writing = <<h>>, !.queue = t]
<1>5. <<h>> \in Seq(Event) /\ Len(<<h>>) = 1
  OBVIOUS
<1>6. <<h>> \o t = q
  <2>1. Len(q) \in Nat /\ Len(q) > 0 /\ Len(t) = Len(q) - 1
        /\ h = q[1] /\ \A i \in 1 .. Len(t) : t[i] = q[i + 1]
    BY <1>2, <1>3, <1>4, HeadTailProperties, EmptySeq, LenProperties
  <2>2. PICK one \in Seq(Event) : one = <<h>>
    BY <1>5
  <2>3. /\ one \o t \in Seq(Event) /\ Len(one \o t) = Len(q)
        /\ (one \o t)[1] = h
        /\ \A i \in 1 .. Len(t) : (one \o t)[1 + i] = t[i]
    <3>1. Len(one) = 1 /\ one[1] = h
      BY <2>2
    <3>2. QED
      BY <2>1, <3>1, StreamOf
  <2>4. ASSUME NEW i \in 1 .. Len(q) PROVE (one \o t)[i] = q[i]
    <3>1. CASE i = 1
      BY <2>1, <2>3, <3>1
    <3>2. CASE i # 1
      <4>1. i - 1 \in 1 .. Len(t) /\ 1 + (i - 1) = i /\ (i - 1) + 1 = i
        BY <2>1, <3>2
      <4>2. QED
        BY <2>1, <2>3, <4>1
    <3>3. QED
      BY <3>1, <3>2
  <2>5. QED
    BY <2>2, <2>3, <2>4, SeqEqual
<1>7. /\ n \in ClientState /\ n.at = "writing" /\ n.view = cl.view
      /\ n.writing = <<h>> /\ n.queue = t
  BY <1>5 DEF ClientState
<1>8. clients' = [clients EXCEPT ![c] = n] /\ stale' = stale /\ presence' = presence
  BY <1>1, <1>3, <1>4 DEF Receive, IInv, TypeOK
<1> HIDE DEF n
<1>9. PICK next \in ClientState :
         /\ next = n /\ next.at = "writing" /\ next.view = cl.view
         /\ next.writing = <<h>> /\ next.queue = t
  BY <1>7
<1>10. next.writing \o next.queue = cl.writing \o cl.queue
  BY <1>2, <1>3, <1>6, <1>9, ConcatEmptySeq
<1>11. \A d \in Device \ stale'[c] : Shows(next, d, presence[d])
  BY <1>2, <1>8, <1>9, <1>10 DEF Shows
<1>12. Len(next.queue) <= Capacity /\ Len(next.writing) <= 1
  <2>1. Len(t) = Len(q) - 1 /\ Len(q) \in Nat
    BY <1>2, <1>3, <1>4, HeadTailProperties, LenProperties
  <2>2. QED
    BY <1>2, <1>3, <1>5, <1>9, <2>1, CapacityAssumption
<1>13. QED
  BY <1>8, <1>9, <1>11, <1>12, OneConsole

LEMMA FlushKeeps ==
  ASSUME IInv, NEW c \in Client, Flush(c)
  PROVE  ConsolesSound'
<1>1. PICK cl \in ClientState : cl = clients[c]
  BY ConsoleIs
<1>2. /\ cl.at = "writing" /\ Len(cl.queue) <= Capacity
      /\ \A d \in Device \ stale[c] : Shows(cl, d, presence[d])
  BY <1>1, ConsoleIs DEF Flush
<1>3. PICK v \in [Device -> {"unknown", "online", "offline"}] : v = Seen(cl.view, cl.writing)
  BY ClientFields, SeenIs
<1> DEFINE n == [cl EXCEPT !.at = "select", !.writing = <<>>, !.view = v]
<1>4. /\ n \in ClientState /\ n.at = "select" /\ n.view = v
      /\ n.writing = <<>> /\ n.queue = cl.queue
  BY EmptySeq DEF ClientState
<1>5. clients' = [clients EXCEPT ![c] = n] /\ stale' = stale /\ presence' = presence
  BY <1>1, <1>3 DEF Flush, IInv, TypeOK
<1> HIDE DEF n
<1>6. PICK next \in ClientState :
         /\ next = n /\ next.at = "select" /\ next.view = v
         /\ next.writing = <<>> /\ next.queue = cl.queue
  BY <1>4
<1>7. next.writing \o next.queue = cl.queue
  BY <1>6, ClientFields, ConcatEmptySeq
<1>8. ASSUME NEW d \in Device \ stale[c] PROVE Shows(next, d, presence[d])
  <2>1. Shows(cl, d, presence[d])
    BY <1>2
  <2>2. PICK p : p = presence[d]
    OBVIOUS
  <2>3. /\ LatestIs(cl.writing \o cl.queue, d, p)
        /\ About(cl.writing \o cl.queue, d) = {} /\ cl.view[d] # "unknown" => cl.view[d] = p
    BY <2>1, <2>2 DEF Shows
  <2>4. /\ LatestIs(cl.queue, d, p)
        /\ About(cl.queue, d) = {} /\ Seen(cl.view, cl.writing)[d] # "unknown"
             => Seen(cl.view, cl.writing)[d] = p
    <3>1. PICK w \in Seq(Event), q \in Seq(Event) : w = cl.writing /\ q = cl.queue
      BY ClientFields
    <3>2. PICK u \in [Device -> {"unknown", "online", "offline"}] : u = cl.view
      BY ClientFields
    <3>3. /\ LatestIs(w \o q, d, p)
          /\ About(w \o q, d) = {} /\ u[d] # "unknown" => u[d] = p
      BY <2>3, <3>1, <3>2
    <3>4. /\ LatestIs(q, d, p)
          /\ About(q, d) = {} /\ Seen(u, w)[d] # "unknown" => Seen(u, w)[d] = p
      BY <3>3, StreamRead
    <3>5. QED
      BY <3>1, <3>2, <3>4
  <2>5. QED
    BY <1>3, <1>6, <1>7, <2>2, <2>4 DEF Shows
<1>9. Len(next.queue) <= Capacity /\ Len(next.writing) <= 1
  BY <1>2, <1>6, EmptySeq
<1>10. QED
  BY <1>5, <1>6, <1>8, <1>9, OneConsole

\* The handler moves on, and no event does.
LEMMA HandlerMoves ==
  ASSUME IInv, NEW c \in Client, Disconnect(c) \/ Return(c)
  PROVE  ConsolesSound'
<1>1. PICK cl \in ClientState : cl = clients[c]
  BY ConsoleIs
<1>2. /\ cl.at # "gone" /\ Len(cl.queue) <= Capacity /\ Len(cl.writing) <= 1
      /\ cl.at \in {"select", "leaving"} => cl.writing = <<>>
      /\ \A d \in Device \ stale[c] : Shows(cl, d, presence[d])
  BY <1>1, ConsoleIs DEF Disconnect, Return, Registered
<1>3. \E next \in ClientState :
         /\ clients' = [clients EXCEPT ![c] = next]
         /\ next.queue = cl.queue /\ next.writing = cl.writing /\ next.view = cl.view
         /\ next.at = cl.at \/ (cl.at = "select" /\ next.at = "leaving")
  <2>1. CASE Disconnect(c)
    <3> DEFINE n == [cl EXCEPT !.cancelled = TRUE]
    <3>1. /\ n \in ClientState /\ n.at = cl.at
          /\ n.queue = cl.queue /\ n.writing = cl.writing /\ n.view = cl.view
      BY DEF ClientState
    <3>2. clients' = [clients EXCEPT ![c] = n]
      BY <1>1, <2>1 DEF Disconnect
    <3> HIDE DEF n
    <3>3. QED
      BY <3>1, <3>2
  <2>2. CASE Return(c)
    <3> DEFINE n == [cl EXCEPT !.at = "leaving"]
    <3>1. /\ n \in ClientState /\ n.at = "leaving"
          /\ n.queue = cl.queue /\ n.writing = cl.writing /\ n.view = cl.view
      BY DEF ClientState
    <3>2. clients' = [clients EXCEPT ![c] = n] /\ cl.at = "select"
      BY <1>1, <2>2 DEF Return
    <3> HIDE DEF n
    <3>3. QED
      BY <3>1, <3>2
  <2>3. QED
    BY <2>1, <2>2
<1>4. PICK next \in ClientState :
         /\ clients' = [clients EXCEPT ![c] = next]
         /\ next.queue = cl.queue /\ next.writing = cl.writing /\ next.view = cl.view
         /\ next.at = cl.at \/ (cl.at = "select" /\ next.at = "leaving")
  BY <1>3
<1>5. \A d \in Device \ stale[c] : Shows(next, d, presence[d])
  BY <1>2, <1>4 DEF Shows
<1>6. stale' = stale /\ presence' = presence
  BY DEF Disconnect, Return
<1>7. QED
  BY <1>2, <1>4, <1>5, <1>6, OneConsole

LEMMA UnregisterClientKeeps ==
  ASSUME IInv, NEW c \in Client, UnregisterClient(c)
  PROVE  ConsolesSound'
<1>1. Len(Gone.queue) <= Capacity /\ Len(Gone.writing) <= 1
  BY GoneRecord, EmptySeq, CapacityAssumption
<1>2. PICK next \in ClientState :
         /\ next = Gone /\ next.at = "gone"
         /\ Len(next.queue) <= Capacity /\ Len(next.writing) <= 1
  BY <1>1, GoneRecord
<1>3. QED
  BY <1>2, OneConsole DEF UnregisterClient

-----------------------------------------------------------------------------
(* Devices and the watchdog *)

\* What a step does to the clocks of the devices.
ClocksSound ==
    /\ presence \in [Device -> {"new", "online", "offline"}]
    /\ quiet \in [Device -> 0 .. TTL + 1]
    /\ ticked \in BOOLEAN
    /\ due \subseteq Device /\ scan \subseteq Device
    /\ posts \in [Post -> Device \cup {NoDevice}]
    /\ OnlySilentDue

LEMMA InvariantParts == IInv <=> ConsolesSound /\ ClocksSound
  BY DEF IInv, TypeOK, ConsolesSound, ClocksSound

LEMMA ConsolesStay ==
  ASSUME IInv, UNCHANGED <<clients, stale, presence>>
  PROVE  ConsolesSound'
<1>1. StreamsSound'
  BY DEF IInv, StreamsSound, Registered
<1>2. QED
  BY <1>1 DEF IInv, TypeOK, ConsolesSound

\* A heartbeat takes the device out of what the tick in the channel is about.
LEMMA HeardKeeps ==
  ASSUME IInv, NEW d \in Device, Unlocked, Heard(d), UNCHANGED scan
  PROVE  /\ quiet' \in [Device -> 0 .. TTL + 1] /\ due' \subseteq Device
         /\ OnlySilentDue'
<1>1. quiet' \in [Device -> 0 .. TTL + 1]
  BY TimeAssumption DEF IInv, TypeOK, Heard
<1>2. OnlySilentDue'
  BY DEF IInv, TypeOK, OnlySilentDue, Heard, Unlocked
<1>3. QED
  BY <1>1, <1>2 DEF IInv, TypeOK, Heard

LEMMA RegisterAgentKeeps ==
  ASSUME IInv, NEW d \in Device, RegisterAgent(d)
  PROVE  IInv'
<1>1. PICK e \in Event : e = [event |-> "online", dev |-> d]
  BY DEF Event
<1>2. ConsolesSound'
  BY <1>1, BroadcastKeeps DEF RegisterAgent
<1>3. ClocksSound'
  BY HeardKeeps DEF RegisterAgent, ClocksSound, IInv, TypeOK
<1>4. QED
  BY <1>2, <1>3, InvariantParts, PTL

LEMMA UnregisterAgentKeeps ==
  ASSUME IInv, NEW d \in Device, UnregisterAgent(d)
  PROVE  IInv'
<1>1. PICK e \in Event : e = [event |-> "offline", dev |-> d]
  BY DEF Event
<1>2. ConsolesSound'
  BY <1>1, BroadcastKeeps DEF UnregisterAgent
<1>3. ClocksSound'
  BY DEF UnregisterAgent, ClocksSound, OnlySilentDue, IInv, TypeOK
<1>4. QED
  BY <1>2, <1>3, InvariantParts, PTL

LEMMA WatchdogEvictKeeps ==
  ASSUME IInv, NEW d \in Device, WatchdogEvict(d)
  PROVE  IInv'
<1>1. PICK e \in Event : e = [event |-> "offline", dev |-> d]
  BY DEF Event
<1>2. ConsolesSound'
  BY <1>1, BroadcastKeeps DEF WatchdogEvict
<1>3. ClocksSound'
  BY DEF WatchdogEvict, ClocksSound, OnlySilentDue, IInv, TypeOK
<1>4. QED
  BY <1>2, <1>3, InvariantParts, PTL

LEMMA TelemetryHeartbeatKeeps ==
  ASSUME IInv, NEW p \in Post, TelemetryHeartbeat(p)
  PROVE  IInv'
<1>1. PICK d \in Device : RecordHeartbeat(d) /\ posts' = [posts EXCEPT ![p] = d]
  BY DEF TelemetryHeartbeat
<1>2. /\ Unlocked /\ UNCHANGED <<presence, ticked, scan, clients, stale>>
  BY DEF TelemetryHeartbeat
<1>3. ConsolesSound'
  BY <1>2, ConsolesStay
<1>4. quiet' \in [Device -> 0 .. TTL + 1] /\ due' \subseteq Device /\ OnlySilentDue'
  <2>1. CASE Heard(d)
    BY <1>2, <2>1, HeardKeeps
  <2>2. CASE UNCHANGED <<quiet, due>>
    BY <1>2, <2>2 DEF IInv, TypeOK, OnlySilentDue
  <2>3. QED
    BY <1>1, <2>1, <2>2 DEF RecordHeartbeat
<1>5. ClocksSound'
  BY <1>1, <1>2, <1>4 DEF ClocksSound, IInv, TypeOK
<1>6. QED
  BY <1>3, <1>5, InvariantParts, PTL

LEMMA TelemetryBroadcastKeeps ==
  ASSUME IInv, NEW p \in Post, TelemetryBroadcast(p)
  PROVE  IInv'
<1>1. posts[p] \in Device
  BY DEF TelemetryBroadcast, IInv, TypeOK
<1>2. PICK e \in Event : e = [event |-> "telemetry", dev |-> posts[p]]
  BY <1>1 DEF Event
<1>3. ConsolesSound'
  BY <1>2, BroadcastKeeps DEF TelemetryBroadcast
<1>4. ClocksSound'
  BY DEF TelemetryBroadcast, ClocksSound, OnlySilentDue, IInv, TypeOK
<1>5. QED
  BY <1>3, <1>4, InvariantParts, PTL

LEMMA ClientKeeps ==
  ASSUME IInv, NEW c \in Client,
         \/ RegisterClient(c) \/ Receive(c) \/ Flush(c)
         \/ Disconnect(c) \/ Return(c) \/ UnregisterClient(c)
  PROVE  IInv'
<1>1. ConsolesSound'
  BY RegisterClientKeeps, ReceiveKeeps, FlushKeeps, HandlerMoves, UnregisterClientKeeps
<1>2. UNCHANGED <<presence, quiet, ticked, due, scan, posts>>
  BY DEF RegisterClient, Receive, Flush, Disconnect, Return, UnregisterClient
<1>3. ClocksSound'
  BY <1>2 DEF ClocksSound, OnlySilentDue, IInv, TypeOK
<1>4. QED
  BY <1>1, <1>3, InvariantParts, PTL

LEMMA TickKeeps ==
  ASSUME IInv, Tick
  PROVE  IInv'
<1>1. ConsolesSound'
  BY ConsolesStay DEF Tick
<1>2. ASSUME NEW d \in Device
      PROVE  quiet'[d] \in 0 .. TTL + 1 /\ (quiet[d] > TTL => quiet'[d] > TTL)
  <2>1. quiet[d] \in 0 .. TTL + 1 /\ quiet'[d] = IF quiet[d] > TTL THEN quiet[d] ELSE quiet[d] + 1
    BY DEF Tick, IInv, TypeOK
  <2>2. QED
    BY <2>1, TimeAssumption
<1>3. quiet' \in [Device -> 0 .. TTL + 1]
  BY <1>2 DEF Tick
<1>4. due' \subseteq Device /\ OnlySilentDue'
  <2>1. due \subseteq Device /\ scan \subseteq Device /\ scan' = scan
        /\ \A d \in due \cup scan : quiet[d] > TTL
    BY DEF Tick, IInv, TypeOK, OnlySilentDue
  <2>2. due' = IF ticked THEN due ELSE {d \in Device : quiet'[d] > TTL}
    BY DEF Tick
  <2>3. QED
    BY <1>2, <2>1, <2>2 DEF OnlySilentDue
<1>5. ClocksSound'
  BY <1>3, <1>4 DEF Tick, ClocksSound, IInv, TypeOK
<1>6. QED
  BY <1>1, <1>5, InvariantParts, PTL

LEMMA WatchdogLockKeeps ==
  ASSUME IInv, WatchdogLock
  PROVE  IInv'
<1>1. ConsolesSound'
  BY ConsolesStay DEF WatchdogLock
<1>2. ClocksSound'
  BY DEF WatchdogLock, ClocksSound, OnlySilentDue, IInv, TypeOK
<1>3. QED
  BY <1>1, <1>2, InvariantParts, PTL

LEMMA InitIInv == Init => IInv
<1> SUFFICES ASSUME Init PROVE IInv
  OBVIOUS
<1>1. ConsolesSound
  <2>1. \A c \in Client : clients[c] = Gone
    BY DEF Init
  <2>2. Len(Gone.queue) <= Capacity /\ Len(Gone.writing) <= 1
    BY GoneRecord, EmptySeq, CapacityAssumption
  <2>3. clients \in [Client -> ClientState] /\ stale \in [Client -> SUBSET Device]
    BY GoneRecord DEF Init
  <2>4. StreamsSound
    BY <2>1, GoneRecord DEF StreamsSound, Registered
  <2>5. QED
    BY <2>1, <2>2, <2>3, <2>4 DEF ConsolesSound
<1>2. ClocksSound
  <2>1. 0 \in 0 .. TTL + 1
    BY TimeAssumption
  <2>2. QED
    BY <2>1 DEF Init, ClocksSound, OnlySilentDue
<1>3. QED
  BY <1>1, <1>2, InvariantParts

-----------------------------------------------------------------------------
(* Theorems *)

\* The inductive invariant holds in every behaviour of the hub.
THEOREM InvariantHolds == Spec => []IInv
<1>1. IInv /\ [Next]_vars => IInv'
  <2> SUFFICES ASSUME IInv, [Next]_vars PROVE IInv'
    OBVIOUS
  <2>1. ASSUME NEW d \in Device, RegisterAgent(d) \/ UnregisterAgent(d) PROVE IInv'
    BY <2>1, RegisterAgentKeeps, UnregisterAgentKeeps
  <2>2. ASSUME NEW p \in Post, TelemetryHeartbeat(p) \/ TelemetryBroadcast(p) PROVE IInv'
    BY <2>2, TelemetryHeartbeatKeeps, TelemetryBroadcastKeeps
  <2>3. ASSUME NEW c \in Client,
               \/ RegisterClient(c) \/ Receive(c) \/ Flush(c)
               \/ Disconnect(c) \/ Return(c) \/ UnregisterClient(c)
        PROVE  IInv'
    BY <2>3, ClientKeeps
  <2>4. CASE Tick
    BY <2>4, TickKeeps
  <2>5. CASE Watchdog
    BY <2>5, WatchdogLockKeeps, WatchdogEvictKeeps DEF Watchdog
  <2>6. CASE UNCHANGED vars
    <3>1. ConsolesSound'
      BY <2>6, ConsolesStay DEF vars
    <3>2. ClocksSound'
      BY <2>6 DEF vars, ClocksSound, OnlySilentDue, IInv, TypeOK
    <3>3. QED
      BY <3>1, <3>2, InvariantParts, PTL
  <2>7. QED
    BY <2>1, <2>2, <2>3, <2>4, <2>5, <2>6 DEF Next
<1>2. QED
  BY <1>1, InitIInv, PTL DEF Spec

\* Every variable keeps its shape, and no console's buffer ever exceeds its
\* capacity: a broadcast to a full one drops the event (broadcastToOrgLocked).
THEOREM TypeCorrect == Spec => []TypeOK
<1>1. IInv => TypeOK
  BY DEF IInv
<1>2. QED
  BY <1>1, InvariantHolds, PTL

\* A console that has read what is buffered for it shows each device as the hub
\* has it, or nothing, unless its own buffer dropped the latest event about that
\* device: the order of the events in each stream is that of the changes.
THEOREM ConsolesAreCurrent == Spec => []ConsoleCurrent
<1>1. IInv => ConsoleCurrent
  <2> SUFFICES ASSUME IInv, NEW c \in Client, Registered(c), NEW d \in Device \ stale[c],
                      Told(c)[d] # "unknown"
               PROVE  Told(c)[d] = presence[d]
    BY DEF ConsoleCurrent
  <2>1. PICK cl \in ClientState : cl = clients[c]
    BY ConsoleIs
  <2>2. Shows(cl, d, presence[d])
    BY <2>1, ConsoleIs DEF Registered
  <2>3. PICK s \in Seq(Event) : s = cl.writing \o cl.queue
    BY ClientFields, StreamOf
  <2>4. PICK p : p = presence[d]
    OBVIOUS
  <2>5. /\ LatestIs(s, d, p)
        /\ About(s, d) = {} /\ cl.view[d] # "unknown" => cl.view[d] = p
    BY <2>2, <2>3, <2>4 DEF Shows
  <2>6. Seen(cl.view, s)[d] # "unknown" => Seen(cl.view, s)[d] = p
    BY <2>5, ClientFields, SeenIs
  <2>7. QED
    BY <2>1, <2>3, <2>4, <2>6 DEF Told
<1>2. QED
  BY <1>1, InvariantHolds, PTL

\* The watchdog takes no agent offline that was heard from within the TTL,
\* however late it takes its tick.
THEOREM EvictionsAreOfSilent == Spec => EvictsOnlySilent
<1> DEFINE A == \A d \in Device :
                   presence[d] = "online" /\ presence'[d] = "offline" /\ scan # scan' =>
                      quiet[d] > TTL
<1>1. IInv /\ [Next]_vars => [A]_vars
  <2> SUFFICES ASSUME IInv, Next, NEW d \in Device,
                      presence[d] = "online", presence'[d] = "offline", scan # scan'
               PROVE  quiet[d] > TTL
    OBVIOUS
  <2>1. PICK x \in Device : WatchdogEvict(x)
    BY DEF Next, RegisterAgent, UnregisterAgent, TelemetryHeartbeat, TelemetryBroadcast,
           RegisterClient, Receive, Flush, Disconnect, Return, UnregisterClient, Tick,
           Watchdog, WatchdogLock
  <2>2. x = d
    BY <2>1 DEF WatchdogEvict, IInv, TypeOK
  <2>3. QED
    BY <2>1, <2>2 DEF WatchdogEvict, IInv, OnlySilentDue
<1>2. QED
  BY <1>1, InvariantHolds, PTL DEF Spec, EvictsOnlySilent
=============================================================================
