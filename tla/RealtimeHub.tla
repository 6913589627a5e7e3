----------------------------- MODULE RealtimeHub -----------------------------
(***************************************************************************)
(* The hub of the realtime gateway: which agents are online, and the event *)
(* stream of every admin console of one organization.                      *)
(*                                                                         *)
(* Every method of Hub runs under its lock, so each is one step, but for   *)
(* the watchdog, which sends several events under one lock while the       *)
(* console handlers, which take no lock to receive, go on reading.  The    *)
(* unit of time is the period of the watchdog's ticker.                    *)
(***************************************************************************)
EXTENDS Integers, Sequences

CONSTANTS
    Device,
    Client,     \* event streams that may be open at the same time
    Post,       \* POST /agent/telemetry requests that may run at the same time
    TTL,        \* heartbeatTTL, in ticker periods
    Capacity,   \* the buffer of ClientSession.SendChan
    NoDevice

ASSUME TimeAssumption == TTL \in Nat \ {0}
ASSUME CapacityAssumption == Capacity \in Nat \ {0}
ASSUME NoneAssumption == NoDevice \notin Device

VARIABLES
    presence,   \* "online": in h.agents; "new" and "offline": not in it
    quiet,      \* periods since LastHeartbeat, counted up to TTL + 1
    ticked,     \* whether the ticker's channel holds a tick
    due,        \* devices whose LastHeartbeat is more than TTL before that tick
    scan,       \* devices the watchdog still has to evict, holding the lock
    clients,    \* the console streams
    stale,      \* devices whose latest presence event a console's buffer dropped
    posts       \* telemetry requests between RecordHeartbeat and BroadcastToOrg

vars == <<presence, quiet, ticked, due, scan, clients, stale, posts>>

-----------------------------------------------------------------------------
Event == [event : {"online", "offline", "telemetry"}, dev : Device]

\* at: the SSE handler waits in its select, writes to the connection, returns,
\* or has unregistered; cancelled: the request's context is done; view: the last
\* presence event written for each device.
ClientState ==
    [at : {"gone", "select", "writing", "leaving"}, cancelled : BOOLEAN, queue : Seq(Event),
     writing : Seq(Event), view : [Device -> {"unknown", "online", "offline"}]]

Gone == [at |-> "gone", cancelled |-> FALSE, queue |-> <<>>, writing |-> <<>>,
         view |-> [d \in Device |-> "unknown"]]

Registered(c) == clients[c].at # "gone"

\* The hub's lock is free.
Unlocked == scan = {}

HasRoom(c) == Len(clients[c].queue) < Capacity

MayBroadcastBlocking == \A c \in Client : Registered(c) => HasRoom(c)

\* broadcastToOrgLocked selects with a default: it never waits for a console.
MayBroadcast == TRUE

TakesIgnoringRoom(c) == Registered(c)

\* The buffer of a console accepts one more event.
Takes(c) == Registered(c) /\ HasRoom(c)

\* A slip the properties are tested against: a full buffer drops its oldest
\* event to make room.
BroadcastDroppingOldest(e) ==
    /\ clients' = [c \in Client |->
          IF Takes(c) THEN [clients[c] EXCEPT !.queue = Append(@, e)]
          ELSE IF Registered(c) THEN [clients[c] EXCEPT !.queue = Append(Tail(@), e)]
          ELSE clients[c]]
    /\ stale' = [c \in Client |-> IF Registered(c) THEN stale[c] \ {e.dev} ELSE stale[c]]

\* broadcastToOrgLocked: every console whose buffer has room gets the event.
Broadcast(e) ==
    /\ MayBroadcast
    /\ clients' = [c \in Client |->
          IF Takes(c) THEN [clients[c] EXCEPT !.queue = Append(@, e)] ELSE clients[c]]
    /\ stale' = [c \in Client |->
          IF e.event = "telemetry" \/ ~Registered(c) THEN stale[c]
          ELSE IF Takes(c) THEN stale[c] \ {e.dev} ELSE stale[c] \cup {e.dev}]

-----------------------------------------------------------------------------
Init ==
    /\ presence = [d \in Device |-> "new"]
    /\ quiet = [d \in Device |-> 0]
    /\ ticked = FALSE
    /\ due = {}
    /\ scan = {}
    /\ clients = [c \in Client |-> Gone]
    /\ stale = [c \in Client |-> {}]
    /\ posts = [p \in Post |-> NoDevice]

HeardForgottenByTick(d) == quiet' = [quiet EXCEPT ![d] = 0] /\ UNCHANGED due

\* LastHeartbeat becomes now, later than any tick still in the channel.
Heard(d) == quiet' = [quiet EXCEPT ![d] = 0] /\ due' = due \ {d}

(* A session registered for a device that has one replaces it. *)
RegisterAgent(d) ==
    /\ Unlocked
    /\ presence' = [presence EXCEPT ![d] = "online"]
    /\ Heard(d)
    /\ Broadcast([event |-> "online", dev |-> d])
    /\ UNCHANGED <<ticked, scan, posts>>

UnregisterAgent(d) ==
    /\ Unlocked
    /\ presence[d] = "online"
    /\ presence' = [presence EXCEPT ![d] = "offline"]
    /\ Broadcast([event |-> "offline", dev |-> d])
    /\ UNCHANGED <<quiet, ticked, due, scan, posts>>

\* A device that is not registered is not looked at.
RecordHeartbeat(d) ==
    IF presence[d] = "online" THEN Heard(d) ELSE UNCHANGED <<quiet, due>>

(* BroadcastTelemetry takes the lock twice, the second time for reading: the
   order in which two of them reach two consoles may differ, which no console
   can tell. *)
TelemetryHeartbeat(p) ==
    /\ Unlocked
    /\ posts[p] = NoDevice
    /\ \E d \in Device : RecordHeartbeat(d) /\ posts' = [posts EXCEPT ![p] = d]
    /\ UNCHANGED <<presence, ticked, scan, clients, stale>>

TelemetryBroadcast(p) ==
    /\ Unlocked
    /\ posts[p] # NoDevice
    /\ Broadcast([event |-> "telemetry", dev |-> posts[p]])
    /\ posts' = [posts EXCEPT ![p] = NoDevice]
    /\ UNCHANGED <<presence, quiet, ticked, due, scan>>

(* RegisterClient: every stream gets a user identifier of its own, and starts
   by writing an event that only says it is connected. *)
RegisterClient(c) ==
    /\ Unlocked
    /\ ~Registered(c)
    /\ clients' = [clients EXCEPT ![c] = [Gone EXCEPT !.at = "writing"]]
    /\ stale' = [stale EXCEPT ![c] = {}]
    /\ UNCHANGED <<presence, quiet, ticked, due, scan, posts>>

(* The handler receives an event and starts to write it. *)
Receive(c) ==
    /\ clients[c].at = "select"
    /\ clients[c].queue # <<>>
    /\ clients' = [clients EXCEPT ![c].at = "writing",
                                  ![c].writing = <<Head(clients[c].queue)>>,
                                  ![c].queue = Tail(@)]
    /\ UNCHANGED <<presence, quiet, ticked, due, scan, stale, posts>>

\* The view of a console after the events of s, device by device.
Seen(view, s) ==
    [d \in Device |->
       LET about == {k \in DOMAIN s : s[k].dev = d /\ s[k].event # "telemetry"}
       IN  IF about = {} THEN view[d]
           ELSE s[CHOOSE k \in about : \A j \in about : j <= k].event]

(* The write ends; a stalled connection may hold it for as long as it likes. *)
Flush(c) ==
    /\ clients[c].at = "writing"
    /\ clients' = [clients EXCEPT ![c].at = "select",
                                  ![c].writing = <<>>,
                                  ![c].view = Seen(@, clients[c].writing)]
    /\ UNCHANGED <<presence, quiet, ticked, due, scan, stale, posts>>

(* The console closes its connection. *)
Disconnect(c) ==
    /\ Registered(c)
    /\ ~clients[c].cancelled
    /\ clients' = [clients EXCEPT ![c].cancelled = TRUE]
    /\ UNCHANGED <<presence, quiet, ticked, due, scan, stale, posts>>

(* The handler's select takes the case of the context being done. *)
Return(c) ==
    /\ clients[c].at = "select"
    /\ clients[c].cancelled
    /\ clients' = [clients EXCEPT ![c].at = "leaving"]
    /\ UNCHANGED <<presence, quiet, ticked, due, scan, stale, posts>>

(* The deferred UnregisterClient removes the stream, then closes its channel. *)
UnregisterClient(c) ==
    /\ Unlocked
    /\ clients[c].at = "leaving"
    /\ clients' = [clients EXCEPT ![c] = Gone]
    /\ stale' = [stale EXCEPT ![c] = {}]
    /\ UNCHANGED <<presence, quiet, ticked, due, scan, posts>>

(* A period passes.  The channel of a time.Ticker holds one tick: the next
   ones are dropped until the watchdog takes it. *)
Tick ==
    /\ quiet' = [d \in Device |-> IF quiet[d] > TTL THEN quiet[d] ELSE quiet[d] + 1]
    /\ ticked' = TRUE
    /\ due' = IF ticked THEN due ELSE {d \in Device : quiet'[d] > TTL}
    /\ UNCHANGED <<presence, scan, clients, stale, posts>>

(* The watchdog takes the tick, locks the hub and finds the agents whose last
   heartbeat is more than TTL before the tick. *)
WatchdogLock ==
    /\ Unlocked
    /\ ticked
    /\ ticked' = FALSE
    /\ due' = {}
    /\ scan' = {d \in due : presence[d] = "online"}
    /\ UNCHANGED <<presence, quiet, clients, stale, posts>>

(* One of them goes; the lock is released after the last. *)
WatchdogEvict(d) ==
    /\ d \in scan
    /\ scan' = scan \ {d}
    /\ presence' = [presence EXCEPT ![d] = "offline"]
    /\ Broadcast([event |-> "offline", dev |-> d])
    /\ UNCHANGED <<quiet, ticked, due, posts>>

Watchdog == WatchdogLock \/ \E d \in Device : WatchdogEvict(d)

Next ==
    \/ \E d \in Device : RegisterAgent(d) \/ UnregisterAgent(d)
    \/ \E p \in Post : TelemetryHeartbeat(p) \/ TelemetryBroadcast(p)
    \/ \E c \in Client :
          \/ RegisterClient(c) \/ Receive(c) \/ Flush(c)
          \/ Disconnect(c) \/ Return(c) \/ UnregisterClient(c)
    \/ Tick
    \/ Watchdog

Spec == Init /\ [][Next]_vars

\* Time passes, the watchdog goroutine runs, a write on a closed connection
\* returns, a select that finds the context done over and over takes that case
\* some time (Go picks among the ready ones at random), and whoever waits for
\* the lock gets it (sync.RWMutex starves nobody).  Nothing makes a console
\* read.
Fairness ==
    /\ WF_vars(Tick)
    /\ WF_vars(Watchdog)
    /\ \A c \in Client :
          /\ WF_vars(clients[c].cancelled /\ Flush(c))
          /\ SF_vars(Return(c)) /\ SF_vars(UnregisterClient(c))

FairSpec == Spec /\ Fairness

-----------------------------------------------------------------------------
(* Properties *)

\* Every variable keeps its shape, and no buffer exceeds its capacity.
TypeOK ==
    /\ presence \in [Device -> {"new", "online", "offline"}]
    /\ quiet \in [Device -> 0 .. TTL + 1]
    /\ ticked \in BOOLEAN
    /\ due \subseteq Device /\ scan \subseteq Device
    /\ clients \in [Client -> ClientState]
    /\ \A c \in Client : Len(clients[c].queue) <= Capacity /\ Len(clients[c].writing) <= 1
    /\ stale \in [Client -> SUBSET Device]
    /\ posts \in [Post -> Device \cup {NoDevice}]

\* What a console will show once it has read everything buffered for it.
Told(c) == Seen(clients[c].view, clients[c].writing \o clients[c].queue)

\* A console is wrong about a device only if its buffer dropped the latest
\* presence event of that device: whatever else was dropped, the order of the
\* events in the stream is the order of the changes in the hub.
ConsoleCurrent ==
    \A c \in Client : Registered(c) =>
       \A d \in Device \ stale[c] :
          Told(c)[d] # "unknown" => Told(c)[d] = presence[d]

\* The watchdog evicts no agent heard from within the TTL, however late it
\* takes its tick and whatever heartbeats arrive while the tick waits.
EvictsOnlySilent ==
    [][\A d \in Device :
          presence[d] = "online" /\ presence'[d] = "offline" /\ scan # scan' =>
             quiet[d] > TTL]_vars

\* An agent that falls silent is taken offline, unless it is heard again:
\* no console, reading or stalled, can hold the watchdog up.
SilenceDetected ==
    \A d \in Device :
       presence[d] = "online" ~> presence[d] = "offline" \/ quiet[d] = 0

\* The stream of a console that disconnected is unregistered, however many
\* events keep arriving for it.
DisconnectedLeaves ==
    \A c \in Client : Registered(c) /\ clients[c].cancelled ~> ~clients[c].cancelled
=============================================================================
