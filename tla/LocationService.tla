-------------------------- MODULE LocationService --------------------------
(***************************************************************************)
(* The location service: the drivers' sockets (sockets.js), the status     *)
(* endpoint (server.js) and the sharded GEO index with the driver keys of  *)
(* Redis behind them (geo.js).                                             *)
(*                                                                         *)
(* Everything is kept in Redis and every handler is a row of awaited       *)
(* commands, one action each; between two of them the handlers of other    *)
(* sockets, or of the same one, run.  A task is a handler under way:       *)
(*   connect     read -> online -> online_trip                             *)
(*   disconnect  leave -> offline -> offline_trip -> forget -> drop        *)
(*                     -> unset                                            *)
(*   ping        locate -> move -> add -> set -> follow                    *)
(*   on_trip     book -> book_trip        (called by the dispatcher)       *)
(*   online      online -> online_trip    (called by the trip service)     *)
(*                                                                         *)
(* A position is the shard it falls into.  ioredis repeats a command until *)
(* it is answered (maxRetriesPerRequest null), so commands do not fail;    *)
(* the process can die at any of them.                                     *)
(***************************************************************************)
EXTENDS Naturals, FiniteSets

CONSTANTS
  Drivers, Shards, Trips,
  None,         \* no driver, shard or trip
  Tasks,        \* handlers under way at the same time
  Limit,        \* candidates a search asks for
  MaxSockets,   \* bound: sockets a driver has open at the same time
  MaxHandlers,  \* bound: handlers begun
  MaxFaults     \* bound: deaths of the process, restarts of a shard's Redis

ASSUME DriversAssumption == IsFiniteSet(Drivers)
ASSUME NoneAssumption == None \notin Drivers \cup Shards \cup Trips
ASSUME LimitAssumption == Limit \in Nat \ {0}
ASSUME BoundsAssumption == {MaxSockets, MaxHandlers, MaxFaults} \subseteq Nat

VARIABLES
  status,    \* driver:status of each driver, "none" before the first one
  trip,      \* driver:trip
  shard,     \* driver:shard, where he is remembered to be indexed
  geo,       \* the drivers in the GEO set of each shard
  open,      \* sockets each driver has open
  task,      \* the handlers under way
  ride,      \* the trip each driver is on for dispatcher and trip service
  ridden,    \* the trips that have had a driver
  search,    \* one findNearby under way
  tangled,   \* history: drivers whose index updates overlapped or were cut
  strayed,   \* history: drivers whose ride and status were torn apart
  crossed,   \* history: drivers whose presence no lone handler decided
  disturbed, \* history: drivers who changed since the search began
  begun, faults

keys == <<status, trip, shard>>
rides == <<ride, ridden>>
history == <<tangled, strayed, crossed>>
bounds == <<begun, faults>>
vars == <<keys, geo, open, task, rides, search, history, disturbed, bounds>>

Idle == [at |-> "idle", driver |-> None, arg |-> None, old |-> None, socket |-> FALSE]
NoSearch == [asked |-> {}, hits |-> {}]

Init ==
  /\ status = [d \in Drivers |-> "none"]
  /\ trip = [d \in Drivers |-> None] /\ shard = [d \in Drivers |-> None]
  /\ geo = [s \in Shards |-> {}]
  /\ open = [d \in Drivers |-> 0]
  /\ task = [h \in Tasks |-> Idle]
  /\ ride = [d \in Drivers |-> None] /\ ridden = {}
  /\ search = NoSearch
  /\ tangled = {} /\ strayed = {} /\ crossed = {} /\ disturbed = {}
  /\ begun = 0 /\ faults = 0

-----------------------------------------------------------------------------
(* Handlers.                                                               *)

Driver(h) == task[h].driver
At(h, label) == task[h].at = label
Goto(h, label) == task' = [task EXCEPT ![h].at = label]
End(h) == task' = [task EXCEPT ![h] = Idle]
\* arg is the shard of a ping and the trip of an on_trip, old a shard read
\* from driver:shard, socket whether the socket that connects is still open.
Begin(h, label, d, x, connects) ==
  /\ task[h] = Idle /\ begun < MaxHandlers
  /\ begun' = begun + 1
  /\ task' = [task EXCEPT ![h] = [at |-> label, driver |-> d, arg |-> x,
                                 old |-> None, socket |-> connects]]

\* A handler of the driver, other than h, is at one of these commands.
Running(d, labels) == \E h \in Tasks : Driver(h) = d /\ task[h].at \in labels
Other(h, labels) == \E g \in Tasks \ {h} : Driver(g) = Driver(h) /\ task[g].at \in labels
Quiet(d) == \A h \in Tasks : Driver(h) # d
Unattached(d) == {h \in Tasks : Driver(h) = d /\ task[h].socket}

Connecting == {"read", "online", "online_trip"}
Leaving == {"leave", "offline", "offline_trip", "forget", "drop", "unset"}
Presence == Connecting \cup Leaving
Booking == {"book", "book_trip"}
\* Past the status they have read, and about to write status or trip.
Deciding == {"online", "online_trip", "offline", "offline_trip"}
Indexing == {"locate", "move", "add", "set", "forget", "drop", "unset"}

-----------------------------------------------------------------------------
(* A driver's sockets.                                                     *)

Connect(h, d) ==
  /\ open[d] + Cardinality(Unattached(d)) < MaxSockets
  /\ Begin(h, "read", d, None, TRUE)
  /\ crossed' = IF Running(d, Presence) THEN crossed \cup {d} ELSE crossed \ {d}
  /\ UNCHANGED <<keys, geo, open, rides, search, tangled, strayed, faults>>

\* The socket's listeners are attached once its connection handler is through.
Attach(h) == open' = [open EXCEPT ![Driver(h)] = @ + IF task[h].socket THEN 1 ELSE 0]

\* Until then nobody hears that it closes.
CloseUnheard(h) ==
  /\ task[h].socket
  /\ task' = [task EXCEPT ![h].socket = FALSE]
  /\ crossed' = crossed \cup {Driver(h)}
  /\ UNCHANGED <<keys, geo, open, rides, search, tangled, strayed, bounds>>

\* Mutants: whoever connects is online; only one without any status is.
ReadAnyway(h) ==
  /\ At(h, "read")
  /\ Goto(h, "online")
  /\ UNCHANGED <<keys, geo, open, rides, search, history, bounds>>
ReadFirstOnly(h) ==
  /\ At(h, "read")
  /\ IF status[Driver(h)] # "none"
     THEN End(h) /\ Attach(h)
     ELSE Goto(h, "online") /\ UNCHANGED open
  /\ UNCHANGED <<keys, geo, rides, search, history, bounds>>

\* getStatus; a driver who is mid-trip comes back as on_trip.
Read(h) ==
  /\ At(h, "read")
  /\ IF status[Driver(h)] = "on_trip"
     THEN End(h) /\ Attach(h)
     ELSE Goto(h, "online") /\ UNCHANGED open
  /\ UNCHANGED <<keys, geo, rides, search, history, bounds>>

\* A socket closes, of a driver who may have another one open by now.
Disconnect(h, d) ==
  /\ open[d] > 0
  /\ Begin(h, "leave", d, None, FALSE)
  /\ open' = [open EXCEPT ![d] = @ - 1]
  /\ crossed' = IF open[d] > 1 \/ Running(d, Presence) THEN crossed \cup {d} ELSE crossed
  /\ UNCHANGED <<keys, geo, rides, search, tangled, strayed, faults>>

Leave(h) ==
  /\ At(h, "leave")
  /\ IF status[Driver(h)] = "on_trip" THEN End(h) ELSE Goto(h, "offline")
  /\ UNCHANGED <<keys, geo, open, rides, search, history, bounds>>

-----------------------------------------------------------------------------
(* setStatus: the status first, then the keys that follow from it.         *)

SetStatus(d, s) == status' = [status EXCEPT ![d] = s]
DelTrip(d) == trip' = [trip EXCEPT ![d] = None]

\* A driver sent online without a socket stays so.
Online(h) ==
  LET d == Driver(h) IN
  /\ At(h, "online")
  /\ SetStatus(d, "online")
  /\ Goto(h, "online_trip")
  /\ crossed' = IF open[d] = 0 /\ Unattached(d) = {} THEN crossed \cup {d} ELSE crossed
  /\ UNCHANGED <<trip, shard, geo, open, rides, search, tangled, strayed, bounds>>

OnlineTrip(h) ==
  /\ At(h, "online_trip")
  /\ DelTrip(Driver(h))
  /\ End(h) /\ Attach(h)
  /\ UNCHANGED <<status, shard, geo, rides, search, history, bounds>>

Offline(h) ==
  /\ At(h, "offline")
  /\ SetStatus(Driver(h), "offline")
  /\ Goto(h, "offline_trip")
  /\ UNCHANGED <<trip, shard, geo, open, rides, search, history, bounds>>

\* From here on the handler updates the index (removeDriver).
OfflineTrip(h) ==
  /\ At(h, "offline_trip")
  /\ DelTrip(Driver(h))
  /\ Goto(h, "forget")
  /\ tangled' = IF Other(h, Indexing) THEN tangled \cup {Driver(h)} ELSE tangled
  /\ UNCHANGED <<status, shard, geo, open, rides, search, strayed, crossed, bounds>>

\* The dispatcher has the driver's acceptance.
Book(h, d, t) ==
  /\ status[d] # "none" /\ ride[d] = None /\ t \notin ridden
  /\ Begin(h, "book", d, t, FALSE)
  /\ ride' = [ride EXCEPT ![d] = t]
  /\ ridden' = ridden \cup {t}
  /\ UNCHANGED <<keys, geo, open, search, history, faults>>

\* Whoever has read the status before this, overwrites it after.
OnTrip(h) ==
  LET d == Driver(h) IN
  /\ At(h, "book")
  /\ SetStatus(d, "on_trip")
  /\ Goto(h, "book_trip")
  /\ strayed' = IF Other(h, Deciding) THEN strayed \cup {d} ELSE strayed \ {d}
  /\ UNCHANGED <<trip, shard, geo, open, rides, search, tangled, crossed, bounds>>

OnTripTrip(h) ==
  /\ At(h, "book_trip")
  /\ trip' = [trip EXCEPT ![Driver(h)] = task[h].arg]
  /\ End(h)
  /\ UNCHANGED <<status, shard, geo, open, rides, search, history, bounds>>

\* The trip is over: the trip service sends its driver online.
EndRide(h, d) ==
  /\ ride[d] # None /\ ~Running(d, Booking)
  /\ ride' = [ride EXCEPT ![d] = None]
  /\ Begin(h, "online", d, None, FALSE)
  /\ UNCHANGED <<keys, geo, open, ridden, search, history, faults>>

\* That call is lost, which the trip service does not notice.
EndRideLost(d) ==
  /\ ride[d] # None /\ ~Running(d, Booking)
  /\ ride' = [ride EXCEPT ![d] = None]
  /\ strayed' = strayed \cup {d}
  /\ UNCHANGED <<keys, geo, open, task, ridden, search, tangled, crossed, bounds>>

-----------------------------------------------------------------------------
(* The GEO index: upsertDriver and removeDriver.                           *)

Ping(h, d, s) ==
  /\ open[d] > 0
  /\ Begin(h, "locate", d, s, FALSE)
  /\ tangled' = IF Running(d, Indexing) THEN tangled \cup {d} ELSE tangled
  /\ UNCHANGED <<keys, geo, open, rides, search, strayed, crossed, faults>>

\* GET driver:shard, to leave that shard first where it is another one.
Locate(h) ==
  LET old == shard[Driver(h)] IN
  /\ At(h, "locate")
  /\ IF old \in {None, task[h].arg}
     THEN Goto(h, "add")
     ELSE task' = [task EXCEPT ![h].at = "move", ![h].old = old]
  /\ UNCHANGED <<keys, geo, open, rides, search, history, bounds>>

Zrem(s, d) == geo' = [geo EXCEPT ![s] = @ \ {d}]

\* Mutant: the driver stays in the shard he has left.
MoveStaying(h) ==
  /\ At(h, "move")
  /\ Goto(h, "add")
  /\ UNCHANGED <<keys, geo, open, rides, search, history, bounds>>

Move(h) ==
  /\ At(h, "move")
  /\ Zrem(task[h].old, Driver(h))
  /\ Goto(h, "add")
  /\ UNCHANGED <<keys, open, rides, search, history, bounds>>

Add(h) ==
  /\ At(h, "add")
  /\ geo' = [geo EXCEPT ![task[h].arg] = @ \cup {Driver(h)}]
  /\ Goto(h, "set")
  /\ UNCHANGED <<keys, open, rides, search, history, bounds>>

\* SET driver:shard; what follows (supply counters, the fan-out to the
\* rider's room) changes none of these keys.
Set(h) ==
  /\ At(h, "set")
  /\ shard' = [shard EXCEPT ![Driver(h)] = task[h].arg]
  /\ End(h)
  /\ UNCHANGED <<status, trip, geo, open, rides, search, history, bounds>>

Forget(h) ==
  LET old == shard[Driver(h)] IN
  /\ At(h, "forget")
  /\ task' = [task EXCEPT ![h].at = IF old = None THEN "unset" ELSE "drop", ![h].old = old]
  /\ UNCHANGED <<keys, geo, open, rides, search, history, bounds>>

Drop(h) ==
  /\ At(h, "drop")
  /\ Zrem(task[h].old, Driver(h))
  /\ Goto(h, "unset")
  /\ UNCHANGED <<keys, open, rides, search, history, bounds>>

Unset(h) ==
  /\ At(h, "unset")
  /\ shard' = [shard EXCEPT ![Driver(h)] = None]
  /\ End(h)
  /\ UNCHANGED <<status, trip, geo, open, rides, search, history, bounds>>

-----------------------------------------------------------------------------
(* findNearby: one GEOSEARCH a shard, answered at different times, then    *)
(* one MGET of the statuses.  Which drivers are nearest is left open.      *)

\* What ASC COUNT Limit, or slice(0, limit), can leave of a set.
Nearest(S) == {N \in SUBSET S : IF Cardinality(S) <= Limit THEN N = S ELSE Cardinality(N) = Limit}

SearchShard(s) ==
  /\ s \notin search.asked
  /\ \E N \in Nearest(geo[s]) :
       search' = [asked |-> search.asked \cup {s},
                  hits |-> search.hits \cup {<<d, s>> : d \in N}]
  /\ UNCHANGED <<keys, geo, open, task, rides, history, bounds>>

FreeOf(hits) == {x \in hits : status[x[1]] = "online"}

\* Mutant: the limit is applied before the filter.
FoundSliced(hits) == {FreeOf(N) : N \in Nearest(hits)}

\* The candidates MGET, the filter on online and the slice can leave.
Found(hits) == Nearest(FreeOf(hits))

Searched == search.asked = Shards

SearchEnd ==
  /\ Searched
  /\ search' = NoSearch
  /\ UNCHANGED <<keys, geo, open, task, rides, history, bounds>>

-----------------------------------------------------------------------------
(* Disturbances.                                                           *)

\* The process dies: its sockets close without their handlers, commands
\* under way are the last ones.  A dispatch that waited for it fails.
Crash ==
  /\ faults < MaxFaults
  /\ faults' = faults + 1
  /\ open' = [d \in Drivers |-> 0]
  /\ task' = [h \in Tasks |-> Idle]
  /\ ride' = [d \in Drivers |-> IF Running(d, Booking) THEN None ELSE ride[d]]
  /\ search' = NoSearch
  /\ tangled' = tangled \cup {d \in Drivers : Running(d, Indexing)}
  /\ strayed' = strayed \cup {d \in Drivers : Running(d, Booking \cup Deciding)}
  /\ crossed' = crossed \cup {d \in Drivers : open[d] > 0 \/ Running(d, Presence)}
  /\ UNCHANGED <<keys, geo, ridden, begun>>

\* A shard loses its GEO set.
Restart(s) ==
  /\ faults < MaxFaults
  /\ faults' = faults + 1
  /\ geo' = [geo EXCEPT ![s] = {}]
  /\ UNCHANGED <<keys, open, task, rides, search, history, begun>>

-----------------------------------------------------------------------------
Handle(h) ==
  \/ Read(h) \/ Leave(h) \/ Online(h) \/ OnlineTrip(h) \/ Offline(h) \/ OfflineTrip(h)
  \/ OnTrip(h) \/ OnTripTrip(h)
  \/ Locate(h) \/ Move(h) \/ Add(h) \/ Set(h) \/ Forget(h) \/ Drop(h) \/ Unset(h)

Where(d) == {s \in Shards : d \in geo[s]}

Step ==
  \/ \E h \in Tasks, d \in Drivers :
       \/ Connect(h, d) \/ Disconnect(h, d) \/ EndRide(h, d)
       \/ \E t \in Trips : Book(h, d, t)
       \/ \E s \in Shards : Ping(h, d, s)
  \/ \E h \in Tasks : CloseUnheard(h) \/ Handle(h)
  \/ \E d \in Drivers : EndRideLost(d)
  \/ \E s \in Shards : SearchShard(s) \/ Restart(s)
  \/ SearchEnd
  \/ Crash

\* History: who changes status or shard while a search is under way.
Watch ==
  disturbed' = IF search'.asked = {} THEN {}
               ELSE disturbed \cup {d \in Drivers : status'[d] # status[d] \/ Where(d)' # Where(d)}

Next == Step /\ Watch

Spec == Init /\ [][Next]_vars

-----------------------------------------------------------------------------
(* Properties.                                                             *)

Labels == {"idle"} \cup Connecting \cup Leaving \cup Booking \cup Indexing

Rows == [at : Labels, driver : Drivers \cup {None}, arg : Shards \cup Trips \cup {None},
         old : Shards \cup {None}, socket : BOOLEAN]

TaskOK(row) ==
  /\ row.at = "idle" <=> row.driver = None
  /\ row.socket => row.at \in Connecting
  /\ row.at \in {"locate", "move", "add", "set"} => row.arg \in Shards
  /\ row.at \in Booking => row.arg \in Trips
  /\ row.at \in {"move", "drop"} => row.old \in Shards

\* Every variable keeps its shape; a handler that takes a driver out of a
\* shard knows which one.
TypeOK ==
  /\ status \in [Drivers -> {"none", "online", "on_trip", "offline"}]
  /\ trip \in [Drivers -> Trips \cup {None}]
  /\ shard \in [Drivers -> Shards \cup {None}]
  /\ geo \in [Shards -> SUBSET Drivers]
  /\ open \in [Drivers -> Nat]
  /\ task \in [Tasks -> Rows] /\ \A h \in Tasks : TaskOK(task[h])
  /\ ride \in [Drivers -> Trips \cup {None}] /\ ridden \subseteq Trips
  /\ search \in [asked : SUBSET Shards, hits : SUBSET (Drivers \X Shards)]
  /\ tangled \cup strayed \cup crossed \cup disturbed \subseteq Drivers
  /\ {begun, faults} \subseteq Nat

\* A driver is never in two shards, and in none but the one remembered for
\* him, through every move, disconnect and reconnect: unless two updates of
\* his overlapped, or one was cut by a crash.
IndexedOnce ==
  \A d \in Drivers \ tangled :
    /\ \A s, r \in Where(d) : s = r
    /\ ~Running(d, Indexing) => Where(d) \subseteq {shard[d]}

\* The status and the trip of a driver follow his rides, through any number
\* of dropped and reopened sockets: unless a handler had read his status
\* before he was booked and wrote its own after, or a call was lost.
RideIsStatus ==
  \A d \in Drivers \ strayed :
    /\ ride[d] # None /\ ~Running(d, Booking) => status[d] = "on_trip" /\ trip[d] = ride[d]
    /\ ride[d] = None /\ Quiet(d) => status[d] # "on_trip" /\ trip[d] = None

\* A driver with a socket can be found and one without cannot, once his
\* sockets' handlers have ended: unless they overlapped, one closed before
\* its listeners were attached or after a newer one opened, or his ride ended
\* while he was away.
PresenceFollowsSocket ==
  \A d \in Drivers \ crossed : ~Running(d, Presence) =>
    IF open[d] > 0 THEN status[d] \in {"online", "on_trip"} ELSE status[d] # "online"

\* A search meets a driver in two shards, and returns him twice, only if he
\* changed during the search or was in both already.
FoundOnce ==
  \A x, y \in search.hits : x[1] = y[1] => x = y \/ x[1] \in disturbed \cup tangled

\* A driver who was online in his shard all through a search is found,
\* unless the limit was reached: by free drivers in the result, or by any
\* in the answer of his shard.
StayersFound ==
  Searched =>
    \A found \in Found(search.hits), d \in Drivers \ disturbed : \A s \in Where(d) :
      status[d] = "online" =>
        \/ <<d, s>> \in found
        \/ <<d, s>> \in search.hits /\ Cardinality(found) = Limit
        \/ <<d, s>> \notin search.hits /\ Cardinality({x \in search.hits : x[2] = s}) = Limit

=============================================================================
