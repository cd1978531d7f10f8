------------------------ MODULE LocationServiceProofs ------------------------
(***************************************************************************)
(* Proofs about LocationService, for any drivers, shards and trips and any *)
(* number of handlers under way.                                           *)
(***************************************************************************)
EXTENDS LocationService, TLAPS, FiniteSetTheorems

-----------------------------------------------------------------------------
(* What a command does to the handlers under way.                          *)

TasksOK == task \in [Tasks -> Rows] /\ \A h \in Tasks : TaskOK(task[h])

\* Handler h has this row now; the others keep theirs.
Becomes(h, row) ==
  /\ task'[h] = row
  /\ \A g \in Tasks \ {h} : task'[g] = task[g]

LEMMA NewTask ==
  ASSUME TasksOK, NEW h \in Tasks, NEW row \in Rows, TaskOK(row), task' = [task EXCEPT ![h] = row]
  PROVE  TasksOK' /\ Becomes(h, row)
<1>1. task' \in [Tasks -> Rows] /\ Becomes(h, row)
  <2> HIDE DEF Rows
  <2> QED BY DEF TasksOK, Becomes
<1>2. \A g \in Tasks : TaskOK(task'[g]) BY <1>1 DEF TasksOK, Becomes
<1> QED BY <1>1, <1>2 DEF TasksOK

\* A row that goes on is a row.
LEMMA RowGoes ==
  ASSUME NEW row \in Rows, NEW label \in Labels, NEW x \in Shards \cup {None}
  PROVE  /\ [row EXCEPT !.at = label] \in Rows
         /\ [row EXCEPT !.at = label, !.old = x] \in Rows
         /\ [row EXCEPT !.socket = FALSE] \in Rows
<1> HIDE DEF Labels
<1> QED BY DEF Rows

\* What handler h is at now, all else about it being as before.
Goes(h, label) ==
  /\ task'[h].at = label /\ task'[h].driver = task[h].driver
  /\ task'[h].arg = task[h].arg /\ task'[h].old = task[h].old /\ task'[h].socket = task[h].socket
  /\ \A g \in Tasks \ {h} : task'[g] = task[g]

Ends(h) == task'[h] = Idle /\ \A g \in Tasks \ {h} : task'[g] = task[g]

Begins(h, label, d, x, c) ==
  /\ task[h] = Idle
  /\ task'[h] = [at |-> label, driver |-> d, arg |-> x, old |-> None, socket |-> c]
  /\ \A g \in Tasks \ {h} : task'[g] = task[g]

LEMMA EndTask == ASSUME TasksOK, NEW h \in Tasks, End(h) PROVE TasksOK' /\ Ends(h)
<1>1. Idle \in Rows /\ TaskOK(Idle)
  BY DEF Idle, Rows, Labels, TaskOK, Connecting, Booking
<1>2. task' = [task EXCEPT ![h] = Idle] BY Zenon DEF End
<1> HIDE DEF Idle
<1> QED BY <1>1, <1>2, NewTask DEF Becomes, Ends

\* The labels a handler may take without breaking TaskOK.
May(h, label) ==
  /\ label \in Labels \ {"idle"} /\ task[h].at # "idle"
  /\ task[h].socket => label \in Connecting
  /\ label \in {"locate", "move", "add", "set"} => task[h].arg \in Shards
  /\ label \in Booking => task[h].arg \in Trips
  /\ label \in {"move", "drop"} => task[h].old \in Shards

LEMMA GotoTask ==
  ASSUME TasksOK, NEW h \in Tasks, NEW label, May(h, label), Goto(h, label)
  PROVE  TasksOK' /\ Goes(h, label)
<1> DEFINE r == [task[h] EXCEPT !.at = label]
<1>1. r \in Rows BY RowGoes DEF TasksOK, May
<1>2. task' = [task EXCEPT ![h] = r] BY DEF Goto, TasksOK
<1>3. /\ r.at = label /\ r.driver = task[h].driver /\ r.arg = task[h].arg
      /\ r.old = task[h].old /\ r.socket = task[h].socket
  BY DEF TasksOK, Rows
<1> HIDE DEF r
<1>4. TaskOK(r) BY <1>3 DEF TasksOK, TaskOK, May
<1> QED BY <1>1, <1>2, <1>3, <1>4, NewTask DEF Becomes, Goes

LEMMA BeginTask ==
  ASSUME TasksOK, NEW h \in Tasks, NEW label \in Labels \ {"idle"}, NEW d \in Drivers,
         NEW x \in Shards \cup Trips \cup {None}, NEW c \in BOOLEAN,
         Begin(h, label, d, x, c),
         TaskOK([at |-> label, driver |-> d, arg |-> x, old |-> None, socket |-> c])
  PROVE  TasksOK' /\ Begins(h, label, d, x, c)
<1> DEFINE r == [at |-> label, driver |-> d, arg |-> x, old |-> None, socket |-> c]
<1>1. r \in Rows BY DEF Rows
<1>2. task' = [task EXCEPT ![h] = r] /\ task[h] = Idle BY DEF Begin
<1> HIDE DEF r
<1>3. TaskOK(r) BY DEF r
<1>4. TasksOK' /\ task'[h] = r /\ \A g \in Tasks \ {h} : task'[g] = task[g]
  BY <1>1, <1>2, <1>3, NewTask DEF Becomes
<1> QED BY <1>2, <1>4 DEF r, Begins

\* A handler that goes on with a shard it has read.
MayTake(h, label, x) ==
  /\ label \in {"move", "drop", "unset"} /\ x \in Shards \cup {None}
  /\ ~task[h].socket /\ task[h].at # "idle"
  /\ label = "move" => task[h].arg \in Shards
  /\ label # "unset" => x \in Shards

LEMMA OldTask ==
  ASSUME TasksOK, NEW h \in Tasks, NEW label, NEW x, MayTake(h, label, x),
         task' = [task EXCEPT ![h].at = label, ![h].old = x]
  PROVE  /\ TasksOK'
         /\ task'[h].at = label /\ task'[h].driver = task[h].driver /\ task'[h].arg = task[h].arg
         /\ task'[h].old = x /\ ~task'[h].socket
         /\ \A g \in Tasks \ {h} : task'[g] = task[g]
<1> DEFINE r == [task[h] EXCEPT !.at = label, !.old = x]
<1>0. label \in Labels /\ label \notin Booking /\ label # "idle" /\ x \in Shards \cup {None}
  BY DEF MayTake, Labels, Leaving, Indexing, Booking
<1>1. r \in Rows BY <1>0, RowGoes DEF TasksOK
<1>2. task' = [task EXCEPT ![h] = r] BY Zenon
<1>3. /\ r.at = label /\ r.driver = task[h].driver /\ r.arg = task[h].arg
      /\ r.old = x /\ r.socket = task[h].socket
  BY DEF TasksOK, Rows
<1> HIDE DEF r
<1>4. TaskOK(r) BY <1>0, <1>3 DEF TasksOK, TaskOK, MayTake
<1>5. ~r.socket BY <1>3 DEF MayTake
<1>6. TasksOK' /\ task'[h] = r /\ \A g \in Tasks \ {h} : task'[g] = task[g]
  BY <1>1, <1>2, <1>4, NewTask DEF Becomes
<1> QED BY <1>3, <1>5, <1>6

-----------------------------------------------------------------------------
(* Handlers of each kind are rows of commands.                             *)

LEMMA ConnectTask == ASSUME TasksOK, NEW h \in Tasks, NEW d \in Drivers, Connect(h, d)
  PROVE TasksOK' /\ Begins(h, "read", d, None, TRUE)
<1>1. TaskOK([at |-> "read", driver |-> d, arg |-> None, old |-> None, socket |-> TRUE])
  BY NoneAssumption DEF TaskOK, Connecting, Booking, NoneAssumption
<1> QED BY <1>1, BeginTask DEF Connect, Labels, Connecting

LEMMA DisconnectTask == ASSUME TasksOK, NEW h \in Tasks, NEW d \in Drivers, Disconnect(h, d)
  PROVE TasksOK' /\ Begins(h, "leave", d, None, FALSE)
<1>1. TaskOK([at |-> "leave", driver |-> d, arg |-> None, old |-> None, socket |-> FALSE])
  BY NoneAssumption DEF TaskOK, Connecting, Booking, NoneAssumption
<1> QED BY <1>1, BeginTask DEF Disconnect, Labels, Leaving

LEMMA EndRideTask == ASSUME TasksOK, NEW h \in Tasks, NEW d \in Drivers, EndRide(h, d)
  PROVE TasksOK' /\ Begins(h, "online", d, None, FALSE)
<1>1. TaskOK([at |-> "online", driver |-> d, arg |-> None, old |-> None, socket |-> FALSE])
  BY NoneAssumption DEF TaskOK, Connecting, Booking, NoneAssumption
<1> QED BY <1>1, BeginTask DEF EndRide, Labels, Connecting

LEMMA BookTask == ASSUME TasksOK, NEW h \in Tasks, NEW d \in Drivers, NEW t \in Trips, Book(h, d, t)
  PROVE TasksOK' /\ Begins(h, "book", d, t, FALSE)
<1>1. TaskOK([at |-> "book", driver |-> d, arg |-> t, old |-> None, socket |-> FALSE])
  BY NoneAssumption DEF TaskOK, Connecting, Booking, NoneAssumption
<1> QED BY <1>1, BeginTask DEF Book, Labels, Booking

LEMMA PingTask == ASSUME TasksOK, NEW h \in Tasks, NEW d \in Drivers, NEW s \in Shards, Ping(h, d, s)
  PROVE TasksOK' /\ Begins(h, "locate", d, s, FALSE)
<1>1. TaskOK([at |-> "locate", driver |-> d, arg |-> s, old |-> None, socket |-> FALSE])
  BY NoneAssumption DEF TaskOK, Connecting, Booking, NoneAssumption
<1> QED BY <1>1, BeginTask DEF Ping, Labels, Indexing

LEMMA CloseTask == ASSUME TasksOK, NEW h \in Tasks, CloseUnheard(h)
  PROVE /\ TasksOK' /\ task[h].at \in Connecting
        /\ task'[h].at = task[h].at /\ task'[h].driver = task[h].driver
        /\ task'[h].arg = task[h].arg /\ task'[h].old = task[h].old
        /\ \A g \in Tasks \ {h} : task'[g] = task[g]
<1> DEFINE r == [task[h] EXCEPT !.socket = FALSE]
<1>1. r \in Rows BY RowGoes DEF TasksOK, Labels
<1>2. task' = [task EXCEPT ![h] = r] BY DEF CloseUnheard, TasksOK
<1>3. /\ r.at = task[h].at /\ r.driver = task[h].driver /\ r.arg = task[h].arg
      /\ r.old = task[h].old /\ ~r.socket
  BY DEF TasksOK, Rows
<1> HIDE DEF r
<1>4. TaskOK(r) BY <1>3 DEF TasksOK, TaskOK
<1>5. task[h].at \in Connecting BY DEF TasksOK, TaskOK, CloseUnheard
<1> QED BY <1>1, <1>2, <1>3, <1>4, <1>5, NewTask DEF Becomes

LEMMA ReadTask == ASSUME TasksOK, NEW h \in Tasks, Read(h)
  PROVE TasksOK' /\ IF status[Driver(h)] = "on_trip" THEN Ends(h) ELSE Goes(h, "online")
<1>1. May(h, "online") BY DEF Read, At, May, Labels, Connecting, Booking
<1> QED BY <1>1, EndTask, GotoTask DEF Read

LEMMA LeaveTask == ASSUME TasksOK, NEW h \in Tasks, Leave(h)
  PROVE TasksOK' /\ IF status[Driver(h)] = "on_trip" THEN Ends(h) ELSE Goes(h, "offline")
<1>1. May(h, "offline")
  BY DEF Leave, At, May, Labels, Connecting, Leaving, Booking, TasksOK, TaskOK
<1> QED BY <1>1, EndTask, GotoTask DEF Leave

LEMMA OnlineTask == ASSUME TasksOK, NEW h \in Tasks, Online(h) PROVE TasksOK' /\ Goes(h, "online_trip")
<1>1. May(h, "online_trip") BY DEF Online, At, May, Labels, Connecting, Booking
<1> QED BY <1>1, GotoTask DEF Online

LEMMA OfflineTask == ASSUME TasksOK, NEW h \in Tasks, Offline(h) PROVE TasksOK' /\ Goes(h, "offline_trip")
<1>1. May(h, "offline_trip")
  BY DEF Offline, At, May, Labels, Connecting, Leaving, Booking, TasksOK, TaskOK
<1> QED BY <1>1, GotoTask DEF Offline

LEMMA OfflineTripTask == ASSUME TasksOK, NEW h \in Tasks, OfflineTrip(h) PROVE TasksOK' /\ Goes(h, "forget")
<1>1. May(h, "forget")
  BY DEF OfflineTrip, At, May, Labels, Connecting, Leaving, Booking, TasksOK, TaskOK
<1> QED BY <1>1, GotoTask DEF OfflineTrip

LEMMA OnTripTask == ASSUME TasksOK, NEW h \in Tasks, OnTrip(h) PROVE TasksOK' /\ Goes(h, "book_trip")
<1>1. May(h, "book_trip")
  BY DEF OnTrip, At, May, Labels, Connecting, Booking, TasksOK, TaskOK
<1> QED BY <1>1, GotoTask DEF OnTrip

LEMMA LocateTask == ASSUME TasksOK, shard \in [Drivers -> Shards \cup {None}], NEW h \in Tasks, Locate(h)
  PROVE /\ TasksOK'
        /\ \/ shard[Driver(h)] \in {None, task[h].arg} /\ Goes(h, "add")
           \/ /\ shard[Driver(h)] \notin {None, task[h].arg}
              /\ task'[h].at = "move" /\ task'[h].driver = task[h].driver
              /\ task'[h].arg = task[h].arg /\ task'[h].old = shard[Driver(h)] /\ ~task'[h].socket
              /\ \A g \in Tasks \ {h} : task'[g] = task[g]
<1>1. /\ task[h].arg \in Shards /\ ~task[h].socket /\ task[h].at # "idle" /\ Driver(h) \in Drivers
      /\ May(h, "add")
  BY DEF Locate, At, May, Labels, Connecting, Booking, Indexing, TasksOK, TaskOK, Rows, Driver
<1>2. CASE shard[Driver(h)] \in {None, task[h].arg}
  <2>1. Goto(h, "add") BY <1>2 DEF Locate
  <2> QED BY <1>1, <1>2, <2>1, GotoTask
<1>3. CASE shard[Driver(h)] \notin {None, task[h].arg}
  <2> DEFINE x == shard[Driver(h)]
  <2>1. x \in Shards /\ x \notin {None, task[h].arg} BY <1>1, <1>3
  <2>2. task' = [task EXCEPT ![h].at = "move", ![h].old = x] BY <1>3 DEF Locate
  <2>3. MayTake(h, "move", x) BY <1>1, <2>1 DEF MayTake
  <2> HIDE DEF x
  <2>4. /\ TasksOK'
        /\ task'[h].at = "move" /\ task'[h].driver = task[h].driver /\ task'[h].arg = task[h].arg
        /\ task'[h].old = x /\ ~task'[h].socket
        /\ \A g \in Tasks \ {h} : task'[g] = task[g]
    BY <1>1, <2>1, <2>2, <2>3, OldTask
  <2> QED BY <1>3, <2>4 DEF x
<1> QED BY <1>2, <1>3

LEMMA MoveTask == ASSUME TasksOK, NEW h \in Tasks, Move(h) PROVE TasksOK' /\ Goes(h, "add")
<1>1. May(h, "add")
  BY DEF Move, At, May, Labels, Connecting, Booking, Indexing, TasksOK, TaskOK
<1> QED BY <1>1, GotoTask DEF Move

LEMMA AddTask == ASSUME TasksOK, NEW h \in Tasks, Add(h) PROVE TasksOK' /\ Goes(h, "set")
<1>1. May(h, "set")
  BY DEF Add, At, May, Labels, Connecting, Booking, Indexing, TasksOK, TaskOK
<1> QED BY <1>1, GotoTask DEF Add

LEMMA ForgetTask == ASSUME TasksOK, shard \in [Drivers -> Shards \cup {None}], NEW h \in Tasks, Forget(h)
  PROVE /\ TasksOK'
        /\ task'[h].at = (IF shard[Driver(h)] = None THEN "unset" ELSE "drop")
        /\ task'[h].driver = task[h].driver /\ task'[h].old = shard[Driver(h)] /\ ~task'[h].socket
        /\ \A g \in Tasks \ {h} : task'[g] = task[g]
<1>1. ~task[h].socket /\ task[h].at # "idle" /\ Driver(h) \in Drivers
  BY DEF Forget, At, Connecting, TasksOK, TaskOK, Rows, Driver
<1>2. CASE shard[Driver(h)] = None
  <2>1. task' = [task EXCEPT ![h].at = "unset", ![h].old = None] BY <1>2 DEF Forget
  <2>2. MayTake(h, "unset", None) BY <1>1 DEF MayTake
  <2>3. /\ TasksOK' /\ task'[h].at = "unset" /\ task'[h].driver = task[h].driver
        /\ task'[h].old = None /\ ~task'[h].socket
        /\ \A g \in Tasks \ {h} : task'[g] = task[g]
    BY <2>1, <2>2, OldTask
  <2> QED BY <1>2, <2>3
<1>3. CASE shard[Driver(h)] # None
  <2> DEFINE x == shard[Driver(h)]
  <2>1. task' = [task EXCEPT ![h].at = "drop", ![h].old = x] BY <1>3 DEF Forget
  <2>2. MayTake(h, "drop", x) BY <1>1, <1>3 DEF MayTake
  <2> HIDE DEF x
  <2>3. /\ TasksOK' /\ task'[h].at = "drop" /\ task'[h].driver = task[h].driver
        /\ task'[h].old = x /\ ~task'[h].socket
        /\ \A g \in Tasks \ {h} : task'[g] = task[g]
    BY <1>1, <2>1, <2>2, OldTask
  <2> QED BY <1>3, <2>3 DEF x
<1> QED BY <1>2, <1>3

LEMMA DropTask == ASSUME TasksOK, NEW h \in Tasks, Drop(h) PROVE TasksOK' /\ Goes(h, "unset")
<1>1. May(h, "unset")
  BY DEF Drop, At, May, Labels, Connecting, Booking, Indexing, TasksOK, TaskOK
<1> QED BY <1>1, GotoTask DEF Drop

\* The last command of a handler.
LEMMA LastTask ==
  ASSUME TasksOK, NEW h \in Tasks, (OnlineTrip(h) \/ OnTripTrip(h) \/ Set(h) \/ Unset(h))
  PROVE  TasksOK' /\ Ends(h)
BY EndTask DEF OnlineTrip, OnTripTrip, Set, Unset

LEMMA CrashTask == ASSUME Crash PROVE TasksOK' /\ \A h \in Tasks : task'[h] = Idle
<1>1. Idle \in Rows /\ TaskOK(Idle)
  BY DEF Idle, Rows, Labels, TaskOK, Connecting, Booking
<1> HIDE DEF Idle, Rows
<1> QED BY <1>1 DEF Crash, TasksOK

-----------------------------------------------------------------------------
(* Types.                                                                  *)

MarksOK ==
  /\ tangled \subseteq Drivers /\ strayed \subseteq Drivers
  /\ crossed \subseteq Drivers /\ disturbed \subseteq Drivers
  /\ begun \in Nat /\ faults \in Nat

KeysOK ==
  /\ status \in [Drivers -> {"none", "online", "on_trip", "offline"}]
  /\ trip \in [Drivers -> Trips \cup {None}]
  /\ shard \in [Drivers -> Shards \cup {None}]
  /\ geo \in [Shards -> SUBSET Drivers]
  /\ open \in [Drivers -> Nat]
  /\ ride \in [Drivers -> Trips \cup {None}] /\ ridden \subseteq Trips
  /\ search \in [asked : SUBSET Shards, hits : SUBSET (Drivers \X Shards)]

LEMMA TypeParts == TypeOK <=> KeysOK /\ MarksOK /\ TasksOK
BY DEF TypeOK, KeysOK, MarksOK, TasksOK

\* A handler under way has a driver.
LEMMA HasDriver ==
  ASSUME TypeOK, NEW h \in Tasks, task[h].at # "idle"
  PROVE  task[h].driver \in Drivers
BY DEF TypeOK, TaskOK, Rows, Driver

LEMMA NearestPart == ASSUME NEW S, NEW N \in Nearest(S) PROVE N \subseteq S
BY DEF Nearest

\* What is only counted or remembered.
LEMMA StepMarks == ASSUME TypeOK, Step, Watch PROVE MarksOK'
<1>0. MarksOK /\ TasksOK BY TypeParts
<1>1. disturbed' \subseteq Drivers BY <1>0 DEF Watch, MarksOK
<1>2. \A h \in Tasks : task[h].at # "idle" => Driver(h) \in Drivers BY HasDriver DEF Driver
<1>3. \A h \in Tasks : task[h].socket => Driver(h) \in Drivers
  BY <1>0, <1>2 DEF TasksOK, TaskOK, Connecting
<1> USE DEF keys, rides, history, bounds, MarksOK
<1>4. ASSUME NEW h \in Tasks, NEW d \in Drivers,
             Connect(h, d) \/ Disconnect(h, d) \/ EndRide(h, d)
               \/ (\E t \in Trips : Book(h, d, t)) \/ (\E s \in Shards : Ping(h, d, s))
      PROVE MarksOK'
  <2>1. CASE Connect(h, d) BY <1>0, <1>1, <2>1 DEF Connect, Begin
  <2>2. CASE Disconnect(h, d) BY <1>0, <1>1, <2>2 DEF Disconnect, Begin
  <2>3. CASE EndRide(h, d) BY <1>0, <1>1, <2>3 DEF EndRide, Begin
  <2>4. ASSUME NEW t \in Trips, Book(h, d, t) PROVE MarksOK' BY <1>0, <1>1, <2>4 DEF Book, Begin
  <2>5. ASSUME NEW s \in Shards, Ping(h, d, s) PROVE MarksOK' BY <1>0, <1>1, <2>5 DEF Ping, Begin
  <2> QED BY <1>4, <2>1, <2>2, <2>3, <2>4, <2>5
<1>5. ASSUME NEW h \in Tasks, CloseUnheard(h) PROVE MarksOK'
  BY <1>0, <1>1, <1>3, <1>5 DEF CloseUnheard
<1>6. ASSUME NEW h \in Tasks, Handle(h) PROVE MarksOK'
  <2> USE DEF At
  <2>1. CASE Online(h) BY <1>0, <1>1, <1>2, <1>6, <2>1 DEF Online
  <2>2. CASE OfflineTrip(h) BY <1>0, <1>1, <1>2, <1>6, <2>2 DEF OfflineTrip
  <2>3. CASE OnTrip(h) BY <1>0, <1>1, <1>2, <1>6, <2>3 DEF OnTrip
  <2>4. CASE UNCHANGED <<history, bounds>> BY <1>0, <1>1, <2>4
  <2> QED BY <1>6, <2>1, <2>2, <2>3, <2>4 DEF Handle, Read, Leave, OnlineTrip, Offline,
        OnTripTrip, Locate, Move, Add, Set, Forget, Drop, Unset
<1>7. ASSUME NEW d \in Drivers, EndRideLost(d) PROVE MarksOK' BY <1>0, <1>1, <1>7 DEF EndRideLost
<1>8. ASSUME NEW s \in Shards, SearchShard(s) \/ Restart(s) PROVE MarksOK'
  BY <1>0, <1>1, <1>8 DEF SearchShard, Restart
<1>9. CASE SearchEnd BY <1>0, <1>1, <1>9 DEF SearchEnd
<1>10. CASE Crash BY <1>0, <1>1, <1>10 DEF Crash
<1> QED BY <1>4, <1>5, <1>6, <1>7, <1>8, <1>9, <1>10 DEF Step

LEMMA StepType == ASSUME TypeOK, Step, Watch PROVE TypeOK'
<1>0. KeysOK /\ TasksOK BY TypeParts
<1> USE DEF keys, rides, history, bounds
<1>1. ASSUME NEW h \in Tasks, NEW d \in Drivers, Connect(h, d) PROVE KeysOK' /\ TasksOK'
  BY <1>0, <1>1, ConnectTask DEF Connect, Begin, KeysOK
<1>2. ASSUME NEW h \in Tasks, NEW d \in Drivers, Disconnect(h, d) PROVE KeysOK' /\ TasksOK'
  <2>1. TasksOK' BY <1>0, <1>2, DisconnectTask
  <2>2. open' = [open EXCEPT ![d] = open[d] - 1] /\ open[d] > 0 BY <1>2 DEF Disconnect
  <2>3. open' \in [Drivers -> Nat] BY <1>0, <2>2 DEF KeysOK
  <2> QED BY <1>0, <1>2, <2>1, <2>3 DEF Disconnect, KeysOK
<1>3. ASSUME NEW h \in Tasks, NEW d \in Drivers, EndRide(h, d) PROVE KeysOK' /\ TasksOK'
  BY <1>0, <1>3, EndRideTask DEF EndRide, Begin, KeysOK
<1>4. ASSUME NEW h \in Tasks, NEW d \in Drivers, NEW t \in Trips, Book(h, d, t) PROVE KeysOK' /\ TasksOK'
  BY <1>0, <1>4, BookTask DEF Book, Begin, KeysOK
<1>5. ASSUME NEW h \in Tasks, NEW d \in Drivers, NEW s \in Shards, Ping(h, d, s) PROVE KeysOK' /\ TasksOK'
  BY <1>0, <1>5, PingTask DEF Ping, Begin, KeysOK
<1>6. ASSUME NEW h \in Tasks, CloseUnheard(h) PROVE KeysOK' /\ TasksOK'
  <2>1. Driver(h) \in Drivers BY <1>6, HasDriver, CloseTask, <1>0 DEF Driver, Connecting
  <2> QED BY <1>0, <1>6, <2>1, CloseTask DEF CloseUnheard, KeysOK
<1>7. ASSUME NEW h \in Tasks, Handle(h) PROVE KeysOK' /\ TasksOK'
  <2>0. Driver(h) \in Drivers
    BY <1>7, HasDriver DEF Handle, Driver, At, Read, Leave, Online, OnlineTrip, Offline, OfflineTrip,
       OnTrip, OnTripTrip, Locate, Move, Add, Set, Forget, Drop, Unset
  <2>1. CASE Read(h) BY <1>0, <2>0, <2>1, ReadTask DEF Read, Attach, KeysOK
  <2>2. CASE Leave(h) BY <1>0, <2>2, LeaveTask DEF Leave, KeysOK
  <2>3. CASE Online(h) BY <1>0, <2>0, <2>3, OnlineTask DEF Online, SetStatus, KeysOK
  <2>4. CASE OnlineTrip(h)
    <3>1. TasksOK' BY <1>0, <2>4, LastTask
    <3>2. open' \in [Drivers -> Nat] BY <1>0, <2>0, <2>4 DEF OnlineTrip, Attach, KeysOK
    <3>3. trip' \in [Drivers -> Trips \cup {None}] BY <1>0, <2>0, <2>4 DEF OnlineTrip, DelTrip, KeysOK
    <3> QED BY <1>0, <2>4, <3>1, <3>2, <3>3 DEF OnlineTrip, KeysOK
  <2>5. CASE Offline(h) BY <1>0, <2>0, <2>5, OfflineTask DEF Offline, SetStatus, KeysOK
  <2>6. CASE OfflineTrip(h) BY <1>0, <2>0, <2>6, OfflineTripTask DEF OfflineTrip, DelTrip, KeysOK
  <2>7. CASE OnTrip(h) BY <1>0, <2>0, <2>7, OnTripTask DEF OnTrip, SetStatus, KeysOK
  <2>8. CASE OnTripTrip(h)
    <3>1. task[h].arg \in Trips BY <1>0, <2>8 DEF OnTripTrip, At, TasksOK, TaskOK, Booking
    <3> QED BY <1>0, <2>0, <2>8, <3>1, LastTask DEF OnTripTrip, KeysOK
  <2>9. CASE Locate(h) BY <1>0, <2>0, <2>9, LocateTask DEF Locate, KeysOK
  <2>10. CASE Move(h) BY <1>0, <2>0, <2>10, MoveTask DEF Move, Zrem, KeysOK
  <2>11. CASE Add(h) BY <1>0, <2>0, <2>11, AddTask DEF Add, KeysOK
  <2>12. CASE Set(h)
    <3>1. task[h].arg \in Shards BY <1>0, <2>12 DEF Set, At, TasksOK, TaskOK
    <3> QED BY <1>0, <2>0, <2>12, <3>1, LastTask DEF Set, KeysOK
  <2>13. CASE Forget(h) BY <1>0, <2>0, <2>13, ForgetTask DEF Forget, KeysOK
  <2>14. CASE Drop(h) BY <1>0, <2>0, <2>14, DropTask DEF Drop, Zrem, KeysOK
  <2>15. CASE Unset(h) BY <1>0, <2>0, <2>15, LastTask DEF Unset, KeysOK
  <2> QED BY <1>7, <2>1, <2>2, <2>3, <2>4, <2>5, <2>6, <2>7, <2>8, <2>9, <2>10, <2>11, <2>12, <2>13,
       <2>14, <2>15 DEF Handle
<1>8. ASSUME NEW d \in Drivers, EndRideLost(d) PROVE KeysOK' /\ TasksOK'
  BY <1>0, <1>8 DEF EndRideLost, KeysOK, TasksOK
<1>9. ASSUME NEW s \in Shards, SearchShard(s) PROVE KeysOK' /\ TasksOK'
  <2>1. PICK N \in Nearest(geo[s]) :
          search' = [asked |-> search.asked \cup {s}, hits |-> search.hits \cup {<<d, s>> : d \in N}]
    BY <1>9 DEF SearchShard
  <2>2. N \subseteq Drivers BY <1>0, NearestPart DEF KeysOK
  <2>3. {<<d, s>> : d \in N} \subseteq Drivers \X Shards BY <2>2
  <2>4. search' \in [asked : SUBSET Shards, hits : SUBSET (Drivers \X Shards)]
    BY <1>0, <2>1, <2>3 DEF KeysOK
  <2> QED BY <1>0, <1>9, <2>4 DEF SearchShard, KeysOK, TasksOK
<1>10. ASSUME NEW s \in Shards, Restart(s) PROVE KeysOK' /\ TasksOK'
  BY <1>0, <1>10 DEF Restart, KeysOK, TasksOK
<1>11. ASSUME SearchEnd PROVE KeysOK' /\ TasksOK'
  <2>1. search' \in [asked : SUBSET Shards, hits : SUBSET (Drivers \X Shards)]
    BY <1>11 DEF SearchEnd, NoSearch
  <2>2. UNCHANGED <<status, trip, shard, geo, open, task, ride, ridden>> BY <1>11 DEF SearchEnd
  <2>3. TasksOK' BY <1>0, <2>2 DEF TasksOK
  <2>4. /\ status' = status /\ trip' = trip /\ shard' = shard /\ geo' = geo /\ open' = open
        /\ ride' = ride /\ ridden' = ridden
    BY <2>2
  <2>5. KeysOK' BY <1>0, <2>1, <2>4, Zenon DEF KeysOK
  <2> QED BY <2>3, <2>5
<1>12. ASSUME Crash PROVE KeysOK' /\ TasksOK'
  <2>1. search' \in [asked : SUBSET Shards, hits : SUBSET (Drivers \X Shards)]
    BY <1>12 DEF Crash, NoSearch
  <2>2. open' \in [Drivers -> Nat] BY <1>12 DEF Crash
  <2>3. ride' \in [Drivers -> Trips \cup {None}] BY <1>0, <1>12 DEF Crash, KeysOK
  <2>4. UNCHANGED <<status, trip, shard, geo, ridden>> BY <1>12 DEF Crash
  <2>5. TasksOK' BY <1>12, CrashTask
  <2>6. status' = status /\ trip' = trip /\ shard' = shard /\ geo' = geo /\ ridden' = ridden BY <2>4
  <2>7. KeysOK' BY <1>0, <2>1, <2>2, <2>3, <2>6, Zenon DEF KeysOK
  <2> QED BY <2>5, <2>7
<1>13. KeysOK' /\ TasksOK'
  <2>1. CASE \E h \in Tasks, d \in Drivers :
               \/ Connect(h, d) \/ Disconnect(h, d) \/ EndRide(h, d)
               \/ \E t \in Trips : Book(h, d, t)
               \/ \E s \in Shards : Ping(h, d, s)
    BY <1>1, <1>2, <1>3, <1>4, <1>5, <2>1
  <2>2. CASE \E h \in Tasks : CloseUnheard(h) \/ Handle(h) BY <1>6, <1>7, <2>2
  <2>3. CASE \E s \in Shards : SearchShard(s) \/ Restart(s) BY <1>9, <1>10, <2>3
  <2> QED BY <1>8, <1>11, <1>12, <2>1, <2>2, <2>3, Zenon DEF Step
<1>14. MarksOK' BY StepMarks
<1> QED BY <1>13, <1>14 DEF TypeOK, KeysOK, MarksOK, TasksOK

LEMMA InitType == Init => TypeOK
<1> SUFFICES ASSUME Init PROVE TypeOK OBVIOUS
<1>1. Idle \in Rows /\ TaskOK(Idle)
  BY DEF Idle, Rows, Labels, TaskOK, Connecting, Booking
<1>2. TasksOK
  <2> HIDE DEF Idle, Rows
  <2> QED BY <1>1 DEF Init, TasksOK
<1>3. KeysOK /\ MarksOK BY DEF Init, KeysOK, MarksOK, NoSearch
<1> QED BY <1>2, <1>3, TypeParts

-----------------------------------------------------------------------------
(* The index.                                                              *)

\* The driver is indexed in this shard at most.
In(d, s) == \A r \in Shards : d \in geo[r] => r = s

\* What an update of the index knows of the driver it updates.
IndexTask(row) ==
  /\ row.at \in {"locate", "forget"} => In(row.driver, shard[row.driver])
  /\ row.at \in {"move", "drop"} => In(row.driver, row.old)
  /\ row.at \in {"add", "set"} => In(row.driver, row.arg)
  /\ row.at = "unset" => In(row.driver, None)

IndexInv ==
  \A d \in Drivers \ tangled :
    /\ \A g, h \in Tasks :
         Driver(g) = d /\ Driver(h) = d /\ {task[g].at, task[h].at} \subseteq Indexing => g = h
    /\ \A h \in Tasks : Driver(h) = d => IndexTask(task[h])
    /\ (\A h \in Tasks : Driver(h) = d => task[h].at \notin Indexing) => In(d, shard[d])

\* Commands of no index update leave those of one as they are.
KeepsIndexing ==
  \A g \in Tasks : task[g].at \in Indexing \/ task'[g].at \in Indexing =>
    /\ task'[g].at = task[g].at /\ task'[g].driver = task[g].driver
    /\ task'[g].arg = task[g].arg /\ task'[g].old = task[g].old

LEMMA IndexKept ==
  ASSUME IndexInv, KeepsIndexing, tangled \subseteq tangled', shard' = shard,
         \A s \in Shards : geo'[s] \subseteq geo[s]
  PROVE  IndexInv'
<1> USE DEF Driver
<1>1. ASSUME NEW d \in Drivers \ tangled'
      PROVE  /\ \A g, h \in Tasks :
                  task'[g].driver = d /\ task'[h].driver = d
                    /\ {task'[g].at, task'[h].at} \subseteq Indexing => g = h
             /\ \A h \in Tasks : task'[h].driver = d => IndexTask(task[h])'
             /\ (\A h \in Tasks : task'[h].driver = d => task'[h].at \notin Indexing) => In(d, shard[d])'
  <2>1. d \in Drivers \ tangled BY <1>1
  <2>2. \A s : In(d, s) => In(d, s)' BY DEF In
  <2>3. ASSUME NEW g \in Tasks, NEW h \in Tasks, task'[g].driver = d, task'[h].driver = d,
               task'[g].at \in Indexing, task'[h].at \in Indexing
        PROVE g = h
    BY <2>1, <2>3 DEF IndexInv, KeepsIndexing
  <2>4. ASSUME NEW h \in Tasks, task'[h].driver = d PROVE IndexTask(task[h])'
    <3>1. CASE task'[h].at \in Indexing
      <4>1. IndexTask(task[h]) BY <2>1, <2>4, <3>1 DEF IndexInv, KeepsIndexing
      <4> QED BY <2>2, <2>4, <3>1, <4>1 DEF KeepsIndexing, IndexTask
    <3>2. CASE task'[h].at \notin Indexing BY <3>2 DEF IndexTask, Indexing
    <3> QED BY <3>1, <3>2
  <2>5. ASSUME \A h \in Tasks : task'[h].driver = d => task'[h].at \notin Indexing PROVE In(d, shard[d])'
    <3>1. \A h \in Tasks : task[h].driver = d => task[h].at \notin Indexing BY <2>5 DEF KeepsIndexing
    <3> QED BY <2>1, <2>2, <3>1 DEF IndexInv
  <2> QED BY <2>3, <2>4, <2>5
<1> QED BY <1>1 DEF IndexInv

\* No update of the driver is under way but h.
Alone(h, d) == \A g \in Tasks \ {h} : task[g].driver = d => task[g].at \notin Indexing

\* To show of a command of h, for driver d: that h is his only update, and
\* what h knows after it, or what is true of him when h is no update any more.
LEMMA IndexOne ==
  ASSUME IndexInv, NEW h \in Tasks, NEW d \in Drivers,
         task[h].driver \in {d, None}, task'[h].driver \in {d, None},
         task'[h].at \in Indexing => task'[h].driver = d,
         \A g \in Tasks \ {h} : task'[g] = task[g],
         tangled \subseteq tangled',
         \A e \in Drivers \ {d} : shard'[e] = shard[e] /\ \A s \in Shards : e \in geo'[s] => e \in geo[s],
         d \notin tangled' => Alone(h, d),
         d \notin tangled' => IF task'[h].at \in Indexing THEN IndexTask(task[h])' ELSE In(d, shard[d])'
  PROVE  IndexInv'
<1> USE DEF Driver
<1>0. d # None BY NoneAssumption DEF NoneAssumption
<1>1. ASSUME NEW e \in Drivers \ tangled'
      PROVE  /\ \A f, g \in Tasks :
                  task'[f].driver = e /\ task'[g].driver = e
                    /\ {task'[f].at, task'[g].at} \subseteq Indexing => f = g
             /\ \A g \in Tasks : task'[g].driver = e => IndexTask(task[g])'
             /\ (\A g \in Tasks : task'[g].driver = e => task'[g].at \notin Indexing) => In(e, shard[e])'
  <2>1. CASE e = d
    <3>1. Alone(h, d) BY <1>1, <2>1
    <3>2. \A g \in Tasks \ {h} : task'[g].driver = d => task'[g].at \notin Indexing BY <3>1 DEF Alone
    <3>3. ASSUME NEW g \in Tasks \ {h}, task'[g].driver = d PROVE IndexTask(task[g])'
      BY <3>2, <3>3 DEF IndexTask, Indexing
    <3>4. task'[h].at \in Indexing => IndexTask(task[h])' BY <1>1, <2>1
    <3>5. task'[h].at \notin Indexing => IndexTask(task[h])' BY DEF IndexTask, Indexing
    <3>6. \A g \in Tasks : task'[g].driver = d => IndexTask(task[g])' BY <3>3, <3>4, <3>5
    <3>7. task'[h].at \notin Indexing => In(d, shard[d])' BY <1>1, <2>1
    <3> QED BY <2>1, <3>2, <3>6, <3>7
  <2>2. CASE e # d
    <3>1. e \in Drivers \ tangled /\ e # None BY <1>1, NoneAssumption DEF NoneAssumption
    <3>2. task[h].driver # e /\ task'[h].driver # e BY <2>2, <3>1
    <3>3. \A g \in Tasks : task'[g].driver = e => task'[g] = task[g] BY <3>2
    <3>4. \A g \in Tasks : task[g].driver = e => task'[g] = task[g] BY <3>2
    <3>5. shard'[e] = shard[e] /\ \A s : In(e, s) => In(e, s)' BY <2>2, <1>1 DEF In
    <3>6. ASSUME NEW g \in Tasks, task'[g].driver = e PROVE IndexTask(task[g])'
      <4>1. IndexTask(task[g]) /\ task'[g] = task[g] /\ task[g].driver = e BY <3>1, <3>3, <3>6 DEF IndexInv
      <4> QED BY <3>5, <4>1 DEF IndexTask
    <3>7. ASSUME NEW f \in Tasks, NEW g \in Tasks, task'[f].driver = e, task'[g].driver = e,
                 task'[f].at \in Indexing, task'[g].at \in Indexing
          PROVE f = g
      BY <3>1, <3>3, <3>7 DEF IndexInv
    <3>8. ASSUME \A g \in Tasks : task'[g].driver = e => task'[g].at \notin Indexing PROVE In(e, shard[e])'
      <4>1. \A g \in Tasks : task[g].driver = e => task[g].at \notin Indexing BY <3>4, <3>8
      <4> QED BY <3>1, <3>5, <4>1 DEF IndexInv
    <3> QED BY <3>6, <3>7, <3>8
  <2> QED BY <2>1, <2>2
<1> QED BY <1>1 DEF IndexInv

\* An update under way is its driver's only one, unless his are tangled.
LEMMA AloneHere ==
  ASSUME IndexInv, NEW h \in Tasks, NEW d \in Drivers \ tangled,
         task[h].driver = d, task[h].at \in Indexing
  PROVE  Alone(h, d) /\ IndexTask(task[h])
BY DEF IndexInv, Alone, Driver

LEMMA PingIndex ==
  ASSUME TypeOK, IndexInv, NEW h \in Tasks, NEW d \in Drivers, NEW s \in Shards, Ping(h, d, s)
  PROVE  IndexInv'
<1>1. Begins(h, "locate", d, s, FALSE) BY TypeParts, PingTask
<1>2. UNCHANGED <<shard, geo>> BY DEF Ping, keys
<1>3. tangled \subseteq tangled' /\ (d \notin tangled' => d \notin tangled /\ ~Running(d, Indexing))
  BY DEF Ping
<1>4. /\ task[h].driver = None /\ task'[h].driver = d /\ task'[h].at = "locate"
      /\ \A g \in Tasks \ {h} : task'[g] = task[g]
  BY <1>1 DEF Begins, Idle
<1>5. ASSUME d \notin tangled' PROVE Alone(h, d) /\ IndexTask(task[h])'
  <2>1. Alone(h, d) BY <1>3, <1>5 DEF Running, Alone, Driver
  <2>2. \A g \in Tasks : Driver(g) = d => task[g].at \notin Indexing BY <1>3, <1>5 DEF Running
  <2>3. In(d, shard[d]) BY <1>3, <1>5, <2>2 DEF IndexInv
  <2> QED BY <1>2, <1>4, <2>1, <2>3 DEF IndexTask, In
<1>6. "locate" \in Indexing BY DEF Indexing
<1> QED BY <1>2, <1>3, <1>4, <1>5, <1>6, IndexOne

LEMMA OfflineTripIndex ==
  ASSUME TypeOK, IndexInv, NEW h \in Tasks, OfflineTrip(h)
  PROVE  IndexInv'
<1>d. PICK d \in Drivers : task[h].driver = d BY HasDriver DEF OfflineTrip, At
<1>0. Driver(h) = d /\ task[h].at \notin Indexing BY <1>d DEF OfflineTrip, At, Driver, Indexing
<1>1. Goes(h, "forget") BY TypeParts, OfflineTripTask
<1>2. UNCHANGED <<shard, geo>> BY DEF OfflineTrip
<1>3. tangled \subseteq tangled' /\ (d \notin tangled' => d \notin tangled /\ ~Other(h, Indexing))
  BY <1>0 DEF OfflineTrip
<1>4. /\ task[h].driver = d /\ task'[h].driver = d /\ task'[h].at = "forget"
      /\ \A g \in Tasks \ {h} : task'[g] = task[g]
  BY <1>d, <1>1 DEF Goes
<1>5. ASSUME d \notin tangled' PROVE Alone(h, d) /\ IndexTask(task[h])'
  <2>1. Alone(h, d) BY <1>d, <1>3, <1>5 DEF Other, Alone, Driver
  <2>2. \A g \in Tasks : Driver(g) = d => task[g].at \notin Indexing
    BY <1>0, <1>3, <1>5 DEF Other
  <2>3. In(d, shard[d]) BY <1>0, <1>3, <1>5, <2>2 DEF IndexInv
  <2> QED BY <1>2, <1>4, <2>1, <2>3 DEF IndexTask, In
<1>6. "forget" \in Indexing BY DEF Indexing
<1> QED BY <1>2, <1>3, <1>4, <1>5, <1>6, IndexOne

\* The commands of an update.
LEMMA UpdateIndex ==
  ASSUME TypeOK, IndexInv, NEW h \in Tasks,
         Locate(h) \/ Move(h) \/ Add(h) \/ Set(h) \/ Forget(h) \/ Drop(h) \/ Unset(h)
  PROVE  IndexInv'
<1>d. task[h].at # "idle" /\ task[h].at \in Indexing
  BY DEF Locate, Move, Add, Set, Forget, Drop, Unset, At, Indexing
<1>e. PICK d \in Drivers : task[h].driver = d BY <1>d, HasDriver
<1>0. task[h].at \in Indexing /\ task[h].driver = d /\ Driver(h) = d BY <1>d, <1>e DEF Driver
<1>1. KeysOK /\ TasksOK BY TypeParts
<1>2. tangled' = tangled BY DEF Locate, Move, Add, Set, Forget, Drop, Unset, history
<1>3. d \notin tangled => Alone(h, d) /\ IndexTask(task[h]) BY <1>0, AloneHere
<1>4. d # None BY <1>0, NoneAssumption DEF NoneAssumption
<1>6. ASSUME \/ task'[h].driver = d /\ task'[h].at \in Indexing
             \/ task'[h].driver = None /\ task'[h].at \notin Indexing,
             \A g \in Tasks \ {h} : task'[g] = task[g],
             \A e \in Drivers \ {d} : shard'[e] = shard[e] /\ \A s \in Shards : e \in geo'[s] => e \in geo[s],
             d \notin tangled => IF task'[h].at \in Indexing THEN IndexTask(task[h])' ELSE In(d, shard[d])'
      PROVE IndexInv'
  BY <1>0, <1>2, <1>3, <1>6, IndexOne
<1>7. CASE Locate(h)
  <2>1. UNCHANGED <<shard, geo>> BY <1>7 DEF Locate, keys
  <2>2. /\ task'[h].driver = d /\ \A g \in Tasks \ {h} : task'[g] = task[g]
        /\ \/ task'[h].at = "add" /\ task'[h].arg = task[h].arg /\ shard[d] \in {None, task[h].arg}
           \/ task'[h].at = "move" /\ task'[h].old = shard[d]
    BY <1>0, <1>1, <1>7, LocateTask DEF KeysOK, Goes
  <2>3. d \notin tangled => In(d, shard[d]) BY <1>0, <1>3, <1>7 DEF IndexTask, Locate, At
  <2>4. d \notin tangled /\ task'[h].at = "add" => In(d, task[h].arg)'
    BY <2>1, <2>2, <2>3, NoneAssumption DEF In, NoneAssumption
  <2>5. d \notin tangled /\ task'[h].at = "move" => In(d, task[h].old)' BY <2>1, <2>2, <2>3 DEF In
  <2>6. task'[h].at \in Indexing BY <2>2 DEF Indexing
  <2>7. d \notin tangled => IndexTask(task[h])' BY <2>2, <2>4, <2>5 DEF IndexTask
  <2> QED BY <1>6, <2>1, <2>2, <2>6, <2>7
<1>8. CASE Move(h)
  <2>1. shard' = shard /\ geo' = [geo EXCEPT ![task[h].old] = geo[task[h].old] \ {d}]
    BY <1>0, <1>8 DEF Move, Zrem, keys
  <2>2. Goes(h, "add") BY <1>1, <1>8, MoveTask
  <2>3. d \notin tangled => In(d, task[h].old) BY <1>0, <1>3, <1>8 DEF IndexTask, Move, At
  <2>4. \A s \in Shards : geo'[s] \subseteq geo[s] /\ (s = task[h].old => d \notin geo'[s])
    BY <1>1, <2>1 DEF KeysOK
  <2>5. d \notin tangled => IndexTask(task[h])' BY <1>0, <2>2, <2>3, <2>4 DEF IndexTask, Goes, In
  <2> QED BY <1>0, <1>6, <2>1, <2>2, <2>4, <2>5 DEF Goes, Indexing
<1>9. CASE Add(h)
  <2>1. shard' = shard /\ geo' = [geo EXCEPT ![task[h].arg] = geo[task[h].arg] \cup {d}]
    BY <1>0, <1>9 DEF Add, keys
  <2>2. Goes(h, "set") BY <1>1, <1>9, AddTask
  <2>3. d \notin tangled => In(d, task[h].arg) BY <1>0, <1>3, <1>9 DEF IndexTask, Add, At
  <2>4. \A s \in Shards : geo'[s] \subseteq geo[s] \cup {d} /\ (s # task[h].arg => geo'[s] = geo[s])
    BY <1>1, <2>1 DEF KeysOK
  <2>5. d \notin tangled => IndexTask(task[h])' BY <1>0, <2>2, <2>3, <2>4 DEF IndexTask, Goes, In
  <2> QED BY <1>0, <1>6, <2>1, <2>2, <2>4, <2>5 DEF Goes, Indexing
<1>10. CASE Set(h)
  <2>1. geo' = geo /\ shard' = [shard EXCEPT ![d] = task[h].arg] BY <1>0, <1>10 DEF Set
  <2>2. Ends(h) BY <1>1, <1>10, LastTask
  <2>3. d \notin tangled => In(d, task[h].arg) BY <1>0, <1>3, <1>10 DEF IndexTask, Set, At
  <2>4. shard'[d] = task[h].arg /\ \A e \in Drivers \ {d} : shard'[e] = shard[e]
    BY <1>0, <1>1, <2>1 DEF KeysOK
  <2>5. task'[h].at \notin Indexing /\ task'[h].driver = None BY <2>2 DEF Ends, Idle, Indexing
  <2>6. d \notin tangled => In(d, shard[d])' BY <2>1, <2>3, <2>4 DEF In
  <2> QED BY <1>6, <2>1, <2>2, <2>4, <2>5, <2>6 DEF Ends
<1>11. CASE Forget(h)
  <2>1. UNCHANGED <<shard, geo>> BY <1>11 DEF Forget, keys
  <2>2. /\ task'[h].driver = d /\ \A g \in Tasks \ {h} : task'[g] = task[g]
        /\ task'[h].old = shard[d] /\ task'[h].at = IF shard[d] = None THEN "unset" ELSE "drop"
    BY <1>0, <1>1, <1>11, ForgetTask DEF KeysOK
  <2>3. d \notin tangled => In(d, shard[d]) BY <1>0, <1>3, <1>11 DEF IndexTask, Forget, At
  <2>4. task'[h].at \in Indexing BY <2>2 DEF Indexing
  <2>5. d \notin tangled => IndexTask(task[h])' BY <2>1, <2>2, <2>3 DEF IndexTask, In
  <2> QED BY <1>6, <2>1, <2>2, <2>4, <2>5
<1>12. CASE Drop(h)
  <2>1. shard' = shard /\ geo' = [geo EXCEPT ![task[h].old] = geo[task[h].old] \ {d}]
    BY <1>0, <1>12 DEF Drop, Zrem, keys
  <2>2. Goes(h, "unset") BY <1>1, <1>12, DropTask
  <2>3. d \notin tangled => In(d, task[h].old) BY <1>0, <1>3, <1>12 DEF IndexTask, Drop, At
  <2>4. \A s \in Shards : geo'[s] \subseteq geo[s] /\ (s = task[h].old => d \notin geo'[s])
    BY <1>1, <2>1 DEF KeysOK
  <2>5. d \notin tangled => IndexTask(task[h])' BY <1>0, <2>2, <2>3, <2>4 DEF IndexTask, Goes, In
  <2> QED BY <1>0, <1>6, <2>1, <2>2, <2>4, <2>5 DEF Goes, Indexing
<1>13. CASE Unset(h)
  <2>1. geo' = geo /\ shard' = [shard EXCEPT ![d] = None] BY <1>0, <1>13 DEF Unset
  <2>2. Ends(h) BY <1>1, <1>13, LastTask
  <2>3. d \notin tangled => In(d, None) BY <1>0, <1>3, <1>13 DEF IndexTask, Unset, At
  <2>4. shard'[d] = None /\ \A e \in Drivers \ {d} : shard'[e] = shard[e]
    BY <1>0, <1>1, <2>1 DEF KeysOK
  <2>5. task'[h].at \notin Indexing /\ task'[h].driver = None BY <2>2 DEF Ends, Idle, Indexing
  <2>6. d \notin tangled => In(d, shard[d])' BY <2>1, <2>3, <2>4 DEF In
  <2> QED BY <1>6, <2>1, <2>2, <2>4, <2>5, <2>6 DEF Ends
<1> QED BY <1>7, <1>8, <1>9, <1>10, <1>11, <1>12, <1>13

LEMMA CrashIndex == ASSUME TypeOK, IndexInv, Crash PROVE IndexInv'
<1>1. \A h \in Tasks : task'[h].driver = None BY CrashTask DEF Idle
<1>2. UNCHANGED <<shard, geo>> BY DEF Crash, keys
<1>3. \A d \in Drivers \ tangled' : d \in Drivers \ tangled /\ ~Running(d, Indexing) BY DEF Crash
<1>4. ASSUME NEW d \in Drivers \ tangled' PROVE In(d, shard[d])'
  <2>1. In(d, shard[d]) BY <1>3 DEF IndexInv, Running
  <2> QED BY <1>2, <2>1 DEF In
<1>5. \A d \in Drivers : d # None BY NoneAssumption DEF NoneAssumption
<1> QED BY <1>1, <1>4, <1>5 DEF IndexInv, Driver

\* Every other step leaves the index and its updates alone, but for a shard
\* that loses its drivers.
LEMMA RestIndex ==
  ASSUME TypeOK, IndexInv, Step, Watch,
         ~(\E h \in Tasks, d \in Drivers, s \in Shards : Ping(h, d, s)),
         ~(\E h \in Tasks : \/ OfflineTrip(h) \/ Locate(h) \/ Move(h) \/ Add(h) \/ Set(h)
                            \/ Forget(h) \/ Drop(h) \/ Unset(h)),
         ~Crash
  PROVE  IndexInv'
<1>0. KeysOK /\ TasksOK BY TypeParts
<1> USE DEF keys, rides, history, bounds, KeepsIndexing
<1>b. ASSUME NEW h \in Tasks, NEW label \in {"read", "leave", "online", "book"}, NEW d, NEW x, NEW c,
             Begins(h, label, d, x, c)
      PROVE KeepsIndexing
  BY <1>b DEF Begins, Idle, Indexing
<1>g. ASSUME NEW h \in Tasks, task[h].at \notin Indexing, NEW label, label \notin Indexing, Goes(h, label)
      PROVE KeepsIndexing
  BY <1>g DEF Goes
<1>e. ASSUME NEW h \in Tasks, task[h].at \notin Indexing, Ends(h) PROVE KeepsIndexing
  BY <1>e DEF Ends, Idle, Indexing
<1>1. ASSUME NEW h \in Tasks, NEW d \in Drivers, Connect(h, d) PROVE IndexInv'
  <2>1. KeepsIndexing BY <1>0, <1>1, <1>b, ConnectTask
  <2> QED BY <1>1, <2>1, IndexKept DEF Connect
<1>2. ASSUME NEW h \in Tasks, NEW d \in Drivers, Disconnect(h, d) PROVE IndexInv'
  <2>1. KeepsIndexing BY <1>0, <1>2, <1>b, DisconnectTask
  <2> QED BY <1>2, <2>1, IndexKept DEF Disconnect
<1>3. ASSUME NEW h \in Tasks, NEW d \in Drivers, EndRide(h, d) PROVE IndexInv'
  <2>1. KeepsIndexing BY <1>0, <1>3, <1>b, EndRideTask
  <2> QED BY <1>3, <2>1, IndexKept DEF EndRide
<1>4. ASSUME NEW h \in Tasks, NEW d \in Drivers, NEW t \in Trips, Book(h, d, t) PROVE IndexInv'
  <2>1. KeepsIndexing BY <1>0, <1>4, <1>b, BookTask
  <2> QED BY <1>4, <2>1, IndexKept DEF Book
<1>5. ASSUME NEW h \in Tasks, CloseUnheard(h) PROVE IndexInv'
  <2>1. KeepsIndexing BY <1>0, <1>5, CloseTask
  <2> QED BY <1>5, <2>1, IndexKept DEF CloseUnheard
<1>6. ASSUME NEW h \in Tasks, Handle(h) PROVE IndexInv'
  <2>1. UNCHANGED <<shard, geo, tangled>>
    BY <1>6 DEF Handle, Read, Leave, Online, OnlineTrip, Offline, OnTrip, OnTripTrip
  <2>2. CASE Read(h)
    <3>1. KeepsIndexing BY <1>0, <1>e, <1>g, <2>2, ReadTask DEF Read, At, Indexing
    <3> QED BY <2>1, <3>1, IndexKept
  <2>3. CASE Leave(h)
    <3>1. KeepsIndexing BY <1>0, <1>e, <1>g, <2>3, LeaveTask DEF Leave, At, Indexing
    <3> QED BY <2>1, <3>1, IndexKept
  <2>4. CASE Online(h)
    <3>1. KeepsIndexing BY <1>0, <1>g, <2>4, OnlineTask DEF Online, At, Indexing
    <3> QED BY <2>1, <3>1, IndexKept
  <2>5. CASE Offline(h)
    <3>1. KeepsIndexing BY <1>0, <1>g, <2>5, OfflineTask DEF Offline, At, Indexing
    <3> QED BY <2>1, <3>1, IndexKept
  <2>6. CASE OnTrip(h)
    <3>1. KeepsIndexing BY <1>0, <1>g, <2>6, OnTripTask DEF OnTrip, At, Indexing
    <3> QED BY <2>1, <3>1, IndexKept
  <2>7. CASE OnlineTrip(h) \/ OnTripTrip(h)
    <3>1. KeepsIndexing BY <1>0, <1>e, <2>7, LastTask DEF OnlineTrip, OnTripTrip, At, Indexing
    <3> QED BY <2>1, <3>1, IndexKept
  <2> QED BY <1>6, <2>2, <2>3, <2>4, <2>5, <2>6, <2>7 DEF Handle
<1>7. ASSUME NEW d \in Drivers, EndRideLost(d) PROVE IndexInv' BY <1>7, IndexKept DEF EndRideLost
<1>8. ASSUME NEW s \in Shards, SearchShard(s) PROVE IndexInv' BY <1>8, IndexKept DEF SearchShard
<1>9. ASSUME NEW s \in Shards, Restart(s) PROVE IndexInv'
  <2>1. \A r \in Shards : geo'[r] \subseteq geo[r] BY <1>0, <1>9 DEF Restart, KeysOK
  <2> QED BY <1>9, <2>1, IndexKept DEF Restart
<1>10. ASSUME SearchEnd PROVE IndexInv' BY <1>10, IndexKept DEF SearchEnd
<1>11. CASE \E h \in Tasks, d \in Drivers :
             \/ Connect(h, d) \/ Disconnect(h, d) \/ EndRide(h, d)
             \/ \E t \in Trips : Book(h, d, t)
             \/ \E s \in Shards : Ping(h, d, s)
  BY <1>1, <1>2, <1>3, <1>4, <1>11
<1>12. CASE \E h \in Tasks : CloseUnheard(h) \/ Handle(h) BY <1>5, <1>6, <1>12
<1>13. CASE \E s \in Shards : SearchShard(s) \/ Restart(s) BY <1>8, <1>9, <1>13
<1> QED BY <1>7, <1>10, <1>11, <1>12, <1>13, Zenon DEF Step

LEMMA StepIndex == ASSUME TypeOK, IndexInv, Step, Watch PROVE IndexInv'
<1>1. CASE \E h \in Tasks, d \in Drivers, s \in Shards : Ping(h, d, s) BY <1>1, PingIndex
<1>2. CASE \E h \in Tasks : \/ OfflineTrip(h) \/ Locate(h) \/ Move(h) \/ Add(h) \/ Set(h)
                           \/ Forget(h) \/ Drop(h) \/ Unset(h)
  BY <1>2, OfflineTripIndex, UpdateIndex
<1>3. CASE Crash BY <1>3, CrashIndex
<1> QED BY <1>1, <1>2, <1>3, RestIndex

LEMMA InitIndex == Init => IndexInv
<1>1. \A d \in Drivers : d # None BY NoneAssumption DEF NoneAssumption
<1> QED BY <1>1 DEF Init, IndexInv, In, Idle, Driver

LEMMA IndexedOnceFrom == ASSUME TypeOK, IndexInv PROVE IndexedOnce
<1> SUFFICES ASSUME NEW d \in Drivers \ tangled
    PROVE  /\ \A s, r \in Where(d) : s = r
           /\ ~Running(d, Indexing) => Where(d) \subseteq {shard[d]}
  BY DEF IndexedOnce
<1>1. CASE Running(d, Indexing)
  <2>1. PICK h \in Tasks : Driver(h) = d /\ task[h].at \in Indexing BY <1>1 DEF Running
  <2>2. IndexTask(task[h]) /\ task[h].driver = d BY <2>1 DEF IndexInv, Driver
  <2>3. \E s : In(d, s) BY <2>1, <2>2 DEF IndexTask, Indexing
  <2> QED BY <1>1, <2>3 DEF In, Where
<1>2. CASE ~Running(d, Indexing)
  <2>1. In(d, shard[d]) BY <1>2 DEF IndexInv, Running
  <2> QED BY <2>1 DEF In, Where
<1> QED BY <1>1, <1>2

-----------------------------------------------------------------------------
(* Rides.                                                                  *)

Undecided(d) == \A h \in Tasks : task[h].driver = d => task[h].at \notin Deciding
Unbooked(d) == \A h \in Tasks : task[h].driver = d => task[h].at \notin Booking

\* A ride shows in status and trip from its booking on, and no handler is left
\* that would overwrite them; after it, what they still show is about to go.
RideShows(d) ==
  /\ ride[d] # None /\ Unbooked(d) => status[d] = "on_trip" /\ trip[d] = ride[d] /\ Undecided(d)
  /\ \A h \in Tasks : task[h].driver = d /\ task[h].at = "book_trip" => status[d] = "on_trip" /\ Undecided(d)
  /\ ride[d] = None =>
       /\ status[d] = "on_trip" =>
            \E h \in Tasks : task[h].driver = d /\ task[h].at \in {"online", "offline"}
       /\ trip[d] # None => ~Undecided(d)

RideOf(d) ==
  /\ \A h \in Tasks : task[h].driver = d /\ task[h].at \in Booking => ride[d] = task[h].arg
  /\ \A g, h \in Tasks :
       /\ task[g].driver = d /\ task[g].at \in Booking
       /\ task[h].driver = d /\ task[h].at \in Booking
       => g = h
  /\ d \notin strayed => RideShows(d)

RideInv == \A d \in Drivers : RideOf(d)

\* A step leaves the ride of a driver alone.
KeepsRide(d) ==
  /\ ride'[d] = ride[d] /\ status'[d] = status[d] /\ trip'[d] = trip[d]
  /\ d \in strayed => d \in strayed'
  /\ \A g \in Tasks :
       \/ task[g].driver = d /\ task[g].at \in Booking \cup Deciding
       \/ task'[g].driver = d /\ task'[g].at \in Booking \cup Deciding
       => task'[g].at = task[g].at /\ task'[g].driver = d /\ task[g].driver = d /\ task'[g].arg = task[g].arg

LEMMA RideKept == ASSUME NEW d \in Drivers, RideOf(d), KeepsRide(d) PROVE RideOf(d)'
<1>1. \A h \in Tasks : task'[h].driver = d /\ task'[h].at \in Booking => ride'[d] = task'[h].arg
  BY DEF RideOf, KeepsRide
<1>2. ASSUME NEW g \in Tasks, NEW h \in Tasks, task'[g].driver = d, task'[g].at \in Booking,
             task'[h].driver = d, task'[h].at \in Booking
      PROVE g = h
  BY <1>2 DEF RideOf, KeepsRide
<1>3. ASSUME d \notin strayed' PROVE RideShows(d)'
  <2>1. RideShows(d) BY <1>3 DEF RideOf, KeepsRide
  <2>2. (Unbooked(d) <=> Unbooked(d)') /\ (Undecided(d) <=> Undecided(d)')
    BY DEF Unbooked, Undecided, KeepsRide
  <2>3. "book_trip" \in Booking /\ {"online", "offline"} \subseteq Deciding BY DEF Booking, Deciding
  <2>4. ASSUME NEW h \in Tasks, task'[h].driver = d, task'[h].at = "book_trip"
        PROVE  status'[d] = "on_trip" /\ Undecided(d)'
    <3>1. task[h].driver = d /\ task[h].at = "book_trip" BY <2>3, <2>4 DEF KeepsRide
    <3> QED BY <2>1, <2>2, <3>1 DEF RideShows, KeepsRide
  <2>5. ASSUME ride'[d] = None, status'[d] = "on_trip"
        PROVE  \E h \in Tasks : task'[h].driver = d /\ task'[h].at \in {"online", "offline"}
    <3>1. PICK h \in Tasks : task[h].driver = d /\ task[h].at \in {"online", "offline"}
      BY <2>1, <2>5 DEF RideShows, KeepsRide
    <3>2. task'[h].driver = d /\ task'[h].at = task[h].at BY <2>3, <3>1 DEF KeepsRide
    <3> QED BY <3>1, <3>2
  <2>6. ride'[d] # None /\ Unbooked(d)' => status'[d] = "on_trip" /\ trip'[d] = ride'[d] /\ Undecided(d)'
    BY <2>1, <2>2 DEF RideShows, KeepsRide
  <2>7. ride'[d] = None /\ trip'[d] # None => ~Undecided(d)'
    BY <2>1, <2>2 DEF RideShows, KeepsRide
  <2> QED BY <2>4, <2>5, <2>6, <2>7 DEF RideShows
<1> QED BY <1>1, <1>2, <1>3 DEF RideOf

\* A command of h leaves the rides of all but its driver alone.
LEMMA RideOthers ==
  ASSUME NEW h \in Tasks, NEW d \in Drivers, NEW e \in Drivers \ {d}, RideOf(e),
         task[h].driver \in {d, None}, task'[h].driver \in {d, None},
         \A g \in Tasks \ {h} : task'[g] = task[g],
         ride'[e] = ride[e], status'[e] = status[e], trip'[e] = trip[e], e \in strayed => e \in strayed'
  PROVE  RideOf(e)'
<1>1. e # None BY NoneAssumption DEF NoneAssumption
<1>2. KeepsRide(e) BY <1>1 DEF KeepsRide
<1> QED BY <1>2, RideKept

LEMMA BookRide ==
  ASSUME TypeOK, RideInv, NEW h \in Tasks, NEW d \in Drivers, NEW t \in Trips, Book(h, d, t)
  PROVE  RideInv'
<1>0. KeysOK /\ TasksOK BY TypeParts
<1>1. Begins(h, "book", d, t, FALSE) BY <1>0, BookTask
<1>2. /\ task[h].driver = None /\ task[h].at = "idle"
      /\ task'[h].driver = d /\ task'[h].at = "book" /\ task'[h].arg = t
      /\ \A g \in Tasks \ {h} : task'[g] = task[g]
  BY <1>1 DEF Begins, Idle
<1>3. /\ ride[d] = None /\ ride'[d] = t /\ \A e \in Drivers \ {d} : ride'[e] = ride[e]
      /\ status' = status /\ trip' = trip /\ strayed' = strayed
  BY <1>0 DEF Book, keys, history, KeysOK
<1>4. t # None BY NoneAssumption DEF NoneAssumption
<1>5. \A g \in Tasks \ {h} : task'[g].driver = d => task'[g].at \notin Booking
  <2>1. ASSUME NEW g \in Tasks \ {h}, task[g].driver = d, task[g].at \in Booking PROVE FALSE
    <3>1. ride[d] = task[g].arg BY <2>1 DEF RideInv, RideOf
    <3>2. task[g].arg \in Trips BY <1>0, <2>1 DEF TasksOK, TaskOK
    <3> QED BY <1>3, <3>1, <3>2, NoneAssumption DEF NoneAssumption
  <2> QED BY <1>2, <2>1
<1>6. RideShows(d)'
  <2>1. ~Unbooked(d)' BY <1>2 DEF Unbooked, Booking
  <2>2. \A g \in Tasks : ~(task'[g].driver = d /\ task'[g].at = "book_trip")
    BY <1>2, <1>5 DEF Booking
  <2> QED BY <1>3, <1>4, <2>1, <2>2 DEF RideShows
<1>7. RideOf(d)' BY <1>2, <1>3, <1>5, <1>6 DEF RideOf
<1>8. \A e \in Drivers \ {d} : RideOf(e)' BY <1>2, <1>3, RideOthers DEF RideInv
<1> QED BY <1>7, <1>8 DEF RideInv

LEMMA EndRideRide ==
  ASSUME TypeOK, RideInv, NEW h \in Tasks, NEW d \in Drivers, EndRide(h, d)
  PROVE  RideInv'
<1>0. KeysOK /\ TasksOK BY TypeParts
<1>1. Begins(h, "online", d, None, FALSE) BY <1>0, EndRideTask
<1>2. /\ task[h].driver = None /\ task'[h].driver = d /\ task'[h].at = "online"
      /\ \A g \in Tasks \ {h} : task'[g] = task[g]
  BY <1>1 DEF Begins, Idle
<1>3. /\ ride'[d] = None /\ \A e \in Drivers \ {d} : ride'[e] = ride[e]
      /\ status' = status /\ trip' = trip /\ strayed' = strayed
      /\ ~Running(d, Booking)
  BY <1>0 DEF EndRide, keys, history, KeysOK
<1>4. \A g \in Tasks : task'[g].driver = d => task'[g].at \notin Booking
  BY <1>2, <1>3 DEF Running, Driver, Booking
<1>5. RideShows(d)'
  <2>1. ~Undecided(d)' BY <1>2 DEF Undecided, Deciding
  <2>2. \A g \in Tasks : ~(task'[g].driver = d /\ task'[g].at = "book_trip") BY <1>4 DEF Booking
  <2> QED BY <1>2, <1>3, <2>1, <2>2 DEF RideShows
<1>6. RideOf(d)' BY <1>4, <1>5 DEF RideOf
<1>7. \A e \in Drivers \ {d} : RideOf(e)' BY <1>2, <1>3, RideOthers DEF RideInv
<1> QED BY <1>6, <1>7 DEF RideInv

LEMMA EndRideLostRide ==
  ASSUME TypeOK, RideInv, NEW d \in Drivers, EndRideLost(d)
  PROVE  RideInv'
<1>1. /\ strayed' = strayed \cup {d} /\ \A e \in Drivers \ {d} : ride'[e] = ride[e]
      /\ status' = status /\ trip' = trip /\ task' = task /\ ~Running(d, Booking)
  BY TypeParts DEF EndRideLost, keys, KeysOK
<1>2. RideOf(d)' BY <1>1 DEF RideOf, Running, Driver
<1>3. ASSUME NEW e \in Drivers \ {d} PROVE RideOf(e)'
  <2>1. KeepsRide(e) BY <1>1 DEF KeepsRide
  <2> QED BY <2>1, RideKept DEF RideInv
<1> QED BY <1>2, <1>3 DEF RideInv

LEMMA CrashRide == ASSUME TypeOK, RideInv, Crash PROVE RideInv'
<1>1. \A h \in Tasks : task'[h].driver = None BY CrashTask DEF Idle
<1>2. \A d \in Drivers : d # None BY NoneAssumption DEF NoneAssumption
<1>3. /\ status' = status /\ trip' = trip
      /\ \A d \in Drivers : ride'[d] = IF Running(d, Booking) THEN None ELSE ride[d]
      /\ \A d \in Drivers \ strayed' : d \notin strayed /\ ~Running(d, Booking \cup Deciding)
  BY DEF Crash, keys
<1>4. ASSUME NEW d \in Drivers, d \notin strayed' PROVE RideShows(d)'
  <2>1. RideShows(d) /\ Unbooked(d) /\ Undecided(d) /\ ride'[d] = ride[d]
    BY <1>3, <1>4 DEF RideInv, RideOf, Running, Driver, Unbooked, Undecided
  <2>2. ride[d] = None => status[d] # "on_trip" /\ trip[d] = None
    BY <2>1 DEF RideShows, Undecided, Deciding
  <2>3. Undecided(d)' /\ \A h \in Tasks : task'[h].driver # d BY <1>1, <1>2 DEF Undecided
  <2> QED BY <1>3, <2>1, <2>2, <2>3 DEF RideShows
<1> QED BY <1>1, <1>2, <1>4 DEF RideInv, RideOf

\* The commands that read or write the status or the trip.
LEMMA DecideRide ==
  ASSUME TypeOK, RideInv, NEW h \in Tasks,
         \/ Read(h) \/ Leave(h) \/ Online(h) \/ OnlineTrip(h) \/ Offline(h) \/ OfflineTrip(h)
         \/ OnTrip(h) \/ OnTripTrip(h)
  PROVE  RideInv'
<1>0. KeysOK /\ TasksOK BY TypeParts
<1>d. task[h].at # "idle"
  BY DEF Read, Leave, Online, OnlineTrip, Offline, OfflineTrip, OnTrip, OnTripTrip, At
<1>e. PICK d \in Drivers : task[h].driver = d BY <1>d, HasDriver
<1>f. Driver(h) = d /\ d # None /\ RideOf(d)
  BY <1>e, NoneAssumption DEF Driver, NoneAssumption, RideInv
<1>1. ASSUME task'[h].driver \in {d, None}, \A g \in Tasks \ {h} : task'[g] = task[g],
             ride' = ride,
             \A e \in Drivers \ {d} : /\ status'[e] = status[e] /\ trip'[e] = trip[e]
                                      /\ e \in strayed => e \in strayed',
             RideOf(d)'
      PROVE  RideInv'
  BY <1>e, <1>1, RideOthers DEF RideInv
<1>2. ASSUME task'[h].driver = d \/ task'[h].at = "idle", task'[h].driver \in {d, None},
             \A g \in Tasks \ {h} : task'[g] = task[g],
             ride' = ride, strayed' = strayed, task[h].at \notin Booking, task'[h].at \notin Booking,
             \A e \in Drivers \ {d} : status'[e] = status[e] /\ trip'[e] = trip[e],
             d \notin strayed => RideShows(d)'
      PROVE  RideInv'
  <2>1. \A g \in Tasks : task'[g].driver = d /\ task'[g].at \in Booking => g # h /\ task'[g] = task[g] BY <1>2
  <2>2. RideOf(d)' BY <1>f, <1>2, <2>1 DEF RideOf
  <2> QED BY <1>1, <1>2, <2>2
<1>3. d \notin strayed => RideShows(d) BY <1>f DEF RideOf
\* Once a booked driver's ride shows, no handler of his decides on a status.
<1>4. ASSUME d \notin strayed, task[h].at \in Deciding
      PROVE  /\ ride[d] # None => ~Unbooked(d)
             /\ \A g \in Tasks : task[g].driver = d => task[g].at # "book_trip"
  BY <1>3, <1>4, <1>e DEF RideShows, Undecided
\* A handler that decides nothing ends without effect.
<1>5. CASE (Read(h) \/ Leave(h)) /\ status[d] = "on_trip"
  <2>1. Ends(h) /\ task[h].at \in {"read", "leave"} BY <1>0, <1>5, <1>f, ReadTask, LeaveTask DEF Read, Leave, At
  <2>2. UNCHANGED <<status, trip, ride, strayed>> BY <1>5 DEF Read, Leave, keys, rides, history
  <2>3. ASSUME NEW e \in Drivers PROVE RideOf(e)'
    <3>1. KeepsRide(e)
      BY <2>1, <2>2, NoneAssumption DEF KeepsRide, Ends, Idle, Booking, Deciding, NoneAssumption
    <3> QED BY <3>1, RideKept DEF RideInv
  <2> QED BY <2>3 DEF RideInv
<1>6. CASE (Read(h) \/ Leave(h)) /\ status[d] # "on_trip"
  <2>1. /\ task'[h].driver = d /\ task'[h].at \in {"online", "offline"} /\ task[h].at \in {"read", "leave"}
        /\ \A g \in Tasks \ {h} : task'[g] = task[g]
    BY <1>0, <1>6, <1>e, <1>f, ReadTask, LeaveTask DEF Read, Leave, At, Goes
  <2>2. UNCHANGED <<status, trip, ride, strayed>> BY <1>6 DEF Read, Leave, keys, rides, history
  <2>3. ASSUME d \notin strayed PROVE RideShows(d)'
    <3>1. RideShows(d) BY <1>3, <2>3
    <3>2. ~Undecided(d)' BY <2>1 DEF Undecided, Deciding
    <3>3. Unbooked(d) <=> Unbooked(d)' BY <2>1 DEF Unbooked, Booking
    <3>4. \A g \in Tasks : task'[g].driver = d /\ task'[g].at = "book_trip" => task[g].driver = d /\ task[g].at = "book_trip"
      BY <2>1
    <3>5. ~(ride[d] # None /\ Unbooked(d)) BY <1>6, <3>1 DEF RideShows
    <3>6. \A g \in Tasks : ~(task'[g].driver = d /\ task'[g].at = "book_trip")
      BY <1>6, <3>1, <3>4 DEF RideShows
    <3> QED BY <1>6, <2>2, <3>2, <3>3, <3>5, <3>6 DEF RideShows
  <2>4. task[h].at \notin Booking /\ task'[h].at \notin Booking BY <2>1 DEF Booking
  <2> QED BY <1>2, <2>1, <2>2, <2>3, <2>4
<1>7. CASE Online(h) \/ Offline(h)
  <2>1. /\ task'[h].driver = d /\ task'[h].at \in {"online_trip", "offline_trip"}
        /\ task[h].at \in {"online", "offline"} /\ \A g \in Tasks \ {h} : task'[g] = task[g]
    BY <1>0, <1>7, <1>e, OnlineTask, OfflineTask DEF Online, Offline, At, Goes
  <2>2. UNCHANGED <<trip, ride, strayed>> BY <1>7 DEF Online, Offline, rides, history
  <2>3. status'[d] # "on_trip" /\ \A e \in Drivers \ {d} : status'[e] = status[e]
    BY <1>0, <1>7, <1>f DEF Online, Offline, SetStatus, KeysOK
  <2>4. ASSUME d \notin strayed PROVE RideShows(d)'
    <3>1. task[h].at \in Deciding BY <2>1 DEF Deciding
    <3>2. ~Undecided(d)' BY <2>1 DEF Undecided, Deciding
    <3>3. Unbooked(d) <=> Unbooked(d)' BY <2>1 DEF Unbooked, Booking
    <3>4. \A g \in Tasks : ~(task'[g].driver = d /\ task'[g].at = "book_trip") BY <1>4, <2>1, <2>4, <3>1
    <3> QED BY <1>4, <2>2, <2>3, <2>4, <3>1, <3>2, <3>3, <3>4 DEF RideShows
  <2>5. task[h].at \notin Booking /\ task'[h].at \notin Booking BY <2>1 DEF Booking
  <2> QED BY <1>2, <2>1, <2>2, <2>3, <2>4, <2>5
<1>8. CASE OnlineTrip(h) \/ OfflineTrip(h)
  <2>1. /\ task'[h].driver \in {d, None} /\ (task'[h].driver = d \/ task'[h].at = "idle")
        /\ task'[h].at \in {"idle", "forget"}
        /\ task[h].at \in {"online_trip", "offline_trip"} /\ \A g \in Tasks \ {h} : task'[g] = task[g]
    BY <1>0, <1>8, <1>e, LastTask, OfflineTripTask DEF OnlineTrip, OfflineTrip, At, Goes, Ends, Idle
  <2>2. UNCHANGED <<status, ride, strayed>> BY <1>8 DEF OnlineTrip, OfflineTrip, rides, history
  <2>3. trip'[d] = None /\ \A e \in Drivers \ {d} : trip'[e] = trip[e]
    BY <1>0, <1>8, <1>f DEF OnlineTrip, OfflineTrip, DelTrip, KeysOK
  <2>4. ASSUME d \notin strayed PROVE RideShows(d)'
    <3>1. task[h].at \in Deciding BY <2>1 DEF Deciding
    <3>2. Unbooked(d) <=> Unbooked(d)' BY <1>e, <2>1 DEF Unbooked, Booking
    <3>3. \A g \in Tasks : ~(task'[g].driver = d /\ task'[g].at = "book_trip") BY <1>4, <2>1, <2>4, <3>1
    <3>4. ride[d] = None /\ status[d] = "on_trip" =>
            \E g \in Tasks : task'[g].driver = d /\ task'[g].at \in {"online", "offline"}
      <4> SUFFICES ASSUME ride[d] = None, status[d] = "on_trip"
          PROVE \E g \in Tasks : task'[g].driver = d /\ task'[g].at \in {"online", "offline"}
        OBVIOUS
      <4>1. PICK g \in Tasks : task[g].driver = d /\ task[g].at \in {"online", "offline"}
        BY <1>3, <2>4 DEF RideShows
      <4>2. task'[g] = task[g] BY <2>1, <4>1
      <4> QED BY <4>1, <4>2
    <3> QED BY <1>4, <2>2, <2>3, <2>4, <3>1, <3>2, <3>3, <3>4 DEF RideShows
  <2>5. task[h].at \notin Booking /\ task'[h].at \notin Booking BY <2>1 DEF Booking
  <2> QED BY <1>2, <2>1, <2>2, <2>3, <2>4, <2>5
<1>9. CASE OnTrip(h)
  <2>1. Goes(h, "book_trip") /\ task[h].at = "book" BY <1>0, <1>9, OnTripTask DEF OnTrip, At
  <2>2. UNCHANGED <<trip, ride>> BY <1>9 DEF OnTrip, rides
  <2>3. status'[d] = "on_trip" /\ \A e \in Drivers \ {d} : status'[e] = status[e]
    BY <1>0, <1>9, <1>f DEF OnTrip, SetStatus, KeysOK
  <2>4. /\ \A e \in Drivers \ {d} : e \in strayed => e \in strayed'
        /\ d \notin strayed' => ~Other(h, Deciding)
    BY <1>9, <1>f DEF OnTrip
  <2>5. /\ task[h].at \in Booking /\ task'[h].at \in Booking /\ task'[h].arg = task[h].arg
        /\ task'[h].driver = d /\ \A g \in Tasks \ {h} : task'[g] = task[g]
    BY <1>e, <2>1 DEF Goes, Booking
  <2>6. ride'[d] # None
    BY <1>0, <1>e, <1>f, <2>2, <2>5, NoneAssumption DEF RideOf, TasksOK, TaskOK, NoneAssumption
  <2>7. ASSUME d \notin strayed' PROVE RideShows(d)'
    <3>1. Undecided(d)' BY <1>f, <2>1, <2>4, <2>5, <2>7 DEF Undecided, Other, Driver, Goes, Deciding
    <3>2. ~Unbooked(d)' BY <2>5 DEF Unbooked
    <3> QED BY <2>3, <2>6, <3>1, <3>2 DEF RideShows
  <2>8. RideOf(d)' BY <1>e, <1>f, <2>2, <2>5, <2>7 DEF RideOf
  <2> QED BY <1>1, <2>2, <2>3, <2>4, <2>5, <2>8
<1>10. CASE OnTripTrip(h)
  <2>1. Ends(h) /\ task[h].at = "book_trip" BY <1>0, <1>10, LastTask DEF OnTripTrip, At
  <2>2. UNCHANGED <<status, ride, strayed>> BY <1>10 DEF OnTripTrip, rides, history
  <2>3. trip'[d] = task[h].arg /\ \A e \in Drivers \ {d} : trip'[e] = trip[e]
    BY <1>0, <1>10, <1>f DEF OnTripTrip, KeysOK
  <2>4. task'[h].driver = None /\ \A g \in Tasks \ {h} : task'[g] = task[g] BY <2>1 DEF Ends, Idle
  <2>5. ride[d] = task[h].arg /\ task[h].at \in Booking BY <1>e, <1>f, <2>1 DEF RideOf, Booking
  <2>6. ride[d] # None
    BY <1>0, <2>5, NoneAssumption DEF TasksOK, TaskOK, NoneAssumption
  <2>7. \A g \in Tasks \ {h} : task[g].driver = d => task[g].at \notin Booking
    BY <1>e, <1>f, <2>5 DEF RideOf
  <2>8. ASSUME d \notin strayed' PROVE RideShows(d)'
    <3>1. status[d] = "on_trip" /\ Undecided(d) BY <1>3, <1>e, <2>1, <2>2, <2>8 DEF RideShows
    <3>2. Undecided(d)' BY <1>f, <2>4, <3>1 DEF Undecided
    <3>3. \A g \in Tasks : ~(task'[g].driver = d /\ task'[g].at = "book_trip")
      BY <1>f, <2>4, <2>7 DEF Booking
    <3> QED BY <2>2, <2>3, <2>5, <2>6, <3>1, <3>2, <3>3 DEF RideShows
  <2>9. RideOf(d)' BY <1>f, <2>4, <2>7, <2>8 DEF RideOf
  <2> QED BY <1>1, <2>2, <2>3, <2>4, <2>9
<1> QED BY <1>5, <1>6, <1>7, <1>8, <1>9, <1>10

\* Every other step leaves rides, and the handlers that decide on them, alone.
LEMMA RestRide ==
  ASSUME TypeOK, RideInv, Step, Watch,
         ~(\E h \in Tasks, d \in Drivers : EndRide(h, d) \/ \E t \in Trips : Book(h, d, t)),
         ~(\E d \in Drivers : EndRideLost(d)),
         ~(\E h \in Tasks : \/ Read(h) \/ Leave(h) \/ Online(h) \/ OnlineTrip(h) \/ Offline(h)
                            \/ OfflineTrip(h) \/ OnTrip(h) \/ OnTripTrip(h)),
         ~Crash
  PROVE  RideInv'
<1>0. KeysOK /\ TasksOK BY TypeParts
<1> USE DEF keys, rides, history, bounds
<1>k. ASSUME UNCHANGED <<ride, status, trip, strayed>>,
             \A g \in Tasks : task[g].at \in Booking \cup Deciding \/ task'[g].at \in Booking \cup Deciding =>
               /\ task'[g].at = task[g].at /\ task'[g].driver = task[g].driver /\ task'[g].arg = task[g].arg
      PROVE RideInv'
  <2>1. ASSUME NEW d \in Drivers PROVE RideOf(d)'
    <3>1. KeepsRide(d) BY <1>k DEF KeepsRide
    <3> QED BY <3>1, RideKept DEF RideInv
  <2> QED BY <2>1 DEF RideInv
<1>b. ASSUME NEW h \in Tasks, NEW label \in {"read", "leave", "locate"}, NEW d, NEW x, NEW c,
             Begins(h, label, d, x, c)
      PROVE \A g \in Tasks : task[g].at \in Booking \cup Deciding \/ task'[g].at \in Booking \cup Deciding =>
              task'[g] = task[g]
  BY <1>b DEF Begins, Idle, Booking, Deciding
<1>1. ASSUME NEW h \in Tasks, NEW d \in Drivers, Connect(h, d) PROVE RideInv'
  <2>1. Begins(h, "read", d, None, TRUE) BY <1>0, <1>1, ConnectTask
  <2> QED BY <1>1, <1>b, <1>k, <2>1 DEF Connect
<1>2. ASSUME NEW h \in Tasks, NEW d \in Drivers, Disconnect(h, d) PROVE RideInv'
  <2>1. Begins(h, "leave", d, None, FALSE) BY <1>0, <1>2, DisconnectTask
  <2> QED BY <1>2, <1>b, <1>k, <2>1 DEF Disconnect
<1>3. ASSUME NEW h \in Tasks, NEW d \in Drivers, NEW s \in Shards, Ping(h, d, s) PROVE RideInv'
  <2>1. Begins(h, "locate", d, s, FALSE) BY <1>0, <1>3, PingTask
  <2> QED BY <1>3, <1>b, <1>k, <2>1 DEF Ping
<1>4. ASSUME NEW h \in Tasks, CloseUnheard(h) PROVE RideInv'
  <2>1. \A g \in Tasks : task'[g].at = task[g].at /\ task'[g].driver = task[g].driver /\ task'[g].arg = task[g].arg
    BY <1>0, <1>4, CloseTask
  <2> QED BY <1>4, <1>k, <2>1 DEF CloseUnheard
<1>5. ASSUME NEW h \in Tasks,
             Locate(h) \/ Move(h) \/ Add(h) \/ Set(h) \/ Forget(h) \/ Drop(h) \/ Unset(h)
      PROVE RideInv'
  <2>1. UNCHANGED <<ride, status, trip, strayed>>
    BY <1>5 DEF Locate, Move, Add, Set, Forget, Drop, Unset
  <2>2. task[h].at \notin Booking \cup Deciding
    BY <1>5 DEF Locate, Move, Add, Set, Forget, Drop, Unset, At, Booking, Deciding
  <2>3. \A g \in Tasks \ {h} : task'[g] = task[g]
    BY <1>0, <1>5, LocateTask, MoveTask, AddTask, LastTask, ForgetTask, DropTask DEF KeysOK, Goes, Ends
  <2>4. task'[h].at \in {"move", "add", "set", "drop", "unset", "idle"}
    BY <1>0, <1>5, LocateTask, MoveTask, AddTask, LastTask, ForgetTask, DropTask DEF KeysOK, Goes, Ends, Idle
  <2>5. task'[h].at \notin Booking \cup Deciding BY <2>4 DEF Booking, Deciding
  <2> QED BY <1>k, <2>1, <2>2, <2>3, <2>5
<1>6. ASSUME NEW s \in Shards, SearchShard(s) \/ Restart(s) PROVE RideInv'
  BY <1>k, <1>6 DEF SearchShard, Restart
<1>7. ASSUME SearchEnd PROVE RideInv' BY <1>k, <1>7 DEF SearchEnd
<1>8. CASE \E h \in Tasks, d \in Drivers :
             \/ Connect(h, d) \/ Disconnect(h, d) \/ EndRide(h, d)
             \/ \E t \in Trips : Book(h, d, t)
             \/ \E s \in Shards : Ping(h, d, s)
  BY <1>1, <1>2, <1>3, <1>8
<1>9. CASE \E h \in Tasks : CloseUnheard(h) \/ Handle(h) BY <1>4, <1>5, <1>9 DEF Handle
<1>10. CASE \E s \in Shards : SearchShard(s) \/ Restart(s) BY <1>6, <1>10
<1> QED BY <1>7, <1>8, <1>9, <1>10, Zenon DEF Step

LEMMA StepRide == ASSUME TypeOK, RideInv, Step, Watch PROVE RideInv'
<1>1. CASE \E h \in Tasks, d \in Drivers : EndRide(h, d) \/ \E t \in Trips : Book(h, d, t)
  BY <1>1, EndRideRide, BookRide
<1>2. CASE \E d \in Drivers : EndRideLost(d) BY <1>2, EndRideLostRide
<1>3. CASE \E h \in Tasks : \/ Read(h) \/ Leave(h) \/ Online(h) \/ OnlineTrip(h) \/ Offline(h)
                            \/ OfflineTrip(h) \/ OnTrip(h) \/ OnTripTrip(h)
  BY <1>3, DecideRide
<1>4. CASE Crash BY <1>4, CrashRide
<1> QED BY <1>1, <1>2, <1>3, <1>4, RestRide

LEMMA InitRide == Init => RideInv
<1> SUFFICES ASSUME Init, NEW d \in Drivers PROVE RideOf(d) BY DEF RideInv
<1>1. /\ \A h \in Tasks : task[h].driver = None /\ d # None
      /\ ride[d] = None /\ status[d] = "none" /\ trip[d] = None
  BY NoneAssumption DEF NoneAssumption, Init, Idle
<1> QED BY <1>1 DEF RideOf, RideShows, Undecided

LEMMA RideIsStatusFrom == ASSUME RideInv PROVE RideIsStatus
<1> SUFFICES ASSUME NEW d \in Drivers \ strayed
    PROVE /\ ride[d] # None /\ ~Running(d, Booking) => status[d] = "on_trip" /\ trip[d] = ride[d]
          /\ ride[d] = None /\ Quiet(d) => status[d] # "on_trip" /\ trip[d] = None
  BY DEF RideIsStatus
<1>1. RideShows(d) BY DEF RideInv, RideOf
<1>2. ~Running(d, Booking) => Unbooked(d) BY DEF Running, Driver, Unbooked
<1>3. Quiet(d) => Undecided(d) /\ \A h \in Tasks : task[h].driver # d BY DEF Quiet, Driver, Undecided
<1> QED BY <1>1, <1>2, <1>3 DEF RideShows

-----------------------------------------------------------------------------
(* Presence.                                                               *)

Leaves(d) == \E h \in Tasks : task[h].driver = d /\ task[h].at \in Leaving
Awaits(d, labels) == \E h \in Tasks : task[h].driver = d /\ task[h].socket /\ task[h].at \in labels

\* A socket is announced before its listeners are attached; once it is gone
\* its driver is not online, unless its handler is about to say so.
PresenceOf(d) == d \notin crossed =>
  /\ \A g, h \in Tasks : task[g].driver = d /\ task[g].socket /\ task[h].driver = d /\ task[h].socket => g = h
  /\ \A g, h \in Tasks :
       task[g].driver = d /\ task[g].at \in Leaving /\ task[h].driver = d /\ task[h].at \in Leaving => g = h
  /\ \A h \in Tasks : task[h].driver = d /\ task[h].at = "read" => task[h].socket
  /\ Leaves(d) => open[d] = 0 /\ \A h \in Tasks : task[h].driver = d => ~task[h].socket /\ task[h].at # "online_trip"
  /\ \A h \in Tasks : task[h].driver = d /\ task[h].at = "online_trip" => status[d] \in {"online", "on_trip"}
  /\ open[d] > 0 /\ ~Awaits(d, {"read", "online"}) => status[d] \in {"online", "on_trip"}
  /\ /\ open[d] = 0 /\ ~Awaits(d, Connecting)
     /\ \A h \in Tasks : task[h].driver = d => task[h].at \notin {"leave", "offline"}
     => status[d] # "online"

PresenceInv == \A d \in Drivers : PresenceOf(d)

KeepsPresence(d) ==
  /\ status'[d] = status[d] /\ open'[d] = open[d]
  /\ d \in crossed => d \in crossed'
  /\ \A g \in Tasks :
       \/ task[g].driver = d /\ task[g].at \in Presence
       \/ task'[g].driver = d /\ task'[g].at \in Presence
       => task'[g] = task[g]

LEMMA PresenceKept ==
  ASSUME TasksOK, TasksOK', NEW d \in Drivers, PresenceOf(d), KeepsPresence(d)
  PROVE  PresenceOf(d)'
<1> SUFFICES ASSUME d \notin crossed' PROVE PresenceOf(d)' BY DEF PresenceOf
<1>0. d \notin crossed BY DEF KeepsPresence
<1>1. \A g \in Tasks :
        /\ task[g].driver = d /\ (task[g].socket \/ task[g].at \in Presence) => task'[g] = task[g]
        /\ task'[g].driver = d /\ (task'[g].socket \/ task'[g].at \in Presence) => task'[g] = task[g]
  BY DEF TasksOK, TaskOK, KeepsPresence, Presence
<1>2. /\ {"leave", "offline", "online_trip", "read", "online"} \subseteq Presence
      /\ Leaving \subseteq Presence /\ Connecting \subseteq Presence
  BY DEF Presence, Leaving, Connecting
<1>3. Leaves(d) <=> Leaves(d)' BY <1>1, <1>2 DEF Leaves
<1>4. \A L : Awaits(d, L) <=> \E h \in Tasks : task'[h].driver = d /\ task'[h].socket /\ task'[h].at \in L
  BY <1>1 DEF Awaits
<1> USE DEF KeepsPresence
<1>5. \A g, h \in Tasks : task'[g].driver = d /\ task'[g].socket /\ task'[h].driver = d /\ task'[h].socket => g = h
  BY <1>0, <1>1 DEF PresenceOf
<1>6. \A g, h \in Tasks :
        task'[g].driver = d /\ task'[g].at \in Leaving /\ task'[h].driver = d /\ task'[h].at \in Leaving => g = h
  BY <1>0, <1>1, <1>2 DEF PresenceOf
<1>7. \A h \in Tasks : task'[h].driver = d /\ task'[h].at = "read" => task'[h].socket
  BY <1>0, <1>1, <1>2 DEF PresenceOf
<1>8. Leaves(d)' => open'[d] = 0 /\ \A h \in Tasks : task'[h].driver = d => ~task'[h].socket /\ task'[h].at # "online_trip"
  BY <1>0, <1>1, <1>2, <1>3 DEF PresenceOf
<1>9. \A h \in Tasks : task'[h].driver = d /\ task'[h].at = "online_trip" => status'[d] \in {"online", "on_trip"}
  BY <1>0, <1>1, <1>2 DEF PresenceOf
<1>10. open'[d] > 0 /\ ~Awaits(d, {"read", "online"})' => status'[d] \in {"online", "on_trip"}
  BY <1>0, <1>4 DEF PresenceOf, Awaits
<1>11. /\ open'[d] = 0 /\ ~Awaits(d, Connecting)'
       /\ \A h \in Tasks : task'[h].driver = d => task'[h].at \notin {"leave", "offline"}
       => status'[d] # "online"
  <2> SUFFICES ASSUME open'[d] = 0, ~Awaits(d, Connecting)',
                      \A h \in Tasks : task'[h].driver = d => task'[h].at \notin {"leave", "offline"}
      PROVE status'[d] # "online"
    OBVIOUS
  <2>1. \A h \in Tasks : task[h].driver = d => task[h].at \notin {"leave", "offline"} BY <1>1, <1>2
  <2>2. ~Awaits(d, Connecting) BY <1>4 DEF Awaits
  <2> QED BY <1>0, <2>1, <2>2 DEF PresenceOf
<1> QED BY <1>5, <1>6, <1>7, <1>8, <1>9, <1>10, <1>11 DEF PresenceOf

\* A command of h leaves the presence of all but its driver alone.
LEMMA PresenceOthers ==
  ASSUME TasksOK, TasksOK', NEW h \in Tasks, NEW d \in Drivers, NEW e \in Drivers \ {d}, PresenceOf(e),
         task[h].driver \in {d, None}, task'[h].driver \in {d, None},
         \A g \in Tasks \ {h} : task'[g] = task[g],
         status'[e] = status[e], open'[e] = open[e], e \in crossed => e \in crossed'
  PROVE  PresenceOf(e)'
<1>1. e # None BY NoneAssumption DEF NoneAssumption
<1>2. KeepsPresence(e) BY <1>1 DEF KeepsPresence
<1> QED BY <1>2, PresenceKept

\* The labels, as sets of names.
LEMMA Names ==
  /\ Presence = {"read", "online", "online_trip", "leave", "offline", "offline_trip", "forget", "drop", "unset"}
  /\ Connecting = {"read", "online", "online_trip"}
  /\ Leaving = {"leave", "offline", "offline_trip", "forget", "drop", "unset"}
BY DEF Presence, Connecting, Leaving

LEMMA ConnectPresence ==
  ASSUME TypeOK, PresenceInv, NEW h \in Tasks, NEW d \in Drivers, Connect(h, d)
  PROVE  PresenceInv'
<1>0. KeysOK /\ TasksOK /\ TasksOK' BY TypeParts, ConnectTask
<1>1. Begins(h, "read", d, None, TRUE) BY <1>0, ConnectTask
<1>2. /\ task[h].driver = None /\ task'[h].driver = d /\ task'[h].at = "read" /\ task'[h].socket
      /\ \A g \in Tasks \ {h} : task'[g] = task[g]
  BY <1>1 DEF Begins, Idle
<1>3. /\ status' = status /\ open' = open
      /\ d \notin crossed' => ~Running(d, Presence)
      /\ \A e \in Drivers \ {d} : e \in crossed => e \in crossed'
  BY DEF Connect, keys
<1>4. ASSUME d \notin crossed' PROVE PresenceOf(d)'
  <2>1. \A g \in Tasks : task[g].driver = d => task[g].at \notin Presence
    BY <1>3, <1>4 DEF Running, Driver
  <2>2. \A g \in Tasks : task[g].driver = d => ~task[g].socket
    BY <1>0, <2>1 DEF TasksOK, TaskOK, Presence
  <2>3. \A g \in Tasks : task'[g].driver = d => g = h \/ (task'[g].at \notin Presence /\ ~task'[g].socket)
    BY <1>2, <2>1, <2>2
  <2>4. Awaits(d, {"read", "online"})' /\ Awaits(d, Connecting)' BY <1>2 DEF Awaits, Connecting
  <2>5. ~Leaves(d)' BY <1>2, <2>3, Names DEF Leaves
  <2> QED BY <1>2, <2>3, <2>4, <2>5, Names DEF PresenceOf
<1>5. PresenceOf(d)' BY <1>4 DEF PresenceOf
<1>6. \A e \in Drivers \ {d} : PresenceOf(e)' BY <1>0, <1>2, <1>3, PresenceOthers DEF PresenceInv
<1> QED BY <1>5, <1>6 DEF PresenceInv

LEMMA DisconnectPresence ==
  ASSUME TypeOK, PresenceInv, NEW h \in Tasks, NEW d \in Drivers, Disconnect(h, d)
  PROVE  PresenceInv'
<1>0. KeysOK /\ TasksOK /\ TasksOK' BY TypeParts, DisconnectTask
<1>1. Begins(h, "leave", d, None, FALSE) BY <1>0, DisconnectTask
<1>2. /\ task[h].driver = None /\ task'[h].driver = d /\ task'[h].at = "leave" /\ ~task'[h].socket
      /\ \A g \in Tasks \ {h} : task'[g] = task[g]
  BY <1>1 DEF Begins, Idle
<1>3. /\ status' = status
      /\ open' = [open EXCEPT ![d] = open[d] - 1] /\ open[d] > 0
      /\ d \notin crossed' => open[d] <= 1 /\ ~Running(d, Presence)
      /\ \A e \in Drivers \ {d} : e \in crossed => e \in crossed'
  BY <1>0 DEF Disconnect, keys, KeysOK
<1>4. ASSUME d \notin crossed' PROVE PresenceOf(d)'
  <2>1. \A g \in Tasks : task[g].driver = d => task[g].at \notin Presence
    BY <1>3, <1>4 DEF Running, Driver
  <2>2. \A g \in Tasks : task[g].driver = d => ~task[g].socket
    BY <1>0, <2>1 DEF TasksOK, TaskOK, Presence
  <2>3. \A g \in Tasks : task'[g].driver = d => ~task'[g].socket /\ (g = h \/ task'[g].at \notin Presence)
    BY <1>2, <2>1, <2>2
  <2>4. open'[d] = 0 BY <1>0, <1>3, <1>4 DEF KeysOK
  <2> QED BY <1>2, <2>3, <2>4, Names DEF PresenceOf
<1>5. PresenceOf(d)' BY <1>4 DEF PresenceOf
<1>6. \A e \in Drivers \ {d} : open'[e] = open[e] BY <1>0, <1>3 DEF KeysOK
<1>7. \A e \in Drivers \ {d} : PresenceOf(e)' BY <1>0, <1>2, <1>3, <1>6, PresenceOthers DEF PresenceInv
<1> QED BY <1>5, <1>7 DEF PresenceInv

LEMMA EndRidePresence ==
  ASSUME TypeOK, PresenceInv, NEW h \in Tasks, NEW d \in Drivers, EndRide(h, d)
  PROVE  PresenceInv'
<1>0. KeysOK /\ TasksOK /\ TasksOK' BY TypeParts, EndRideTask
<1>1. Begins(h, "online", d, None, FALSE) BY <1>0, EndRideTask
<1>2. /\ task[h].driver = None /\ task'[h].driver = d /\ task'[h].at = "online" /\ ~task'[h].socket
      /\ \A g \in Tasks \ {h} : task'[g] = task[g]
  BY <1>1 DEF Begins, Idle
<1>3. status' = status /\ open' = open /\ crossed' = crossed BY DEF EndRide, keys, history
<1>4. ASSUME d \notin crossed' PROVE PresenceOf(d)'
  <2>1. d # None /\ PresenceOf(d) /\ d \notin crossed
    BY <1>3, <1>4, NoneAssumption DEF NoneAssumption, PresenceInv
  <2>2. Leaves(d)' <=> Leaves(d)
    BY <1>2, <2>1, Names DEF Leaves
  <2>3. Awaits(d, {"read", "online"})' <=> Awaits(d, {"read", "online"}) BY <1>2, <2>1 DEF Awaits
  <2>4. Awaits(d, Connecting)' <=> Awaits(d, Connecting) BY <1>2, <2>1 DEF Awaits, Connecting
  <2>5. \A g \in Tasks : task'[g].driver = d => g = h \/ task'[g] = task[g] BY <1>2
  <2> USE DEF PresenceOf
  <2>6. \A f, g \in Tasks : task'[f].driver = d /\ task'[f].socket /\ task'[g].driver = d /\ task'[g].socket => f = g
    BY <1>2, <2>1, <2>5
  <2>7. \A f, g \in Tasks :
          task'[f].driver = d /\ task'[f].at \in Leaving /\ task'[g].driver = d /\ task'[g].at \in Leaving => f = g
    BY <1>2, <2>1, <2>5, Names
  <2>8. \A g \in Tasks : task'[g].driver = d /\ task'[g].at = "read" => task'[g].socket BY <1>2, <2>1, <2>5
  <2>9. Leaves(d)' => open'[d] = 0 /\ \A g \in Tasks : task'[g].driver = d => ~task'[g].socket /\ task'[g].at # "online_trip"
    BY <1>2, <1>3, <2>1, <2>2, <2>5
  <2>10. \A g \in Tasks : task'[g].driver = d /\ task'[g].at = "online_trip" => status'[d] \in {"online", "on_trip"}
    BY <1>2, <1>3, <2>1, <2>5
  <2>11. open'[d] > 0 /\ ~Awaits(d, {"read", "online"})' => status'[d] \in {"online", "on_trip"}
    BY <1>3, <2>1, <2>3
  <2>12. (\A g \in Tasks : task'[g].driver = d => task'[g].at \notin {"leave", "offline"}) =>
         \A g \in Tasks : task[g].driver = d => task[g].at \notin {"leave", "offline"}
    BY <1>2, <2>1
  <2> QED BY <1>3, <2>1, <2>4, <2>6, <2>7, <2>8, <2>9, <2>10, <2>11, <2>12
<1>5. PresenceOf(d)' BY <1>4 DEF PresenceOf
<1>6. \A e \in Drivers \ {d} : PresenceOf(e)' BY <1>0, <1>2, <1>3, PresenceOthers DEF PresenceInv
<1> QED BY <1>5, <1>6 DEF PresenceInv

\* A socket that closes before its listeners are attached crosses its driver.
LEMMA ClosePresence ==
  ASSUME TypeOK, PresenceInv, NEW h \in Tasks, CloseUnheard(h)
  PROVE  PresenceInv'
<1>0. KeysOK /\ TasksOK /\ TasksOK' BY TypeParts, CloseTask
<1>1. /\ task[h].at \in Connecting /\ task'[h].driver = task[h].driver
      /\ \A g \in Tasks \ {h} : task'[g] = task[g]
  BY <1>0, CloseTask
<1>2. PICK d \in Drivers : task[h].driver = d BY <1>1, HasDriver, Names
<1>3. status' = status /\ open' = open /\ crossed' = crossed \cup {d}
  BY <1>2 DEF CloseUnheard, keys, Driver
<1>4. PresenceOf(d)' BY <1>3 DEF PresenceOf
<1>5. \A e \in Drivers \ {d} : PresenceOf(e)' BY <1>0, <1>1, <1>2, <1>3, PresenceOthers DEF PresenceInv
<1> QED BY <1>4, <1>5 DEF PresenceInv

LEMMA CrashPresence == ASSUME TypeOK, PresenceInv, Crash PROVE PresenceInv'
<1>1. \A h \in Tasks : task'[h].driver = None BY CrashTask DEF Idle
<1>2. /\ status' = status /\ \A d \in Drivers : open'[d] = 0
      /\ \A d \in Drivers \ crossed' : d \notin crossed /\ ~(open[d] > 0) /\ ~Running(d, Presence)
  BY DEF Crash, keys
<1>3. ASSUME NEW d \in Drivers, d \notin crossed' PROVE PresenceOf(d)'
  <2>1. d # None BY NoneAssumption DEF NoneAssumption
  <2>2. d \notin crossed /\ open[d] = 0 BY <1>2, <1>3, TypeParts DEF KeysOK
  <2>3. \A g \in Tasks : task[g].driver = d => task[g].at \notin Presence
    BY <1>2, <1>3 DEF Running, Driver
  <2>4. status[d] # "online" BY <2>2, <2>3, Names DEF PresenceInv, PresenceOf, Awaits
  <2>5. \A h \in Tasks : task'[h].driver # d BY <1>1, <2>1
  <2>6. open'[d] = 0 /\ status'[d] # "online" BY <1>2, <2>4
  <2> QED BY <2>5, <2>6 DEF PresenceOf, Leaves
<1> QED BY <1>3 DEF PresenceInv, PresenceOf

\* The commands of a driver's connects and disconnects, and a booking.
LEMMA HandlePresence ==
  ASSUME TypeOK, PresenceInv, NEW h \in Tasks,
         \/ Read(h) \/ Leave(h) \/ Online(h) \/ OnlineTrip(h) \/ Offline(h) \/ OfflineTrip(h)
         \/ Forget(h) \/ Drop(h) \/ Unset(h) \/ OnTrip(h)
  PROVE  PresenceInv'
<1>0. KeysOK /\ TasksOK BY TypeParts
<1>t. TasksOK'
  BY <1>0, ReadTask, LeaveTask, OnlineTask, LastTask, OfflineTask, OfflineTripTask, ForgetTask,
     DropTask, OnTripTask DEF KeysOK
<1>d. task[h].at # "idle"
  BY DEF Read, Leave, Online, OnlineTrip, Offline, OfflineTrip, Forget, Drop, Unset, OnTrip, At
<1>e. PICK d \in Drivers : task[h].driver = d BY <1>d, HasDriver
<1>f. Driver(h) = d /\ d # None BY <1>e, NoneAssumption DEF Driver, NoneAssumption
<1>o. ASSUME task'[h].driver \in {d, None}, \A g \in Tasks \ {h} : task'[g] = task[g],
             \A e \in Drivers \ {d} : /\ status'[e] = status[e] /\ open'[e] = open[e]
                                      /\ e \in crossed => e \in crossed',
             d \notin crossed' => PresenceOf(d)'
      PROVE  PresenceInv'
  <2>1. PresenceOf(d)' BY <1>o DEF PresenceOf
  <2>2. \A e \in Drivers \ {d} : PresenceOf(e)' BY <1>0, <1>t, <1>e, <1>o, PresenceOthers DEF PresenceInv
  <2> QED BY <2>1, <2>2 DEF PresenceInv
<1>s. task[h].at \notin Connecting => ~task[h].socket BY <1>0 DEF TasksOK, TaskOK
<1>1. CASE Read(h)
  <2>1. task[h].at = "read" /\ status' = status /\ crossed' = crossed
    BY <1>1 DEF Read, At, keys, history
  <2>2. CASE status[d] = "on_trip"
    <3>1. Ends(h) /\ Attach(h) BY <1>0, <1>1, <1>f, <2>2, ReadTask DEF Read
    <3>2. task'[h].driver = None /\ \A g \in Tasks \ {h} : task'[g] = task[g] BY <3>1 DEF Ends, Idle
    <3>3. /\ open'[d] = open[d] + (IF task[h].socket THEN 1 ELSE 0)
          /\ \A e \in Drivers \ {d} : open'[e] = open[e]
      BY <1>0, <1>f, <3>1 DEF Attach, KeysOK
    <3>4. ASSUME d \notin crossed' PROVE PresenceOf(d)'
      <4>1. PresenceOf(d) /\ d \notin crossed BY <2>1, <3>4 DEF PresenceInv
      <4>2. task[h].socket BY <1>e, <2>1, <4>1 DEF PresenceOf
      <4>3. \A g \in Tasks : task'[g].driver = d => g # h /\ task'[g] = task[g] BY <1>f, <3>2
      <4>4. ~Leaves(d) BY <1>e, <4>1, <4>2 DEF PresenceOf
      <4>5. ~Leaves(d)' BY <4>3, <4>4 DEF Leaves
      <4>6. status'[d] = "on_trip" BY <2>1, <2>2
      <4> QED BY <4>1, <4>3, <4>5, <4>6 DEF PresenceOf
    <3> QED BY <1>o, <2>1, <3>2, <3>3, <3>4
  <2>3. CASE status[d] # "on_trip"
    <3>1. Goes(h, "online") /\ open' = open BY <1>0, <1>1, <1>f, <2>3, ReadTask DEF Read
    <3>2. /\ task'[h].driver = d /\ task'[h].at = "online" /\ task'[h].socket = task[h].socket
          /\ \A g \in Tasks \ {h} : task'[g] = task[g]
      BY <1>e, <3>1 DEF Goes
    <3>3. ASSUME d \notin crossed' PROVE PresenceOf(d)'
      <4>1. PresenceOf(d) /\ d \notin crossed BY <2>1, <3>3 DEF PresenceInv
      <4>2. task[h].socket BY <1>e, <2>1, <4>1 DEF PresenceOf
      <4>3. \A g \in Tasks : task'[g].driver = d => g = h \/ task'[g] = task[g] BY <3>2
      <4>4. ~Leaves(d) BY <1>e, <4>1, <4>2 DEF PresenceOf
      <4>5. ~Leaves(d)' BY <3>2, <4>3, <4>4, Names DEF Leaves
      <4>6. Awaits(d, {"read", "online"})' /\ Awaits(d, Connecting)' BY <3>2, <4>2, Names DEF Awaits
      <4> QED BY <1>e, <2>1, <3>2, <4>1, <4>2, <4>3, <4>5, <4>6, Names DEF PresenceOf, Leaves
    <3> QED BY <1>o, <2>1, <3>1, <3>2, <3>3
  <2> QED BY <2>2, <2>3
<1>2. CASE Leave(h)
  <2>1. task[h].at = "leave" /\ status' = status /\ crossed' = crossed /\ open' = open
    BY <1>2 DEF Leave, At, keys, history
  <2>2. CASE status[d] = "on_trip"
    <3>1. Ends(h) BY <1>0, <1>2, <1>f, <2>2, LeaveTask
    <3>2. task'[h].driver = None /\ \A g \in Tasks \ {h} : task'[g] = task[g] BY <3>1 DEF Ends, Idle
    <3>3. ASSUME d \notin crossed' PROVE PresenceOf(d)'
      <4>1. PresenceOf(d) /\ d \notin crossed BY <2>1, <3>3 DEF PresenceInv
      <4>2. Leaves(d) BY <1>e, <2>1, Names DEF Leaves
      <4>3. \A g \in Tasks : task'[g].driver = d => g # h /\ task'[g] = task[g] BY <1>f, <3>2
      <4>4. ~Leaves(d)'
        <5>1. \A g \in Tasks \ {h} : task[g].driver = d => task[g].at \notin Leaving
          BY <1>e, <2>1, <4>1, Names DEF PresenceOf
        <5> QED BY <4>3, <5>1 DEF Leaves
      <4>5. open'[d] = 0 /\ status'[d] = "on_trip" BY <2>1, <2>2, <4>1, <4>2 DEF PresenceOf
      <4> QED BY <4>1, <4>3, <4>4, <4>5 DEF PresenceOf
    <3> QED BY <1>o, <2>1, <3>2, <3>3
  <2>3. CASE status[d] # "on_trip"
    <3>1. Goes(h, "offline") BY <1>0, <1>2, <1>f, <2>3, LeaveTask
    <3>2. /\ task'[h].driver = d /\ task'[h].at = "offline" /\ task'[h].socket = task[h].socket
          /\ \A g \in Tasks \ {h} : task'[g] = task[g]
      BY <1>e, <3>1 DEF Goes
    <3>3. ASSUME d \notin crossed' PROVE PresenceOf(d)'
      <4>1. PresenceOf(d) /\ d \notin crossed BY <2>1, <3>3 DEF PresenceInv
      <4>2. Leaves(d) BY <1>e, <2>1, Names DEF Leaves
      <4>3. \A g \in Tasks : task'[g].driver = d => g = h \/ task'[g] = task[g] BY <3>2
      <4>4. open'[d] = 0 /\ \A g \in Tasks : task'[g].driver = d => ~task'[g].socket /\ task'[g].at # "online_trip"
        BY <1>e, <2>1, <3>2, <4>1, <4>2, <4>3 DEF PresenceOf
      <4> QED BY <1>e, <2>1, <3>2, <4>1, <4>3, <4>4, Names DEF PresenceOf
    <3> QED BY <1>o, <2>1, <3>2, <3>3
  <2> QED BY <2>2, <2>3
<1>3. CASE Online(h)
  <2>1. /\ task[h].at = "online" /\ open' = open
        /\ status' = [status EXCEPT ![d] = "online"]
        /\ crossed' = IF open[d] = 0 /\ Unattached(d) = {} THEN crossed \cup {d} ELSE crossed
    BY <1>3, <1>f DEF Online, At, SetStatus
  <2>2. status'[d] = "online" /\ \A e \in Drivers \ {d} : status'[e] = status[e]
    BY <1>0, <2>1 DEF KeysOK
  <2>3. /\ task'[h].driver = d /\ task'[h].at = "online_trip" /\ task'[h].socket = task[h].socket
        /\ \A g \in Tasks \ {h} : task'[g] = task[g]
    BY <1>0, <1>3, <1>e, OnlineTask DEF Goes
  <2>4. ASSUME d \notin crossed' PROVE PresenceOf(d)'
    <3>1. PresenceOf(d) /\ d \notin crossed BY <2>1, <2>4 DEF PresenceInv
    <3>2. open[d] # 0 \/ \E g \in Tasks : task[g].driver = d /\ task[g].socket
      BY <2>1, <2>4 DEF Unattached, Driver
    <3>3. \A g \in Tasks : task'[g].driver = d => g = h \/ task'[g] = task[g] BY <2>3
    <3>4. ~Leaves(d) BY <3>1, <3>2 DEF PresenceOf
    <3>5. ~Leaves(d)' BY <2>3, <3>3, <3>4, Names DEF Leaves
    <3>6. open'[d] # 0 \/ Awaits(d, Connecting)'
      <4>1. ASSUME NEW g \in Tasks, task[g].driver = d, task[g].socket PROVE Awaits(d, Connecting)'
        <5>1. task[g].at \in Connecting BY <1>0, <4>1 DEF TasksOK, TaskOK
        <5>2. task'[g].driver = d /\ task'[g].socket /\ task'[g].at \in Connecting
          BY <2>3, <4>1, <5>1, Names
        <5> QED BY <5>2 DEF Awaits
      <4> QED BY <2>1, <3>2, <4>1
    <3> QED BY <1>e, <2>2, <2>3, <3>1, <3>3, <3>5, <3>6, Names DEF PresenceOf, Leaves
  <2> QED BY <1>o, <2>1, <2>2, <2>3, <2>4
<1>4. CASE OnlineTrip(h)
  <2>1. task[h].at = "online_trip" /\ status' = status /\ crossed' = crossed /\ Attach(h)
    BY <1>4 DEF OnlineTrip, At, history
  <2>2. task'[h].driver = None /\ \A g \in Tasks \ {h} : task'[g] = task[g]
    BY <1>0, <1>4, LastTask DEF Ends, Idle
  <2>3. /\ open'[d] = open[d] + (IF task[h].socket THEN 1 ELSE 0)
        /\ \A e \in Drivers \ {d} : open'[e] = open[e]
    BY <1>0, <1>f, <2>1 DEF Attach, KeysOK
  <2>4. ASSUME d \notin crossed' PROVE PresenceOf(d)'
    <3>1. PresenceOf(d) /\ d \notin crossed BY <2>1, <2>4 DEF PresenceInv
    <3>2. \A g \in Tasks : task'[g].driver = d => g # h /\ task'[g] = task[g] BY <1>f, <2>2
    <3>3. status'[d] \in {"online", "on_trip"} BY <1>e, <2>1, <3>1 DEF PresenceOf
    <3>4. ~Leaves(d)
      BY <1>e, <2>1, <3>1 DEF PresenceOf
    <3>5. ~Leaves(d)' BY <3>2, <3>4 DEF Leaves
    <3>6. \A g \in Tasks : task[g].driver = d => task[g].at \notin {"leave", "offline"}
      BY <3>4, Names DEF Leaves
    <3>7. open'[d] = 0 /\ ~Awaits(d, Connecting)' => status'[d] # "online"
      <4> SUFFICES ASSUME open'[d] = 0, ~Awaits(d, Connecting)' PROVE status'[d] # "online"
        OBVIOUS
      <4>1. open[d] = 0 /\ ~task[h].socket BY <1>0, <2>3 DEF KeysOK
      <4>2. ~Awaits(d, Connecting)
        <5>1. ASSUME NEW g \in Tasks, task[g].driver = d, task[g].socket, task[g].at \in Connecting PROVE FALSE
          <6>1. g # h BY <4>1, <5>1
          <6>2. task'[g] = task[g] BY <2>2, <6>1
          <6> QED BY <5>1, <6>2 DEF Awaits
        <5> QED BY <5>1 DEF Awaits
      <4> QED BY <2>1, <3>1, <3>6, <4>1, <4>2 DEF PresenceOf
    <3> QED BY <3>1, <3>2, <3>3, <3>5, <3>7 DEF PresenceOf
  <2> QED BY <1>o, <2>1, <2>2, <2>3, <2>4
\* From here on nothing of the driver's is attached, and he has no other
\* disconnect under way.
<1>l. ASSUME d \notin crossed, task[h].at \in Leaving
      PROVE  /\ PresenceOf(d) /\ open[d] = 0
             /\ \A g \in Tasks : task[g].driver = d => ~task[g].socket /\ task[g].at # "online_trip"
             /\ \A g \in Tasks \ {h} : task[g].driver = d => task[g].at \notin Leaving
  BY <1>e, <1>l DEF PresenceInv, PresenceOf, Leaves
<1>5. CASE Offline(h)
  <2>1. task[h].at = "offline" /\ open' = open /\ crossed' = crossed /\ status' = [status EXCEPT ![d] = "offline"]
    BY <1>5, <1>f DEF Offline, At, SetStatus, history
  <2>2. status'[d] = "offline" /\ \A e \in Drivers \ {d} : status'[e] = status[e]
    BY <1>0, <2>1 DEF KeysOK
  <2>3. /\ task'[h].driver = d /\ task'[h].at = "offline_trip" /\ task'[h].socket = task[h].socket
        /\ \A g \in Tasks \ {h} : task'[g] = task[g]
    BY <1>0, <1>5, <1>e, OfflineTask DEF Goes
  <2>4. ASSUME d \notin crossed' PROVE PresenceOf(d)'
    <3>1. task[h].at \in Leaving BY <2>1, Names
    <3>2. /\ PresenceOf(d) /\ open'[d] = 0
          /\ \A g \in Tasks : task'[g].driver = d => ~task'[g].socket /\ task'[g].at # "online_trip"
          /\ \A g \in Tasks \ {h} : task'[g].driver = d => task'[g].at \notin Leaving
      BY <1>l, <1>e, <2>1, <2>3, <2>4, <3>1
    <3> QED BY <1>e, <2>1, <2>2, <2>3, <2>4, <3>2 DEF PresenceOf
  <2> QED BY <1>o, <2>1, <2>2, <2>3, <2>4
<1>6. CASE OfflineTrip(h) \/ Forget(h) \/ Drop(h) \/ Unset(h)
  <2>1. /\ task[h].at \in Leaving \ {"leave", "offline"}
        /\ status' = status /\ open' = open /\ crossed' = crossed
    BY <1>6, Names DEF OfflineTrip, Forget, Drop, Unset, At, keys, history
  <2>2. /\ task'[h].driver \in {d, None} /\ ~task'[h].socket
        /\ task'[h].driver = d => task'[h].at \in Leaving \ {"leave", "offline"}
        /\ \A g \in Tasks \ {h} : task'[g] = task[g]
    <3>1. ~task[h].socket BY <1>s, <2>1, Names
    <3>2. CASE OfflineTrip(h) BY <1>0, <1>e, <3>1, <3>2, OfflineTripTask, Names DEF Goes
    <3>3. CASE Forget(h) BY <1>0, <1>e, <3>3, ForgetTask, Names DEF KeysOK
    <3>4. CASE Drop(h) BY <1>0, <1>e, <3>1, <3>4, DropTask, Names DEF Goes
    <3>5. CASE Unset(h) BY <1>0, <1>f, <3>5, LastTask DEF Ends, Idle
    <3> QED BY <1>6, <3>2, <3>3, <3>4, <3>5
  <2>3. ASSUME d \notin crossed' PROVE PresenceOf(d)'
    <3>1. d \notin crossed /\ task[h].at \in Leaving BY <2>1, <2>3
    <3>2. /\ PresenceOf(d) /\ open'[d] = 0
          /\ \A g \in Tasks : task'[g].driver = d => ~task'[g].socket /\ task'[g].at # "online_trip"
          /\ \A g \in Tasks \ {h} : task'[g].driver = d => task'[g].at \notin Leaving
      BY <1>l, <1>e, <2>1, <2>2, <3>1, Names
    <3>3. status[d] # "online"
      <4>1. ~Awaits(d, Connecting) BY <1>l, <3>1 DEF Awaits
      <4>2. \A g \in Tasks : task[g].driver = d => task[g].at \notin {"leave", "offline"}
        BY <1>l, <2>1, <3>1, Names
      <4> QED BY <1>l, <3>1, <4>1, <4>2 DEF PresenceOf
    <3>4. \A g \in Tasks : task'[g].driver = d /\ task'[g].at = "read" => task'[g].socket
      BY <2>2, <3>1, <3>2, Names DEF PresenceOf
    <3> QED BY <2>1, <3>2, <3>3, <3>4 DEF PresenceOf
  <2> QED BY <1>o, <2>1, <2>2, <2>3
<1>7. CASE OnTrip(h)
  <2>1. task[h].at = "book" /\ open' = open /\ crossed' = crossed /\ status' = [status EXCEPT ![d] = "on_trip"]
    BY <1>7, <1>f DEF OnTrip, At, SetStatus
  <2>2. status'[d] = "on_trip" /\ \A e \in Drivers \ {d} : status'[e] = status[e]
    BY <1>0, <2>1 DEF KeysOK
  <2>3. /\ task'[h].driver = d /\ task'[h].at = "book_trip" /\ task'[h].socket = task[h].socket
        /\ \A g \in Tasks \ {h} : task'[g] = task[g]
    BY <1>0, <1>7, <1>e, OnTripTask DEF Goes
  <2>4. ASSUME d \notin crossed' PROVE PresenceOf(d)'
    <3>1. PresenceOf(d) /\ d \notin crossed BY <2>1, <2>4 DEF PresenceInv
    <3>2. ~task'[h].socket /\ task'[h].at \notin Presence BY <1>s, <2>1, <2>3, Names
    <3>3. \A g \in Tasks : task'[g].driver = d => g = h \/ task'[g] = task[g] BY <2>3
    <3>4. Leaves(d)' => Leaves(d) BY <2>3, <3>3, Names DEF Leaves
    <3>5. \A f, g \in Tasks : task'[f].driver = d /\ task'[f].socket /\ task'[g].driver = d /\ task'[g].socket => f = g
      BY <3>1, <3>2, <3>3 DEF PresenceOf
    <3>6. \A f, g \in Tasks :
            task'[f].driver = d /\ task'[f].at \in Leaving /\ task'[g].driver = d /\ task'[g].at \in Leaving => f = g
      BY <2>3, <3>1, <3>3, Names DEF PresenceOf
    <3>7. Leaves(d)' => open'[d] = 0 /\ \A g \in Tasks : task'[g].driver = d => ~task'[g].socket /\ task'[g].at # "online_trip"
      BY <2>1, <2>3, <3>1, <3>2, <3>3, <3>4 DEF PresenceOf
    <3>8. \A g \in Tasks : task'[g].driver = d /\ task'[g].at = "read" => task'[g].socket
      BY <2>3, <3>1, <3>3 DEF PresenceOf
    <3> QED BY <2>2, <3>5, <3>6, <3>7, <3>8 DEF PresenceOf
  <2> QED BY <1>o, <2>1, <2>2, <2>3, <2>4
<1> QED BY <1>1, <1>2, <1>3, <1>4, <1>5, <1>6, <1>7

\* Every other step leaves sockets, statuses and their handlers alone.
LEMMA RestPresence ==
  ASSUME TypeOK, PresenceInv, Step, Watch,
         ~(\E h \in Tasks, d \in Drivers : Connect(h, d) \/ Disconnect(h, d) \/ EndRide(h, d)),
         ~(\E h \in Tasks : \/ CloseUnheard(h) \/ Read(h) \/ Leave(h) \/ Online(h) \/ OnlineTrip(h)
                            \/ Offline(h) \/ OfflineTrip(h) \/ Forget(h) \/ Drop(h) \/ Unset(h)
                            \/ OnTrip(h)),
         ~Crash
  PROVE  PresenceInv'
<1>0. KeysOK /\ TasksOK BY TypeParts
<1>0a. TasksOK' BY StepType DEF TypeOK, TasksOK
<1> USE DEF keys, rides, history, bounds
<1>k. ASSUME UNCHANGED <<status, open, crossed>>,
             \A g \in Tasks : task[g].at \in Presence \/ task'[g].at \in Presence => task'[g] = task[g]
      PROVE PresenceInv'
  <2>1. ASSUME NEW d \in Drivers PROVE PresenceOf(d)'
    <3>1. KeepsPresence(d) BY <1>k DEF KeepsPresence
    <3> QED BY <1>0, <1>0a, <3>1, PresenceKept DEF PresenceInv
  <2> QED BY <2>1 DEF PresenceInv
<1>b. ASSUME NEW h \in Tasks, NEW label \in {"book", "locate"}, NEW d, NEW x, NEW c, Begins(h, label, d, x, c)
      PROVE \A g \in Tasks : task[g].at \in Presence \/ task'[g].at \in Presence => task'[g] = task[g]
  BY <1>b, Names DEF Begins, Idle
<1>1. ASSUME NEW h \in Tasks, NEW d \in Drivers, NEW t \in Trips, Book(h, d, t) PROVE PresenceInv'
  <2>1. Begins(h, "book", d, t, FALSE) BY <1>0, <1>1, BookTask
  <2> QED BY <1>1, <1>b, <1>k, <2>1 DEF Book
<1>2. ASSUME NEW h \in Tasks, NEW d \in Drivers, NEW s \in Shards, Ping(h, d, s) PROVE PresenceInv'
  <2>1. Begins(h, "locate", d, s, FALSE) BY <1>0, <1>2, PingTask
  <2> QED BY <1>2, <1>b, <1>k, <2>1 DEF Ping
<1>3. ASSUME NEW d \in Drivers, EndRideLost(d) PROVE PresenceInv'
  BY <1>3, <1>k DEF EndRideLost
<1>4. ASSUME NEW h \in Tasks, OnTripTrip(h) \/ Locate(h) \/ Move(h) \/ Add(h) \/ Set(h) PROVE PresenceInv'
  <2>1. UNCHANGED <<status, open, crossed>> BY <1>4 DEF OnTripTrip, Locate, Move, Add, Set
  <2>2. task[h].at \notin Presence BY <1>4, Names DEF OnTripTrip, Locate, Move, Add, Set, At
  <2>3. \A g \in Tasks \ {h} : task'[g] = task[g]
    BY <1>0, <1>4, LocateTask, MoveTask, AddTask, LastTask DEF KeysOK, Goes, Ends
  <2>4. task'[h].at \in {"move", "add", "set", "idle"}
    BY <1>0, <1>4, LocateTask, MoveTask, AddTask, LastTask DEF KeysOK, Goes, Ends, Idle
  <2>5. task'[h].at \notin Presence BY <2>4, Names
  <2> QED BY <1>k, <2>1, <2>2, <2>3, <2>5
<1>5. ASSUME NEW s \in Shards, SearchShard(s) \/ Restart(s) PROVE PresenceInv'
  BY <1>k, <1>5 DEF SearchShard, Restart
<1>6. ASSUME SearchEnd PROVE PresenceInv' BY <1>k, <1>6 DEF SearchEnd
<1>7. CASE \E h \in Tasks, d \in Drivers :
             \/ Connect(h, d) \/ Disconnect(h, d) \/ EndRide(h, d)
             \/ \E t \in Trips : Book(h, d, t)
             \/ \E s \in Shards : Ping(h, d, s)
  BY <1>1, <1>2, <1>7
<1>8. CASE \E h \in Tasks : CloseUnheard(h) \/ Handle(h) BY <1>4, <1>8 DEF Handle
<1>9. CASE \E d \in Drivers : EndRideLost(d) BY <1>3, <1>9
<1>10. CASE \E s \in Shards : SearchShard(s) \/ Restart(s) BY <1>5, <1>10
<1> QED BY <1>6, <1>7, <1>8, <1>9, <1>10, Zenon DEF Step

LEMMA StepPresence == ASSUME TypeOK, PresenceInv, Step, Watch PROVE PresenceInv'
<1>1. CASE \E h \in Tasks, d \in Drivers : Connect(h, d) \/ Disconnect(h, d) \/ EndRide(h, d)
  BY <1>1, ConnectPresence, DisconnectPresence, EndRidePresence
<1>2. CASE \E h \in Tasks : \/ CloseUnheard(h) \/ Read(h) \/ Leave(h) \/ Online(h) \/ OnlineTrip(h)
                            \/ Offline(h) \/ OfflineTrip(h) \/ Forget(h) \/ Drop(h) \/ Unset(h)
                            \/ OnTrip(h)
  <2>1. PICK h \in Tasks : \/ CloseUnheard(h) \/ Read(h) \/ Leave(h) \/ Online(h) \/ OnlineTrip(h)
                            \/ Offline(h) \/ OfflineTrip(h) \/ Forget(h) \/ Drop(h) \/ Unset(h)
                            \/ OnTrip(h)
    BY <1>2
  <2> QED BY <2>1, ClosePresence, HandlePresence
<1>3. CASE Crash BY <1>3, CrashPresence
<1> QED BY <1>1, <1>2, <1>3, RestPresence

LEMMA InitPresence == Init => PresenceInv
<1> SUFFICES ASSUME Init, NEW d \in Drivers PROVE PresenceOf(d) BY DEF PresenceInv
<1>1. /\ \A h \in Tasks : task[h].driver # d
      /\ open[d] = 0 /\ status[d] = "none"
  BY NoneAssumption DEF NoneAssumption, Init, Idle
<1> QED BY <1>1 DEF PresenceOf, Leaves

LEMMA PresenceFollowsSocketFrom == ASSUME TypeOK, PresenceInv PROVE PresenceFollowsSocket
<1> SUFFICES ASSUME NEW d \in Drivers \ crossed, ~Running(d, Presence)
    PROVE IF open[d] > 0 THEN status[d] \in {"online", "on_trip"} ELSE status[d] # "online"
  BY DEF PresenceFollowsSocket
<1>1. \A g \in Tasks : task[g].driver = d => task[g].at \notin Presence BY DEF Running, Driver
<1>2. /\ ~Awaits(d, {"read", "online"}) /\ ~Awaits(d, Connecting)
      /\ \A g \in Tasks : task[g].driver = d => task[g].at \notin {"leave", "offline"}
  BY <1>1, Names DEF Awaits
<1>3. open[d] \in Nat BY TypeParts DEF KeysOK
<1> QED BY <1>2, <1>3 DEF PresenceInv, PresenceOf

-----------------------------------------------------------------------------
(* The search.                                                             *)

\* The answer of one shard.
Answer(hits, s) == {x \in hits : x[2] = s}

LEMMA PairsCount ==
  ASSUME NEW N, IsFiniteSet(N), NEW s
  PROVE  Cardinality({<<d, s>> : d \in N}) = Cardinality(N)
<1> DEFINE P == {<<d, s>> : d \in N}
           f == [d \in N |-> <<d, s>>]
<1>1. f \in [N -> P] /\ (\A a, b \in N : f[a] = f[b] => a = b) /\ \A p \in P : \E d \in N : f[d] = p
  OBVIOUS
<1>2. f \in Bijection(N, P) BY <1>1 DEF Bijection, Injection, Surjection, IsInjective
<1>3. ExistsBijection(N, P) BY <1>2 DEF ExistsBijection
<1> QED BY <1>3, FS_Bijection

\* Nothing is known before a shard is asked; a hit in an undisturbed driver's
\* favour still holds, and an undisturbed driver of a shard that was asked
\* is missing only where its answer was full.
HitInv ==
  /\ search.asked = {} => search.hits = {}
  /\ \A x \in search.hits : x[2] \in search.asked /\ (x[1] \notin disturbed => x[1] \in geo[x[2]])
  /\ \A s \in search.asked, d \in Drivers \ disturbed :
       d \in geo[s] => <<d, s>> \in search.hits \/ Cardinality(Answer(search.hits, s)) = Limit

LEMMA SearchShardHits ==
  ASSUME TypeOK, HitInv, Watch, NEW s \in Shards, SearchShard(s)
  PROVE  HitInv'
<1>0. KeysOK BY TypeParts
<1>1. s \notin search.asked /\ geo' = geo BY DEF SearchShard
<1>2. PICK N \in Nearest(geo[s]) :
        search' = [asked |-> search.asked \cup {s}, hits |-> search.hits \cup {<<d, s>> : d \in N}]
  BY DEF SearchShard
<1>3. /\ search'.asked = search.asked \cup {s}
      /\ search'.hits = search.hits \cup {<<d, s>> : d \in N}
  BY <1>2
<1>4. disturbed \subseteq disturbed' BY <1>3 DEF Watch
<1>5. N \subseteq geo[s] BY NearestPart
<1>6. \A x \in search'.hits :
        x[2] \in search'.asked /\ (x[1] \notin disturbed' => x[1] \in geo'[x[2]])
  BY <1>1, <1>3, <1>4, <1>5 DEF HitInv
<1>7. ASSUME NEW r \in search'.asked, NEW d \in Drivers \ disturbed', d \in geo'[r]
      PROVE <<d, r>> \in search'.hits \/ Cardinality(Answer(search'.hits, r)) = Limit
  <2>1. CASE r = s
    <3>1. CASE N = geo[s] BY <1>1, <1>3, <1>7, <2>1, <3>1
    <3>2. CASE Cardinality(N) = Limit
      <4>1. \A x \in search.hits : x[2] # s BY <1>1 DEF HitInv
      <4>2. Answer(search'.hits, s) = {<<e, s>> : e \in N} BY <1>3, <4>1 DEF Answer
      <4>3. geo[s] \subseteq Drivers BY <1>0 DEF KeysOK
      <4>4. IsFiniteSet(N) BY <1>5, <4>3, FS_Subset, DriversAssumption DEF DriversAssumption
      <4> QED BY <2>1, <3>2, <4>2, <4>4, PairsCount
    <3> QED BY <3>1, <3>2 DEF Nearest
  <2>2. CASE r # s
    <3>1. r \in search.asked /\ d \in Drivers \ disturbed /\ d \in geo[r] BY <1>1, <1>3, <1>4, <1>7, <2>2
    <3>2. Answer(search'.hits, r) = Answer(search.hits, r) BY <1>3, <2>2 DEF Answer
    <3> QED BY <1>3, <3>1, <3>2 DEF HitInv
  <2> QED BY <2>1, <2>2
<1> QED BY <1>3, <1>6, <1>7 DEF HitInv

\* Every other step leaves the search alone, or ends it.
LEMMA RestHits ==
  ASSUME TypeOK, HitInv, Step, Watch, ~(\E s \in Shards : SearchShard(s))
  PROVE  HitInv'
<1>0. KeysOK /\ KeysOK' BY StepType DEF TypeOK, KeysOK
<1>1. search' = search \/ search' = NoSearch
  <2>1. CASE \E h \in Tasks, d \in Drivers :
               \/ Connect(h, d) \/ Disconnect(h, d) \/ EndRide(h, d)
               \/ \E t \in Trips : Book(h, d, t)
               \/ \E s \in Shards : Ping(h, d, s)
    BY <2>1 DEF Connect, Disconnect, EndRide, Book, Ping
  <2>2. ASSUME NEW h \in Tasks, CloseUnheard(h) \/ Handle(h) PROVE search' = search
    BY <2>2 DEF CloseUnheard, Handle, Read, Leave, Online, OnlineTrip, Offline, OfflineTrip, OnTrip,
         OnTripTrip, Locate, Move, Add, Set, Forget, Drop, Unset
  <2>3. CASE \E d \in Drivers : EndRideLost(d) BY <2>3 DEF EndRideLost
  <2>4. CASE \E s \in Shards : SearchShard(s) \/ Restart(s) BY <2>4 DEF Restart
  <2> QED BY <2>1, <2>2, <2>3, <2>4 DEF Step, SearchEnd, Crash
<1>2. CASE search'.asked = {}
  <2>1. search'.hits = {} BY <1>1, <1>2 DEF HitInv, NoSearch
  <2> QED BY <1>2, <2>1 DEF HitInv
<1>3. CASE search'.asked # {}
  <2>1. search' = search BY <1>1, <1>3 DEF NoSearch
  <2>2. /\ disturbed \subseteq disturbed'
        /\ \A d \in Drivers \ disturbed' : Where(d)' = Where(d)
    BY <1>3 DEF Watch
  <2>3. search.hits \subseteq Drivers \X Shards /\ search.asked \subseteq Shards BY <1>0 DEF KeysOK
  <2>4. \A d \in Drivers \ disturbed', s \in Shards : d \in geo'[s] <=> d \in geo[s]
    BY <2>2 DEF Where
  <2> QED BY <2>1, <2>2, <2>3, <2>4 DEF HitInv
<1> QED BY <1>2, <1>3

LEMMA StepHits == ASSUME TypeOK, HitInv, Step, Watch PROVE HitInv'
BY SearchShardHits, RestHits

LEMMA InitHits == Init => HitInv
BY DEF Init, HitInv, NoSearch

LEMMA FoundOnceFrom == ASSUME TypeOK, IndexInv, HitInv PROVE FoundOnce
<1> SUFFICES ASSUME NEW x \in search.hits, NEW y \in search.hits, x[1] = y[1],
                    x[1] \notin disturbed \cup tangled
    PROVE x = y
  BY DEF FoundOnce
<1>1. x \in Drivers \X Shards /\ y \in Drivers \X Shards BY TypeParts DEF KeysOK
<1>2. x[2] \in Where(x[1]) /\ y[2] \in Where(x[1]) BY <1>1 DEF HitInv, Where
<1>3. x[2] = y[2] BY <1>1, <1>2, IndexedOnceFrom DEF IndexedOnce
<1> QED BY <1>1, <1>3

LEMMA StayersFoundFrom == ASSUME TypeOK, HitInv PROVE StayersFound
<1> SUFFICES ASSUME Searched, NEW found \in Found(search.hits), NEW d \in Drivers \ disturbed,
                    NEW s \in Where(d), status[d] = "online"
    PROVE \/ <<d, s>> \in found
          \/ <<d, s>> \in search.hits /\ Cardinality(found) = Limit
          \/ <<d, s>> \notin search.hits /\ Cardinality({x \in search.hits : x[2] = s}) = Limit
  BY DEF StayersFound
<1>1. s \in search.asked /\ d \in geo[s] BY DEF Searched, Where
<1>2. <<d, s>> \in search.hits \/ Cardinality({x \in search.hits : x[2] = s}) = Limit
  BY <1>1 DEF HitInv, Answer
<1>3. <<d, s>> \in search.hits => <<d, s>> \in FreeOf(search.hits) BY DEF FreeOf
<1>4. found = FreeOf(search.hits) \/ Cardinality(found) = Limit BY DEF Found, Nearest
<1> QED BY <1>2, <1>3, <1>4

-----------------------------------------------------------------------------
(* The invariant.                                                          *)

\* IndexedOnce needs what the handlers on their way hold of a driver's shard,
\* RideIsStatus and PresenceFollowsSocket what those that have read a status
\* are about to write, and FoundOnce what each shard has answered so far.
IInv == TypeOK /\ IndexInv /\ RideInv /\ PresenceInv /\ HitInv

LEMMA InitInv == Init => IInv
BY InitType, InitIndex, InitRide, InitPresence, InitHits DEF IInv

LEMMA StutterInv == ASSUME IInv, UNCHANGED vars PROVE IInv'
<1> USE DEF vars, keys, rides, history, bounds
<1>1. TypeOK' BY DEF IInv, TypeOK
<1>2. IndexInv' BY DEF IInv, IndexInv, In, IndexTask, Driver
<1>3. RideInv' BY DEF IInv, RideInv, RideOf, RideShows, Undecided, Unbooked
<1>4. PresenceInv' BY DEF IInv, PresenceInv, PresenceOf, Leaves, Awaits
<1>5. HitInv' BY DEF IInv, HitInv
<1> QED BY <1>1, <1>2, <1>3, <1>4, <1>5 DEF IInv

LEMMA NextInv == IInv /\ [Next]_vars => IInv'
<1> SUFFICES ASSUME IInv, [Next]_vars PROVE IInv' OBVIOUS
<1>1. CASE Next
  <2>1. Step /\ Watch BY <1>1 DEF Next
  <2> QED BY <2>1, StepType, StepIndex, StepRide, StepPresence, StepHits DEF IInv
<1>2. CASE UNCHANGED vars BY <1>2, StutterInv
<1> QED BY <1>1, <1>2

LEMMA Inductive == Spec => []IInv
BY InitInv, NextInv, PTL DEF Spec

\* Every variable keeps its shape, and a command that takes a driver out of a
\* shard, or sets the trip of one, knows which.
THEOREM TypeCorrect == Spec => []TypeOK
<1>1. IInv => TypeOK BY DEF IInv
<1> QED BY <1>1, Inductive, PTL

\* However his pings and disconnects follow one another, a driver is in one
\* shard at most, and in the one remembered: unless two of them overlapped.
THEOREM IndexIsSingle == Spec => []IndexedOnce
<1>1. IInv => IndexedOnce BY IndexedOnceFrom DEF IInv
<1> QED BY <1>1, Inductive, PTL

\* A driver on a ride is on_trip, with its trip, and one without is neither,
\* whatever his sockets do meanwhile: unless a status was read before the
\* booking and written after it, or the call at the end of the ride was lost.
THEOREM RideShown == Spec => []RideIsStatus
<1>1. IInv => RideIsStatus BY RideIsStatusFrom DEF IInv
<1> QED BY <1>1, Inductive, PTL

\* Once the handlers of his sockets have ended, a driver is online, or on a
\* trip, if he has one, and not online if he has none: unless they crossed.
THEOREM PresenceShown == Spec => []PresenceFollowsSocket
<1>1. IInv => PresenceFollowsSocket BY PresenceFollowsSocketFrom DEF IInv
<1> QED BY <1>1, Inductive, PTL

\* The shards answer a search at different times, and yet no driver who kept
\* still is in two of the answers.
THEOREM HitIsSingle == Spec => []FoundOnce
<1>1. IInv => FoundOnce BY FoundOnceFrom DEF IInv
<1> QED BY <1>1, Inductive, PTL

\* A free driver who stayed where he was is found by every search of his
\* shard, unless the limit cut him off.
THEOREM StayerIsFound == Spec => []StayersFound
<1>1. IInv => StayersFound BY StayersFoundFrom DEF IInv
<1> QED BY <1>1, Inductive, PTL

=============================================================================
