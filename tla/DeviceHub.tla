------------------------------ MODULE DeviceHub ------------------------------
(***************************************************************************)
(* The device hub of internal/devicews: the WebSocket server, the manager   *)
(* of its connections, and the devices at the other end.                    *)
(*                                                                         *)
(* One goroutine serves each connection (handleConnection, messageLoop),    *)
(* one cleans up (cleanupLoop), and HTTP handlers disconnect devices.  The  *)
(* manager's map is split into shards with a lock each: what is done under  *)
(* a lock is one action; the count is kept outside it.  DeviceManager.Stop  *)
(* has no caller and is left out.                                           *)
(***************************************************************************)
EXTENDS Integers, FiniteSets

CONSTANTS
  Conn,      \* connections, used again once nothing refers to them
  Dev,       \* devices, known by their ids
  Zero,      \* the DeviceID of a connection before a packet sets it
  NoConn,
  Patient,   \* TRUE: a device that was cut off waits before it dials again
  MaxUpset   \* what networks, devices and users may do to connections

ASSUME HubAssumption ==
  /\ IsFiniteSet(Conn) /\ IsFiniteSet(Dev)
  /\ NoConn \notin Conn
  /\ Zero \notin Dev
  /\ Patient \in BOOLEAN
  /\ MaxUpset \in Nat

Id == Dev \cup {Zero}

\* Where the goroutine of a connection is.  "count": registered, not counted yet;
\* "lost": it has panicked.
PC == {"free", "first", "count", "ack", "loop", "got", "remove", "lost", "done"}
Over == {"free", "lost", "done"}

\* phone: the device that dialled; id: DeviceID; first: the packet it was
\* registered by, until that is answered; old: LastSeen is more than HeartbeatTimeout ago; link: "cut"
\* when packets are lost without notice, "fin" when a read fails.
ConnRow == [pc : PC, phone : Id, id : Id, first : {"none", "init", "beat", "broken"},
            closed : BOOLEAN, link : {"up", "cut", "fin"}, old : BOOLEAN]

VARIABLES
  conn,              \* the connections and their goroutines
  devices,           \* the shards: id -> connection
  totalConnections,
  sweep,             \* cleanupTimeoutConnections: shards to visit, toRemove
  upsets             \* upsets so far

vars == <<conn, devices, totalConnections, sweep, upsets>>
hubVars == <<devices, totalConnections>>

Free == [pc |-> "free", phone |-> Zero, id |-> Zero, first |-> "none",
         closed |-> FALSE, link |-> "fin", old |-> FALSE]

Registered(c) == \E i \in Id : devices[i] = c
Up(c) == conn[c].link = "up" /\ ~conn[c].closed /\ conn[c].pc \notin {"free", "done"}
Upset == upsets < MaxUpset /\ upsets' = upsets + 1

-----------------------------------------------------------------------------
(* The manager.                                                              *)

\* Mutant: the connection that is replaced stays counted.
AddKeepsCount(c, i, first) ==
  /\ conn' = [k \in Conn |->
       IF k = c THEN [conn[k] EXCEPT !.pc = "count", !.id = i, !.first = first]
       ELSE IF k = devices[i] THEN [conn[k] EXCEPT !.closed = TRUE] ELSE conn[k]]
  /\ devices' = [devices EXCEPT ![i] = c]
  /\ UNCHANGED totalConnections

\* Mutant: the connection that is there is closed, not replaced.
AddKeepsOld(c, i, first) ==
  /\ conn' = [k \in Conn |->
       IF k = c THEN [conn[k] EXCEPT !.pc = "count", !.id = i, !.first = first]
       ELSE IF k = devices[i] THEN [conn[k] EXCEPT !.closed = TRUE] ELSE conn[k]]
  /\ devices' = IF devices[i] = NoConn THEN [devices EXCEPT ![i] = c] ELSE devices
  /\ totalConnections' = IF devices[i] = NoConn THEN totalConnections
                         ELSE totalConnections - 1

\* Add under the lock: an old connection is closed and replaced.
Add(c, i, first) ==
  /\ conn' = [k \in Conn |->
       IF k = c THEN [conn[k] EXCEPT !.pc = "count", !.id = i, !.first = first]
       ELSE IF k = devices[i] THEN [conn[k] EXCEPT !.closed = TRUE] ELSE conn[k]]
  /\ devices' = [devices EXCEPT ![i] = c]
  /\ totalConnections' = IF devices[i] = NoConn THEN totalConnections
                         ELSE totalConnections - 1

\* Mutant: the connection is not closed.
RemoveNoClose(i, next) ==
  /\ conn' = next
  /\ devices' = [devices EXCEPT ![i] = NoConn]
  /\ totalConnections' = IF devices[i] = NoConn THEN totalConnections
                         ELSE totalConnections - 1

\* Remove: whatever connection is under the id is dropped and closed; next is
\* what the caller makes of the connections before.
Remove(i, next) ==
  /\ conn' = [k \in Conn |-> IF k = devices[i] THEN [next[k] EXCEPT !.closed = TRUE]
                             ELSE next[k]]
  /\ devices' = [devices EXCEPT ![i] = NoConn]
  /\ totalConnections' = IF devices[i] = NoConn THEN totalConnections
                         ELSE totalConnections - 1

-----------------------------------------------------------------------------
(* handleConnection and messageLoop.                                         *)

Set(c, new) == conn' = [conn EXCEPT ![c] = new]

\* No packet in time, or one that is not taken: the connection is closed.
RefuseFirst(c) ==
  /\ conn[c].pc = "first"
  /\ IF conn[c].link = "up" THEN Upset ELSE UNCHANGED upsets
  /\ Set(c, [conn[c] EXCEPT !.pc = "done", !.link = "fin"])
  /\ UNCHANGED <<hubVars, sweep>>

\* The first packet is INIT or a heartbeat, with the id of the device; or an
\* INIT that is not JSON, which sets neither id nor Info.  The link may have
\* broken since: looking the serial number up takes a call to the cloud.
Register(c) ==
  /\ conn[c].pc = "first"
  /\ \/ /\ \E first \in {"init", "beat"} : Add(c, conn[c].phone, first)
        /\ UNCHANGED upsets
     \/ /\ Add(c, Zero, "broken")
        /\ Upset
  /\ UNCHANGED sweep

\* Add, the lock released, and onConnect; then a nil Info panics.
Counted(c) ==
  /\ conn[c].pc = "count"
  /\ totalConnections' = totalConnections + 1
  /\ Set(c, [conn[c] EXCEPT !.pc = IF conn[c].first = "broken" THEN "lost" ELSE "ack"])
  /\ UNCHANGED <<devices, sweep, upsets>>

\* A heartbeat's answer may fail, and a write to a link that is cut may not.
AckSent(c) ==
  /\ conn[c].pc = "ack"
  /\ conn[c].first = "init" => ~conn[c].closed
  /\ Set(c, [conn[c] EXCEPT !.pc = "loop", !.first = "none"])
  /\ UNCHANGED <<hubVars, sweep, upsets>>

\* Mutant: the handler returns without removing the device.
AckFailedReturns(c) ==
  /\ conn[c].pc = "ack" /\ conn[c].first = "init" /\ ~Up(c)
  /\ Set(c, [conn[c] EXCEPT !.pc = "done"])
  /\ UNCHANGED <<hubVars, sweep, upsets>>

AckFailed(c) ==
  /\ conn[c].pc = "ack" /\ conn[c].first = "init" /\ ~Up(c)
  /\ Remove(conn[c].id, [conn EXCEPT ![c].pc = "done"])
  /\ UNCHANGED <<sweep, upsets>>

\* ReadMessage and UpdateLastSeen.
Read(c) ==
  /\ conn[c].pc = "loop" /\ Up(c)
  /\ Set(c, [conn[c] EXCEPT !.pc = "got", !.old = FALSE])
  /\ UNCHANGED <<hubVars, sweep, upsets>>

\* A late INIT: DeviceID is taken from the packet, the map is not touched.
HandleInit(c, d) ==
  /\ conn[c].pc = "got"
  /\ IF d = conn[c].phone THEN UNCHANGED upsets ELSE Upset
  /\ Set(c, [conn[c] EXCEPT !.pc = "loop", !.id = d])
  /\ UNCHANGED <<hubVars, sweep>>

\* The other messages leave ids and the map alone.
HandleOther(c) ==
  /\ conn[c].pc = "got"
  /\ Set(c, [conn[c] EXCEPT !.pc = "loop"])
  /\ UNCHANGED <<hubVars, sweep, upsets>>

ReadFails(c) ==
  /\ conn[c].pc = "loop"
  /\ conn[c].closed \/ conn[c].link = "fin"
  /\ Set(c, [conn[c] EXCEPT !.pc = "remove"])
  /\ UNCHANGED <<hubVars, sweep, upsets>>

Teardown(c) ==
  /\ conn[c].pc = "remove"
  /\ Remove(conn[c].id, [conn EXCEPT ![c].pc = "done"])
  /\ UNCHANGED <<sweep, upsets>>

Handler(c) == \/ RefuseFirst(c) \/ Register(c) \/ Counted(c)
              \/ AckSent(c) \/ AckFailed(c)
              \/ Read(c) \/ HandleOther(c) \/ \E d \in Dev : HandleInit(c, d)
              \/ ReadFails(c) \/ Teardown(c)

-----------------------------------------------------------------------------
(* cleanupTimeoutConnections: the shards are visited one after another, and   *)
(* then the connections found are removed, by the ids they have now.          *)

\* (A pass that would find nothing old is not begun: it changes nothing.)
BeginSweep ==
  /\ sweep = [left |-> {}, toRemove |-> {}]
  /\ \E c \in Conn : Registered(c) /\ conn[c].old
  /\ sweep' = [sweep EXCEPT !.left = Id]
  /\ UNCHANGED <<conn, hubVars, upsets>>

\* Mutant: an id without a connection is not skipped.
LookShardNil(i) ==
  /\ i \in sweep.left
  /\ sweep' = [left |-> sweep.left \ {i}, toRemove |-> sweep.toRemove \cup {devices[i]}]
  /\ UNCHANGED <<conn, hubVars, upsets>>

\* Mutant: only connections that were closed already are found.
LookShardClosed(i) ==
  /\ i \in sweep.left
  /\ sweep' = [left |-> sweep.left \ {i},
               toRemove |-> sweep.toRemove \cup {c \in Conn : devices[i] = c /\ conn[c].closed}]
  /\ UNCHANGED <<conn, hubVars, upsets>>

LookShard(i) ==
  /\ i \in sweep.left
  /\ sweep' = [left |-> sweep.left \ {i},
               toRemove |-> sweep.toRemove \cup {c \in Conn : devices[i] = c /\ conn[c].old}]
  /\ UNCHANGED <<conn, hubVars, upsets>>

Expire(c) ==
  /\ sweep.left = {} /\ c \in sweep.toRemove
  /\ sweep' = [sweep EXCEPT !.toRemove = @ \ {c}]
  /\ Remove(conn[c].id, conn)
  /\ UNCHANGED upsets

Sweep == BeginSweep \/ (\E i \in Id : LookShard(i)) \/ \E c \in Conn : Expire(c)

-----------------------------------------------------------------------------
(* Devices, networks and users.                                              *)

Unused(c) == conn[c].pc \in Over /\ ~Registered(c) /\ c \notin sweep.toRemove

\* A device dials when it has no connection.  A patient one waits until the
\* handlers of those it has lost have had time to notice.
Dial(c, p) ==
  /\ Unused(c)
  /\ \A k \in Conn : conn[k].phone = p =>
       /\ ~Up(k)
       /\ Patient => conn[k].pc \in Over \/ (conn[k].link = "cut" /\ ~conn[k].closed)
  /\ Set(c, [Free EXCEPT !.pc = "first", !.phone = p, !.link = "up"])
  /\ UNCHANGED <<hubVars, sweep, upsets>>

\* A device beats every HeartbeatInterval: a connection that is cut, or that
\* nobody reads, grows old.
GrowOld(c) ==
  /\ Registered(c) /\ ~conn[c].old
  /\ ~Up(c) \/ conn[c].pc = "lost"
  /\ Set(c, [conn[c] EXCEPT !.old = TRUE])
  /\ UNCHANGED <<hubVars, sweep, upsets>>

\* A live connection whose packets are held up for that long.
FallSilent(c) ==
  /\ Registered(c) /\ ~conn[c].old /\ Up(c)
  /\ Upset
  /\ Set(c, [conn[c] EXCEPT !.old = TRUE])
  /\ UNCHANGED <<hubVars, sweep>>

\* A connection breaks, with or without notice; TCP may notice later.
Break(c, how) ==
  /\ \/ Up(c) /\ Upset
     \/ conn[c].link = "cut" /\ how = "fin" /\ conn[c].pc \notin Over /\ UNCHANGED upsets
  /\ Set(c, [conn[c] EXCEPT !.link = how])
  /\ UNCHANGED <<hubVars, sweep>>

\* apiDisconnectDevice.
Disconnect(i) ==
  /\ Upset
  /\ Remove(i, conn)
  /\ UNCHANGED sweep

Init ==
  /\ conn = [c \in Conn |-> Free]
  /\ devices = [i \in Id |-> NoConn]
  /\ totalConnections = 0
  /\ sweep = [left |-> {}, toRemove |-> {}]
  /\ upsets = 0

Next ==
  \/ \E c \in Conn : \/ Handler(c) \/ GrowOld(c) \/ FallSilent(c)
                     \/ \E p \in Dev : Dial(c, p)
                     \/ \E how \in {"cut", "fin"} : Break(c, how)
  \/ Sweep
  \/ \E i \in Id : Disconnect(i)

Spec == Init /\ [][Next]_vars

\* Goroutines are scheduled, the ticker of the cleanup fires, time passes, and
\* devices dial again.
Fairness ==
  /\ \A c \in Conn : WF_vars(Handler(c)) /\ WF_vars(GrowOld(c))
  /\ WF_vars(Sweep)
  /\ \A p \in Dev : WF_vars(\E c \in Conn : Dial(c, p))
FairSpec == Spec /\ Fairness

-----------------------------------------------------------------------------
\* Connections, the map, the count and the cleanup have their types.
HubTypeOK ==
  /\ conn \in [Conn -> ConnRow]
  /\ devices \in [Id -> Conn \cup {NoConn}]
  /\ totalConnections \in Int
  /\ sweep \in [left : SUBSET Id, toRemove : SUBSET Conn]
  /\ upsets \in 0 .. MaxUpset

\* Count() is the number of entries of the map, but for connections between
\* their registration and their counting: replacing, expiring, disconnecting
\* and tearing down in any order never make it drift.
CountExact ==
  totalConnections = Cardinality({i \in Id : devices[i] # NoConn})
                     - Cardinality({c \in Conn : conn[c].pc = "count"})

\* A connection that was registered is open just as long as it is in the map,
\* under one id: nothing can be sent to a closed connection that is found
\* there, and no open connection is served that cannot be found.
OpenIsRegistered ==
  \A c \in Conn : conn[c].pc \in {"count", "ack", "loop", "got", "remove", "lost"} =>
    /\ ~conn[c].closed <=> Registered(c)
    /\ \A i, j \in Id : devices[i] = c /\ devices[j] = c => i = j

\* The map keeps a connection whose handler has returned only when a late INIT
\* has changed its DeviceID, so that its teardown removed another id.
NoGhost ==
  \A i \in Id : \A c \in Conn :
    devices[i] = c /\ conn[c].pc = "done" => conn[c].id # i

\* A connection that is dead, cut off without notice or left behind by a
\* handler that panicked, goes from the map in the end.
DeadLeave ==
  \A c \in Conn, i \in Id :
    devices[i] = c /\ conn[c].id = i /\ (~Up(c) \/ conn[c].pc = "lost")
      ~> devices[i] # c \/ conn[c].id # i

\* When nothing more breaks, every device ends up with a connection that is
\* served and found, and keeps it.
Settles ==
  <>[](\A p \in Dev : \E c \in Conn :
         conn[c].phone = p /\ Up(c) /\ conn[c].pc \in {"loop", "got"} /\ Registered(c))

\* A device that has connected again keeps its new connection: the hub closes a
\* live connection only for a newer one, or when it is told to (an upset).
NewestServed ==
  [][upsets' = upsets =>
       \A c \in Conn : Up(c) /\ conn[c].pc \in {"loop", "got"} /\ conn'[c].closed =>
         \E i \in Id : devices[i] = c /\ devices'[i] \in Conn \ {c}]_vars
=============================================================================
