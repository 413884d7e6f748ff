----------------------------- MODULE ConsolePush -----------------------------
(* The push to the web console (internal/service/frontend_ws.go): a client    *)
(* subscribes to kinds of data and is sent them at once; every two seconds a  *)
(* loop compares the hash of each subscribed kind with the hash last pushed   *)
(* and broadcasts what changed; a change of the connected devices broadcasts  *)
(* at once.  Each broadcast writes to each client from a goroutine of its own.*)
(* Data is a version number; what the hash sees of it is Content.  One call    *)
(* of NotifyDevicesChanged runs at a time.                                     *)
EXTENDS Integers, FiniteSets

CONSTANTS
  Clients,    \* console connections
  Topics,     \* kinds of data, "devices" among them
  CanFail,    \* kinds whose fetch may return an error
  Changing,   \* bound: kinds whose data changes
  MaxVersion, \* bound: changes of a kind
  MaxNotices, \* bound: calls of NotifyDevicesChanged
  MaxInFlight,\* bound: writes under way to a client
  MaxOpens    \* bound: connections opened

PushAssumption ==
  /\ "devices" \in Topics /\ CanFail \subseteq Topics /\ Changing \subseteq Topics
  /\ {MaxVersion, MaxNotices, MaxInFlight, MaxOpens} \subseteq Nat

VARIABLES
  version,    \* the data as it is now
  clients,    \* the registered clients
  subscribes, \* what each asked for
  reader,     \* what the handler of each is doing
  loop,       \* the check under way: kinds left, or the one being broadcast
  notice,     \* the call of NotifyDevicesChanged under way
  hash,       \* lastHashes: the content last pushed, and the version it was of
  flight,     \* writes under way
  shown,      \* the newest version written to a client
  offered,    \* the newest version a write to a client was begun with
  notices, opens

vars == <<version, clients, subscribes, reader, loop, notice, hash, flight, shown, offered, notices, opens>>

Content(v) == v % 2

NoHash == [content |-> -1, of |-> -1]

Resting == [pc |-> "idle", topic |-> "devices", version |-> 0]

NotChecking == [pc |-> "idle", todo |-> {}, topic |-> "devices", version |-> 0]

Newest(a, b) == IF a > b THEN a ELSE b

------------------------------------------------------------------------------
(* A client's connection and its messages *)

register(c) ==
  /\ c \notin clients /\ opens < MaxOpens /\ reader[c].pc = "idle" /\ flight[c] = {}
  /\ clients' = clients \cup {c}
  /\ opens' = opens + 1
  /\ subscribes' = [subscribes EXCEPT ![c] = {}]
  /\ shown' = [shown EXCEPT ![c] = [t \in Topics |-> -1]]
  /\ offered' = [offered EXCEPT ![c] = [t \in Topics |-> -1]]
  /\ UNCHANGED <<version, reader, loop, notice, hash, flight, notices>>

(* The read fails; writes still under way fail too. *)
unregister(c) ==
  /\ c \in clients /\ reader[c].pc = "idle"
  /\ clients' = clients \ {c}
  /\ flight' = [flight EXCEPT ![c] = {}]
  /\ UNCHANGED <<version, subscribes, reader, loop, notice, hash, shown, offered, notices, opens>>

(* Mutant: the first push is fetched before the subscription is noted. *)
subscribeAfterFetch(c, t) ==
  /\ c \in clients /\ reader[c].pc = "idle"
  /\ reader' = [reader EXCEPT ![c] = [pc |-> "subscribe", topic |-> t, version |-> version[t]]]
  /\ UNCHANGED <<version, clients, subscribes, loop, notice, hash, flight, shown, offered, notices, opens>>

(* The subscription is noted first, with no lock, and then the data is fetched and written. *)
subscribe(c, t) ==
  /\ c \in clients /\ reader[c].pc = "idle"
  /\ subscribes' = [subscribes EXCEPT ![c] = @ \cup {t}]
  /\ reader' = [reader EXCEPT ![c] = [pc |-> "fetch", topic |-> t, version |-> 0]]
  /\ UNCHANGED <<version, clients, loop, notice, hash, flight, shown, offered, notices, opens>>

unsubscribe(c, t) ==
  /\ c \in clients /\ reader[c].pc = "idle" /\ t \in subscribes[c]
  /\ subscribes' = [subscribes EXCEPT ![c] = @ \ {t}]
  /\ UNCHANGED <<version, clients, reader, loop, notice, hash, flight, shown, offered, notices, opens>>

request(c, t) ==
  /\ c \in clients /\ reader[c].pc = "idle"
  /\ reader' = [reader EXCEPT ![c] = [pc |-> "fetch", topic |-> t, version |-> 0]]
  /\ UNCHANGED <<version, clients, subscribes, loop, notice, hash, flight, shown, offered, notices, opens>>

Failed == -1

fetchData(t) == {version[t]} \cup (IF t \in CanFail THEN {Failed} ELSE {})

Offer(c, t, v) == offered' = [offered EXCEPT ![c][t] = Newest(@, v)]

pushFetch(c) ==
  /\ reader[c].pc = "fetch"
  /\ \E v \in fetchData(reader[c].topic) :
       IF v = Failed
       THEN reader' = [reader EXCEPT ![c] = Resting] /\ UNCHANGED offered
       ELSE /\ reader' = [reader EXCEPT ![c].pc = "write", ![c].version = v]
            /\ Offer(c, reader[c].topic, v)
  /\ UNCHANGED <<version, clients, subscribes, loop, notice, hash, flight, shown, notices, opens>>

pushWrite(c) ==
  /\ reader[c].pc \in {"write", "subscribe"}
  /\ LET r == reader[c]
     IN /\ shown' = [shown EXCEPT ![c][r.topic] = Newest(@, r.version)]
        /\ Offer(c, r.topic, r.version)
        /\ subscribes' = [subscribes EXCEPT ![c] = IF r.pc = "subscribe" THEN @ \cup {r.topic} ELSE @]
  /\ reader' = [reader EXCEPT ![c] = Resting]
  /\ UNCHANGED <<version, clients, loop, notice, hash, flight, notices, opens>>

------------------------------------------------------------------------------
(* Broadcasts *)

Subscribers(t) == {c \in clients : t \in subscribes[c]}

(* One goroutine for each subscriber; they take the client's lock in any order. *)
broadcastData(t, v) ==
  /\ \A c \in Subscribers(t) : Cardinality(flight[c]) < MaxInFlight \/ [topic |-> t, version |-> v] \in flight[c]
  /\ flight' = [c \in Clients |-> IF c \in Subscribers(t) THEN flight[c] \cup {[topic |-> t, version |-> v]}
                                  ELSE flight[c]]
  /\ offered' = [c \in Clients |-> IF c \in Subscribers(t) THEN [offered[c] EXCEPT ![t] = Newest(@, v)]
                                   ELSE offered[c]]

WriteJSON(c) ==
  /\ \E m \in flight[c] : /\ flight' = [flight EXCEPT ![c] = @ \ {m}]
                          /\ shown' = [shown EXCEPT ![c][m.topic] = Newest(@, m.version)]
  /\ UNCHANGED <<version, clients, subscribes, reader, loop, notice, hash, offered, notices, opens>>

(* The ticker fires: the kinds any client subscribed to. *)
checkAndPush ==
  /\ loop.pc = "idle" /\ clients # {}
  /\ LET todo == UNION {subscribes[c] : c \in clients}
     IN /\ todo # {}
        /\ loop' = [NotChecking EXCEPT !.pc = "check", !.todo = todo]
  /\ UNCHANGED <<version, clients, subscribes, reader, notice, hash, flight, shown, offered, notices, opens>>

Goes(todo) == [NotChecking EXCEPT !.pc = IF todo = {} THEN "idle" ELSE "check", !.todo = todo]

checkFetch ==
  /\ loop.pc = "check"
  /\ \E t \in loop.todo :
       \E v \in fetchData(t) :
         loop' = IF v = Failed THEN Goes(loop.todo \ {t})
                 ELSE [pc |-> "compare", todo |-> loop.todo \ {t}, topic |-> t, version |-> v]
  /\ UNCHANGED <<version, clients, subscribes, reader, notice, hash, flight, shown, offered, notices, opens>>

(* Under hashLock the hash is compared and stored. *)
compareHash ==
  /\ loop.pc = "compare"
  /\ IF hash[loop.topic].content = Content(loop.version)
     THEN loop' = Goes(loop.todo) /\ UNCHANGED hash
     ELSE /\ loop' = [loop EXCEPT !.pc = "broadcast"]
          /\ hash' = [hash EXCEPT ![loop.topic] = [content |-> Content(loop.version), of |-> loop.version]]
  /\ UNCHANGED <<version, clients, subscribes, reader, notice, flight, shown, offered, notices, opens>>

checkBroadcast ==
  /\ loop.pc = "broadcast"
  /\ broadcastData(loop.topic, loop.version)
  /\ loop' = Goes(loop.todo)
  /\ UNCHANGED <<version, clients, subscribes, reader, notice, hash, shown, notices, opens>>

(* NotifyDevicesChanged: the devices are fetched, their hash stored whatever it was, then broadcast. *)
notifyFetch ==
  /\ notice.pc = "idle" /\ notices < MaxNotices
  /\ notices' = notices + 1
  /\ notice' = [Resting EXCEPT !.pc = "store", !.version = version["devices"]]
  /\ UNCHANGED <<version, clients, subscribes, reader, loop, hash, flight, shown, offered, opens>>

notifyStore ==
  /\ notice.pc = "store"
  /\ hash' = [hash EXCEPT !["devices"] = [content |-> Content(notice.version), of |-> notice.version]]
  /\ notice' = [notice EXCEPT !.pc = "broadcast"]
  /\ UNCHANGED <<version, clients, subscribes, reader, loop, flight, shown, offered, notices, opens>>

(* Mutant: the next check is trusted with the broadcast. *)
notifyBroadcastLater ==
  /\ notice.pc = "broadcast"
  /\ notice' = Resting
  /\ UNCHANGED <<version, clients, subscribes, reader, loop, hash, flight, shown, offered, notices, opens>>

notifyBroadcast ==
  /\ notice.pc = "broadcast"
  /\ broadcastData("devices", notice.version)
  /\ notice' = Resting
  /\ UNCHANGED <<version, clients, subscribes, reader, loop, hash, shown, notices, opens>>

DataChanges(t) ==
  /\ version[t] < MaxVersion
  /\ version' = [version EXCEPT ![t] = @ + 1]
  /\ UNCHANGED <<clients, subscribes, reader, loop, notice, hash, flight, shown, offered, notices, opens>>

------------------------------------------------------------------------------
Init ==
  /\ version = [t \in Topics |-> 0]
  /\ clients = {} /\ subscribes = [c \in Clients |-> {}]
  /\ reader = [c \in Clients |-> Resting] /\ loop = NotChecking /\ notice = Resting
  /\ hash = [t \in Topics |-> NoHash] /\ flight = [c \in Clients |-> {}]
  /\ shown = [c \in Clients |-> [t \in Topics |-> -1]] /\ offered = shown
  /\ notices = 0 /\ opens = 0

Asks(c) ==
  \E t \in Topics : subscribe(c, t) \/ unsubscribe(c, t) \/ request(c, t)

Pushes(c) == pushFetch(c) \/ pushWrite(c)

Checks == checkAndPush \/ checkFetch \/ compareHash \/ checkBroadcast

Notifies == notifyStore \/ notifyBroadcast

Next ==
  \/ \E c \in Clients : register(c) \/ unregister(c) \/ Asks(c) \/ Pushes(c) \/ WriteJSON(c)
  \/ Checks \/ notifyFetch \/ Notifies
  \/ \E t \in Changing : DataChanges(t)

Spec == Init /\ [][Next]_vars

(* The ticker ticks, the loop and a notice run on, and a write to a live client ends. *)
FairSpec ==
  Spec /\ WF_vars(Checks) /\ WF_vars(Notifies)
       /\ \A c \in Clients : WF_vars(Pushes(c)) /\ WF_vars(WriteJSON(c))

------------------------------------------------------------------------------
TypeOK ==
  /\ version \in [Topics -> 0..MaxVersion]
  /\ clients \subseteq Clients /\ subscribes \in [Clients -> SUBSET Topics]
  /\ hash \in [Topics -> [content : {-1, 0, 1}, of : -1..MaxVersion]]
  /\ \A c \in Clients : shown[c] \in [Topics -> -1..MaxVersion] /\ Cardinality(flight[c]) <= MaxInFlight

(* A push that the hash says was made reached everyone who asked for it, even who asked while it was
   made: a subscriber that is not being served was sent data as new as the data of the hash. *)
Pushing(t) ==
  \/ loop.pc = "broadcast" /\ loop.topic = t
  \/ notice.pc = "broadcast" /\ t = "devices"

NothingMissed ==
  \A t \in Topics \ CanFail, c \in Clients :
    (c \in Subscribers(t) /\ reader[c].pc = "idle" /\ ~Pushing(t)) => offered[c][t] >= hash[t].of

(* What changed for the last time is written to every subscriber.  Except: the data came back to what the
   hash has of an earlier time, and the client was shown other data in between, as it asked then, or as a
   notice with older data stored its hash last.  Nothing is pushed then, and it goes on showing that. *)
CameBack(t) == hash[t].content = Content(MaxVersion) /\ hash[t].of # MaxVersion

ShownBetween(c, t) == CameBack(t) /\ shown[c][t] > hash[t].of

Reached(c, t) ==
  version[t] = MaxVersion /\ c \in Subscribers(t) /\ ~ShownBetween(c, t)
    => shown[c][t] # -1 /\ Content(shown[c][t]) = Content(MaxVersion)

PushReaches == \A t \in Topics \ CanFail, c \in Clients : []<>Reached(c, t)
==============================================================================
