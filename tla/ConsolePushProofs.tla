-------------------------- MODULE ConsolePushProofs --------------------------
(* No push is missed (ConsolePush), for any clients, kinds of data and bounds.*)
(* What a subscriber lacks of the version the hash is of, a broadcast under    *)
(* way will bring: the one whose store the hash still shows.  NothingMissed    *)
(* itself is not inductive, for two broadcasts of one kind may be under way    *)
(* and the one that ends first may be the older.                               *)
EXTENDS ConsolePush, FiniteSetTheorems, TLAPS

Reading == [pc : {"idle", "fetch", "write"}, topic : Topics, version : Int]

Checking == [pc : {"idle", "check", "compare", "broadcast"}, todo : SUBSET Topics, topic : Topics, version : Int]

Noticing == [pc : {"idle", "store", "broadcast"}, topic : Topics, version : Int]

Hashes == [content : Int, of : Int]

PushTypes ==
  /\ version \in [Topics -> Int]
  /\ clients \subseteq Clients /\ subscribes \in [Clients -> SUBSET Topics]
  /\ reader \in [Clients -> Reading] /\ loop \in Checking /\ notice \in Noticing
  /\ hash \in [Topics -> Hashes]
  /\ offered \in [Clients -> [Topics -> Int]]

(* Nothing is pushed that was not the data at some time. *)
NoneAhead ==
  /\ \A t \in Topics : hash[t].of <= version[t] /\ version[t] >= 0
  /\ loop.pc \in {"compare", "broadcast"} => loop.version <= version[loop.topic]
  /\ notice.pc \in {"store", "broadcast"} => notice.version <= version["devices"]

(* A broadcast of t under way brings what the hash is of, or newer. *)
WillBring(t) ==
  \/ loop.pc = "broadcast" /\ loop.topic = t /\ loop.version >= hash[t].of
  \/ notice.pc = "broadcast" /\ t = "devices" /\ notice.version >= hash[t].of

Served(c, t) == ~(reader[c].pc = "fetch" /\ reader[c].topic = t)

NoneMissed ==
  \A t \in Topics \ CanFail, c \in Clients :
    c \in Subscribers(t) /\ Served(c, t) => offered[c][t] >= hash[t].of \/ WillBring(t)

PushInv == PushTypes /\ NoneAhead /\ NoneMissed

LEMMA PushInit == ASSUME PushAssumption, Init PROVE PushInv
<1>1. PushTypes
  BY DEF Init, PushAssumption, PushTypes, Resting, NotChecking, NoHash, Reading, Checking, Noticing, Hashes
<1>2. NoneAhead
  BY DEF Init, NoneAhead, Resting, NotChecking, NoHash
<1>3. NoneMissed
  BY DEF Init, NoneMissed, Subscribers
<1>. QED BY <1>1, <1>2, <1>3 DEF PushInv

(* What a client does. *)
LEMMA ClientKeeps ==
  ASSUME PushAssumption, PushInv, NEW c \in Clients, register(c) \/ unregister(c) \/ Asks(c)
  PROVE  PushInv'
<1>. USE DEF PushInv
<1>1. ASSUME NEW r \in Reading PROVE [reader EXCEPT ![c] = r] \in [Clients -> Reading]
  BY DEF PushTypes
<1>2. CASE register(c)
  <2>1. PushTypes'
    BY <1>2 DEF register, PushTypes
  <2>2. NoneAhead'
    BY <1>2 DEF register, NoneAhead
  <2>3. NoneMissed'
    BY <1>2 DEF register, NoneMissed, PushTypes, Subscribers, Served, WillBring
  <2>. QED BY <2>1, <2>2, <2>3
<1>3. CASE unregister(c)
  BY <1>3 DEF unregister, PushTypes, NoneAhead, NoneMissed, Subscribers, Served, WillBring
<1>4. ASSUME NEW t \in Topics, subscribe(c, t) \/ request(c, t) PROVE PushInv'
  <2>1. PICK r : r = [pc |-> "fetch", topic |-> t, version |-> 0]
    OBVIOUS
  <2>2. r \in Reading /\ r.pc = "fetch" /\ r.topic = t
    BY <2>1 DEF Reading
  <2>3. /\ reader' = [reader EXCEPT ![c] = r]
        /\ subscribes' \in [Clients -> SUBSET Topics]
        /\ \A d \in Clients : subscribes'[d] \ {t} = subscribes[d] \ {t} /\ (d # c => subscribes'[d] = subscribes[d])
        /\ UNCHANGED <<version, clients, loop, notice, hash, offered>>
    BY <1>4, <2>1 DEF subscribe, request, PushTypes
  <2>4. PushTypes'
    BY <1>1, <2>2, <2>3 DEF PushTypes
  <2>5. NoneAhead'
    BY <2>3 DEF NoneAhead
  <2>6. NoneMissed'
    <3>1. ASSUME NEW s \in Topics, NEW d \in Clients, d \in Subscribers(s)', Served(d, s)'
          PROVE  d \in Subscribers(s) /\ Served(d, s)
      <4>1. CASE d = c
        <5>1. reader'[c] = r /\ s # t
          BY <2>2, <2>3, <3>1, <4>1 DEF Served, PushTypes
        <5>2. reader[c].pc = "idle"
          BY <1>4 DEF subscribe, request
        <5>. QED BY <2>3, <3>1, <4>1, <5>1, <5>2 DEF Subscribers, Served
      <4>2. CASE d # c
        BY <2>3, <3>1, <4>2 DEF Subscribers, Served, PushTypes
      <4>. QED BY <4>1, <4>2
    <3>. QED BY <2>3, <3>1 DEF NoneMissed, WillBring
  <2>. QED BY <2>4, <2>5, <2>6
<1>5. ASSUME NEW t \in Topics, unsubscribe(c, t) PROVE PushInv'
  <2>1. PushTypes'
    BY <1>5 DEF unsubscribe, PushTypes
  <2>2. NoneAhead'
    BY <1>5 DEF unsubscribe, NoneAhead
  <2>3. NoneMissed'
    BY <1>5 DEF unsubscribe, NoneMissed, PushTypes, Subscribers, Served, WillBring
  <2>. QED BY <2>1, <2>2, <2>3
<1>. QED BY <1>2, <1>3, <1>4, <1>5 DEF Asks

LEMMA NewestOf == \A a, b \in Int : Newest(a, b) \in Int /\ Newest(a, b) >= a /\ Newest(a, b) >= b
  BY DEF Newest

(* More is offered to a client, to the same subscribers of the same hashes. *)
LEMMA OffersKeep ==
  ASSUME PushInv, offered' \in [Clients -> [Topics -> Int]],
         \A c \in Clients, t \in Topics : offered'[c][t] >= offered[c][t],
         UNCHANGED <<version, clients, subscribes, hash>>
  PROVE  \A t \in Topics \ CanFail, c \in Clients :
           c \in Subscribers(t)' /\ Served(c, t) => offered'[c][t] >= hash'[t].of \/ WillBring(t)
<1>1. ASSUME NEW t \in Topics \ CanFail, NEW c \in Clients, c \in Subscribers(t)', Served(c, t)
      PROVE  offered'[c][t] >= hash'[t].of \/ WillBring(t)
  <2>1. offered[c][t] >= hash[t].of \/ WillBring(t)
    BY <1>1 DEF PushInv, NoneMissed, Subscribers
  <2>2. offered[c][t] \in Int /\ offered'[c][t] \in Int /\ hash[t].of \in Int
    BY <1>1 DEF PushInv, PushTypes, Hashes
  <2>3. offered'[c][t] >= offered[c][t]
    BY <1>1
  <2>. QED BY <2>1, <2>2, <2>3
<1>. QED BY <1>1

(* The push to one client that follows its subscription: what it is handed is at least what the hash is of. *)
LEMMA ServeKeeps == ASSUME PushAssumption, PushInv, NEW c \in Clients, Pushes(c) \/ WriteJSON(c) PROVE PushInv'
<1>. USE DEF PushInv
<1>1. reader[c] \in Reading /\ version \in [Topics -> Int] /\ offered \in [Clients -> [Topics -> Int]]
      /\ hash \in [Topics -> Hashes] /\ reader \in [Clients -> Reading]
  BY DEF PushTypes
<1>2. ASSUME NEW t \in Topics, NEW v \in Int, Offer(c, t, v)
      PROVE  /\ offered' \in [Clients -> [Topics -> Int]]
             /\ \A d \in Clients, s \in Topics : offered'[d][s] >= offered[d][s]
             /\ offered'[c][t] >= v
  <2>1. PICK n \in Int : n = Newest(offered[c][t], v) /\ n >= offered[c][t] /\ n >= v
    BY <1>1, <1>2, NewestOf
  <2>2. offered' = [offered EXCEPT ![c][t] = n]
    BY <1>2, <2>1 DEF Offer
  <2>. QED BY <1>1, <2>1, <2>2
<1>3. CASE WriteJSON(c)
  BY <1>3 DEF WriteJSON, PushTypes, NoneAhead, NoneMissed, Subscribers, Served, WillBring
<1>4. CASE pushFetch(c)
  <2>. DEFINE t == reader[c].topic
  <2>1. reader[c].pc = "fetch" /\ t \in Topics /\ UNCHANGED <<version, clients, subscribes, loop, notice, hash>>
    BY <1>1, <1>4 DEF pushFetch, Reading
  <2>2. CASE t \in CanFail /\ reader' = [reader EXCEPT ![c] = Resting] /\ UNCHANGED offered
    <3>1. PICK r : r = Resting
      OBVIOUS
    <3>2. r \in Reading
      BY <2>1, <3>1 DEF PushAssumption, Resting, Reading
    <3>3. PushTypes'
      BY <1>1, <2>1, <2>2, <3>1, <3>2 DEF PushTypes
    <3>4. NoneAhead'
      BY <2>1 DEF NoneAhead
    <3>5. NoneMissed'
      <4>1. ASSUME NEW s \in Topics \ CanFail, NEW d \in Clients, d \in Subscribers(s)', Served(d, s)'
            PROVE  d \in Subscribers(s) /\ Served(d, s)
        BY <1>1, <2>1, <2>2, <4>1 DEF Subscribers, Served
      <4>. QED BY <2>1, <2>2, <4>1 DEF NoneMissed, WillBring
    <3>. QED BY <3>3, <3>4, <3>5
  <2>3. CASE reader' = [reader EXCEPT ![c].pc = "write", ![c].version = version[t]] /\ Offer(c, t, version[t])
    <3>1. /\ offered' \in [Clients -> [Topics -> Int]]
          /\ \A d \in Clients, s \in Topics : offered'[d][s] >= offered[d][s]
          /\ offered'[c][t] >= version[t] /\ version[t] \in Int
      BY <1>1, <1>2, <2>1, <2>3
    <3>2. PICK v \in Int : v = version[t]
      BY <3>1
    <3>3. PICK r : r = [reader[c] EXCEPT !.pc = "write", !.version = v]
      OBVIOUS
    <3>4. r \in Reading /\ r.topic = t
      BY <1>1, <3>3 DEF Reading
    <3>5. reader' = [reader EXCEPT ![c] = r]
      BY <1>1, <2>3, <3>2, <3>3
    <3>6. PushTypes'
      BY <1>1, <2>1, <3>1, <3>4, <3>5 DEF PushTypes
    <3>7. NoneAhead'
      BY <2>1 DEF NoneAhead
    <3>8. NoneMissed'
      <4>1. ASSUME NEW s \in Topics \ CanFail, NEW d \in Clients, d \in Subscribers(s)', Served(d, s)'
            PROVE  offered'[d][s] >= hash'[s].of \/ WillBring(s)'
        <5>1. CASE d = c /\ s = t
          <6>1. hash[t].of <= version[t] /\ hash[t].of \in Int /\ offered'[c][t] \in Int
            BY <1>1, <2>1, <3>1 DEF NoneAhead, Hashes
          <6>. QED BY <2>1, <3>1, <5>1, <6>1
        <5>2. CASE ~(d = c /\ s = t)
          <6>1. Served(d, s)
            <7>1. CASE d = c
              BY <5>2, <7>1 DEF Served
            <7>2. CASE d # c
              BY <1>1, <3>5, <4>1, <7>2 DEF Served
            <7>. QED BY <7>1, <7>2
          <6>2. WillBring(s) => WillBring(s)'
            BY <2>1 DEF WillBring
          <6>. QED BY <2>1, <3>1, <4>1, <6>1, <6>2, OffersKeep
        <5>. QED BY <5>1, <5>2
      <4>. QED BY <4>1 DEF NoneMissed
    <3>. QED BY <3>6, <3>7, <3>8
  <2>4. PICK v \in fetchData(t) :
          IF v = Failed
          THEN reader' = [reader EXCEPT ![c] = Resting] /\ UNCHANGED offered
          ELSE reader' = [reader EXCEPT ![c].pc = "write", ![c].version = v] /\ Offer(c, t, v)
    BY <1>4 DEF pushFetch
  <2>5. (v = Failed /\ t \in CanFail) \/ (v = version[t] /\ v # Failed)
    BY <1>1, <2>1 DEF fetchData, Failed, NoneAhead
  <2>. QED BY <2>2, <2>3, <2>4, <2>5
<1>5. CASE pushWrite(c)
  <2>1. PICK t \in Topics, v \in Int : t = reader[c].topic /\ v = reader[c].version
    BY <1>1 DEF Reading
  <2>2. /\ reader[c].pc = "write" /\ Offer(c, t, v) /\ reader' = [reader EXCEPT ![c] = Resting]
        /\ UNCHANGED <<version, clients, subscribes, loop, notice, hash>>
    <3>1. reader[c].pc = "write"
      BY <1>1, <1>5 DEF pushWrite, Reading
    <3>2. subscribes' = subscribes
      BY <1>5, <3>1 DEF pushWrite, PushTypes
    <3>. QED BY <1>5, <2>1, <3>1, <3>2 DEF pushWrite
  <2>3. /\ offered' \in [Clients -> [Topics -> Int]]
        /\ \A d \in Clients, s \in Topics : offered'[d][s] >= offered[d][s]
    BY <1>2, <2>1, <2>2
  <2>4. PICK r : r = Resting
    OBVIOUS
  <2>5. r \in Reading
    BY <2>4 DEF PushAssumption, Resting, Reading
  <2>6. PushTypes'
    BY <1>1, <2>2, <2>3, <2>4, <2>5 DEF PushTypes
  <2>7. NoneAhead'
    BY <2>2 DEF NoneAhead
  <2>8. NoneMissed'
    <3>1. ASSUME NEW s \in Topics \ CanFail, NEW d \in Clients, d \in Subscribers(s)', Served(d, s)'
          PROVE  offered'[d][s] >= hash'[s].of \/ WillBring(s)'
      <4>1. Served(d, s)
        BY <1>1, <2>2, <3>1 DEF Served
      <4>2. WillBring(s) => WillBring(s)'
        BY <2>2 DEF WillBring
      <4>. QED BY <2>2, <2>3, <3>1, <4>1, <4>2, OffersKeep
    <3>. QED BY <3>1 DEF NoneMissed
  <2>. QED BY <2>6, <2>7, <2>8
<1>. QED BY <1>3, <1>4, <1>5 DEF Pushes

(* A broadcast offers its version to each subscriber. *)
LEMMA BroadcastOffers ==
  ASSUME PushInv, NEW t \in Topics, NEW v \in Int, broadcastData(t, v)
  PROVE  /\ offered' \in [Clients -> [Topics -> Int]]
         /\ \A c \in Clients, s \in Topics : offered'[c][s] >= offered[c][s]
         /\ \A c \in Clients : c \in Subscribers(t) => offered'[c][t] >= v
<1>1. offered \in [Clients -> [Topics -> Int]]
  BY DEF PushInv, PushTypes
<1>2. ASSUME NEW c \in Clients
      PROVE  /\ offered'[c] \in [Topics -> Int]
             /\ \A s \in Topics : offered'[c][s] >= offered[c][s]
             /\ c \in Subscribers(t) => offered'[c][t] >= v
  <2>1. PICK n \in Int : n = Newest(offered[c][t], v) /\ n >= offered[c][t] /\ n >= v
    BY <1>1, NewestOf
  <2>2. offered'[c] = IF c \in Subscribers(t) THEN [offered[c] EXCEPT ![t] = n] ELSE offered[c]
    BY <2>1 DEF broadcastData
  <2>. QED BY <1>1, <2>1, <2>2
<1>3. offered' = [c \in Clients |-> offered'[c]]
  BY Zenon DEF broadcastData
<1>. QED BY <1>2, <1>3

(* A broadcast of v, of which X is what is left under way when it ends. *)
LEMMA BroadcastKeeps ==
  ASSUME PushInv, NEW t \in Topics, NEW v \in Int, broadcastData(t, v),
         UNCHANGED <<version, clients, subscribes, reader, hash>>,
         \A s \in Topics : WillBring(s) => WillBring(s)' \/ (s = t /\ v >= hash[t].of)
  PROVE  NoneMissed'
<1>1. /\ offered' \in [Clients -> [Topics -> Int]]
      /\ \A c \in Clients, s \in Topics : offered'[c][s] >= offered[c][s]
      /\ \A c \in Clients : c \in Subscribers(t) => offered'[c][t] >= v
  BY BroadcastOffers
<1>2. ASSUME NEW s \in Topics \ CanFail, NEW c \in Clients, c \in Subscribers(s)', Served(c, s)'
      PROVE  offered'[c][s] >= hash'[s].of \/ WillBring(s)'
  <2>1. Served(c, s) /\ c \in Subscribers(s)
    BY <1>2 DEF Served, Subscribers
  <2>2. offered'[c][s] >= hash'[s].of \/ WillBring(s)
    BY <1>1, <1>2, <2>1, OffersKeep
  <2>3. CASE s = t /\ v >= hash[t].of
    <3>1. hash[t].of \in Int /\ offered'[c][t] \in Int /\ offered'[c][t] >= v
      BY <1>1, <2>1, <2>3 DEF PushInv, PushTypes, Hashes
    <3>. QED BY <2>3, <3>1
  <2>. QED BY <2>2, <2>3
<1>. QED BY <1>2 DEF NoneMissed

(* A store of the hash by a broadcaster that goes on to broadcast. *)
LEMMA StoreKeeps ==
  ASSUME PushInv, NEW t \in Topics, NEW v \in Int, NEW n \in Int,
         hash' = [hash EXCEPT ![t] = [content |-> n, of |-> v]],
         v <= version[t],
         UNCHANGED <<version, clients, subscribes, reader, offered>>,
         WillBring(t)', \A s \in Topics \ {t} : WillBring(s) => WillBring(s)'
  PROVE  NoneMissed' /\ hash' \in [Topics -> Hashes] /\ \A s \in Topics : hash'[s].of <= version'[s]
<1>1. hash \in [Topics -> Hashes] /\ version \in [Topics -> Int]
  BY DEF PushInv, PushTypes
<1>2. PICK h : h = [content |-> n, of |-> v]
  OBVIOUS
<1>3. hash' \in [Topics -> Hashes] /\ hash'[t].of = v /\ \A s \in Topics \ {t} : hash'[s] = hash[s]
  <2>1. h \in Hashes /\ h.of = v
    BY <1>2 DEF Hashes
  <2>. QED BY <1>1, <1>2, <2>1
<1>4. \A s \in Topics : hash'[s].of <= version'[s]
  BY <1>1, <1>3 DEF PushInv, NoneAhead
<1>5. NoneMissed'
  BY <1>3 DEF PushInv, NoneMissed, Subscribers, Served
<1>. QED BY <1>3, <1>4, <1>5

(* The loop or the notice moves on with nothing stored and nothing offered. *)
LEMMA MovesKeep ==
  ASSUME PushInv, loop' \in Checking, notice' \in Noticing,
         loop'.pc \in {"compare", "broadcast"} => loop'.version <= version[loop'.topic],
         notice'.pc \in {"store", "broadcast"} => notice'.version <= version["devices"],
         UNCHANGED <<version, clients, subscribes, reader, hash, offered>>,
         \A s \in Topics : WillBring(s) => WillBring(s)'
  PROVE  PushInv'
<1>1. PushTypes'
  BY DEF PushInv, PushTypes
<1>2. NoneAhead'
  BY DEF PushInv, NoneAhead
<1>3. NoneMissed'
  BY DEF PushInv, NoneMissed, Subscribers, Served
<1>. QED BY <1>1, <1>2, <1>3 DEF PushInv

LEMMA NotCheckingRests == ASSUME PushAssumption PROVE NotChecking \in Checking
  BY DEF NotChecking, Checking, PushAssumption

LEMMA GoesRests ==
  ASSUME PushAssumption, NEW todo \in SUBSET Topics, NEW l, l = Goes(todo)
  PROVE  l \in Checking /\ l.pc \in {"idle", "check"}
<1>1. PICK n \in Checking : n = NotChecking
  BY NotCheckingRests
<1>2. PICK p \in {"idle", "check"} : p = IF todo = {} THEN "idle" ELSE "check"
  OBVIOUS
<1>3. l = [n EXCEPT !.pc = p, !.todo = todo]
  BY <1>1, <1>2 DEF Goes
<1>. QED BY <1>3 DEF Checking

LEMMA ChecksKeep == ASSUME PushAssumption, PushInv, Checks PROVE PushInv'
<1>1. /\ loop \in Checking /\ loop.topic \in Topics /\ loop.version \in Int /\ loop.todo \subseteq Topics
      /\ notice \in Noticing /\ hash \in [Topics -> Hashes] /\ version \in [Topics -> Int]
      /\ subscribes \in [Clients -> SUBSET Topics] /\ clients \subseteq Clients
      /\ notice.pc \in {"store", "broadcast"} => notice.version <= version["devices"]
  BY DEF PushInv, PushTypes, NoneAhead, Checking
<1>2. CASE checkAndPush
  <2>1. PICK todo \in SUBSET Topics : loop' = [NotChecking EXCEPT !.pc = "check", !.todo = todo]
    <3>1. UNION {subscribes[c] : c \in clients} \in SUBSET Topics
      BY <1>1
    <3>. QED BY <1>2, <3>1 DEF checkAndPush
  <2>2. PICK l : l = [NotChecking EXCEPT !.pc = "check", !.todo = todo]
    OBVIOUS
  <2>3. l \in Checking /\ l.pc = "check"
    <3>1. PICK n \in Checking : n = NotChecking
      BY NotCheckingRests
    <3>2. l = [n EXCEPT !.pc = "check", !.todo = todo]
      BY <2>2, <3>1
    <3>. QED BY <3>2 DEF Checking
  <2>4. /\ UNCHANGED <<version, clients, subscribes, reader, notice, hash, offered>> /\ loop.pc = "idle"
        /\ loop' = l
    BY <1>2, <2>1, <2>2 DEF checkAndPush
  <2>5. \A s \in Topics : WillBring(s) => WillBring(s)'
    BY <2>3, <2>4 DEF WillBring
  <2>. QED BY <1>1, <2>3, <2>4, <2>5, MovesKeep
<1>3. CASE checkFetch
  <2>0. PICK t \in loop.todo :
          \E v \in fetchData(t) :
            loop' = IF v = Failed THEN Goes(loop.todo \ {t})
                    ELSE [pc |-> "compare", todo |-> loop.todo \ {t}, topic |-> t, version |-> v]
    BY <1>3 DEF checkFetch
  <2>1. PICK v \in fetchData(t) :
          loop' = IF v = Failed THEN Goes(loop.todo \ {t})
                  ELSE [pc |-> "compare", todo |-> loop.todo \ {t}, topic |-> t, version |-> v]
    BY <2>0
  <2>2. t \in Topics /\ (v # Failed => v = version[t] /\ v \in Int)
    BY <1>1 DEF fetchData
  <2>3. /\ UNCHANGED <<version, clients, subscribes, reader, notice, hash, offered>> /\ loop.pc = "check"
    BY <1>3 DEF checkFetch
  <2>4. \A s \in Topics : WillBring(s) => WillBring(s)'
    BY <2>3 DEF WillBring
  <2>5. /\ loop' \in Checking
        /\ loop'.pc \in {"compare", "broadcast"} => loop'.version <= version[loop'.topic]
    <3>1. CASE v = Failed
      BY <1>1, <2>1, <3>1, GoesRests
    <3>2. CASE v # Failed
      <4>1. PICK l : l = [pc |-> "compare", todo |-> loop.todo \ {t}, topic |-> t, version |-> v]
        OBVIOUS
      <4>2. l \in Checking /\ l.topic = t /\ l.version = v
        BY <1>1, <2>2, <3>2, <4>1 DEF Checking
      <4>. QED BY <1>1, <2>1, <2>2, <3>2, <4>1, <4>2
    <3>. QED BY <3>1, <3>2
  <2>. QED BY <1>1, <2>3, <2>4, <2>5, MovesKeep
<1>4. CASE compareHash
  <2>1. /\ UNCHANGED <<version, clients, subscribes, reader, notice, offered>> /\ loop.pc = "compare"
        /\ loop.version <= version[loop.topic]
    BY <1>4 DEF compareHash, PushInv, NoneAhead
  <2>2. CASE loop' = Goes(loop.todo) /\ UNCHANGED hash
    <3>1. loop' \in Checking /\ loop'.pc \in {"idle", "check"}
      BY <1>1, <2>2, GoesRests
    <3>2. \A s \in Topics : WillBring(s) => WillBring(s)'
      BY <2>1, <2>2 DEF WillBring
    <3>. QED BY <1>1, <2>1, <2>2, <3>1, <3>2, MovesKeep
  <2>3. CASE /\ loop' = [loop EXCEPT !.pc = "broadcast"]
             /\ hash' = [hash EXCEPT ![loop.topic] = [content |-> Content(loop.version), of |-> loop.version]]
    <3>1. loop' \in Checking /\ loop'.pc = "broadcast" /\ loop'.topic = loop.topic /\ loop'.version = loop.version
      BY <1>1, <2>3 DEF Checking
    <3>2. PICK t \in Topics, v \in Int, n \in Int : t = loop.topic /\ v = loop.version /\ n = Content(loop.version)
      BY <1>1 DEF Content
    <3>3. hash'[t].of = v /\ \A s \in Topics \ {t} : hash'[s] = hash[s]
      BY <1>1, <2>3, <3>2
    <3>4. WillBring(t)' /\ \A s \in Topics \ {t} : WillBring(s) => WillBring(s)'
      BY <2>1, <3>1, <3>2, <3>3 DEF WillBring
    <3>5. NoneMissed' /\ hash' \in [Topics -> Hashes] /\ \A s \in Topics : hash'[s].of <= version'[s]
      BY <2>1, <2>3, <3>2, <3>4, StoreKeeps
    <3>6. PushTypes'
      BY <2>1, <3>1, <3>5 DEF PushInv, PushTypes
    <3>7. NoneAhead'
      BY <2>1, <3>1, <3>5 DEF PushInv, NoneAhead
    <3>. QED BY <3>5, <3>6, <3>7 DEF PushInv
  <2>. QED BY <1>4, <2>2, <2>3 DEF compareHash
<1>5. CASE checkBroadcast
  <2>1. /\ UNCHANGED <<version, clients, subscribes, reader, notice, hash>> /\ loop.pc = "broadcast"
        /\ broadcastData(loop.topic, loop.version) /\ loop' = Goes(loop.todo)
    BY <1>5 DEF checkBroadcast
  <2>2. loop' \in Checking /\ loop'.pc \in {"idle", "check"}
    BY <1>1, <2>1, GoesRests
  <2>3. \A s \in Topics : WillBring(s) => WillBring(s)' \/ (s = loop.topic /\ loop.version >= hash[loop.topic].of)
    BY <2>1 DEF WillBring
  <2>4. NoneMissed'
    BY <1>1, <2>1, <2>3, BroadcastKeeps
  <2>5. offered' \in [Clients -> [Topics -> Int]]
    BY <1>1, <2>1, BroadcastOffers
  <2>6. PushTypes'
    BY <2>1, <2>2, <2>5 DEF PushInv, PushTypes
  <2>7. NoneAhead'
    BY <2>1, <2>2 DEF PushInv, NoneAhead
  <2>. QED BY <2>4, <2>6, <2>7 DEF PushInv
<1>. QED BY <1>2, <1>3, <1>4, <1>5 DEF Checks

LEMMA NoticeKeeps == ASSUME PushAssumption, PushInv, notifyFetch \/ Notifies PROVE PushInv'
<1>1. /\ loop \in Checking /\ notice \in Noticing /\ notice.version \in Int /\ "devices" \in Topics
      /\ hash \in [Topics -> Hashes] /\ version \in [Topics -> Int]
      /\ loop.pc \in {"compare", "broadcast"} => loop.version <= version[loop.topic]
  BY DEF PushAssumption, PushInv, PushTypes, NoneAhead, Noticing
<1>2. CASE notifyFetch
  <2>1. PICK v \in Int : v = version["devices"]
    BY <1>1
  <2>2. PICK n : n = [Resting EXCEPT !.pc = "store", !.version = v]
    OBVIOUS
  <2>3. n \in Noticing /\ n.pc = "store" /\ n.version = v
    BY <1>1, <2>2 DEF Resting, Noticing
  <2>4. /\ UNCHANGED <<version, clients, subscribes, reader, loop, hash, offered>> /\ notice.pc = "idle"
        /\ notice' = n
    BY <1>2, <2>1, <2>2 DEF notifyFetch
  <2>5. \A s \in Topics : WillBring(s) => WillBring(s)'
    BY <2>4 DEF WillBring
  <2>. QED BY <1>1, <2>1, <2>3, <2>4, <2>5, MovesKeep
<1>3. CASE notifyStore
  <2>1. /\ UNCHANGED <<version, clients, subscribes, reader, loop, offered>> /\ notice.pc = "store"
        /\ notice.version <= version["devices"]
        /\ hash' = [hash EXCEPT !["devices"] = [content |-> Content(notice.version), of |-> notice.version]]
        /\ notice' = [notice EXCEPT !.pc = "broadcast"]
    BY <1>3 DEF notifyStore, PushInv, NoneAhead
  <2>2. notice' \in Noticing /\ notice'.pc = "broadcast" /\ notice'.version = notice.version
    BY <1>1, <2>1 DEF Noticing
  <2>3. PICK t \in Topics, v \in Int, n \in Int : t = "devices" /\ v = notice.version /\ n = Content(notice.version)
    BY <1>1 DEF Content
  <2>4. hash'[t].of = v /\ \A s \in Topics \ {t} : hash'[s] = hash[s]
    BY <1>1, <2>1, <2>3
  <2>5. WillBring(t)' /\ \A s \in Topics \ {t} : WillBring(s) => WillBring(s)'
    BY <2>1, <2>2, <2>3, <2>4 DEF WillBring
  <2>6. NoneMissed' /\ hash' \in [Topics -> Hashes] /\ \A s \in Topics : hash'[s].of <= version'[s]
    BY <2>1, <2>3, <2>5, StoreKeeps
  <2>7. PushTypes'
    BY <2>1, <2>2, <2>6 DEF PushInv, PushTypes
  <2>8. NoneAhead'
    BY <2>1, <2>2, <2>6 DEF PushInv, NoneAhead
  <2>. QED BY <2>6, <2>7, <2>8 DEF PushInv
<1>4. CASE notifyBroadcast
  <2>1. /\ UNCHANGED <<version, clients, subscribes, reader, loop, hash>> /\ notice.pc = "broadcast"
        /\ broadcastData("devices", notice.version) /\ notice' = Resting
    BY <1>4 DEF notifyBroadcast
  <2>2. notice' \in Noticing /\ notice'.pc = "idle"
    BY <1>1, <2>1 DEF Resting, Noticing
  <2>3. \A s \in Topics : WillBring(s) => WillBring(s)' \/ (s = "devices" /\ notice.version >= hash["devices"].of)
    BY <2>1 DEF WillBring
  <2>4. NoneMissed'
    BY <1>1, <2>1, <2>3, BroadcastKeeps
  <2>5. offered' \in [Clients -> [Topics -> Int]]
    BY <1>1, <2>1, BroadcastOffers
  <2>6. PushTypes'
    BY <2>1, <2>2, <2>5 DEF PushInv, PushTypes
  <2>7. NoneAhead'
    BY <2>1, <2>2 DEF PushInv, NoneAhead
  <2>. QED BY <2>4, <2>6, <2>7 DEF PushInv
<1>. QED BY <1>2, <1>3, <1>4 DEF Notifies

LEMMA ChangeKeeps == ASSUME PushAssumption, PushInv, NEW t \in Changing, DataChanges(t) PROVE PushInv'
<1>1. t \in Topics /\ version \in [Topics -> Int]
  BY DEF PushAssumption, PushInv, PushTypes
<1>2. /\ version' \in [Topics -> Int] /\ \A s \in Topics : version'[s] >= version[s]
      /\ UNCHANGED <<clients, subscribes, reader, loop, notice, hash, offered>>
  BY <1>1 DEF DataChanges
<1>3. PushTypes'
  BY <1>2 DEF PushInv, PushTypes
<1>4. NoneAhead'
  <2>1. /\ \A s \in Topics : hash[s].of \in Int /\ version[s] \in Int /\ version'[s] \in Int
        /\ loop.version \in Int /\ loop.topic \in Topics /\ notice.version \in Int /\ "devices" \in Topics
    BY <1>1, <1>2 DEF PushInv, PushTypes, Hashes, Checking, Noticing, PushAssumption
  <2>. QED BY <1>2, <2>1 DEF PushInv, NoneAhead
<1>5. NoneMissed'
  BY <1>2 DEF PushInv, NoneMissed, Subscribers, Served, WillBring
<1>. QED BY <1>3, <1>4, <1>5 DEF PushInv

(* The invariant is kept by every step. *)
LEMMA PushKeeps == ASSUME PushAssumption, PushInv, Next PROVE PushInv'
<1>1. ASSUME NEW c \in Clients, register(c) \/ unregister(c) \/ Asks(c) \/ Pushes(c) \/ WriteJSON(c) PROVE PushInv'
  BY <1>1, ClientKeeps, ServeKeeps
<1>. QED BY <1>1, ChecksKeep, NoticeKeeps, ChangeKeeps DEF Next

LEMMA PushStutter == ASSUME PushInv, UNCHANGED vars PROVE PushInv'
  BY DEF PushInv, PushTypes, NoneAhead, NoneMissed, Subscribers, Served, WillBring, vars

LEMMA InvMissesNothing == ASSUME PushInv PROVE NothingMissed
  BY DEF PushInv, NoneMissed, NothingMissed, Pushing, WillBring, Served

------------------------------------------------------------------------------
(* The versions and the writes under way, within their bounds *)

Versions == 0..MaxVersion

Writes == [topic : Topics, version : Versions]

Held ==
  /\ version \in [Topics -> Versions]
  /\ hash \in [Topics -> [content : {-1, 0, 1}, of : -1..MaxVersion]]
  /\ shown \in [Clients -> [Topics -> -1..MaxVersion]]

Carried ==
  /\ \A c \in Clients : reader[c].version \in Versions
  /\ loop.version \in Versions /\ notice.version \in Versions

Flying ==
  /\ flight \in [Clients -> SUBSET Writes]
  /\ \A c \in Clients : IsFiniteSet(flight[c]) /\ Cardinality(flight[c]) <= MaxInFlight

PushBounded == Held /\ Carried /\ Flying

LEMMA BoundsInt == ASSUME PushAssumption PROVE MaxVersion \in Nat /\ MaxInFlight \in Nat /\ Versions \subseteq Nat
  BY DEF PushAssumption, Versions

LEMMA NoWrites == IsFiniteSet({}) /\ Cardinality({}) = 0
  BY FS_EmptySet

LEMMA BoundedInit == ASSUME PushAssumption, Init PROVE PushBounded
<1>. USE BoundsInt
<1>1. Held
  BY DEF Init, Held, NoHash, Versions
<1>2. Carried
  BY DEF Init, Carried, Resting, NotChecking, Versions
<1>3. Flying
  BY NoWrites DEF Init, Flying
<1>. QED BY <1>1, <1>2, <1>3 DEF PushBounded

LEMMA BoundedStutter == ASSUME PushBounded, UNCHANGED vars PROVE PushBounded'
  BY DEF PushBounded, Held, Carried, Flying, vars, Versions, Writes

(* What a client does leaves the versions where they are. *)
LEMMA ClientBounded ==
  ASSUME PushAssumption, PushInv, PushBounded, NEW c \in Clients, register(c) \/ unregister(c) \/ Asks(c)
  PROVE  PushBounded'
<1>. USE BoundsInt
<1>1. reader \in [Clients -> Reading]
  BY DEF PushInv, PushTypes
<1>2. Held /\ Carried /\ Flying
  BY DEF PushBounded
<1>3. CASE register(c)
  <2>1. shown' = [shown EXCEPT ![c] = [t \in Topics |-> -1]] /\ UNCHANGED <<version, hash, reader, loop, notice, flight>>
    BY <1>3 DEF register
  <2>2. [t \in Topics |-> -1] \in [Topics -> -1..MaxVersion]
    OBVIOUS
  <2>3. Held'
    BY <1>2, <2>1, <2>2 DEF Held, Versions
  <2>4. Carried' /\ Flying'
    BY <1>2, <2>1 DEF Carried, Flying, Versions, Writes
  <2>. QED BY <2>3, <2>4 DEF PushBounded
<1>4. CASE unregister(c)
  <2>1. flight' = [flight EXCEPT ![c] = {}] /\ UNCHANGED <<version, hash, shown, reader, loop, notice>>
    BY <1>4 DEF unregister
  <2>2. Held' /\ Carried'
    BY <1>2, <2>1 DEF Held, Carried, Versions
  <2>3. Flying'
    BY <1>2, <2>1, NoWrites DEF Flying, Writes, Versions
  <2>. QED BY <2>2, <2>3 DEF PushBounded
<1>5. CASE Asks(c)
  <2>1. UNCHANGED <<version, hash, shown, loop, notice, flight>>
    BY <1>5 DEF Asks, subscribe, unsubscribe, request
  <2>2. PICK t \in Topics : UNCHANGED reader \/ reader' = [reader EXCEPT ![c] = [pc |-> "fetch", topic |-> t, version |-> 0]]
    BY <1>5 DEF Asks, subscribe, unsubscribe, request
  <2>3. Carried'
    <3>1. 0 \in Versions
      BY DEF Versions
    <3>. QED BY <1>1, <1>2, <2>1, <2>2, <3>1 DEF Carried, Versions
  <2>4. Held' /\ Flying'
    BY <1>2, <2>1 DEF Held, Flying, Versions, Writes
  <2>. QED BY <2>3, <2>4 DEF PushBounded
<1>. QED BY <1>3, <1>4, <1>5

(* What is written to a client is a version there has been. *)
LEMMA ShownBounded ==
  ASSUME PushAssumption, Held, NEW c \in Clients, NEW t \in Topics, NEW v \in Versions,
         shown' = [shown EXCEPT ![c][t] = Newest(@, v)]
  PROVE  shown' \in [Clients -> [Topics -> -1..MaxVersion]]
<1>. USE BoundsInt
<1>1. shown[c][t] \in -1..MaxVersion
  BY DEF Held
<1>2. PICK n \in -1..MaxVersion : n = Newest(shown[c][t], v)
  BY <1>1 DEF Newest, Versions
<1>3. shown' = [shown EXCEPT ![c][t] = n]
  BY <1>2
<1>. QED BY <1>3 DEF Held

LEMMA ServeBounded ==
  ASSUME PushAssumption, PushInv, PushBounded, NEW c \in Clients, Pushes(c) \/ WriteJSON(c)
  PROVE  PushBounded'
<1>. USE BoundsInt
<1>1. reader \in [Clients -> Reading] /\ reader[c] \in Reading
  BY DEF PushInv, PushTypes
<1>2. Held /\ Carried /\ Flying
  BY DEF PushBounded
<1>3. CASE pushFetch(c)
  <2>1. UNCHANGED <<version, hash, shown, loop, notice, flight>>
    BY <1>3 DEF pushFetch
  <2>2. PICK v \in fetchData(reader[c].topic) :
          \/ reader' = [reader EXCEPT ![c] = Resting]
          \/ v # Failed /\ reader' = [reader EXCEPT ![c].pc = "write", ![c].version = v]
    BY <1>3 DEF pushFetch
  <2>3. v = Failed \/ v \in Versions
    <3>1. reader[c].topic \in Topics
      BY <1>1 DEF Reading
    <3>. QED BY <1>2, <3>1 DEF fetchData, Held
  <2>4. Carried'
    <3>1. CASE reader' = [reader EXCEPT ![c] = Resting]
      <4>1. Resting.version \in Versions
        BY DEF Resting, Versions
      <4>. QED BY <1>1, <1>2, <2>1, <3>1, <4>1 DEF Carried, Versions
    <3>2. CASE v # Failed /\ reader' = [reader EXCEPT ![c].pc = "write", ![c].version = v]
      <4>1. \A d \in Clients : reader'[d].version \in {reader[d].version, v}
        BY <1>1, <3>2 DEF Reading
      <4>. QED BY <1>2, <2>1, <2>3, <3>2, <4>1 DEF Carried, Versions
    <3>. QED BY <2>2, <3>1, <3>2
  <2>5. Held' /\ Flying'
    BY <1>2, <2>1 DEF Held, Flying, Versions, Writes
  <2>. QED BY <2>4, <2>5 DEF PushBounded
<1>4. CASE pushWrite(c)
  <2>1. PICK t \in Topics, v \in Versions : t = reader[c].topic /\ v = reader[c].version
    BY <1>1, <1>2 DEF Reading, Carried
  <2>2. /\ shown' = [shown EXCEPT ![c][t] = Newest(@, v)] /\ reader' = [reader EXCEPT ![c] = Resting]
        /\ UNCHANGED <<version, hash, loop, notice, flight>>
    BY <1>4, <2>1 DEF pushWrite
  <2>3. shown' \in [Clients -> [Topics -> -1..MaxVersion]]
    BY <1>2, <2>2, ShownBounded
  <2>4. Held'
    BY <1>2, <2>2, <2>3 DEF Held, Versions
  <2>5. Carried'
    <3>1. Resting.version \in Versions
      BY DEF Resting, Versions
    <3>. QED BY <1>1, <1>2, <2>2, <3>1 DEF Carried, Versions
  <2>6. Flying'
    BY <1>2, <2>2 DEF Flying, Versions, Writes
  <2>. QED BY <2>4, <2>5, <2>6 DEF PushBounded
<1>5. CASE WriteJSON(c)
  <2>1. PICK m \in flight[c] : /\ flight' = [flight EXCEPT ![c] = @ \ {m}]
                               /\ shown' = [shown EXCEPT ![c][m.topic] = Newest(@, m.version)]
    BY <1>5 DEF WriteJSON
  <2>2. UNCHANGED <<version, hash, reader, loop, notice>>
    BY <1>5 DEF WriteJSON
  <2>3. m \in Writes
    BY <1>2, <2>1 DEF Flying
  <2>4. PICK t \in Topics, v \in Versions : t = m.topic /\ v = m.version
    BY <2>3 DEF Writes
  <2>5. shown' \in [Clients -> [Topics -> -1..MaxVersion]]
    BY <1>2, <2>1, <2>4, ShownBounded
  <2>6. Held'
    BY <1>2, <2>2, <2>5 DEF Held, Versions
  <2>7. Carried'
    BY <1>2, <2>2 DEF Carried, Versions
  <2>8. Flying'
    <3>1. PICK s : s = flight[c] \ {m}
      OBVIOUS
    <3>2. IsFiniteSet(flight[c]) /\ Cardinality(flight[c]) <= MaxInFlight /\ flight[c] \subseteq Writes
      BY <1>2 DEF Flying
    <3>3. IsFiniteSet(s) /\ Cardinality(s) <= MaxInFlight
      <4>1. IsFiniteSet(s) /\ Cardinality(s) = Cardinality(flight[c]) - 1
        BY <2>1, <3>1, <3>2, FS_RemoveElement
      <4>2. Cardinality(flight[c]) \in Nat
        BY <3>2, FS_CardinalityType
      <4>. QED BY <3>2, <4>1, <4>2
    <3>4. flight' = [flight EXCEPT ![c] = s] /\ s \subseteq Writes
      BY <2>1, <3>1, <3>2
    <3>. QED BY <1>2, <3>3, <3>4 DEF Flying, Writes, Versions
  <2>. QED BY <2>6, <2>7, <2>8 DEF PushBounded
<1>. QED BY <1>3, <1>4, <1>5 DEF Pushes

(* A broadcast waits until there is room for one more write to each subscriber. *)
LEMMA BroadcastBounded ==
  ASSUME PushAssumption, PushBounded, NEW t \in Topics, NEW v \in Versions, broadcastData(t, v)
  PROVE  Flying'
<1>. USE BoundsInt
<1>1. PICK m : m = [topic |-> t, version |-> v]
  OBVIOUS
<1>2. m \in Writes
  BY <1>1 DEF Writes
<1>3. flight' = [c \in Clients |-> IF c \in Subscribers(t) THEN flight[c] \cup {m} ELSE flight[c]]
  BY <1>1 DEF broadcastData
<1>4. \A c \in Subscribers(t) : Cardinality(flight[c]) < MaxInFlight \/ m \in flight[c]
  BY <1>1 DEF broadcastData
<1>5. ASSUME NEW c \in Clients
      PROVE  flight'[c] \subseteq Writes /\ IsFiniteSet(flight'[c]) /\ Cardinality(flight'[c]) <= MaxInFlight
  <2>1. flight[c] \subseteq Writes /\ IsFiniteSet(flight[c]) /\ Cardinality(flight[c]) <= MaxInFlight
    BY DEF PushBounded, Flying
  <2>2. CASE c \notin Subscribers(t) \/ m \in flight[c]
    <3>1. flight'[c] = flight[c]
      BY <1>3, <2>2
    <3>. QED BY <2>1, <3>1
  <2>3. CASE c \in Subscribers(t) /\ m \notin flight[c]
    <3>1. flight'[c] = flight[c] \cup {m} /\ Cardinality(flight[c]) < MaxInFlight
      BY <1>3, <1>4, <2>3
    <3>2. IsFiniteSet(flight[c] \cup {m}) /\ Cardinality(flight[c] \cup {m}) = Cardinality(flight[c]) + 1
      BY <2>1, <2>3, FS_AddElement
    <3>3. Cardinality(flight[c]) \in Nat
      BY <2>1, FS_CardinalityType
    <3>. QED BY <1>2, <2>1, <3>1, <3>2, <3>3
  <2>. QED BY <2>2, <2>3
<1>6. flight' \in [Clients -> SUBSET Writes]
  BY <1>3, <1>5
<1>. QED BY <1>5, <1>6 DEF Flying, Writes, Versions

LEMMA GoesBounded == ASSUME PushAssumption, NEW todo PROVE Goes(todo).version \in Versions
  BY BoundsInt DEF Goes, NotChecking, Versions

LEMMA ChecksBounded ==
  ASSUME PushAssumption, PushInv, PushBounded, Checks PROVE PushBounded'
<1>. USE BoundsInt
<1>1. loop \in Checking /\ loop.topic \in Topics /\ loop.version \in Versions
  BY DEF PushInv, PushTypes, PushBounded, Carried, Checking
<1>2. Held /\ Carried /\ Flying
  BY DEF PushBounded
<1>3. UNCHANGED <<version, shown, reader, notice>>
  BY DEF Checks, checkAndPush, checkFetch, compareHash, checkBroadcast
<1>4. CASE checkAndPush
  <2>1. UNCHANGED <<hash, flight>> /\ loop'.version = 0
    BY <1>4 DEF checkAndPush, NotChecking
  <2>. QED BY <1>2, <1>3, <2>1 DEF PushBounded, Held, Carried, Flying, Versions, Writes
<1>5. CASE checkFetch
  <2>0. PICK t \in loop.todo : \E v \in fetchData(t) :
          loop' = IF v = Failed THEN Goes(loop.todo \ {t})
                  ELSE [pc |-> "compare", todo |-> loop.todo \ {t}, topic |-> t, version |-> v]
    BY <1>5 DEF checkFetch
  <2>1. PICK v \in fetchData(t) :
          loop' = IF v = Failed THEN Goes(loop.todo \ {t})
                  ELSE [pc |-> "compare", todo |-> loop.todo \ {t}, topic |-> t, version |-> v]
    BY <2>0
  <2>2. t \in Topics
    BY <1>1, <2>1 DEF Checking
  <2>3. v = Failed \/ v \in Versions
    BY <1>2, <2>1, <2>2 DEF fetchData, Held
  <2>4. loop'.version \in Versions
    <3>1. CASE v = Failed
      <4>1. loop' = Goes(loop.todo \ {t})
        BY <2>1, <3>1
      <4>. QED BY <4>1, GoesBounded
    <3>2. CASE v # Failed
      BY <2>1, <2>3, <3>2
    <3>. QED BY <3>1, <3>2
  <2>5. UNCHANGED <<hash, flight>>
    BY <1>5 DEF checkFetch
  <2>. QED BY <1>2, <1>3, <2>4, <2>5 DEF PushBounded, Held, Carried, Flying, Versions, Writes
<1>6. CASE compareHash
  <2>1. UNCHANGED flight
    BY <1>6 DEF compareHash
  <2>2. PICK h : h = [content |-> Content(loop.version), of |-> loop.version]
    OBVIOUS
  <2>3. h \in [content : {-1, 0, 1}, of : -1..MaxVersion]
    <3>1. Content(loop.version) \in {0, 1} /\ loop.version \in -1..MaxVersion
      BY <1>1 DEF Content, Versions
    <3>. QED BY <2>2, <3>1
  <2>4. CASE loop' = Goes(loop.todo) /\ UNCHANGED hash
    <3>1. loop'.version \in Versions
      BY <2>4, GoesBounded
    <3>. QED BY <1>2, <1>3, <2>1, <2>4, <3>1 DEF PushBounded, Held, Carried, Flying, Versions, Writes
  <2>5. CASE loop' = [loop EXCEPT !.pc = "broadcast"] /\ hash' = [hash EXCEPT ![loop.topic] = h]
    <3>1. loop'.version \in Versions
      BY <1>1, <2>5 DEF Checking
    <3>2. hash' \in [Topics -> [content : {-1, 0, 1}, of : -1..MaxVersion]]
      BY <1>1, <1>2, <2>3, <2>5 DEF Held
    <3>. QED BY <1>2, <1>3, <2>1, <3>1, <3>2 DEF PushBounded, Held, Carried, Flying, Versions, Writes
  <2>. QED BY <1>6, <2>2, <2>4, <2>5 DEF compareHash
<1>7. CASE checkBroadcast
  <2>1. Flying'
    BY <1>1, <1>7, BroadcastBounded DEF checkBroadcast
  <2>2. loop'.version \in Versions /\ UNCHANGED hash
    BY <1>7, GoesBounded DEF checkBroadcast
  <2>. QED BY <1>2, <1>3, <2>1, <2>2 DEF PushBounded, Held, Carried, Versions
<1>. QED BY <1>4, <1>5, <1>6, <1>7 DEF Checks

LEMMA NoticeBounded ==
  ASSUME PushAssumption, PushInv, PushBounded, notifyFetch \/ Notifies PROVE PushBounded'
<1>. USE BoundsInt
<1>1. notice \in Noticing /\ notice.version \in Versions /\ "devices" \in Topics
  BY DEF PushInv, PushTypes, PushBounded, Carried, Noticing, PushAssumption
<1>2. Held /\ Carried /\ Flying
  BY DEF PushBounded
<1>3. UNCHANGED <<version, shown, reader, loop>>
  BY DEF Notifies, notifyFetch, notifyStore, notifyBroadcast
<1>4. CASE notifyFetch
  <2>1. UNCHANGED <<hash, flight>> /\ notice' = [Resting EXCEPT !.pc = "store", !.version = version["devices"]]
    BY <1>4 DEF notifyFetch
  <2>2. notice'.version \in Versions
    BY <1>1, <1>2, <2>1 DEF Held, Resting
  <2>. QED BY <1>2, <1>3, <2>1, <2>2 DEF PushBounded, Held, Carried, Flying, Versions, Writes
<1>5. CASE notifyStore
  <2>1. PICK h : h = [content |-> Content(notice.version), of |-> notice.version]
    OBVIOUS
  <2>2. h \in [content : {-1, 0, 1}, of : -1..MaxVersion]
    <3>1. Content(notice.version) \in {0, 1} /\ notice.version \in -1..MaxVersion
      BY <1>1 DEF Content, Versions
    <3>. QED BY <2>1, <3>1
  <2>3. /\ hash' = [hash EXCEPT !["devices"] = h] /\ notice' = [notice EXCEPT !.pc = "broadcast"]
        /\ UNCHANGED flight
    BY <1>5, <2>1 DEF notifyStore
  <2>4. notice'.version \in Versions
    BY <1>1, <2>3 DEF Noticing
  <2>5. hash' \in [Topics -> [content : {-1, 0, 1}, of : -1..MaxVersion]]
    BY <1>1, <1>2, <2>2, <2>3 DEF Held
  <2>. QED BY <1>2, <1>3, <2>3, <2>4, <2>5 DEF PushBounded, Held, Carried, Flying, Versions, Writes
<1>6. CASE notifyBroadcast
  <2>1. Flying'
    BY <1>1, <1>6, BroadcastBounded DEF notifyBroadcast
  <2>2. notice'.version \in Versions /\ UNCHANGED hash
    BY <1>6 DEF notifyBroadcast, Resting, Versions
  <2>. QED BY <1>2, <1>3, <2>1, <2>2 DEF PushBounded, Held, Carried, Versions
<1>. QED BY <1>4, <1>5, <1>6 DEF Notifies

LEMMA BoundedKeeps == ASSUME PushAssumption, PushInv, PushBounded, Next PROVE PushBounded'
<1>1. ASSUME NEW t \in Changing, DataChanges(t) PROVE PushBounded'
  <2>1. t \in Topics
    BY <1>1 DEF PushAssumption
  <2>2. /\ version[t] < MaxVersion /\ version' = [version EXCEPT ![t] = @ + 1]
        /\ UNCHANGED <<hash, shown, reader, loop, notice, flight>>
    BY <1>1 DEF DataChanges
  <2>3. version' \in [Topics -> Versions]
    BY <2>1, <2>2, BoundsInt DEF PushBounded, Held, Versions
  <2>. QED BY <2>2, <2>3 DEF PushBounded, Held, Carried, Flying, Versions, Writes
<1>. QED BY <1>1, ClientBounded, ServeBounded, ChecksBounded, NoticeBounded DEF Next

LEMMA InvHasTypes == ASSUME PushInv, PushBounded PROVE TypeOK
  BY DEF PushInv, PushTypes, PushBounded, Held, Flying, Versions, TypeOK

(* Whoever subscribed, even while a broadcast was made, and is not being served now, was sent data as
   new as the data of the hash, whatever subscriptions, checks, notices and changes run together. *)
THEOREM NoneMissedEver == PushAssumption => (Spec => []NothingMissed)
<1>. SUFFICES ASSUME PushAssumption PROVE Spec => []NothingMissed
  OBVIOUS
<1>1. Init => PushInv
  BY PushInit
<1>2. PushInv /\ [Next]_vars => PushInv'
  BY PushKeeps, PushStutter
<1>3. PushInv => NothingMissed
  BY InvMissesNothing
<1>. QED BY <1>1, <1>2, <1>3, PTL DEF Spec
==============================================================================
