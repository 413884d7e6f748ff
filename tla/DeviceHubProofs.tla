--------------------------- MODULE DeviceHubProofs ---------------------------
(***************************************************************************)
(* The safety of DeviceHub for any number of connections and devices, with  *)
(* patient devices or not.  Everything rests on one fact: the connections   *)
(* of the map are exactly the open ones among those that were registered    *)
(* (HubInv).  The count then follows by the cardinality of two sets.        *)
(***************************************************************************)
EXTENDS DeviceHub, FiniteSetTheorems, TLAPS

\* The map, as a set of ids and as a function into the connections.
Held == {i \in Id : devices[i] # NoConn}
Uncounted == {c \in Conn : conn[c].pc = "count"}

\* A connection that was not registered yet is not in the map, and one in the
\* map is there once and open.
Fresh == \A c \in Conn : conn[c].pc \in {"free", "first"} =>
           ~Registered(c) /\ ~conn[c].closed
Once == \A i, j \in Id : devices[i] = devices[j] /\ devices[i] # NoConn => i = j
MapOpen == \A i \in Id : devices[i] # NoConn => ~conn[devices[i]].closed
Served == {"count", "ack", "loop", "got", "remove", "lost"}
OpenFound == \A c \in Conn : conn[c].pc \in Served /\ ~conn[c].closed => Registered(c)

MapInv == Fresh /\ Once /\ MapOpen /\ OpenFound
HubInv == HubTypeOK /\ MapInv

-----------------------------------------------------------------------------
(* Types.                                                                    *)

LEMMA SetType ==
  ASSUME HubTypeOK, NEW c \in Conn, NEW new \in ConnRow, Set(c, new)
  PROVE  conn' \in [Conn -> ConnRow] /\ conn'[c] = new
         /\ \A k \in Conn \ {c} : conn'[k] = conn[k]
  BY DEF HubTypeOK, Set

LEMMA AddType ==
  ASSUME HubTypeOK, NEW c \in Conn, NEW i \in Id,
         NEW first \in {"init", "beat", "broken"}, Add(c, i, first)
  PROVE  /\ conn' \in [Conn -> ConnRow]
         /\ devices' \in [Id -> Conn \cup {NoConn}]
         /\ totalConnections' \in Int
  <1>1. [conn[c] EXCEPT !.pc = "count", !.id = i, !.first = first] \in ConnRow
    <2>1. PICK r \in ConnRow : r = conn[c] BY DEF HubTypeOK
    <2>2. "count" \in PC BY DEF PC
    <2>3. [r EXCEPT !.pc = "count", !.id = i, !.first = first] \in ConnRow BY <2>2 DEF ConnRow
    <2> QED BY <2>1, <2>3
  <1>2. ASSUME NEW k \in Conn
        PROVE  [conn[k] EXCEPT !.closed = TRUE] \in ConnRow /\ conn[k] \in ConnRow
    <2>1. PICK r \in ConnRow : r = conn[k] BY DEF HubTypeOK
    <2>2. [r EXCEPT !.closed = TRUE] \in ConnRow BY DEF ConnRow
    <2> QED BY <2>1, <2>2
  <1>3. conn' \in [Conn -> ConnRow] BY <1>1, <1>2 DEF Add
  <1>4. devices' = [devices EXCEPT ![i] = c] BY DEF Add
  <1>5. devices' \in [Id -> Conn \cup {NoConn}] BY <1>4 DEF HubTypeOK
  <1>6. totalConnections' \in {totalConnections, totalConnections - 1} BY DEF Add
  <1>7. totalConnections' \in Int BY <1>6 DEF HubTypeOK
  <1> QED BY <1>3, <1>5, <1>7

LEMMA AddEffect ==
  ASSUME HubTypeOK, NEW c \in Conn, NEW i \in Id,
         NEW first \in {"init", "beat", "broken"}, Add(c, i, first)
  PROVE  /\ devices'[i] = c /\ \A j \in Id \ {i} : devices'[j] = devices[j]
         /\ conn'[c].pc = "count" /\ conn'[c].closed = conn[c].closed
         /\ \A k \in Conn \ {c} : /\ conn'[k].pc = conn[k].pc
                                  /\ conn'[k].id = conn[k].id
                                  /\ conn'[k].closed = (conn[k].closed \/ k = devices[i])
  <1>1. devices'[i] = c /\ \A j \in Id \ {i} : devices'[j] = devices[j]
    BY DEF HubTypeOK, Add
  <1>2. conn'[c] = [conn[c] EXCEPT !.pc = "count", !.id = i, !.first = first]
    BY DEF Add
  <1>3. conn'[c].pc = "count" /\ conn'[c].closed = conn[c].closed
    BY <1>2 DEF HubTypeOK, ConnRow
  <1>4. ASSUME NEW k \in Conn \ {c}
        PROVE  /\ conn'[k].pc = conn[k].pc /\ conn'[k].id = conn[k].id
               /\ conn'[k].closed = (conn[k].closed \/ k = devices[i])
    <2>1. conn'[k] = IF k = devices[i] THEN [conn[k] EXCEPT !.closed = TRUE] ELSE conn[k]
      BY <1>4 DEF Add
    <2>2. conn[k] \in ConnRow BY DEF HubTypeOK
    <2>3. CASE k = devices[i] BY <2>1, <2>2, <2>3 DEF ConnRow
    <2>4. CASE k # devices[i] BY <2>1, <2>2, <2>4 DEF ConnRow
    <2> QED BY <2>3, <2>4
  <1> QED BY <1>1, <1>3, <1>4

LEMMA RemoveType ==
  ASSUME HubTypeOK, NEW i \in Id, NEW next \in [Conn -> ConnRow], Remove(i, next)
  PROVE  /\ conn' \in [Conn -> ConnRow]
         /\ devices' \in [Id -> Conn \cup {NoConn}]
         /\ totalConnections' \in Int
  <1>1. \A k \in Conn : [next[k] EXCEPT !.closed = TRUE] \in ConnRow /\ next[k] \in ConnRow
    BY DEF ConnRow
  <1> QED BY <1>1 DEF HubTypeOK, Remove

LEMMA RemoveEffect ==
  ASSUME HubTypeOK, NEW i \in Id, NEW next \in [Conn -> ConnRow], Remove(i, next)
  PROVE  /\ devices'[i] = NoConn /\ \A j \in Id \ {i} : devices'[j] = devices[j]
         /\ \A k \in Conn : /\ conn'[k].pc = next[k].pc /\ conn'[k].id = next[k].id
                            /\ conn'[k].closed = (next[k].closed \/ k = devices[i])
  <1>1. devices'[i] = NoConn /\ \A j \in Id \ {i} : devices'[j] = devices[j]
    BY DEF HubTypeOK, Remove
  <1>2. ASSUME NEW k \in Conn
        PROVE  /\ conn'[k].pc = next[k].pc /\ conn'[k].id = next[k].id
               /\ conn'[k].closed = (next[k].closed \/ k = devices[i])
    <2>1. conn'[k] = IF k = devices[i] THEN [next[k] EXCEPT !.closed = TRUE] ELSE next[k]
      BY DEF Remove
    <2>2. next[k] \in ConnRow OBVIOUS
    <2>3. CASE k = devices[i] BY <2>1, <2>2, <2>3 DEF ConnRow
    <2>4. CASE k # devices[i] BY <2>1, <2>2, <2>4 DEF ConnRow
    <2> QED BY <2>3, <2>4
  <1> QED BY <1>1, <1>2

LEMMA EndType ==
  ASSUME HubTypeOK, NEW c \in Conn
  PROVE  [conn EXCEPT ![c].pc = "done"] \in [Conn -> ConnRow]
  BY DEF HubTypeOK, ConnRow, PC

LEMMA UpsetType ==
  ASSUME HubTypeOK, Upset \/ UNCHANGED upsets
  PROVE  upsets' \in 0 .. MaxUpset
  BY HubAssumption DEF HubTypeOK, Upset

\* The steps that leave the map alone keep the closed flag of a connection,
\* neither begin nor end its registration, and end it only before it began.
Kept ==
  /\ UNCHANGED devices
  /\ \A k \in Conn :
       /\ conn'[k].closed = conn[k].closed
       /\ conn'[k].pc \in {"free", "first"} => conn[k].pc \in {"free", "first"}
       /\ conn'[k].pc \in Served => conn[k].pc \in Served
       /\ conn'[k].pc = "done" => /\ conn[k].pc \in {"first", "done"}
                                  /\ conn'[k].id = conn[k].id

\* Nothing is counted.
Still == /\ UNCHANGED totalConnections
         /\ \A k \in Conn : conn'[k].pc = "count" <=> conn[k].pc = "count"

LEMMA SetKept ==
  ASSUME HubTypeOK, NEW c \in Conn, NEW new \in ConnRow, Set(c, new), UNCHANGED devices,
         new.closed = conn[c].closed,
         new.pc \in {"free", "first"} => conn[c].pc \in {"free", "first"},
         new.pc \in Served => conn[c].pc \in Served,
         new.pc = "done" => conn[c].pc \in {"first", "done"} /\ new.id = conn[c].id
  PROVE  Kept /\ conn' \in [Conn -> ConnRow]
  BY SetType DEF Kept

LEMMA SetStill ==
  ASSUME HubTypeOK, NEW c \in Conn, NEW new \in ConnRow, Set(c, new), UNCHANGED hubVars,
         new.pc = "count" <=> conn[c].pc = "count"
  PROVE  Still
  BY SetType DEF Still, hubVars

LEMMA KeptMap ==
  ASSUME HubTypeOK, MapInv, Kept
  PROVE  MapInv'
  <1> USE DEF Kept, Registered
  <1>1. Fresh' BY DEF MapInv, Fresh
  <1>2. Once' BY DEF MapInv, Once
  <1>3. MapOpen' BY DEF MapInv, MapOpen, HubTypeOK
  <1>4. OpenFound' BY DEF MapInv, OpenFound
  <1> QED BY <1>1, <1>2, <1>3, <1>4 DEF MapInv

LEMMA AddMap ==
  ASSUME HubTypeOK, MapInv, NEW c \in Conn, NEW i \in Id,
         NEW first \in {"init", "beat", "broken"}, conn[c].pc = "first", Add(c, i, first)
  PROVE  MapInv'
  <1> DEFINE old == devices[i]
  <1>1. /\ devices'[i] = c /\ \A j \in Id \ {i} : devices'[j] = devices[j]
        /\ c # NoConn
    BY AddEffect, HubAssumption
  <1>2. conn'[c].pc = "count" /\ conn'[c].closed = conn[c].closed
    BY AddEffect
  <1>3. \A k \in Conn \ {c} : /\ conn'[k].pc = conn[k].pc
                              /\ conn'[k].closed = (conn[k].closed \/ k = old)
    BY AddEffect
  <1>4. ~Registered(c) /\ ~conn[c].closed BY DEF MapInv, Fresh
  <1>5. \A k \in Conn : k # c /\ Registered(k)' => Registered(k) BY <1>1 DEF Registered
  <1>6. \A k \in Conn : k # old /\ Registered(k) => Registered(k)' BY <1>1, <1>4 DEF Registered
  <1>7. \A j \in Id \ {i} : devices[j] = old => devices[j] = NoConn
    BY DEF MapInv, Once
  <1>8. \A j \in Id : devices[j] \in Conn \cup {NoConn} BY DEF HubTypeOK
  <1> HIDE DEF old
  <1>9. Fresh'
    BY <1>2, <1>3, <1>5, <1>8 DEF MapInv, Fresh, Registered, old
  <1>10. Once' BY <1>1, <1>4 DEF MapInv, Once, Registered
  <1>11. MapOpen'
    <2> SUFFICES ASSUME NEW j \in Id, devices'[j] # NoConn PROVE ~conn'[devices'[j]].closed
      BY DEF MapOpen
    <2>1. CASE j = i BY <2>1, <1>1, <1>2, <1>4
    <2>2. CASE j # i
      <3>1. devices'[j] = devices[j] /\ devices[j] \in Conn BY <2>2, <1>1, <1>8
      <3>2. devices[j] # c /\ devices[j] # old
        BY <2>2, <3>1, <1>4, <1>7, HubAssumption DEF Registered
      <3> QED BY <3>1, <3>2, <1>3 DEF MapInv, MapOpen
    <2> QED BY <2>1, <2>2
  <1>12. OpenFound'
    <2> SUFFICES ASSUME NEW k \in Conn, conn'[k].pc \in Served, ~conn'[k].closed
                 PROVE  Registered(k)'
      BY DEF OpenFound
    <2>1. CASE k = c BY <2>1, <1>1 DEF Registered
    <2>2. CASE k # c BY <2>2, <1>3, <1>6 DEF MapInv, OpenFound
    <2> QED BY <2>1, <2>2
  <1> QED BY <1>9, <1>10, <1>11, <1>12 DEF MapInv

LEMMA RemoveMap ==
  ASSUME HubTypeOK, MapInv, NEW i \in Id, NEW next \in [Conn -> ConnRow], Remove(i, next),
         \A k \in Conn : /\ next[k].closed = conn[k].closed
                         /\ next[k].pc = conn[k].pc \/ next[k].pc = "done"
  PROVE  MapInv'
  <1> DEFINE old == devices[i]
  <1>1. devices'[i] = NoConn /\ \A j \in Id \ {i} : devices'[j] = devices[j]
    BY RemoveEffect
  <1>2. \A k \in Conn : /\ conn'[k].pc = conn[k].pc \/ conn'[k].pc = "done"
                        /\ conn'[k].closed = (conn[k].closed \/ k = old)
    BY RemoveEffect
  <1>3. \A k \in Conn : Registered(k)' => Registered(k) /\ k # old
    <2> SUFFICES ASSUME NEW k \in Conn, NEW j \in Id, devices'[j] = k
                 PROVE  Registered(k) /\ k # old
      BY DEF Registered
    <2>1. k # NoConn BY HubAssumption
    <2>2. j # i /\ devices[j] = k BY <2>1, <1>1
    <2> QED BY <2>1, <2>2 DEF Registered, MapInv, Once
  <1>4. \A k \in Conn : k # old /\ Registered(k) => Registered(k)' BY <1>1 DEF Registered
  <1>5. \A j \in Id : devices[j] \in Conn \cup {NoConn} BY DEF HubTypeOK
  <1>6. \A k \in Conn : k = old => Registered(k) BY DEF Registered
  <1> HIDE DEF old
  <1>7. Fresh' BY <1>2, <1>3, <1>6 DEF MapInv, Fresh
  <1>8. Once' BY <1>1 DEF MapInv, Once
  <1>9. MapOpen'
    <2> SUFFICES ASSUME NEW j \in Id, devices'[j] # NoConn PROVE ~conn'[devices'[j]].closed
      BY DEF MapOpen
    <2>1. j # i /\ devices'[j] = devices[j] /\ devices[j] \in Conn BY <1>1, <1>5
    <2>2. devices[j] # old BY <2>1, <1>3 DEF Registered
    <2> QED BY <2>1, <2>2, <1>2 DEF MapInv, MapOpen
  <1>10. OpenFound'
    BY <1>2, <1>4 DEF MapInv, OpenFound, Served
  <1> QED BY <1>7, <1>8, <1>9, <1>10 DEF MapInv

-----------------------------------------------------------------------------
(* Every step is an addition, a removal, a new dial, or leaves the map alone. *)

RestT == /\ sweep' \in [left : SUBSET Id, toRemove : SUBSET Conn]
         /\ upsets' \in 0 .. MaxUpset

\* What a step does to the map, the count apart.
Adds == \E c \in Conn, i \in Id, first \in {"init", "beat", "broken"} :
          conn[c].pc = "first" /\ Add(c, i, first)
Removes == \E i \in Id, next \in [Conn -> ConnRow] :
             /\ Remove(i, next)
             /\ \A k \in Conn : /\ next[k].closed = conn[k].closed
                                /\ next[k].id = conn[k].id
                                /\ \/ next[k].pc = conn[k].pc
                                   \/ next[k].pc = "done" /\ i = conn[k].id
                                      /\ conn[k].pc \in {"ack", "remove"}
Dials == \E c \in Conn, p \in Dev : Dial(c, p)

LEMMA HandlerSteps ==
  ASSUME HubTypeOK, NEW c \in Conn, Handler(c)
  PROVE  /\ RestT /\ conn' \in [Conn -> ConnRow]
         /\ Adds \/ Removes \/ (Kept /\ (Still \/ Counted(c)))
  <1> USE DEF hubVars
  <1>1. conn[c] \in ConnRow /\ HubTypeOK BY DEF HubTypeOK
  <1>2. RestT /\ (Adds \/ Removes => conn' \in [Conn -> ConnRow])
    <2>1. UNCHANGED sweep /\ (Upset \/ UNCHANGED upsets)
      BY DEF Handler, RefuseFirst, Register, Counted, AckSent, AckFailed, Read,
             HandleOther, HandleInit, ReadFails, Teardown
    <2>2. sweep' \in [left : SUBSET Id, toRemove : SUBSET Conn]
      BY <2>1 DEF HubTypeOK
    <2>3. upsets' \in 0 .. MaxUpset BY <2>1, UpsetType
    <2>4. Adds => conn' \in [Conn -> ConnRow] BY AddType DEF Adds
    <2>5. Removes => conn' \in [Conn -> ConnRow] BY RemoveType DEF Removes
    <2> QED BY <2>2, <2>3, <2>4, <2>5 DEF RestT
  <1>3. CASE RefuseFirst(c)
    <2> DEFINE new == [conn[c] EXCEPT !.pc = "done", !.link = "fin"]
    <2>1. Set(c, new) /\ UNCHANGED hubVars /\ conn[c].pc = "first" BY <1>3 DEF RefuseFirst
    <2>2. new \in ConnRow /\ new.closed = conn[c].closed /\ new.pc = "done"
         /\ new.id = conn[c].id
      BY <1>1 DEF ConnRow, PC
    <2> HIDE DEF new
    <2> QED BY <2>1, <2>2, <1>2, SetKept, SetStill DEF Served
  <1>4. CASE Register(c)
    <2>1. conn[c].phone \in Id /\ Zero \in Id /\ conn[c].pc = "first"
      BY <1>1, <1>4 DEF ConnRow, Id, Register
    <2> QED BY <1>2, <1>4, <2>1 DEF Register, Adds
  <1>5. CASE Counted(c)
    <2> DEFINE new == [conn[c] EXCEPT !.pc = IF conn[c].first = "broken" THEN "lost" ELSE "ack"]
    <2>1. Set(c, new) /\ UNCHANGED devices /\ conn[c].pc = "count" BY <1>5 DEF Counted
    <2>2. new \in ConnRow /\ new.closed = conn[c].closed /\ new.pc \in {"lost", "ack"}
      BY <1>1 DEF ConnRow, PC
    <2> HIDE DEF new
    <2> QED BY <1>2, <1>5, <2>1, <2>2, SetKept DEF Served
  <1>6. CASE AckSent(c)
    <2> DEFINE new == [conn[c] EXCEPT !.pc = "loop", !.first = "none"]
    <2>1. Set(c, new) /\ UNCHANGED hubVars /\ conn[c].pc = "ack" BY <1>6 DEF AckSent
    <2>2. new \in ConnRow /\ new.closed = conn[c].closed /\ new.pc = "loop"
      BY <1>1 DEF ConnRow, PC
    <2> HIDE DEF new
    <2> QED BY <2>1, <2>2, <1>2, SetKept, SetStill DEF Served
  <1>11. CASE HandleOther(c)
    <2> DEFINE new == [conn[c] EXCEPT !.pc = "loop"]
    <2>1. Set(c, new) /\ UNCHANGED hubVars /\ conn[c].pc = "got" BY <1>11 DEF HandleOther
    <2>2. new \in ConnRow /\ new.closed = conn[c].closed /\ new.pc = "loop"
      BY <1>1 DEF ConnRow, PC
    <2> HIDE DEF new
    <2> QED BY <2>1, <2>2, <1>2, SetKept, SetStill DEF Served
  <1>7. CASE AckFailed(c) \/ Teardown(c)
    <2> DEFINE next == [conn EXCEPT ![c].pc = "done"]
    <2>1. Remove(conn[c].id, next) /\ conn[c].pc \in {"ack", "remove"} /\ conn[c].id \in Id
      BY <1>1, <1>7 DEF AckFailed, Teardown, ConnRow
    <2>2. next \in [Conn -> ConnRow] BY EndType
    <2>3. \A k \in Conn : /\ next[k].closed = conn[k].closed
                          /\ next[k].id = conn[k].id
                          /\ \/ next[k].pc = conn[k].pc
                             \/ next[k].pc = "done" /\ k = c
      BY DEF HubTypeOK, ConnRow
    <2> HIDE DEF next
    <2>4. Removes BY <2>1, <2>2, <2>3 DEF Removes
    <2> QED BY <2>4, <1>2
  <1>8. CASE Read(c)
    <2> DEFINE new == [conn[c] EXCEPT !.pc = "got", !.old = FALSE]
    <2>1. Set(c, new) /\ UNCHANGED hubVars /\ conn[c].pc = "loop" BY <1>8 DEF Read
    <2>2. new \in ConnRow /\ new.closed = conn[c].closed /\ new.pc = "got"
      BY <1>1 DEF ConnRow, PC
    <2> HIDE DEF new
    <2> QED BY <2>1, <2>2, <1>2, SetKept, SetStill DEF Served
  <1>9. ASSUME NEW d \in Dev, HandleInit(c, d)
        PROVE  Kept /\ Still /\ conn' \in [Conn -> ConnRow]
    <2> DEFINE new == [conn[c] EXCEPT !.pc = "loop", !.id = d]
    <2>1. Set(c, new) /\ UNCHANGED hubVars /\ conn[c].pc = "got" BY <1>9 DEF HandleInit
    <2>2. new \in ConnRow /\ new.closed = conn[c].closed /\ new.pc = "loop"
      BY <1>1 DEF ConnRow, PC, Id
    <2> HIDE DEF new
    <2> QED BY <2>1, <2>2, SetKept, SetStill DEF Served
  <1>10. CASE ReadFails(c)
    <2> DEFINE new == [conn[c] EXCEPT !.pc = "remove"]
    <2>1. Set(c, new) /\ UNCHANGED hubVars /\ conn[c].pc = "loop" BY <1>10 DEF ReadFails
    <2>2. new \in ConnRow /\ new.closed = conn[c].closed /\ new.pc = "remove"
      BY <1>1 DEF ConnRow, PC
    <2> HIDE DEF new
    <2> QED BY <2>1, <2>2, <1>2, SetKept, SetStill DEF Served
  <1> QED BY <1>2, <1>3, <1>4, <1>5, <1>6, <1>11, <1>7, <1>8, <1>9, <1>10 DEF Handler

LEMMA Steps ==
  ASSUME HubTypeOK, [Next]_vars
  PROVE  /\ RestT /\ conn' \in [Conn -> ConnRow]
         /\ Adds \/ Removes \/ Dials \/ (Kept /\ (Still \/ \E c \in Conn : Counted(c)))
  <1> USE DEF hubVars
  <1>1. ASSUME NEW c \in Conn, Handler(c)
        PROVE  /\ RestT /\ conn' \in [Conn -> ConnRow]
               /\ Adds \/ Removes \/ (Kept /\ (Still \/ \E k \in Conn : Counted(k)))
    BY <1>1, HandlerSteps
  <1>2. ASSUME NEW c \in Conn, GrowOld(c) \/ FallSilent(c)
        PROVE  RestT /\ conn' \in [Conn -> ConnRow] /\ Kept /\ Still
    <2> DEFINE new == [conn[c] EXCEPT !.old = TRUE]
    <2>1. /\ Set(c, new) /\ UNCHANGED <<hubVars, sweep>>
          /\ Upset \/ UNCHANGED upsets
      BY <1>2 DEF GrowOld, FallSilent
    <2>2. /\ new \in ConnRow /\ new.closed = conn[c].closed /\ new.pc = conn[c].pc
          /\ new.id = conn[c].id
      BY DEF HubTypeOK, ConnRow
    <2>3. RestT BY <2>1, UpsetType DEF HubTypeOK, RestT
    <2> HIDE DEF new
    <2> QED BY <2>1, <2>2, <2>3, SetKept, SetStill
  <1>3. ASSUME NEW c \in Conn, NEW how \in {"cut", "fin"}, Break(c, how)
        PROVE  RestT /\ conn' \in [Conn -> ConnRow] /\ Kept /\ Still
    <2> DEFINE new == [conn[c] EXCEPT !.link = how]
    <2>1. /\ Set(c, new) /\ UNCHANGED <<hubVars, sweep>>
          /\ Upset \/ UNCHANGED upsets
      BY <1>3 DEF Break
    <2>2. /\ new \in ConnRow /\ new.closed = conn[c].closed /\ new.pc = conn[c].pc
          /\ new.id = conn[c].id
      BY DEF HubTypeOK, ConnRow
    <2>3. RestT BY <2>1, UpsetType DEF HubTypeOK, RestT
    <2> HIDE DEF new
    <2> QED BY <2>1, <2>2, <2>3, SetKept, SetStill
  <1>4. ASSUME NEW c \in Conn, NEW p \in Dev, Dial(c, p)
        PROVE  RestT /\ conn' \in [Conn -> ConnRow] /\ Dials
    <2> DEFINE new == [Free EXCEPT !.pc = "first", !.phone = p, !.link = "up"]
    <2>1. Set(c, new) /\ UNCHANGED <<hubVars, sweep, upsets>> BY <1>4 DEF Dial
    <2>2. new \in ConnRow BY DEF Free, ConnRow, PC, Id
    <2>3. RestT BY <2>1, UpsetType DEF HubTypeOK, RestT
    <2>4. Dials BY <1>4 DEF Dials
    <2> HIDE DEF new
    <2> QED BY <2>1, <2>2, <2>3, <2>4, SetType
  <1>5. ASSUME UNCHANGED conn, UNCHANGED hubVars PROVE Kept /\ Still
    BY <1>5 DEF Kept, Still
  <1>6. ASSUME BeginSweep \/ \E i \in Id : LookShard(i)
        PROVE  RestT /\ conn' \in [Conn -> ConnRow] /\ Kept /\ Still
    <2>1. UNCHANGED <<conn, hubVars, upsets>> BY <1>6 DEF BeginSweep, LookShard
    <2>2. sweep' \in [left : SUBSET Id, toRemove : SUBSET Conn]
      BY <1>6 DEF BeginSweep, LookShard, HubTypeOK
    <2>3. conn' \in [Conn -> ConnRow] /\ RestT
      BY <2>1, <2>2, UpsetType DEF HubTypeOK, RestT
    <2> QED BY <2>1, <2>3, <1>5
  <1>7. \A k \in Conn : conn[k].id \in Id /\ conn \in [Conn -> ConnRow]
    BY DEF HubTypeOK, ConnRow
  <1>8. ASSUME NEW c \in Conn, Expire(c)
        PROVE  RestT /\ conn' \in [Conn -> ConnRow] /\ Removes
    <2>1. Remove(conn[c].id, conn) /\ UNCHANGED upsets BY <1>8 DEF Expire
    <2>2. sweep' \in [left : SUBSET Id, toRemove : SUBSET Conn]
      BY <1>8 DEF Expire, HubTypeOK
    <2>3. Removes BY <2>1, <1>7 DEF Removes
    <2> QED BY <2>1, <2>2, <2>3, <1>7, RemoveType, UpsetType DEF RestT
  <1>9. ASSUME NEW i \in Id, Disconnect(i)
        PROVE  RestT /\ conn' \in [Conn -> ConnRow] /\ Removes
    <2>1. Remove(i, conn) /\ Upset /\ UNCHANGED sweep BY <1>9 DEF Disconnect
    <2>2. Removes BY <2>1, HubTypeOK DEF Removes, HubTypeOK
    <2>3. RestT BY <2>1, UpsetType DEF RestT, HubTypeOK
    <2>4. conn' \in [Conn -> ConnRow] BY <2>1, <1>9, RemoveType DEF HubTypeOK
    <2> QED BY <2>2, <2>3, <2>4
  <1>10. ASSUME UNCHANGED vars
         PROVE  RestT /\ conn' \in [Conn -> ConnRow] /\ Kept /\ Still
    BY <1>5, <1>10 DEF vars, RestT, HubTypeOK
  <1> QED
    BY <1>1, <1>2, <1>3, <1>4, <1>6, <1>8, <1>9, <1>10 DEF Next, Sweep

LEMMA HubInit == Init => HubInv
  <1> SUFFICES ASSUME Init PROVE HubInv OBVIOUS
  <1> USE DEF Init
  <1>1. Free \in ConnRow BY DEF Free, ConnRow, PC, Id
  <1>2. HubTypeOK BY <1>1, HubAssumption DEF HubTypeOK
  <1>3. \A c \in Conn : conn[c].pc = "free" /\ ~conn[c].closed BY DEF Free
  <1>4. \A c \in Conn : ~Registered(c) BY HubAssumption DEF Registered
  <1>5. MapInv
    BY <1>3, <1>4 DEF MapInv, Fresh, Once, MapOpen, OpenFound, Served
  <1> QED BY <1>2, <1>5 DEF HubInv

LEMMA DialMap ==
  ASSUME HubTypeOK, MapInv, Dials
  PROVE  MapInv'
  <1> PICK c \in Conn, p \in Dev : Dial(c, p) BY DEF Dials
  <1> DEFINE new == [Free EXCEPT !.pc = "first", !.phone = p, !.link = "up"]
  <1>1. new \in ConnRow /\ new.pc = "first" /\ ~new.closed BY DEF Free, ConnRow, PC, Id
  <1>2. Set(c, new) /\ UNCHANGED devices /\ ~Registered(c) BY DEF Dial, Unused, hubVars
  <1> HIDE DEF new
  <1>3. conn'[c] = new /\ \A k \in Conn \ {c} : conn'[k] = conn[k] BY <1>1, <1>2, SetType
  <1>4. \A k \in Conn : Registered(k)' = Registered(k) BY <1>2 DEF Registered
  <1>5. Fresh' BY <1>1, <1>2, <1>3, <1>4 DEF MapInv, Fresh
  <1>6. Once' BY <1>2 DEF MapInv, Once
  <1>7. MapOpen' BY <1>1, <1>2, <1>3 DEF MapInv, MapOpen, HubTypeOK
  <1>8. OpenFound' BY <1>1, <1>2, <1>3, <1>4 DEF MapInv, OpenFound, Served
  <1> QED BY <1>5, <1>6, <1>7, <1>8 DEF MapInv

\* The types and the map are kept by every step.
LEMMA HubStep == HubInv /\ [Next]_vars => HubInv'
  <1> SUFFICES ASSUME HubTypeOK, MapInv, [Next]_vars PROVE HubTypeOK' /\ MapInv'
    BY DEF HubInv
  <1>1. /\ RestT /\ conn' \in [Conn -> ConnRow]
        /\ Adds \/ Removes \/ Dials \/ (Kept /\ (Still \/ \E c \in Conn : Counted(c)))
    BY Steps
  <1>2. CASE Adds
    <2> PICK c \in Conn, i \in Id, first \in {"init", "beat", "broken"} :
             conn[c].pc = "first" /\ Add(c, i, first)
      BY <1>2 DEF Adds
    <2> QED BY <1>1, AddType, AddMap DEF HubTypeOK, RestT
  <1>3. CASE Removes
    <2> PICK i \in Id, next \in [Conn -> ConnRow] :
          /\ Remove(i, next)
          /\ \A k \in Conn : /\ next[k].closed = conn[k].closed
                             /\ next[k].pc = conn[k].pc \/ next[k].pc = "done"
      BY <1>3 DEF Removes
    <2> QED BY <1>1, RemoveType, RemoveMap DEF HubTypeOK, RestT
  <1>4. CASE Dials
    <2>1. UNCHANGED hubVars BY <1>4 DEF Dials, Dial
    <2> QED BY <1>1, <1>4, <2>1, DialMap DEF HubTypeOK, RestT, hubVars
  <1>5. CASE Kept /\ Still
    BY <1>1, <1>5, KeptMap DEF HubTypeOK, RestT, Kept, Still
  <1>6. ASSUME NEW c \in Conn, Kept, Counted(c) PROVE HubTypeOK' /\ MapInv'
    BY <1>1, <1>6, KeptMap DEF HubTypeOK, RestT, Kept, Counted
  <1> QED BY <1>1, <1>2, <1>3, <1>4, <1>5, <1>6

LEMMA HubInvariant == Spec => []HubInv
  BY HubInit, HubStep, PTL DEF Spec

-----------------------------------------------------------------------------
(* The theorems.                                                             *)

\* The types of every variable: connections, map, count and cleanup (manager.go,
\* connection.go, server.go).
THEOREM HubTypes == Spec => []HubTypeOK
  <1>1. HubInv => HubTypeOK BY DEF HubInv
  <1> QED BY <1>1, HubInvariant, PTL

\* A registered connection is open exactly as long as the map has it, under one
\* id: Add and Remove close under the lock what they take out of the map.
THEOREM OpenRegistered == Spec => []OpenIsRegistered
  <1>1. ASSUME HubInv PROVE OpenIsRegistered
    <2> SUFFICES ASSUME NEW c \in Conn, conn[c].pc \in Served
                 PROVE  /\ ~conn[c].closed <=> Registered(c)
                        /\ \A i, j \in Id : devices[i] = c /\ devices[j] = c => i = j
      BY DEF OpenIsRegistered, Served
    <2>1. ~conn[c].closed => Registered(c) BY <1>1 DEF HubInv, MapInv, OpenFound
    <2>2. c # NoConn BY HubAssumption
    <2>3. Registered(c) => ~conn[c].closed
      BY <1>1, <2>2 DEF HubInv, MapInv, MapOpen, Registered
    <2>4. \A i, j \in Id : devices[i] = c /\ devices[j] = c => i = j
      BY <1>1, <2>2 DEF HubInv, MapInv, Once
    <2> QED BY <2>1, <2>3, <2>4
  <1> QED BY <1>1, HubInvariant, PTL

LEMMA GhostStep ==
  ASSUME HubInv, NoGhost, [Next]_vars
  PROVE  NoGhost'
  <1> SUFFICES ASSUME NEW j \in Id, NEW k \in Conn, devices'[j] = k, conn'[k].pc = "done"
               PROVE  conn'[k].id # j
    BY DEF NoGhost
  <1>1. HubTypeOK /\ MapInv /\ k # NoConn BY HubAssumption DEF HubInv
  <1>2. Adds \/ Removes \/ Dials \/ (Kept /\ (Still \/ \E c \in Conn : Counted(c)))
    BY <1>1, Steps
  <1>3. CASE Adds
    <2> PICK c \in Conn, i \in Id, first \in {"init", "beat", "broken"} : Add(c, i, first)
      BY <1>3 DEF Adds
    <2>1. k # c BY <1>1, AddEffect
    <2>2. conn'[k].pc = conn[k].pc /\ conn'[k].id = conn[k].id BY <1>1, <2>1, AddEffect
    <2>3. devices[j] = k BY <1>1, <2>1, AddEffect
    <2> QED BY <2>2, <2>3 DEF NoGhost
  <1>4. CASE Removes
    <2> PICK i \in Id, next \in [Conn -> ConnRow] :
          /\ Remove(i, next)
          /\ \A x \in Conn : /\ next[x].id = conn[x].id
                             /\ \/ next[x].pc = conn[x].pc
                                \/ next[x].pc = "done" /\ i = conn[x].id
      BY <1>4 DEF Removes
    <2>1. j # i /\ devices[j] = k BY <1>1, RemoveEffect
    <2>2. conn'[k].pc = next[k].pc /\ conn'[k].id = next[k].id BY <1>1, RemoveEffect
    <2> QED BY <2>1, <2>2 DEF NoGhost
  <1>5. CASE Dials
    <2> PICK c \in Conn, p \in Dev : Dial(c, p) BY <1>5 DEF Dials
    <2> DEFINE new == [Free EXCEPT !.pc = "first", !.phone = p, !.link = "up"]
    <2>1. new \in ConnRow /\ new.pc = "first" BY DEF Free, ConnRow, PC, Id
    <2>2. Set(c, new) /\ UNCHANGED devices BY DEF Dial, hubVars
    <2> HIDE DEF new
    <2>3. conn'[c] = new /\ \A x \in Conn \ {c} : conn'[x] = conn[x]
      BY <1>1, <2>1, <2>2, SetType
    <2> QED BY <2>1, <2>2, <2>3 DEF NoGhost
  <1>6. CASE Kept
    <2>1. devices[j] = k /\ conn[k].pc \in {"first", "done"} /\ conn'[k].id = conn[k].id
      BY <1>6 DEF Kept
    <2>2. conn[k].pc # "first" BY <1>1, <2>1 DEF MapInv, Fresh, Registered
    <2> QED BY <2>1, <2>2 DEF NoGhost
  <1> QED BY <1>2, <1>3, <1>4, <1>5, <1>6

\* The map keeps the connection of a handler that has returned only where a late
\* INIT has changed its DeviceID (server.go, handleConnection and handleInit).
THEOREM GhostsRenamed == Spec => []NoGhost
  <1>1. Init => NoGhost BY HubAssumption DEF Init, NoGhost
  <1>2. HubInv /\ NoGhost /\ [Next]_vars => NoGhost' BY GhostStep
  <1> QED BY <1>1, <1>2, HubInvariant, PTL DEF Spec

LEMMA HubFinite ==
  /\ \A S \in SUBSET Id : IsFiniteSet(S) /\ Cardinality(S) \in Int
  /\ \A S \in SUBSET Conn : IsFiniteSet(S) /\ Cardinality(S) \in Int
  <1>1. IsFiniteSet(Id) BY HubAssumption, FS_AddElement DEF Id
  <1>2. IsFiniteSet(Conn) BY HubAssumption
  <1>3. \A S \in SUBSET Id : IsFiniteSet(S) BY <1>1, FS_Subset
  <1>4. \A S \in SUBSET Conn : IsFiniteSet(S) BY <1>2, FS_Subset
  <1>5. \A n \in Nat : n \in Int OBVIOUS
  <1> QED BY <1>3, <1>4, <1>5, FS_CardinalityType

LEMMA CountStep ==
  ASSUME HubInv, CountExact, [Next]_vars
  PROVE  CountExact'
  <1>1. HubTypeOK /\ MapInv BY DEF HubInv
  <1>2. Adds \/ Removes \/ Dials \/ (Kept /\ (Still \/ \E c \in Conn : Counted(c)))
    BY <1>1, Steps
  <1>3. totalConnections = Cardinality(Held) - Cardinality(Uncounted)
    BY DEF CountExact, Held, Uncounted
  <1>4. /\ IsFiniteSet(Held) /\ Cardinality(Held) \in Int
        /\ IsFiniteSet(Uncounted) /\ Cardinality(Uncounted) \in Int
    BY HubFinite DEF Held, Uncounted
  <1>5. SUFFICES totalConnections' = Cardinality(Held') - Cardinality(Uncounted')
    BY DEF CountExact, Held, Uncounted
  <1>6. CASE Adds
    <2> PICK c \in Conn, i \in Id, first \in {"init", "beat", "broken"} :
             conn[c].pc = "first" /\ Add(c, i, first)
      BY <1>6 DEF Adds
    <2>1. c # NoConn BY HubAssumption
    <2>2. Held' = Held \cup {i} BY <1>1, <2>1, AddEffect DEF Held
    <2>3. Uncounted' = Uncounted \cup {c} /\ c \notin Uncounted
      BY <1>1, AddEffect DEF Uncounted
    <2>4. Cardinality(Uncounted') = Cardinality(Uncounted) + 1
      BY <1>4, <2>3, FS_AddElement
    <2>5. CASE devices[i] = NoConn
      <3>1. i \notin Held BY <2>5 DEF Held
      <3>2. Cardinality(Held') = Cardinality(Held) + 1 BY <1>4, <2>2, <3>1, FS_AddElement
      <3>3. totalConnections' = totalConnections BY <2>5 DEF Add
      <3> QED BY <1>3, <1>4, <2>4, <3>2, <3>3
    <2>6. CASE devices[i] # NoConn
      <3>1. Held' = Held BY <2>2, <2>6 DEF Held
      <3>2. totalConnections' = totalConnections - 1 BY <2>6 DEF Add
      <3>3. Cardinality(Held') = Cardinality(Held) BY <3>1
      <3> QED BY <1>3, <1>4, <2>4, <3>2, <3>3
    <2> QED BY <2>5, <2>6
  <1>7. CASE Removes
    <2> PICK i \in Id, next \in [Conn -> ConnRow] :
          /\ Remove(i, next)
          /\ \A x \in Conn : \/ next[x].pc = conn[x].pc
                             \/ next[x].pc = "done" /\ conn[x].pc \in {"ack", "remove"}
      BY <1>7 DEF Removes
    <2>1. Held' = Held \ {i} BY <1>1, RemoveEffect DEF Held
    <2>2. Uncounted' = Uncounted BY <1>1, RemoveEffect DEF Uncounted
    <2>3. Cardinality(Uncounted') = Cardinality(Uncounted) BY <2>2
    <2>4. CASE devices[i] = NoConn
      <3>1. Held' = Held BY <2>1, <2>4 DEF Held
      <3>2. Cardinality(Held') = Cardinality(Held) BY <3>1
      <3>3. totalConnections' = totalConnections BY <2>4 DEF Remove
      <3> QED BY <1>3, <1>4, <2>3, <3>2, <3>3
    <2>5. CASE devices[i] # NoConn
      <3>1. i \in Held BY <2>5 DEF Held
      <3>2. Cardinality(Held') = Cardinality(Held) - 1
        BY <1>4, <2>1, <3>1, FS_RemoveElement
      <3>3. totalConnections' = totalConnections - 1 BY <2>5 DEF Remove
      <3> QED BY <1>3, <1>4, <2>3, <3>2, <3>3
    <2> QED BY <2>4, <2>5
  <1>8. CASE Dials
    <2> PICK c \in Conn, p \in Dev : Dial(c, p) BY <1>8 DEF Dials
    <2> DEFINE new == [Free EXCEPT !.pc = "first", !.phone = p, !.link = "up"]
    <2>1. new \in ConnRow /\ new.pc = "first" BY DEF Free, ConnRow, PC, Id
    <2>2. Set(c, new) /\ UNCHANGED hubVars /\ conn[c].pc # "count"
      BY DEF Dial, Unused, Over
    <2> HIDE DEF new
    <2>3. conn'[c] = new /\ \A x \in Conn \ {c} : conn'[x] = conn[x]
      BY <1>1, <2>1, <2>2, SetType
    <2>4. Uncounted' = Uncounted BY <2>1, <2>2, <2>3 DEF Uncounted
    <2>5. Held' = Held /\ totalConnections' = totalConnections BY <2>2 DEF Held, hubVars
    <2>6. /\ Cardinality(Held') = Cardinality(Held)
          /\ Cardinality(Uncounted') = Cardinality(Uncounted)
      BY <2>4, <2>5
    <2> QED BY <1>3, <2>5, <2>6
  <1>9. CASE Kept /\ Still
    <2>1. Held' = Held /\ Uncounted' = Uncounted BY <1>9 DEF Kept, Still, Held, Uncounted
    <2>2. /\ Cardinality(Held') = Cardinality(Held)
          /\ Cardinality(Uncounted') = Cardinality(Uncounted)
      BY <2>1
    <2> QED BY <1>3, <1>9, <2>2 DEF Still
  <1>10. ASSUME NEW c \in Conn, Kept, Counted(c)
         PROVE  totalConnections' = Cardinality(Held') - Cardinality(Uncounted')
    <2> DEFINE new == [conn[c] EXCEPT !.pc = IF conn[c].first = "broken" THEN "lost" ELSE "ack"]
    <2>1. Set(c, new) /\ conn[c].pc = "count" /\ totalConnections' = totalConnections + 1
      BY <1>10 DEF Counted
    <2>2. new \in ConnRow /\ new.pc # "count" BY <1>1 DEF HubTypeOK, ConnRow, PC
    <2> HIDE DEF new
    <2>3. conn'[c] = new /\ \A x \in Conn \ {c} : conn'[x] = conn[x]
      BY <1>1, <2>1, <2>2, SetType
    <2>4. Uncounted' = Uncounted \ {c} /\ c \in Uncounted
      BY <2>1, <2>2, <2>3 DEF Uncounted
    <2>5. Cardinality(Uncounted') = Cardinality(Uncounted) - 1
      BY <1>4, <2>4, FS_RemoveElement
    <2>6. Held' = Held BY <1>10 DEF Kept, Held
    <2>7. Cardinality(Held') = Cardinality(Held) BY <2>6
    <2> QED BY <1>1, <1>3, <1>4, <2>1, <2>5, <2>7 DEF HubTypeOK
  <1> QED BY <1>2, <1>6, <1>7, <1>8, <1>9, <1>10

\* The count of manager.go is exact but for the connections whose Add has left
\* the lock and has not counted them yet: it never drifts.
THEOREM CountNeverDrifts == Spec => []CountExact
  <1>1. ASSUME Init PROVE CountExact
    <2>1. {i \in Id : devices[i] # NoConn} = {} /\ {c \in Conn : conn[c].pc = "count"} = {}
      BY <1>1 DEF Init, Free
    <2>2. Cardinality({i \in Id : devices[i] # NoConn}) = 0
          /\ Cardinality({c \in Conn : conn[c].pc = "count"}) = 0
      BY <2>1, FS_EmptySet
    <2> QED BY <1>1, <2>2 DEF CountExact, Init
  <1>2. HubInv /\ CountExact /\ [Next]_vars => CountExact' BY CountStep
  <1> QED BY <1>1, <1>2, HubInvariant, PTL DEF Spec
=============================================================================
