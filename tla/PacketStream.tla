---------------------------- MODULE PacketStream -----------------------------
(* How packets cross a connection (pkg/netclient): buffers taken from a pool  *)
(* and given back by reference count, cut into pieces under the connection's  *)
(* lock, queued first where the connection has a cache, and put together      *)
(* again by the reader.  Lengths are counted in units of which a length       *)
(* prefix takes Prefix and a piece holds at most Piece.                        *)
EXTENDS Integers, Sequences, FiniteSets

CONSTANTS
  Transports,  \* "channel" (webRTC.DataChannel), "stream" (TCP, StreamClient), "cached" (either with a queue)
  Senders,     \* goroutines that send
  Buffers,     \* packets there are
  Sizes,       \* lengths of messages
  Prefix, Piece,
  Largest,     \* the longest message a data channel sends and any reader takes
  Cache,       \* capacity of the queue (100)
  MaxMessages  \* bound: messages sent

Loop == "loop"

None == "none"

StreamAssumption ==
  /\ Senders \cap {Loop, None} = {}
  /\ Transports \subseteq {"channel", "stream", "cached"}
  /\ Sizes \subseteq Nat /\ {Prefix, Piece, Largest, Cache, MaxMessages} \subseteq Nat
  /\ 0 < Prefix /\ Prefix < Piece

VARIABLES
  transport,  \* fixed by the initial state
  pool,       \* of each packet: how many hold it, and the message written into it
  sender,     \* what each sender and the send loop are doing
  queue,      \* the send channel of a cached connection
  lock,       \* who has the connection's lock
  wire,       \* pieces on their way
  rx,         \* the frame being put together
  sent,       \* messages in the order in which they were queued or, with no queue, got the lock
  out,        \* messages handed to the callback
  made        \* messages made so far

vars == <<transport, pool, sender, queue, lock, wire, rx, sent, out, made>>

NoMessage == [id |-> 0, size |-> 0]

Idle == [pc |-> "idle", packet |-> None, at |-> 0]

NoFrame == [length |-> -1, received |-> 0, of |-> {}]

(* The reader of a stream gave up. *)
Ended == [NoFrame EXCEPT !.length = -2]

------------------------------------------------------------------------------
(* Packets *)

Ref(p, b) == [p EXCEPT ![b].refs = @ + 1]

Put(p, b) ==
  IF p[b].refs = 1 THEN [p EXCEPT ![b] = [refs |-> 0, msg |-> NoMessage]] ELSE [p EXCEPT ![b].refs = @ - 1]

(* Get and Write: a packet nobody holds gets the message. *)
WritePacket(s) ==
  /\ sender[s].pc = "idle" /\ made < MaxMessages
  /\ made' = made + 1
  /\ \E b \in Buffers, size \in Sizes :
       /\ pool[b].refs = 0
       /\ pool' = [pool EXCEPT ![b] = [refs |-> 1, msg |-> [id |-> made + 1, size |-> size]]]
       /\ sender' = [sender EXCEPT ![s] = [pc |-> "send", packet |-> b, at |-> 0]]
  /\ UNCHANGED <<transport, queue, lock, wire, rx, sent, out>>

Content(s) == pool[sender[s].packet].msg

(* Mutant: the queue holds the packet without a reference of its own. *)
QueuePacketNoRef(s) ==
  /\ transport = "cached" /\ sender[s].pc = "send" /\ Len(queue) < Cache
  /\ queue' = Append(queue, sender[s].packet)
  /\ sent' = Append(sent, Content(s))
  /\ sender' = [sender EXCEPT ![s].pc = "put"]
  /\ UNCHANGED <<transport, pool, lock, wire, rx, out, made>>

(* SendPacket of a cached connection: a full queue refuses the packet. *)
QueuePacket(s) ==
  /\ transport = "cached" /\ sender[s].pc = "send"
  /\ IF Len(queue) < Cache
     THEN /\ pool' = Ref(pool, sender[s].packet) /\ queue' = Append(queue, sender[s].packet)
          /\ sent' = Append(sent, Content(s))
     ELSE UNCHANGED <<pool, queue, sent>>
  /\ sender' = [sender EXCEPT ![s].pc = "put"]
  /\ UNCHANGED <<transport, lock, wire, rx, out, made>>

TakeFromQueue ==
  /\ sender[Loop].pc = "idle" /\ queue # <<>>
  /\ queue' = Tail(queue)
  /\ sender' = [sender EXCEPT ![Loop] = [pc |-> "send", packet |-> Head(queue), at |-> 0]]
  /\ UNCHANGED <<transport, pool, lock, wire, rx, sent, out, made>>

Direct(s) == s = Loop \/ transport # "cached"

PutPacket(s) ==
  /\ sender[s].pc = "put"
  /\ pool' = Put(pool, sender[s].packet)
  /\ sender' = [sender EXCEPT ![s] = Idle]
  /\ UNCHANGED <<transport, queue, lock, wire, rx, sent, out, made>>

------------------------------------------------------------------------------
(* Sending under the lock; a data channel refuses a message that is too long, a stream sends it. *)

Refused(s) == transport = "channel" /\ Content(s).size > Largest

TakeLock(s) ==
  /\ Direct(s) /\ sender[s].pc = "send" /\ ~Refused(s)
  /\ lock = None
  /\ lock' = s
  /\ sent' = IF s = Loop THEN sent ELSE Append(sent, Content(s))
  /\ sender' = [sender EXCEPT ![s].pc = "pieces"]
  /\ UNCHANGED <<transport, pool, queue, wire, rx, out, made>>

RefuseLarge(s) ==
  /\ Direct(s) /\ sender[s].pc = "send" /\ Refused(s)
  /\ sender' = [sender EXCEPT ![s].pc = "put"]
  /\ UNCHANGED <<transport, pool, queue, lock, wire, rx, sent, out, made>>

(* How much of the message the next piece takes: a data channel sends the length with the first
   piece, a stream by itself. *)
Room(s) ==
  IF sender[s].at > 0 THEN Piece
  ELSE IF transport = "channel" THEN Piece - Prefix ELSE 0

Least(a, b) == IF a < b THEN a ELSE b

SendPiece(s) ==
  /\ sender[s].pc = "pieces"
  /\ LET m == Content(s)
         done == IF sender[s].at = 0 THEN 0 ELSE sender[s].at - 1
         n == Least(Room(s), m.size - done)
     IN /\ wire' = Append(wire, [msg |-> m.id, length |-> IF sender[s].at = 0 THEN m.size ELSE -1, n |-> n])
        /\ IF done + n = m.size
           THEN lock' = None /\ sender' = [sender EXCEPT ![s].pc = "put"]
           ELSE UNCHANGED lock /\ sender' = [sender EXCEPT ![s].at = done + n + 1]
  /\ UNCHANGED <<transport, pool, queue, rx, sent, out, made>>

------------------------------------------------------------------------------
(* DataChannel.Do, ReadFromReader: a frame starts with its length and ends when that much came; too
   much, or a piece that carries no length where one is due, loses the frame, and a length that is
   too large makes the reader of a stream give up. *)
Receive ==
  /\ wire # <<>> /\ rx # Ended
  /\ wire' = Tail(wire)
  /\ LET p == Head(wire)
         f == IF rx.length = -1 THEN [length |-> p.length, received |-> p.n, of |-> {p.msg}]
              ELSE [rx EXCEPT !.received = @ + p.n, !.of = @ \cup {p.msg}]
     IN IF f.length > Largest THEN UNCHANGED out /\ rx' = Ended
        ELSE IF f.received = f.length
        THEN out' = Append(out, [of |-> f.of, size |-> f.length]) /\ rx' = NoFrame
        ELSE UNCHANGED out /\ rx' = IF f.received > f.length THEN NoFrame ELSE f
  /\ UNCHANGED <<transport, pool, sender, queue, lock, sent, made>>

------------------------------------------------------------------------------
Init ==
  /\ transport \in Transports
  /\ pool = [b \in Buffers |-> [refs |-> 0, msg |-> NoMessage]]
  /\ sender = [s \in Senders \cup {Loop} |-> Idle]
  /\ queue = <<>> /\ lock = None /\ wire = <<>> /\ rx = NoFrame
  /\ sent = <<>> /\ out = <<>> /\ made = 0

Next ==
  \/ \E s \in Senders : WritePacket(s) \/ QueuePacket(s)
  \/ \E s \in Senders \cup {Loop} : TakeLock(s) \/ RefuseLarge(s) \/ SendPiece(s) \/ PutPacket(s)
  \/ TakeFromQueue \/ Receive

Spec == Init /\ [][Next]_vars

------------------------------------------------------------------------------
(* A packet is held by its sender and by the queue or the send loop: nobody else. *)
TypeOK ==
  /\ \A b \in Buffers : pool[b].refs \in 0..2
  /\ lock \in Senders \cup {Loop, None}
  /\ Len(queue) <= Cache

(* However sends run together and packets are reused, the reader is handed the messages that were
   sent, whole, unmixed, in the order in which they were sent and with no gap: a message that is too
   long is not sent on a data channel, and a stream ends at the first. *)
FramesWhole ==
  /\ Len(out) <= Len(sent)
  /\ \A i \in 1..Len(out) :
       out[i] = [of |-> {sent[i].id}, size |-> sent[i].size] /\ sent[i].size <= Largest
==============================================================================
