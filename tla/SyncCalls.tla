------------------------------ MODULE SyncCalls ------------------------------
(* The commands a middleware agent sends over its WebRTC link and waits for  *)
(* (middleAgentRtc: syncCall and its wrappers, onData, the events).  A        *)
(* caller sends, then enters its sequence number in the map Wait with a       *)
(* channel that holds nothing, and selects between that channel and a timer;  *)
(* the goroutine that reads the link looks a message's number up and offers   *)
(* the message to the channel it finds, if anyone is receiving.               *)
EXTENDS Integers, Sequences, FiniteSets

CONSTANTS
  Callers,    \* goroutines that issue commands
  Devices,    \* devices the platform lists under this middleware
  Consoles,   \* WebSocket clients of the agent
  MaxSeq,     \* bound: sequence numbers given out
  MaxDrops,   \* bound: times the link is lost
  MaxEvents,  \* bound: messages the middleware sends unasked
  MaxInbox    \* bound: messages in the link

SyncAssumption == {MaxSeq, MaxDrops, MaxEvents, MaxInbox} \subseteq Nat /\ 0 \notin Devices

VARIABLES
  up,       \* RtcClient.online
  drops,    \* times the link was lost
  seq,      \* TypeInfo.Seq
  wait,     \* keys of TypeInfo.Wait
  chan,     \* the channel made for a number: "none", "open" or "closed"
  call,     \* where each caller stands
  asked,    \* requests the middleware has received and not answered
  inbox,    \* messages on their way back, in order
  events,   \* messages sent unasked
  reader,   \* the goroutine in onData
  online,   \* devices whose DeviceStatus says Business
  clients,  \* TypeInfo.WsClients
  crashed   \* the process has panicked

vars == <<up, drops, seq, wait, chan, call, asked, inbox, events, reader, online, clients,
          crashed>>

(* 0 stands for the middleware itself. *)
Targets == Devices \cup {0}

(* Commands of the middleware, of a device, and the picture of a device, which is read with no
   look at the code the answer carries. *)
AgentCommands == {"onlineList"}

DeviceCommands == {"shell"}

ImageCommands == {"image"}

Commands(target) == IF target = 0 THEN AgentCommands ELSE DeviceCommands \cup ImageCommands

NoMessage == [seq |-> 0, cmd |-> "none", target |-> 0]

Idle == [pc |-> "idle", cmd |-> "none", target |-> 0, seq |-> 0, ret |-> "none", got |-> NoMessage]

deviceExists(d) == d \in Devices

(* Mutant: every message carries the same number. *)
NextSeqFixed == 1

NextSeq == seq + 1

Send(m) == asked' = IF up THEN asked \cup {m} ELSE asked

------------------------------------------------------------------------------
(* Callers *)

Issue(c, target, cmd) ==
  /\ call[c].pc = "idle" /\ seq < MaxSeq
  /\ target = 0 \/ deviceExists(target)
  /\ seq' = NextSeq
  /\ call' = [call EXCEPT ![c] = [pc |-> "send", cmd |-> cmd, target |-> target, seq |-> NextSeq,
                                  ret |-> "none", got |-> NoMessage]]
  /\ UNCHANGED <<up, drops, wait, chan, asked, inbox, events, reader, online, clients, crashed>>

SendCall(c) ==
  /\ call[c].pc = "send"
  /\ call' = [call EXCEPT ![c] = IF up THEN [@ EXCEPT !.pc = "store"]
                                 ELSE Idle]
  /\ Send([seq |-> call[c].seq, cmd |-> call[c].cmd, target |-> call[c].target])
  /\ UNCHANGED <<up, drops, seq, wait, chan, inbox, events, reader, online, clients, crashed>>

StoreWait(c) ==
  /\ call[c].pc = "store"
  /\ wait' = wait \cup {call[c].seq}
  /\ chan' = [chan EXCEPT ![call[c].seq] = "open"]
  /\ call' = [call EXCEPT ![c].pc = "stored"]
  /\ UNCHANGED <<up, drops, seq, asked, inbox, events, reader, online, clients, crashed>>

Select(c) ==
  /\ call[c].pc = "stored"
  /\ call' = [call EXCEPT ![c].pc = "select"]
  /\ UNCHANGED <<up, drops, seq, wait, chan, asked, inbox, events, reader, online, clients, crashed>>

(* Mutant: nothing but an answer ends the wait. *)
TimeoutNever(c) == FALSE /\ call[c].pc = "select" /\ UNCHANGED vars

Timeout(c) ==
  /\ call[c].pc = "select"
  /\ call' = [call EXCEPT ![c].pc = "forget", ![c].ret = "Timeout"]
  /\ UNCHANGED <<up, drops, seq, wait, chan, asked, inbox, events, reader, online, clients, crashed>>

(* Mutant: the entry of a call that timed out is left behind. *)
ForgetWaitOnAnswer(c) ==
  /\ call[c].pc = "forget"
  /\ wait' = IF call[c].ret = "answer" THEN wait \ {call[c].seq} ELSE wait
  /\ call' = [call EXCEPT ![c].pc = "close"]
  /\ UNCHANGED <<up, drops, seq, chan, asked, inbox, events, reader, online, clients, crashed>>

ForgetWait(c) ==
  /\ call[c].pc = "forget"
  /\ wait' = wait \ {call[c].seq}
  /\ call' = [call EXCEPT ![c].pc = "close"]
  /\ UNCHANGED <<up, drops, seq, chan, asked, inbox, events, reader, online, clients, crashed>>

(* The result goes back to whoever asked: a code other than Success as an error, except that the
   picture of a device is decoded whatever the code, so that a call that timed out ends in a
   decoding error. *)
CloseChan(c) ==
  /\ call[c].pc = "close"
  /\ chan' = [chan EXCEPT ![call[c].seq] = "closed"]
  /\ call' = [call EXCEPT ![c] = Idle]
  /\ UNCHANGED <<up, drops, seq, wait, asked, inbox, events, reader, online, clients, crashed>>

------------------------------------------------------------------------------
(* The link and its reading goroutine *)

Answer(m) ==
  /\ up /\ m \in asked /\ Len(inbox) < MaxInbox
  /\ asked' = asked \ {m}
  /\ inbox' = Append(inbox, m)
  /\ UNCHANGED <<up, drops, seq, wait, chan, call, events, reader, online, clients, crashed>>

(* The middleware reports devices that came or went, or a screen that was turned. *)
Report ==
  /\ up /\ events < MaxEvents /\ Len(inbox) < MaxInbox
  /\ events' = events + 1
  /\ \E cmd \in {"onlineList", "screenChange"} :
        inbox' = Append(inbox, [seq |-> 0, cmd |-> cmd, target |-> 0])
  /\ UNCHANGED <<up, drops, seq, wait, chan, call, asked, reader, online, clients, crashed>>

LoseLink ==
  /\ up /\ drops < MaxDrops
  /\ up' = FALSE /\ drops' = drops + 1
  /\ asked' = {} /\ inbox' = <<>>
  /\ UNCHANGED <<seq, wait, chan, call, events, reader, online, clients, crashed>>

(* onOpen: a link that opens asks for the list of the devices online and waits for nothing. *)
OpenLink ==
  /\ ~up /\ seq < MaxSeq
  /\ up' = TRUE /\ seq' = NextSeq
  /\ asked' = asked \cup {[seq |-> NextSeq, cmd |-> "onlineList", target |-> 0]}
  /\ UNCHANGED <<drops, wait, chan, call, inbox, events, reader, online, clients, crashed>>

(* onData: a message whose number somebody waits for goes to its channel; any other is sent on to
   the WebSocket clients and handled as an event.  After a list of the devices online these, or
   all when it names none, are told to keep their screen on, under a new number nobody waits for. *)
ReadMessage ==
  /\ reader.pc = "idle" /\ inbox # <<>>
  /\ inbox' = Tail(inbox)
  /\ LET m == Head(inbox) IN
     IF m.seq \in wait
     THEN /\ reader' = [pc |-> "offer", msg |-> m]
          /\ UNCHANGED <<online, clients, seq>>
     ELSE /\ UNCHANGED reader
          /\ clients' \in SUBSET clients
          /\ IF m.cmd = "onlineList"
             THEN /\ online' \in SUBSET Devices
                  /\ seq' = IF seq < MaxSeq THEN NextSeq ELSE seq
             ELSE UNCHANGED <<online, seq>>
  /\ UNCHANGED <<up, drops, wait, chan, call, asked, events, crashed>>

(* A receiver takes the message, a channel nobody receives from drops it, a closed one panics. *)
Offer ==
  /\ reader.pc = "offer"
  /\ LET s == reader.msg.seq IN
     /\ crashed' = (chan[s] = "closed")
     /\ call' = [c \in Callers |->
                   IF call[c].pc = "select" /\ call[c].seq = s /\ chan[s] = "open"
                   THEN [call[c] EXCEPT !.pc = "forget", !.ret = "answer", !.got = reader.msg]
                   ELSE call[c]]
  /\ reader' = [pc |-> "idle", msg |-> NoMessage]
  /\ UNCHANGED <<up, drops, seq, wait, chan, asked, inbox, events, online, clients>>

AddWsClient(w) ==
  /\ w \notin clients
  /\ clients' = clients \cup {w}
  /\ UNCHANGED <<up, drops, seq, wait, chan, call, asked, inbox, events, reader, online, crashed>>

RemoveWsClient(w) ==
  /\ w \in clients
  /\ clients' = clients \ {w}
  /\ UNCHANGED <<up, drops, seq, wait, chan, call, asked, inbox, events, reader, online, crashed>>

------------------------------------------------------------------------------
Init ==
  /\ up = TRUE /\ drops = 0 /\ seq = 0 /\ wait = {} /\ chan = [s \in 1..MaxSeq |-> "none"]
  /\ call = [c \in Callers |-> Idle]
  /\ asked = {} /\ inbox = <<>> /\ events = 0
  /\ reader = [pc |-> "idle", msg |-> NoMessage]
  /\ online = {} /\ clients = {}
  /\ crashed = FALSE

CallerStep(c) ==
  \/ SendCall(c) \/ StoreWait(c) \/ Select(c) \/ Timeout(c) \/ ForgetWait(c) \/ CloseChan(c)

Next ==
  /\ ~crashed
  /\ \/ \E c \in Callers, t \in Targets : \E cmd \in Commands(t) : Issue(c, t, cmd)
     \/ \E c \in Callers : CallerStep(c)
     \/ \E m \in asked : Answer(m)
     \/ Report \/ LoseLink \/ OpenLink \/ ReadMessage \/ Offer
     \/ \E w \in Consoles : AddWsClient(w) \/ RemoveWsClient(w)

Spec == Init /\ [][Next]_vars

(* Goroutines run on and a timer fires; the middleware owes no answer. *)
FairSpec ==
  /\ Spec
  /\ \A c \in Callers : WF_vars(CallerStep(c))
  /\ WF_vars(ReadMessage) /\ WF_vars(Offer)

------------------------------------------------------------------------------
TypeOK ==
  /\ up \in BOOLEAN /\ crashed \in BOOLEAN
  /\ seq \in 0..MaxSeq /\ wait \subseteq 1..MaxSeq
  /\ chan \in [1..MaxSeq -> {"none", "open", "closed"}]
  /\ \A c \in Callers : call[c].seq \in 0..MaxSeq
  /\ Len(inbox) <= MaxInbox
  /\ online \subseteq Devices /\ clients \subseteq Consoles

(* A command is answered by the answer to itself: neither that of another command in flight nor the
   late one of a command that timed out is taken for it. *)
AnswerIsOwn ==
  \A c \in Callers :
    call[c].ret = "answer" => call[c].got.cmd = call[c].cmd /\ call[c].got.target = call[c].target

(* Whatever way a call ends, its entry in Wait is gone when it returns, and its channel is closed
   only after the entry is gone. *)
WaitForgotten ==
  /\ \A s \in wait : \E c \in Callers : call[c].seq = s /\ call[c].pc \in {"stored", "select", "forget"}
  /\ \A s \in wait : chan[s] = "open"

(* Every command ends, with its answer, a refusal or the timer, link or no link; a panic ends it too. *)
CallEnds == \A c \in Callers : []<>(call[c].pc = "idle" \/ crashed)

(* The comment on the send in onData says that its select keeps a closed channel from panicking. *)
NoSendOnClosed == ~crashed
=============================================================================
