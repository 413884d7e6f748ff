------------------------------ MODULE MCServices ------------------------------
(* The services below the flow engine, checked side by side.  They share no   *)
(* state that is modelled, so that a behaviour is one of one of them: "part"  *)
(* says of which, the others keep their initial state.  The push and the      *)
(* session appear twice, with bounds that let different cases happen.          *)
EXTENDS Integers, Sequences

CONSTANTS
  Callers, Devices, Consoles, MaxSeq, MaxDrops, MaxEvents, MaxInbox,
  Kinds, Creators, MaxLinks, MaxAsks, MaxUpsets,
  Ports, Phones, MapModes, MaxMaps, MaxTunnels,
  Transports, Senders, Buffers, Sizes, Prefix, Piece, Largest, Cache, MaxMessages,
  Clients, MaxNotices, MaxInFlight

VARIABLES
  part,
  up, drops, seq, wait, chan, call, asked, inbox, events, reader, online, clients, crashed,
  kind, registry, core, agent, link, creator, upsets,
  entry, saved, active, map, tunnel, fwd, job,
  transport, pool, sender, queue, lock, wire, rx, sent, out, made,
  version, consoleClients, subscribes, consoleReader, loop, notice, hash, flight, shown, offered, notices, opens,
  wsUrl, unifiedKey, jpyCore, currentKey, currentHost, loginLock, platformCore, session, leaked, waking,
  devices, cached, linked, request, requests, faults

Sync == INSTANCE SyncCalls

Rtc == INSTANCE RtcLinks

Forward == INSTANCE PortForward

Packets == INSTANCE PacketStream

(* One kind of data that changes and returns to what it was, and a client that comes back. *)
Push == INSTANCE ConsolePush WITH
  clients <- consoleClients, reader <- consoleReader,
  Topics <- {"devices"}, CanFail <- {}, Changing <- {"devices"}, MaxVersion <- 2, MaxOpens <- 2

(* Two kinds of data, of one of which the fetch may fail. *)
PushTwo == INSTANCE ConsolePush WITH
  clients <- consoleClients, reader <- consoleReader,
  Topics <- {"devices", "rpa_status"}, CanFail <- {"rpa_status"}, Changing <- {"devices"},
  MaxVersion <- 1, MaxOpens <- 1, MaxNotices <- 0

(* Three requests of one user that overlap two by two: logins and device commands. *)
Session == INSTANCE PlatformSession WITH
  core <- platformCore, job <- request, Relogins <- {"relogin"}, Logins <- {<<"h1", "k1">>},
  Tried <- {<<"api", "find", "command", "ensure", "send">>}, MaxRequests <- 3, MaxFaults <- 1

(* Two requests of two users, of every kind, with changes of the address and one more fault. *)
SessionMore == INSTANCE PlatformSession WITH
  core <- platformCore, job <- request, Relogins <- {"relogin", "another"},
  Logins <- {<<"h1", "k1">>, <<"h2", "k2">>},
  Tried <- Session!Handled \cup {Session!GetDevices, Session!ConnectDevice, Session!MiddleExecuteCommand},
  MaxRequests <- 2, MaxFaults <- 2

ASSUME ServicesAssumption ==
  /\ Sync!SyncAssumption /\ Rtc!LinkAssumption /\ Forward!MapAssumption /\ Packets!StreamAssumption
  /\ Push!PushAssumption /\ PushTwo!PushAssumption /\ Session!SessionAssumption /\ SessionMore!SessionAssumption

------------------------------------------------------------------------------
calling == <<up, drops, seq, wait, chan, call, asked, inbox, events, reader, online, clients, crashed>>

linking == <<kind, registry, core, agent, link, creator, upsets>>

forwarding == <<entry, saved, active, map, tunnel, fwd, job>>

sending == <<transport, pool, sender, queue, lock, wire, rx, sent, out, made>>

pushing ==
  <<version, consoleClients, subscribes, consoleReader, loop, notice, hash, flight, shown, offered, notices, opens>>

requesting ==
  <<wsUrl, unifiedKey, jpyCore, currentKey, currentHost, loginLock, platformCore, session, leaked, waking,
    devices, cached, linked, request, requests, faults>>

SyncStep ==
  part = "sync" /\ Sync!Next
  /\ UNCHANGED <<part, linking, forwarding, sending, pushing, requesting>>

RtcStep ==
  part = "rtc" /\ Rtc!Next
  /\ UNCHANGED <<part, calling, forwarding, sending, pushing, requesting>>

ForwardStep ==
  part = "forward" /\ Forward!Next
  /\ UNCHANGED <<part, calling, linking, sending, pushing, requesting>>

PacketsStep ==
  part = "packets" /\ Packets!Next
  /\ UNCHANGED <<part, calling, linking, forwarding, pushing, requesting>>

PushStep ==
  /\ \/ part = "push" /\ Push!Next
     \/ part = "push two" /\ PushTwo!Next
  /\ UNCHANGED <<part, calling, linking, forwarding, sending, requesting>>

SessionStep ==
  /\ \/ part = "session" /\ Session!Next
     \/ part = "session more" /\ SessionMore!Next
  /\ UNCHANGED <<part, calling, linking, forwarding, sending, pushing>>

vars == <<part, calling, linking, forwarding, sending, pushing, requesting>>

Parts == {"sync", "rtc", "forward", "packets", "push", "push two", "session", "session more"}

Init ==
  /\ part \in Parts
  /\ Sync!Init /\ Forward!Init
  /\ Rtc!Init /\ (part = "rtc" \/ kind = "middle")
  /\ Packets!Init /\ (part = "packets" \/ transport = "stream")
  /\ IF part = "push two" THEN PushTwo!Init ELSE Push!Init
  /\ IF part = "session more" THEN SessionMore!Init ELSE Session!Init

Next == SyncStep \/ RtcStep \/ ForwardStep \/ PacketsStep \/ PushStep \/ SessionStep

Spec == Init /\ [][Next]_vars

(* The fairness each component states, of the behaviours that are its own. *)
SyncFair ==
  /\ \A c \in Callers : WF_calling(part = "sync" /\ Sync!CallerStep(c))
  /\ WF_calling(part = "sync" /\ Sync!ReadMessage) /\ WF_calling(part = "sync" /\ Sync!Offer)

RtcFair ==
  \A i \in 1..MaxLinks :
    /\ WF_linking(part = "rtc" /\ Rtc!EndLoop(i)) /\ WF_linking(part = "rtc" /\ Rtc!Closing(i))
    /\ WF_linking(part = "rtc" /\ Rtc!Handling(i)) /\ WF_linking(part = "rtc" /\ Rtc!HandleToken(i))

ForwardFair ==
  \A i \in 1..MaxTunnels :
    /\ WF_forwarding(part = "forward" /\ Forward!Runs(i))
    /\ WF_forwarding(part = "forward" /\ Forward!ChannelCloses(i))
    /\ WF_forwarding(part = "forward" /\ Forward!MuxDies(i))
    /\ WF_forwarding(part = "forward" /\ Forward!StartMuxPortMap(i))
    /\ WF_forwarding(part = "forward" /\ Forward!Monitor(i))

PushFair ==
  /\ WF_pushing(part = "push" /\ Push!Checks) /\ WF_pushing(part = "push" /\ Push!Notifies)
  /\ WF_pushing(part = "push two" /\ PushTwo!Checks) /\ WF_pushing(part = "push two" /\ PushTwo!Notifies)
  /\ \A c \in Clients :
       /\ WF_pushing(part = "push" /\ Push!Pushes(c)) /\ WF_pushing(part = "push" /\ Push!WriteJSON(c))
       /\ WF_pushing(part = "push two" /\ PushTwo!Pushes(c))
       /\ WF_pushing(part = "push two" /\ PushTwo!WriteJSON(c))

SessionFair ==
  \A c \in Callers :
    WF_requesting(
      \/ part = "session" /\ Session!RunsOn(c)
      \/ part = "session more" /\ SessionMore!RunsOn(c))

FairSpec == Spec /\ SyncFair /\ RtcFair /\ ForwardFair /\ PushFair /\ SessionFair

------------------------------------------------------------------------------
(* The states of every component have their types (the variables of all modules of this family). *)
TypeOK ==
  /\ part \in Parts
  /\ Sync!TypeOK /\ Rtc!TypeOK /\ Forward!TypeOK /\ Packets!TypeOK
  /\ IF part = "push two" THEN PushTwo!TypeOK ELSE Push!TypeOK
  /\ IF part = "session more" THEN SessionMore!TypeOK ELSE Session!TypeOK

(* A command of syncSendMessage.go is answered by the answer to itself, never by that of another
   command in flight or the late one of a command that timed out. *)
AnswerIsOwn == Sync!AnswerIsOwn

(* Whatever way syncCall ends, its entry in Wait is gone when it returns, and no entry leads to a
   closed channel. *)
WaitForgotten == Sync!WaitForgotten

(* Every syncCall ends: with its answer, a refusal or its timer, with a link or without one. *)
CallEnds == Sync!CallEnds

(* However many goroutines notice that a link of the middleware client ended, it is seen to once: no
   second link is dialled for it. *)
OneRedialPerLink == Rtc!OneRedialPerLink

(* A link that ended is dialled anew, whatever ended it and however often the token is refused,
   unless its agent was told to stay down.  A dial that fails outright is not made again. *)
DeadLinkRedialled == Rtc!DeadLinkRedialled

(* When the tunnel of a map is gone, whoever took it down, the local port of the map is freed.  The code
   leaks the port in one case, which is excepted: a SOCKS5 map starts its monitor before it listens
   (startProxy), so that when the multiplexer dies in between nobody closes the listener. *)
PortReleased == Forward!PortReleased

(* However sends run together and buffers of the pool are used again, the reader of a data channel
   is handed the messages sent: whole, unmixed, in order, with no gap; a message that is too long is
   not sent, and a stream ends at the first. *)
FramesWhole == Packets!FramesWhole

(* A push that the hash of checkAndPush says was made reached everyone who had subscribed, even who
   subscribed while it was made. *)
NothingMissed ==
  /\ part = "push" => Push!NothingMissed
  /\ part = "push two" => PushTwo!NothingMissed

(* Data that has changed for the last time is written to every client that stays subscribed to it.  The
   code misses a client in one case, which is excepted: the data came back to what the stored hash has, and
   the client was shown other data in between (checkAndPush finds nothing changed). *)
PushReaches ==
  \A c \in Clients :
    []<>(/\ part = "push" => Push!Reached(c, "devices")
         /\ part = "push two" => PushTwo!Reached(c, "devices"))

(* Whenever the lock of the login is free, a login that is held is whole: its key and host are the Core's,
   the Core has a session, and the session is connected to that host and logged in with that key.  Excepted
   is what the code does not ensure: a relogin in the background may connect to the address it read
   earlier, and a token the Core kept of another key's login may be what it logs in with. *)
SessionHeld ==
  /\ part = "session" => Session!SessionHeld
  /\ part = "session more" => SessionMore!SessionHeld

(* Every request to the platform comes to its end, with relogins in its way, unless a dial hangs for ever:
   the dial of Core.Login has no timeout, and is made with the lock of the login held. *)
RequestEnds == Session!RequestEnds
==============================================================================
