------------------------------ MODULE RtcLinks -------------------------------
(* The WebRTC links of the program: one to each middleware (middleAgentRtc), *)
(* one to a device whose screen is streamed (deviceRtc), both a BufferRTC     *)
(* client over a webRTC client.  A link is dialled with a token, signals over *)
(* a WebSocket until its peer connection carries a data channel, and is       *)
(* closed by whichever of several goroutines first notices its end; the       *)
(* handler of that end closes the link its agent now has and dials another.   *)
EXTENDS Integers, FiniteSets

CONSTANTS
  Kinds,      \* whose links: "middle" (an agent is reused) or "stream" (a second one is refused)
  Creators,   \* goroutines that ask for the agent
  MaxLinks,   \* bound: links dialled
  MaxAsks,    \* times a host that is offline is asked for (100)
  MaxUpsets   \* bound: times the server says again that the host is online, calls of ClearAll, ends of the stream

LinkAssumption ==
  /\ Kinds \subseteq {"middle", "stream"} /\ IsFiniteSet(Creators)
  /\ {MaxLinks, MaxAsks, MaxUpsets} \subseteq Nat

VARIABLES
  kind,       \* fixed by the initial state
  registry,   \* the agent in the package's map of agents (0: none)
  core,       \* the agent in Core.MiddleAgents (0: none)
  agent,      \* agents: Rtc, Code, Reconnect
  link,       \* links
  creator,    \* what each creator is doing
  upsets      \* what MaxUpsets bounds

vars == <<kind, registry, core, agent, link, creator, upsets>>

Links == 1..MaxLinks

Agents == 1..Cardinality(Creators)

(* Code: -2 the dial failed, -1 closed, 0 new, 1 dialled, 2 open. *)
NewAgent == [made |-> TRUE, rtc |-> 0, code |-> 0, reconnect |-> 0]

NoAgent == [NewAgent EXCEPT !.made = FALSE]

(* ws, loop: the signalling socket and the goroutine that reads it.  calls: callbacks about to call
   Close; closing: calls of Close that have shut everything and come to the once.  by: the link
   whose handler dialled this one, 0 for a creator. *)
NoLink == [agent |-> 0, by |-> 0, ws |-> FALSE, loop |-> "none", asks |-> 0, peer |-> "none",
           chan |-> FALSE, online |-> FALSE, calls |-> 0, closing |-> 0, fired |-> 0,
           handler |-> "none"]

Dialled == {i \in Links : link[i].agent # 0}

Free == {i \in Links : link[i].agent = 0 /\ \A j \in 1..(i - 1) : link[j].agent # 0}

------------------------------------------------------------------------------
(* webRTC.Client *)

(* Start, called by Connect: the socket opens and is read, or the dial fails and nobody tries again. *)
Connect(a, by) ==
  \E i \in Free, ok \in BOOLEAN :
    /\ link' = [j \in Links |->
                  IF j = i THEN [NoLink EXCEPT !.agent = a, !.by = by, !.ws = ok, !.loop = IF ok THEN "runs" ELSE "none"]
                  ELSE IF j = by THEN [link[j] EXCEPT !.handler = "done"] ELSE link[j]]
    /\ agent' = [agent EXCEPT ![a].rtc = i, ![a].code = IF ok THEN 1 ELSE -2]

(* What Close does before its once; closing a peer connection that is not closed yet brings the
   callback of its state, which calls Close as well. *)
Shut(l) ==
  [l EXCEPT !.ws = FALSE, !.chan = FALSE,
            !.peer = IF @ = "none" THEN @ ELSE "closed",
            !.calls = IF l.peer \in {"new", "connected"} THEN @ + 1 ELSE @]

Fire(l) == IF l.fired = 0 THEN [l EXCEPT !.fired = 1, !.handler = "close"] ELSE l

CallClose(i) ==
  /\ link[i].calls > 0
  /\ link' = [link EXCEPT ![i] = [Shut([link[i] EXCEPT !.calls = @ - 1]) EXCEPT !.closing = @ + 1]]
  /\ UNCHANGED <<kind, registry, core, agent, creator, upsets>>

(* Mutant: Close calls onClose every time. *)
CloseEveryTime(i) ==
  /\ link[i].closing > 0
  /\ link' = [link EXCEPT ![i] = [@ EXCEPT !.closing = @ - 1, !.fired = 1, !.handler = "close"]]
  /\ UNCHANGED <<kind, registry, core, agent, creator, upsets>>

CloseOnce(i) ==
  /\ link[i].closing > 0
  /\ link' = [link EXCEPT ![i] = Fire([link[i] EXCEPT !.closing = @ - 1])]
  /\ UNCHANGED <<kind, registry, core, agent, creator, upsets>>

(* RtcClient.Close, which waits for Close. *)
Closed(l) == Fire(Shut(l))

Signalling(i) == link[i].ws /\ link[i].loop = "runs"

(* The server says whether the host is online: no, and it is asked again, up to a limit; yes, and a
   peer connection is made, in place of the one there may be already. *)
HostOffline(i) ==
  /\ Signalling(i) /\ link[i].peer = "none"
  /\ link' = [link EXCEPT ![i].asks = IF @ < MaxAsks THEN @ + 1 ELSE @,
                          ![i].ws = link[i].asks < MaxAsks]
  /\ UNCHANGED <<kind, registry, core, agent, creator, upsets>>

HostOnline(i) ==
  /\ Signalling(i) /\ link[i].peer = "none"
  /\ link' = [link EXCEPT ![i].peer = "new", ![i].asks = 0]
  /\ UNCHANGED <<kind, registry, core, agent, creator, upsets>>

HostOnlineAgain(i) ==
  /\ Signalling(i) /\ link[i].peer \in {"new", "connected"} /\ upsets < MaxUpsets
  /\ upsets' = upsets + 1
  /\ link' = [link EXCEPT ![i].peer = "new", ![i].calls = @ + 1]
  /\ UNCHANGED <<kind, registry, core, agent, creator>>

Answer(i) ==
  /\ Signalling(i) /\ link[i].peer = "new"
  /\ link' = [link EXCEPT ![i].peer = "connected"]
  /\ UNCHANGED <<kind, registry, core, agent, creator, upsets>>

(* The data channel opens: the link is online and its agent's code says so. *)
OpenChannel(i) ==
  /\ link[i].peer = "connected" /\ ~link[i].chan /\ link[i].fired = 0
  /\ link' = [link EXCEPT ![i].chan = TRUE, ![i].online = TRUE]
  /\ agent' = [agent EXCEPT ![link[i].agent].code = 2]
  /\ UNCHANGED <<kind, registry, core, creator, upsets>>

(* Both the ICE state and the connection state report a failure. *)
PeerFails(i) ==
  /\ link[i].peer \in {"new", "connected"}
  /\ link' = [link EXCEPT ![i].peer = "closed", ![i].calls = @ + 2]
  /\ UNCHANGED <<kind, registry, core, agent, creator, upsets>>

LoseSignal(i) ==
  /\ Signalling(i)
  /\ link' = [link EXCEPT ![i].ws = FALSE]
  /\ UNCHANGED <<kind, registry, core, agent, creator, upsets>>

(* Mutant: the link is left alone as soon as there is a peer connection. *)
EndLoopAnyPeer(i) ==
  /\ link[i].loop = "runs" /\ ~link[i].ws
  /\ link' = [link EXCEPT ![i].loop = "ended",
                          ![i].calls = IF link[i].peer = "none" THEN @ + 1 ELSE @]
  /\ UNCHANGED <<kind, registry, core, agent, creator, upsets>>

EndLoop(i) ==
  /\ link[i].loop = "runs" /\ ~link[i].ws
  /\ link' = [link EXCEPT ![i].loop = "ended",
                          ![i].calls = IF link[i].peer = "connected" THEN @ ELSE @ + 1]
  /\ UNCHANGED <<kind, registry, core, agent, creator, upsets>>

------------------------------------------------------------------------------
(* onClose of the agent, in a goroutine of the link that ended *)

TakeDown(i) ==
  /\ LET a == link[i].agent
         next == IF agent[a].reconnect = 0 THEN "token" ELSE "done"
         l == [link EXCEPT ![i].online = FALSE, ![i].handler = next]
     IN /\ link' = IF agent[a].rtc = 0 THEN l ELSE [l EXCEPT ![agent[a].rtc] = Closed(@)]
        /\ agent' = [agent EXCEPT ![a].code = -1]
        /\ IF next = "token" THEN UNCHANGED <<registry, core>> ELSE registry' = 0 /\ core' = 0
  /\ UNCHANGED <<kind, creator, upsets>>

HandleClose(i) == link[i].handler = "close" /\ TakeDown(i)

(* No token: onClose calls itself, and so takes down what the agent has by now. *)
HandleNoToken(i) == link[i].handler = "token" /\ TakeDown(i)

HandleToken(i) ==
  /\ link[i].handler = "token"
  /\ link' = [link EXCEPT ![i].handler = "dial"]
  /\ UNCHANGED <<kind, registry, core, agent, creator, upsets>>

HandleDial(i) ==
  /\ link[i].handler = "dial"
  /\ Connect(link[i].agent, i)
  /\ UNCHANGED <<kind, registry, core, creator, upsets>>

------------------------------------------------------------------------------
(* CreatMiddlewareRtc, CreatDeviceH264AudioRtc *)

Idle == [pc |-> "idle", agent |-> 0]

InOrder(a) == IF a = 0 THEN FALSE ELSE agent[a].rtc # 0 /\ agent[a].code > 0

(* New looks for an agent of this id: the stream's refuses when there is one. *)
LookUp(c) ==
  /\ creator[c].pc = "idle"
  /\ kind = "middle" => ~InOrder(core)
  /\ kind = "stream" => registry = 0
  /\ creator' = [creator EXCEPT ![c] = [pc |-> "new", agent |-> registry]]
  /\ UNCHANGED <<kind, registry, core, agent, link, upsets>>

(* It is reused, or made and entered; then a token is asked for unless its link is in order. *)
TakeAgent(c) ==
  /\ creator[c].pc = "new"
  /\ \/ /\ creator[c].agent # 0
        /\ creator' = [creator EXCEPT ![c] =
                         IF InOrder(creator[c].agent) THEN Idle ELSE [@ EXCEPT !.pc = "token"]]
        /\ UNCHANGED <<registry, agent>>
     \/ /\ creator[c].agent = 0
        /\ \E a \in Agents :
             /\ ~agent[a].made /\ \A b \in 1..(a - 1) : agent[b].made
             /\ agent' = [agent EXCEPT ![a] = NewAgent]
             /\ registry' = a
             /\ creator' = [creator EXCEPT ![c] = [pc |-> "token", agent |-> a]]
  /\ UNCHANGED <<kind, core, link, upsets>>

(* No token: the creator gives up, and the agent stays entered. *)
CreateNoToken(c) ==
  /\ creator[c].pc = "token"
  /\ creator' = [creator EXCEPT ![c] = Idle]
  /\ UNCHANGED <<kind, registry, core, agent, link, upsets>>

CreateDial(c) ==
  /\ creator[c].pc = "token"
  /\ Connect(creator[c].agent, 0)
  /\ creator' = [creator EXCEPT ![c].pc = "save"]
  /\ UNCHANGED <<kind, registry, core, upsets>>

SaveAgent(c) ==
  /\ creator[c].pc = "save"
  /\ core' = IF kind = "middle" THEN creator[c].agent ELSE core
  /\ creator' = [creator EXCEPT ![c] = Idle]
  /\ UNCHANGED <<kind, registry, agent, link, upsets>>

(* middleAgentRtc.ClearAll and the Reset after it: the link is closed, the agent taken out of both
   maps, and its Reconnect is left as it is. *)
ClearAll ==
  /\ kind = "middle" /\ upsets < MaxUpsets
  /\ upsets' = upsets + 1
  /\ link' = IF registry = 0 \/ agent[registry].rtc = 0 THEN link
             ELSE [link EXCEPT ![agent[registry].rtc] = Closed(@)]
  /\ registry' = 0 /\ core' = 0
  /\ UNCHANGED <<kind, agent, creator>>

(* The WebSocket that a stream was opened for ends. *)
EndStream ==
  /\ kind = "stream" /\ upsets < MaxUpsets /\ registry # 0 /\ \A c \in Creators : creator[c] = Idle
  /\ upsets' = upsets + 1
  /\ link' = IF agent[registry].rtc = 0 THEN link ELSE [link EXCEPT ![agent[registry].rtc] = Closed(@)]
  /\ agent' = [agent EXCEPT ![registry].reconnect = 1]
  /\ UNCHANGED <<kind, registry, core, creator>>

------------------------------------------------------------------------------
Init ==
  /\ kind \in Kinds
  /\ registry = 0 /\ core = 0
  /\ agent = [a \in Agents |-> NoAgent]
  /\ link = [i \in Links |-> NoLink]
  /\ creator = [c \in Creators |-> Idle]
  /\ upsets = 0

Closing(i) == CallClose(i) \/ CloseOnce(i)

Handling(i) == HandleClose(i) \/ HandleDial(i)

Signal(i) ==
  HostOffline(i) \/ HostOnline(i) \/ HostOnlineAgain(i) \/ Answer(i) \/ OpenChannel(i)
  \/ PeerFails(i) \/ LoseSignal(i)

Create(c) == LookUp(c) \/ TakeAgent(c) \/ CreateNoToken(c) \/ CreateDial(c) \/ SaveAgent(c)

Next ==
  \/ \E i \in Links : Signal(i) \/ EndLoop(i) \/ Closing(i)
  \/ \E i \in Links : Handling(i) \/ HandleNoToken(i) \/ HandleToken(i)
  \/ \E c \in Creators : Create(c)
  \/ ClearAll \/ EndStream

Spec == Init /\ [][Next]_vars

(* Goroutines run on; a token that is asked for again and again is given in the end. *)
Fairness ==
  \A i \in Links :
    WF_vars(EndLoop(i)) /\ WF_vars(Closing(i)) /\ WF_vars(Handling(i)) /\ WF_vars(HandleToken(i))

FairSpec == Spec /\ Fairness

------------------------------------------------------------------------------
TypeOK ==
  /\ registry \in {0} \cup Agents /\ core \in {0} \cup Agents
  /\ \A a \in Agents : agent[a].rtc \in 0..MaxLinks /\ agent[a].code \in -2..2
  /\ \A i \in Links :
       /\ link[i].peer \in {"none", "new", "connected", "closed"}
       /\ link[i].calls \in 0..(MaxUpsets + 3) /\ link[i].closing \in 0..(MaxUpsets + 3)

(* However many goroutines notice that a link ended, before and after its handler ran, the end is
   seen to once: when a new link was dialled for it, or none is to be, nothing is done again. *)
OneRedialPerLink == [][\A i \in Links : link[i].handler = "done" => link'[i].handler = "done"]_vars

(* A link that ended is dialled anew, whatever ended it and however often the token is refused, if
   its agent is not told to stay down; a dial that failed outright is not repeated. *)
DeadLinkRedialled ==
  \A i \in Links :
    []<>(link[i].loop # "none" /\ ~link[i].ws /\ link[i].peer # "connected"
           => \/ \E j \in Dialled : link[j].by = i
              \/ Free = {}
              \/ \E a \in Agents : a = link[i].agent /\ agent[a].reconnect = 1)
==============================================================================
