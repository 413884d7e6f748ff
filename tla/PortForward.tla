----------------------------- MODULE PortForward -----------------------------
(* Port maps (service.ConnectDevice, portMapSocket5Rtc, pkg/portmap, the      *)
(* stream client of pkg/netclient).  A map owns a tunnel to its device and,   *)
(* when the tunnel's data channel opens, a forwarder: a multiplexer over the  *)
(* channel and a listener on the local port.  The end of the channel reaches  *)
(* the forwarder by its monitor, and the map by a callback that a Close of    *)
(* the tunnel takes away.                                                     *)
EXTENDS Integers, FiniteSets

CONSTANTS
  Devices,     \* devices
  Ports,       \* local ports
  Phones,      \* ports of a device
  MapModes,    \* 0: port map, 2: SOCKS5 server
  MaxMaps,     \* bound: maps made
  MaxTunnels   \* bound: tunnels dialled

None == "none"

MapAssumption ==
  /\ MapModes \subseteq {0, 2} /\ {MaxMaps, MaxTunnels} \subseteq Nat
  /\ None \notin Devices

VARIABLES
  entry,    \* serverMap: the map registered for a device (0: none)
  saved,    \* Core.PortMaps
  active,   \* MappingManager.activeMappings: the device a port is mapped to
  map,      \* maps made
  tunnel,   \* tunnels dialled
  fwd,      \* the forwarder of a tunnel
  job       \* the request being served

vars == <<entry, saved, active, map, tunnel, fwd, job>>

Maps == 1..MaxMaps

Tunnels == 1..MaxTunnels

NoMap == [device |-> None, port |-> None, phone |-> None, mode |-> 0, rtc |-> 0, fwd |-> 0, reconnect |-> 0]

(* peer: "none", "up", "down".  dc: "none", "open", "closed".  cb: onChannelClose is set.
   opening: where Open stands; handler: where OnClose stands. *)
NoTunnel == [map |-> 0, peer |-> "none", dc |-> "none", cb |-> TRUE, opening |-> "no", handler |-> "no"]

NoForwarder == [made |-> FALSE, mux |-> FALSE, lis |-> "none", pc |-> "none", monitor |-> "none"]

NoJob == [pc |-> "idle", device |-> None, port |-> None, phone |-> None, mode |-> 0, map |-> 0, via |-> None]

Made == {m \in Maps : map[m].device # None}

MapOf(i) == IF tunnel[i].map = 0 THEN NoMap ELSE map[tunnel[i].map]

PortOf(i) == MapOf(i).port

ModeOf(i) == MapOf(i).mode

------------------------------------------------------------------------------
(* Tunnels: streamRTC.Client, StreamClient, DataChannelStream *)

(* Client.Close: the connection goes, and with it the callbacks. *)
CloseTunnel(t) == [t EXCEPT !.peer = IF @ = "none" THEN "none" ELSE "down", !.cb = FALSE]

(* A dial that fails leaves the map without a new tunnel; one that succeeds may stay without a peer
   for ever: nothing watches the signalling of a stream. *)
Dial(m) ==
  \/ UNCHANGED <<map, tunnel>>
  \/ \E i \in Tunnels :
       /\ tunnel[i].map = 0 /\ \A j \in 1..(i - 1) : tunnel[j].map # 0
       /\ tunnel' = [tunnel EXCEPT ![i] = [NoTunnel EXCEPT !.map = m]]
       /\ map' = [map EXCEPT ![m].rtc = i]

PeerUp(i) ==
  /\ tunnel[i].map # 0 /\ tunnel[i].peer = "none" /\ tunnel[i].cb
  /\ tunnel' = [tunnel EXCEPT ![i].peer = "up"]
  /\ UNCHANGED <<entry, saved, active, map, fwd, job>>

ChannelOpens(i) ==
  /\ tunnel[i].peer = "up" /\ tunnel[i].dc = "none" /\ tunnel[i].cb
  /\ tunnel' = [tunnel EXCEPT ![i].dc = "open", ![i].opening = "ask"]
  /\ UNCHANGED <<entry, saved, active, map, fwd, job>>

(* The device or the network ends the connection; the client closes itself when it hears of it. *)
PeerDown(i) ==
  /\ tunnel[i].peer = "up"
  /\ tunnel' = [tunnel EXCEPT ![i].peer = "down"]
  /\ UNCHANGED <<entry, saved, active, map, fwd, job>>

NoticePeerDown(i) ==
  /\ tunnel[i].peer = "down" /\ tunnel[i].cb
  /\ tunnel' = [tunnel EXCEPT ![i] = CloseTunnel(@)]
  /\ UNCHANGED <<entry, saved, active, map, fwd, job>>

(* The channel of a connection that went is closed: OnClose runs if the callback is still there. *)
ChannelCloses(i) ==
  /\ tunnel[i].peer = "down" /\ tunnel[i].dc = "open"
  /\ tunnel' = [tunnel EXCEPT ![i].dc = "closed", ![i].handler = IF tunnel[i].cb THEN "close" ELSE "no"]
  /\ UNCHANGED <<entry, saved, active, map, fwd, job>>

------------------------------------------------------------------------------
(* Forwarder *)

CloseForwarder(f) == [f EXCEPT !.mux = FALSE, !.lis = IF @ = "open" THEN "closed" ELSE @]

(* The multiplexer misses its keep-alives, or reads that the channel is closed. *)
KeepAliveFails(i) ==
  /\ fwd[i].mux /\ tunnel[i].dc # "closed"
  /\ fwd' = [fwd EXCEPT ![i].mux = FALSE]
  /\ UNCHANGED <<entry, saved, active, map, tunnel, job>>

MuxDies(i) ==
  /\ fwd[i].mux /\ tunnel[i].dc = "closed"
  /\ fwd' = [fwd EXCEPT ![i].mux = FALSE]
  /\ UNCHANGED <<entry, saved, active, map, tunnel, job>>

PortFree(i) == \A j \in Tunnels : fwd[j].lis = "open" => PortOf(j) # PortOf(i)

(* The port may be held by a listener of the program, or by another program. *)
Listens(i, listening) ==
  \/ PortFree(i) /\ fwd' = [fwd EXCEPT ![i] = listening]
  \/ fwd' = [fwd EXCEPT ![i] = CloseForwarder([@ EXCEPT !.pc = "done"])]

(* Mutant: nobody watches the multiplexer. *)
StartMuxPortMapUnwatched(i) ==
  /\ fwd[i].pc = "start" /\ ModeOf(i) = 0
  /\ Listens(i, [fwd[i] EXCEPT !.lis = "open", !.pc = "serve"])
  /\ UNCHANGED <<entry, saved, active, map, tunnel, job>>

(* A port map listens, then has its multiplexer watched. *)
StartMuxPortMap(i) ==
  /\ fwd[i].pc = "start" /\ ModeOf(i) = 0
  /\ Listens(i, [fwd[i] EXCEPT !.lis = "open", !.pc = "serve", !.monitor = "wait"])
  /\ UNCHANGED <<entry, saved, active, map, tunnel, job>>

(* A SOCKS5 server has it watched, then listens. *)
StartProxy(i) ==
  /\ fwd[i].pc = "start" /\ ModeOf(i) = 2
  /\ fwd' = [fwd EXCEPT ![i].pc = "listen", ![i].monitor = "wait"]
  /\ UNCHANGED <<entry, saved, active, map, tunnel, job>>

ProxyListens(i) ==
  /\ fwd[i].pc = "listen"
  /\ Listens(i, [fwd[i] EXCEPT !.lis = "open", !.pc = "serve"])
  /\ UNCHANGED <<entry, saved, active, map, tunnel, job>>

Monitor(i) ==
  /\ fwd[i].monitor = "wait" /\ ~fwd[i].mux
  /\ fwd' = [fwd EXCEPT ![i] = CloseForwarder([@ EXCEPT !.monitor = "done"])]
  /\ UNCHANGED <<entry, saved, active, map, tunnel, job>>

(* A connection is accepted: a stream is opened for it, and Start of a port map returns if that
   fails, as it does when the listener is closed. *)
ServeEnds(i) ==
  /\ fwd[i].pc = "serve"
  /\ fwd[i].lis = "closed" \/ (ModeOf(i) = 0 /\ ~fwd[i].mux)
  /\ fwd' = [fwd EXCEPT ![i] = CloseForwarder([@ EXCEPT !.pc = "done"])]
  /\ UNCHANGED <<entry, saved, active, map, tunnel, job>>

------------------------------------------------------------------------------
(* The map's callbacks *)

(* Open asks the device to forward its port and waits for the answer as long as the channel lives:
   the read deadline it sets does nothing. *)
OpenRefused(i) ==
  /\ tunnel[i].opening = "ask"
  /\ tunnel' = [tunnel EXCEPT ![i].opening = "no"]
  /\ UNCHANGED <<entry, saved, active, map, fwd, job>>

OpenForwarder(i) ==
  /\ tunnel[i].opening = "ask" /\ tunnel[i].dc = "open"
  /\ tunnel' = [tunnel EXCEPT ![i].opening = "no"]
  /\ map' = [map EXCEPT ![tunnel[i].map].fwd = i]
  /\ fwd' = [fwd EXCEPT ![i] = [NoForwarder EXCEPT !.made = TRUE, !.mux = TRUE, !.pc = "start"]]
  /\ UNCHANGED <<entry, saved, active, job>>

(* OnClose closes the map's tunnel and forwarder, whichever they are by now. *)
HandleClose(i) ==
  /\ tunnel[i].handler = "close"
  /\ LET m == map[tunnel[i].map]
         next == IF m.reconnect = 0 THEN "token" ELSE "no"
         t == [tunnel EXCEPT ![i].handler = next]
     IN /\ tunnel' = IF m.rtc = 0 THEN t ELSE [t EXCEPT ![m.rtc] = CloseTunnel(@)]
        /\ fwd' = IF m.fwd = 0 THEN fwd ELSE [fwd EXCEPT ![m.fwd] = CloseForwarder(@)]
        /\ IF m.reconnect = 0 THEN UNCHANGED <<entry, saved>>
           ELSE /\ entry' = [entry EXCEPT ![m.device] = 0]
                /\ saved' = [saved EXCEPT ![m.device] = 0]
  /\ UNCHANGED <<active, map, job>>

HandleNoToken(i) ==
  /\ tunnel[i].handler = "token"
  /\ tunnel' = [tunnel EXCEPT ![i].handler = "close"]
  /\ UNCHANGED <<entry, saved, active, map, fwd, job>>

HandleToken(i) ==
  /\ tunnel[i].handler = "token"
  /\ tunnel' = [tunnel EXCEPT ![i].handler = "dial"]
  /\ UNCHANGED <<entry, saved, active, map, fwd, job>>

HandleDial(i) ==
  /\ tunnel[i].handler = "dial"
  /\ \/ /\ UNCHANGED map /\ tunnel' = [tunnel EXCEPT ![i].handler = "no"]
     \/ \E j \in Tunnels :
          /\ tunnel[j].map = 0 /\ \A k \in 1..(j - 1) : tunnel[k].map # 0
          /\ tunnel' = [tunnel EXCEPT ![i].handler = "no", ![j] = [NoTunnel EXCEPT !.map = tunnel[i].map]]
          /\ map' = [map EXCEPT ![tunnel[i].map].rtc = j]
  /\ UNCHANGED <<entry, saved, active, fwd, job>>

------------------------------------------------------------------------------
(* Requests: ConnectDevice and DisconnectDevice of the service, create and delete over HTTP *)

(* A map that is taken down is told not to come back, then its tunnel is closed. *)
TakeDown(m) ==
  IF m = 0 THEN UNCHANGED <<map, tunnel>>
  ELSE IF map[m].rtc = 0 THEN UNCHANGED <<map, tunnel>>
  ELSE /\ map' = [map EXCEPT ![m].reconnect = 1]
       /\ tunnel' = [tunnel EXCEPT ![map[m].rtc] = CloseTunnel(@)]

(* A port in use is taken from the device asked for, whether that is the one that has it or not. *)
ConnectDevice(d, p, ph) ==
  /\ job = NoJob
  /\ job' = [NoJob EXCEPT !.pc = "new", !.device = d, !.port = p, !.phone = ph, !.via = "service"]
  /\ IF active[p] = None THEN UNCHANGED <<active, map, tunnel>>
     ELSE TakeDown(saved[d]) /\ active' = [active EXCEPT ![p] = None]
  /\ UNCHANGED <<entry, saved, fwd>>

CreatePortMap(d, p, ph, mode) ==
  /\ job = NoJob
  /\ job' = [NoJob EXCEPT !.pc = "new", !.device = d, !.port = p, !.phone = ph, !.mode = mode, !.via = "http"]
  /\ UNCHANGED <<entry, saved, active, map, tunnel, fwd>>

(* Refused: the device's port by the map registered for the device, which another map of that
   device takes the place of, and the local port. *)
Taken ==
  \E d \in Devices :
    /\ entry[d] # 0
    /\ \/ d = job.device /\ map[entry[d]].phone = job.phone
       \/ map[entry[d]].port = job.port

(* New registers the map before a token was had: without one it stays. *)
NewMap ==
  /\ job.pc = "new"
  /\ \/ /\ Taken
        /\ job' = NoJob /\ UNCHANGED <<entry, map>>
     \/ /\ ~Taken
        /\ \E m \in Maps :
             /\ m \notin Made /\ \A n \in 1..(m - 1) : n \in Made
             /\ map' = [map EXCEPT ![m] = [NoMap EXCEPT !.device = job.device, !.port = job.port,
                                                    !.phone = job.phone, !.mode = job.mode]]
             /\ entry' = [entry EXCEPT ![job.device] = m]
             /\ job' = [job EXCEPT !.pc = "token", !.map = m]
  /\ UNCHANGED <<saved, active, tunnel, fwd>>

NoToken ==
  /\ job.pc = "token"
  /\ job' = NoJob
  /\ UNCHANGED <<entry, saved, active, map, tunnel, fwd>>

ConnectMap ==
  /\ job.pc = "token"
  /\ Dial(job.map)
  /\ saved' = [saved EXCEPT ![job.device] = job.map]
  /\ job' = IF job.via = "http" THEN NoJob ELSE [job EXCEPT !.pc = "add"]
  /\ UNCHANGED <<entry, active, fwd>>

AddMapping ==
  /\ job.pc = "add"
  /\ active' = [active EXCEPT ![job.port] = job.device]
  /\ job' = NoJob
  /\ UNCHANGED <<entry, saved, map, tunnel, fwd>>

DisconnectDevice(p) ==
  /\ job = NoJob /\ active[p] # None
  /\ TakeDown(saved[active[p]])
  /\ active' = [active EXCEPT ![p] = None]
  /\ UNCHANGED <<entry, saved, fwd, job>>

DeletePortMap(d) ==
  /\ job = NoJob /\ saved[d] # 0
  /\ TakeDown(saved[d])
  /\ saved' = [saved EXCEPT ![d] = 0]
  /\ UNCHANGED <<entry, active, fwd, job>>

------------------------------------------------------------------------------
Init ==
  /\ entry = [d \in Devices |-> 0] /\ saved = entry
  /\ active = [p \in Ports |-> None]
  /\ map = [m \in Maps |-> NoMap]
  /\ tunnel = [i \in Tunnels |-> NoTunnel]
  /\ fwd = [i \in Tunnels |-> NoForwarder]
  /\ job = NoJob

Request ==
  \/ \E d \in Devices, p \in Ports, ph \in Phones :
       ConnectDevice(d, p, ph) \/ \E mode \in MapModes : CreatePortMap(d, p, ph, mode)
  \/ NewMap \/ NoToken \/ ConnectMap \/ AddMapping
  \/ \E p \in Ports : DisconnectDevice(p)
  \/ \E d \in Devices : DeletePortMap(d)

Network(i) ==
  PeerUp(i) \/ ChannelOpens(i) \/ PeerDown(i) \/ OpenRefused(i) \/ OpenForwarder(i)
  \/ HandleNoToken(i) \/ HandleToken(i) \/ ServeEnds(i)
  \/ KeepAliveFails(i)

(* What the process itself goes on with. *)
Runs(i) ==
  NoticePeerDown(i) \/ HandleClose(i) \/ HandleDial(i) \/ StartProxy(i) \/ ProxyListens(i)

Next ==
  \/ Request
  \/ \E i \in Tunnels : Network(i) \/ Runs(i) \/ ChannelCloses(i) \/ MuxDies(i) \/ StartMuxPortMap(i) \/ Monitor(i)

Spec == Init /\ [][Next]_vars

(* Goroutines run on, and a connection that went is noticed. *)
Fairness ==
  \A i \in Tunnels :
    /\ WF_vars(Runs(i)) /\ WF_vars(ChannelCloses(i)) /\ WF_vars(MuxDies(i))
    /\ WF_vars(StartMuxPortMap(i)) /\ WF_vars(Monitor(i))

FairSpec == Spec /\ Fairness

------------------------------------------------------------------------------
TypeOK ==
  /\ \A d \in Devices : entry[d] \in 0..MaxMaps /\ saved[d] \in 0..MaxMaps
  /\ \A p \in Ports : active[p] \in Devices \cup {None}
  /\ \A m \in Maps : map[m].rtc \in 0..MaxTunnels /\ map[m].fwd \in 0..MaxTunnels
  /\ \A i \in Tunnels : fwd[i].lis \in {"none", "open", "closed"}

(* When the tunnel of a map is gone, whoever took it down and whether the map hears of it or not, the map's
   local port is let go.  Except: the multiplexer of a SOCKS5 map was found dead before the map listened.
   Nobody watches it any more, and the port is held for ever. *)
ListensUnwatched(i) == ModeOf(i) = 2 /\ fwd[i].monitor = "done"

PortReleased ==
  \A i \in Tunnels : []<>~(fwd[i].lis = "open" /\ tunnel[i].peer = "down" /\ ~ListensUnwatched(i))
==============================================================================
