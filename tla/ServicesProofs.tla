---------------------------- MODULE ServicesProofs ----------------------------
(* What TLAPS proves of the services below the flow engine, component by      *)
(* component: for each an inductive invariant of its own steps, which the      *)
(* behaviours of MCServices, steps of one component with the others at rest,   *)
(* inherit.                                                                    *)
EXTENDS MCServices, FiniteSetTheorems, TLAPS

(* The constants meet the assumptions of the modules. *)
LEMMA Bounds ==
  /\ MaxSeq \in Nat /\ MaxDrops \in Nat /\ MaxEvents \in Nat /\ MaxInbox \in Nat /\ 0 \notin Devices
  /\ MaxLinks \in Nat /\ MaxAsks \in Nat /\ MaxUpsets \in Nat
  BY ServicesAssumption DEF Sync!SyncAssumption, Rtc!LinkAssumption

------------------------------------------------------------------------------
(* SyncCalls: numbers identify commands *)

SyncCommands == Sync!AgentCommands \cup Sync!DeviceCommands \cup Sync!ImageCommands \cup {"screenChange", "none"}

SyncMessages == [seq : 0..MaxSeq, cmd : SyncCommands, target : Sync!Targets]

SyncPlaces == {"idle", "send", "store", "stored", "select", "forget", "close"}

SyncRecords ==
  [pc : SyncPlaces, cmd : SyncCommands, target : Sync!Targets, seq : 0..MaxSeq,
   ret : {"none", "answer", "Timeout"}, got : SyncMessages]

SyncTypes ==
  /\ seq \in 0..MaxSeq /\ wait \subseteq 1..MaxSeq
  /\ chan \in [1..MaxSeq -> {"none", "open", "closed"}]
  /\ call \in [Callers -> SyncRecords]
  /\ asked \subseteq SyncMessages /\ inbox \in Seq(SyncMessages)
  /\ reader \in [pc : {"idle", "offer"}, msg : SyncMessages]

(* A caller that is busy holds a number given out already, which no other caller holds. *)
NumberIsOne ==
  /\ \A c \in Callers : call[c].pc # "idle" => call[c].seq \in 1..seq
  /\ \A c \in Callers : call[c].pc = "idle" => call[c] = Sync!Idle
  /\ \A c, d \in Callers : call[c].pc # "idle" /\ call[d].seq = call[c].seq => d = c

(* m carries a number given out, and the command of the caller who holds that number. *)
CarriesOwn(m) ==
  /\ m.seq <= seq
  /\ \A c \in Callers : call[c].pc # "idle" /\ call[c].seq = m.seq => m.cmd = call[c].cmd /\ m.target = call[c].target

MessagesOwn ==
  /\ \A m \in asked : CarriesOwn(m)
  /\ \A i \in 1..Len(inbox) : CarriesOwn(inbox[i])
  /\ CarriesOwn(reader.msg)

SyncInv == SyncTypes /\ NumberIsOne /\ MessagesOwn /\ Sync!AnswerIsOwn /\ Sync!WaitForgotten

LEMMA SyncInit == ASSUME Sync!Init PROVE SyncInv
  BY Bounds DEF Sync!Init, SyncInv, SyncTypes, NumberIsOne, MessagesOwn, CarriesOwn, Sync!AnswerIsOwn,
     Sync!WaitForgotten, Sync!Idle, Sync!NoMessage, SyncRecords, SyncMessages, SyncCommands, SyncPlaces, Sync!Targets

LEMMA SyncStutter ==
  ASSUME SyncInv, UNCHANGED <<seq, wait, chan, call, asked, inbox, reader>>
  PROVE  SyncInv'
  BY DEF SyncInv, SyncTypes, NumberIsOne, MessagesOwn, CarriesOwn, Sync!AnswerIsOwn, Sync!WaitForgotten

(* A new number is above every number in use. *)
LEMMA IssueKeeps ==
  ASSUME SyncInv, NEW c \in Callers, NEW t \in Sync!Targets, NEW cmd \in Sync!Commands(t), Sync!Issue(c, t, cmd)
  PROVE  SyncInv'
<1>. USE Bounds DEF SyncInv
<1>. DEFINE r == [pc |-> "send", cmd |-> cmd, target |-> t, seq |-> seq + 1, ret |-> "none", got |-> Sync!NoMessage]
<1>1. r \in SyncRecords
  <2>1. cmd \in SyncCommands
    BY DEF Sync!Commands, SyncCommands
  <2>2. Sync!NoMessage \in SyncMessages
    BY DEF Sync!NoMessage, SyncMessages, SyncCommands, Sync!Targets
  <2>3. seq + 1 \in 0..MaxSeq
    BY DEF Sync!Issue, SyncTypes
  <2>. QED BY <2>1, <2>2, <2>3 DEF SyncRecords, SyncPlaces
<1>2. /\ call' = [call EXCEPT ![c] = r]
      /\ seq' = seq + 1 /\ call[c].pc = "idle" /\ seq < MaxSeq
      /\ UNCHANGED <<wait, chan, asked, inbox, reader>>
  BY DEF Sync!Issue, Sync!NextSeq
<1>3. /\ r.pc = "send" /\ r.seq = seq + 1 /\ r.ret = "none"
      /\ call'[c] = r /\ \A d \in Callers \ {c} : call'[d] = call[d]
  BY <1>2 DEF SyncTypes
<1>. HIDE DEF r
<1>4. SyncTypes'
  BY <1>1, <1>2 DEF SyncTypes
<1>5. \A d \in Callers : call[d].seq <= seq
  BY DEF SyncTypes, NumberIsOne, Sync!Idle, SyncRecords
<1>6. NumberIsOne'
  <2>1. \A d \in Callers : call'[d].pc # "idle" => call'[d].seq \in 1..seq'
    BY <1>2, <1>3 DEF NumberIsOne, SyncTypes
  <2>2. \A d \in Callers : call'[d].pc = "idle" => call'[d] = Sync!Idle
    BY <1>2, <1>3 DEF NumberIsOne, SyncTypes
  <2>3. ASSUME NEW d \in Callers, NEW e \in Callers, call'[d].pc # "idle", call'[e].seq = call'[d].seq
        PROVE  e = d
    BY <2>3, <1>2, <1>3, <1>5 DEF NumberIsOne, SyncTypes
  <2>. QED BY <2>1, <2>2, <2>3 DEF NumberIsOne
<1>7. \A m \in SyncMessages : CarriesOwn(m) => CarriesOwn(m)'
  BY <1>2, <1>3 DEF CarriesOwn, SyncTypes, SyncMessages
<1>8. MessagesOwn'
  BY <1>7, <1>2 DEF MessagesOwn, SyncTypes, Sync!NoMessage
<1>9. Sync!AnswerIsOwn'
  BY <1>2, <1>3 DEF Sync!AnswerIsOwn, SyncTypes
<1>10. Sync!WaitForgotten'
  BY <1>2, <1>3 DEF Sync!WaitForgotten, SyncTypes
<1>. QED BY <1>4, <1>6, <1>8, <1>9, <1>10

(* A caller keeps its number and its command until it returns. *)
LEMMA CallerMoves ==
  ASSUME SyncInv, NEW c \in Callers, NEW r \in SyncRecords, call[c].pc # "idle",
         call' = [call EXCEPT ![c] = r], UNCHANGED seq,
         r = Sync!Idle \/ (r.pc # "idle" /\ r.seq = call[c].seq /\ r.cmd = call[c].cmd /\ r.target = call[c].target)
  PROVE  /\ call'[c] = r /\ \A d \in Callers \ {c} : call'[d] = call[d]
         /\ call' \in [Callers -> SyncRecords]
         /\ NumberIsOne'
         /\ \A m \in SyncMessages : CarriesOwn(m) => CarriesOwn(m)'
<1>. USE DEF SyncInv
<1>1. /\ call'[c] = r /\ \A d \in Callers \ {c} : call'[d] = call[d]
      /\ call' \in [Callers -> SyncRecords]
  BY DEF SyncTypes
<1>2. r = Sync!Idle => r.pc = "idle" /\ r.seq = 0
  BY DEF Sync!Idle
<1>3. NumberIsOne'
  <2>1. \A d \in Callers : call'[d].pc # "idle" => call'[d].seq \in 1..seq'
    BY <1>1, <1>2 DEF NumberIsOne
  <2>2. \A d \in Callers : call'[d].pc = "idle" => call'[d] = Sync!Idle
    BY <1>1 DEF NumberIsOne
  <2>3. ASSUME NEW d \in Callers, NEW e \in Callers, call'[d].pc # "idle", call'[e].seq = call'[d].seq
        PROVE  e = d
    BY <2>3, <1>1, <1>2 DEF NumberIsOne
  <2>. QED BY <2>1, <2>2, <2>3 DEF NumberIsOne
<1>4. \A m \in SyncMessages : CarriesOwn(m) => CarriesOwn(m)'
  BY <1>1, <1>2 DEF CarriesOwn
<1>. QED BY <1>1, <1>3, <1>4

(* What a caller does until its call returns. *)
LEMMA CallerKeeps == ASSUME SyncInv, NEW c \in Callers, Sync!CallerStep(c) PROVE SyncInv'
<1>. USE Bounds DEF SyncInv
<1>1. /\ call[c] \in SyncRecords /\ Sync!Idle \in SyncRecords
      /\ \A r : r = Sync!Idle => r.pc = "idle" /\ r.ret = "none"
  BY DEF SyncTypes, SyncRecords, Sync!Idle, Sync!NoMessage, SyncMessages, SyncCommands, SyncPlaces, Sync!Targets
<1>2. CASE Sync!SendCall(c)
  <2>. DEFINE r == IF up THEN [call[c] EXCEPT !.pc = "store"] ELSE Sync!Idle
              n == [seq |-> call[c].seq, cmd |-> call[c].cmd, target |-> call[c].target]
  <2>1. /\ call[c].pc = "send" /\ call' = [call EXCEPT ![c] = r]
        /\ asked' = IF up THEN asked \cup {n} ELSE asked
        /\ UNCHANGED <<seq, wait, chan, inbox, reader>>
    BY <1>2, <1>1 DEF Sync!SendCall, Sync!Send, SyncTypes
  <2>2. /\ (r \in SyncRecords /\ r.ret = call[c].ret /\ r.got = call[c].got) \/ r = Sync!Idle
        /\ r = Sync!Idle \/ (r.pc # "idle" /\ r.seq = call[c].seq /\ r.cmd = call[c].cmd /\ r.target = call[c].target)
    BY <1>1 DEF SyncRecords, SyncPlaces
  <2>. HIDE DEF r
  <2>3. /\ call'[c] = r /\ \A d \in Callers \ {c} : call'[d] = call[d]
        /\ call' \in [Callers -> SyncRecords]
        /\ NumberIsOne'
        /\ \A m \in SyncMessages : CarriesOwn(m) => CarriesOwn(m)'
    BY <2>1, <2>2, <1>1, CallerMoves
  <2>4. n \in SyncMessages /\ CarriesOwn(n)
    <3>1. n \in SyncMessages
      BY <1>1 DEF SyncMessages, SyncRecords
    <3>2. n.seq = call[c].seq /\ n.cmd = call[c].cmd /\ n.target = call[c].target
      OBVIOUS
    <3>3. \A d \in Callers : call[d].pc # "idle" /\ call[d].seq = n.seq => d = c
      BY <2>1, <3>2 DEF NumberIsOne
    <3>4. n.seq <= seq
      BY <2>1, <3>2 DEF NumberIsOne, SyncTypes
    <3>. QED BY <3>1, <3>2, <3>3, <3>4 DEF CarriesOwn
  <2>. HIDE DEF n
  <2>5. SyncTypes'
    BY <2>1, <2>3, <2>4 DEF SyncTypes
  <2>6. MessagesOwn'
    BY <2>1, <2>3, <2>4 DEF MessagesOwn, SyncTypes
  <2>7. Sync!AnswerIsOwn'
    BY <2>2, <2>3, <1>1 DEF Sync!AnswerIsOwn
  <2>8. Sync!WaitForgotten'
    BY <2>1, <2>3 DEF Sync!WaitForgotten
  <2>. QED BY <2>3, <2>5, <2>6, <2>7, <2>8
<1>3. CASE Sync!StoreWait(c)
  <2>. DEFINE r == [call[c] EXCEPT !.pc = "stored"]
  <2>1. /\ call[c].pc = "store" /\ call' = [call EXCEPT ![c] = r]
        /\ wait' = wait \cup {call[c].seq} /\ chan' = [chan EXCEPT ![call[c].seq] = "open"]
        /\ UNCHANGED <<seq, asked, inbox, reader>>
    BY <1>3, <1>1 DEF Sync!StoreWait, SyncTypes
  <2>2. /\ r \in SyncRecords
        /\ r.pc = "stored" /\ r.ret = call[c].ret /\ r.seq = call[c].seq /\ r.cmd = call[c].cmd /\ r.target = call[c].target /\ r.got = call[c].got
    BY <1>1 DEF SyncRecords, SyncPlaces
  <2>. HIDE DEF r
  <2>3. /\ call'[c] = r /\ \A d \in Callers \ {c} : call'[d] = call[d]
        /\ call' \in [Callers -> SyncRecords]
        /\ NumberIsOne'
        /\ \A m \in SyncMessages : CarriesOwn(m) => CarriesOwn(m)'
    BY <2>1, <2>2, <1>1, CallerMoves
  <2>4. MessagesOwn'
    BY <2>1, <2>3 DEF MessagesOwn, SyncTypes
  <2>5. call[c].seq \in 1..MaxSeq /\ \A d \in Callers \ {c} : call[d].seq # call[c].seq
    BY <2>1 DEF NumberIsOne, SyncTypes
  <2>6. SyncTypes'
    BY <2>1, <2>3, <2>5 DEF SyncTypes
  <2>7. Sync!AnswerIsOwn'
    BY <2>2, <2>3, <1>1 DEF Sync!AnswerIsOwn
  <2>8. Sync!WaitForgotten'
    BY <2>1, <2>2, <2>3, <2>5, <1>1 DEF Sync!WaitForgotten, SyncTypes
  <2>. QED BY <2>3, <2>4, <2>6, <2>7, <2>8
<1>4. CASE Sync!Select(c)
  <2>. DEFINE r == [call[c] EXCEPT !.pc = "select"]
  <2>1. /\ call[c].pc = "stored" /\ call' = [call EXCEPT ![c] = r]
        /\ UNCHANGED <<wait, chan>>
        /\ UNCHANGED <<seq, asked, inbox, reader>>
    BY <1>4, <1>1 DEF Sync!Select, SyncTypes
  <2>2. /\ r \in SyncRecords
        /\ r.pc = "select" /\ r.ret = call[c].ret /\ r.seq = call[c].seq /\ r.cmd = call[c].cmd /\ r.target = call[c].target /\ r.got = call[c].got
    BY <1>1 DEF SyncRecords, SyncPlaces
  <2>. HIDE DEF r
  <2>3. /\ call'[c] = r /\ \A d \in Callers \ {c} : call'[d] = call[d]
        /\ call' \in [Callers -> SyncRecords]
        /\ NumberIsOne'
        /\ \A m \in SyncMessages : CarriesOwn(m) => CarriesOwn(m)'
    BY <2>1, <2>2, <1>1, CallerMoves
  <2>4. MessagesOwn'
    BY <2>1, <2>3 DEF MessagesOwn, SyncTypes
  <2>5. call[c].seq \in 1..MaxSeq /\ \A d \in Callers \ {c} : call[d].seq # call[c].seq
    BY <2>1 DEF NumberIsOne, SyncTypes
  <2>6. SyncTypes'
    BY <2>1, <2>3, <2>5 DEF SyncTypes
  <2>7. Sync!AnswerIsOwn'
    BY <2>2, <2>3, <1>1 DEF Sync!AnswerIsOwn
  <2>8. Sync!WaitForgotten'
    BY <2>1, <2>2, <2>3, <2>5, <1>1 DEF Sync!WaitForgotten, SyncTypes
  <2>. QED BY <2>3, <2>4, <2>6, <2>7, <2>8
<1>5. CASE Sync!Timeout(c)
  <2>. DEFINE r == [call[c] EXCEPT !.pc = "forget", !.ret = "Timeout"]
  <2>1. /\ call[c].pc = "select" /\ call' = [call EXCEPT ![c] = r]
        /\ UNCHANGED <<wait, chan>>
        /\ UNCHANGED <<seq, asked, inbox, reader>>
    BY <1>5, <1>1 DEF Sync!Timeout, SyncTypes
  <2>2. /\ r \in SyncRecords
        /\ r.pc = "forget" /\ r.ret = "Timeout" /\ r.seq = call[c].seq /\ r.cmd = call[c].cmd /\ r.target = call[c].target /\ r.got = call[c].got
    BY <1>1 DEF SyncRecords, SyncPlaces
  <2>. HIDE DEF r
  <2>3. /\ call'[c] = r /\ \A d \in Callers \ {c} : call'[d] = call[d]
        /\ call' \in [Callers -> SyncRecords]
        /\ NumberIsOne'
        /\ \A m \in SyncMessages : CarriesOwn(m) => CarriesOwn(m)'
    BY <2>1, <2>2, <1>1, CallerMoves
  <2>4. MessagesOwn'
    BY <2>1, <2>3 DEF MessagesOwn, SyncTypes
  <2>5. call[c].seq \in 1..MaxSeq /\ \A d \in Callers \ {c} : call[d].seq # call[c].seq
    BY <2>1 DEF NumberIsOne, SyncTypes
  <2>6. SyncTypes'
    BY <2>1, <2>3, <2>5 DEF SyncTypes
  <2>7. Sync!AnswerIsOwn'
    BY <2>2, <2>3, <1>1 DEF Sync!AnswerIsOwn
  <2>8. Sync!WaitForgotten'
    BY <2>1, <2>2, <2>3, <2>5, <1>1 DEF Sync!WaitForgotten, SyncTypes
  <2>. QED BY <2>3, <2>4, <2>6, <2>7, <2>8
<1>6. CASE Sync!ForgetWait(c)
  <2>. DEFINE r == [call[c] EXCEPT !.pc = "close"]
  <2>1. /\ call[c].pc = "forget" /\ call' = [call EXCEPT ![c] = r]
        /\ wait' = wait \ {call[c].seq} /\ UNCHANGED chan
        /\ UNCHANGED <<seq, asked, inbox, reader>>
    BY <1>6, <1>1 DEF Sync!ForgetWait, SyncTypes
  <2>2. /\ r \in SyncRecords
        /\ r.pc = "close" /\ r.ret = call[c].ret /\ r.seq = call[c].seq /\ r.cmd = call[c].cmd /\ r.target = call[c].target /\ r.got = call[c].got
    BY <1>1 DEF SyncRecords, SyncPlaces
  <2>. HIDE DEF r
  <2>3. /\ call'[c] = r /\ \A d \in Callers \ {c} : call'[d] = call[d]
        /\ call' \in [Callers -> SyncRecords]
        /\ NumberIsOne'
        /\ \A m \in SyncMessages : CarriesOwn(m) => CarriesOwn(m)'
    BY <2>1, <2>2, <1>1, CallerMoves
  <2>4. MessagesOwn'
    BY <2>1, <2>3 DEF MessagesOwn, SyncTypes
  <2>5. call[c].seq \in 1..MaxSeq /\ \A d \in Callers \ {c} : call[d].seq # call[c].seq
    BY <2>1 DEF NumberIsOne, SyncTypes
  <2>6. SyncTypes'
    BY <2>1, <2>3, <2>5 DEF SyncTypes
  <2>7. Sync!AnswerIsOwn'
    BY <2>2, <2>3, <1>1 DEF Sync!AnswerIsOwn
  <2>8. Sync!WaitForgotten'
    BY <2>1, <2>2, <2>3, <2>5, <1>1 DEF Sync!WaitForgotten, SyncTypes
  <2>. QED BY <2>3, <2>4, <2>6, <2>7, <2>8
<1>7. CASE Sync!CloseChan(c)
  <2>. DEFINE r == Sync!Idle
  <2>1. /\ call[c].pc = "close" /\ call' = [call EXCEPT ![c] = r]
        /\ UNCHANGED wait /\ chan' = [chan EXCEPT ![call[c].seq] = "closed"]
        /\ UNCHANGED <<seq, asked, inbox, reader>>
    BY <1>7, <1>1 DEF Sync!CloseChan, SyncTypes
  <2>2. /\ r \in SyncRecords
        /\ r = Sync!Idle
    BY <1>1 DEF SyncRecords, SyncPlaces
  <2>. HIDE DEF r
  <2>3. /\ call'[c] = r /\ \A d \in Callers \ {c} : call'[d] = call[d]
        /\ call' \in [Callers -> SyncRecords]
        /\ NumberIsOne'
        /\ \A m \in SyncMessages : CarriesOwn(m) => CarriesOwn(m)'
    BY <2>1, <2>2, <1>1, CallerMoves
  <2>4. MessagesOwn'
    BY <2>1, <2>3 DEF MessagesOwn, SyncTypes
  <2>5. call[c].seq \in 1..MaxSeq /\ \A d \in Callers \ {c} : call[d].seq # call[c].seq
    BY <2>1 DEF NumberIsOne, SyncTypes
  <2>6. SyncTypes'
    BY <2>1, <2>3, <2>5 DEF SyncTypes
  <2>7. Sync!AnswerIsOwn'
    BY <2>2, <2>3, <1>1 DEF Sync!AnswerIsOwn
  <2>8. Sync!WaitForgotten'
    <3>1. ASSUME NEW s \in wait
          PROVE  \E d \in Callers : call'[d].seq = s /\ call'[d].pc \in {"stored", "select", "forget"}
      <4>1. PICK d \in Callers : call[d].seq = s /\ call[d].pc \in {"stored", "select", "forget"}
        BY <1>1 DEF Sync!WaitForgotten
      <4>2. d # c
        BY <2>1, <4>1
      <4>. QED BY <2>3, <4>1, <4>2
    <3>2. ASSUME NEW s \in wait PROVE chan'[s] = "open"
      <4>1. PICK d \in Callers : call[d].seq = s /\ call[d].pc \in {"stored", "select", "forget"}
        BY <1>1 DEF Sync!WaitForgotten
      <4>2. s # call[c].seq
        BY <2>1, <2>5, <4>1
      <4>3. s \in 1..MaxSeq /\ chan[s] = "open"
        BY <1>1 DEF Sync!WaitForgotten, SyncTypes
      <4>. QED BY <2>1, <4>2, <4>3 DEF SyncTypes
    <3>. QED BY <2>1, <3>1, <3>2 DEF Sync!WaitForgotten
  <2>. QED BY <2>3, <2>4, <2>6, <2>7, <2>8
<1>. QED BY <1>2, <1>3, <1>4, <1>5, <1>6, <1>7 DEF Sync!CallerStep

(* A step that leaves the callers and the map of waiters as they are, and gives out no smaller number. *)
LEMMA OthersKeep ==
  ASSUME SyncInv, UNCHANGED <<call, wait, chan>>, seq' \in 0..MaxSeq, seq <= seq'
  PROVE  /\ NumberIsOne' /\ Sync!AnswerIsOwn' /\ Sync!WaitForgotten'
         /\ \A m \in SyncMessages : CarriesOwn(m) => CarriesOwn(m)'
<1>. USE Bounds DEF SyncInv
<1>1. NumberIsOne'
  BY DEF NumberIsOne, SyncTypes
<1>2. Sync!AnswerIsOwn' /\ Sync!WaitForgotten'
  BY DEF Sync!AnswerIsOwn, Sync!WaitForgotten
<1>3. \A m \in SyncMessages : CarriesOwn(m) => CarriesOwn(m)'
  BY DEF CarriesOwn, SyncTypes, SyncMessages
<1>. QED BY <1>1, <1>2, <1>3

LEMMA AnswerKeeps == ASSUME SyncInv, NEW m \in asked, Sync!Answer(m) PROVE SyncInv'
<1>. USE Bounds DEF SyncInv
<1>1. /\ asked' = asked \ {m} /\ inbox' = Append(inbox, m)
      /\ UNCHANGED <<call, wait, chan, seq, reader>>
  BY DEF Sync!Answer
<1>2. NumberIsOne' /\ Sync!AnswerIsOwn' /\ Sync!WaitForgotten' /\ \A n \in SyncMessages : CarriesOwn(n) => CarriesOwn(n)'
  BY <1>1, OthersKeep DEF SyncTypes
<1>3. SyncTypes'
  BY <1>1 DEF SyncTypes
<1>4. MessagesOwn'
  BY <1>1, <1>2, <1>3 DEF MessagesOwn, SyncTypes
<1>. QED BY <1>2, <1>3, <1>4

LEMMA LinkKeeps == ASSUME SyncInv, Sync!LoseLink \/ Sync!OpenLink \/ Sync!Report PROVE SyncInv'
<1>. USE Bounds DEF SyncInv
<1>1. /\ UNCHANGED <<call, wait, chan, reader>> /\ seq' \in 0..MaxSeq /\ seq <= seq'
  BY DEF Sync!LoseLink, Sync!OpenLink, Sync!Report, Sync!NextSeq, SyncTypes
<1>2. NumberIsOne' /\ Sync!AnswerIsOwn' /\ Sync!WaitForgotten' /\ \A n \in SyncMessages : CarriesOwn(n) => CarriesOwn(n)'
  BY <1>1, OthersKeep
<1>3. CASE Sync!LoseLink
  BY <1>1, <1>2, <1>3 DEF Sync!LoseLink, SyncTypes, MessagesOwn
<1>4. CASE Sync!OpenLink
  <2>. DEFINE n == [seq |-> seq + 1, cmd |-> "onlineList", target |-> 0]
  <2>1. asked' = asked \cup {n} /\ seq' = seq + 1 /\ inbox' = inbox
    BY <1>4 DEF Sync!OpenLink, Sync!NextSeq
  <2>2. n \in SyncMessages
    BY <1>1, <2>1 DEF SyncMessages, SyncCommands, Sync!AgentCommands, Sync!Targets, SyncTypes
  <2>3. \A x \in SyncMessages : x.seq = seq + 1 => CarriesOwn(x)'
    BY <1>1, <2>1 DEF CarriesOwn, NumberIsOne, SyncTypes, SyncMessages
  <2>4. n.seq = seq + 1
    OBVIOUS
  <2>. HIDE DEF n
  <2>. QED BY <1>1, <1>2, <2>1, <2>2, <2>3, <2>4 DEF SyncTypes, MessagesOwn
<1>5. CASE Sync!Report
  <2>1. PICK cmd \in {"onlineList", "screenChange"} : inbox' = Append(inbox, [seq |-> 0, cmd |-> cmd, target |-> 0])
    BY <1>5 DEF Sync!Report
  <2>. DEFINE n == [seq |-> 0, cmd |-> cmd, target |-> 0]
  <2>2. n \in SyncMessages
    BY DEF SyncMessages, SyncCommands, Sync!AgentCommands, Sync!Targets
  <2>3. CarriesOwn(n)
    BY DEF CarriesOwn, NumberIsOne, SyncTypes
  <2>4. inbox' = Append(inbox, n) /\ asked' = asked
    BY <2>1, <1>5 DEF Sync!Report
  <2>. HIDE DEF n
  <2>5. SyncTypes'
    BY <1>1, <2>2, <2>4 DEF SyncTypes
  <2>6. \A i \in 1..Len(inbox') : CarriesOwn(inbox[i])'
    <3>1. ASSUME NEW i \in 1..Len(inbox') PROVE CarriesOwn(inbox[i])'
      <4>1. PICK m : m = inbox'[i]
        OBVIOUS
      <4>2. m \in SyncMessages /\ CarriesOwn(m)
        BY <2>2, <2>3, <2>4, <3>1, <4>1 DEF SyncTypes, MessagesOwn
      <4>. QED BY <1>2, <4>1, <4>2
    <3>. QED BY <3>1
  <2>. QED BY <1>1, <1>2, <2>4, <2>5, <2>6 DEF SyncTypes, MessagesOwn
<1>. QED BY <1>3, <1>4, <1>5

LEMMA ReadKeeps == ASSUME SyncInv, Sync!ReadMessage PROVE SyncInv'
<1>. USE Bounds DEF SyncInv
<1>1. /\ UNCHANGED <<call, wait, chan, asked>> /\ inbox # <<>> /\ inbox' = Tail(inbox)
      /\ reader' = [pc |-> "offer", msg |-> Head(inbox)] \/ UNCHANGED reader
  BY DEF Sync!ReadMessage
<1>2. seq' \in 0..MaxSeq /\ seq <= seq'
  BY DEF Sync!ReadMessage, Sync!NextSeq, SyncTypes
<1>3. NumberIsOne' /\ Sync!AnswerIsOwn' /\ Sync!WaitForgotten' /\ \A n \in SyncMessages : CarriesOwn(n) => CarriesOwn(n)'
  BY <1>1, <1>2, OthersKeep
<1>4. /\ Len(inbox) > 0 /\ Head(inbox) = inbox[1] /\ Head(inbox) \in SyncMessages
      /\ Len(inbox') = Len(inbox) - 1 /\ inbox' \in Seq(SyncMessages)
      /\ \A i \in 1..Len(inbox') : inbox'[i] = inbox[i + 1]
  BY <1>1 DEF SyncTypes
<1>5. SyncTypes'
  BY <1>1, <1>2, <1>4 DEF SyncTypes
<1>6. \A i \in 1..Len(inbox) : inbox[i] \in SyncMessages /\ CarriesOwn(inbox[i])
  BY DEF SyncTypes, MessagesOwn
<1>7. MessagesOwn'
  <2>1. ASSUME NEW i \in 1..Len(inbox') PROVE CarriesOwn(inbox[i])'
    <3>1. PICK m : m = inbox[i + 1]
      OBVIOUS
    <3>2. m \in SyncMessages /\ CarriesOwn(m) /\ inbox'[i] = m
      BY <1>4, <1>6, <3>1 DEF SyncTypes
    <3>. QED BY <1>3, <3>2
  <2>2. PICK h : h = Head(inbox)
    OBVIOUS
  <2>3. h \in SyncMessages /\ CarriesOwn(h) /\ (reader'.msg = h \/ UNCHANGED reader)
    BY <1>1, <1>4, <1>6, <2>2 DEF SyncTypes
  <2>4. CarriesOwn(reader.msg)'
    <3>1. PICK g : g = reader.msg
      OBVIOUS
    <3>2. g \in SyncMessages /\ CarriesOwn(g) /\ (reader'.msg = h \/ reader'.msg = g)
      BY <2>3, <3>1 DEF SyncTypes, MessagesOwn
    <3>. QED BY <1>3, <2>3, <3>2
  <2>5. \A m \in asked' : CarriesOwn(m)'
    BY <1>1, <1>3 DEF MessagesOwn, SyncTypes
  <2>. QED BY <2>1, <2>4, <2>5 DEF MessagesOwn
<1>. QED BY <1>3, <1>5, <1>7

(* Who is given the message holds its number, and so is given the answer to the command it sent. *)
LEMMA OfferKeeps == ASSUME SyncInv, Sync!Offer PROVE SyncInv'
<1>. USE Bounds DEF SyncInv
<1>. DEFINE takes(c) == call[c].pc = "select" /\ call[c].seq = reader.msg.seq /\ chan[reader.msg.seq] = "open"
            r(c) == [call[c] EXCEPT !.pc = "forget", !.ret = "answer", !.got = reader.msg]
<1>1. /\ call' = [c \in Callers |-> IF takes(c) THEN r(c) ELSE call[c]]
      /\ reader' = [pc |-> "idle", msg |-> Sync!NoMessage]
      /\ UNCHANGED <<seq, wait, chan, asked, inbox>>
  BY DEF Sync!Offer
<1>2. ASSUME NEW c \in Callers
      PROVE  /\ call'[c] \in SyncRecords
             /\ call'[c].seq = call[c].seq /\ call'[c].cmd = call[c].cmd /\ call'[c].target = call[c].target
             /\ ~takes(c) => call'[c] = call[c]
             /\ takes(c) => call'[c].pc = "forget" /\ call'[c].got = reader.msg
  BY <1>1 DEF SyncTypes, SyncRecords, SyncPlaces
<1>3. /\ reader' \in [pc : {"idle", "offer"}, msg : SyncMessages] /\ CarriesOwn(reader.msg)'
  <2>1. Sync!NoMessage \in SyncMessages
    BY DEF Sync!NoMessage, SyncMessages, SyncCommands, Sync!Targets
  <2>2. \A m : m = Sync!NoMessage => m.seq = 0
    BY DEF Sync!NoMessage
  <2>3. \A c \in Callers : call'[c].pc # "idle" => call'[c].seq # 0
    <3>1. \A c \in Callers : takes(c) => call[c].pc # "idle"
      OBVIOUS
    <3>. HIDE DEF takes, r
    <3>. QED BY <1>2, <3>1 DEF NumberIsOne, SyncTypes
  <2>4. reader'.msg = Sync!NoMessage /\ reader'.msg.seq = 0
    BY <1>1, <2>2
  <2>. HIDE DEF takes, r
  <2>5. CarriesOwn(reader.msg)'
    <3>1. \A c \in Callers : call'[c].pc = "idle" \/ call'[c].seq # reader'.msg.seq
      BY <2>3, <2>4
    <3>2. seq' >= 0
      BY <1>1 DEF SyncTypes
    <3>. QED BY <2>4, <3>1, <3>2 DEF CarriesOwn
  <2>. QED BY <1>1, <2>1, <2>5
<1>4. \A c \in Callers : takes(c) => reader.msg.cmd = call[c].cmd /\ reader.msg.target = call[c].target
  BY DEF MessagesOwn, CarriesOwn
<1>5. \A c \in Callers : takes(c) => call[c].pc = "select"
  OBVIOUS
<1>. HIDE DEF takes, r
<1>6. SyncTypes'
  <2>1. call' \in [Callers -> SyncRecords]
    BY <1>1, <1>2
  <2>. QED BY <1>1, <1>3, <2>1 DEF SyncTypes
<1>7. NumberIsOne'
  <2>1. \A c \in Callers : call'[c].pc = "idle" => call'[c] = call[c]
    BY <1>2
  <2>2. \A c \in Callers : call'[c].pc # "idle" => call[c].pc # "idle"
    BY <1>2, <1>5
  <2>. QED BY <1>1, <1>2, <2>1, <2>2 DEF NumberIsOne
<1>8. MessagesOwn'
  <2>1. \A m \in SyncMessages : CarriesOwn(m) => CarriesOwn(m)'
    BY <1>1, <1>2, <1>5 DEF CarriesOwn
  <2>. QED BY <1>1, <1>3, <2>1 DEF MessagesOwn, SyncTypes
<1>9. Sync!AnswerIsOwn'
  BY <1>2, <1>4 DEF Sync!AnswerIsOwn
<1>10. Sync!WaitForgotten'
  BY <1>1, <1>2, <1>5 DEF Sync!WaitForgotten
<1>. QED BY <1>6, <1>7, <1>8, <1>9, <1>10

LEMMA SyncKeeps == ASSUME SyncInv, Sync!Next PROVE SyncInv'
<1>1. ASSUME NEW w \in Consoles, Sync!AddWsClient(w) \/ Sync!RemoveWsClient(w) PROVE SyncInv'
  BY <1>1, SyncStutter DEF Sync!AddWsClient, Sync!RemoveWsClient
<1>. QED BY <1>1, IssueKeeps, CallerKeeps, AnswerKeeps, LinkKeeps, ReadKeeps, OfferKeeps DEF Sync!Next

(* Every service keeps still while another steps. *)
LEMMA OneSteps ==
  ASSUME [Next]_vars
  PROVE  /\ UNCHANGED part
         /\ Sync!Next \/ UNCHANGED calling
         /\ Rtc!Next \/ UNCHANGED linking
         /\ Forward!Next \/ UNCHANGED forwarding
         /\ Packets!Next \/ UNCHANGED sending
         /\ (part = "push" /\ Push!Next) \/ (part = "push two" /\ PushTwo!Next) \/ UNCHANGED pushing
         /\ (part = "session" /\ Session!Next) \/ (part = "session more" /\ SessionMore!Next) \/ UNCHANGED requesting
  BY DEF Next, SyncStep, RtcStep, ForwardStep, PacketsStep, PushStep, SessionStep, vars

(* A command is answered by the answer to itself: of two commands in flight, or of one in flight and
   one that timed out, neither is given the answer of the other, whatever is lost or late. *)
THEOREM AnswersOwn == Spec => []AnswerIsOwn
<1>1. Init => SyncInv
  BY SyncInit DEF Init
<1>2. SyncInv /\ [Next]_vars => SyncInv'
  BY SyncKeeps, SyncStutter, OneSteps DEF calling
<1>3. SyncInv => AnswerIsOwn
  BY DEF SyncInv, AnswerIsOwn
<1>. QED BY <1>1, <1>2, <1>3, PTL DEF Spec

(* However a call ends, with its answer, its timer or a link that is gone, its entry in Wait goes
   before its channel is closed: no entry is left behind, and none leads to a closed channel. *)
THEOREM WaitsForgotten == Spec => []WaitForgotten
<1>1. Init => SyncInv
  BY SyncInit DEF Init
<1>2. SyncInv /\ [Next]_vars => SyncInv'
  BY SyncKeeps, SyncStutter, OneSteps DEF calling
<1>3. SyncInv => WaitForgotten
  BY DEF SyncInv, WaitForgotten
<1>. QED BY <1>1, <1>2, <1>3, PTL DEF Spec

(* What says nothing of the numbers. *)
SyncBounds ==
  /\ up \in BOOLEAN /\ crashed \in BOOLEAN /\ Len(inbox) <= MaxInbox
  /\ online \subseteq Devices /\ clients \subseteq Consoles

LEMMA SyncBoundsInit == ASSUME Sync!Init PROVE SyncBounds
<1>1. up = TRUE /\ crashed = FALSE /\ inbox = <<>> /\ online = {} /\ clients = {}
  BY DEF Sync!Init
<1>2. Len(<<>>) = 0 /\ 0 <= MaxInbox
  BY Bounds
<1>. QED BY <1>1, <1>2 DEF SyncBounds

LEMMA SyncBoundsKeep == ASSUME SyncInv, SyncBounds, Sync!Next PROVE SyncBounds'
<1>1. inbox \in Seq(SyncMessages) /\ up \in BOOLEAN /\ crashed \in BOOLEAN /\ Len(inbox) \in Nat /\ Len(inbox) <= MaxInbox
      /\ online \subseteq Devices /\ clients \subseteq Consoles
  BY DEF SyncInv, SyncTypes, SyncBounds
<1>2. ASSUME NEW c \in Callers, NEW t \in Sync!Targets, NEW cmd \in Sync!Commands(t), Sync!Issue(c, t, cmd)
      PROVE  SyncBounds'
  BY <1>1, <1>2 DEF Sync!Issue, SyncBounds
<1>3. ASSUME NEW c \in Callers, Sync!CallerStep(c) PROVE SyncBounds'
  <2>1. UNCHANGED <<up, crashed, inbox, online, clients>>
    BY <1>3 DEF Sync!CallerStep, Sync!SendCall, Sync!StoreWait, Sync!Select, Sync!Timeout, Sync!ForgetWait, Sync!CloseChan
  <2>. QED BY <1>1, <2>1 DEF SyncBounds
<1>4. ASSUME NEW m \in asked, Sync!Answer(m) PROVE SyncBounds'
  <2>1. m \in SyncMessages /\ inbox' = Append(inbox, m) /\ Len(inbox) < MaxInbox /\ UNCHANGED <<up, crashed, online, clients>>
    BY <1>4 DEF SyncInv, SyncTypes, Sync!Answer
  <2>2. Len(inbox') = Len(inbox) + 1
    BY <1>1, <2>1
  <2>. QED BY <1>1, <2>1, <2>2, Bounds DEF SyncBounds
<1>5. CASE Sync!Report
  <2>1. PICK m \in SyncMessages : inbox' = Append(inbox, m)
    BY <1>5, Bounds DEF Sync!Report, SyncMessages, SyncCommands, Sync!AgentCommands, Sync!Targets
  <2>2. Len(inbox) < MaxInbox /\ UNCHANGED <<up, crashed, online, clients>>
    BY <1>5 DEF Sync!Report
  <2>3. Len(inbox') = Len(inbox) + 1
    BY <1>1, <2>1
  <2>. QED BY <1>1, <2>2, <2>3, Bounds DEF SyncBounds
<1>6. CASE Sync!LoseLink \/ Sync!OpenLink
  <2>1. up' \in BOOLEAN /\ (inbox' = <<>> \/ inbox' = inbox) /\ UNCHANGED <<crashed, online, clients>>
    BY <1>6 DEF Sync!LoseLink, Sync!OpenLink
  <2>2. Len(<<>>) = 0 /\ 0 <= MaxInbox
    BY Bounds
  <2>. QED BY <1>1, <2>1, <2>2 DEF SyncBounds
<1>7. CASE Sync!ReadMessage
  <2>1. /\ inbox # <<>> /\ inbox' = Tail(inbox) /\ UNCHANGED <<up, crashed>>
        /\ clients' \subseteq clients /\ (UNCHANGED online \/ online' \subseteq Devices)
    BY <1>7 DEF Sync!ReadMessage
  <2>2. Len(inbox') = Len(inbox) - 1
    BY <1>1, <2>1
  <2>. QED BY <1>1, <2>1, <2>2, Bounds DEF SyncBounds
<1>8. CASE Sync!Offer
  BY <1>1, <1>8 DEF Sync!Offer, SyncBounds
<1>9. ASSUME NEW w \in Consoles, Sync!AddWsClient(w) \/ Sync!RemoveWsClient(w) PROVE SyncBounds'
  BY <1>1, <1>9 DEF Sync!AddWsClient, Sync!RemoveWsClient, SyncBounds
<1>. QED BY <1>2, <1>3, <1>4, <1>5, <1>6, <1>7, <1>8, <1>9 DEF Sync!Next

LEMMA SyncBoundsStutter == ASSUME SyncBounds, UNCHANGED calling PROVE SyncBounds'
  BY DEF SyncBounds, calling

LEMMA SyncTyped == ASSUME SyncInv, SyncBounds PROVE Sync!TypeOK
  BY DEF SyncInv, SyncTypes, SyncRecords, SyncBounds, Sync!TypeOK

------------------------------------------------------------------------------
(* RtcLinks: the once of Close *)

LinkRecords ==
  [agent : {0} \cup Rtc!Agents, by : 0..MaxLinks, ws : BOOLEAN, loop : {"none", "runs", "ended"}, asks : Int,
   peer : {"none", "new", "connected", "closed"}, chan : BOOLEAN, online : BOOLEAN, calls : Int, closing : Int,
   fired : {0, 1}, handler : {"none", "close", "token", "dial", "done"}]

AgentRecords == [made : BOOLEAN, rtc : 0..MaxLinks, code : Int, reconnect : {0, 1}]

CreatorRecords == [pc : {"idle", "new", "token", "save"}, agent : {0} \cup Rtc!Agents]

RtcTypes ==
  /\ registry \in {0} \cup Rtc!Agents
  /\ agent \in [Rtc!Agents -> AgentRecords]
  /\ link \in [Rtc!Links -> LinkRecords]
  /\ creator \in [Creators -> CreatorRecords]

(* What nobody dialled is as it was in the beginning, no agent has it for its link; a creator that
   dials has an agent to dial for. *)
LinksAreDialled ==
  /\ \A i \in Rtc!Links : link[i].agent = 0 => link[i] = Rtc!NoLink
  /\ \A a \in Rtc!Agents : agent[a].rtc # 0 => link[agent[a].rtc].agent # 0
  /\ \A c \in Creators : creator[c].pc \in {"token", "save"} => creator[c].agent # 0

(* No handler before the once. *)
OnceFirst == \A i \in Rtc!Links : link[i].fired = 0 => link[i].handler = "none"

RtcInv == RtcTypes /\ LinksAreDialled /\ OnceFirst

OneRedialStep == \A i \in Rtc!Links : link[i].handler = "done" => link'[i].handler = "done"

LEMMA AgentsCounted == 0 \notin Rtc!Agents /\ Rtc!Agents \subseteq Nat /\ Rtc!Links = 1..MaxLinks /\ MaxLinks \in Nat
<1>1. IsFiniteSet(Creators)
  BY ServicesAssumption DEF Rtc!LinkAssumption, Rtc!IsFiniteSet, IsFiniteSet
<1>2. Rtc!Cardinality(Creators) = Cardinality(Creators)
  BY DEF Rtc!Cardinality, Cardinality
<1>3. Cardinality(Creators) \in Nat
  BY <1>1, FS_CardinalityType
<1>. QED BY <1>2, <1>3, Bounds DEF Rtc!Agents, Rtc!Links

LEMMA NoLinkFields ==
  \A l : l = Rtc!NoLink =>
    /\ l \in LinkRecords /\ l.agent = 0 /\ l.ws = FALSE /\ l.loop = "none" /\ l.peer = "none" /\ l.calls = 0
    /\ l.closing = 0 /\ l.fired = 0 /\ l.handler = "none"
  BY Bounds DEF Rtc!NoLink, LinkRecords

LEMMA NewAgentFields == \A b : b = Rtc!NewAgent => b \in AgentRecords /\ b.rtc = 0
  BY Bounds DEF Rtc!NewAgent, AgentRecords

LEMMA RtcInit == ASSUME Rtc!Init PROVE RtcInv
<1>1. \A a \in Rtc!Agents : agent[a] \in AgentRecords /\ agent[a].rtc = 0
  <2>1. \A b : b = Rtc!NoAgent => b \in AgentRecords /\ b.rtc = 0
    BY Bounds, NewAgentFields DEF Rtc!NoAgent, AgentRecords
  <2>. QED BY <2>1 DEF Rtc!Init
<1>2. \A c \in Creators : creator[c] \in CreatorRecords /\ creator[c].pc = "idle"
  BY DEF Rtc!Init, Rtc!Idle, CreatorRecords
<1>3. RtcTypes
  BY <1>1, <1>2, NoLinkFields DEF RtcTypes, Rtc!Init
<1>. QED BY <1>1, <1>2, <1>3, NoLinkFields DEF RtcInv, LinksAreDialled, OnceFirst, Rtc!Init

(* What Close does before its once: a record of a link stays one, and its handler what it is. *)
LEMMA ShutKeeps ==
  ASSUME NEW l \in LinkRecords
  PROVE  /\ Rtc!Shut(l) \in LinkRecords /\ Rtc!Shut(l).agent = l.agent
         /\ Rtc!Shut(l).fired = l.fired /\ Rtc!Shut(l).handler = l.handler
<1>1. PICK n \in Int : n = IF l.peer \in {"new", "connected"} THEN l.calls + 1 ELSE l.calls
  BY DEF LinkRecords
<1>2. PICK p \in {"none", "closed"} : p = IF l.peer = "none" THEN l.peer ELSE "closed"
  OBVIOUS
<1>3. Rtc!Shut(l) = [l EXCEPT !.ws = FALSE, !.chan = FALSE, !.peer = p, !.calls = n]
  BY <1>1, <1>2 DEF Rtc!Shut, LinkRecords
<1>. QED BY <1>3 DEF LinkRecords

(* Only the first call of Close starts the handler. *)
LEMMA FireOnce ==
  ASSUME NEW l \in LinkRecords, l.fired = 0 => l.handler = "none"
  PROVE  /\ Rtc!Fire(l) \in LinkRecords /\ Rtc!Fire(l).agent = l.agent /\ Rtc!Fire(l).fired = 1
         /\ l.handler # "none" => Rtc!Fire(l).handler = l.handler
  BY DEF Rtc!Fire, LinkRecords

LEMMA CodeChanges ==
  ASSUME agent \in [Rtc!Agents -> AgentRecords], NEW a, NEW n \in Int, agent' = [agent EXCEPT ![a].code = n]
  PROVE  agent' \in [Rtc!Agents -> AgentRecords] /\ \A b \in Rtc!Agents : agent'[b].rtc = agent[b].rtc
  BY DEF AgentRecords

(* One link, dialled, is moved on; its agent's link stays what it is. *)
LEMMA LinkMoves ==
  ASSUME RtcInv, NEW i \in Rtc!Links, link[i].agent # 0, NEW r \in LinkRecords, link' = [link EXCEPT ![i] = r],
         r.agent = link[i].agent, r.fired = 0 => r.handler = "none", link[i].handler = "done" => r.handler = "done",
         registry' \in {0} \cup Rtc!Agents, UNCHANGED creator,
         agent' \in [Rtc!Agents -> AgentRecords], \A a \in Rtc!Agents : agent'[a].rtc = agent[a].rtc
  PROVE  RtcInv' /\ OneRedialStep
<1>. USE AgentsCounted DEF RtcInv
<1>1. /\ link'[i] = r /\ \A j \in Rtc!Links \ {i} : link'[j] = link[j]
      /\ link' \in [Rtc!Links -> LinkRecords]
  BY DEF RtcTypes
<1>2. RtcTypes'
  BY <1>1 DEF RtcTypes
<1>3. LinksAreDialled'
  <2>1. \A j \in Rtc!Links : link'[j].agent = link[j].agent
    BY <1>1
  <2>2. \A a \in Rtc!Agents : agent[a].rtc \in 0..MaxLinks
    BY DEF RtcTypes, AgentRecords
  <2>. QED BY <1>1, <2>1, <2>2 DEF LinksAreDialled
<1>4. OnceFirst' /\ OneRedialStep
  BY <1>1 DEF OnceFirst, OneRedialStep
<1>. QED BY <1>2, <1>3, <1>4

(* The signalling, the peer connection and the calls of Close. *)
LEMMA SignalKeeps ==
  ASSUME RtcInv, NEW i \in Rtc!Links, Rtc!Signal(i) \/ Rtc!EndLoop(i) \/ Rtc!Closing(i)
  PROVE  RtcInv' /\ OneRedialStep
<1>. USE AgentsCounted DEF RtcInv
<1>1. link[i] \in LinkRecords /\ (link[i].fired = 0 => link[i].handler = "none") /\ registry \in {0} \cup Rtc!Agents
      /\ agent \in [Rtc!Agents -> AgentRecords]
  BY DEF RtcTypes, OnceFirst
<1>2. link[i].agent = 0 => link[i] = Rtc!NoLink
  BY DEF LinksAreDialled
<1>3. CASE Rtc!HostOffline(i)
  <2>0. PICK n \in Int : n = IF link[i].asks < MaxAsks THEN link[i].asks + 1 ELSE link[i].asks
    BY <1>1 DEF LinkRecords
  <2>a. PICK w : w = (link[i].asks < MaxAsks)
    OBVIOUS
  <2>b. w \in BOOLEAN
    BY <2>a
  <2>. DEFINE r == [link[i] EXCEPT !.asks = n, !.ws = w]
  <2>1. link' = [link EXCEPT ![i] = r] /\ link[i].ws /\ UNCHANGED <<registry, creator, agent>>
    BY <1>3, <2>0, <2>a DEF Rtc!HostOffline, Rtc!Signalling, RtcTypes
  <2>2. link[i].agent # 0
    BY <1>2, <2>1, NoLinkFields
  <2>3. r \in LinkRecords /\ r.agent = link[i].agent /\ r.fired = link[i].fired /\ r.handler = link[i].handler
    BY <1>1, <2>0, <2>b DEF LinkRecords
  <2>. HIDE DEF r
  <2>. QED BY <1>1, <2>1, <2>2, <2>3, LinkMoves
<1>4. CASE Rtc!HostOnline(i)
  <2>0. PICK n \in Int : n = 0
    OBVIOUS
  <2>. DEFINE r == [link[i] EXCEPT !.peer = "new", !.asks = n]
  <2>1. link' = [link EXCEPT ![i] = r] /\ link[i].ws /\ UNCHANGED <<registry, creator, agent>>
    BY <1>4, <2>0 DEF Rtc!HostOnline, RtcTypes, Rtc!Signalling
  <2>2. link[i].agent # 0
    BY <1>2, <2>1, NoLinkFields
  <2>3. r \in LinkRecords /\ r.agent = link[i].agent /\ r.fired = link[i].fired /\ r.handler = link[i].handler
    BY <1>1, <2>0 DEF LinkRecords
  <2>. HIDE DEF r
  <2>. QED BY <1>1, <2>1, <2>2, <2>3, LinkMoves
<1>5. CASE Rtc!HostOnlineAgain(i)
  <2>0. PICK n \in Int : n = link[i].calls + 1
    BY <1>1 DEF LinkRecords
  <2>. DEFINE r == [link[i] EXCEPT !.peer = "new", !.calls = n]
  <2>1. link' = [link EXCEPT ![i] = r] /\ link[i].ws /\ UNCHANGED <<registry, creator, agent>>
    BY <1>5, <2>0 DEF Rtc!HostOnlineAgain, RtcTypes, Rtc!Signalling
  <2>2. link[i].agent # 0
    BY <1>2, <2>1, NoLinkFields
  <2>3. r \in LinkRecords /\ r.agent = link[i].agent /\ r.fired = link[i].fired /\ r.handler = link[i].handler
    BY <1>1, <2>0 DEF LinkRecords
  <2>. HIDE DEF r
  <2>. QED BY <1>1, <2>1, <2>2, <2>3, LinkMoves
<1>6. CASE Rtc!Answer(i)
  <2>. DEFINE r == [link[i] EXCEPT !.peer = "connected"]
  <2>1. link' = [link EXCEPT ![i] = r] /\ link[i].ws /\ UNCHANGED <<registry, creator, agent>>
    BY <1>6 DEF Rtc!Answer, RtcTypes, Rtc!Signalling
  <2>2. link[i].agent # 0
    BY <1>2, <2>1, NoLinkFields
  <2>3. r \in LinkRecords /\ r.agent = link[i].agent /\ r.fired = link[i].fired /\ r.handler = link[i].handler
    BY <1>1, Bounds DEF LinkRecords
  <2>. HIDE DEF r
  <2>. QED BY <1>1, <2>1, <2>2, <2>3, LinkMoves
<1>7. CASE Rtc!OpenChannel(i)
  <2>. DEFINE r == [link[i] EXCEPT !.chan = TRUE, !.online = TRUE]
  <2>1. link' = [link EXCEPT ![i] = r] /\ link[i].peer = "connected" /\ UNCHANGED <<registry, creator>>
        /\ agent' = [agent EXCEPT ![link[i].agent].code = 2]
    BY <1>7 DEF Rtc!OpenChannel, RtcTypes
  <2>2. link[i].agent # 0
    BY <1>2, <2>1, NoLinkFields
  <2>3. r \in LinkRecords /\ r.agent = link[i].agent /\ r.fired = link[i].fired /\ r.handler = link[i].handler
    BY <1>1, Bounds DEF LinkRecords
  <2>4. agent' \in [Rtc!Agents -> AgentRecords] /\ \A a \in Rtc!Agents : agent'[a].rtc = agent[a].rtc
    <3>1. PICK n \in Int : n = 2
      OBVIOUS
    <3>. QED BY <1>1, <2>1, <3>1, CodeChanges
  <2>. HIDE DEF r
  <2>. QED BY <1>1, <2>1, <2>2, <2>3, <2>4, LinkMoves
<1>8. CASE Rtc!PeerFails(i)
  <2>0. PICK n \in Int : n = link[i].calls + 2
    BY <1>1 DEF LinkRecords
  <2>. DEFINE r == [link[i] EXCEPT !.peer = "closed", !.calls = n]
  <2>1. link' = [link EXCEPT ![i] = r] /\ link[i].peer \in {"new", "connected"} /\ UNCHANGED <<registry, creator, agent>>
    BY <1>8, <2>0 DEF Rtc!PeerFails, RtcTypes
  <2>2. link[i].agent # 0
    BY <1>2, <2>1, NoLinkFields
  <2>3. r \in LinkRecords /\ r.agent = link[i].agent /\ r.fired = link[i].fired /\ r.handler = link[i].handler
    BY <1>1, <2>0 DEF LinkRecords
  <2>. HIDE DEF r
  <2>. QED BY <1>1, <2>1, <2>2, <2>3, LinkMoves
<1>9. CASE Rtc!LoseSignal(i)
  <2>. DEFINE r == [link[i] EXCEPT !.ws = FALSE]
  <2>1. link' = [link EXCEPT ![i] = r] /\ link[i].ws /\ UNCHANGED <<registry, creator, agent>>
    BY <1>9 DEF Rtc!LoseSignal, RtcTypes, Rtc!Signalling
  <2>2. link[i].agent # 0
    BY <1>2, <2>1, NoLinkFields
  <2>3. r \in LinkRecords /\ r.agent = link[i].agent /\ r.fired = link[i].fired /\ r.handler = link[i].handler
    BY <1>1, Bounds DEF LinkRecords
  <2>. HIDE DEF r
  <2>. QED BY <1>1, <2>1, <2>2, <2>3, LinkMoves
<1>10. CASE Rtc!EndLoop(i)
  <2>0. PICK n \in Int : n = IF link[i].peer = "connected" THEN link[i].calls ELSE link[i].calls + 1
    BY <1>1 DEF LinkRecords
  <2>. DEFINE r == [link[i] EXCEPT !.loop = "ended", !.calls = n]
  <2>1. link' = [link EXCEPT ![i] = r] /\ link[i].loop = "runs" /\ UNCHANGED <<registry, creator, agent>>
    BY <1>10, <2>0 DEF Rtc!EndLoop, RtcTypes
  <2>2. link[i].agent # 0
    BY <1>2, <2>1, NoLinkFields
  <2>3. r \in LinkRecords /\ r.agent = link[i].agent /\ r.fired = link[i].fired /\ r.handler = link[i].handler
    BY <1>1, <2>0 DEF LinkRecords
  <2>. HIDE DEF r
  <2>. QED BY <1>1, <2>1, <2>2, <2>3, LinkMoves
<1>11. CASE Rtc!CallClose(i)
  <2>. DEFINE l == [link[i] EXCEPT !.calls = @ - 1]
              r == [Rtc!Shut(l) EXCEPT !.closing = @ + 1]
  <2>1. link' = [link EXCEPT ![i] = r] /\ link[i].calls > 0 /\ UNCHANGED <<registry, creator, agent>>
    BY <1>11, Zenon DEF Rtc!CallClose
  <2>2. link[i].agent # 0
    BY <1>2, <2>1, NoLinkFields
  <2>3. l \in LinkRecords /\ l.agent = link[i].agent /\ l.fired = link[i].fired /\ l.handler = link[i].handler
    <3>1. PICK n \in Int : n = link[i].calls - 1
      BY <1>1 DEF LinkRecords
    <3>. QED BY <1>1, <3>1 DEF LinkRecords
  <2>. HIDE DEF l
  <2>4. Rtc!Shut(l) \in LinkRecords /\ Rtc!Shut(l).agent = l.agent
        /\ Rtc!Shut(l).fired = l.fired /\ Rtc!Shut(l).handler = l.handler
    BY <2>3, ShutKeeps
  <2>5. r \in LinkRecords /\ r.agent = link[i].agent /\ r.fired = link[i].fired /\ r.handler = link[i].handler
    <3>1. PICK s \in LinkRecords : s = Rtc!Shut(l)
      BY <2>4
    <3>2. PICK n \in Int : n = s.closing + 1
      BY DEF LinkRecords
    <3>. QED BY <2>3, <2>4, <3>1, <3>2 DEF LinkRecords
  <2>. HIDE DEF r
  <2>. QED BY <1>1, <2>1, <2>2, <2>5, LinkMoves
<1>12. CASE Rtc!CloseOnce(i)
  <2>. DEFINE l == [link[i] EXCEPT !.closing = @ - 1]
              r == Rtc!Fire(l)
  <2>1. link' = [link EXCEPT ![i] = r] /\ link[i].closing > 0 /\ UNCHANGED <<registry, creator, agent>>
    BY <1>12, Zenon DEF Rtc!CloseOnce
  <2>2. link[i].agent # 0
    BY <1>2, <2>1, NoLinkFields
  <2>3. l \in LinkRecords /\ l.agent = link[i].agent /\ l.fired = link[i].fired /\ l.handler = link[i].handler
    <3>1. PICK n \in Int : n = link[i].closing - 1
      BY <1>1 DEF LinkRecords
    <3>. QED BY <1>1, <3>1 DEF LinkRecords
  <2>. HIDE DEF l
  <2>4. /\ r \in LinkRecords /\ r.agent = link[i].agent /\ r.fired = 1
        /\ r.fired = 0 => r.handler = "none"
        /\ link[i].handler = "done" => r.handler = "done"
    BY <1>1, <2>3, FireOnce
  <2>. HIDE DEF r
  <2>. QED BY <1>1, <2>1, <2>2, <2>4, LinkMoves
<1>. QED BY <1>3, <1>4, <1>5, <1>6, <1>7, <1>8, <1>9, <1>10, <1>11, <1>12 DEF Rtc!Signal, Rtc!Closing

LEMMA ClosedKeeps ==
  ASSUME NEW l \in LinkRecords, l.fired = 0 => l.handler = "none"
  PROVE  /\ Rtc!Closed(l) \in LinkRecords /\ Rtc!Closed(l).agent = l.agent /\ Rtc!Closed(l).fired = 1
         /\ l.handler # "none" => Rtc!Closed(l).handler = l.handler
<1>1. PICK s \in LinkRecords : s = Rtc!Shut(l)
  BY ShutKeeps
<1>2. s.agent = l.agent /\ s.fired = l.fired /\ s.handler = l.handler
  BY <1>1, ShutKeeps
<1>3. Rtc!Closed(l) = Rtc!Fire(s)
  BY <1>1 DEF Rtc!Closed
<1>. QED BY <1>2, <1>3, FireOnce

(* Links are moved on; nobody is dialled. *)
LEMMA LinksMove ==
  ASSUME RtcInv, link' \in [Rtc!Links -> LinkRecords],
         \A j \in Rtc!Links : /\ link'[j].agent = link[j].agent
                              /\ link[j].agent = 0 => link'[j] = link[j]
                              /\ link'[j].fired = 0 => link'[j].handler = "none"
                              /\ link[j].handler = "done" => link'[j].handler = "done",
         registry' \in {0} \cup Rtc!Agents,
         creator' \in [Creators -> CreatorRecords],
         \A c \in Creators : creator'[c].pc \in {"token", "save"} => creator'[c].agent # 0,
         agent' \in [Rtc!Agents -> AgentRecords],
         \A a \in Rtc!Agents : agent'[a].rtc \in {0, agent[a].rtc}
  PROVE  RtcInv' /\ OneRedialStep
<1>. USE AgentsCounted DEF RtcInv
<1>1. RtcTypes'
  BY DEF RtcTypes
<1>2. LinksAreDialled'
  <2>1. \A a \in Rtc!Agents : agent[a].rtc \in 0..MaxLinks
    BY DEF RtcTypes, AgentRecords
  <2>2. \A a \in Rtc!Agents : agent'[a].rtc # 0 => link'[agent'[a].rtc].agent # 0
    BY <2>1 DEF LinksAreDialled
  <2>3. \A i \in Rtc!Links : link'[i].agent = 0 => link'[i] = Rtc!NoLink
    BY DEF LinksAreDialled
  <2>. QED BY <2>2, <2>3 DEF LinksAreDialled
<1>3. OnceFirst' /\ OneRedialStep
  BY DEF OnceFirst, OneRedialStep
<1>. QED BY <1>1, <1>2, <1>3

LEMMA TakeDownKeeps ==
  ASSUME RtcInv, NEW i \in Rtc!Links, link[i].handler \in {"close", "token"}, Rtc!TakeDown(i)
  PROVE  RtcInv' /\ OneRedialStep
<1>. USE AgentsCounted DEF RtcInv
<1>1. link \in [Rtc!Links -> LinkRecords] /\ agent \in [Rtc!Agents -> AgentRecords] /\ link[i].agent # 0
      /\ link[i].fired # 0 /\ \A j \in Rtc!Links : link[j].fired = 0 => link[j].handler = "none"
  BY NoLinkFields DEF RtcTypes, OnceFirst, LinksAreDialled
<1>2. PICK a \in Rtc!Agents : a = link[i].agent
  BY <1>1 DEF LinkRecords
<1>3. PICK next \in {"token", "done"} : next = IF agent[a].reconnect = 0 THEN "token" ELSE "done"
  OBVIOUS
<1>4. PICK f : f = [link EXCEPT ![i].online = FALSE, ![i].handler = next]
  OBVIOUS
<1>5. /\ link' = IF agent[a].rtc = 0 THEN f ELSE [f EXCEPT ![agent[a].rtc] = Rtc!Closed(@)]
      /\ agent' = [agent EXCEPT ![a].code = -1]
      /\ registry' \in {0} \cup Rtc!Agents /\ UNCHANGED creator
  BY <1>2, <1>3, <1>4 DEF Rtc!TakeDown, RtcTypes
<1>6. /\ f \in [Rtc!Links -> LinkRecords]
      /\ \A j \in Rtc!Links : f[j].agent = link[j].agent /\ f[j].fired = link[j].fired
      /\ \A j \in Rtc!Links \ {i} : f[j] = link[j]
      /\ f[i].handler = next
  <2>1. PICK r : r = [link[i] EXCEPT !.online = FALSE, !.handler = next]
    OBVIOUS
  <2>2. r \in LinkRecords /\ r.agent = link[i].agent /\ r.fired = link[i].fired /\ r.handler = next
    <3>1. PICK q \in LinkRecords : q = link[i]
      BY <1>1
    <3>2. [q EXCEPT !.online = FALSE] \in LinkRecords
      BY DEF LinkRecords
    <3>3. PICK g \in LinkRecords : g = [q EXCEPT !.online = FALSE]
      BY <3>2
    <3>4. r = [g EXCEPT !.handler = next]
      BY <2>1, <3>1, <3>3
    <3>5. r \in LinkRecords
      BY <3>4 DEF LinkRecords
    <3>6. g.agent = q.agent /\ g.fired = q.fired
      BY <3>3 DEF LinkRecords
    <3>7. r.agent = g.agent /\ r.fired = g.fired /\ r.handler = next
      BY <3>4 DEF LinkRecords
    <3>. QED BY <3>1, <3>5, <3>6, <3>7
  <2>3. link \in [Rtc!Links -> LinkRecords] /\ i \in Rtc!Links
    BY <1>1
  <2>4. f \in [Rtc!Links -> LinkRecords]
    BY <1>4, <2>1, <2>2, <2>3
  <2>5. f[i] = r /\ \A j \in Rtc!Links \ {i} : f[j] = link[j]
    BY <1>4, <2>1, <2>3
  <2>. QED BY <2>2, <2>4, <2>5
<1>7. agent' \in [Rtc!Agents -> AgentRecords] /\ \A b \in Rtc!Agents : agent'[b].rtc = agent[b].rtc
  <2>1. PICK n \in Int : n = -1
    OBVIOUS
  <2>. QED BY <1>1, <1>5, <2>1, CodeChanges
<1>8. creator' \in [Creators -> CreatorRecords]
      /\ \A c \in Creators : creator'[c].pc \in {"token", "save"} => creator'[c].agent # 0
  BY <1>5 DEF RtcTypes, LinksAreDialled
<1>9. CASE agent[a].rtc = 0
  BY <1>1, <1>5, <1>6, <1>7, <1>8, <1>9, LinksMove
<1>10. CASE agent[a].rtc # 0
  <2>1. PICK k \in Rtc!Links : k = agent[a].rtc
    BY <1>1, <1>10 DEF AgentRecords
  <2>2. link[k].agent # 0
    BY <1>10, <2>1 DEF LinksAreDialled
  <2>3. \A j \in Rtc!Links : f[j].fired = 0 => f[j].handler = "none"
    BY <1>1, <1>6
  <2>4. /\ link' \in [Rtc!Links -> LinkRecords] /\ \A j \in Rtc!Links \ {k} : link'[j] = f[j]
        /\ \A j \in Rtc!Links : /\ link'[j].agent = f[j].agent
                                /\ link'[j].fired = 0 => link'[j].handler = "none"
                                /\ f[j].handler # "none" => link'[j].handler = f[j].handler
    <3>1. PICK r : r = Rtc!Closed(f[k])
      OBVIOUS
    <3>2. r \in LinkRecords /\ r.agent = f[k].agent /\ r.fired = 1 /\ (f[k].handler # "none" => r.handler = f[k].handler)
      BY <1>6, <2>3, <3>1, ClosedKeeps
    <3>3. link' = [f EXCEPT ![k] = r]
      BY <1>5, <1>10, <2>1, <3>1
    <3>. QED BY <1>6, <2>3, <3>2, <3>3
  <2>. QED BY <1>1, <1>5, <1>6, <1>7, <1>8, <2>2, <2>4, LinksMove
<1>. QED BY <1>9, <1>10

LEMMA TokenKeeps == ASSUME RtcInv, NEW i \in Rtc!Links, Rtc!HandleToken(i) PROVE RtcInv' /\ OneRedialStep
<1>1. link[i] \in LinkRecords /\ link[i].agent # 0 /\ link[i].fired # 0
  BY NoLinkFields DEF RtcInv, RtcTypes, LinksAreDialled, OnceFirst, Rtc!HandleToken
<1>. DEFINE r == [link[i] EXCEPT !.handler = "dial"]
<1>2. link' = [link EXCEPT ![i] = r] /\ link[i].handler = "token" /\ UNCHANGED <<registry, creator, agent>>
  BY DEF Rtc!HandleToken, RtcInv, RtcTypes
<1>3. r \in LinkRecords /\ r.agent = link[i].agent /\ r.fired = link[i].fired
  BY <1>1 DEF LinkRecords
<1>4. registry \in {0} \cup Rtc!Agents /\ agent \in [Rtc!Agents -> AgentRecords]
  BY DEF RtcInv, RtcTypes
<1>. HIDE DEF r
<1>. QED BY <1>1, <1>2, <1>3, <1>4, LinkMoves

(* A dial takes a link nobody has dialled. *)
LEMMA ConnectKeeps ==
  ASSUME RtcInv, NEW a \in Rtc!Agents, NEW by \in 0..MaxLinks, by # 0 => link[by].handler = "dial", Rtc!Connect(a, by),
         UNCHANGED registry, creator' \in [Creators -> CreatorRecords],
         \A c \in Creators : creator'[c].pc \in {"token", "save"} => creator'[c].agent # 0
  PROVE  RtcInv' /\ OneRedialStep
<1>. USE AgentsCounted DEF RtcInv
<1>1. PICK i \in Rtc!Free, ok \in BOOLEAN :
        /\ link' = [j \in Rtc!Links |->
                      IF j = i THEN [Rtc!NoLink EXCEPT !.agent = a, !.by = by, !.ws = ok, !.loop = IF ok THEN "runs" ELSE "none"]
                      ELSE IF j = by THEN [link[j] EXCEPT !.handler = "done"] ELSE link[j]]
        /\ agent' = [agent EXCEPT ![a].rtc = i, ![a].code = IF ok THEN 1 ELSE -2]
  BY DEF Rtc!Connect
<1>2. i \in Rtc!Links /\ link[i].agent = 0 /\ link[i] = Rtc!NoLink /\ i # 0
  BY DEF Rtc!Free, LinksAreDialled
<1>3. by # 0 => by \in Rtc!Links /\ link[by].agent # 0 /\ by # i /\ link[by].fired # 0
  BY <1>2, NoLinkFields DEF LinksAreDialled, OnceFirst
<1>4. PICK n : n = [Rtc!NoLink EXCEPT !.agent = a, !.by = by, !.ws = ok, !.loop = IF ok THEN "runs" ELSE "none"]
  OBVIOUS
<1>5. n \in LinkRecords /\ n.agent = a /\ n.fired = 0 /\ n.handler = "none"
  <2>1. PICK z \in LinkRecords : z = Rtc!NoLink
    BY NoLinkFields
  <2>2. PICK l \in {"runs", "none"} : l = IF ok THEN "runs" ELSE "none"
    OBVIOUS
  <2>3. n = [z EXCEPT !.agent = a, !.by = by, !.ws = ok, !.loop = l]
    BY <1>4, <2>1, <2>2
  <2>. QED BY <2>1, <2>3, NoLinkFields DEF LinkRecords
<1>6. link'[i] = n /\ \A j \in Rtc!Links \ {i, by} : link'[j] = link[j]
  BY <1>1, <1>2, <1>4
<1>7. ASSUME by # 0 PROVE link'[by] \in LinkRecords /\ link'[by].agent = link[by].agent
                          /\ link'[by].fired # 0 /\ link'[by].handler = "done"
  <2>1. link[by] \in LinkRecords /\ link'[by] = [link[by] EXCEPT !.handler = "done"]
    BY <1>1, <1>3, <1>7 DEF RtcTypes
  <2>. QED BY <1>3, <1>7, <2>1 DEF LinkRecords
<1>8. link' \in [Rtc!Links -> LinkRecords]
  <2>1. \A j \in Rtc!Links : link'[j] \in LinkRecords
    BY <1>5, <1>6, <1>7 DEF RtcTypes
  <2>2. link' = [j \in Rtc!Links |-> link'[j]]
    BY <1>1, Zenon
  <2>. QED BY <2>1, <2>2
<1>9. agent' \in [Rtc!Agents -> AgentRecords] /\ agent'[a].rtc = i /\ \A b \in Rtc!Agents \ {a} : agent'[b].rtc = agent[b].rtc
  <2>1. PICK m \in Int : m = IF ok THEN 1 ELSE -2
    OBVIOUS
  <2>2. agent' = [agent EXCEPT ![a].rtc = i, ![a].code = m]
    BY <1>1, <2>1
  <2>3. PICK r : r = [agent[a] EXCEPT !.rtc = i, !.code = m]
    OBVIOUS
  <2>4. agent[a] \in AgentRecords /\ agent \in [Rtc!Agents -> AgentRecords]
    BY DEF RtcTypes
  <2>5. r \in AgentRecords /\ r.rtc = i
    <3>1. PICK x \in 0..MaxLinks : x = i
      BY <1>2
    <3>. QED BY <2>3, <2>4, <3>1 DEF AgentRecords
  <2>6. agent' = [agent EXCEPT ![a] = r]
    BY <2>2, <2>3, <2>4
  <2>. QED BY <2>4, <2>5, <2>6
<1>10. RtcTypes'
  BY <1>8, <1>9 DEF RtcTypes
<1>11. LinksAreDialled'
  <2>1. \A j \in Rtc!Links : link'[j].agent = 0 => link'[j] = Rtc!NoLink
    BY <1>3, <1>5, <1>6, <1>7 DEF LinksAreDialled
  <2>2. \A j \in Rtc!Links : link[j].agent # 0 => link'[j].agent # 0
    BY <1>2, <1>3, <1>6, <1>7
  <2>3. \A b \in Rtc!Agents : agent[b].rtc \in 0..MaxLinks
    BY DEF RtcTypes, AgentRecords
  <2>4. \A b \in Rtc!Agents : agent'[b].rtc # 0 => link'[agent'[b].rtc].agent # 0
    BY <1>5, <1>6, <1>9, <2>2, <2>3 DEF LinksAreDialled
  <2>. QED BY <2>1, <2>4 DEF LinksAreDialled
<1>12. OnceFirst' /\ OneRedialStep
  <2>1. link[i].handler = "none"
    BY <1>2, NoLinkFields
  <2>. QED BY <1>3, <1>5, <1>6, <1>7, <2>1 DEF OnceFirst, OneRedialStep
<1>. QED BY <1>10, <1>11, <1>12

LEMMA DialKeeps == ASSUME RtcInv, NEW i \in Rtc!Links, Rtc!HandleDial(i) PROVE RtcInv' /\ OneRedialStep
<1>1. link[i] \in LinkRecords /\ link[i].agent # 0 /\ link[i].handler = "dial" /\ Rtc!Connect(link[i].agent, i)
      /\ UNCHANGED <<registry, creator>>
  BY NoLinkFields DEF RtcInv, RtcTypes, LinksAreDialled, Rtc!HandleDial
<1>2. PICK a \in Rtc!Agents : a = link[i].agent
  BY <1>1 DEF LinkRecords
<1>3. i \in 0..MaxLinks
  BY AgentsCounted
<1>4. creator' \in [Creators -> CreatorRecords]
      /\ \A c \in Creators : creator'[c].pc \in {"token", "save"} => creator'[c].agent # 0
  BY <1>1 DEF RtcInv, RtcTypes, LinksAreDialled
<1>. QED BY <1>1, <1>2, <1>3, <1>4, ConnectKeeps

(* A creator moves on; the links and their agents' links stay what they are. *)
LEMMA CreatorMoves ==
  ASSUME RtcInv, NEW c \in Creators, NEW r \in CreatorRecords, creator' = [creator EXCEPT ![c] = r],
         r.pc \in {"token", "save"} => r.agent # 0
  PROVE  creator' \in [Creators -> CreatorRecords]
         /\ \A d \in Creators : creator'[d].pc \in {"token", "save"} => creator'[d].agent # 0
  BY DEF RtcInv, RtcTypes, LinksAreDialled

(* The links stand still. *)
LEMMA LinksStand ==
  ASSUME RtcInv, UNCHANGED link,
         registry' \in {0} \cup Rtc!Agents,
         creator' \in [Creators -> CreatorRecords],
         \A c \in Creators : creator'[c].pc \in {"token", "save"} => creator'[c].agent # 0,
         agent' \in [Rtc!Agents -> AgentRecords],
         \A a \in Rtc!Agents : agent'[a].rtc \in {0, agent[a].rtc}
  PROVE  RtcInv' /\ OneRedialStep
  BY LinksMove DEF RtcInv, RtcTypes, OnceFirst

LEMMA CreateKeeps == ASSUME RtcInv, NEW c \in Creators, Rtc!Create(c) PROVE RtcInv' /\ OneRedialStep
<1>1. /\ creator[c] \in CreatorRecords /\ registry \in {0} \cup Rtc!Agents
      /\ agent \in [Rtc!Agents -> AgentRecords]
      /\ creator[c].pc \in {"token", "save"} => creator[c].agent # 0
  BY DEF RtcInv, RtcTypes, LinksAreDialled
<1>2. \A r : r = Rtc!Idle => r \in CreatorRecords /\ r.pc = "idle"
  BY DEF Rtc!Idle, CreatorRecords
<1>3. ASSUME Rtc!LookUp(c) \/ Rtc!CreateNoToken(c) \/ Rtc!SaveAgent(c) PROVE RtcInv' /\ OneRedialStep
  <2>1. PICK r : creator' = [creator EXCEPT ![c] = r] /\ (r = Rtc!Idle \/ r = [pc |-> "new", agent |-> registry])
    BY <1>3 DEF Rtc!LookUp, Rtc!CreateNoToken, Rtc!SaveAgent
  <2>2. r \in CreatorRecords /\ r.pc \notin {"token", "save"}
    BY <1>1, <1>2, <2>1 DEF CreatorRecords
  <2>3. UNCHANGED <<registry, agent, link>>
    BY <1>3 DEF Rtc!LookUp, Rtc!CreateNoToken, Rtc!SaveAgent
  <2>4. creator' \in [Creators -> CreatorRecords]
        /\ \A d \in Creators : creator'[d].pc \in {"token", "save"} => creator'[d].agent # 0
    BY <2>1, <2>2, CreatorMoves
  <2>. QED BY <1>1, <2>3, <2>4, LinksStand
<1>4. CASE Rtc!TakeAgent(c)
  <2>1. CASE creator[c].agent # 0 /\ UNCHANGED <<registry, agent>>
             /\ creator' = [creator EXCEPT ![c] = IF Rtc!InOrder(creator[c].agent) THEN Rtc!Idle ELSE [@ EXCEPT !.pc = "token"]]
    <3>1. PICK r : r = IF Rtc!InOrder(creator[c].agent) THEN Rtc!Idle ELSE [creator[c] EXCEPT !.pc = "token"]
      OBVIOUS
    <3>2. r \in CreatorRecords /\ (r.pc \in {"token", "save"} => r.agent # 0)
      BY <1>1, <1>2, <2>1, <3>1 DEF CreatorRecords
    <3>3. creator' = [creator EXCEPT ![c] = r]
      BY <2>1, <3>1
    <3>4. creator' \in [Creators -> CreatorRecords]
          /\ \A d \in Creators : creator'[d].pc \in {"token", "save"} => creator'[d].agent # 0
      BY <3>2, <3>3, CreatorMoves
    <3>5. UNCHANGED link
      BY <1>4 DEF Rtc!TakeAgent
    <3>. QED BY <1>1, <2>1, <3>4, <3>5, LinksStand
  <2>2. ASSUME NEW a \in Rtc!Agents, agent' = [agent EXCEPT ![a] = Rtc!NewAgent], registry' = a,
               creator' = [creator EXCEPT ![c] = [pc |-> "token", agent |-> a]]
        PROVE  RtcInv' /\ OneRedialStep
    <3>1. PICK r : r = [pc |-> "token", agent |-> a]
      OBVIOUS
    <3>2. r \in CreatorRecords /\ r.agent # 0
      BY <3>1, AgentsCounted DEF CreatorRecords
    <3>3. creator' \in [Creators -> CreatorRecords]
          /\ \A d \in Creators : creator'[d].pc \in {"token", "save"} => creator'[d].agent # 0
      BY <2>2, <3>1, <3>2, CreatorMoves
    <3>4. PICK n : n = Rtc!NewAgent
      OBVIOUS
    <3>5. n \in AgentRecords /\ n.rtc = 0
      BY <3>4, NewAgentFields
    <3>6. agent' \in [Rtc!Agents -> AgentRecords] /\ \A b \in Rtc!Agents : agent'[b].rtc \in {0, agent[b].rtc}
      BY <1>1, <2>2, <3>4, <3>5
    <3>7. UNCHANGED link
      BY <1>4 DEF Rtc!TakeAgent
    <3>. QED BY <2>2, <3>3, <3>6, <3>7, LinksStand
  <2>. QED BY <1>4, <2>1, <2>2 DEF Rtc!TakeAgent
<1>5. CASE Rtc!CreateDial(c)
  <2>1. creator[c].pc = "token" /\ Rtc!Connect(creator[c].agent, 0) /\ UNCHANGED registry
        /\ creator' = [creator EXCEPT ![c].pc = "save"]
    BY <1>5 DEF Rtc!CreateDial
  <2>2. PICK a \in Rtc!Agents : a = creator[c].agent
    BY <1>1, <2>1 DEF CreatorRecords
  <2>3. PICK r : r = [creator[c] EXCEPT !.pc = "save"]
    OBVIOUS
  <2>4. r \in CreatorRecords /\ r.agent # 0
    BY <1>1, <2>1, <2>3 DEF CreatorRecords
  <2>5. creator' = [creator EXCEPT ![c] = r]
    BY <2>1, <2>3 DEF RtcInv, RtcTypes
  <2>6. creator' \in [Creators -> CreatorRecords]
        /\ \A d \in Creators : creator'[d].pc \in {"token", "save"} => creator'[d].agent # 0
    BY <2>4, <2>5, CreatorMoves
  <2>. QED BY <2>1, <2>2, <2>6, AgentsCounted, ConnectKeeps
<1>. QED BY <1>3, <1>4, <1>5 DEF Rtc!Create

LEMMA EndKeeps == ASSUME RtcInv, Rtc!ClearAll \/ Rtc!EndStream PROVE RtcInv' /\ OneRedialStep
<1>1. /\ registry \in {0} \cup Rtc!Agents /\ agent \in [Rtc!Agents -> AgentRecords]
      /\ link \in [Rtc!Links -> LinkRecords]
      /\ \A j \in Rtc!Links : link[j].fired = 0 => link[j].handler = "none"
      /\ creator \in [Creators -> CreatorRecords]
      /\ \A c \in Creators : creator[c].pc \in {"token", "save"} => creator[c].agent # 0
  BY DEF RtcInv, RtcTypes, LinksAreDialled, OnceFirst
<1>2. /\ link' = link \/ (registry # 0 /\ agent[registry].rtc # 0
                          /\ link' = [link EXCEPT ![agent[registry].rtc] = Rtc!Closed(@)])
      /\ registry' \in {0, registry} /\ UNCHANGED creator
  BY DEF Rtc!ClearAll, Rtc!EndStream
<1>3. agent' \in [Rtc!Agents -> AgentRecords] /\ \A a \in Rtc!Agents : agent'[a].rtc = agent[a].rtc
  <2>1. CASE Rtc!ClearAll
    BY <1>1, <2>1 DEF Rtc!ClearAll
  <2>2. CASE Rtc!EndStream
    <3>1. agent' = [agent EXCEPT ![registry].reconnect = 1]
      BY <2>2 DEF Rtc!EndStream
    <3>. QED BY <1>1, <3>1 DEF AgentRecords
  <2>. QED BY <2>1, <2>2
<1>4. CASE link' = link
  BY <1>1, <1>2, <1>3, <1>4, LinksStand
<1>5. CASE registry # 0 /\ agent[registry].rtc # 0 /\ link' = [link EXCEPT ![agent[registry].rtc] = Rtc!Closed(@)]
  <2>1. PICK k \in Rtc!Links : k = agent[registry].rtc
    BY <1>1, <1>5, AgentsCounted DEF AgentRecords
  <2>2. link[k].agent # 0
    BY <1>1, <1>5, <2>1 DEF RtcInv, LinksAreDialled
  <2>3. PICK r : r = Rtc!Closed(link[k])
    OBVIOUS
  <2>4. r \in LinkRecords /\ r.agent = link[k].agent /\ r.fired = 1 /\ (link[k].handler # "none" => r.handler = link[k].handler)
    BY <1>1, <2>3, ClosedKeeps
  <2>5. link' = [link EXCEPT ![k] = r]
    BY <1>5, <2>1, <2>3
  <2>6. registry' \in {0} \cup Rtc!Agents /\ UNCHANGED creator
    BY <1>1, <1>2
  <2>7. (r.fired = 0 => r.handler = "none") /\ (link[k].handler = "done" => r.handler = "done")
    BY <2>4
  <2>. QED BY <1>3, <2>2, <2>4, <2>5, <2>6, <2>7, LinkMoves
<1>. QED BY <1>2, <1>4, <1>5

LEMMA RtcKeeps == ASSUME RtcInv, Rtc!Next PROVE RtcInv' /\ OneRedialStep
<1>1. ASSUME NEW i \in Rtc!Links, Rtc!HandleClose(i) \/ Rtc!HandleNoToken(i) PROVE RtcInv' /\ OneRedialStep
  BY <1>1, TakeDownKeeps DEF Rtc!HandleClose, Rtc!HandleNoToken
<1>2. ASSUME NEW i \in Rtc!Links, Rtc!Signal(i) \/ Rtc!EndLoop(i) \/ Rtc!Closing(i) PROVE RtcInv' /\ OneRedialStep
  BY <1>2, SignalKeeps
<1>3. ASSUME NEW i \in Rtc!Links, Rtc!HandleToken(i) \/ Rtc!HandleDial(i) PROVE RtcInv' /\ OneRedialStep
  BY <1>3, TokenKeeps, DialKeeps
<1>4. ASSUME NEW c \in Creators, Rtc!Create(c) PROVE RtcInv' /\ OneRedialStep
  BY <1>4, CreateKeeps
<1>. QED BY <1>1, <1>2, <1>3, <1>4, EndKeeps DEF Rtc!Next, Rtc!Handling

LEMMA RtcStutter == ASSUME RtcInv, UNCHANGED linking PROVE RtcInv' /\ OneRedialStep
  BY DEF RtcInv, RtcTypes, LinksAreDialled, OnceFirst, OneRedialStep, linking

(* However many goroutines notice that a link ended, and whatever its agent is told meanwhile, a link
   whose end was seen to is never seen to again: the once of Close outlives the dial that follows it. *)
THEOREM RedialsOnce == Spec => OneRedialPerLink
<1>1. Init => RtcInv
  BY RtcInit DEF Init
<1>2. RtcInv /\ [Next]_vars => RtcInv' /\ OneRedialStep
  BY RtcKeeps, RtcStutter, OneSteps
<1>3. OneRedialStep => (\A i \in Rtc!Links : link[i].handler = "done" => link'[i].handler = "done")
  BY DEF OneRedialStep
<1>. QED BY <1>1, <1>2, <1>3, PTL DEF Spec, OneRedialPerLink, Rtc!OneRedialPerLink

(* What Close is called for: the failure of a peer connection calls it twice, the end of the signalling
   once, a host that is online again once more.  What has not happened is counted with the calls under way. *)
Counted(l, n) ==
  /\ l.calls \in Nat /\ l.closing \in Nat
  /\ l.calls + l.closing + (IF l.peer = "closed" THEN 0 ELSE 2) + (IF l.loop = "ended" THEN 0 ELSE 1) <= n + 3

(* The end of a link is noticed: the loop is still to find it, somebody is to call Close, or a handler
   sees to it or has. *)
Noticed(l) ==
  /\ l.fired # 0 => l.handler # "none"
  /\ l.loop # "none" /\ ~l.ws /\ l.peer # "connected" =>
       l.loop = "runs" \/ l.calls > 0 \/ l.closing > 0 \/ l.handler # "none"

RtcBounds ==
  /\ core \in {0} \cup Rtc!Agents /\ upsets \in 0..MaxUpsets
  /\ \A a \in Rtc!Agents : agent[a].code \in -2..2
  /\ \A i \in Rtc!Links : Counted(link[i], upsets) /\ Noticed(link[i])

LEMMA CountedSame ==
  ASSUME NEW l, NEW r, NEW n, Counted(l, n), r.calls = l.calls, r.closing = l.closing, r.peer = l.peer, r.loop = l.loop
  PROVE  Counted(r, n)
  BY DEF Counted

LEMMA HandledNoticed == ASSUME NEW r, r.handler # "none" PROVE Noticed(r)
  BY DEF Noticed

LEMMA ShutCounted ==
  ASSUME NEW l \in LinkRecords, NEW n \in Nat, Counted(l, n)
  PROVE  Counted(Rtc!Shut(l), n)
<1>1. PICK c \in Int : c = IF l.peer \in {"new", "connected"} THEN l.calls + 1 ELSE l.calls
  BY DEF LinkRecords
<1>2. PICK p \in {"none", "closed"} : p = IF l.peer = "none" THEN l.peer ELSE "closed"
  OBVIOUS
<1>3. PICK s : s = Rtc!Shut(l)
  OBVIOUS
<1>4. s = [l EXCEPT !.ws = FALSE, !.chan = FALSE, !.peer = p, !.calls = c]
  BY <1>1, <1>2, <1>3 DEF Rtc!Shut, LinkRecords
<1>5. s.calls = c /\ s.closing = l.closing /\ s.peer = p /\ s.loop = l.loop
  BY <1>4 DEF LinkRecords
<1>6. Counted(s, n)
  BY <1>1, <1>2, <1>5 DEF Counted, LinkRecords
<1>. QED BY <1>3, <1>6

LEMMA FireCounted ==
  ASSUME NEW l \in LinkRecords, NEW n, Counted(l, n), l.fired # 0 => l.handler # "none"
  PROVE  Counted(Rtc!Fire(l), n) /\ Noticed(Rtc!Fire(l))
<1>1. PICK s : s = Rtc!Fire(l)
  OBVIOUS
<1>2. s.calls = l.calls /\ s.closing = l.closing /\ s.peer = l.peer /\ s.loop = l.loop
  BY <1>1 DEF Rtc!Fire, LinkRecords
<1>3. s.handler # "none"
  BY <1>1 DEF Rtc!Fire, LinkRecords
<1>. QED BY <1>1, <1>2, <1>3, CountedSame, HandledNoticed

LEMMA ClosedCounted ==
  ASSUME NEW l \in LinkRecords, NEW n \in Nat, Counted(l, n), Noticed(l)
  PROVE  Counted(Rtc!Closed(l), n) /\ Noticed(Rtc!Closed(l))
<1>1. PICK s \in LinkRecords : s = Rtc!Shut(l)
  BY ShutKeeps
<1>2. Counted(s, n)
  BY <1>1, ShutCounted
<1>3. s.fired # 0 => s.handler # "none"
  BY <1>1, ShutKeeps DEF Noticed
<1>. QED BY <1>1, <1>2, <1>3, FireCounted DEF Rtc!Closed

LEMMA CodeSet ==
  ASSUME agent \in [Rtc!Agents -> AgentRecords], NEW a, NEW n \in -2..2, agent' = [agent EXCEPT ![a].code = n],
         \A b \in Rtc!Agents : agent[b].code \in -2..2
  PROVE  \A b \in Rtc!Agents : agent'[b].code \in -2..2
  BY DEF AgentRecords

LEMMA LinksCounted ==
  ASSUME RtcBounds, \A j \in Rtc!Links : Counted(link'[j], upsets') /\ Noticed(link'[j]), upsets' \in {upsets, upsets + 1},
         upsets' <= MaxUpsets, core' \in {0} \cup {core} \cup Rtc!Agents, \A a \in Rtc!Agents : agent'[a].code \in -2..2
  PROVE  RtcBounds'
<1>1. upsets' \in 0..MaxUpsets
  BY Bounds DEF RtcBounds
<1>2. Rtc!Agents' = Rtc!Agents /\ Rtc!Links' = Rtc!Links
  BY DEF Rtc!Agents, Rtc!Links
<1>3. core' \in {0} \cup Rtc!Agents
  BY DEF RtcBounds
<1>. QED BY <1>1, <1>2, <1>3 DEF RtcBounds, Counted, Noticed

(* One link is moved on. *)
LEMMA LinkCounted ==
  ASSUME RtcInv, RtcBounds, NEW i \in Rtc!Links, \A j \in Rtc!Links \ {i} : link'[j] = link[j],
         Counted(link'[i], upsets'), Noticed(link'[i]), upsets' \in {upsets, upsets + 1}, upsets' <= MaxUpsets,
         core' \in {0, core}, \A a \in Rtc!Agents : agent'[a].code \in -2..2
  PROVE  RtcBounds'
<1>1. upsets \in Nat
  BY Bounds DEF RtcBounds
<1>2. \A j \in Rtc!Links \ {i} : Counted(link'[j], upsets') /\ Noticed(link'[j])
  BY <1>1 DEF RtcBounds, Counted
<1>. QED BY <1>2, LinksCounted

LEMMA SignalBounded ==
  ASSUME RtcInv, RtcBounds, NEW i \in Rtc!Links, Rtc!Signal(i) \/ Rtc!EndLoop(i) \/ Rtc!Closing(i)
  PROVE  RtcBounds'
<1>1. PICK l \in LinkRecords : l = link[i]
  BY DEF RtcInv, RtcTypes
<1>2. link \in [Rtc!Links -> LinkRecords] /\ Counted(l, upsets) /\ Noticed(l) /\ upsets \in Nat /\ upsets <= MaxUpsets
      /\ agent \in [Rtc!Agents -> AgentRecords] /\ \A a \in Rtc!Agents : agent[a].code \in -2..2
  BY <1>1, Bounds DEF RtcInv, RtcTypes, RtcBounds
<1>3. l.calls \in Nat /\ l.closing \in Nat
  BY <1>2 DEF Counted
<1>4. CASE Rtc!HostOffline(i)
  <2>1. PICK r : r = [l EXCEPT !.asks = IF @ < MaxAsks THEN @ + 1 ELSE @, !.ws = l.asks < MaxAsks]
    OBVIOUS
  <2>2. r.calls = l.calls /\ r.closing = l.closing /\ r.peer = l.peer /\ r.loop = l.loop
        /\ r.handler = l.handler /\ r.fired = l.fired
    BY <2>1 DEF LinkRecords
  <2>3. link' = [link EXCEPT ![i] = r] /\ UNCHANGED <<upsets, core, agent>> /\ l.loop = "runs"
    BY <1>1, <1>2, <1>4, <2>1 DEF Rtc!HostOffline, Rtc!Signalling
  <2>4. Counted(r, upsets) /\ Noticed(r)
    BY <1>2, <2>2, <2>3, CountedSame DEF Noticed
  <2>. QED BY <1>2, <2>3, <2>4, LinkCounted
<1>5. CASE Rtc!HostOnline(i)
  <2>1. PICK r : r = [l EXCEPT !.peer = "new", !.asks = 0]
    OBVIOUS
  <2>2. r.calls = l.calls /\ r.closing = l.closing /\ r.peer = "new" /\ r.loop = l.loop
        /\ r.ws = l.ws /\ r.handler = l.handler /\ r.fired = l.fired
    BY <2>1 DEF LinkRecords
  <2>3. link' = [link EXCEPT ![i] = r] /\ UNCHANGED <<upsets, core, agent>> /\ l.peer = "none" /\ l.loop = "runs"
    BY <1>1, <1>2, <1>5, <2>1 DEF Rtc!HostOnline, Rtc!Signalling
  <2>4. Counted(r, upsets) /\ Noticed(r)
    BY <1>2, <2>2, <2>3 DEF Counted, Noticed
  <2>. QED BY <1>2, <2>3, <2>4, LinkCounted
<1>6. CASE Rtc!HostOnlineAgain(i)
  <2>1. PICK c \in Nat : c = l.calls + 1
    BY <1>3
  <2>2. PICK r : r = [l EXCEPT !.peer = "new", !.calls = c]
    OBVIOUS
  <2>3. r.calls = c /\ r.closing = l.closing /\ r.peer = "new" /\ r.loop = l.loop
        /\ r.ws = l.ws /\ r.handler = l.handler /\ r.fired = l.fired
    BY <2>2 DEF LinkRecords
  <2>4. link' = [link EXCEPT ![i] = r] /\ UNCHANGED <<core, agent>> /\ upsets' = upsets + 1 /\ upsets < MaxUpsets /\ l.loop = "runs"
        /\ l.peer \in {"new", "connected"}
    BY <1>1, <1>2, <1>6, <2>1, <2>2 DEF Rtc!HostOnlineAgain, Rtc!Signalling
  <2>5. Counted(r, upsets + 1) /\ Noticed(r)
    BY <1>2, <2>1, <2>3, <2>4 DEF Counted, Noticed
  <2>. QED BY <1>2, <2>4, <2>5, Bounds, LinkCounted
<1>7. CASE Rtc!Answer(i)
  <2>1. PICK r : r = [l EXCEPT !.peer = "connected"]
    OBVIOUS
  <2>2. r.calls = l.calls /\ r.closing = l.closing /\ r.peer = "connected" /\ r.loop = l.loop
        /\ r.ws = l.ws /\ r.handler = l.handler /\ r.fired = l.fired
    BY <2>1 DEF LinkRecords
  <2>3. link' = [link EXCEPT ![i] = r] /\ UNCHANGED <<upsets, core, agent>> /\ l.peer = "new"
    BY <1>1, <1>2, <1>7, <2>1 DEF Rtc!Answer
  <2>4. Counted(r, upsets) /\ Noticed(r)
    BY <1>2, <2>2, <2>3 DEF Counted, Noticed
  <2>. QED BY <1>2, <2>3, <2>4, LinkCounted
<1>8. CASE Rtc!OpenChannel(i)
  <2>1. PICK r : r = [l EXCEPT !.chan = TRUE, !.online = TRUE]
    OBVIOUS
  <2>2. r.calls = l.calls /\ r.closing = l.closing /\ r.peer = l.peer /\ r.loop = l.loop
        /\ r.ws = l.ws /\ r.handler = l.handler /\ r.fired = l.fired
    BY <2>1 DEF LinkRecords
  <2>3. link' = [link EXCEPT ![i] = r] /\ UNCHANGED <<upsets, core>>
    BY <1>1, <1>2, <1>8, <2>1 DEF Rtc!OpenChannel
  <2>4. Counted(r, upsets) /\ Noticed(r)
    BY <1>2, <2>2, CountedSame DEF Noticed
  <2>5. \A a \in Rtc!Agents : agent'[a].code \in -2..2
    <3>1. PICK n \in -2..2 : n = 2
      OBVIOUS
    <3>. QED BY <1>2, <1>8, <3>1, CodeSet DEF Rtc!OpenChannel
  <2>. QED BY <1>2, <2>3, <2>4, <2>5, LinkCounted
<1>9. CASE Rtc!PeerFails(i)
  <2>1. PICK c \in Nat : c = l.calls + 2
    BY <1>3
  <2>2. PICK r : r = [l EXCEPT !.peer = "closed", !.calls = c]
    OBVIOUS
  <2>3. r.calls = c /\ r.closing = l.closing /\ r.peer = "closed" /\ r.loop = l.loop
        /\ r.ws = l.ws /\ r.handler = l.handler /\ r.fired = l.fired
    BY <2>2 DEF LinkRecords
  <2>4. link' = [link EXCEPT ![i] = r] /\ UNCHANGED <<upsets, core, agent>> /\ l.peer \in {"new", "connected"}
    BY <1>1, <1>2, <1>9, <2>1, <2>2 DEF Rtc!PeerFails
  <2>5. Counted(r, upsets)
    BY <1>2, <2>1, <2>3, <2>4 DEF Counted
  <2>6. Noticed(r)
    BY <1>2, <1>3, <2>1, <2>3 DEF Noticed
  <2>. QED BY <1>2, <2>4, <2>5, <2>6, LinkCounted
<1>10. CASE Rtc!LoseSignal(i)
  <2>1. PICK r : r = [l EXCEPT !.ws = FALSE]
    OBVIOUS
  <2>2. r.calls = l.calls /\ r.closing = l.closing /\ r.peer = l.peer /\ r.loop = l.loop
        /\ r.handler = l.handler /\ r.fired = l.fired
    BY <2>1 DEF LinkRecords
  <2>3. link' = [link EXCEPT ![i] = r] /\ UNCHANGED <<upsets, core, agent>> /\ l.loop = "runs"
    BY <1>1, <1>2, <1>10, <2>1 DEF Rtc!LoseSignal, Rtc!Signalling
  <2>4. Counted(r, upsets) /\ Noticed(r)
    BY <1>2, <2>2, <2>3, CountedSame DEF Noticed
  <2>. QED BY <1>2, <2>3, <2>4, LinkCounted
<1>11. CASE Rtc!EndLoop(i)
  <2>1. PICK c \in Nat : c = IF l.peer = "connected" THEN l.calls ELSE l.calls + 1
    BY <1>3
  <2>2. PICK r : r = [l EXCEPT !.loop = "ended", !.calls = c]
    OBVIOUS
  <2>3. r.calls = c /\ r.closing = l.closing /\ r.peer = l.peer /\ r.loop = "ended"
        /\ r.ws = l.ws /\ r.handler = l.handler /\ r.fired = l.fired
    BY <2>2 DEF LinkRecords
  <2>4. link' = [link EXCEPT ![i] = r] /\ UNCHANGED <<upsets, core, agent>> /\ l.loop = "runs"
    BY <1>1, <1>2, <1>11, <2>1, <2>2 DEF Rtc!EndLoop
  <2>5. Counted(r, upsets)
    BY <1>2, <2>1, <2>3, <2>4 DEF Counted
  <2>6. Noticed(r)
    BY <1>2, <1>3, <2>1, <2>3 DEF Noticed
  <2>. QED BY <1>2, <2>4, <2>5, <2>6, LinkCounted
<1>12. CASE Rtc!CallClose(i)
  <2>1. PICK c \in Int : c = l.calls - 1 /\ c >= 0
    BY <1>1, <1>3, <1>12 DEF Rtc!CallClose
  <2>2. PICK k \in LinkRecords : k = [l EXCEPT !.calls = c]
    BY DEF LinkRecords
  <2>3. PICK s \in LinkRecords : s = Rtc!Shut(k)
    BY ShutKeeps
  <2>4. PICK d \in Int : d = s.closing + 1
    BY DEF LinkRecords
  <2>5. PICK r : r = [s EXCEPT !.closing = d]
    OBVIOUS
  <2>6. link' = [link EXCEPT ![i] = r] /\ UNCHANGED <<upsets, core, agent>>
    <3>1. k = [link[i] EXCEPT !.calls = @ - 1]
      BY <1>1, <2>1, <2>2
    <3>2. r = [Rtc!Shut(k) EXCEPT !.closing = @ + 1]
      BY <2>3, <2>4, <2>5
    <3>. QED BY <1>12, <3>1, <3>2, Zenon DEF Rtc!CallClose
  <2>7. Counted(r, upsets)
    <3>1. k.calls = c /\ k.closing = l.closing /\ k.peer = l.peer /\ k.loop = l.loop
      BY <2>2 DEF LinkRecords
    <3>2. /\ s.calls \in Nat /\ s.closing = l.closing /\ s.loop = l.loop
          /\ s.calls + (IF s.peer = "closed" THEN 0 ELSE 2) <= c + (IF l.peer = "closed" THEN 0 ELSE 2)
      <4>1. PICK m \in Nat : m = IF l.peer \in {"new", "connected"} THEN c + 1 ELSE c
        BY <2>1
      <4>2. PICK p \in {"none", "closed"} : p = IF l.peer = "none" THEN l.peer ELSE "closed"
        OBVIOUS
      <4>3. s = [k EXCEPT !.ws = FALSE, !.chan = FALSE, !.peer = p, !.calls = m]
        BY <2>3, <3>1, <4>1, <4>2 DEF Rtc!Shut, LinkRecords
      <4>4. s.calls = m /\ s.closing = k.closing /\ s.peer = p /\ s.loop = k.loop
        BY <4>3 DEF LinkRecords
      <4>. QED BY <3>1, <4>1, <4>2, <4>4 DEF LinkRecords
    <3>3. r.calls = s.calls /\ r.closing = d /\ r.peer = s.peer /\ r.loop = s.loop
      BY <2>5 DEF LinkRecords
    <3>. QED BY <1>2, <1>3, <2>1, <2>4, <3>2, <3>3 DEF Counted
  <2>8. Noticed(r)
    <3>1. r.closing = d /\ r.handler = s.handler /\ r.fired = s.fired
      BY <2>5 DEF LinkRecords
    <3>2. s.handler = l.handler /\ s.fired = l.fired
      <4>1. k.handler = l.handler /\ k.fired = l.fired
        BY <2>2 DEF LinkRecords
      <4>. QED BY <2>3, <4>1, ShutKeeps
    <3>3. d > 0
      <4>1. s.closing = k.closing /\ k.closing = l.closing
        BY <2>2, <2>3 DEF Rtc!Shut, LinkRecords
      <4>. QED BY <1>3, <2>4, <4>1
    <3>. QED BY <1>2, <3>1, <3>2, <3>3 DEF Noticed
  <2>. QED BY <1>2, <2>6, <2>7, <2>8, LinkCounted
<1>13. CASE Rtc!CloseOnce(i)
  <2>1. PICK c \in Int : c = l.closing - 1 /\ c >= 0
    BY <1>1, <1>3, <1>13 DEF Rtc!CloseOnce
  <2>2. PICK k \in LinkRecords : k = [l EXCEPT !.closing = c]
    BY DEF LinkRecords
  <2>3. k.calls = l.calls /\ k.closing = c /\ k.peer = l.peer /\ k.loop = l.loop
    BY <2>2 DEF LinkRecords
  <2>4. Counted(k, upsets)
    BY <1>2, <1>3, <2>1, <2>3 DEF Counted
  <2>5. PICK r : r = Rtc!Fire(k)
    OBVIOUS
  <2>6. link' = [link EXCEPT ![i] = r] /\ UNCHANGED <<upsets, core, agent>>
    <3>1. k = [link[i] EXCEPT !.closing = @ - 1]
      BY <1>1, <2>1, <2>2
    <3>. QED BY <1>13, <2>5, <3>1, Zenon DEF Rtc!CloseOnce
  <2>7. Counted(r, upsets) /\ Noticed(r)
    <3>1. k.fired # 0 => k.handler # "none"
      BY <1>2, <2>2 DEF LinkRecords, Noticed
    <3>. QED BY <2>4, <2>5, <3>1, FireCounted
  <2>. QED BY <1>2, <2>6, <2>7, LinkCounted
<1>. QED BY <1>4, <1>5, <1>6, <1>7, <1>8, <1>9, <1>10, <1>11, <1>12, <1>13 DEF Rtc!Signal, Rtc!Closing

LEMMA RtcBoundsInit == ASSUME Rtc!Init PROVE RtcBounds
<1>1. Counted(Rtc!NoLink, 0) /\ Noticed(Rtc!NoLink) /\ Rtc!NoAgent.code = 0
  BY DEF Counted, Noticed, Rtc!NoLink, Rtc!NoAgent, Rtc!NewAgent
<1>. QED BY <1>1, Bounds DEF Rtc!Init, RtcBounds

(* The end of a link is seen to. *)
LEMMA TakeDownBounded ==
  ASSUME RtcInv, RtcBounds, NEW i \in Rtc!Links, link[i].handler \in {"close", "token"}, Rtc!TakeDown(i)
  PROVE  RtcBounds'
<1>1. /\ link \in [Rtc!Links -> LinkRecords] /\ agent \in [Rtc!Agents -> AgentRecords] /\ link[i].agent # 0
      /\ upsets \in Nat /\ upsets <= MaxUpsets /\ \A a \in Rtc!Agents : agent[a].code \in -2..2
      /\ \A j \in Rtc!Links : Counted(link[j], upsets) /\ Noticed(link[j])
  BY NoLinkFields, Bounds DEF RtcInv, RtcTypes, LinksAreDialled, RtcBounds
<1>2. PICK a \in Rtc!Agents : a = link[i].agent
  BY <1>1 DEF LinkRecords
<1>3. PICK next \in {"token", "done"} : next = IF agent[a].reconnect = 0 THEN "token" ELSE "done"
  OBVIOUS
<1>4. PICK f : f = [link EXCEPT ![i].online = FALSE, ![i].handler = next]
  OBVIOUS
<1>5. /\ link' = IF agent[a].rtc = 0 THEN f ELSE [f EXCEPT ![agent[a].rtc] = Rtc!Closed(@)]
      /\ agent' = [agent EXCEPT ![a].code = -1]
      /\ core' \in {0, core} /\ UNCHANGED upsets
  BY <1>2, <1>3, <1>4 DEF Rtc!TakeDown
<1>6. PICK q \in LinkRecords : q = link[i]
  BY <1>1
<1>7. PICK r \in LinkRecords : r = [q EXCEPT !.online = FALSE, !.handler = next]
  BY DEF LinkRecords
<1>8. r.calls = q.calls /\ r.closing = q.closing /\ r.peer = q.peer /\ r.loop = q.loop /\ r.handler # "none"
  BY <1>7 DEF LinkRecords
<1>9. f = [link EXCEPT ![i] = r]
  BY <1>1, <1>4, <1>6, <1>7
<1>10. \A j \in Rtc!Links : f[j] \in LinkRecords /\ Counted(f[j], upsets) /\ Noticed(f[j])
  <2>1. Counted(r, upsets) /\ Noticed(r)
    BY <1>1, <1>6, <1>8, CountedSame, HandledNoticed
  <2>. QED BY <1>1, <1>9, <2>1
<1>11. \A j \in Rtc!Links : Counted(link'[j], upsets) /\ Noticed(link'[j])
  <2>1. CASE agent[a].rtc = 0
    BY <1>5, <1>10, <2>1
  <2>2. CASE agent[a].rtc # 0
    <3>1. PICK k \in Rtc!Links : k = agent[a].rtc
      BY <1>1, <2>2, AgentsCounted DEF AgentRecords
    <3>2. PICK c : c = Rtc!Closed(f[k])
      OBVIOUS
    <3>3. Counted(c, upsets) /\ Noticed(c)
      BY <1>1, <1>10, <3>2, ClosedCounted
    <3>4. link' = [f EXCEPT ![k] = c]
      BY <1>5, <2>2, <3>1, <3>2
    <3>. QED BY <1>1, <1>9, <1>10, <3>3, <3>4
  <2>. QED BY <2>1, <2>2
<1>12. \A b \in Rtc!Agents : agent'[b].code \in -2..2
  <2>1. PICK n \in -2..2 : n = -1
    OBVIOUS
  <2>. QED BY <1>1, <1>5, <2>1, CodeSet
<1>13. /\ \A j \in Rtc!Links : Counted(link'[j], upsets') /\ Noticed(link'[j])
       /\ upsets' = upsets /\ upsets' <= MaxUpsets /\ core' \in {0} \cup {core} \cup Rtc!Agents
  BY <1>1, <1>5, <1>11
<1>. QED BY <1>12, <1>13, LinksCounted

(* A dial takes a link of which nothing is counted yet. *)
LEMMA ConnectBounded ==
  ASSUME RtcInv, RtcBounds, NEW a \in Rtc!Agents, NEW by \in 0..MaxLinks, Rtc!Connect(a, by),
         UNCHANGED <<upsets, core>>
  PROVE  RtcBounds'
<1>1. PICK i \in Rtc!Free, ok \in BOOLEAN :
        /\ link' = [j \in Rtc!Links |->
                      IF j = i THEN [Rtc!NoLink EXCEPT !.agent = a, !.by = by, !.ws = ok, !.loop = IF ok THEN "runs" ELSE "none"]
                      ELSE IF j = by THEN [link[j] EXCEPT !.handler = "done"] ELSE link[j]]
        /\ agent' = [agent EXCEPT ![a].rtc = i, ![a].code = IF ok THEN 1 ELSE -2]
  BY DEF Rtc!Connect
<1>2. /\ link \in [Rtc!Links -> LinkRecords] /\ agent \in [Rtc!Agents -> AgentRecords]
      /\ upsets \in Nat /\ upsets <= MaxUpsets /\ \A b \in Rtc!Agents : agent[b].code \in -2..2
      /\ \A j \in Rtc!Links : Counted(link[j], upsets) /\ Noticed(link[j])
  BY Bounds DEF RtcInv, RtcTypes, RtcBounds
<1>3. \A j \in Rtc!Links : Counted(link'[j], upsets) /\ Noticed(link'[j])
  <2>1. PICK z \in LinkRecords : z = Rtc!NoLink
    BY NoLinkFields
  <2>2. PICK l \in {"runs", "none"} : l = IF ok THEN "runs" ELSE "none"
    OBVIOUS
  <2>3. PICK n : n = [z EXCEPT !.agent = a, !.by = by, !.ws = ok, !.loop = l]
    OBVIOUS
  <2>4. n.calls = 0 /\ n.closing = 0 /\ n.peer = "none" /\ n.loop = l /\ n.fired = 0
    BY <2>1, <2>3, NoLinkFields DEF LinkRecords
  <2>5. Counted(n, upsets) /\ Noticed(n)
    BY <1>2, <2>2, <2>4 DEF Counted, Noticed
  <2>6. link'[i] = n
    BY <1>1, <2>1, <2>2, <2>3 DEF Rtc!Free
  <2>7. ASSUME NEW j \in Rtc!Links, j # i PROVE Counted(link'[j], upsets) /\ Noticed(link'[j])
    <3>1. PICK q \in LinkRecords : q = link[j]
      BY <1>2
    <3>2. PICK r : r = [q EXCEPT !.handler = "done"]
      OBVIOUS
    <3>3. r.calls = q.calls /\ r.closing = q.closing /\ r.peer = q.peer /\ r.loop = q.loop /\ r.handler = "done"
      BY <3>2 DEF LinkRecords
    <3>4. Counted(q, upsets) /\ Counted(r, upsets) /\ Noticed(q) /\ Noticed(r)
      BY <1>2, <3>1, <3>3, CountedSame, HandledNoticed
    <3>5. link'[j] = q \/ link'[j] = r
      BY <1>1, <2>7, <3>1, <3>2
    <3>. QED BY <3>4, <3>5
  <2>. QED BY <2>5, <2>6, <2>7
<1>4. \A b \in Rtc!Agents : agent'[b].code \in -2..2
  <2>1. PICK m \in -2..2 : m = IF ok THEN 1 ELSE -2
    OBVIOUS
  <2>2. PICK r : r = [agent[a] EXCEPT !.rtc = i, !.code = m]
    OBVIOUS
  <2>3. r.code = m
    BY <1>2, <2>2 DEF AgentRecords
  <2>4. agent' = [agent EXCEPT ![a] = r]
    BY <1>1, <1>2, <2>1, <2>2
  <2>. QED BY <1>2, <2>1, <2>3, <2>4
<1>. QED BY <1>2, <1>3, <1>4, LinksCounted

LEMMA CreateBounded == ASSUME RtcInv, RtcBounds, NEW c \in Creators, Rtc!Create(c) PROVE RtcBounds'
<1>1. /\ creator[c] \in CreatorRecords /\ agent \in [Rtc!Agents -> AgentRecords] /\ core \in {0} \cup Rtc!Agents
      /\ upsets \in Nat /\ upsets <= MaxUpsets /\ \A a \in Rtc!Agents : agent[a].code \in -2..2
      /\ \A j \in Rtc!Links : Counted(link[j], upsets) /\ Noticed(link[j])
      /\ creator[c].pc \in {"token", "save"} => creator[c].agent # 0
  BY Bounds DEF RtcInv, RtcTypes, RtcBounds, LinksAreDialled
<1>2. CASE Rtc!CreateDial(c)
  <2>1. Rtc!Connect(creator[c].agent, 0) /\ creator[c].agent \in Rtc!Agents /\ UNCHANGED <<upsets, core>>
    BY <1>1, <1>2 DEF Rtc!CreateDial, CreatorRecords
  <2>. QED BY <2>1, AgentsCounted, ConnectBounded
<1>3. ASSUME Rtc!LookUp(c) \/ Rtc!TakeAgent(c) \/ Rtc!CreateNoToken(c) \/ Rtc!SaveAgent(c) PROVE RtcBounds'
  <2>1. UNCHANGED <<link, upsets>>
    BY <1>3 DEF Rtc!LookUp, Rtc!TakeAgent, Rtc!CreateNoToken, Rtc!SaveAgent
  <2>2. core' \in {0} \cup Rtc!Agents
    BY <1>1, <1>3 DEF Rtc!LookUp, Rtc!TakeAgent, Rtc!CreateNoToken, Rtc!SaveAgent, CreatorRecords
  <2>3. Rtc!NewAgent.code = 0
    BY DEF Rtc!NewAgent
  <2>4. UNCHANGED agent \/ \E a \in Rtc!Agents : agent' = [agent EXCEPT ![a] = Rtc!NewAgent]
    BY <1>3 DEF Rtc!LookUp, Rtc!TakeAgent, Rtc!CreateNoToken, Rtc!SaveAgent
  <2>5. \A a \in Rtc!Agents : agent'[a].code \in -2..2
    BY <1>1, <2>3, <2>4
  <2>. QED BY <1>1, <2>1, <2>2, <2>5, LinksCounted
<1>. QED BY <1>2, <1>3 DEF Rtc!Create

LEMMA EndBounded == ASSUME RtcInv, RtcBounds, Rtc!ClearAll \/ Rtc!EndStream PROVE RtcBounds'
<1>1. /\ link \in [Rtc!Links -> LinkRecords] /\ agent \in [Rtc!Agents -> AgentRecords]
      /\ registry \in {0} \cup Rtc!Agents /\ core \in {0} \cup Rtc!Agents
      /\ upsets \in Nat /\ \A a \in Rtc!Agents : agent[a].code \in -2..2
      /\ \A j \in Rtc!Links : Counted(link[j], upsets) /\ Noticed(link[j])
  BY Bounds DEF RtcInv, RtcTypes, RtcBounds
<1>2. /\ link' = link \/ (registry # 0 /\ agent[registry].rtc # 0
                          /\ link' = [link EXCEPT ![agent[registry].rtc] = Rtc!Closed(@)])
      /\ core' \in {0} \cup Rtc!Agents /\ upsets' = upsets + 1 /\ upsets < MaxUpsets
  BY <1>1 DEF Rtc!ClearAll, Rtc!EndStream
<1>3. \A j \in Rtc!Links : Counted(link'[j], upsets) /\ Noticed(link'[j])
  <2>1. CASE registry # 0 /\ agent[registry].rtc # 0 /\ link' = [link EXCEPT ![agent[registry].rtc] = Rtc!Closed(@)]
    <3>1. PICK k \in Rtc!Links : k = agent[registry].rtc
      BY <1>1, <2>1, AgentsCounted DEF AgentRecords
    <3>2. PICK r : r = Rtc!Closed(link[k])
      OBVIOUS
    <3>3. Counted(r, upsets) /\ Noticed(r)
      BY <1>1, <3>2, ClosedCounted
    <3>4. link' = [link EXCEPT ![k] = r]
      BY <2>1, <3>1, <3>2
    <3>. QED BY <1>1, <3>3, <3>4
  <2>. QED BY <1>1, <1>2, <2>1
<1>4. \A j \in Rtc!Links : Counted(link'[j], upsets + 1) /\ Noticed(link'[j])
  BY <1>1, <1>3 DEF Counted
<1>5. \A a \in Rtc!Agents : agent'[a].code \in -2..2
  <2>1. CASE Rtc!ClearAll
    BY <1>1, <2>1 DEF Rtc!ClearAll
  <2>2. CASE Rtc!EndStream
    <3>1. agent' = [agent EXCEPT ![registry].reconnect = 1]
      BY <2>2 DEF Rtc!EndStream
    <3>. QED BY <1>1, <3>1 DEF AgentRecords
  <2>. QED BY <2>1, <2>2
<1>. QED BY <1>1, <1>2, <1>4, <1>5, Bounds, LinksCounted

LEMMA RtcBoundsKeep == ASSUME RtcInv, RtcBounds, Rtc!Next PROVE RtcBounds'
<1>1. ASSUME NEW i \in Rtc!Links, Rtc!HandleClose(i) \/ Rtc!HandleNoToken(i) PROVE RtcBounds'
  BY <1>1, TakeDownBounded DEF Rtc!HandleClose, Rtc!HandleNoToken
<1>2. ASSUME NEW i \in Rtc!Links, Rtc!HandleToken(i) PROVE RtcBounds'
  <2>1. PICK l \in LinkRecords : l = link[i]
    BY DEF RtcInv, RtcTypes
  <2>2. PICK r : r = [l EXCEPT !.handler = "dial"]
    OBVIOUS
  <2>3. r.calls = l.calls /\ r.closing = l.closing /\ r.peer = l.peer /\ r.loop = l.loop /\ r.handler = "dial"
    BY <2>2 DEF LinkRecords
  <2>4. link' = [link EXCEPT ![i] = r] /\ UNCHANGED <<upsets, core, agent>>
    BY <1>2, <2>1, <2>2 DEF Rtc!HandleToken, RtcInv, RtcTypes
  <2>5. Counted(r, upsets) /\ Noticed(r)
    BY <2>1, <2>3, CountedSame, HandledNoticed DEF RtcBounds
  <2>6. /\ link'[i] = r /\ \A j \in Rtc!Links \ {i} : link'[j] = link[j]
        /\ upsets' = upsets /\ upsets <= MaxUpsets /\ \A a \in Rtc!Agents : agent'[a].code \in -2..2
    BY <2>4, Bounds DEF RtcInv, RtcTypes, RtcBounds
  <2>. QED BY <2>4, <2>5, <2>6, LinkCounted
<1>3. ASSUME NEW i \in Rtc!Links, Rtc!HandleDial(i) PROVE RtcBounds'
  <2>1. link[i] \in LinkRecords /\ link[i].agent # 0 /\ Rtc!Connect(link[i].agent, i) /\ UNCHANGED <<upsets, core>>
    BY <1>3, NoLinkFields DEF RtcInv, RtcTypes, LinksAreDialled, Rtc!HandleDial
  <2>2. link[i].agent \in Rtc!Agents /\ i \in 0..MaxLinks
    BY <2>1, AgentsCounted DEF LinkRecords
  <2>. QED BY <2>1, <2>2, ConnectBounded
<1>. QED BY <1>1, <1>2, <1>3, SignalBounded, CreateBounded, EndBounded DEF Rtc!Next, Rtc!Handling

LEMMA RtcBoundsStutter == ASSUME RtcBounds, UNCHANGED linking PROVE RtcBounds'
  BY DEF RtcBounds, Counted, Noticed, Rtc!Agents, Rtc!Links, linking

LEMMA RtcTyped == ASSUME RtcInv, RtcBounds PROVE Rtc!TypeOK
<1>1. \A a \in Rtc!Agents : agent[a].rtc \in 0..MaxLinks
  BY DEF RtcInv, RtcTypes, AgentRecords
<1>2. ASSUME NEW i \in Rtc!Links
      PROVE  link[i].peer \in {"none", "new", "connected", "closed"} /\ link[i].calls \in 0..(MaxUpsets + 3)
             /\ link[i].closing \in 0..(MaxUpsets + 3)
  <2>1. link[i] \in LinkRecords /\ Counted(link[i], upsets) /\ upsets \in 0..MaxUpsets
    BY DEF RtcInv, RtcTypes, RtcBounds
  <2>2. PICK p \in {0, 2} : p = IF link[i].peer = "closed" THEN 0 ELSE 2
    OBVIOUS
  <2>3. PICK q \in {0, 1} : q = IF link[i].loop = "ended" THEN 0 ELSE 1
    OBVIOUS
  <2>4. link[i].calls \in Nat /\ link[i].closing \in Nat /\ link[i].calls + link[i].closing + p + q <= upsets + 3
    BY <2>1, <2>2, <2>3 DEF Counted
  <2>. QED BY <2>1, <2>4, Bounds DEF LinkRecords
<1>. QED BY <1>1, <1>2 DEF RtcInv, RtcTypes, RtcBounds, Rtc!TypeOK

(* Whoever has an agent has one that was made; what the end of a link was answered with. *)
AgentsMade ==
  /\ registry # 0 => agent[registry].made
  /\ \A c \in Creators : creator[c].agent # 0 => agent[creator[c].agent].made
  /\ \A i \in Rtc!Links : link[i].agent # 0 => agent[link[i].agent].made

Successor(i) == \E j \in Rtc!Links : link[j].agent # 0 /\ link[j].by = i

(* A handler is done when it has dialled another link or found its agent told to stay down. *)
SeenTo == \A i \in Rtc!Links : link[i].handler = "done" => Successor(i) \/ agent[link[i].agent].reconnect = 1

LEMMA SeenInit == ASSUME Rtc!Init PROVE AgentsMade /\ SeenTo
<1>1. Rtc!NoLink.agent = 0 /\ Rtc!NoLink.handler = "none" /\ Rtc!Idle.agent = 0
  BY DEF Rtc!NoLink, Rtc!Idle
<1>. QED BY <1>1 DEF Rtc!Init, AgentsMade, SeenTo

(* The agents that were made stay, and stay told; the links dialled keep their agents. *)
LEMMA SeenKeeps ==
  ASSUME RtcInv, AgentsMade, SeenTo,
         \A a \in Rtc!Agents : agent[a].made => agent'[a].made /\ (agent[a].reconnect = 1 => agent'[a].reconnect = 1),
         registry' \in {0} \cup Rtc!Agents, registry' # 0 => agent'[registry'].made,
         \A c \in Creators : creator'[c].agent # 0 => agent'[creator'[c].agent].made,
         \A j \in Rtc!Links : link[j].agent # 0 => link'[j].agent = link[j].agent /\ link'[j].by = link[j].by,
         \A j \in Rtc!Links : link[j].agent = 0 /\ link'[j].agent # 0 => agent'[link'[j].agent].made,
         \A i \in Rtc!Links :
           link'[i].handler = "done" /\ link[i].handler # "done" =>
             \/ \E j \in Rtc!Links : link'[j].agent # 0 /\ link'[j].by = i
             \/ agent'[link'[i].agent].reconnect = 1
  PROVE  AgentsMade' /\ SeenTo'
<1>1. \A j \in Rtc!Links : link[j].agent \in {0} \cup Rtc!Agents
  BY DEF RtcInv, RtcTypes, LinkRecords
<1>2. Rtc!Links' = Rtc!Links
  BY DEF Rtc!Links
<1>3. \A j \in Rtc!Links : link'[j].agent # 0 => agent'[link'[j].agent].made
  BY <1>1 DEF AgentsMade
<1>4. AgentsMade'
  BY <1>2, <1>3 DEF AgentsMade
<1>5. ASSUME NEW i \in Rtc!Links, link'[i].handler = "done"
      PROVE  (\E j \in Rtc!Links : link'[j].agent # 0 /\ link'[j].by = i) \/ agent'[link'[i].agent].reconnect = 1
  <2>1. CASE link[i].handler # "done"
    BY <1>5, <2>1
  <2>2. CASE link[i].handler = "done"
    <3>1. link[i].agent # 0
      BY <2>2, NoLinkFields DEF RtcInv, LinksAreDialled
    <3>2. CASE Successor(i)
      BY <3>2 DEF Successor
    <3>3. CASE agent[link[i].agent].reconnect = 1
      BY <1>1, <3>1, <3>3 DEF AgentsMade
    <3>. QED BY <2>2, <3>2, <3>3 DEF SeenTo
  <2>. QED BY <2>1, <2>2
<1>6. SeenTo'
  BY <1>2, <1>5 DEF SeenTo, Successor
<1>. QED BY <1>4, <1>6

LEMMA ByKept ==
  ASSUME NEW l \in LinkRecords
  PROVE  Rtc!Shut(l).by = l.by /\ Rtc!Fire(l).by = l.by /\ Rtc!Closed(l).by = l.by
         /\ Rtc!Fire(l).agent = l.agent /\ (Rtc!Fire(l).handler = "done" => l.handler = "done")
         /\ Rtc!Closed(l).agent = l.agent /\ (Rtc!Closed(l).handler = "done" => l.handler = "done")
<1>1. \A k \in LinkRecords : /\ Rtc!Fire(k).by = k.by /\ Rtc!Fire(k).agent = k.agent
                             /\ Rtc!Fire(k).handler = "done" => k.handler = "done"
  BY DEF Rtc!Fire, LinkRecords
<1>2. PICK s \in LinkRecords : s = Rtc!Shut(l)
  BY ShutKeeps
<1>3. s.by = l.by
  BY <1>2 DEF Rtc!Shut, LinkRecords
<1>4. s.agent = l.agent /\ s.handler = l.handler
  BY <1>2, ShutKeeps
<1>. QED BY <1>1, <1>2, <1>3, <1>4 DEF Rtc!Closed

(* The links keep their agents, and no handler is done. *)
LinksStay ==
  \A j \in Rtc!Links :
    /\ link'[j].agent = link[j].agent /\ link'[j].by = link[j].by
    /\ link'[j].handler = "done" => link[j].handler = "done"

LEMMA StaySeen ==
  ASSUME RtcInv, AgentsMade, SeenTo, LinksStay,
         \A a \in Rtc!Agents : agent[a].made => agent'[a].made /\ (agent[a].reconnect = 1 => agent'[a].reconnect = 1),
         registry' \in {0} \cup Rtc!Agents, registry' # 0 => agent'[registry'].made,
         \A c \in Creators : creator'[c].agent # 0 => agent'[creator'[c].agent].made
  PROVE  AgentsMade' /\ SeenTo'
  BY SeenKeeps DEF LinksStay

LEMMA MadeStays ==
  ASSUME RtcInv, AgentsMade, UNCHANGED creator, registry' \in {0, registry},
         \A a \in Rtc!Agents : agent[a].made => agent'[a].made
  PROVE  /\ registry' \in {0} \cup Rtc!Agents /\ (registry' # 0 => agent'[registry'].made)
         /\ \A c \in Creators : creator'[c].agent # 0 => agent'[creator'[c].agent].made
  BY DEF RtcInv, RtcTypes, CreatorRecords, AgentsMade

LEMMA SignalSeen ==
  ASSUME RtcInv, AgentsMade, SeenTo, NEW i \in Rtc!Links, Rtc!Signal(i) \/ Rtc!EndLoop(i) \/ Rtc!Closing(i)
  PROVE  AgentsMade' /\ SeenTo'
<1>1. link \in [Rtc!Links -> LinkRecords] /\ agent \in [Rtc!Agents -> AgentRecords]
  BY DEF RtcInv, RtcTypes
<1>2. UNCHANGED <<registry, creator>>
  BY DEF Rtc!Signal, Rtc!Closing, Rtc!HostOffline, Rtc!HostOnline, Rtc!HostOnlineAgain, Rtc!Answer, Rtc!OpenChannel,
     Rtc!PeerFails, Rtc!LoseSignal, Rtc!EndLoop, Rtc!CallClose, Rtc!CloseOnce
<1>3. \A a \in Rtc!Agents : agent'[a].made = agent[a].made /\ agent'[a].reconnect = agent[a].reconnect
  <2>1. UNCHANGED agent \/ \E a : agent' = [agent EXCEPT ![a].code = 2]
    BY DEF Rtc!Signal, Rtc!Closing, Rtc!HostOffline, Rtc!HostOnline, Rtc!HostOnlineAgain, Rtc!Answer, Rtc!OpenChannel,
       Rtc!PeerFails, Rtc!LoseSignal, Rtc!EndLoop, Rtc!CallClose, Rtc!CloseOnce
  <2>. QED BY <1>1, <2>1 DEF AgentRecords
<1>4. ASSUME Rtc!Signal(i) \/ Rtc!EndLoop(i) PROVE LinksStay
  <2>1. CASE Rtc!HostOffline(i)
    BY <1>1, <2>1 DEF Rtc!HostOffline, LinkRecords, LinksStay
  <2>2. CASE Rtc!HostOnline(i)
    BY <1>1, <2>2 DEF Rtc!HostOnline, LinkRecords, LinksStay
  <2>3. CASE Rtc!HostOnlineAgain(i)
    BY <1>1, <2>3 DEF Rtc!HostOnlineAgain, LinkRecords, LinksStay
  <2>4. CASE Rtc!Answer(i)
    BY <1>1, <2>4 DEF Rtc!Answer, LinkRecords, LinksStay
  <2>5. CASE Rtc!OpenChannel(i)
    BY <1>1, <2>5 DEF Rtc!OpenChannel, LinkRecords, LinksStay
  <2>6. CASE Rtc!PeerFails(i)
    BY <1>1, <2>6 DEF Rtc!PeerFails, LinkRecords, LinksStay
  <2>7. CASE Rtc!LoseSignal(i)
    BY <1>1, <2>7 DEF Rtc!LoseSignal, LinkRecords, LinksStay
  <2>8. CASE Rtc!EndLoop(i)
    BY <1>1, <2>8 DEF Rtc!EndLoop, LinkRecords, LinksStay
  <2>. QED BY <1>4, <2>1, <2>2, <2>3, <2>4, <2>5, <2>6, <2>7, <2>8 DEF Rtc!Signal
<1>5. ASSUME NEW k \in LinkRecords, NEW r, link' = [link EXCEPT ![i] = r], k.agent = link[i].agent, k.by = link[i].by,
             k.handler = link[i].handler, r.agent = k.agent, r.by = k.by, r.handler = "done" => k.handler = "done"
      PROVE  LinksStay
  BY <1>1, <1>5 DEF LinksStay
<1>6. CASE Rtc!CallClose(i)
  <2>1. PICK c \in Int : c = link[i].calls - 1
    BY <1>1 DEF LinkRecords
  <2>2. PICK k : k = [link[i] EXCEPT !.calls = c]
    OBVIOUS
  <2>3. k \in LinkRecords /\ k.agent = link[i].agent /\ k.by = link[i].by /\ k.handler = link[i].handler
    BY <1>1, <2>2 DEF LinkRecords
  <2>4. PICK s \in LinkRecords : s = Rtc!Shut(k)
    BY <2>3, ShutKeeps
  <2>5. s.agent = k.agent /\ s.by = k.by /\ s.handler = k.handler
    BY <2>3, <2>4, ShutKeeps, ByKept
  <2>6. PICK d : d = s.closing + 1
    OBVIOUS
  <2>7. PICK r : r = [s EXCEPT !.closing = d]
    OBVIOUS
  <2>8. r.agent = s.agent /\ r.by = s.by /\ r.handler = s.handler
    BY <2>7 DEF LinkRecords
  <2>9. link' = [link EXCEPT ![i] = r]
    <3>1. k = [link[i] EXCEPT !.calls = @ - 1]
      BY <2>1, <2>2
    <3>2. r = [Rtc!Shut(k) EXCEPT !.closing = @ + 1]
      BY <2>4, <2>6, <2>7
    <3>. QED BY <1>6, <3>1, <3>2, Zenon DEF Rtc!CallClose
  <2>. QED BY <1>2, <1>3, <1>5, <2>3, <2>5, <2>8, <2>9, MadeStays, StaySeen
<1>7. CASE Rtc!CloseOnce(i)
  <2>1. PICK c \in Int : c = link[i].closing - 1
    BY <1>1 DEF LinkRecords
  <2>2. PICK k : k = [link[i] EXCEPT !.closing = c]
    OBVIOUS
  <2>3. k \in LinkRecords /\ k.agent = link[i].agent /\ k.by = link[i].by /\ k.handler = link[i].handler
    BY <1>1, <2>2 DEF LinkRecords
  <2>4. PICK r : r = Rtc!Fire(k)
    OBVIOUS
  <2>5. r.agent = k.agent /\ r.by = k.by /\ (r.handler = "done" => k.handler = "done")
    BY <2>3, <2>4, ByKept
  <2>6. link' = [link EXCEPT ![i] = r]
    <3>1. k = [link[i] EXCEPT !.closing = @ - 1]
      BY <2>1, <2>2
    <3>. QED BY <1>7, <2>4, <3>1, Zenon DEF Rtc!CloseOnce
  <2>. QED BY <1>2, <1>3, <1>5, <2>3, <2>5, <2>6, MadeStays, StaySeen
<1>. QED BY <1>2, <1>3, <1>4, <1>6, <1>7, MadeStays, StaySeen DEF Rtc!Closing

LEMMA TakeDownSeen ==
  ASSUME RtcInv, AgentsMade, SeenTo, NEW i \in Rtc!Links, link[i].handler \in {"close", "token"}, Rtc!TakeDown(i)
  PROVE  AgentsMade' /\ SeenTo'
<1>1. link \in [Rtc!Links -> LinkRecords] /\ agent \in [Rtc!Agents -> AgentRecords] /\ link[i].agent # 0
  BY NoLinkFields DEF RtcInv, RtcTypes, LinksAreDialled
<1>2. PICK a \in Rtc!Agents : a = link[i].agent
  BY <1>1 DEF LinkRecords
<1>3. PICK next \in {"token", "done"} : next = IF agent[a].reconnect = 0 THEN "token" ELSE "done"
  OBVIOUS
<1>4. PICK f : f = [link EXCEPT ![i].online = FALSE, ![i].handler = next]
  OBVIOUS
<1>5. /\ link' = IF agent[a].rtc = 0 THEN f ELSE [f EXCEPT ![agent[a].rtc] = Rtc!Closed(@)]
      /\ agent' = [agent EXCEPT ![a].code = -1]
      /\ registry' \in {0, registry} /\ UNCHANGED creator
  BY <1>2, <1>3, <1>4 DEF Rtc!TakeDown
<1>6. PICK q \in LinkRecords : q = link[i]
  BY <1>1
<1>7. PICK r \in LinkRecords : r = [q EXCEPT !.online = FALSE, !.handler = next]
  BY DEF LinkRecords
<1>8. r.agent = q.agent /\ r.by = q.by /\ r.handler = next
  BY <1>7 DEF LinkRecords
<1>9. f = [link EXCEPT ![i] = r]
  BY <1>1, <1>4, <1>6, <1>7
<1>10. \A j \in Rtc!Links : /\ f[j] \in LinkRecords /\ f[j].agent = link[j].agent /\ f[j].by = link[j].by
                            /\ f[j].handler = IF j = i THEN next ELSE link[j].handler
  BY <1>1, <1>6, <1>8, <1>9
<1>11. \A j \in Rtc!Links : /\ link'[j].agent = f[j].agent /\ link'[j].by = f[j].by
                            /\ link'[j].handler = "done" => f[j].handler = "done"
  <2>1. CASE agent[a].rtc = 0
    BY <1>5, <2>1
  <2>2. CASE agent[a].rtc # 0
    <3>1. PICK k \in Rtc!Links : k = agent[a].rtc
      BY <1>1, <2>2, AgentsCounted DEF AgentRecords
    <3>2. PICK c : c = Rtc!Closed(f[k])
      OBVIOUS
    <3>3. c.agent = f[k].agent /\ c.by = f[k].by /\ (c.handler = "done" => f[k].handler = "done")
      BY <1>10, <3>2, ByKept
    <3>4. link' = [f EXCEPT ![k] = c]
      BY <1>5, <2>2, <3>1, <3>2
    <3>. QED BY <1>1, <1>9, <3>3, <3>4
  <2>. QED BY <2>1, <2>2
<1>12. \A b \in Rtc!Agents : agent'[b].made = agent[b].made /\ agent'[b].reconnect = agent[b].reconnect
  BY <1>1, <1>5 DEF AgentRecords
<1>13. /\ registry' \in {0} \cup Rtc!Agents /\ (registry' # 0 => agent'[registry'].made)
       /\ \A c \in Creators : creator'[c].agent # 0 => agent'[creator'[c].agent].made
  BY <1>5, <1>12, MadeStays
<1>14. \A j \in Rtc!Links :
         /\ link'[j].agent = link[j].agent /\ link'[j].by = link[j].by
         /\ link'[j].handler = "done" => link[j].handler = "done" \/ (j = i /\ next = "done")
  BY <1>10, <1>11
<1>15. next = "done" => agent'[link'[i].agent].reconnect = 1
  <2>1. agent[a].reconnect \in {0, 1}
    BY <1>1 DEF AgentRecords
  <2>. QED BY <1>2, <1>3, <1>12, <1>14, <2>1
<1>. QED BY <1>12, <1>13, <1>14, <1>15, SeenKeeps

LEMMA ConnectSeen ==
  ASSUME RtcInv, AgentsMade, SeenTo, NEW a \in Rtc!Agents, agent[a].made, NEW by \in 0..MaxLinks, Rtc!Connect(a, by),
         by # 0 => link[by].agent # 0, UNCHANGED registry,
         \A c \in Creators : creator'[c].agent = creator[c].agent
  PROVE  AgentsMade' /\ SeenTo'
<1>1. PICK i \in Rtc!Free, ok \in BOOLEAN :
        /\ link' = [j \in Rtc!Links |->
                      IF j = i THEN [Rtc!NoLink EXCEPT !.agent = a, !.by = by, !.ws = ok, !.loop = IF ok THEN "runs" ELSE "none"]
                      ELSE IF j = by THEN [link[j] EXCEPT !.handler = "done"] ELSE link[j]]
        /\ agent' = [agent EXCEPT ![a].rtc = i, ![a].code = IF ok THEN 1 ELSE -2]
  BY DEF Rtc!Connect
<1>2. /\ link \in [Rtc!Links -> LinkRecords] /\ agent \in [Rtc!Agents -> AgentRecords]
      /\ i \in Rtc!Links /\ link[i].agent = 0 /\ a # 0
  BY AgentsCounted DEF RtcInv, RtcTypes, Rtc!Free
<1>3. link'[i].agent = a /\ link'[i].by = by /\ link'[i].handler = "none"
  <2>1. PICK z \in LinkRecords : z = Rtc!NoLink
    BY NoLinkFields
  <2>2. PICK l : l = IF ok THEN "runs" ELSE "none"
    OBVIOUS
  <2>3. PICK n : n = [z EXCEPT !.agent = a, !.by = by, !.ws = ok, !.loop = l]
    OBVIOUS
  <2>4. n.agent = a /\ n.by = by /\ n.handler = "none"
    BY <2>1, <2>3, NoLinkFields DEF LinkRecords
  <2>5. link'[i] = n
    BY <1>1, <1>2, <2>1, <2>2, <2>3
  <2>. QED BY <2>4, <2>5
<1>4. ASSUME NEW j \in Rtc!Links, j # i
      PROVE  link'[j].agent = link[j].agent /\ link'[j].by = link[j].by /\ (j # by => link'[j].handler = link[j].handler)
  <2>1. PICK q \in LinkRecords : q = link[j]
    BY <1>2
  <2>2. PICK r : r = [q EXCEPT !.handler = "done"]
    OBVIOUS
  <2>3. r.agent = q.agent /\ r.by = q.by
    BY <2>2 DEF LinkRecords
  <2>4. link'[j] = IF j = by THEN r ELSE q
    BY <1>1, <1>4, <2>1, <2>2
  <2>. QED BY <2>1, <2>3, <2>4
<1>5. \A b \in Rtc!Agents : agent'[b].made = agent[b].made /\ agent'[b].reconnect = agent[b].reconnect
  <2>1. PICK m : m = IF ok THEN 1 ELSE -2
    OBVIOUS
  <2>2. PICK r : r = [agent[a] EXCEPT !.rtc = i, !.code = m]
    OBVIOUS
  <2>3. r.made = agent[a].made /\ r.reconnect = agent[a].reconnect
    BY <1>2, <2>2 DEF AgentRecords
  <2>4. agent' = [agent EXCEPT ![a] = r]
    BY <1>1, <1>2, <2>1, <2>2
  <2>. QED BY <1>2, <2>3, <2>4
<1>6. /\ registry' \in {0} \cup Rtc!Agents /\ (registry' # 0 => agent'[registry'].made)
      /\ \A c \in Creators : creator'[c].agent # 0 => agent'[creator'[c].agent].made
  BY <1>5 DEF RtcInv, RtcTypes, CreatorRecords, AgentsMade
<1>7. \A j \in Rtc!Links : link[j].agent # 0 => link'[j].agent = link[j].agent /\ link'[j].by = link[j].by
  BY <1>2, <1>4
<1>8. \A j \in Rtc!Links : link[j].agent = 0 /\ link'[j].agent # 0 => agent'[link'[j].agent].made
  BY <1>3, <1>4, <1>5
<1>9. \A k \in Rtc!Links : link'[k].handler = "done" /\ link[k].handler # "done" =>
        \E j \in Rtc!Links : link'[j].agent # 0 /\ link'[j].by = k
  BY <1>2, <1>3, <1>4
<1>. QED BY <1>5, <1>6, <1>7, <1>8, <1>9, SeenKeeps

LEMMA TokenSeen == ASSUME RtcInv, AgentsMade, SeenTo, NEW i \in Rtc!Links, Rtc!HandleToken(i) PROVE AgentsMade' /\ SeenTo'
<1>1. PICK l \in LinkRecords : l = link[i]
  BY DEF RtcInv, RtcTypes
<1>2. PICK r : r = [l EXCEPT !.handler = "dial"]
  OBVIOUS
<1>3. r.agent = l.agent /\ r.by = l.by /\ r.handler = "dial"
  BY <1>2 DEF LinkRecords
<1>4. link' = [link EXCEPT ![i] = r] /\ UNCHANGED <<registry, agent, creator>>
  BY <1>1, <1>2 DEF Rtc!HandleToken, RtcInv, RtcTypes
<1>5. LinksStay
  BY <1>1, <1>3, <1>4 DEF LinksStay, RtcInv, RtcTypes
<1>. QED BY <1>4, <1>5, MadeStays, StaySeen

LEMMA DialSeen == ASSUME RtcInv, AgentsMade, SeenTo, NEW i \in Rtc!Links, Rtc!HandleDial(i) PROVE AgentsMade' /\ SeenTo'
<1>1. link[i] \in LinkRecords /\ link[i].agent # 0 /\ Rtc!Connect(link[i].agent, i) /\ UNCHANGED <<registry, creator>>
  BY NoLinkFields DEF RtcInv, RtcTypes, LinksAreDialled, Rtc!HandleDial
<1>2. PICK a \in Rtc!Agents : a = link[i].agent
  BY <1>1 DEF LinkRecords
<1>3. agent[a].made /\ i \in 0..MaxLinks
  BY <1>1, <1>2, AgentsCounted DEF AgentsMade
<1>. QED BY <1>1, <1>2, <1>3, ConnectSeen

(* A creator moves on with an agent that was made, or none. *)
LEMMA CreatorSeen ==
  ASSUME RtcInv, AgentsMade, SeenTo, NEW c \in Creators, NEW r, creator' = [creator EXCEPT ![c] = r],
         r.agent # 0 => agent'[r.agent].made, UNCHANGED link,
         \A a \in Rtc!Agents : agent[a].made => agent'[a].made /\ (agent[a].reconnect = 1 => agent'[a].reconnect = 1),
         registry' \in {0} \cup Rtc!Agents, registry' # 0 => agent'[registry'].made
  PROVE  AgentsMade' /\ SeenTo'
<1>1. ASSUME NEW d \in Creators, creator'[d].agent # 0 PROVE agent'[creator'[d].agent].made
  <2>1. CASE d = c
    BY <1>1, <2>1 DEF RtcInv, RtcTypes
  <2>2. CASE d # c
    <3>1. creator'[d] = creator[d] /\ creator[d].agent \in {0} \cup Rtc!Agents
      BY <2>2 DEF RtcInv, RtcTypes, CreatorRecords
    <3>. QED BY <1>1, <3>1 DEF AgentsMade
  <2>. QED BY <2>1, <2>2
<1>2. LinksStay
  BY DEF LinksStay
<1>. QED BY <1>1, <1>2, StaySeen

LEMMA CreateSeen == ASSUME RtcInv, AgentsMade, SeenTo, NEW c \in Creators, Rtc!Create(c) PROVE AgentsMade' /\ SeenTo'
<1>1. /\ creator[c] \in CreatorRecords /\ registry \in {0} \cup Rtc!Agents
      /\ agent \in [Rtc!Agents -> AgentRecords] /\ creator \in [Creators -> CreatorRecords]
      /\ creator[c].pc \in {"token", "save"} => creator[c].agent # 0
      /\ creator[c].agent # 0 => agent[creator[c].agent].made
      /\ registry # 0 => agent[registry].made
  BY DEF RtcInv, RtcTypes, LinksAreDialled, AgentsMade
<1>2. \A r : r = Rtc!Idle => r.agent = 0
  BY DEF Rtc!Idle
<1>3. ASSUME Rtc!LookUp(c) \/ Rtc!CreateNoToken(c) \/ Rtc!SaveAgent(c) PROVE AgentsMade' /\ SeenTo'
  <2>1. PICK r : creator' = [creator EXCEPT ![c] = r] /\ (r = Rtc!Idle \/ r = [pc |-> "new", agent |-> registry])
    BY <1>3 DEF Rtc!LookUp, Rtc!CreateNoToken, Rtc!SaveAgent
  <2>2. UNCHANGED <<registry, agent, link>>
    BY <1>3 DEF Rtc!LookUp, Rtc!CreateNoToken, Rtc!SaveAgent
  <2>3. r.agent # 0 => agent'[r.agent].made
    BY <1>1, <1>2, <2>1, <2>2
  <2>. QED BY <1>1, <2>1, <2>2, <2>3, CreatorSeen
<1>4. CASE Rtc!TakeAgent(c)
  <2>1. CASE creator[c].agent # 0 /\ UNCHANGED <<registry, agent>>
             /\ creator' = [creator EXCEPT ![c] = IF Rtc!InOrder(creator[c].agent) THEN Rtc!Idle ELSE [@ EXCEPT !.pc = "token"]]
    <3>1. PICK r : r = IF Rtc!InOrder(creator[c].agent) THEN Rtc!Idle ELSE [creator[c] EXCEPT !.pc = "token"]
      OBVIOUS
    <3>2. r.agent # 0 => r.agent = creator[c].agent
      BY <1>1, <1>2, <3>1 DEF CreatorRecords
    <3>3. creator' = [creator EXCEPT ![c] = r] /\ UNCHANGED link
      BY <1>4, <2>1, <3>1 DEF Rtc!TakeAgent
    <3>. QED BY <1>1, <2>1, <3>2, <3>3, CreatorSeen
  <2>2. ASSUME NEW a \in Rtc!Agents, ~agent[a].made, agent' = [agent EXCEPT ![a] = Rtc!NewAgent], registry' = a,
               creator' = [creator EXCEPT ![c] = [pc |-> "token", agent |-> a]]
        PROVE  AgentsMade' /\ SeenTo'
    <3>1. PICK r : r = [pc |-> "token", agent |-> a]
      OBVIOUS
    <3>2. Rtc!NewAgent.made
      BY DEF Rtc!NewAgent
    <3>3. agent'[a].made /\ \A b \in Rtc!Agents \ {a} : agent'[b] = agent[b]
      BY <1>1, <2>2, <3>2
    <3>4. \A b \in Rtc!Agents : agent[b].made => agent'[b].made /\ (agent[b].reconnect = 1 => agent'[b].reconnect = 1)
      BY <2>2, <3>3
    <3>5. r.agent = a /\ creator' = [creator EXCEPT ![c] = r] /\ UNCHANGED link
      BY <1>4, <2>2, <3>1 DEF Rtc!TakeAgent
    <3>. QED BY <2>2, <3>3, <3>4, <3>5, CreatorSeen
  <2>. QED BY <1>4, <2>1, <2>2 DEF Rtc!TakeAgent
<1>5. CASE Rtc!CreateDial(c)
  <2>1. /\ creator[c].pc = "token" /\ Rtc!Connect(creator[c].agent, 0) /\ UNCHANGED registry
        /\ creator' = [creator EXCEPT ![c].pc = "save"]
    BY <1>5 DEF Rtc!CreateDial
  <2>2. PICK a \in Rtc!Agents : a = creator[c].agent
    BY <1>1, <2>1 DEF CreatorRecords
  <2>3. \A d \in Creators : creator'[d].agent = creator[d].agent
    BY <1>1, <2>1 DEF CreatorRecords
  <2>4. agent[a].made /\ 0 \in 0..MaxLinks
    BY <1>1, <2>1, <2>2, AgentsCounted
  <2>. QED BY <2>1, <2>2, <2>3, <2>4, ConnectSeen
<1>. QED BY <1>3, <1>4, <1>5 DEF Rtc!Create

LEMMA EndSeen == ASSUME RtcInv, AgentsMade, SeenTo, Rtc!ClearAll \/ Rtc!EndStream PROVE AgentsMade' /\ SeenTo'
<1>1. /\ registry \in {0} \cup Rtc!Agents /\ agent \in [Rtc!Agents -> AgentRecords]
      /\ link \in [Rtc!Links -> LinkRecords]
  BY DEF RtcInv, RtcTypes
<1>2. /\ link' = link \/ (registry # 0 /\ agent[registry].rtc # 0
                          /\ link' = [link EXCEPT ![agent[registry].rtc] = Rtc!Closed(@)])
      /\ registry' \in {0, registry} /\ UNCHANGED creator
  BY DEF Rtc!ClearAll, Rtc!EndStream
<1>3. \A a \in Rtc!Agents : agent'[a].made = agent[a].made /\ (agent[a].reconnect = 1 => agent'[a].reconnect = 1)
  <2>1. CASE Rtc!ClearAll
    BY <1>1, <2>1 DEF Rtc!ClearAll
  <2>2. CASE Rtc!EndStream
    <3>1. agent' = [agent EXCEPT ![registry].reconnect = 1]
      BY <2>2 DEF Rtc!EndStream
    <3>. QED BY <1>1, <3>1 DEF AgentRecords
  <2>. QED BY <2>1, <2>2
<1>4. LinksStay
  <2>1. CASE link' = link
    BY <2>1 DEF LinksStay
  <2>2. CASE registry # 0 /\ agent[registry].rtc # 0 /\ link' = [link EXCEPT ![agent[registry].rtc] = Rtc!Closed(@)]
    <3>1. PICK k \in Rtc!Links : k = agent[registry].rtc
      BY <1>1, <2>2, AgentsCounted DEF AgentRecords
    <3>2. PICK r : r = Rtc!Closed(link[k])
      OBVIOUS
    <3>3. link[k] \in LinkRecords /\ r.agent = link[k].agent /\ r.by = link[k].by
          /\ (r.handler = "done" => link[k].handler = "done")
      BY <1>1, <3>2, ByKept
    <3>4. link' = [link EXCEPT ![k] = r]
      BY <2>2, <3>1, <3>2
    <3>. QED BY <1>1, <3>3, <3>4 DEF LinksStay
  <2>. QED BY <1>2, <2>1, <2>2
<1>. QED BY <1>2, <1>3, <1>4, MadeStays, StaySeen

LEMMA SeenNext == ASSUME RtcInv, AgentsMade, SeenTo, Rtc!Next PROVE AgentsMade' /\ SeenTo'
<1>1. ASSUME NEW i \in Rtc!Links, Rtc!HandleClose(i) \/ Rtc!HandleNoToken(i) PROVE AgentsMade' /\ SeenTo'
  BY <1>1, TakeDownSeen DEF Rtc!HandleClose, Rtc!HandleNoToken
<1>2. ASSUME NEW i \in Rtc!Links, Rtc!Signal(i) \/ Rtc!EndLoop(i) \/ Rtc!Closing(i) PROVE AgentsMade' /\ SeenTo'
  BY <1>2, SignalSeen
<1>3. ASSUME NEW i \in Rtc!Links, Rtc!HandleToken(i) \/ Rtc!HandleDial(i) PROVE AgentsMade' /\ SeenTo'
  BY <1>3, TokenSeen, DialSeen
<1>4. ASSUME NEW c \in Creators, Rtc!Create(c) PROVE AgentsMade' /\ SeenTo'
  BY <1>4, CreateSeen
<1>. QED BY <1>1, <1>2, <1>3, <1>4, EndSeen DEF Rtc!Next, Rtc!Handling

LEMMA SeenStutter == ASSUME AgentsMade, SeenTo, UNCHANGED linking PROVE AgentsMade' /\ SeenTo'
  BY DEF AgentsMade, SeenTo, Successor, Rtc!Agents, Rtc!Links, linking

(* Whether the end of every link is on its way to being seen to, or was. *)
LinkEndSeen ==
  \A i \in Rtc!Links :
    /\ link[i].loop # "none" /\ ~link[i].ws /\ link[i].peer # "connected" =>
         link[i].loop = "runs" \/ link[i].calls > 0 \/ link[i].closing > 0 \/ link[i].handler # "none"
    /\ link[i].handler = "done" => Successor(i) \/ agent[link[i].agent].reconnect = 1

(* The end of a link is never lost: a link whose signalling ended without a peer connection is still
   read, or about to be closed, or in the hands of its handler (webRTC.Client.Close and its once), and
   a handler that is done has dialled the next link, unless the link's agent was told to stay down.
   With the fairness of the goroutines this is what DeadLinkRedialled rests on. *)
THEOREM DeadLinksNoticed == Spec => []LinkEndSeen
<1>1. Init => RtcInv /\ RtcBounds /\ AgentsMade /\ SeenTo
  BY RtcInit, RtcBoundsInit, SeenInit DEF Init
<1>2. RtcInv /\ RtcBounds /\ AgentsMade /\ SeenTo /\ [Next]_vars => RtcInv' /\ RtcBounds' /\ AgentsMade' /\ SeenTo'
  BY OneSteps, RtcKeeps, RtcStutter, RtcBoundsKeep, RtcBoundsStutter, SeenNext, SeenStutter
<1>3. RtcBounds /\ SeenTo => LinkEndSeen
  BY DEF RtcBounds, Noticed, SeenTo, LinkEndSeen
<1>. QED BY <1>1, <1>2, <1>3, PTL DEF Spec

------------------------------------------------------------------------------
(* PortForward: whose tunnels and forwarders are, and who watches a listener *)

MapRecords ==
  [device : Devices \cup {Forward!None}, port : Ports \cup {Forward!None}, phone : Phones \cup {Forward!None},
   mode : {0, 2}, rtc : 0..MaxTunnels, fwd : 0..MaxTunnels, reconnect : {0, 1}]

TunnelRecords ==
  [map : 0..MaxMaps, peer : {"none", "up", "down"}, dc : {"none", "open", "closed"}, cb : BOOLEAN,
   opening : {"no", "ask"}, handler : {"no", "close", "token", "dial"}]

ForwarderRecords ==
  [made : BOOLEAN, mux : BOOLEAN, lis : {"none", "open", "closed"},
   pc : {"none", "start", "listen", "serve", "done"}, monitor : {"none", "wait", "done"}]

JobRecords ==
  [pc : {"idle", "new", "token", "add"}, device : Devices \cup {Forward!None}, port : Ports \cup {Forward!None},
   phone : Phones \cup {Forward!None}, mode : {0, 2}, map : 0..MaxMaps, via : {"none", "http", "service"}]

ForwardTypes ==
  /\ entry \in [Devices -> 0..MaxMaps] /\ saved \in [Devices -> 0..MaxMaps]
  /\ active \in [Ports -> Devices \cup {Forward!None}]
  /\ map \in [Forward!Maps -> MapRecords] /\ tunnel \in [Forward!Tunnels -> TunnelRecords]
  /\ fwd \in [Forward!Tunnels -> ForwarderRecords] /\ job \in JobRecords

(* A request that has got so far has a device, a port, a map. *)
JobWhole ==
  /\ job.pc = "idle" => job = Forward!NoJob
  /\ job.pc # "idle" => job.device \in Devices /\ job.port \in Ports /\ job.phone \in Phones
  /\ job.pc \in {"token", "add"} => job.map \in Forward!Made /\ map[job.map].device = job.device

(* What a map is said to have was dialled or made for it. *)
MapsOwn ==
  /\ \A d \in Devices :
       /\ entry[d] # 0 => map[entry[d]].device = d
       /\ saved[d] # 0 => map[saved[d]].device = d
  /\ \A m \in Forward!Maps :
       /\ map[m].rtc # 0 => tunnel[map[m].rtc].map = m
       /\ map[m].fwd # 0 => tunnel[map[m].fwd].map = m
  /\ \A i \in Forward!Tunnels :
       /\ tunnel[i].map # 0 => tunnel[i].map \in Forward!Made
       /\ tunnel[i].map = 0 => tunnel[i] = Forward!NoTunnel /\ fwd[i] = Forward!NoForwarder

(* The listener of a port map has somebody who waits for its multiplexer to end. *)
PortWatched ==
  \A i \in Forward!Tunnels :
    /\ fwd[i].lis = "open" /\ Forward!ModeOf(i) = 0 => fwd[i].monitor = "wait"
    /\ fwd[i].pc \in {"none", "start"} => fwd[i].lis = "none" /\ fwd[i].monitor = "none"
    /\ fwd[i].pc = "listen" => Forward!ModeOf(i) = 2

(* A local port has one listener of the program at most. *)
PortHeldOnce ==
  \A i, j \in Forward!Tunnels :
    fwd[i].lis = "open" /\ fwd[j].lis = "open" /\ Forward!PortOf(i) = Forward!PortOf(j) => i = j

ForwardInv == ForwardTypes /\ JobWhole /\ MapsOwn /\ PortWatched /\ PortHeldOnce


LEMMA ForwardBounds ==
  /\ MapModes \subseteq {0, 2} /\ MaxMaps \in Nat /\ MaxTunnels \in Nat /\ Forward!None \notin Devices
  /\ Forward!Maps = 1..MaxMaps /\ Forward!Tunnels = 1..MaxTunnels
  BY ServicesAssumption DEF Forward!MapAssumption, Forward!Maps, Forward!Tunnels

LEMMA NothingYet ==
  /\ Forward!NoMap \in MapRecords /\ Forward!NoTunnel \in TunnelRecords /\ Forward!NoForwarder \in ForwarderRecords
  /\ Forward!NoJob \in JobRecords
<1>1. Forward!NoMap \in MapRecords
  BY ForwardBounds DEF Forward!NoMap, MapRecords
<1>2. Forward!NoTunnel \in TunnelRecords
  BY ForwardBounds DEF Forward!NoTunnel, TunnelRecords
<1>3. Forward!NoForwarder \in ForwarderRecords
  BY DEF Forward!NoForwarder, ForwarderRecords
<1>4. Forward!NoJob \in JobRecords
  BY ForwardBounds DEF Forward!NoJob, JobRecords, Forward!None
<1>. QED BY <1>1, <1>2, <1>3, <1>4

LEMMA NoMapFields ==
  \A m : m = Forward!NoMap => m.device = Forward!None /\ m.rtc = 0 /\ m.fwd = 0 /\ m.mode = 0
  BY DEF Forward!NoMap

LEMMA NoTunnelFields ==
  \A t : t = Forward!NoTunnel => t.map = 0 /\ t.peer = "none" /\ t.dc = "none" /\ t.opening = "no" /\ t.handler = "no"
  BY DEF Forward!NoTunnel

LEMMA NoForwarderFields ==
  \A f : f = Forward!NoForwarder => ~f.made /\ ~f.mux /\ f.lis = "none" /\ f.pc = "none" /\ f.monitor = "none"
  BY DEF Forward!NoForwarder

LEMMA NoJobFields ==
  \A j : j = Forward!NoJob => j.pc = "idle" /\ j.map = 0
  BY DEF Forward!NoJob

LEMMA ForwardInit == ASSUME Forward!Init PROVE ForwardInv
<1>1. /\ entry = [d \in Devices |-> 0] /\ saved = entry /\ active = [p \in Ports |-> Forward!None]
      /\ map = [m \in Forward!Maps |-> Forward!NoMap] /\ tunnel = [i \in Forward!Tunnels |-> Forward!NoTunnel]
      /\ fwd = [i \in Forward!Tunnels |-> Forward!NoForwarder] /\ job = Forward!NoJob
  BY DEF Forward!Init
<1>2. ForwardTypes
  BY <1>1, ForwardBounds, NothingYet DEF ForwardTypes
<1>3. JobWhole
  BY <1>1, NoJobFields DEF JobWhole
<1>4. MapsOwn
  BY <1>1, NoMapFields, NoTunnelFields DEF MapsOwn
<1>5. PortWatched /\ PortHeldOnce
  BY <1>1, NoForwarderFields DEF PortWatched, PortHeldOnce
<1>. QED BY <1>2, <1>3, <1>4, <1>5 DEF ForwardInv

(* A tunnel that was dialled belongs to a map; what was not dialled has come to nothing. *)
LEMMA DialledHasMap ==
  ASSUME ForwardInv, NEW i \in Forward!Tunnels,
         \/ tunnel[i].peer # "none" \/ tunnel[i].dc # "none" \/ tunnel[i].opening # "no" \/ tunnel[i].handler # "no"
         \/ fwd[i].mux \/ fwd[i].pc # "none" \/ fwd[i].monitor # "none"
  PROVE  tunnel[i].map # 0 /\ tunnel[i].map \in Forward!Maps /\ tunnel[i].map \in Forward!Made
<1>1. tunnel[i].map # 0
  BY NoTunnelFields, NoForwarderFields DEF ForwardInv, MapsOwn
<1>2. tunnel[i].map \in Forward!Made
  BY <1>1 DEF ForwardInv, MapsOwn
<1>. QED BY <1>1, <1>2 DEF Forward!Made

(* A step that takes nothing from a map but its will to come back, and from no tunnel its map. *)
MapsStand ==
  /\ \A m \in Forward!Maps :
       /\ map'[m].device = map[m].device /\ map'[m].port = map[m].port /\ map'[m].mode = map[m].mode
       /\ map'[m].rtc = map[m].rtc /\ map'[m].fwd = map[m].fwd
  /\ \A i \in Forward!Tunnels :
       /\ tunnel'[i].map = tunnel[i].map
       /\ tunnel[i].map = 0 => tunnel'[i] = tunnel[i] /\ fwd'[i] = fwd[i]

LEMMA MapsRead ==
  ASSUME ForwardTypes, NEW i \in Forward!Tunnels
  PROVE  /\ tunnel[i].map # 0 => /\ tunnel[i].map \in Forward!Maps
                                 /\ Forward!ModeOf(i) = map[tunnel[i].map].mode
                                 /\ Forward!PortOf(i) = map[tunnel[i].map].port
         /\ tunnel[i].map = 0 => Forward!ModeOf(i) = 0 /\ Forward!PortOf(i) = Forward!None
<1>1. tunnel[i].map \in 0..MaxMaps
  BY DEF ForwardTypes, TunnelRecords
<1>2. PICK m : m = Forward!MapOf(i)
  OBVIOUS
<1>3. Forward!ModeOf(i) = m.mode /\ Forward!PortOf(i) = m.port
  BY <1>2 DEF Forward!ModeOf, Forward!PortOf
<1>4. m = IF tunnel[i].map = 0 THEN Forward!NoMap ELSE map[tunnel[i].map]
  BY <1>2 DEF Forward!MapOf
<1>5. tunnel[i].map = 0 => m.mode = 0 /\ m.port = Forward!None
  BY <1>4 DEF Forward!NoMap
<1>. QED BY <1>1, <1>3, <1>4, <1>5, ForwardBounds

LEMMA MapsReadNext == (\A i \in Forward!Tunnels : ForwardTypes =>
         /\ tunnel[i].map # 0 => /\ tunnel[i].map \in Forward!Maps
                                 /\ Forward!ModeOf(i) = map[tunnel[i].map].mode
                                 /\ Forward!PortOf(i) = map[tunnel[i].map].port
         /\ tunnel[i].map = 0 => Forward!ModeOf(i) = 0 /\ Forward!PortOf(i) = Forward!None)'
<1>1. \A i \in Forward!Tunnels : ForwardTypes =>
         /\ tunnel[i].map # 0 => /\ tunnel[i].map \in Forward!Maps
                                 /\ Forward!ModeOf(i) = map[tunnel[i].map].mode
                                 /\ Forward!PortOf(i) = map[tunnel[i].map].port
         /\ tunnel[i].map = 0 => Forward!ModeOf(i) = 0 /\ Forward!PortOf(i) = Forward!None
  BY MapsRead
<1>. QED BY <1>1, PTL

LEMMA Stand ==
  ASSUME ForwardTypes, ForwardTypes', MapsStand
  PROVE  /\ Forward!Made' = Forward!Made
         /\ \A i \in Forward!Tunnels :
              Forward!ModeOf(i)' = Forward!ModeOf(i) /\ Forward!PortOf(i)' = Forward!PortOf(i)
<1>1. Forward!Made' = Forward!Made
  <2>1. Forward!Made = {m \in Forward!Maps : map[m].device # Forward!None}
    BY DEF Forward!Made
  <2>2. Forward!Made' = {m \in Forward!Maps : map'[m].device # Forward!None}
    BY DEF Forward!Made, Forward!Maps, Forward!None
  <2>. QED BY <2>1, <2>2 DEF MapsStand
<1>2. ASSUME NEW i \in Forward!Tunnels
      PROVE  Forward!ModeOf(i)' = Forward!ModeOf(i) /\ Forward!PortOf(i)' = Forward!PortOf(i)
  <2>1. /\ tunnel'[i].map # 0 => Forward!ModeOf(i)' = map'[tunnel'[i].map].mode
                                 /\ Forward!PortOf(i)' = map'[tunnel'[i].map].port
        /\ tunnel'[i].map = 0 => Forward!ModeOf(i)' = 0 /\ Forward!PortOf(i)' = Forward!None
    BY <1>2, MapsReadNext DEF Forward!Maps, Forward!Tunnels, Forward!None
  <2>2. tunnel'[i].map = tunnel[i].map
    BY <1>2 DEF MapsStand
  <2>. QED BY <1>2, <2>1, <2>2, MapsRead DEF MapsStand
<1>. QED BY <1>1, <1>2


(* The types, their records left as they are. *)
LEMMA ForwardTypesNext ==
  ASSUME entry' \in [Devices -> 0..MaxMaps], saved' \in [Devices -> 0..MaxMaps],
         active' \in [Ports -> Devices \cup {Forward!None}],
         map' \in [Forward!Maps -> MapRecords], tunnel' \in [Forward!Tunnels -> TunnelRecords],
         fwd' \in [Forward!Tunnels -> ForwarderRecords], job' \in JobRecords
  PROVE  ForwardTypes'
  BY DEF ForwardTypes, MapRecords, TunnelRecords, ForwarderRecords, JobRecords, Forward!Maps, Forward!Tunnels,
     Forward!None

(* The maps and their tunnels stand: what is left to show of a step. *)
LEMMA StandKeeps ==
  ASSUME ForwardInv, ForwardTypes', MapsStand, JobWhole',
         \A d \in Devices : entry'[d] \in {0, entry[d]} /\ saved'[d] \in {0, saved[d]},
         \A i \in Forward!Tunnels :
           /\ fwd'[i].lis = "open" /\ Forward!ModeOf(i) = 0 => fwd'[i].monitor = "wait"
           /\ fwd'[i].pc \in {"none", "start"} => fwd'[i].lis = "none" /\ fwd'[i].monitor = "none"
           /\ fwd'[i].pc = "listen" => Forward!ModeOf(i) = 2,
         \A i, j \in Forward!Tunnels :
           fwd'[i].lis = "open" /\ fwd'[j].lis = "open" /\ Forward!PortOf(i) = Forward!PortOf(j) => i = j
  PROVE  ForwardInv'
<1>1. ForwardTypes /\ MapsOwn
  BY DEF ForwardInv
<1>2. /\ Forward!Made' = Forward!Made
      /\ \A i \in Forward!Tunnels : Forward!ModeOf(i)' = Forward!ModeOf(i) /\ Forward!PortOf(i)' = Forward!PortOf(i)
  BY <1>1, Stand
<1>3. Forward!Tunnels' = Forward!Tunnels /\ Forward!Maps' = Forward!Maps
  BY DEF Forward!Maps, Forward!Tunnels
<1>4. PortWatched'
  BY <1>2, <1>3 DEF PortWatched
<1>5. PortHeldOnce'
  BY <1>2, <1>3 DEF PortHeldOnce
<1>6. MapsOwn'
  <2>1. ASSUME NEW d \in Devices
        PROVE  /\ entry'[d] # 0 => map'[entry'[d]].device = d
               /\ saved'[d] # 0 => map'[saved'[d]].device = d
    <3>1. entry[d] \in 0..MaxMaps /\ saved[d] \in 0..MaxMaps
      BY <1>1, <2>1 DEF ForwardTypes
    <3>2. (entry[d] # 0 => entry[d] \in Forward!Maps) /\ (saved[d] # 0 => saved[d] \in Forward!Maps)
      BY <3>1, ForwardBounds
    <3>. QED BY <1>1, <2>1, <3>2 DEF MapsOwn, MapsStand
  <2>2. ASSUME NEW m \in Forward!Maps
        PROVE  /\ map'[m].rtc # 0 => tunnel'[map'[m].rtc].map = m
               /\ map'[m].fwd # 0 => tunnel'[map'[m].fwd].map = m
    <3>1. map[m].rtc \in 0..MaxTunnels /\ map[m].fwd \in 0..MaxTunnels
      BY <1>1, <2>2 DEF ForwardTypes, MapRecords
    <3>2. (map[m].rtc # 0 => map[m].rtc \in Forward!Tunnels) /\ (map[m].fwd # 0 => map[m].fwd \in Forward!Tunnels)
      BY <3>1, ForwardBounds
    <3>. QED BY <1>1, <2>2, <3>2 DEF MapsOwn, MapsStand
  <2>3. ASSUME NEW i \in Forward!Tunnels
        PROVE  /\ tunnel'[i].map # 0 => tunnel'[i].map \in Forward!Made
               /\ tunnel'[i].map = 0 => tunnel'[i] = Forward!NoTunnel /\ fwd'[i] = Forward!NoForwarder
    BY <1>1, <2>3 DEF MapsOwn, MapsStand
  <2>4. Forward!NoTunnel' = Forward!NoTunnel /\ Forward!NoForwarder' = Forward!NoForwarder
    BY DEF Forward!NoTunnel, Forward!NoForwarder
  <2>. QED BY <1>2, <1>3, <2>1, <2>2, <2>3, <2>4 DEF MapsOwn
<1>. QED BY <1>4, <1>5, <1>6 DEF ForwardInv

LEMMA JobStays ==
  ASSUME ForwardInv, UNCHANGED job, \A m \in Forward!Maps : map'[m].device = map[m].device
  PROVE  JobWhole'
<1>1. Forward!NoJob' = Forward!NoJob
  BY DEF Forward!NoJob, Forward!None
<1>2. JobWhole
  BY DEF ForwardInv
<1>3. \A m \in Forward!Made : m \in Forward!Made' /\ map'[m].device = map[m].device
  BY DEF Forward!Made, Forward!Maps, Forward!None
<1>. QED BY <1>1, <1>2, <1>3 DEF JobWhole

(* A step of one tunnel. *)
LEMMA TunnelMoves ==
  ASSUME ForwardInv, NEW i \in Forward!Tunnels, tunnel[i].map # 0, NEW t \in TunnelRecords, t.map = tunnel[i].map,
         tunnel' = [tunnel EXCEPT ![i] = t], UNCHANGED <<entry, saved, active, map, fwd, job>>
  PROVE  ForwardInv'
<1>1. ForwardTypes /\ MapsOwn /\ PortWatched /\ PortHeldOnce
  BY DEF ForwardInv
<1>2. /\ tunnel' \in [Forward!Tunnels -> TunnelRecords] /\ tunnel'[i] = t
      /\ \A j \in Forward!Tunnels : j # i => tunnel'[j] = tunnel[j]
  BY <1>1 DEF ForwardTypes
<1>3. ForwardTypes'
  BY <1>1, <1>2, ForwardTypesNext DEF ForwardTypes
<1>4. MapsStand
  BY <1>2 DEF MapsStand
<1>5. JobWhole'
  BY JobStays
<1>6. /\ \A d \in Devices : entry'[d] \in {0, entry[d]} /\ saved'[d] \in {0, saved[d]}
      /\ \A j \in Forward!Tunnels :
           /\ fwd'[j].lis = "open" /\ Forward!ModeOf(j) = 0 => fwd'[j].monitor = "wait"
           /\ fwd'[j].pc \in {"none", "start"} => fwd'[j].lis = "none" /\ fwd'[j].monitor = "none"
           /\ fwd'[j].pc = "listen" => Forward!ModeOf(j) = 2
      /\ \A j, k \in Forward!Tunnels :
           fwd'[j].lis = "open" /\ fwd'[k].lis = "open" /\ Forward!PortOf(j) = Forward!PortOf(k) => j = k
  BY <1>1 DEF PortWatched, PortHeldOnce
<1>. QED BY <1>3, <1>4, <1>5, <1>6, StandKeeps

(* A step of one forwarder. *)
LEMMA ForwarderMoves ==
  ASSUME ForwardInv, NEW i \in Forward!Tunnels, tunnel[i].map # 0, NEW f \in ForwarderRecords,
         fwd' = [fwd EXCEPT ![i] = f], UNCHANGED <<entry, saved, active, map, tunnel, job>>,
         f.lis = "open" /\ Forward!ModeOf(i) = 0 => f.monitor = "wait",
         f.pc \in {"none", "start"} => f.lis = "none" /\ f.monitor = "none",
         f.pc = "listen" => Forward!ModeOf(i) = 2,
         f.lis = "open" => fwd[i].lis = "open" \/ Forward!PortFree(i)
  PROVE  ForwardInv'
<1>1. ForwardTypes /\ MapsOwn /\ PortWatched /\ PortHeldOnce
  BY DEF ForwardInv
<1>2. /\ fwd' \in [Forward!Tunnels -> ForwarderRecords] /\ fwd'[i] = f
      /\ \A j \in Forward!Tunnels : j # i => fwd'[j] = fwd[j]
  BY <1>1 DEF ForwardTypes
<1>3. ForwardTypes'
  BY <1>1, <1>2, ForwardTypesNext DEF ForwardTypes
<1>4. MapsStand
  BY <1>2 DEF MapsStand
<1>5. JobWhole'
  BY JobStays
<1>6. \A d \in Devices : entry'[d] \in {0, entry[d]} /\ saved'[d] \in {0, saved[d]}
  OBVIOUS
<1>7. ASSUME NEW j \in Forward!Tunnels
      PROVE  /\ fwd'[j].lis = "open" /\ Forward!ModeOf(j) = 0 => fwd'[j].monitor = "wait"
             /\ fwd'[j].pc \in {"none", "start"} => fwd'[j].lis = "none" /\ fwd'[j].monitor = "none"
             /\ fwd'[j].pc = "listen" => Forward!ModeOf(j) = 2
  BY <1>1, <1>2, <1>7 DEF PortWatched
<1>8. ASSUME NEW j \in Forward!Tunnels, NEW k \in Forward!Tunnels, fwd'[j].lis = "open", fwd'[k].lis = "open",
             Forward!PortOf(j) = Forward!PortOf(k)
      PROVE  j = k
  <2>1. fwd[i].lis = "open" \/ Forward!PortFree(i) \/ f.lis # "open"
    OBVIOUS
  <2>2. Forward!PortFree(i) <=> \A l \in Forward!Tunnels : fwd[l].lis = "open" => Forward!PortOf(l) # Forward!PortOf(i)
    BY DEF Forward!PortFree
  <2>. QED BY <1>1, <1>2, <1>8, <2>1, <2>2 DEF PortHeldOnce
<1>. QED BY <1>3, <1>4, <1>5, <1>6, <1>7, <1>8, StandKeeps

LEMMA TunnelCloses ==
  ASSUME NEW t \in TunnelRecords
  PROVE  \A u : u = Forward!CloseTunnel(t) => u \in TunnelRecords /\ u.map = t.map
<1>1. PICK peer \in {"none", "down"} : peer = IF t.peer = "none" THEN "none" ELSE "down"
  OBVIOUS
<1>2. PICK u : u = [t EXCEPT !.peer = peer, !.cb = FALSE]
  OBVIOUS
<1>3. u \in TunnelRecords
  BY <1>2 DEF TunnelRecords
<1>4. u.map = t.map
  BY <1>2 DEF TunnelRecords
<1>5. Forward!CloseTunnel(t) = u
  BY <1>1, <1>2 DEF Forward!CloseTunnel
<1>. QED BY <1>3, <1>4, <1>5

LEMMA ForwarderCloses ==
  ASSUME NEW f \in ForwarderRecords
  PROVE  \A g : g = Forward!CloseForwarder(f) =>
           /\ g \in ForwarderRecords /\ g.lis # "open" /\ g.pc = f.pc /\ g.monitor = f.monitor
           /\ f.lis = "none" => g.lis = "none"
<1>1. PICK lis : lis = IF f.lis = "open" THEN "closed" ELSE f.lis
  OBVIOUS
<1>2. Forward!CloseForwarder(f) = [f EXCEPT !.mux = FALSE, !.lis = lis]
  BY <1>1 DEF Forward!CloseForwarder
<1>. QED BY <1>1, <1>2 DEF ForwarderRecords

LEMMA NetworkKeeps ==
  ASSUME ForwardInv, NEW i \in Forward!Tunnels,
         \/ Forward!PeerUp(i) \/ Forward!ChannelOpens(i) \/ Forward!PeerDown(i) \/ Forward!NoticePeerDown(i)
         \/ Forward!ChannelCloses(i) \/ Forward!OpenRefused(i) \/ Forward!HandleNoToken(i) \/ Forward!HandleToken(i)
  PROVE  ForwardInv'
<1>1. tunnel \in [Forward!Tunnels -> TunnelRecords] /\ tunnel[i] \in TunnelRecords
  BY DEF ForwardInv, ForwardTypes
<1>2. ASSUME NEW t \in TunnelRecords, t.map = tunnel[i].map, tunnel' = [tunnel EXCEPT ![i] = t],
             tunnel[i].map # 0, UNCHANGED <<entry, saved, active, map, fwd, job>>
      PROVE  ForwardInv'
  BY <1>2, TunnelMoves
<1>3. CASE Forward!PeerUp(i)
  <2>1. PICK t : t = [tunnel[i] EXCEPT !.peer = "up"]
    OBVIOUS
  <2>2. tunnel[i].map # 0 /\ tunnel' = [tunnel EXCEPT ![i] = t] /\ UNCHANGED <<entry, saved, active, map, fwd, job>>
    BY <1>3, <2>1 DEF Forward!PeerUp
  <2>3. t \in TunnelRecords /\ t.map = tunnel[i].map
    BY <1>1, <2>1 DEF TunnelRecords
  <2>. QED BY <1>2, <2>2, <2>3
<1>4. CASE Forward!ChannelOpens(i)
  <2>1. PICK t : t = [tunnel[i] EXCEPT !.dc = "open", !.opening = "ask"]
    OBVIOUS
  <2>2. /\ tunnel[i].peer = "up" /\ tunnel' = [tunnel EXCEPT ![i].dc = "open", ![i].opening = "ask"]
        /\ UNCHANGED <<entry, saved, active, map, fwd, job>>
    BY <1>4 DEF Forward!ChannelOpens
  <2>3. tunnel' = [tunnel EXCEPT ![i] = t]
    BY <1>1, <2>1, <2>2
  <2>4. t \in TunnelRecords /\ t.map = tunnel[i].map
    BY <1>1, <2>1 DEF TunnelRecords
  <2>. QED BY <1>2, <2>2, <2>3, <2>4, DialledHasMap
<1>5. CASE Forward!PeerDown(i)
  <2>1. PICK t : t = [tunnel[i] EXCEPT !.peer = "down"]
    OBVIOUS
  <2>2. /\ tunnel[i].peer = "up" /\ tunnel' = [tunnel EXCEPT ![i] = t]
        /\ UNCHANGED <<entry, saved, active, map, fwd, job>>
    BY <1>5, <2>1 DEF Forward!PeerDown
  <2>3. t \in TunnelRecords /\ t.map = tunnel[i].map
    BY <1>1, <2>1 DEF TunnelRecords
  <2>. QED BY <1>2, <2>2, <2>3, DialledHasMap
<1>6. CASE Forward!NoticePeerDown(i)
  <2>1. PICK t : t = Forward!CloseTunnel(tunnel[i])
    OBVIOUS
  <2>2. /\ tunnel[i].peer = "down" /\ tunnel' = [tunnel EXCEPT ![i] = t]
        /\ UNCHANGED <<entry, saved, active, map, fwd, job>>
    BY <1>6, <2>1 DEF Forward!NoticePeerDown
  <2>3. t \in TunnelRecords /\ t.map = tunnel[i].map
    BY <1>1, <2>1, TunnelCloses
  <2>. QED BY <1>2, <2>2, <2>3, DialledHasMap
<1>7. CASE Forward!ChannelCloses(i)
  <2>1. PICK h \in {"close", "no"} : h = IF tunnel[i].cb THEN "close" ELSE "no"
    OBVIOUS
  <2>2. PICK t : t = [tunnel[i] EXCEPT !.dc = "closed", !.handler = h]
    OBVIOUS
  <2>3. /\ tunnel[i].peer = "down" /\ tunnel' = [tunnel EXCEPT ![i].dc = "closed", ![i].handler = h]
        /\ UNCHANGED <<entry, saved, active, map, fwd, job>>
    BY <1>7, <2>1 DEF Forward!ChannelCloses
  <2>4. tunnel' = [tunnel EXCEPT ![i] = t]
    BY <1>1, <2>2, <2>3
  <2>5. t \in TunnelRecords /\ t.map = tunnel[i].map
    BY <1>1, <2>2 DEF TunnelRecords
  <2>. QED BY <1>2, <2>3, <2>4, <2>5, DialledHasMap
<1>8. CASE Forward!OpenRefused(i)
  <2>1. PICK t : t = [tunnel[i] EXCEPT !.opening = "no"]
    OBVIOUS
  <2>2. /\ tunnel[i].opening = "ask" /\ tunnel' = [tunnel EXCEPT ![i] = t]
        /\ UNCHANGED <<entry, saved, active, map, fwd, job>>
    BY <1>8, <2>1 DEF Forward!OpenRefused
  <2>3. t \in TunnelRecords /\ t.map = tunnel[i].map
    BY <1>1, <2>1 DEF TunnelRecords
  <2>. QED BY <1>2, <2>2, <2>3, DialledHasMap
<1>9. CASE Forward!HandleNoToken(i) \/ Forward!HandleToken(i)
  <2>1. PICK h \in {"close", "dial"} :
          /\ tunnel[i].handler = "token" /\ tunnel' = [tunnel EXCEPT ![i].handler = h]
          /\ UNCHANGED <<entry, saved, active, map, fwd, job>>
    BY <1>9 DEF Forward!HandleNoToken, Forward!HandleToken
  <2>2. PICK t : t = [tunnel[i] EXCEPT !.handler = h]
    OBVIOUS
  <2>3. tunnel' = [tunnel EXCEPT ![i] = t]
    BY <2>1, <2>2
  <2>4. t \in TunnelRecords /\ t.map = tunnel[i].map
    BY <1>1, <2>1, <2>2 DEF TunnelRecords
  <2>. QED BY <1>2, <2>1, <2>3, <2>4, DialledHasMap
<1>. QED BY <1>3, <1>4, <1>5, <1>6, <1>7, <1>8, <1>9


LEMMA ForwarderKeeps ==
  ASSUME ForwardInv, NEW i \in Forward!Tunnels,
         \/ Forward!KeepAliveFails(i) \/ Forward!MuxDies(i) \/ Forward!StartMuxPortMap(i) \/ Forward!StartProxy(i)
         \/ Forward!ProxyListens(i) \/ Forward!Monitor(i) \/ Forward!ServeEnds(i)
  PROVE  ForwardInv'
<1>1. fwd \in [Forward!Tunnels -> ForwarderRecords] /\ fwd[i] \in ForwarderRecords
  BY DEF ForwardInv, ForwardTypes
<1>2. /\ fwd[i].lis = "open" /\ Forward!ModeOf(i) = 0 => fwd[i].monitor = "wait"
      /\ fwd[i].pc \in {"none", "start"} => fwd[i].lis = "none" /\ fwd[i].monitor = "none"
      /\ fwd[i].pc = "listen" => Forward!ModeOf(i) = 2
  BY DEF ForwardInv, PortWatched
<1>3. ASSUME NEW f \in ForwarderRecords, fwd' = [fwd EXCEPT ![i] = f], tunnel[i].map # 0,
             f.lis = "open" /\ Forward!ModeOf(i) = 0 => f.monitor = "wait",
             f.pc \in {"none", "start"} => f.lis = "none" /\ f.monitor = "none",
             f.pc = "listen" => Forward!ModeOf(i) = 2,
             f.lis = "open" => fwd[i].lis = "open" \/ Forward!PortFree(i),
             UNCHANGED <<entry, saved, active, map, tunnel, job>>
      PROVE  ForwardInv'
  BY <1>3, ForwarderMoves
(* A listener that fails, or is closed, leaves the forwarder closed. *)
<1>4. ASSUME NEW e \in ForwarderRecords, NEW f, f = Forward!CloseForwarder(e), fwd' = [fwd EXCEPT ![i] = f],
             tunnel[i].map # 0, e.pc \notin {"none", "start", "listen"},
             UNCHANGED <<entry, saved, active, map, tunnel, job>>
      PROVE  ForwardInv'
  <2>1. f \in ForwarderRecords /\ f.lis # "open" /\ f.pc = e.pc
    BY <1>4, ForwarderCloses
  <2>. QED BY <1>3, <1>4, <2>1
<1>5. CASE Forward!KeepAliveFails(i) \/ Forward!MuxDies(i)
  <2>1. PICK f : f = [fwd[i] EXCEPT !.mux = FALSE]
    OBVIOUS
  <2>2. fwd[i].mux /\ fwd' = [fwd EXCEPT ![i] = f] /\ UNCHANGED <<entry, saved, active, map, tunnel, job>>
    BY <1>5, <2>1 DEF Forward!KeepAliveFails, Forward!MuxDies
  <2>3. f \in ForwarderRecords /\ f.lis = fwd[i].lis /\ f.pc = fwd[i].pc /\ f.monitor = fwd[i].monitor
    BY <1>1, <2>1 DEF ForwarderRecords
  <2>4. tunnel[i].map # 0
    BY <2>2, DialledHasMap
  <2>. QED BY <1>2, <1>3, <2>2, <2>3, <2>4
<1>6. CASE Forward!StartMuxPortMap(i)
  <2>1. PICK f : f = [fwd[i] EXCEPT !.lis = "open", !.pc = "serve", !.monitor = "wait"]
    OBVIOUS
  <2>2. PICK e : e = [fwd[i] EXCEPT !.pc = "done"]
    OBVIOUS
  <2>3. PICK g : g = Forward!CloseForwarder(e)
    OBVIOUS
  <2>4. /\ fwd[i].pc = "start" /\ UNCHANGED <<entry, saved, active, map, tunnel, job>>
        /\ (Forward!PortFree(i) /\ fwd' = [fwd EXCEPT ![i] = f]) \/ fwd' = [fwd EXCEPT ![i] = g]
    BY <1>6, <2>1, <2>2, <2>3 DEF Forward!StartMuxPortMap, Forward!Listens
  <2>5. f \in ForwarderRecords /\ f.lis = "open" /\ f.pc = "serve" /\ f.monitor = "wait"
    BY <1>1, <2>1 DEF ForwarderRecords
  <2>6. e \in ForwarderRecords /\ e.pc = "done"
    BY <1>1, <2>2 DEF ForwarderRecords
  <2>7. tunnel[i].map # 0
    BY <2>4, DialledHasMap
  <2>. QED BY <1>3, <1>4, <2>3, <2>4, <2>5, <2>6, <2>7
<1>7. CASE Forward!StartProxy(i)
  <2>1. PICK f : f = [fwd[i] EXCEPT !.pc = "listen", !.monitor = "wait"]
    OBVIOUS
  <2>2. /\ fwd[i].pc = "start" /\ Forward!ModeOf(i) = 2
        /\ fwd' = [fwd EXCEPT ![i].pc = "listen", ![i].monitor = "wait"]
        /\ UNCHANGED <<entry, saved, active, map, tunnel, job>>
    BY <1>7 DEF Forward!StartProxy
  <2>3. fwd' = [fwd EXCEPT ![i] = f]
    BY <1>1, <2>1, <2>2
  <2>4. f \in ForwarderRecords /\ f.lis = fwd[i].lis /\ f.pc = "listen" /\ f.monitor = "wait"
    BY <1>1, <2>1 DEF ForwarderRecords
  <2>5. tunnel[i].map # 0
    BY <2>2, DialledHasMap
  <2>. QED BY <1>3, <2>2, <2>3, <2>4, <2>5
<1>8. CASE Forward!ProxyListens(i)
  <2>1. PICK f : f = [fwd[i] EXCEPT !.lis = "open", !.pc = "serve"]
    OBVIOUS
  <2>2. PICK e : e = [fwd[i] EXCEPT !.pc = "done"]
    OBVIOUS
  <2>3. PICK g : g = Forward!CloseForwarder(e)
    OBVIOUS
  <2>4. /\ fwd[i].pc = "listen" /\ UNCHANGED <<entry, saved, active, map, tunnel, job>>
        /\ (Forward!PortFree(i) /\ fwd' = [fwd EXCEPT ![i] = f]) \/ fwd' = [fwd EXCEPT ![i] = g]
    BY <1>8, <2>1, <2>2, <2>3 DEF Forward!ProxyListens, Forward!Listens
  <2>5. f \in ForwarderRecords /\ f.lis = "open" /\ f.pc = "serve"
    BY <1>1, <2>1 DEF ForwarderRecords
  <2>6. e \in ForwarderRecords /\ e.pc = "done"
    BY <1>1, <2>2 DEF ForwarderRecords
  <2>7. tunnel[i].map # 0
    BY <2>4, DialledHasMap
  <2>8. Forward!ModeOf(i) # 0
    BY <1>2, <2>4
  <2>. QED BY <1>3, <1>4, <2>3, <2>4, <2>5, <2>6, <2>7, <2>8
<1>9. CASE Forward!Monitor(i)
  <2>1. PICK e : e = [fwd[i] EXCEPT !.monitor = "done"]
    OBVIOUS
  <2>2. PICK g : g = Forward!CloseForwarder(e)
    OBVIOUS
  <2>3. /\ fwd[i].monitor = "wait" /\ fwd' = [fwd EXCEPT ![i] = g]
        /\ UNCHANGED <<entry, saved, active, map, tunnel, job>>
    BY <1>9, <2>1, <2>2 DEF Forward!Monitor
  <2>4. e \in ForwarderRecords /\ e.pc = fwd[i].pc
    BY <1>1, <2>1 DEF ForwarderRecords
  <2>5. g \in ForwarderRecords /\ g.lis # "open" /\ g.pc = fwd[i].pc
    BY <2>2, <2>4, ForwarderCloses
  <2>6. fwd[i].pc \notin {"none", "start"} /\ tunnel[i].map # 0
    BY <1>2, <2>3, DialledHasMap
  <2>. QED BY <1>2, <1>3, <2>3, <2>5, <2>6
<1>10. CASE Forward!ServeEnds(i)
  <2>1. PICK e : e = [fwd[i] EXCEPT !.pc = "done"]
    OBVIOUS
  <2>2. PICK g : g = Forward!CloseForwarder(e)
    OBVIOUS
  <2>3. /\ fwd[i].pc = "serve" /\ fwd' = [fwd EXCEPT ![i] = g]
        /\ UNCHANGED <<entry, saved, active, map, tunnel, job>>
    BY <1>10, <2>1, <2>2 DEF Forward!ServeEnds
  <2>4. e \in ForwarderRecords /\ e.pc = "done"
    BY <1>1, <2>1 DEF ForwarderRecords
  <2>5. tunnel[i].map # 0
    BY <2>3, DialledHasMap
  <2>. QED BY <1>4, <2>2, <2>3, <2>4, <2>5
<1>. QED BY <1>5, <1>6, <1>7, <1>8, <1>9, <1>10

LEMMA OpenKeeps == ASSUME ForwardInv, NEW i \in Forward!Tunnels, Forward!OpenForwarder(i) PROVE ForwardInv'
<1>1. PICK m : m = tunnel[i].map
  OBVIOUS
<1>2. PICK t : t = [tunnel[i] EXCEPT !.opening = "no"]
  OBVIOUS
<1>3. PICK f : f = [Forward!NoForwarder EXCEPT !.made = TRUE, !.mux = TRUE, !.pc = "start"]
  OBVIOUS
<1>4. /\ tunnel[i].opening = "ask" /\ tunnel' = [tunnel EXCEPT ![i] = t]
      /\ map' = [map EXCEPT ![m].fwd = i] /\ fwd' = [fwd EXCEPT ![i] = f]
      /\ UNCHANGED <<entry, saved, active, job>>
  BY <1>1, <1>2, <1>3 DEF Forward!OpenForwarder
<1>5. ForwardTypes /\ MapsOwn /\ PortWatched /\ PortHeldOnce
  BY DEF ForwardInv
<1>6. m # 0 /\ m \in Forward!Maps /\ m \in Forward!Made
  BY <1>1, <1>4, DialledHasMap
<1>7. tunnel[i] \in TunnelRecords /\ map \in [Forward!Maps -> MapRecords]
  BY <1>5 DEF ForwardTypes
<1>8. t \in TunnelRecords /\ t.map = m
  BY <1>1, <1>2, <1>7 DEF TunnelRecords
<1>9. f \in ForwarderRecords /\ f.lis = "none" /\ f.pc = "start" /\ f.monitor = "none"
  BY <1>3 DEF Forward!NoForwarder, ForwarderRecords
<1>10. /\ tunnel' \in [Forward!Tunnels -> TunnelRecords] /\ tunnel'[i] = t
       /\ \A j \in Forward!Tunnels : j # i => tunnel'[j] = tunnel[j]
       /\ fwd' \in [Forward!Tunnels -> ForwarderRecords] /\ fwd'[i] = f
       /\ \A j \in Forward!Tunnels : j # i => fwd'[j] = fwd[j]
  BY <1>4, <1>5, <1>8, <1>9 DEF ForwardTypes
<1>11. /\ map' \in [Forward!Maps -> MapRecords] /\ map'[m].fwd = i
       /\ \A n \in Forward!Maps :
            /\ map'[n].device = map[n].device /\ map'[n].port = map[n].port /\ map'[n].mode = map[n].mode
            /\ map'[n].rtc = map[n].rtc /\ (n # m => map'[n].fwd = map[n].fwd)
  <2>1. i \in 0..MaxTunnels
    BY ForwardBounds
  <2>. QED BY <1>4, <1>6, <1>7, <2>1 DEF MapRecords
<1>12. ForwardTypes'
  BY <1>4, <1>5, <1>10, <1>11, ForwardTypesNext DEF ForwardTypes
<1>13. \A j \in Forward!Tunnels : tunnel'[j].map = tunnel[j].map
  BY <1>1, <1>8, <1>10
<1>14. Forward!Made' = Forward!Made
  <2>1. Forward!Made = {n \in Forward!Maps : map[n].device # Forward!None}
    BY DEF Forward!Made
  <2>2. Forward!Made' = {n \in Forward!Maps : map'[n].device # Forward!None}
    BY DEF Forward!Made, Forward!Maps, Forward!None
  <2>. QED BY <1>11, <2>1, <2>2
<1>15. ASSUME NEW j \in Forward!Tunnels
       PROVE  Forward!ModeOf(j)' = Forward!ModeOf(j) /\ Forward!PortOf(j)' = Forward!PortOf(j)
  <2>1. /\ tunnel'[j].map # 0 => Forward!ModeOf(j)' = map'[tunnel'[j].map].mode
                                 /\ Forward!PortOf(j)' = map'[tunnel'[j].map].port
        /\ tunnel'[j].map = 0 => Forward!ModeOf(j)' = 0 /\ Forward!PortOf(j)' = Forward!None
    BY <1>12, <1>15, MapsReadNext DEF Forward!Maps, Forward!Tunnels, Forward!None
  <2>. QED BY <1>5, <1>11, <1>13, <1>15, <2>1, MapsRead
<1>16. JobWhole'
  BY <1>4, <1>11, JobStays
<1>17. Forward!Tunnels' = Forward!Tunnels /\ Forward!Maps' = Forward!Maps
  BY DEF Forward!Maps, Forward!Tunnels
<1>18. PortWatched'
  BY <1>5, <1>9, <1>10, <1>15, <1>17 DEF PortWatched
<1>19. PortHeldOnce'
  BY <1>5, <1>9, <1>10, <1>15, <1>17 DEF PortHeldOnce
<1>20. MapsOwn'
  <2>1. ASSUME NEW d \in Devices
        PROVE  /\ entry'[d] # 0 => map'[entry'[d]].device = d
               /\ saved'[d] # 0 => map'[saved'[d]].device = d
    <3>1. entry[d] \in 0..MaxMaps /\ saved[d] \in 0..MaxMaps
      BY <1>5, <2>1 DEF ForwardTypes
    <3>2. (entry[d] # 0 => entry[d] \in Forward!Maps) /\ (saved[d] # 0 => saved[d] \in Forward!Maps)
      BY <3>1, ForwardBounds
    <3>. QED BY <1>4, <1>5, <1>11, <2>1, <3>2 DEF MapsOwn
  <2>2. ASSUME NEW n \in Forward!Maps
        PROVE  /\ map'[n].rtc # 0 => tunnel'[map'[n].rtc].map = n
               /\ map'[n].fwd # 0 => tunnel'[map'[n].fwd].map = n
    <3>1. map[n].rtc \in 0..MaxTunnels /\ map[n].fwd \in 0..MaxTunnels
      BY <1>7, <2>2 DEF MapRecords
    <3>2. (map[n].rtc # 0 => map[n].rtc \in Forward!Tunnels) /\ (map[n].fwd # 0 => map[n].fwd \in Forward!Tunnels)
      BY <3>1, ForwardBounds
    <3>3. map'[n].rtc # 0 => tunnel'[map'[n].rtc].map = n
      BY <1>5, <1>11, <1>13, <2>2, <3>2 DEF MapsOwn
    <3>4. CASE n = m
      <4>1. tunnel'[i].map = m /\ map'[n].fwd = i
        BY <1>1, <1>11, <1>13, <3>4
      <4>. QED BY <3>3, <3>4, <4>1
    <3>5. CASE n # m
      <4>1. map'[n].fwd = map[n].fwd
        BY <1>11, <2>2, <3>5
      <4>2. map[n].fwd # 0 => tunnel[map[n].fwd].map = n
        BY <1>5, <2>2 DEF MapsOwn
      <4>. QED BY <1>13, <3>2, <3>3, <4>1, <4>2
    <3>. QED BY <3>4, <3>5
  <2>3. ASSUME NEW j \in Forward!Tunnels
        PROVE  /\ tunnel'[j].map # 0 => tunnel'[j].map \in Forward!Made
               /\ tunnel'[j].map = 0 => tunnel'[j] = Forward!NoTunnel /\ fwd'[j] = Forward!NoForwarder
    BY <1>5, <1>6, <1>8, <1>10, <2>3 DEF MapsOwn
  <2>4. Forward!NoTunnel' = Forward!NoTunnel /\ Forward!NoForwarder' = Forward!NoForwarder
    BY DEF Forward!NoTunnel, Forward!NoForwarder
  <2>. QED BY <1>14, <1>17, <2>1, <2>2, <2>3, <2>4 DEF MapsOwn
<1>. QED BY <1>12, <1>16, <1>18, <1>19, <1>20 DEF ForwardInv

(* A request that makes no map and dials no tunnel: it may tell a map not to come back, close its
   tunnel and strike it from the lists. *)
LEMMA MapGoes ==
  ASSUME ForwardInv, JobWhole',
         \A d \in Devices : entry'[d] \in {0, entry[d]} /\ saved'[d] \in {0, saved[d]},
         entry' \in [Devices -> 0..MaxMaps], saved' \in [Devices -> 0..MaxMaps],
         active' \in [Ports -> Devices \cup {Forward!None}], job' \in JobRecords,
         map' \in [Forward!Maps -> MapRecords],
         \A n \in Forward!Maps :
           /\ map'[n].device = map[n].device /\ map'[n].port = map[n].port /\ map'[n].mode = map[n].mode
           /\ map'[n].rtc = map[n].rtc /\ map'[n].fwd = map[n].fwd,
         tunnel' \in [Forward!Tunnels -> TunnelRecords],
         \A i \in Forward!Tunnels : tunnel'[i].map = tunnel[i].map /\ (tunnel[i].map = 0 => tunnel'[i] = tunnel[i]),
         UNCHANGED fwd
  PROVE  ForwardInv'
<1>1. ForwardTypes /\ MapsOwn /\ PortWatched /\ PortHeldOnce
  BY DEF ForwardInv
<1>2. fwd \in [Forward!Tunnels -> ForwarderRecords]
  BY <1>1 DEF ForwardTypes
<1>3. ForwardTypes'
  BY <1>2, ForwardTypesNext
<1>4. MapsStand
  BY DEF MapsStand
<1>5. \A i \in Forward!Tunnels :
        /\ fwd'[i].lis = "open" /\ Forward!ModeOf(i) = 0 => fwd'[i].monitor = "wait"
        /\ fwd'[i].pc \in {"none", "start"} => fwd'[i].lis = "none" /\ fwd'[i].monitor = "none"
        /\ fwd'[i].pc = "listen" => Forward!ModeOf(i) = 2
  BY <1>1 DEF PortWatched
<1>6. \A i, j \in Forward!Tunnels :
        fwd'[i].lis = "open" /\ fwd'[j].lis = "open" /\ Forward!PortOf(i) = Forward!PortOf(j) => i = j
  BY <1>1 DEF PortHeldOnce
<1>. QED BY <1>3, <1>4, <1>5, <1>6, StandKeeps


LEMMA CloseKeeps == ASSUME ForwardInv, NEW i \in Forward!Tunnels, Forward!HandleClose(i) PROVE ForwardInv'
<1>1. ForwardTypes /\ MapsOwn /\ PortWatched /\ PortHeldOnce
  BY DEF ForwardInv
<1>2. /\ map \in [Forward!Maps -> MapRecords] /\ tunnel \in [Forward!Tunnels -> TunnelRecords]
      /\ fwd \in [Forward!Tunnels -> ForwarderRecords]
  BY <1>1 DEF ForwardTypes
<1>3. PICK m : m = map[tunnel[i].map]
  OBVIOUS
<1>4. PICK h \in {"token", "no"} : h = IF m.reconnect = 0 THEN "token" ELSE "no"
  OBVIOUS
<1>5. PICK ti : ti = [tunnel[i] EXCEPT !.handler = h]
  OBVIOUS
<1>6. PICK t : t = [tunnel EXCEPT ![i] = ti]
  OBVIOUS
<1>7. PICK c : c = Forward!CloseTunnel(t[m.rtc])
  OBVIOUS
<1>8. PICK g : g = Forward!CloseForwarder(fwd[m.fwd])
  OBVIOUS
<1>9. /\ tunnel[i].handler = "close"
      /\ tunnel' = IF m.rtc = 0 THEN t ELSE [t EXCEPT ![m.rtc] = c]
      /\ fwd' = IF m.fwd = 0 THEN fwd ELSE [fwd EXCEPT ![m.fwd] = g]
      /\ \/ UNCHANGED <<entry, saved>>
         \/ entry' = [entry EXCEPT ![m.device] = 0] /\ saved' = [saved EXCEPT ![m.device] = 0]
      /\ UNCHANGED <<active, map, job>>
  BY <1>3, <1>4, <1>5, <1>6, <1>7, <1>8 DEF Forward!HandleClose
<1>10. tunnel[i].map # 0 /\ tunnel[i].map \in Forward!Maps
  BY <1>9, DialledHasMap
<1>11. m.rtc \in 0..MaxTunnels /\ m.fwd \in 0..MaxTunnels
  BY <1>2, <1>3, <1>10 DEF MapRecords
<1>12. (m.rtc # 0 => m.rtc \in Forward!Tunnels) /\ (m.fwd # 0 => m.fwd \in Forward!Tunnels)
  BY <1>11, ForwardBounds
<1>13. /\ m.rtc # 0 => tunnel[m.rtc].map # 0
       /\ m.fwd # 0 => tunnel[m.fwd].map # 0
  BY <1>1, <1>3, <1>10 DEF MapsOwn
<1>14. ti \in TunnelRecords /\ ti.map = tunnel[i].map
  BY <1>2, <1>4, <1>5 DEF TunnelRecords
<1>15. /\ t \in [Forward!Tunnels -> TunnelRecords] /\ t[i] = ti
       /\ \A j \in Forward!Tunnels : j # i => t[j] = tunnel[j]
  BY <1>2, <1>6, <1>14
<1>16. m.rtc # 0 => c \in TunnelRecords /\ c.map = tunnel[m.rtc].map
  <2>1. SUFFICES ASSUME m.rtc # 0 PROVE c \in TunnelRecords /\ c.map = tunnel[m.rtc].map
    OBVIOUS
  <2>2. t[m.rtc] \in TunnelRecords /\ t[m.rtc].map = tunnel[m.rtc].map
    BY <1>12, <1>14, <1>15, <2>1
  <2>. QED BY <1>7, <2>2, TunnelCloses
<1>17. /\ tunnel' \in [Forward!Tunnels -> TunnelRecords]
       /\ \A j \in Forward!Tunnels :
            tunnel'[j].map = tunnel[j].map /\ (tunnel[j].map = 0 => tunnel'[j] = tunnel[j])
  <2>1. CASE m.rtc = 0
    BY <1>9, <1>10, <1>14, <1>15, <2>1
  <2>2. CASE m.rtc # 0
    <3>1. tunnel' = [t EXCEPT ![m.rtc] = c] /\ m.rtc \in Forward!Tunnels
      BY <1>9, <1>12, <2>2
    <3>2. /\ tunnel' \in [Forward!Tunnels -> TunnelRecords] /\ tunnel'[m.rtc] = c
          /\ \A j \in Forward!Tunnels : j # m.rtc => tunnel'[j] = t[j]
      BY <1>15, <1>16, <2>2, <3>1
    <3>. QED BY <1>10, <1>13, <1>14, <1>15, <1>16, <2>2, <3>2
  <2>. QED BY <2>1, <2>2
<1>18. m.fwd # 0 =>
         /\ g \in ForwarderRecords /\ g.lis # "open" /\ g.pc = fwd[m.fwd].pc /\ g.monitor = fwd[m.fwd].monitor
         /\ fwd[m.fwd].lis = "none" => g.lis = "none"
  BY <1>2, <1>8, <1>12, ForwarderCloses
<1>19. /\ fwd' \in [Forward!Tunnels -> ForwarderRecords]
       /\ \A j \in Forward!Tunnels :
            \/ fwd'[j] = fwd[j]
            \/ /\ tunnel[j].map # 0 /\ fwd'[j].lis # "open" /\ fwd'[j].pc = fwd[j].pc
               /\ fwd'[j].monitor = fwd[j].monitor /\ (fwd[j].lis = "none" => fwd'[j].lis = "none")
  <2>1. CASE m.fwd = 0
    BY <1>2, <1>9, <2>1
  <2>2. CASE m.fwd # 0
    <3>1. fwd' = [fwd EXCEPT ![m.fwd] = g] /\ m.fwd \in Forward!Tunnels
      BY <1>9, <1>12, <2>2
    <3>2. /\ fwd' \in [Forward!Tunnels -> ForwarderRecords] /\ fwd'[m.fwd] = g
          /\ \A j \in Forward!Tunnels : j # m.fwd => fwd'[j] = fwd[j]
      BY <1>2, <1>18, <2>2, <3>1
    <3>. QED BY <1>13, <1>18, <2>2, <3>2
  <2>. QED BY <2>1, <2>2
<1>20. /\ entry' \in [Devices -> 0..MaxMaps] /\ saved' \in [Devices -> 0..MaxMaps]
       /\ \A d \in Devices : entry'[d] \in {0, entry[d]} /\ saved'[d] \in {0, saved[d]}
  <2>1. entry \in [Devices -> 0..MaxMaps] /\ saved \in [Devices -> 0..MaxMaps] /\ 0 \in 0..MaxMaps
    BY <1>1, ForwardBounds DEF ForwardTypes
  <2>2. CASE UNCHANGED <<entry, saved>>
    BY <2>1, <2>2
  <2>3. CASE entry' = [entry EXCEPT ![m.device] = 0] /\ saved' = [saved EXCEPT ![m.device] = 0]
    BY <2>1, <2>3
  <2>. QED BY <1>9, <2>2, <2>3
<1>21. ForwardTypes'
  BY <1>1, <1>9, <1>17, <1>19, <1>20, ForwardTypesNext DEF ForwardTypes
<1>22. MapsStand
  BY <1>9, <1>17, <1>19 DEF MapsStand
<1>23. JobWhole'
  BY <1>9, JobStays
<1>24. \A j \in Forward!Tunnels :
         /\ fwd'[j].lis = "open" /\ Forward!ModeOf(j) = 0 => fwd'[j].monitor = "wait"
         /\ fwd'[j].pc \in {"none", "start"} => fwd'[j].lis = "none" /\ fwd'[j].monitor = "none"
         /\ fwd'[j].pc = "listen" => Forward!ModeOf(j) = 2
  BY <1>1, <1>19 DEF PortWatched
<1>25. \A j, k \in Forward!Tunnels :
         fwd'[j].lis = "open" /\ fwd'[k].lis = "open" /\ Forward!PortOf(j) = Forward!PortOf(k) => j = k
  BY <1>1, <1>19 DEF PortHeldOnce
<1>. QED BY <1>20, <1>21, <1>22, <1>23, <1>24, <1>25, StandKeeps

(* A tunnel is dialled for a map, which has it from then on, and the map may be saved for its device. *)
LEMMA DialledKeeps ==
  ASSUME ForwardInv, JobWhole', job' \in JobRecords, NEW m \in Forward!Made, NEW j \in Forward!Tunnels,
         tunnel[j].map = 0, map' = [map EXCEPT ![m].rtc = j],
         tunnel' \in [Forward!Tunnels -> TunnelRecords], tunnel'[j].map = m,
         \A k \in Forward!Tunnels :
           k # j => tunnel'[k].map = tunnel[k].map /\ (tunnel[k].map = 0 => tunnel'[k] = tunnel[k]),
         saved' \in [Devices -> 0..MaxMaps],
         \A d \in Devices : saved'[d] # 0 => saved'[d] \in Forward!Maps /\ map[saved'[d]].device = d,
         UNCHANGED <<entry, active, fwd>>
  PROVE  ForwardInv'
<1>1. ForwardTypes /\ MapsOwn /\ PortWatched /\ PortHeldOnce
  BY DEF ForwardInv
<1>2. map \in [Forward!Maps -> MapRecords] /\ m \in Forward!Maps
  BY <1>1 DEF ForwardTypes, Forward!Made
<1>3. /\ map' \in [Forward!Maps -> MapRecords] /\ map'[m].rtc = j
      /\ \A n \in Forward!Maps :
           /\ map'[n].device = map[n].device /\ map'[n].port = map[n].port /\ map'[n].mode = map[n].mode
           /\ map'[n].fwd = map[n].fwd /\ (n # m => map'[n].rtc = map[n].rtc)
  <2>1. j \in 0..MaxTunnels
    BY ForwardBounds
  <2>. QED BY <1>2, <2>1 DEF MapRecords
<1>4. ForwardTypes'
  BY <1>1, <1>3, ForwardTypesNext DEF ForwardTypes
<1>5. Forward!Made' = Forward!Made /\ Forward!Tunnels' = Forward!Tunnels /\ Forward!Maps' = Forward!Maps
  <2>1. Forward!Made = {n \in Forward!Maps : map[n].device # Forward!None}
    BY DEF Forward!Made
  <2>2. Forward!Made' = {n \in Forward!Maps : map'[n].device # Forward!None}
    BY DEF Forward!Made, Forward!Maps, Forward!None
  <2>. QED BY <1>3, <2>1, <2>2 DEF Forward!Maps, Forward!Tunnels
<1>6. fwd[j] = Forward!NoForwarder
  BY <1>1 DEF MapsOwn
<1>7. fwd[j].lis = "none" /\ fwd[j].pc = "none" /\ fwd[j].monitor = "none"
  BY <1>6, NoForwarderFields
<1>8. ASSUME NEW k \in Forward!Tunnels, k # j
      PROVE  Forward!ModeOf(k)' = Forward!ModeOf(k) /\ Forward!PortOf(k)' = Forward!PortOf(k)
  <2>1. /\ tunnel'[k].map # 0 => Forward!ModeOf(k)' = map'[tunnel'[k].map].mode
                                 /\ Forward!PortOf(k)' = map'[tunnel'[k].map].port
        /\ tunnel'[k].map = 0 => Forward!ModeOf(k)' = 0 /\ Forward!PortOf(k)' = Forward!None
    BY <1>4, <1>8, MapsReadNext DEF Forward!Maps, Forward!Tunnels, Forward!None
  <2>. QED BY <1>1, <1>3, <1>8, <2>1, MapsRead
<1>9. PortWatched'
  BY <1>1, <1>5, <1>7, <1>8 DEF PortWatched
<1>10. PortHeldOnce'
  BY <1>1, <1>5, <1>7, <1>8 DEF PortHeldOnce
<1>11. MapsOwn'
  <2>1. ASSUME NEW d \in Devices
        PROVE  /\ entry'[d] # 0 => map'[entry'[d]].device = d
               /\ saved'[d] # 0 => map'[saved'[d]].device = d
    <3>1. entry[d] \in 0..MaxMaps
      BY <1>1, <2>1 DEF ForwardTypes
    <3>2. entry[d] # 0 => entry[d] \in Forward!Maps
      BY <3>1, ForwardBounds
    <3>. QED BY <1>1, <1>3, <2>1, <3>2 DEF MapsOwn
  <2>2. ASSUME NEW n \in Forward!Maps
        PROVE  /\ map'[n].rtc # 0 => tunnel'[map'[n].rtc].map = n
               /\ map'[n].fwd # 0 => tunnel'[map'[n].fwd].map = n
    <3>1. map[n].rtc \in 0..MaxTunnels /\ map[n].fwd \in 0..MaxTunnels
      BY <1>2, <2>2 DEF MapRecords
    <3>2. (map[n].rtc # 0 => map[n].rtc \in Forward!Tunnels) /\ (map[n].fwd # 0 => map[n].fwd \in Forward!Tunnels)
      BY <3>1, ForwardBounds
    <3>3. /\ map[n].rtc # 0 => tunnel[map[n].rtc].map = n
          /\ map[n].fwd # 0 => tunnel[map[n].fwd].map = n
      BY <1>1, <2>2 DEF MapsOwn
    <3>4. n # 0
      BY <2>2, ForwardBounds
    <3>5. map'[n].fwd # 0 => tunnel'[map'[n].fwd].map = n
      BY <1>3, <2>2, <3>2, <3>3, <3>4
    <3>6. CASE n = m
      BY <1>3, <3>5, <3>6
    <3>7. CASE n # m
      <4>1. map'[n].rtc = map[n].rtc
        BY <1>3, <2>2, <3>7
      <4>. QED BY <3>2, <3>3, <3>4, <3>5, <4>1
    <3>. QED BY <3>6, <3>7
  <2>3. ASSUME NEW k \in Forward!Tunnels
        PROVE  /\ tunnel'[k].map # 0 => tunnel'[k].map \in Forward!Made
               /\ tunnel'[k].map = 0 => tunnel'[k] = Forward!NoTunnel /\ fwd'[k] = Forward!NoForwarder
    <3>1. m # 0
      BY <1>2, ForwardBounds
    <3>2. CASE k = j
      BY <3>1, <3>2
    <3>3. CASE k # j
      BY <1>1, <2>3, <3>3 DEF MapsOwn
    <3>. QED BY <3>2, <3>3
  <2>4. Forward!NoTunnel' = Forward!NoTunnel /\ Forward!NoForwarder' = Forward!NoForwarder
    BY DEF Forward!NoTunnel, Forward!NoForwarder
  <2>. QED BY <1>5, <2>1, <2>2, <2>3, <2>4 DEF MapsOwn
<1>. QED BY <1>4, <1>9, <1>10, <1>11 DEF ForwardInv


LEMMA RedialKeeps == ASSUME ForwardInv, NEW i \in Forward!Tunnels, Forward!HandleDial(i) PROVE ForwardInv'
<1>1. ForwardTypes /\ JobWhole /\ MapsOwn
  BY DEF ForwardInv
<1>2. tunnel \in [Forward!Tunnels -> TunnelRecords] /\ tunnel[i] \in TunnelRecords
  BY <1>1 DEF ForwardTypes
<1>3. PICK t : t = [tunnel[i] EXCEPT !.handler = "no"]
  OBVIOUS
<1>4. t \in TunnelRecords /\ t.map = tunnel[i].map
  BY <1>2, <1>3 DEF TunnelRecords
<1>5. tunnel[i].handler = "dial" /\ UNCHANGED <<entry, saved, active, fwd, job>>
  BY DEF Forward!HandleDial
<1>6. PICK m : m = tunnel[i].map
  OBVIOUS
<1>7. m # 0 /\ m \in Forward!Maps /\ m \in Forward!Made
  BY <1>5, <1>6, DialledHasMap
<1>8. CASE UNCHANGED map /\ tunnel' = [tunnel EXCEPT ![i].handler = "no"]
  <2>1. tunnel' = [tunnel EXCEPT ![i] = t]
    BY <1>3, <1>8
  <2>. QED BY <1>4, <1>5, <1>6, <1>7, <1>8, <2>1, TunnelMoves
<1>9. CASE \E j \in Forward!Tunnels :
             /\ tunnel[j].map = 0
             /\ tunnel' = [tunnel EXCEPT ![i].handler = "no", ![j] = [Forward!NoTunnel EXCEPT !.map = m]]
             /\ map' = [map EXCEPT ![m].rtc = j]
  <2>1. PICK j \in Forward!Tunnels :
          /\ tunnel[j].map = 0
          /\ tunnel' = [tunnel EXCEPT ![i].handler = "no", ![j] = [Forward!NoTunnel EXCEPT !.map = m]]
          /\ map' = [map EXCEPT ![m].rtc = j]
    BY <1>9
  <2>2. PICK u : u = [Forward!NoTunnel EXCEPT !.map = m]
    OBVIOUS
  <2>3. u \in TunnelRecords /\ u.map = m
    <3>1. m \in 0..MaxMaps
      BY <1>7, ForwardBounds
    <3>. QED BY <2>2, <3>1 DEF Forward!NoTunnel, TunnelRecords
  <2>4. j # i
    BY <1>6, <1>7, <2>1
  <2>5. tunnel' = [[tunnel EXCEPT ![i] = t] EXCEPT ![j] = u]
    BY <1>3, <2>1, <2>2
  <2>6. /\ tunnel' \in [Forward!Tunnels -> TunnelRecords] /\ tunnel'[j].map = m
        /\ \A k \in Forward!Tunnels :
             k # j => tunnel'[k].map = tunnel[k].map /\ (tunnel[k].map = 0 => tunnel'[k] = tunnel[k])
    <3>1. /\ tunnel' \in [Forward!Tunnels -> TunnelRecords] /\ tunnel'[j] = u /\ tunnel'[i] = t
          /\ \A k \in Forward!Tunnels : k # j /\ k # i => tunnel'[k] = tunnel[k]
      BY <1>2, <1>4, <2>3, <2>4, <2>5
    <3>. QED BY <1>4, <1>6, <1>7, <2>3, <3>1
  <2>7. saved' \in [Devices -> 0..MaxMaps] /\ job' \in JobRecords
    BY <1>1, <1>5 DEF ForwardTypes
  <2>8. \A d \in Devices : saved'[d] # 0 => saved'[d] \in Forward!Maps /\ map[saved'[d]].device = d
    <3>1. ASSUME NEW d \in Devices PROVE saved[d] # 0 => saved[d] \in Forward!Maps
      <4>1. saved[d] \in 0..MaxMaps
        BY <1>1, <3>1 DEF ForwardTypes
      <4>. QED BY <4>1, ForwardBounds
    <3>. QED BY <1>1, <1>5, <3>1 DEF MapsOwn
  <2>9. JobWhole'
    <3>1. \A n \in Forward!Maps : map'[n].device = map[n].device
      <4>1. map \in [Forward!Maps -> MapRecords]
        BY <1>1 DEF ForwardTypes
      <4>. QED BY <2>1, <4>1 DEF MapRecords
    <3>. QED BY <1>5, <3>1, JobStays
  <2>. QED BY <1>5, <1>7, <2>1, <2>6, <2>7, <2>8, <2>9, DialledKeeps
<1>10. \/ UNCHANGED map /\ tunnel' = [tunnel EXCEPT ![i].handler = "no"]
       \/ \E j \in Forward!Tunnels :
             /\ tunnel[j].map = 0
             /\ tunnel' = [tunnel EXCEPT ![i].handler = "no", ![j] = [Forward!NoTunnel EXCEPT !.map = m]]
             /\ map' = [map EXCEPT ![m].rtc = j]
  BY <1>6 DEF Forward!HandleDial
<1>. QED BY <1>8, <1>9, <1>10

LEMMA NoJobWhole == job' = Forward!NoJob => JobWhole' /\ job' \in JobRecords
<1>1. Forward!NoJob' = Forward!NoJob
  BY DEF Forward!NoJob, Forward!None
<1>2. job' = Forward!NoJob => job'.pc = "idle"
  BY NoJobFields
<1>3. job' = Forward!NoJob => JobWhole'
  BY <1>1, <1>2 DEF JobWhole
<1>. QED BY <1>3, NothingYet

LEMMA ConnectMapKeeps == ASSUME ForwardInv, Forward!ConnectMap PROVE ForwardInv'
<1>1. ForwardTypes /\ JobWhole /\ MapsOwn
  BY DEF ForwardInv
<1>2. PICK m : m = job.map
  OBVIOUS
<1>3. PICK d : d = job.device
  OBVIOUS
<1>4. PICK e : e = [job EXCEPT !.pc = "add"]
  OBVIOUS
<1>5. /\ job.pc = "token" /\ saved' = [saved EXCEPT ![d] = m] /\ job' \in {Forward!NoJob, e}
      /\ UNCHANGED <<entry, active, fwd>>
  BY <1>2, <1>3, <1>4 DEF Forward!ConnectMap
<1>6. job \in JobRecords /\ saved \in [Devices -> 0..MaxMaps] /\ map \in [Forward!Maps -> MapRecords]
  BY <1>1 DEF ForwardTypes
<1>7. /\ d \in Devices /\ job.port \in Ports /\ job.phone \in Phones
      /\ m \in Forward!Made /\ m \in Forward!Maps /\ map[m].device = d /\ m # 0
  <2>1. d \in Devices /\ job.port \in Ports /\ job.phone \in Phones /\ m \in Forward!Made /\ map[m].device = d
    BY <1>1, <1>2, <1>3, <1>5 DEF JobWhole
  <2>2. m \in Forward!Maps
    BY <2>1 DEF Forward!Made
  <2>. QED BY <2>1, <2>2, ForwardBounds
<1>8. saved' \in [Devices -> 0..MaxMaps]
  <2>1. m \in 0..MaxMaps
    BY <1>7, ForwardBounds
  <2>. QED BY <1>5, <1>6, <1>7, <2>1
<1>9. \A c \in Devices : saved'[c] # 0 => saved'[c] \in Forward!Maps /\ map[saved'[c]].device = c
  <2>1. ASSUME NEW c \in Devices, c # d, saved'[c] # 0 PROVE saved'[c] \in Forward!Maps /\ map[saved'[c]].device = c
    <3>1. saved'[c] = saved[c] /\ saved[c] \in 0..MaxMaps
      BY <1>5, <1>6, <1>7, <2>1
    <3>2. saved[c] \in Forward!Maps
      BY <2>1, <3>1, ForwardBounds
    <3>. QED BY <1>1, <2>1, <3>1, <3>2 DEF MapsOwn
  <2>2. saved'[d] = m
    BY <1>5, <1>6, <1>7
  <2>. QED BY <1>7, <2>1, <2>2
<1>10. /\ e \in JobRecords /\ e.pc = "add" /\ e.device = d /\ e.map = m /\ e.port = job.port /\ e.phone = job.phone
  BY <1>2, <1>3, <1>4, <1>6 DEF JobRecords
<1>11. job' \in JobRecords
  BY <1>5, <1>10, NothingYet
<1>12. ASSUME Forward!Made' = Forward!Made, \A n \in Forward!Maps : map'[n].device = map[n].device
       PROVE  JobWhole'
  <2>1. CASE job' = Forward!NoJob
    BY <2>1, NoJobWhole
  <2>2. CASE job' = e
    <3>1. job'.pc = "add" /\ job'.device = d /\ job'.map = m /\ job'.port = job.port /\ job'.phone = job.phone
      BY <1>10, <2>2
    <3>2. job'.map \in Forward!Made' /\ map'[job'.map].device = job'.device
      BY <1>7, <1>12, <3>1
    <3>. QED BY <1>7, <3>1, <3>2 DEF JobWhole
  <2>. QED BY <1>5, <2>1, <2>2
<1>13. CASE UNCHANGED <<map, tunnel>>
  <2>1. Forward!Made' = Forward!Made
    BY <1>13 DEF Forward!Made, Forward!Maps, Forward!None
  <2>2. JobWhole'
    BY <1>12, <1>13, <2>1
  <2>3. ForwardTypes'
    BY <1>1, <1>5, <1>8, <1>11, <1>13, ForwardTypesNext DEF ForwardTypes
  <2>4. PortWatched' /\ PortHeldOnce'
    <3>1. ForwardTypes /\ PortWatched /\ PortHeldOnce
      BY DEF ForwardInv
    <3>2. MapsStand
      BY <1>5, <1>13 DEF MapsStand
    <3>3. \A i \in Forward!Tunnels : Forward!ModeOf(i)' = Forward!ModeOf(i) /\ Forward!PortOf(i)' = Forward!PortOf(i)
      BY <2>3, <3>1, <3>2, Stand
    <3>4. Forward!Tunnels' = Forward!Tunnels
      BY DEF Forward!Tunnels
    <3>. QED BY <1>5, <3>1, <3>3, <3>4 DEF PortWatched, PortHeldOnce
  <2>5. MapsOwn'
    <3>1. Forward!NoTunnel' = Forward!NoTunnel /\ Forward!NoForwarder' = Forward!NoForwarder
          /\ Forward!Tunnels' = Forward!Tunnels /\ Forward!Maps' = Forward!Maps
      BY DEF Forward!NoTunnel, Forward!NoForwarder, Forward!Maps, Forward!Tunnels
    <3>. QED BY <1>1, <1>5, <1>9, <1>13, <2>1, <3>1 DEF MapsOwn
  <2>. QED BY <2>2, <2>3, <2>4, <2>5 DEF ForwardInv
<1>14. CASE \E j \in Forward!Tunnels :
              /\ tunnel[j].map = 0
              /\ tunnel' = [tunnel EXCEPT ![j] = [Forward!NoTunnel EXCEPT !.map = m]]
              /\ map' = [map EXCEPT ![m].rtc = j]
  <2>1. PICK j \in Forward!Tunnels :
          /\ tunnel[j].map = 0
          /\ tunnel' = [tunnel EXCEPT ![j] = [Forward!NoTunnel EXCEPT !.map = m]]
          /\ map' = [map EXCEPT ![m].rtc = j]
    BY <1>14
  <2>2. PICK u : u = [Forward!NoTunnel EXCEPT !.map = m]
    OBVIOUS
  <2>3. u \in TunnelRecords /\ u.map = m
    <3>1. m \in 0..MaxMaps
      BY <1>7, ForwardBounds
    <3>. QED BY <2>2, <3>1 DEF Forward!NoTunnel, TunnelRecords
  <2>4. /\ tunnel' \in [Forward!Tunnels -> TunnelRecords] /\ tunnel'[j].map = m
        /\ \A k \in Forward!Tunnels : k # j => tunnel'[k] = tunnel[k]
    <3>1. tunnel \in [Forward!Tunnels -> TunnelRecords] /\ tunnel' = [tunnel EXCEPT ![j] = u]
      BY <1>1, <2>1, <2>2 DEF ForwardTypes
    <3>. QED BY <2>3, <3>1
  <2>5. \A n \in Forward!Maps : map'[n].device = map[n].device
    BY <1>6, <2>1 DEF MapRecords
  <2>6. Forward!Made' = Forward!Made
    <3>1. Forward!Made = {n \in Forward!Maps : map[n].device # Forward!None}
      BY DEF Forward!Made
    <3>2. Forward!Made' = {n \in Forward!Maps : map'[n].device # Forward!None}
      BY DEF Forward!Made, Forward!Maps, Forward!None
    <3>. QED BY <2>5, <3>1, <3>2
  <2>7. JobWhole'
    BY <1>12, <2>5, <2>6
  <2>. QED BY <1>5, <1>7, <1>8, <1>9, <1>11, <2>1, <2>4, <2>7, DialledKeeps
<1>. QED BY <1>2, <1>13, <1>14 DEF Forward!ConnectMap, Forward!Dial


LEMMA TakenDown ==
  ASSUME ForwardInv, NEW m \in 0..MaxMaps, Forward!TakeDown(m)
  PROVE  /\ map' \in [Forward!Maps -> MapRecords] /\ tunnel' \in [Forward!Tunnels -> TunnelRecords]
         /\ \A n \in Forward!Maps :
              /\ map'[n].device = map[n].device /\ map'[n].port = map[n].port /\ map'[n].mode = map[n].mode
              /\ map'[n].rtc = map[n].rtc /\ map'[n].fwd = map[n].fwd
         /\ \A i \in Forward!Tunnels :
              tunnel'[i].map = tunnel[i].map /\ (tunnel[i].map = 0 => tunnel'[i] = tunnel[i])
<1>1. /\ map \in [Forward!Maps -> MapRecords] /\ tunnel \in [Forward!Tunnels -> TunnelRecords]
      /\ MapsOwn
  BY DEF ForwardInv, ForwardTypes
<1>2. CASE UNCHANGED <<map, tunnel>>
  BY <1>1, <1>2
<1>3. CASE m # 0 /\ map[m].rtc # 0
  <2>1. PICK r : r = map[m].rtc
    OBVIOUS
  <2>2. PICK c : c = Forward!CloseTunnel(tunnel[r])
    OBVIOUS
  <2>3. map' = [map EXCEPT ![m].reconnect = 1] /\ tunnel' = [tunnel EXCEPT ![r] = c]
    BY <1>3, <2>1, <2>2 DEF Forward!TakeDown
  <2>4. m \in Forward!Maps
    BY <1>3, ForwardBounds
  <2>5. r \in 0..MaxTunnels /\ r # 0
    BY <1>1, <1>3, <2>1, <2>4 DEF MapRecords
  <2>6. r \in Forward!Tunnels /\ tunnel[r].map # 0
    <3>1. r \in Forward!Tunnels
      BY <2>5, ForwardBounds
    <3>2. tunnel[r].map = m
      BY <1>1, <2>1, <2>4, <2>5 DEF MapsOwn
    <3>. QED BY <1>3, <3>1, <3>2
  <2>7. c \in TunnelRecords /\ c.map = tunnel[r].map
    BY <1>1, <2>2, <2>6, TunnelCloses
  <2>8. /\ map' \in [Forward!Maps -> MapRecords]
        /\ \A n \in Forward!Maps :
             /\ map'[n].device = map[n].device /\ map'[n].port = map[n].port /\ map'[n].mode = map[n].mode
             /\ map'[n].rtc = map[n].rtc /\ map'[n].fwd = map[n].fwd
    BY <1>1, <2>3, <2>4 DEF MapRecords
  <2>9. /\ tunnel' \in [Forward!Tunnels -> TunnelRecords] /\ tunnel'[r] = c
        /\ \A i \in Forward!Tunnels : i # r => tunnel'[i] = tunnel[i]
    BY <1>1, <2>3, <2>6, <2>7
  <2>10. \A i \in Forward!Tunnels :
           tunnel'[i].map = tunnel[i].map /\ (tunnel[i].map = 0 => tunnel'[i] = tunnel[i])
    BY <2>6, <2>7, <2>9
  <2>. QED BY <2>8, <2>9, <2>10
<1>. QED BY <1>2, <1>3 DEF Forward!TakeDown

LEMMA RequestKeeps ==
  ASSUME ForwardInv,
         \/ \E d \in Devices, p \in Ports, ph \in Phones :
              Forward!ConnectDevice(d, p, ph) \/ \E mode \in MapModes : Forward!CreatePortMap(d, p, ph, mode)
         \/ Forward!NoToken \/ Forward!AddMapping
         \/ \E p \in Ports : Forward!DisconnectDevice(p)
         \/ \E d \in Devices : Forward!DeletePortMap(d)
  PROVE  ForwardInv'
<1>1. ForwardTypes /\ JobWhole
  BY DEF ForwardInv
<1>2. /\ entry \in [Devices -> 0..MaxMaps] /\ saved \in [Devices -> 0..MaxMaps]
      /\ active \in [Ports -> Devices \cup {Forward!None}] /\ job \in JobRecords
      /\ map \in [Forward!Maps -> MapRecords] /\ tunnel \in [Forward!Tunnels -> TunnelRecords]
  BY <1>1 DEF ForwardTypes
(* What has been asked for is whole. *)
<1>3. ASSUME NEW d \in Devices, NEW p \in Ports, NEW ph \in Phones, NEW mode \in {0, 2},
             NEW via \in {"http", "service"},
             job' = [pc |-> "new", device |-> d, port |-> p, phone |-> ph, mode |-> mode, map |-> 0, via |-> via]
      PROVE  JobWhole' /\ job' \in JobRecords
  <2>1. job' \in JobRecords /\ job'.pc = "new" /\ job'.device = d /\ job'.port = p /\ job'.phone = ph
    BY <1>3, ForwardBounds DEF JobRecords
  <2>. QED BY <2>1 DEF JobWhole
<1>4. ASSUME UNCHANGED <<map, tunnel, fwd>>, JobWhole', job' \in JobRecords,
             \A d \in Devices : entry'[d] \in {0, entry[d]} /\ saved'[d] \in {0, saved[d]},
             entry' \in [Devices -> 0..MaxMaps], saved' \in [Devices -> 0..MaxMaps],
             active' \in [Ports -> Devices \cup {Forward!None}]
      PROVE  ForwardInv'
  <2>1. /\ map' \in [Forward!Maps -> MapRecords] /\ tunnel' \in [Forward!Tunnels -> TunnelRecords]
        /\ \A n \in Forward!Maps :
             /\ map'[n].device = map[n].device /\ map'[n].port = map[n].port /\ map'[n].mode = map[n].mode
             /\ map'[n].rtc = map[n].rtc /\ map'[n].fwd = map[n].fwd
        /\ \A i \in Forward!Tunnels :
             tunnel'[i].map = tunnel[i].map /\ (tunnel[i].map = 0 => tunnel'[i] = tunnel[i])
    BY <1>2, <1>4
  <2>. QED BY <1>4, <2>1, MapGoes
<1>5. ASSUME NEW m \in 0..MaxMaps, Forward!TakeDown(m), UNCHANGED fwd, JobWhole', job' \in JobRecords,
             \A d \in Devices : entry'[d] \in {0, entry[d]} /\ saved'[d] \in {0, saved[d]},
             entry' \in [Devices -> 0..MaxMaps], saved' \in [Devices -> 0..MaxMaps],
             active' \in [Ports -> Devices \cup {Forward!None}]
      PROVE  ForwardInv'
  <2>1. /\ map' \in [Forward!Maps -> MapRecords] /\ tunnel' \in [Forward!Tunnels -> TunnelRecords]
        /\ \A n \in Forward!Maps :
             /\ map'[n].device = map[n].device /\ map'[n].port = map[n].port /\ map'[n].mode = map[n].mode
             /\ map'[n].rtc = map[n].rtc /\ map'[n].fwd = map[n].fwd
        /\ \A i \in Forward!Tunnels :
             tunnel'[i].map = tunnel[i].map /\ (tunnel[i].map = 0 => tunnel'[i] = tunnel[i])
    BY <1>5, TakenDown
  <2>. QED BY <1>5, <2>1, MapGoes
<1>6. CASE \E d \in Devices, p \in Ports, ph \in Phones : Forward!ConnectDevice(d, p, ph)
  <2>1. PICK d \in Devices, p \in Ports, ph \in Phones : Forward!ConnectDevice(d, p, ph)
    BY <1>6
  <2>2. PICK m : m = saved[d]
    OBVIOUS
  <2>3. /\ job' = [Forward!NoJob EXCEPT !.pc = "new", !.device = d, !.port = p, !.phone = ph, !.via = "service"]
        /\ UNCHANGED <<entry, saved, fwd>>
        /\ \/ UNCHANGED <<active, map, tunnel>>
           \/ Forward!TakeDown(m) /\ active' = [active EXCEPT ![p] = Forward!None]
    BY <2>1, <2>2 DEF Forward!ConnectDevice
  <2>4. job' = [pc |-> "new", device |-> d, port |-> p, phone |-> ph, mode |-> 0, map |-> 0, via |-> "service"]
    BY <2>3 DEF Forward!NoJob
  <2>5. JobWhole' /\ job' \in JobRecords
    BY <1>3, <2>4
  <2>6. m \in 0..MaxMaps
    BY <1>2, <2>2
  <2>7. active' \in [Ports -> Devices \cup {Forward!None}]
    BY <1>2, <2>3
  <2>8. /\ entry' \in [Devices -> 0..MaxMaps] /\ saved' \in [Devices -> 0..MaxMaps]
        /\ \A c \in Devices : entry'[c] \in {0, entry[c]} /\ saved'[c] \in {0, saved[c]}
    BY <1>2, <2>3
  <2>9. CASE UNCHANGED <<map, tunnel>>
    BY <1>4, <2>3, <2>5, <2>7, <2>8, <2>9
  <2>10. CASE Forward!TakeDown(m)
    BY <1>5, <2>3, <2>5, <2>6, <2>7, <2>8, <2>10
  <2>. QED BY <2>3, <2>9, <2>10
<1>7. CASE \E d \in Devices, p \in Ports, ph \in Phones :
             \E mode \in MapModes : Forward!CreatePortMap(d, p, ph, mode)
  <2>1. PICK d \in Devices, p \in Ports, ph \in Phones :
          \E mode \in MapModes : Forward!CreatePortMap(d, p, ph, mode)
    BY <1>7
  <2>2. PICK mode \in MapModes : Forward!CreatePortMap(d, p, ph, mode)
    BY <2>1
  <2>3. /\ job' = [Forward!NoJob EXCEPT !.pc = "new", !.device = d, !.port = p, !.phone = ph, !.mode = mode,
                                        !.via = "http"]
        /\ UNCHANGED <<entry, saved, active, map, tunnel, fwd>>
    BY <2>2 DEF Forward!CreatePortMap
  <2>4. mode \in {0, 2}
    BY ForwardBounds
  <2>5. job' = [pc |-> "new", device |-> d, port |-> p, phone |-> ph, mode |-> mode, map |-> 0, via |-> "http"]
    BY <2>3 DEF Forward!NoJob
  <2>6. JobWhole' /\ job' \in JobRecords
    BY <1>3, <2>4, <2>5
  <2>. QED BY <1>2, <1>4, <2>3, <2>6
<1>8. CASE Forward!NoToken
  <2>1. job' = Forward!NoJob /\ UNCHANGED <<entry, saved, active, map, tunnel, fwd>>
    BY <1>8 DEF Forward!NoToken
  <2>2. JobWhole' /\ job' \in JobRecords
    BY <2>1, NoJobWhole
  <2>. QED BY <1>2, <1>4, <2>1, <2>2
<1>9. CASE Forward!AddMapping
  <2>1. /\ job.pc = "add" /\ job' = Forward!NoJob /\ active' = [active EXCEPT ![job.port] = job.device]
        /\ UNCHANGED <<entry, saved, map, tunnel, fwd>>
    BY <1>9 DEF Forward!AddMapping
  <2>2. JobWhole' /\ job' \in JobRecords
    BY <2>1, NoJobWhole
  <2>3. job.device \in Devices
    BY <1>1, <2>1 DEF JobWhole
  <2>4. active' \in [Ports -> Devices \cup {Forward!None}]
    BY <1>2, <2>1, <2>3
  <2>. QED BY <1>2, <1>4, <2>1, <2>2, <2>4
<1>10. CASE \E p \in Ports : Forward!DisconnectDevice(p)
  <2>1. PICK p \in Ports : Forward!DisconnectDevice(p)
    BY <1>10
  <2>2. PICK m : m = saved[active[p]]
    OBVIOUS
  <2>3. /\ active[p] # Forward!None /\ Forward!TakeDown(m) /\ active' = [active EXCEPT ![p] = Forward!None]
        /\ UNCHANGED <<entry, saved, fwd, job>>
    BY <2>1, <2>2 DEF Forward!DisconnectDevice
  <2>4. m \in 0..MaxMaps
    BY <1>2, <2>2, <2>3
  <2>5. active' \in [Ports -> Devices \cup {Forward!None}] /\ job' \in JobRecords
    BY <1>2, <2>3
  <2>6. \A n \in Forward!Maps : map'[n].device = map[n].device
    BY <2>3, <2>4, TakenDown
  <2>7. JobWhole'
    BY <2>3, <2>6, JobStays
  <2>. QED BY <1>2, <1>5, <2>3, <2>4, <2>5, <2>7
<1>11. CASE \E d \in Devices : Forward!DeletePortMap(d)
  <2>1. PICK d \in Devices : Forward!DeletePortMap(d)
    BY <1>11
  <2>2. PICK m : m = saved[d]
    OBVIOUS
  <2>3. /\ Forward!TakeDown(m) /\ saved' = [saved EXCEPT ![d] = 0]
        /\ UNCHANGED <<entry, active, fwd, job>>
    BY <2>1, <2>2 DEF Forward!DeletePortMap
  <2>4. m \in 0..MaxMaps
    BY <1>2, <2>2
  <2>5. saved' \in [Devices -> 0..MaxMaps] /\ \A c \in Devices : saved'[c] \in {0, saved[c]}
    <3>1. 0 \in 0..MaxMaps
      BY ForwardBounds
    <3>. QED BY <1>2, <2>3, <3>1
  <2>6. \A n \in Forward!Maps : map'[n].device = map[n].device
    BY <2>3, <2>4, TakenDown
  <2>7. JobWhole'
    BY <2>3, <2>6, JobStays
  <2>. QED BY <1>2, <1>5, <2>3, <2>4, <2>5, <2>7
<1>. QED BY <1>6, <1>7, <1>8, <1>9, <1>10, <1>11

LEMMA NewMapKeeps == ASSUME ForwardInv, Forward!NewMap PROVE ForwardInv'
<1>1. ForwardTypes /\ JobWhole /\ MapsOwn /\ PortWatched /\ PortHeldOnce
  BY DEF ForwardInv
<1>2. job.pc = "new" /\ UNCHANGED <<saved, active, tunnel, fwd>>
  BY DEF Forward!NewMap
<1>3. job.device \in Devices /\ job.port \in Ports /\ job.phone \in Phones
  BY <1>1, <1>2 DEF JobWhole
<1>4. /\ entry \in [Devices -> 0..MaxMaps] /\ saved \in [Devices -> 0..MaxMaps]
      /\ job \in JobRecords /\ map \in [Forward!Maps -> MapRecords]
      /\ tunnel \in [Forward!Tunnels -> TunnelRecords]
  BY <1>1 DEF ForwardTypes
<1>5. CASE job' = Forward!NoJob /\ UNCHANGED <<entry, map>>
  <2>1. JobWhole' /\ job' \in JobRecords
    BY <1>5, NoJobWhole
  <2>2. ForwardTypes'
    BY <1>1, <1>2, <1>5, <2>1, ForwardTypesNext DEF ForwardTypes
  <2>3. MapsStand
    BY <1>2, <1>5 DEF MapsStand
  <2>4. /\ \A d \in Devices : entry'[d] \in {0, entry[d]} /\ saved'[d] \in {0, saved[d]}
        /\ \A j \in Forward!Tunnels :
             /\ fwd'[j].lis = "open" /\ Forward!ModeOf(j) = 0 => fwd'[j].monitor = "wait"
             /\ fwd'[j].pc \in {"none", "start"} => fwd'[j].lis = "none" /\ fwd'[j].monitor = "none"
             /\ fwd'[j].pc = "listen" => Forward!ModeOf(j) = 2
        /\ \A j, k \in Forward!Tunnels :
             fwd'[j].lis = "open" /\ fwd'[k].lis = "open" /\ Forward!PortOf(j) = Forward!PortOf(k) => j = k
    BY <1>1, <1>2, <1>5 DEF PortWatched, PortHeldOnce
  <2>. QED BY <2>1, <2>2, <2>3, <2>4, StandKeeps
<1>6. CASE \E m \in Forward!Maps :
             /\ m \notin Forward!Made
             /\ map' = [map EXCEPT ![m] = [Forward!NoMap EXCEPT !.device = job.device, !.port = job.port,
                                                                !.phone = job.phone, !.mode = job.mode]]
             /\ entry' = [entry EXCEPT ![job.device] = m]
             /\ job' = [job EXCEPT !.pc = "token", !.map = m]
  <2>1. PICK m \in Forward!Maps :
             /\ m \notin Forward!Made
             /\ map' = [map EXCEPT ![m] = [Forward!NoMap EXCEPT !.device = job.device, !.port = job.port,
                                                                !.phone = job.phone, !.mode = job.mode]]
             /\ entry' = [entry EXCEPT ![job.device] = m]
             /\ job' = [job EXCEPT !.pc = "token", !.map = m]
    BY <1>6
  <2>2. PICK n : n = [Forward!NoMap EXCEPT !.device = job.device, !.port = job.port,
                                            !.phone = job.phone, !.mode = job.mode]
    OBVIOUS
  <2>3. n \in MapRecords /\ n.device = job.device /\ n.rtc = 0 /\ n.fwd = 0
    <3>1. n = [device |-> job.device, port |-> job.port, phone |-> job.phone, mode |-> job.mode,
               rtc |-> 0, fwd |-> 0, reconnect |-> 0]
      BY <2>2 DEF Forward!NoMap
    <3>2. job.mode \in {0, 2}
      BY <1>4 DEF JobRecords
    <3>. QED BY <1>3, <3>1, <3>2, ForwardBounds DEF MapRecords
  <2>4. /\ map' \in [Forward!Maps -> MapRecords] /\ map'[m] = n
        /\ \A k \in Forward!Maps : k # m => map'[k] = map[k]
    BY <1>4, <2>1, <2>2, <2>3
  <2>5. m \in 0..MaxMaps /\ m # 0
    BY ForwardBounds
  <2>6. /\ job' \in JobRecords /\ job'.pc = "token" /\ job'.map = m /\ job'.device = job.device
        /\ job'.port = job.port /\ job'.phone = job.phone
    BY <1>4, <2>1, <2>5 DEF JobRecords
  <2>7. entry' \in [Devices -> 0..MaxMaps] /\ entry'[job.device] = m
        /\ \A d \in Devices : d # job.device => entry'[d] = entry[d]
    BY <1>3, <1>4, <2>1, <2>5
  <2>8. ForwardTypes'
    BY <1>1, <1>2, <2>4, <2>6, <2>7, ForwardTypesNext DEF ForwardTypes
  <2>9. map[m].device = Forward!None
    BY <2>1 DEF Forward!Made
  <2>10. /\ Forward!Made \subseteq Forward!Made' /\ m \in Forward!Made'
         /\ Forward!Tunnels' = Forward!Tunnels /\ Forward!Maps' = Forward!Maps
    <3>1. Forward!Made = {k \in Forward!Maps : map[k].device # Forward!None}
      BY DEF Forward!Made
    <3>2. Forward!Made' = {k \in Forward!Maps : map'[k].device # Forward!None}
      BY DEF Forward!Made, Forward!Maps, Forward!None
    <3>3. m \in Forward!Made'
      BY <1>3, <2>3, <2>4, <3>2, ForwardBounds
    <3>. QED BY <2>1, <2>4, <3>1, <3>2, <3>3 DEF Forward!Maps, Forward!Tunnels
  (* No tunnel is of the new map, so that none reads another one than before. *)
  <2>11. ASSUME NEW i \in Forward!Tunnels PROVE tunnel[i].map # m
    <3>1. tunnel[i].map # 0 => tunnel[i].map \in Forward!Made
      BY <1>1, <2>11 DEF MapsOwn
    <3>. QED BY <2>1, <2>5, <3>1
  <2>12. ASSUME NEW i \in Forward!Tunnels
         PROVE  Forward!ModeOf(i)' = Forward!ModeOf(i) /\ Forward!PortOf(i)' = Forward!PortOf(i)
    <3>1. /\ tunnel'[i].map # 0 => Forward!ModeOf(i)' = map'[tunnel'[i].map].mode
                                   /\ Forward!PortOf(i)' = map'[tunnel'[i].map].port
          /\ tunnel'[i].map = 0 => Forward!ModeOf(i)' = 0 /\ Forward!PortOf(i)' = Forward!None
      BY <2>8, <2>12, MapsReadNext DEF Forward!Maps, Forward!Tunnels, Forward!None
    <3>2. tunnel[i].map # 0 => tunnel[i].map \in Forward!Maps /\ map'[tunnel[i].map] = map[tunnel[i].map]
      BY <1>1, <2>4, <2>11, <2>12, MapsRead
    <3>. QED BY <1>1, <1>2, <2>12, <3>1, <3>2, MapsRead
  <2>13. PortWatched' /\ PortHeldOnce'
    BY <1>1, <1>2, <2>10, <2>12 DEF PortWatched, PortHeldOnce
  <2>14. JobWhole'
    <3>1. map'[job'.map].device = job'.device /\ job'.map \in Forward!Made'
      BY <2>3, <2>4, <2>6, <2>10
    <3>. QED BY <1>3, <2>6, <3>1 DEF JobWhole
  <2>15. MapsOwn'
    <3>1. ASSUME NEW d \in Devices
          PROVE  /\ entry'[d] # 0 => map'[entry'[d]].device = d
                 /\ saved'[d] # 0 => map'[saved'[d]].device = d
      <4>1. entry[d] \in 0..MaxMaps /\ saved[d] \in 0..MaxMaps
        BY <1>4, <3>1
      <4>2. (entry[d] # 0 => entry[d] \in Forward!Maps) /\ (saved[d] # 0 => saved[d] \in Forward!Maps)
        BY <4>1, ForwardBounds
      <4>3. (entry[d] # 0 => map[entry[d]].device = d) /\ (saved[d] # 0 => map[saved[d]].device = d)
        BY <1>1, <3>1 DEF MapsOwn
      <4>4. Forward!None \notin Devices
        BY ForwardBounds
      <4>5. entry[d] # m /\ saved[d] # m
        BY <2>5, <2>9, <3>1, <4>3, <4>4
      <4>6. saved'[d] # 0 => map'[saved'[d]].device = d
        BY <1>2, <2>4, <4>2, <4>3, <4>5
      <4>7. CASE d = job.device
        BY <2>3, <2>4, <2>7, <4>6, <4>7
      <4>8. CASE d # job.device
        BY <2>4, <2>7, <3>1, <4>2, <4>3, <4>5, <4>6, <4>8
      <4>. QED BY <4>7, <4>8
    <3>2. ASSUME NEW k \in Forward!Maps
          PROVE  /\ map'[k].rtc # 0 => tunnel'[map'[k].rtc].map = k
                 /\ map'[k].fwd # 0 => tunnel'[map'[k].fwd].map = k
      <4>1. CASE k = m
        BY <2>3, <2>4, <4>1
      <4>2. CASE k # m
        BY <1>1, <1>2, <2>4, <3>2, <4>2 DEF MapsOwn
      <4>. QED BY <4>1, <4>2
    <3>3. Forward!NoTunnel' = Forward!NoTunnel /\ Forward!NoForwarder' = Forward!NoForwarder
      BY DEF Forward!NoTunnel, Forward!NoForwarder
    <3>4. ASSUME NEW i \in Forward!Tunnels
          PROVE  /\ tunnel'[i].map # 0 => tunnel'[i].map \in Forward!Made'
                 /\ tunnel'[i].map = 0 => tunnel'[i] = Forward!NoTunnel /\ fwd'[i] = Forward!NoForwarder
      BY <1>1, <1>2, <2>10, <3>4 DEF MapsOwn
    <3>. QED BY <2>10, <3>1, <3>2, <3>3, <3>4 DEF MapsOwn
  <2>. QED BY <2>8, <2>13, <2>14, <2>15 DEF ForwardInv
<1>. QED BY <1>5, <1>6 DEF Forward!NewMap

LEMMA ForwardKeeps == ASSUME ForwardInv, Forward!Next PROVE ForwardInv'
<1>1. CASE Forward!Request
  BY <1>1, RequestKeeps, NewMapKeeps, ConnectMapKeeps DEF Forward!Request
<1>2. CASE \E i \in Forward!Tunnels : Forward!Network(i) \/ Forward!Runs(i) \/ Forward!ChannelCloses(i)
             \/ Forward!MuxDies(i) \/ Forward!StartMuxPortMap(i) \/ Forward!Monitor(i)
  BY <1>2, NetworkKeeps, ForwarderKeeps, OpenKeeps, CloseKeeps, RedialKeeps DEF Forward!Network, Forward!Runs
<1>. QED BY <1>1, <1>2 DEF Forward!Next

LEMMA ForwardStutter == ASSUME ForwardInv, UNCHANGED forwarding PROVE ForwardInv'
<1>1. ForwardTypes /\ UNCHANGED <<entry, saved, active, map, tunnel, fwd, job>>
  BY DEF ForwardInv, forwarding
<1>2. JobWhole'
  BY <1>1, JobStays
<1>3. ForwardTypes'
  BY <1>1, ForwardTypesNext DEF ForwardTypes
<1>4. MapsStand
  BY <1>1 DEF MapsStand
<1>5. /\ \A d \in Devices : entry'[d] \in {0, entry[d]} /\ saved'[d] \in {0, saved[d]}
      /\ \A j \in Forward!Tunnels :
           /\ fwd'[j].lis = "open" /\ Forward!ModeOf(j) = 0 => fwd'[j].monitor = "wait"
           /\ fwd'[j].pc \in {"none", "start"} => fwd'[j].lis = "none" /\ fwd'[j].monitor = "none"
           /\ fwd'[j].pc = "listen" => Forward!ModeOf(j) = 2
      /\ \A j, k \in Forward!Tunnels :
           fwd'[j].lis = "open" /\ fwd'[k].lis = "open" /\ Forward!PortOf(j) = Forward!PortOf(k) => j = k
  BY <1>1 DEF ForwardInv, PortWatched, PortHeldOnce
<1>. QED BY <1>2, <1>3, <1>4, <1>5, StandKeeps

(* A listener of a port map that is open has somebody who waits for its multiplexer to end, and a
   local port is listened on by one tunnel at most, whatever tunnel of the map is replaced, taken down
   or dialled anew meanwhile (startMuxPortMapWithRetry, monitorMuxLifecycle): no port map leaves a
   listener that nobody will close.  A SOCKS5 server has itself watched before it listens, and may. *)
THEOREM ListenersWatched == Spec => [](PortWatched /\ PortHeldOnce)
<1>1. Init => ForwardInv
  BY ForwardInit DEF Init
<1>2. ForwardInv /\ [Next]_vars => ForwardInv'
  BY ForwardKeeps, ForwardStutter, OneSteps
<1>3. ForwardInv => PortWatched /\ PortHeldOnce
  BY DEF ForwardInv
<1>. QED BY <1>1, <1>2, <1>3, PTL DEF Spec

------------------------------------------------------------------------------
(* PacketStream: who holds a packet, and which message every piece is of *)

PacketMessages == [id : Nat, size : Nat]

PacketPlaces == {"idle", "send", "pieces", "put"}

PacketSenders == Senders \cup {Packets!Loop}

PacketTypes ==
  /\ transport \in {"channel", "stream", "cached"}
  /\ pool \in [Buffers -> [refs : Nat, msg : PacketMessages]]
  /\ sender \in [PacketSenders -> [pc : PacketPlaces, packet : Buffers \cup {Packets!None}, at : Nat]]
  /\ queue \in Seq(Buffers) /\ Len(queue) <= Cache
  /\ lock \in PacketSenders \cup {Packets!None}
  /\ wire \in Seq([msg : Nat, length : Int, n : Nat])
  /\ rx \in [length : Int, received : Nat, of : SUBSET Nat]
  /\ sent \in Seq(PacketMessages) /\ out \in Seq([of : SUBSET Nat, size : Int]) /\ made \in Nat

Busy(s) == sender[s].pc # "idle"

Sending(s) == sender[s].pc \in {"send", "pieces"}

(* Without a queue the loop rests, with one it alone sends pieces; the lock is with whoever does. *)
PlacesAgree ==
  /\ \A s \in PacketSenders :
       /\ Busy(s) => sender[s].packet \in Buffers
       /\ sender[s].pc = "pieces" <=> lock = s
       /\ sender[s].pc = "send" => sender[s].at = 0
  /\ transport # "cached" => queue = <<>> /\ ~Busy(Packets!Loop)
  /\ transport = "cached" => \A s \in Senders : sender[s].pc # "pieces"

Written(b) == \E s \in Senders : Busy(s) /\ sender[s].packet = b

Queued(b) ==
  \/ \E k \in 1..Len(queue) : queue[k] = b
  \/ Busy(Packets!Loop) /\ sender[Packets!Loop].packet = b

(* A packet is held by one sender at most and is once at most in the queue or with the loop. *)
HeldOnce ==
  /\ \A s, t \in Senders : Busy(s) /\ Busy(t) /\ sender[s].packet = sender[t].packet => s = t
  /\ \A k, l \in 1..Len(queue) : queue[k] = queue[l] => k = l
  /\ \A k \in 1..Len(queue) : Busy(Packets!Loop) => queue[k] # sender[Packets!Loop].packet
  /\ \A s \in Senders : transport = "cached" /\ sender[s].pc = "send" => ~Queued(sender[s].packet)

RefsCount ==
  \A b \in Buffers :
    pool[b].refs = (IF Written(b) THEN 1 ELSE 0) + (IF Queued(b) THEN 1 ELSE 0)

(* How many messages went into the pieces that were sent, the one under way left out. *)
Passed ==
  IF transport = "cached"
  THEN Len(sent) - Len(queue) - (IF Sending(Packets!Loop) THEN 1 ELSE 0)
  ELSE Len(sent) - (IF lock = Packets!None THEN 0 ELSE 1)

Message(s) == pool[sender[s].packet].msg

(* What waits in the queue, is with the loop or is being sent are the messages that follow. *)
InOrder ==
  /\ Passed \in Nat
  /\ \A k \in 1..Len(queue) : pool[queue[k]].msg = sent[Len(sent) - Len(queue) + k]
  /\ Sending(Packets!Loop) => Message(Packets!Loop) = sent[Passed + 1]
  /\ lock # Packets!None => Passed < Len(sent) /\ Message(lock) = sent[Passed + 1]
  /\ lock # Packets!None /\ sender[lock].at > 0 => sender[lock].at - 1 < Message(lock).size

(* The reader and the sender are in a message, or between two (-1): of which, and how much of it. *)
ReadIndex == IF rx.length = -1 THEN Len(out) ELSE Len(out) + 1

ReadCount == IF rx.length = -1 THEN -1 ELSE rx.received

Partial == IF lock = Packets!None THEN FALSE ELSE sender[lock].at > 0

WriteIndex == IF Partial THEN Passed + 1 ELSE Passed

WriteCount == IF Partial THEN sender[lock].at - 1 ELSE -1

(* The piece p takes the reader from i, c to j, d. *)
After(i, c, p, j, d) ==
  /\ j = (IF c = -1 THEN i + 1 ELSE i) /\ j \in 1..Len(sent)
  /\ p.msg = sent[j].id
  /\ p.length = IF c = -1 THEN sent[j].size ELSE -1
  /\ LET e == IF c = -1 THEN p.n ELSE c + p.n
     IN e <= sent[j].size /\ d = IF e = sent[j].size THEN -1 ELSE e

(* The pieces on their way take the reader to where the sender is. *)
Flows(f, g) ==
  /\ f \in [0..Len(wire) -> Nat] /\ g \in [0..Len(wire) -> Int]
  /\ f[0] = ReadIndex /\ g[0] = ReadCount
  /\ f[Len(wire)] = WriteIndex /\ g[Len(wire)] = WriteCount
  /\ \A k \in 1..Len(wire) : After(f[k - 1], g[k - 1], wire[k], f[k], g[k])

Reading ==
  rx.length # -1 =>
    /\ Len(out) < Len(sent) /\ rx.received < rx.length
    /\ rx.length = sent[Len(out) + 1].size /\ rx.of = {sent[Len(out) + 1].id}

PiecesFlow == rx = Packets!Ended \/ (Reading /\ \E f, g : Flows(f, g))

PacketInv ==
  /\ PacketTypes /\ PlacesAgree /\ HeldOnce /\ RefsCount /\ InOrder /\ PiecesFlow
  /\ Packets!FramesWhole


LEMMA PacketBounds ==
  /\ Packets!Loop \notin Senders /\ Packets!None \notin PacketSenders /\ Packets!Loop \in PacketSenders
  /\ Transports \subseteq {"channel", "stream", "cached"} /\ Sizes \subseteq Nat
  /\ Prefix \in Nat /\ Piece \in Nat /\ Largest \in Nat /\ Cache \in Nat /\ 0 < Prefix /\ Prefix < Piece
  BY ServicesAssumption DEF Packets!StreamAssumption, PacketSenders, Packets!Loop, Packets!None

LEMMA AppendFacts ==
  ASSUME NEW S, NEW s \in Seq(S), NEW e \in S
  PROVE  /\ Append(s, e) \in Seq(S) /\ Len(Append(s, e)) = Len(s) + 1 /\ Len(s) \in Nat
         /\ \A k \in 1..Len(s) : Append(s, e)[k] = s[k]
         /\ Append(s, e)[Len(s) + 1] = e
  OBVIOUS

LEMMA TailFacts ==
  ASSUME NEW S, NEW s \in Seq(S), s # <<>>
  PROVE  /\ Tail(s) \in Seq(S) /\ Len(Tail(s)) = Len(s) - 1 /\ Len(s) \in Nat \ {0}
         /\ \A k \in 1..Len(s) - 1 : Tail(s)[k] = s[k + 1]
         /\ Head(s) = s[1] /\ s[1] \in S
  OBVIOUS

LEMMA PacketInit == ASSUME Packets!Init PROVE PacketInv
<1>. USE DEF Packets!Init
<1>1. PacketTypes
  BY PacketBounds DEF PacketTypes, PacketMessages, PacketPlaces, PacketSenders, Packets!NoMessage, Packets!Idle,
     Packets!NoFrame
<1>2. PlacesAgree
  BY PacketBounds DEF PlacesAgree, Busy, Packets!Idle, PacketSenders
<1>3. HeldOnce /\ RefsCount
  BY PacketBounds DEF HeldOnce, RefsCount, Written, Queued, Busy, Packets!Idle, PacketSenders
<1>4. sender[Packets!Loop].pc = "idle"
  BY PacketBounds DEF Packets!Idle
<1>5. Passed = 0
  <2>1. Len(sent) = 0 /\ Len(queue) = 0 /\ lock = Packets!None
    OBVIOUS
  <2>2. Len(sent) - Len(queue) - 0 = 0 /\ Len(sent) - 0 = 0
    BY <2>1
  <2>3. ~Sending(Packets!Loop)
    BY <1>4 DEF Sending
  <2>4. CASE transport = "cached"
    BY <2>2, <2>3, <2>4 DEF Passed
  <2>5. CASE transport # "cached"
    BY <2>1, <2>2, <2>5 DEF Passed
  <2>. QED BY <2>4, <2>5
<1>6. InOrder
  BY <1>4, <1>5 DEF InOrder, Sending
<1>7. Flows([k \in {0} |-> 0], [k \in {0} |-> -1])
  BY <1>5 DEF Flows, ReadIndex, ReadCount, WriteIndex, WriteCount, Partial, Packets!NoFrame
<1>8. Reading
  BY DEF Reading, Packets!NoFrame
<1>9. Packets!FramesWhole
  BY DEF Packets!FramesWhole
<1>. QED BY <1>1, <1>2, <1>3, <1>6, <1>7, <1>8, <1>9 DEF PacketInv, PiecesFlow

(* What was sent stays sent. *)
SentKept ==
  /\ sent' \in Seq(PacketMessages) /\ Len(sent) <= Len(sent')
  /\ \A k \in 1..Len(sent) : sent'[k] = sent[k]

LEMMA FlowStays ==
  ASSUME PacketTypes, PiecesFlow, Packets!FramesWhole, SentKept, UNCHANGED <<wire, rx, out>>,
         WriteIndex' = WriteIndex, WriteCount' = WriteCount
  PROVE  PiecesFlow' /\ Packets!FramesWhole'
<1>1. /\ Len(sent) \in Nat /\ Len(sent') \in Nat /\ Len(out) \in Nat /\ Len(wire) \in Nat
      /\ Len(out) <= Len(sent)
  BY DEF PacketTypes, SentKept, Packets!FramesWhole
<1>2. Packets!FramesWhole'
  BY <1>1 DEF Packets!FramesWhole, SentKept
<1>3. ASSUME Reading PROVE Reading'
  BY <1>1, <1>3 DEF Reading, SentKept
<1>4. ASSUME NEW f, NEW g, Flows(f, g) PROVE Flows(f, g)'
  <2>1. ReadIndex' = ReadIndex /\ ReadCount' = ReadCount
    BY DEF ReadIndex, ReadCount
  <2>2. ASSUME NEW k \in 1..Len(wire) PROVE After(f[k - 1], g[k - 1], wire[k], f[k], g[k])'
    <3>1. After(f[k - 1], g[k - 1], wire[k], f[k], g[k])
      BY <1>4, <2>2 DEF Flows
    <3>3. f[k] \in 1..Len(sent)
      BY <3>1 DEF After
    <3>. QED BY <1>1, <3>1, <3>3 DEF After, SentKept
  <2>. QED BY <1>4, <2>1, <2>2 DEF Flows
<1>. QED BY <1>2, <1>3, <1>4 DEF PiecesFlow


LEMMA SenderMoves ==
  ASSUME PacketTypes, NEW s \in PacketSenders, NEW p \in PacketPlaces, sender' = [sender EXCEPT ![s].pc = p]
  PROVE  /\ sender' \in [PacketSenders -> [pc : PacketPlaces, packet : Buffers \cup {Packets!None}, at : Nat]]
         /\ sender'[s].pc = p /\ sender'[s].packet = sender[s].packet /\ sender'[s].at = sender[s].at
         /\ \A t \in PacketSenders : t # s => sender'[t] = sender[t]
  BY DEF PacketTypes

(* The order of messages outlives a step that leaves the messages of what is queued or being sent. *)
LEMMA OrderStays ==
  ASSUME PacketTypes, InOrder, UNCHANGED <<transport, queue, lock, sent>>,
         Sending(Packets!Loop)' <=> Sending(Packets!Loop),
         Sending(Packets!Loop) => Message(Packets!Loop)' = Message(Packets!Loop),
         \A k \in 1..Len(queue) : pool'[queue[k]].msg = pool[queue[k]].msg,
         lock # Packets!None => sender'[lock].at = sender[lock].at /\ Message(lock)' = Message(lock)
  PROVE  InOrder' /\ WriteIndex' = WriteIndex /\ WriteCount' = WriteCount
<1>1. Passed' = Passed
  BY DEF Passed
<1>2. WriteIndex' = WriteIndex /\ WriteCount' = WriteCount
  BY <1>1 DEF WriteIndex, WriteCount, Partial
<1>3. lock' # Packets!None => Message(lock)' = Message(lock) /\ sender'[lock'].at = sender[lock].at
  OBVIOUS
<1>. QED BY <1>1, <1>2, <1>3 DEF InOrder

(* A step that leaves every packet with whom it was. *)
LEMMA HoldersStay ==
  ASSUME PacketTypes, HeldOnce, RefsCount, UNCHANGED <<transport, pool, queue>>,
         \A s \in PacketSenders :
           /\ sender'[s].packet = sender[s].packet /\ (Busy(s)' <=> Busy(s))
           /\ sender'[s].pc = "send" => sender[s].pc = "send"
  PROVE  HeldOnce' /\ RefsCount'
<1>1. \A b : (Written(b)' <=> Written(b)) /\ (Queued(b)' <=> Queued(b))
  BY PacketBounds DEF Written, Queued, PacketSenders
<1>2. RefsCount'
  BY <1>1 DEF RefsCount
<1>3. HeldOnce'
  BY <1>1, PacketBounds DEF HeldOnce, PacketSenders
<1>. QED BY <1>2, <1>3

LEMMA SameSent == ASSUME PacketTypes, sent' = sent PROVE SentKept
  BY DEF PacketTypes, SentKept

LEMMA WriteKeeps == ASSUME PacketInv, NEW s \in Senders, Packets!WritePacket(s) PROVE PacketInv'
<1>1. PICK b \in Buffers, size \in Sizes :
        /\ pool[b].refs = 0
        /\ pool' = [pool EXCEPT ![b] = [refs |-> 1, msg |-> [id |-> made + 1, size |-> size]]]
        /\ sender' = [sender EXCEPT ![s] = [pc |-> "send", packet |-> b, at |-> 0]]
  BY DEF Packets!WritePacket
<1>2. /\ sender[s].pc = "idle" /\ made' = made + 1
      /\ UNCHANGED <<transport, queue, lock, wire, rx, sent, out>>
  BY DEF Packets!WritePacket
<1>3. /\ PacketTypes /\ PlacesAgree /\ HeldOnce /\ RefsCount /\ InOrder /\ PiecesFlow
      /\ Packets!FramesWhole
  BY DEF PacketInv
<1>4. s \in PacketSenders /\ size \in Nat /\ s # Packets!Loop
  BY PacketBounds DEF PacketSenders
<1>5. /\ pool'[b].refs = 1 /\ \A x \in Buffers : x # b => pool'[x] = pool[x]
      /\ pool' \in [Buffers -> [refs : Nat, msg : PacketMessages]]
  <2>0. PICK n \in Nat : n = made + 1
    BY <1>3 DEF PacketTypes
  <2>1. PICK m \in PacketMessages : m = [id |-> n, size |-> size]
    BY <1>4 DEF PacketMessages
  <2>2. PICK q \in [refs : Nat, msg : PacketMessages] : q = [refs |-> 1, msg |-> m]
    OBVIOUS
  <2>3. pool' = [pool EXCEPT ![b] = q] /\ pool \in [Buffers -> [refs : Nat, msg : PacketMessages]] /\ q.refs = 1
    BY <1>1, <1>3, <2>0, <2>1, <2>2 DEF PacketTypes
  <2>. QED BY <2>3
<1>6. /\ sender'[s].pc = "send" /\ sender'[s].packet = b /\ sender'[s].at = 0
      /\ \A t \in PacketSenders : t # s => sender'[t] = sender[t]
      /\ sender' \in [PacketSenders -> [pc : PacketPlaces, packet : Buffers \cup {Packets!None}, at : Nat]]
  BY <1>1, <1>3, <1>4 DEF PacketTypes, PacketPlaces
<1>7. PacketTypes'
  BY <1>2, <1>3, <1>5, <1>6 DEF PacketTypes
<1>8. PlacesAgree'
  <2>1. lock # s
    BY <1>2, <1>3, <1>4 DEF PlacesAgree
  <2>2. ASSUME NEW t \in PacketSenders
        PROVE  /\ Busy(t)' => sender'[t].packet \in Buffers
               /\ sender'[t].pc = "pieces" <=> lock' = t
               /\ sender'[t].pc = "send" => sender'[t].at = 0
    BY <1>2, <1>3, <1>6, <2>1, <2>2 DEF PlacesAgree, Busy
  <2>3. Busy(Packets!Loop)' <=> Busy(Packets!Loop)
    BY <1>4, <1>6, PacketBounds DEF Busy
  <2>4. transport = "cached" => \A t \in Senders : sender'[t].pc # "pieces"
    BY <1>3, <1>6 DEF PlacesAgree, PacketSenders
  <2>. QED BY <1>2, <1>3, <2>2, <2>3, <2>4 DEF PlacesAgree
<1>9. ~Written(b) /\ ~Queued(b)
  BY <1>1, <1>3 DEF RefsCount
<1>10. \A x : (Written(x)' <=> Written(x) \/ x = b) /\ (Queued(x)' <=> Queued(x))
  <2>1. ASSUME NEW x PROVE Written(x)' <=> Written(x) \/ x = b
    BY <1>2, <1>6 DEF Written, Busy, PacketSenders
  <2>2. ASSUME NEW x PROVE Queued(x)' <=> Queued(x)
    BY <1>2, <1>4, <1>6, PacketBounds DEF Queued, Busy
  <2>. QED BY <2>1, <2>2
<1>11. RefsCount'
  BY <1>3, <1>5, <1>9, <1>10 DEF RefsCount
<1>12. HeldOnce'
  <2>1. \A t \in Senders : Busy(t) => sender[t].packet # b
    BY <1>9 DEF Written
  <2>2. ASSUME NEW t \in Senders, NEW u \in Senders, Busy(t)', Busy(u)', sender'[t].packet = sender'[u].packet
        PROVE  t = u
    BY <1>3, <1>6, <2>1, <2>2 DEF HeldOnce, Busy, PacketSenders
  <2>3. \A t \in Senders : transport' = "cached" /\ sender'[t].pc = "send" => ~Queued(sender[t].packet)'
    BY <1>2, <1>3, <1>6, <1>9, <1>10 DEF HeldOnce, PacketSenders
  <2>4. sender'[Packets!Loop] = sender[Packets!Loop]
    BY <1>4, <1>6, PacketBounds
  <2>. QED BY <1>2, <1>3, <2>2, <2>3, <2>4 DEF HeldOnce, Busy
<1>13. InOrder' /\ WriteIndex' = WriteIndex /\ WriteCount' = WriteCount
  <2>1. sender'[Packets!Loop] = sender[Packets!Loop]
    BY <1>4, <1>6, PacketBounds
  <2>2. \A k \in 1..Len(queue) : queue[k] \in Buffers /\ queue[k] # b
    BY <1>3, <1>9 DEF PacketTypes, Queued
  <2>3. ASSUME Sending(Packets!Loop)
        PROVE  sender[Packets!Loop].packet \in Buffers /\ sender[Packets!Loop].packet # b
    BY <1>3, <1>9, <2>3, PacketBounds DEF Sending, PlacesAgree, Queued, Busy
  <2>4. ASSUME lock # Packets!None
        PROVE  /\ lock \in PacketSenders /\ lock # s
               /\ sender[lock].packet \in Buffers /\ sender[lock].packet # b
    <3>1. lock \in PacketSenders
      BY <1>3, <2>4 DEF PacketTypes
    <3>2. sender[lock].pc = "pieces"
      BY <1>3, <3>1 DEF PlacesAgree
    <3>3. Busy(lock)
      BY <3>2 DEF Busy
    <3>4. sender[lock].packet \in Buffers
      BY <1>3, <3>1, <3>3 DEF PlacesAgree
    <3>. QED BY <1>2, <1>9, <3>1, <3>2, <3>3, <3>4 DEF Written, Queued, PacketSenders
  <2>5. Message(Packets!Loop)' = Message(Packets!Loop) \/ ~Sending(Packets!Loop)
    BY <1>5, <2>1, <2>3 DEF Message
  <2>6. lock # Packets!None => sender'[lock].at = sender[lock].at /\ Message(lock)' = Message(lock)
    BY <1>2, <1>5, <1>6, <2>4 DEF Message
  <2>7. Sending(Packets!Loop)' <=> Sending(Packets!Loop)
    BY <2>1 DEF Sending
  <2>8. \A k \in 1..Len(queue) : pool'[queue[k]].msg = pool[queue[k]].msg
    BY <1>5, <2>2
  <2>. QED BY <1>2, <1>3, <2>5, <2>6, <2>7, <2>8, OrderStays
<1>14. PiecesFlow' /\ Packets!FramesWhole'
  BY <1>2, <1>3, <1>13, SameSent, FlowStays
<1>. QED BY <1>7, <1>8, <1>11, <1>12, <1>13, <1>14 DEF PacketInv


(* What a step of s within its message leaves of the rest. *)
LEMMA PlacesMove ==
  ASSUME PacketTypes, PlacesAgree, UNCHANGED <<transport, queue, lock>>, NEW s \in PacketSenders,
         sender[s].pc \in {"send", "put"}, NEW p \in {"put", "idle"}, sender'[s].pc = p,
         p = "put" => sender'[s].packet = sender[s].packet,
         p = "idle" => sender'[s].at = 0,
         \A t \in PacketSenders : t # s => sender'[t] = sender[t]
  PROVE  PlacesAgree'
<1>1. lock # s
  BY DEF PlacesAgree
<1>2. ASSUME NEW t \in PacketSenders
      PROVE  /\ Busy(t)' => sender'[t].packet \in Buffers
             /\ sender'[t].pc = "pieces" <=> lock' = t
             /\ sender'[t].pc = "send" => sender'[t].at = 0
  BY <1>1, <1>2 DEF PlacesAgree, Busy
<1>3. Busy(Packets!Loop)' => Busy(Packets!Loop)
  BY PacketBounds DEF Busy
<1>4. transport = "cached" => \A t \in Senders : sender'[t].pc # "pieces"
  BY DEF PlacesAgree, PacketSenders
<1>. QED BY <1>2, <1>3, <1>4 DEF PlacesAgree

LEMMA RefuseKeeps == ASSUME PacketInv, NEW s \in PacketSenders, Packets!RefuseLarge(s) PROVE PacketInv'
<1>1. /\ transport = "channel" /\ sender[s].pc = "send"
      /\ sender' = [sender EXCEPT ![s].pc = "put"]
      /\ UNCHANGED <<transport, pool, queue, lock, wire, rx, sent, out, made>>
  BY DEF Packets!RefuseLarge, Packets!Refused
<1>2. /\ PacketTypes /\ PlacesAgree /\ HeldOnce /\ RefsCount /\ InOrder /\ PiecesFlow
      /\ Packets!FramesWhole
  BY DEF PacketInv
<1>3. /\ sender' \in [PacketSenders -> [pc : PacketPlaces, packet : Buffers \cup {Packets!None}, at : Nat]]
      /\ sender'[s].pc = "put" /\ sender'[s].packet = sender[s].packet /\ sender'[s].at = sender[s].at
      /\ \A t \in PacketSenders : t # s => sender'[t] = sender[t]
  <2>1. "put" \in PacketPlaces
    BY DEF PacketPlaces
  <2>. QED BY <1>1, <1>2, <2>1, SenderMoves
<1>4. PacketTypes'
  BY <1>1, <1>2, <1>3 DEF PacketTypes
<1>5. PlacesAgree'
  BY <1>1, <1>2, <1>3, PlacesMove
<1>6. HeldOnce' /\ RefsCount'
  <2>1. \A t \in PacketSenders :
          /\ sender'[t].packet = sender[t].packet /\ (Busy(t)' <=> Busy(t))
          /\ sender'[t].pc = "send" => sender[t].pc = "send"
    BY <1>1, <1>3 DEF Busy
  <2>. QED BY <1>1, <1>2, <2>1, HoldersStay
<1>7. InOrder' /\ WriteIndex' = WriteIndex /\ WriteCount' = WriteCount
  <2>1. ~Sending(Packets!Loop) /\ Packets!Loop # s
    BY <1>1, <1>2, PacketBounds DEF PlacesAgree, Sending, Busy
  <2>2. ~Sending(Packets!Loop)'
    BY <1>3, <2>1, PacketBounds DEF Sending
  <2>3. lock # Packets!None => lock \in PacketSenders /\ lock # s
    BY <1>1, <1>2 DEF PacketTypes, PlacesAgree
  <2>4. lock # Packets!None => sender'[lock].at = sender[lock].at /\ Message(lock)' = Message(lock)
    BY <1>1, <1>3, <2>3 DEF Message
  <2>. QED BY <1>1, <1>2, <2>1, <2>2, <2>4, OrderStays
<1>8. PiecesFlow' /\ Packets!FramesWhole'
  BY <1>1, <1>2, <1>7, SameSent, FlowStays
<1>. QED BY <1>4, <1>5, <1>6, <1>7, <1>8 DEF PacketInv

LEMMA PutKeeps == ASSUME PacketInv, NEW s \in PacketSenders, Packets!PutPacket(s) PROVE PacketInv'
<1>0. PICK b : b = sender[s].packet
  OBVIOUS
<1>1. /\ sender[s].pc = "put" /\ pool' = Packets!Put(pool, b) /\ sender' = [sender EXCEPT ![s] = Packets!Idle]
      /\ UNCHANGED <<transport, queue, lock, wire, rx, sent, out, made>>
  BY <1>0 DEF Packets!PutPacket
<1>2. /\ PacketTypes /\ PlacesAgree /\ HeldOnce /\ RefsCount /\ InOrder /\ PiecesFlow
      /\ Packets!FramesWhole
  BY DEF PacketInv
<1>3. Busy(s) /\ b \in Buffers
  BY <1>0, <1>1, <1>2 DEF PlacesAgree, Busy
<1>4. /\ sender'[s].pc = "idle" /\ sender'[s].at = 0
      /\ \A t \in PacketSenders : t # s => sender'[t] = sender[t]
      /\ sender' \in [PacketSenders -> [pc : PacketPlaces, packet : Buffers \cup {Packets!None}, at : Nat]]
  BY <1>1, <1>2 DEF PacketTypes, PacketPlaces, Packets!Idle
<1>5. pool[b].refs \in {1, 2} /\ (Written(b) \/ Queued(b)) /\ (pool[b].refs = 2 <=> Written(b) /\ Queued(b))
  <2>1. Written(b) \/ Queued(b)
    BY <1>0, <1>3 DEF Written, Queued, PacketSenders
  <2>2. pool[b].refs = (IF Written(b) THEN 1 ELSE 0) + (IF Queued(b) THEN 1 ELSE 0)
    BY <1>2, <1>3 DEF RefsCount
  <2>. QED BY <2>1, <2>2
<1>6. /\ pool' \in [Buffers -> [refs : Nat, msg : PacketMessages]]
      /\ pool'[b].refs = pool[b].refs - 1 /\ (pool[b].refs = 2 => pool'[b].msg = pool[b].msg)
      /\ \A x \in Buffers : x # b => pool'[x] = pool[x]
  <2>1. \A x \in Buffers : x # b => pool'[x] = pool[x]
    BY <1>1, <1>2, <1>3 DEF Packets!Put, PacketTypes
  <2>2. pool[b].refs = 1 => pool'[b] = [refs |-> 0, msg |-> Packets!NoMessage]
    BY <1>1, <1>2, <1>3 DEF Packets!Put, PacketTypes
  <2>3. pool[b].refs # 1 => pool'[b] = [pool[b] EXCEPT !.refs = @ - 1]
    BY <1>1, <1>2, <1>3 DEF Packets!Put, PacketTypes
  <2>4. Packets!NoMessage \in PacketMessages
    BY DEF Packets!NoMessage, PacketMessages
  <2>5. pool[b] \in [refs : Nat, msg : PacketMessages]
    BY <1>2, <1>3 DEF PacketTypes
  <2>6. pool'[b] \in [refs : Nat, msg : PacketMessages] /\ pool'[b].refs = pool[b].refs - 1
    BY <1>5, <2>2, <2>3, <2>4, <2>5
  <2>7. \A x \in Buffers : pool'[x] \in [refs : Nat, msg : PacketMessages]
    BY <1>2, <2>1, <2>6 DEF PacketTypes
  <2>8. pool' = [x \in Buffers |-> pool'[x]]
    BY <1>1, <1>2 DEF Packets!Put, PacketTypes
  <2>. QED BY <1>5, <2>1, <2>3, <2>5, <2>6, <2>7, <2>8
<1>7. PacketTypes'
  BY <1>1, <1>2, <1>4, <1>6 DEF PacketTypes
<1>8. PlacesAgree'
  BY <1>1, <1>2, <1>4, PlacesMove
<1>9. \A x : /\ Written(x)' <=> Written(x) /\ ~(s # Packets!Loop /\ x = b)
             /\ Queued(x)' <=> Queued(x) /\ ~(s = Packets!Loop /\ x = b)
  <2>1. ASSUME NEW x PROVE Written(x)' <=> Written(x) /\ ~(s # Packets!Loop /\ x = b)
    <3>1. CASE s = Packets!Loop
      BY <1>4, <3>1, PacketBounds DEF Written, Busy, PacketSenders
    <3>2. CASE s \in Senders
      <4>1. \A t \in Senders : Busy(t)' <=> Busy(t) /\ t # s
        BY <1>4, <3>2 DEF Busy, PacketSenders
      <4>2. \A t \in Senders : t # s /\ Busy(t) => sender[t].packet # b
        BY <1>0, <1>2, <1>3, <3>2 DEF HeldOnce
      <4>3. \A t \in Senders : t # s => sender'[t] = sender[t]
        BY <1>4 DEF PacketSenders
      <4>4. s # Packets!Loop
        BY <3>2, PacketBounds
      <4>. QED BY <1>0, <3>2, <4>1, <4>2, <4>3, <4>4 DEF Written
    <3>. QED BY <3>1, <3>2 DEF PacketSenders
  <2>2. ASSUME NEW x PROVE Queued(x)' <=> Queued(x) /\ ~(s = Packets!Loop /\ x = b)
    <3>1. CASE s = Packets!Loop
      <4>1. ~Busy(Packets!Loop)' /\ Busy(Packets!Loop) /\ b = sender[Packets!Loop].packet
        BY <1>0, <1>3, <1>4, <3>1 DEF Busy
      <4>2. \A k \in 1..Len(queue) : queue[k] # b
        BY <1>2, <4>1 DEF HeldOnce
      <4>. QED BY <1>1, <3>1, <4>1, <4>2 DEF Queued
    <3>2. CASE s # Packets!Loop
      BY <1>1, <1>4, <3>2, PacketBounds DEF Queued, Busy
    <3>. QED BY <3>1, <3>2
  <2>. QED BY <2>1, <2>2
<1>10. s # Packets!Loop => Written(b)
  BY <1>0, <1>3 DEF Written, PacketSenders
<1>11. s = Packets!Loop => Queued(b)
  BY <1>0, <1>3 DEF Queued
<1>12. RefsCount'
  <2>1. pool'[b].refs = (IF Written(b)' THEN 1 ELSE 0) + (IF Queued(b)' THEN 1 ELSE 0)
    <3>1. pool[b].refs = (IF Written(b) THEN 1 ELSE 0) + (IF Queued(b) THEN 1 ELSE 0)
      BY <1>2, <1>3 DEF RefsCount
    <3>2. CASE s = Packets!Loop
      <4>1. (Written(b)' <=> Written(b)) /\ ~Queued(b)' /\ Queued(b)
        BY <1>9, <1>11, <3>2
      <4>. QED BY <1>6, <3>1, <4>1
    <3>3. CASE s # Packets!Loop
      <4>1. (Queued(b)' <=> Queued(b)) /\ ~Written(b)' /\ Written(b)
        BY <1>9, <1>10, <3>3
      <4>. QED BY <1>6, <3>1, <4>1
    <3>. QED BY <3>2, <3>3
  <2>2. ASSUME NEW x \in Buffers, x # b
        PROVE  pool'[x].refs = (IF Written(x)' THEN 1 ELSE 0) + (IF Queued(x)' THEN 1 ELSE 0)
    <3>1. (Written(x)' <=> Written(x)) /\ (Queued(x)' <=> Queued(x))
      BY <1>9, <2>2
    <3>2. pool'[x].refs = pool[x].refs
      BY <1>6, <2>2
    <3>. QED BY <1>2, <3>1, <3>2 DEF RefsCount
  <2>. QED BY <2>1, <2>2 DEF RefsCount
<1>13. HeldOnce'
  <2>1. \A t, u \in Senders : Busy(t)' /\ Busy(u)' /\ sender'[t].packet = sender'[u].packet => t = u
    BY <1>2, <1>4 DEF HeldOnce, Busy, PacketSenders
  <2>2. Busy(Packets!Loop)' => Busy(Packets!Loop) /\ sender'[Packets!Loop] = sender[Packets!Loop]
    BY <1>4, PacketBounds DEF Busy
  <2>3. \A t \in Senders : sender'[t].pc = "send" => sender[t] = sender'[t]
    BY <1>4 DEF PacketSenders
  <2>4. \A t \in Senders : transport' = "cached" /\ sender'[t].pc = "send" => ~Queued(sender[t].packet)'
    BY <1>1, <1>2, <1>9, <2>3 DEF HeldOnce
  <2>. QED BY <1>1, <1>2, <2>1, <2>2, <2>4 DEF HeldOnce
<1>14. InOrder' /\ WriteIndex' = WriteIndex /\ WriteCount' = WriteCount
  <2>1. \A x \in Buffers : Written(x)' \/ Queued(x)' => pool'[x].msg = pool[x].msg
    <3>1. ASSUME Written(b)' \/ Queued(b)' PROVE pool[b].refs = 2
      BY <1>5, <1>9, <1>10, <1>11, <3>1
    <3>. QED BY <1>6, <3>1
  <2>3. Sending(Packets!Loop)' <=> Sending(Packets!Loop)
    BY <1>1, <1>4, PacketBounds DEF Sending
  <2>4. ASSUME Sending(Packets!Loop) PROVE Message(Packets!Loop)' = Message(Packets!Loop)
    <3>1. s # Packets!Loop
      BY <1>1, <2>4 DEF Sending
    <3>2. sender'[Packets!Loop] = sender[Packets!Loop]
      BY <1>4, <3>1, PacketBounds
    <3>3. PICK c : c = sender[Packets!Loop].packet
      OBVIOUS
    <3>4. Busy(Packets!Loop)' /\ c \in Buffers
      BY <1>2, <2>4, <3>2, <3>3, PacketBounds DEF Sending, Busy, PlacesAgree
    <3>5. Queued(c)'
      BY <3>2, <3>3, <3>4 DEF Queued
    <3>. QED BY <2>1, <3>2, <3>3, <3>4, <3>5 DEF Message
  <2>5. ASSUME lock # Packets!None
        PROVE  sender'[lock].at = sender[lock].at /\ Message(lock)' = Message(lock)
    <3>1. lock \in PacketSenders /\ lock # s /\ Busy(lock)
      BY <1>1, <1>2, <2>5 DEF PacketTypes, PlacesAgree, Busy
    <3>2. PICK c : c = sender[lock].packet
      OBVIOUS
    <3>3. sender'[lock] = sender[lock] /\ c \in Buffers
      BY <1>2, <1>4, <3>1, <3>2 DEF PlacesAgree
    <3>4. Written(c)' \/ Queued(c)'
      <4>1. CASE lock = Packets!Loop
        BY <3>1, <3>2, <3>3, <4>1 DEF Queued, Busy
      <4>2. CASE lock \in Senders
        BY <3>1, <3>2, <3>3, <4>2 DEF Written, Busy
      <4>. QED BY <3>1, <4>1, <4>2 DEF PacketSenders
    <3>. QED BY <1>1, <2>1, <3>2, <3>3, <3>4 DEF Message
  <2>6. ASSUME NEW k \in 1..Len(queue) PROVE pool'[queue[k]].msg = pool[queue[k]].msg
    <3>1. PICK c : c = queue[k]
      OBVIOUS
    <3>2. c \in Buffers
      BY <1>2, <3>1 DEF PacketTypes
    <3>3. Queued(c)'
      BY <1>1, <3>1 DEF Queued
    <3>. QED BY <2>1, <3>1, <3>2, <3>3
  <2>. QED BY <1>1, <1>2, <2>3, <2>4, <2>5, <2>6, OrderStays
<1>15. PiecesFlow' /\ Packets!FramesWhole'
  BY <1>1, <1>2, <1>14, SameSent, FlowStays
<1>. QED BY <1>7, <1>8, <1>12, <1>13, <1>14, <1>15 DEF PacketInv


LEMMA QueueKeeps == ASSUME PacketInv, NEW s \in Senders, Packets!QueuePacket(s) PROVE PacketInv'
<1>1. /\ transport = "cached" /\ sender[s].pc = "send" /\ sender' = [sender EXCEPT ![s].pc = "put"]
      /\ UNCHANGED <<transport, lock, wire, rx, out, made>>
  BY DEF Packets!QueuePacket
<1>2. /\ PacketTypes /\ PlacesAgree /\ HeldOnce /\ RefsCount /\ InOrder /\ PiecesFlow
      /\ Packets!FramesWhole
  BY DEF PacketInv
<1>3. s \in PacketSenders /\ s # Packets!Loop /\ "put" \in PacketPlaces
  BY PacketBounds DEF PacketSenders, PacketPlaces
<1>4. /\ sender' \in [PacketSenders -> [pc : PacketPlaces, packet : Buffers \cup {Packets!None}, at : Nat]]
      /\ sender'[s].pc = "put" /\ sender'[s].packet = sender[s].packet /\ sender'[s].at = sender[s].at
      /\ \A t \in PacketSenders : t # s => sender'[t] = sender[t]
  BY <1>1, <1>2, <1>3, SenderMoves
<1>5. sender'[Packets!Loop] = sender[Packets!Loop]
  BY <1>3, <1>4, PacketBounds
<1>6. lock # Packets!None => lock \in PacketSenders /\ lock # s
  BY <1>1, <1>2, <1>3 DEF PacketTypes, PlacesAgree
<1>7. lock # Packets!None => sender'[lock] = sender[lock]
  BY <1>4, <1>6
<1>8. \A t \in PacketSenders :
        /\ sender'[t].packet = sender[t].packet /\ (Busy(t)' <=> Busy(t))
        /\ sender'[t].pc = "send" => sender[t].pc = "send" /\ t # s
  BY <1>1, <1>4 DEF Busy
<1>9. ASSUME UNCHANGED <<pool, queue, sent>> PROVE PacketInv'
  <2>1. PacketTypes'
    BY <1>1, <1>2, <1>4, <1>9 DEF PacketTypes
  <2>2. PlacesAgree'
    BY <1>1, <1>2, <1>3, <1>4, <1>9, PlacesMove
  <2>3. HeldOnce' /\ RefsCount'
    BY <1>1, <1>2, <1>8, <1>9, HoldersStay
  <2>4. InOrder' /\ WriteIndex' = WriteIndex /\ WriteCount' = WriteCount
    <3>1. Sending(Packets!Loop)' <=> Sending(Packets!Loop)
      BY <1>5 DEF Sending
    <3>2. Message(Packets!Loop)' = Message(Packets!Loop)
      BY <1>5, <1>9 DEF Message
    <3>3. lock # Packets!None => sender'[lock].at = sender[lock].at /\ Message(lock)' = Message(lock)
      BY <1>1, <1>7, <1>9 DEF Message
    <3>. QED BY <1>1, <1>2, <1>9, <3>1, <3>2, <3>3, OrderStays
  <2>5. PiecesFlow' /\ Packets!FramesWhole'
    BY <1>1, <1>2, <1>9, <2>4, SameSent, FlowStays
  <2>. QED BY <2>1, <2>2, <2>3, <2>4, <2>5 DEF PacketInv
<1>10. PICK b : b = sender[s].packet
  OBVIOUS
<1>11. PICK m : m = pool[b].msg
  OBVIOUS
<1>12. ASSUME Len(queue) < Cache, pool' = Packets!Ref(pool, b), queue' = Append(queue, b), sent' = Append(sent, m)
       PROVE  PacketInv'
  <2>1. Busy(s) /\ b \in Buffers /\ Written(b)
    BY <1>1, <1>2, <1>3, <1>10 DEF PlacesAgree, Busy, Written
  <2>2. m \in PacketMessages
    BY <1>2, <1>11, <2>1 DEF PacketTypes
  <2>3. /\ pool' \in [Buffers -> [refs : Nat, msg : PacketMessages]]
        /\ pool'[b].refs = pool[b].refs + 1 /\ pool'[b].msg = m
        /\ \A x \in Buffers : x # b => pool'[x] = pool[x]
    <3>1. pool \in [Buffers -> [refs : Nat, msg : PacketMessages]]
      BY <1>2 DEF PacketTypes
    <3>2. pool' = [pool EXCEPT ![b].refs = @ + 1]
      BY <1>12 DEF Packets!Ref
    <3>3. pool'[b].refs = pool[b].refs + 1 /\ pool'[b].msg = m
      BY <1>11, <2>1, <3>1, <3>2
    <3>4. \A x \in Buffers : x # b => pool'[x] = pool[x]
      BY <2>1, <3>1, <3>2
    <3>5. pool' \in [Buffers -> [refs : Nat, msg : PacketMessages]]
      BY <2>1, <3>1, <3>2
    <3>. QED BY <3>3, <3>4, <3>5
  <2>4. \A x \in Buffers : pool'[x].msg = pool[x].msg
    BY <1>11, <2>3
  <2>5. /\ queue' \in Seq(Buffers) /\ Len(queue') = Len(queue) + 1 /\ Len(queue) \in Nat
        /\ queue'[Len(queue) + 1] = b
        /\ \A k \in 1..Len(queue) : queue'[k] = queue[k] /\ queue[k] \in Buffers
    <3>1. queue \in Seq(Buffers)
      BY <1>2 DEF PacketTypes
    <3>2. \A k \in 1..Len(queue) : queue[k] \in Buffers
      BY <3>1
    <3>. QED BY <1>12, <2>1, <3>1, <3>2, AppendFacts
  <2>6. /\ sent' \in Seq(PacketMessages) /\ Len(sent') = Len(sent) + 1 /\ Len(sent) \in Nat
        /\ sent'[Len(sent) + 1] = m /\ \A k \in 1..Len(sent) : sent'[k] = sent[k]
    <3>1. sent \in Seq(PacketMessages)
      BY <1>2 DEF PacketTypes
    <3>. QED BY <1>12, <2>2, <3>1, AppendFacts
  <2>7. SentKept
    BY <2>6 DEF SentKept
  <2>8. PacketTypes'
    <3>1. Len(queue') <= Cache
      BY <1>12, <2>5, PacketBounds
    <3>. QED BY <1>1, <1>2, <1>4, <2>3, <2>5, <2>6, <3>1 DEF PacketTypes
  <2>9. PlacesAgree'
    <3>1. ASSUME NEW t \in PacketSenders
          PROVE  /\ Busy(t)' => sender'[t].packet \in Buffers
                 /\ sender'[t].pc = "pieces" <=> lock' = t
                 /\ sender'[t].pc = "send" => sender'[t].at = 0
      <4>1. CASE t = s
        BY <1>1, <1>2, <1>3, <1>4, <1>10, <2>1, <4>1 DEF PlacesAgree
      <4>2. CASE t # s
        BY <1>1, <1>2, <1>4, <3>1, <4>2 DEF PlacesAgree, Busy
      <4>. QED BY <4>1, <4>2
    <3>2. \A t \in Senders : sender'[t].pc # "pieces"
      BY <1>1, <1>2, <1>4 DEF PlacesAgree, PacketSenders
    <3>. QED BY <1>1, <3>1, <3>2 DEF PlacesAgree
  <2>10. ~Queued(b)
    BY <1>1, <1>2, <1>10 DEF HeldOnce
  <2>11. \A x : (Written(x)' <=> Written(x)) /\ (Queued(x)' <=> Queued(x) \/ x = b)
    <3>1. \A x : Written(x)' <=> Written(x)
      BY <1>8 DEF Written, PacketSenders
    <3>2. ASSUME NEW x PROVE Queued(x)' <=> Queued(x) \/ x = b
      <4>1. (\E k \in 1..Len(queue') : queue'[k] = x) <=> (\E k \in 1..Len(queue) : queue[k] = x) \/ x = b
        BY <2>5
      <4>2. Busy(Packets!Loop)' <=> Busy(Packets!Loop)
        BY <1>5 DEF Busy
      <4>. QED BY <1>5, <4>1, <4>2 DEF Queued
    <3>. QED BY <3>1, <3>2
  <2>12. RefsCount'
    <3>1. pool'[b].refs = (IF Written(b)' THEN 1 ELSE 0) + (IF Queued(b)' THEN 1 ELSE 0)
      BY <1>2, <2>1, <2>3, <2>10, <2>11 DEF RefsCount
    <3>2. ASSUME NEW x \in Buffers, x # b
          PROVE  pool'[x].refs = (IF Written(x)' THEN 1 ELSE 0) + (IF Queued(x)' THEN 1 ELSE 0)
      <4>1. (Written(x)' <=> Written(x)) /\ (Queued(x)' <=> Queued(x))
        BY <2>11, <3>2
      <4>2. pool'[x].refs = pool[x].refs
        BY <2>3, <3>2
      <4>. QED BY <1>2, <4>1, <4>2 DEF RefsCount
    <3>. QED BY <3>1, <3>2 DEF RefsCount
  <2>13. HeldOnce'
    <3>1. \A t, u \in Senders : Busy(t)' /\ Busy(u)' /\ sender'[t].packet = sender'[u].packet => t = u
      BY <1>2, <1>8 DEF HeldOnce, PacketSenders
    <3>2. \A k \in 1..Len(queue) : queue[k] # b
      BY <2>10 DEF Queued
    <3>3. \A k, l \in 1..Len(queue') : queue'[k] = queue'[l] => k = l
      BY <1>2, <2>5, <3>2 DEF HeldOnce
    <3>4. Busy(Packets!Loop)' => Busy(Packets!Loop) /\ sender'[Packets!Loop].packet # b
      BY <1>5, <2>10 DEF Busy, Queued
    <3>5. \A k \in 1..Len(queue') : Busy(Packets!Loop)' => queue'[k] # sender'[Packets!Loop].packet
      BY <1>2, <1>5, <2>5, <3>4 DEF HeldOnce
    <3>6. ASSUME NEW t \in Senders, sender'[t].pc = "send" PROVE ~Queued(sender[t].packet)'
      <4>1. PICK c : c = sender[t].packet /\ c = sender'[t].packet
        BY <1>8 DEF PacketSenders
      <4>2. sender[t].pc = "send" /\ t # s
        BY <1>8, <3>6 DEF PacketSenders
      <4>3. ~Queued(c)
        BY <1>1, <1>2, <4>1, <4>2 DEF HeldOnce
      <4>4. c # b
        BY <1>2, <1>10, <2>1, <4>1, <4>2 DEF HeldOnce, Busy
      <4>5. ~Queued(c)'
        BY <2>11, <4>3, <4>4
      <4>. QED BY <4>1, <4>5
    <3>. QED BY <3>1, <3>3, <3>5, <3>6 DEF HeldOnce
  <2>14. Passed' = Passed /\ Passed \in Nat /\ Passed + Len(queue) <= Len(sent)
         /\ (Sending(Packets!Loop)' <=> Sending(Packets!Loop))
         /\ (Sending(Packets!Loop) => Passed < Len(sent))
    <3>1. Sending(Packets!Loop)' <=> Sending(Packets!Loop)
      BY <1>5 DEF Sending
    <3>2. Passed \in Nat
      BY <1>2 DEF InOrder
    <3>3. PICK i \in {0, 1} : i = IF Sending(Packets!Loop) THEN 1 ELSE 0
      OBVIOUS
    <3>4. Passed = Len(sent) - Len(queue) - i /\ Passed' = Len(sent') - Len(queue') - i
      BY <1>1, <3>1, <3>3 DEF Passed
    <3>. QED BY <2>5, <2>6, <3>1, <3>2, <3>3, <3>4
  <2>15. InOrder'
    <3>1. ASSUME NEW k \in 1..Len(queue') PROVE pool'[queue'[k]].msg = sent'[Len(sent') - Len(queue') + k]
      <4>1. CASE k = Len(queue) + 1
        BY <2>3, <2>5, <2>6, <4>1
      <4>2. CASE k \in 1..Len(queue)
        <5>1. pool[queue[k]].msg = sent[Len(sent) - Len(queue) + k]
          BY <1>2, <4>2 DEF InOrder
        <5>2. Len(sent) - Len(queue) + k \in 1..Len(sent)
          BY <2>5, <2>6, <2>14, <4>2
        <5>3. Len(sent') - Len(queue') + k = Len(sent) - Len(queue) + k
          BY <2>5, <2>6, <4>2
        <5>. QED BY <2>4, <2>5, <2>6, <4>2, <5>1, <5>2, <5>3
      <4>. QED BY <2>5, <4>1, <4>2
    <3>2. Passed + 1 \in 1..Len(sent) => sent'[Passed + 1] = sent[Passed + 1]
      BY <2>6
    <3>3. ASSUME Sending(Packets!Loop)' PROVE Message(Packets!Loop)' = sent'[Passed' + 1]
      <4>1. Message(Packets!Loop) = sent[Passed + 1] /\ Passed + 1 \in 1..Len(sent)
        BY <1>2, <2>6, <2>14, <3>3 DEF InOrder
      <4>2. sender[Packets!Loop].packet \in Buffers
        BY <1>2, <2>14, <3>3, PacketBounds DEF PlacesAgree, Busy, Sending
      <4>3. Message(Packets!Loop)' = Message(Packets!Loop)
        BY <1>5, <2>4, <4>2 DEF Message
      <4>. QED BY <2>14, <3>2, <4>1, <4>3
    <3>4. ASSUME lock # Packets!None
          PROVE  /\ Passed' < Len(sent') /\ Message(lock)' = sent'[Passed' + 1]
                 /\ sender'[lock].at > 0 => sender'[lock].at - 1 < Message(lock)'.size
      <4>1. Message(lock) = sent[Passed + 1] /\ Passed < Len(sent)
        BY <1>2, <3>4 DEF InOrder
      <4>2. sender[lock].packet \in Buffers
        BY <1>2, <1>6, <3>4 DEF PlacesAgree, Busy
      <4>3. Message(lock)' = Message(lock)
        BY <1>1, <1>7, <2>4, <3>4, <4>2 DEF Message
      <4>4. Passed + 1 \in 1..Len(sent)
        BY <2>6, <2>14, <4>1
      <4>. QED BY <1>2, <1>7, <2>6, <2>14, <3>2, <3>4, <4>1, <4>3, <4>4 DEF InOrder
    <3>. QED BY <1>1, <2>14, <3>1, <3>3, <3>4 DEF InOrder
  <2>16. WriteIndex' = WriteIndex /\ WriteCount' = WriteCount
    BY <1>1, <1>7, <2>14 DEF WriteIndex, WriteCount, Partial
  <2>17. PiecesFlow' /\ Packets!FramesWhole'
    BY <1>1, <1>2, <2>7, <2>16, FlowStays
  <2>. QED BY <2>8, <2>9, <2>12, <2>13, <2>15, <2>17 DEF PacketInv
<1>13. IF Len(queue) < Cache
       THEN pool' = Packets!Ref(pool, b) /\ queue' = Append(queue, b) /\ sent' = Append(sent, m)
       ELSE UNCHANGED <<pool, queue, sent>>
  BY <1>10, <1>11 DEF Packets!QueuePacket, Packets!Content
<1>. QED BY <1>9, <1>12, <1>13


LEMMA TakeFromQueueKeeps == ASSUME PacketInv, Packets!TakeFromQueue PROVE PacketInv'
<1>1. PICK b : b = Head(queue)
  OBVIOUS
<1>2. /\ sender[Packets!Loop].pc = "idle" /\ queue # <<>> /\ queue' = Tail(queue)
      /\ sender' = [sender EXCEPT ![Packets!Loop] = [pc |-> "send", packet |-> b, at |-> 0]]
      /\ UNCHANGED <<transport, pool, lock, wire, rx, sent, out, made>>
  BY <1>1 DEF Packets!TakeFromQueue
<1>3. /\ PacketTypes /\ PlacesAgree /\ HeldOnce /\ RefsCount /\ InOrder /\ PiecesFlow
      /\ Packets!FramesWhole
  BY DEF PacketInv
<1>4. transport = "cached"
  BY <1>2, <1>3 DEF PlacesAgree
<1>5. /\ queue' \in Seq(Buffers) /\ Len(queue') = Len(queue) - 1 /\ Len(queue) \in Nat \ {0}
      /\ \A k \in 1..Len(queue') : queue'[k] = queue[k + 1]
      /\ b = queue[1] /\ b \in Buffers
  <2>1. queue \in Seq(Buffers)
    BY <1>3 DEF PacketTypes
  <2>. QED BY <1>1, <1>2, <2>1, TailFacts
<1>6. /\ sender'[Packets!Loop].pc = "send" /\ sender'[Packets!Loop].packet = b /\ sender'[Packets!Loop].at = 0
      /\ \A t \in PacketSenders : t # Packets!Loop => sender'[t] = sender[t]
      /\ sender' \in [PacketSenders -> [pc : PacketPlaces, packet : Buffers \cup {Packets!None}, at : Nat]]
  BY <1>2, <1>3, <1>5, PacketBounds DEF PacketTypes, PacketPlaces
<1>7. lock # Packets!Loop
  BY <1>2, <1>3, PacketBounds DEF PlacesAgree
<1>8. lock # Packets!None => lock \in PacketSenders /\ sender'[lock] = sender[lock]
  BY <1>3, <1>6, <1>7 DEF PacketTypes
<1>9. PacketTypes'
  <2>1. Len(queue') <= Cache
    BY <1>3, <1>5, PacketBounds DEF PacketTypes
  <2>. QED BY <1>2, <1>3, <1>5, <1>6, <2>1 DEF PacketTypes
<1>10. PlacesAgree'
  <2>1. ASSUME NEW t \in PacketSenders
        PROVE  /\ Busy(t)' => sender'[t].packet \in Buffers
               /\ sender'[t].pc = "pieces" <=> lock' = t
               /\ sender'[t].pc = "send" => sender'[t].at = 0
    BY <1>2, <1>3, <1>5, <1>6, <1>7, <2>1 DEF PlacesAgree, Busy
  <2>2. \A t \in Senders : sender'[t].pc # "pieces"
    BY <1>3, <1>4, <1>6, PacketBounds DEF PlacesAgree, PacketSenders
  <2>. QED BY <1>2, <1>4, <2>1, <2>2 DEF PlacesAgree
<1>11. \A t \in Senders : sender'[t] = sender[t]
  BY <1>6, PacketBounds DEF PacketSenders
<1>12. \A x : (Written(x)' <=> Written(x)) /\ (Queued(x)' <=> Queued(x))
  <2>1. \A x : Written(x)' <=> Written(x)
    BY <1>11 DEF Written, Busy
  <2>2. ASSUME NEW x PROVE Queued(x)' <=> Queued(x)
    <3>1. ~Busy(Packets!Loop) /\ Busy(Packets!Loop)'
      BY <1>2, <1>6 DEF Busy
    <3>2. (\E k \in 1..Len(queue) : queue[k] = x) <=> (\E k \in 1..Len(queue') : queue'[k] = x) \/ x = b
      <4>1. ASSUME NEW k \in 1..Len(queue), queue[k] = x PROVE (\E l \in 1..Len(queue') : queue'[l] = x) \/ x = b
        <5>1. CASE k = 1
          BY <1>5, <4>1, <5>1
        <5>2. CASE k # 1
          <6>1. k - 1 \in 1..Len(queue') /\ (k - 1) + 1 = k
            BY <1>5, <5>2
          <6>. QED BY <1>5, <4>1, <6>1
        <5>. QED BY <5>1, <5>2
      <4>2. ASSUME NEW k \in 1..Len(queue'), queue'[k] = x PROVE \E l \in 1..Len(queue) : queue[l] = x
        BY <1>5, <4>2
      <4>3. 1 \in 1..Len(queue)
        BY <1>5
      <4>. QED BY <1>5, <4>1, <4>2, <4>3
    <3>. QED BY <1>6, <3>1, <3>2 DEF Queued
  <2>. QED BY <2>1, <2>2
<1>13. RefsCount'
  BY <1>2, <1>3, <1>12 DEF RefsCount
<1>14. HeldOnce'
  <2>1. \A t, u \in Senders : Busy(t)' /\ Busy(u)' /\ sender'[t].packet = sender'[u].packet => t = u
    BY <1>3, <1>11 DEF HeldOnce, Busy
  <2>2. ASSUME NEW k \in 1..Len(queue'), NEW l \in 1..Len(queue'), queue'[k] = queue'[l] PROVE k = l
    <3>1. k + 1 \in 1..Len(queue) /\ l + 1 \in 1..Len(queue) /\ queue[k + 1] = queue[l + 1]
      BY <1>5, <2>2
    <3>2. k + 1 = l + 1
      BY <1>3, <3>1 DEF HeldOnce
    <3>. QED BY <3>2
  <2>3. ASSUME NEW k \in 1..Len(queue') PROVE queue'[k] # b
    <3>1. k + 1 \in 1..Len(queue) /\ 1 \in 1..Len(queue) /\ k + 1 # 1
      BY <1>5, <2>3
    <3>2. queue[k + 1] # queue[1]
      BY <1>3, <3>1 DEF HeldOnce
    <3>. QED BY <1>5, <3>2
  <2>4. \A t \in Senders : transport' = "cached" /\ sender'[t].pc = "send" => ~Queued(sender[t].packet)'
    <3>1. ASSUME NEW t \in Senders, sender'[t].pc = "send" PROVE ~Queued(sender[t].packet)'
      <4>1. PICK c : c = sender[t].packet /\ c = sender'[t].packet
        BY <1>11
      <4>2. ~Queued(c)
        BY <1>3, <1>4, <1>11, <3>1, <4>1 DEF HeldOnce
      <4>3. ~Queued(c)'
        BY <1>12, <4>2
      <4>. QED BY <4>1, <4>3
    <3>. QED BY <3>1
  <2>. QED BY <1>6, <2>1, <2>2, <2>3, <2>4 DEF HeldOnce
<1>15. Passed' = Passed /\ Passed = Len(sent) - Len(queue) /\ Len(sent) \in Nat /\ Passed \in Nat
  <2>1. ~Sending(Packets!Loop) /\ Sending(Packets!Loop)'
    BY <1>2, <1>6 DEF Sending
  <2>2. Len(sent) \in Nat /\ Passed \in Nat
    BY <1>3 DEF PacketTypes, InOrder
  <2>3. Passed = Len(sent) - Len(queue) - 0 /\ Passed' = Len(sent) - Len(queue') - 1
    BY <1>2, <1>4, <2>1 DEF Passed
  <2>. QED BY <1>5, <2>2, <2>3
<1>16. InOrder'
  <2>1. ASSUME NEW k \in 1..Len(queue') PROVE pool'[queue'[k]].msg = sent'[Len(sent') - Len(queue') + k]
    <3>1. k + 1 \in 1..Len(queue) /\ queue'[k] = queue[k + 1]
      BY <1>5, <2>1
    <3>2. pool[queue[k + 1]].msg = sent[Len(sent) - Len(queue) + (k + 1)]
      BY <1>3, <3>1 DEF InOrder
    <3>3. Len(sent) - Len(queue) + (k + 1) = Len(sent) - Len(queue') + k
      BY <1>5, <1>15, <2>1
    <3>. QED BY <1>2, <3>1, <3>2, <3>3
  <2>2. Message(Packets!Loop)' = sent[Passed + 1]
    <3>1. 1 \in 1..Len(queue)
      BY <1>5
    <3>2. pool[queue[1]].msg = sent[Len(sent) - Len(queue) + 1]
      BY <1>3, <3>1 DEF InOrder
    <3>. QED BY <1>2, <1>5, <1>6, <1>15, <3>2 DEF Message
  <2>3. lock # Packets!None => Message(lock)' = Message(lock)
    BY <1>2, <1>8 DEF Message
  <2>. QED BY <1>2, <1>3, <1>8, <1>15, <2>1, <2>2, <2>3 DEF InOrder
<1>17. WriteIndex' = WriteIndex /\ WriteCount' = WriteCount
  BY <1>2, <1>8, <1>15 DEF WriteIndex, WriteCount, Partial
<1>18. PiecesFlow' /\ Packets!FramesWhole'
  BY <1>2, <1>3, <1>17, SameSent, FlowStays
<1>. QED BY <1>9, <1>10, <1>13, <1>14, <1>16, <1>18 DEF PacketInv

LEMMA LockKeeps == ASSUME PacketInv, NEW s \in PacketSenders, Packets!TakeLock(s) PROVE PacketInv'
<1>1. PICK m : m = pool[sender[s].packet].msg
  OBVIOUS
<1>2. /\ s = Packets!Loop \/ transport # "cached"
      /\ sender[s].pc = "send" /\ lock = Packets!None /\ lock' = s
      /\ sent' = IF s = Packets!Loop THEN sent ELSE Append(sent, m)
      /\ sender' = [sender EXCEPT ![s].pc = "pieces"]
      /\ UNCHANGED <<transport, pool, queue, wire, rx, out, made>>
  BY <1>1 DEF Packets!TakeLock, Packets!Direct, Packets!Content
<1>3. /\ PacketTypes /\ PlacesAgree /\ HeldOnce /\ RefsCount /\ InOrder /\ PiecesFlow
      /\ Packets!FramesWhole
  BY DEF PacketInv
<1>4. /\ sender' \in [PacketSenders -> [pc : PacketPlaces, packet : Buffers \cup {Packets!None}, at : Nat]]
      /\ sender'[s].pc = "pieces" /\ sender'[s].packet = sender[s].packet /\ sender'[s].at = sender[s].at
      /\ \A t \in PacketSenders : t # s => sender'[t] = sender[t]
  <2>1. "pieces" \in PacketPlaces
    BY DEF PacketPlaces
  <2>. QED BY <1>2, <1>3, <2>1, SenderMoves
<1>5. sender[s].packet \in Buffers /\ sender[s].at = 0 /\ Busy(s)
  BY <1>2, <1>3 DEF PlacesAgree, Busy
<1>6. m \in PacketMessages
  BY <1>1, <1>3, <1>5 DEF PacketTypes
<1>7. SentKept
  <2>1. sent \in Seq(PacketMessages)
    BY <1>3 DEF PacketTypes
  <2>2. sent' = sent \/ sent' = Append(sent, m)
    BY <1>2
  <2>. QED BY <1>6, <2>1, <2>2, AppendFacts DEF SentKept
<1>8. PacketTypes'
  <2>1. lock' \in PacketSenders
    BY <1>2
  <2>. QED BY <1>2, <1>3, <1>4, <1>7, <2>1 DEF PacketTypes, SentKept
<1>9. \A t \in PacketSenders :
        /\ sender'[t].packet = sender[t].packet /\ (Busy(t)' <=> Busy(t))
        /\ sender'[t].pc = "send" => sender[t].pc = "send"
  BY <1>2, <1>4 DEF Busy
<1>10. PlacesAgree'
  <2>1. \A t \in PacketSenders : t # Packets!None
    BY PacketBounds
  <2>2. ASSUME NEW t \in PacketSenders
        PROVE  /\ Busy(t)' => sender'[t].packet \in Buffers
               /\ sender'[t].pc = "pieces" <=> lock' = t
               /\ sender'[t].pc = "send" => sender'[t].at = 0
    <3>1. CASE t = s
      BY <1>2, <1>4, <1>5, <3>1
    <3>2. CASE t # s
      BY <1>2, <1>3, <1>4, <2>1, <2>2, <3>2 DEF PlacesAgree, Busy
    <3>. QED BY <3>1, <3>2
  <2>3. Busy(Packets!Loop)' <=> Busy(Packets!Loop)
    BY <1>9, PacketBounds
  <2>4. transport = "cached" => \A t \in Senders : sender'[t].pc # "pieces"
    BY <1>2, <1>3, <1>4, PacketBounds DEF PlacesAgree, PacketSenders
  <2>. QED BY <1>2, <1>3, <2>2, <2>3, <2>4 DEF PlacesAgree
<1>11. HeldOnce' /\ RefsCount'
  BY <1>2, <1>3, <1>9, HoldersStay
<1>12. Len(sent) \in Nat /\ Len(queue) \in Nat /\ Passed \in Nat
  BY <1>3 DEF PacketTypes, InOrder
<1>13. Message(s)' = m
  BY <1>1, <1>2, <1>4 DEF Message
<1>14. Passed' = Passed /\ Passed < Len(sent') /\ m = sent'[Passed + 1] /\ InOrder'
  <2>1. CASE s = Packets!Loop
    <3>1. transport = "cached" /\ sent' = sent
      BY <1>2, <1>3, <1>5, <2>1 DEF PlacesAgree
    <3>2. Sending(Packets!Loop) /\ Sending(Packets!Loop)'
      BY <1>2, <1>4, <2>1 DEF Sending
    <3>3. Passed = Len(sent) - Len(queue) - 1 /\ Passed' = Len(sent) - Len(queue) - 1
      BY <1>2, <3>1, <3>2 DEF Passed
    <3>4. Passed' = Passed /\ Passed < Len(sent')
      BY <1>12, <3>1, <3>3
    <3>5. m = sent[Passed + 1]
      BY <1>1, <1>3, <2>1, <3>2 DEF InOrder, Message
    <3>6. InOrder'
      BY <1>2, <1>3, <1>4, <1>5, <1>13, <2>1, <3>1, <3>4, <3>5 DEF InOrder
    <3>. QED BY <3>1, <3>4, <3>5, <3>6
  <2>2. CASE s # Packets!Loop
    <3>1. transport # "cached" /\ sent' = Append(sent, m)
      BY <1>2, <2>2
    <3>2. Len(sent') = Len(sent) + 1 /\ sent'[Len(sent) + 1] = m
      <4>1. sent \in Seq(PacketMessages)
        BY <1>3 DEF PacketTypes
      <4>. QED BY <1>6, <3>1, <4>1, AppendFacts
    <3>3. Passed = Len(sent) - 0 /\ Passed' = Len(sent') - 1
      <4>1. s # Packets!None
        BY PacketBounds
      <4>. QED BY <1>2, <3>1, <4>1 DEF Passed
    <3>4. Passed = Len(sent) /\ Passed' = Passed /\ Passed < Len(sent') /\ m = sent'[Passed + 1]
      BY <1>12, <3>2, <3>3
    <3>5. queue = <<>> /\ ~Busy(Packets!Loop)
      BY <1>3, <3>1 DEF PlacesAgree
    <3>6. ~Sending(Packets!Loop)'
      BY <1>4, <2>2, <3>5, PacketBounds DEF Sending, Busy
    <3>7. Len(queue') = 0
      BY <1>2, <3>5
    <3>8. \A k \in 1..Len(queue') : FALSE
      BY <3>7
    <3>9. InOrder'
      BY <1>2, <1>4, <1>5, <1>12, <1>13, <3>4, <3>6, <3>8 DEF InOrder
    <3>. QED BY <3>4, <3>9
  <2>. QED BY <2>1, <2>2
<1>15. WriteIndex' = WriteIndex /\ WriteCount' = WriteCount
  <2>1. ~Partial /\ ~Partial'
    BY <1>2, <1>4, <1>5 DEF Partial
  <2>. QED BY <1>14, <2>1 DEF WriteIndex, WriteCount
<1>16. PiecesFlow' /\ Packets!FramesWhole'
  BY <1>2, <1>3, <1>7, <1>15, FlowStays
<1>. QED BY <1>8, <1>10, <1>11, <1>14, <1>16 DEF PacketInv


(* A piece more on its way, a step further for the sender. *)
LEMMA FlowGrows ==
  ASSUME PacketTypes, PiecesFlow, UNCHANGED <<rx, out, sent>>,
         NEW p \in [msg : Nat, length : Int, n : Nat], wire' = Append(wire, p),
         WriteIndex \in Nat, WriteCount \in Int, WriteIndex' \in Nat, WriteCount' \in Int,
         After(WriteIndex, WriteCount, p, WriteIndex', WriteCount')
  PROVE  PiecesFlow'
<1>1. /\ wire' \in Seq([msg : Nat, length : Int, n : Nat]) /\ Len(wire') = Len(wire) + 1 /\ Len(wire) \in Nat
      /\ \A k \in 1..Len(wire) : wire'[k] = wire[k]
      /\ wire'[Len(wire) + 1] = p
  <2>1. wire \in Seq([msg : Nat, length : Int, n : Nat])
    BY DEF PacketTypes
  <2>. QED BY <2>1, AppendFacts
<1>2. Reading => Reading'
  BY DEF Reading
<1>3. PICK j \in Nat, d \in Int : j = WriteIndex' /\ d = WriteCount'
  OBVIOUS
<1>4. ASSUME NEW f, NEW g, Flows(f, g) PROVE \E h, i : Flows(h, i)'
  <2>1. PICK h : h = [k \in 0..Len(wire) + 1 |-> IF k <= Len(wire) THEN f[k] ELSE j]
    OBVIOUS
  <2>2. PICK i : i = [k \in 0..Len(wire) + 1 |-> IF k <= Len(wire) THEN g[k] ELSE d]
    OBVIOUS
  <2>3. f \in [0..Len(wire) -> Nat] /\ g \in [0..Len(wire) -> Int]
    BY <1>4 DEF Flows
  <2>4. h \in [0..Len(wire') -> Nat] /\ i \in [0..Len(wire') -> Int]
    BY <1>1, <2>1, <2>2, <2>3
  <2>5. \A k \in 0..Len(wire) : h[k] = f[k] /\ i[k] = g[k]
    BY <1>1, <2>1, <2>2
  <2>6. h[0] = ReadIndex' /\ i[0] = ReadCount'
    BY <1>1, <1>4, <2>5 DEF Flows, ReadIndex, ReadCount
  <2>7. h[Len(wire')] = WriteIndex' /\ i[Len(wire')] = WriteCount'
    BY <1>1, <1>3, <2>1, <2>2
  <2>8. ASSUME NEW k \in 1..Len(wire') PROVE After(h[k - 1], i[k - 1], wire[k], h[k], i[k])'
    <3>1. CASE k \in 1..Len(wire)
      <4>1. After(f[k - 1], g[k - 1], wire[k], f[k], g[k])
        BY <1>4, <3>1 DEF Flows
      <4>2. h[k - 1] = f[k - 1] /\ h[k] = f[k] /\ i[k - 1] = g[k - 1] /\ i[k] = g[k]
        <5>0. Len(wire) \in Nat
          BY <1>1
        <5>1. k - 1 \in 0..Len(wire) /\ k \in 0..Len(wire)
          BY <3>1, <5>0
        <5>. QED BY <2>5, <5>1
      <4>. QED BY <1>1, <3>1, <4>1, <4>2 DEF After
    <3>2. CASE k = Len(wire) + 1
      <4>1. h[k - 1] = WriteIndex /\ i[k - 1] = WriteCount /\ h[k] = j /\ i[k] = d /\ wire'[k] = p
        BY <1>1, <1>4, <2>1, <2>2, <2>5, <3>2 DEF Flows
      <4>2. After(WriteIndex, WriteCount, p, j, d)
        BY <1>3
      <4>. QED BY <4>1, <4>2 DEF After
    <3>3. k \in 1..Len(wire) \/ k = Len(wire) + 1
      BY <1>1
    <3>. QED BY <3>1, <3>2, <3>3
  <2>9. Flows(h, i)'
    BY <2>4, <2>6, <2>7, <2>8 DEF Flows
  <2>. QED BY <2>9
<1>. QED BY <1>2, <1>4 DEF PiecesFlow

LEMMA Pieces ==
  ASSUME NEW at \in Nat, NEW size \in Nat, NEW room \in Nat, at > 0 => at - 1 < size
  PROVE  LET done == IF at = 0 THEN 0 ELSE at - 1
             n == Packets!Least(room, size - done)
         IN done \in Nat /\ n \in Nat /\ done + n \in Nat /\ done + n <= size /\ n <= size
  BY DEF Packets!Least

LEMMA SendKeeps == ASSUME PacketInv, NEW s \in PacketSenders, Packets!SendPiece(s) PROVE PacketInv'
<1>1. PICK m : m = pool[sender[s].packet].msg
  OBVIOUS
<1>2. PICK at : at = sender[s].at
  OBVIOUS
<1>3. PICK done : done = IF at = 0 THEN 0 ELSE at - 1
  OBVIOUS
<1>4. PICK n : n = Packets!Least(Packets!Room(s), m.size - done)
  OBVIOUS
<1>5. PICK p : p = [msg |-> m.id, length |-> IF at = 0 THEN m.size ELSE -1, n |-> n]
  OBVIOUS
<1>6. /\ sender[s].pc = "pieces" /\ wire' = Append(wire, p)
      /\ IF done + n = m.size
         THEN lock' = Packets!None /\ sender' = [sender EXCEPT ![s].pc = "put"]
         ELSE UNCHANGED lock /\ sender' = [sender EXCEPT ![s].at = done + n + 1]
      /\ UNCHANGED <<transport, pool, queue, rx, sent, out, made>>
  BY <1>1, <1>2, <1>3, <1>4, <1>5 DEF Packets!SendPiece, Packets!Content
<1>7. /\ PacketTypes /\ PlacesAgree /\ HeldOnce /\ RefsCount /\ InOrder /\ PiecesFlow
      /\ Packets!FramesWhole
  BY DEF PacketInv
<1>8. lock = s /\ lock # Packets!None /\ Busy(s) /\ sender[s].packet \in Buffers
  BY <1>6, <1>7, PacketBounds DEF PlacesAgree, Busy
<1>9. m \in PacketMessages /\ at \in Nat
  BY <1>1, <1>2, <1>7, <1>8 DEF PacketTypes
<1>10. Passed \in Nat /\ Passed < Len(sent) /\ m = sent[Passed + 1] /\ (at > 0 => at - 1 < m.size) /\ Len(sent) \in Nat
  <2>1. Len(sent) \in Nat
    BY <1>7 DEF PacketTypes
  <2>. QED BY <1>1, <1>2, <1>7, <1>8, <2>1 DEF InOrder, Message
<1>11. m.size \in Nat /\ m.id \in Nat
  BY <1>9 DEF PacketMessages
<1>12. Packets!Room(s) \in Nat
  BY PacketBounds DEF Packets!Room
<1>13. done \in Nat /\ n \in Nat /\ done + n \in Nat /\ done + n <= m.size /\ n <= m.size
  BY <1>3, <1>4, <1>9, <1>10, <1>11, <1>12, Pieces
<1>14. p \in [msg : Nat, length : Int, n : Nat]
  BY <1>5, <1>11, <1>13
<1>15. wire' \in Seq([msg : Nat, length : Int, n : Nat])
  BY <1>6, <1>7, <1>14 DEF PacketTypes
<1>16. /\ sender' \in [PacketSenders -> [pc : PacketPlaces, packet : Buffers \cup {Packets!None}, at : Nat]]
       /\ sender'[s].packet = sender[s].packet
       /\ \A t \in PacketSenders : t # s => sender'[t] = sender[t]
       /\ IF done + n = m.size THEN sender'[s].pc = "put" /\ sender'[s].at = at
          ELSE sender'[s].pc = "pieces" /\ sender'[s].at = done + n + 1
  <2>1. CASE done + n = m.size
    <3>1. "put" \in PacketPlaces /\ sender' = [sender EXCEPT ![s].pc = "put"]
      BY <1>6, <2>1 DEF PacketPlaces
    <3>2. /\ sender' \in [PacketSenders -> [pc : PacketPlaces, packet : Buffers \cup {Packets!None}, at : Nat]]
          /\ sender'[s].pc = "put" /\ sender'[s].packet = sender[s].packet /\ sender'[s].at = sender[s].at
          /\ \A t \in PacketSenders : t # s => sender'[t] = sender[t]
      BY <1>7, <3>1, SenderMoves
    <3>. QED BY <1>2, <2>1, <3>2
  <2>2. CASE done + n # m.size
    <3>1. PICK c \in Nat : c = done + n + 1
      BY <1>13
    <3>2. sender' = [sender EXCEPT ![s].at = c]
      BY <1>6, <2>2, <3>1
    <3>3. sender \in [PacketSenders -> [pc : PacketPlaces, packet : Buffers \cup {Packets!None}, at : Nat]]
      BY <1>7 DEF PacketTypes
    <3>4. /\ sender'[s].packet = sender[s].packet /\ sender'[s].pc = "pieces" /\ sender'[s].at = c
          /\ \A t \in PacketSenders : t # s => sender'[t] = sender[t]
      BY <1>6, <3>2, <3>3
    <3>5. sender' \in [PacketSenders -> [pc : PacketPlaces, packet : Buffers \cup {Packets!None}, at : Nat]]
      BY <3>2, <3>3
    <3>. QED BY <2>2, <3>1, <3>4, <3>5
  <2>. QED BY <2>1, <2>2
<1>17. lock' = IF done + n = m.size THEN Packets!None ELSE s
  BY <1>6, <1>8
<1>18. PacketTypes'
  BY <1>6, <1>7, <1>15, <1>16, <1>17 DEF PacketTypes
<1>19. \A t \in PacketSenders :
         /\ sender'[t].packet = sender[t].packet /\ (Busy(t)' <=> Busy(t))
         /\ sender'[t].pc = "send" => sender[t].pc = "send"
  BY <1>6, <1>16 DEF Busy
<1>20. PlacesAgree'
  <2>1. ASSUME NEW t \in PacketSenders
        PROVE  /\ Busy(t)' => sender'[t].packet \in Buffers
               /\ sender'[t].pc = "pieces" <=> lock' = t
               /\ sender'[t].pc = "send" => sender'[t].at = 0
    <3>1. CASE t = s
      BY <1>8, <1>16, <1>17, <3>1, PacketBounds
    <3>2. CASE t # s
      BY <1>7, <1>8, <1>16, <1>17, <2>1, <3>2, PacketBounds DEF PlacesAgree, Busy
    <3>. QED BY <3>1, <3>2
  <2>2. Busy(Packets!Loop)' <=> Busy(Packets!Loop)
    BY <1>19, PacketBounds
  <2>3. ASSUME transport = "cached", NEW t \in Senders PROVE sender'[t].pc # "pieces"
    <3>1. t # s /\ t \in PacketSenders
      BY <1>6, <1>7, <2>3 DEF PlacesAgree, PacketSenders
    <3>. QED BY <1>7, <1>16, <2>3, <3>1 DEF PlacesAgree
  <2>. QED BY <1>6, <1>7, <2>1, <2>2, <2>3 DEF PlacesAgree
<1>21. HeldOnce' /\ RefsCount'
  BY <1>6, <1>7, <1>19, HoldersStay
<1>22. transport = "cached" <=> s = Packets!Loop
  BY <1>6, <1>7, <1>8 DEF PlacesAgree, PacketSenders
<1>23. Len(queue) \in Nat
  BY <1>7 DEF PacketTypes
<1>24. Passed' = IF done + n = m.size THEN Passed + 1 ELSE Passed
  <2>1. CASE transport = "cached"
    <3>1. Sending(Packets!Loop) /\ (Sending(Packets!Loop)' <=> done + n # m.size)
      BY <1>6, <1>16, <1>22, <2>1 DEF Sending
    <3>2. Passed = Len(sent) - Len(queue) - 1
      BY <2>1, <3>1 DEF Passed
    <3>3. CASE done + n = m.size
      <4>1. Passed' = Len(sent) - Len(queue) - 0
        BY <1>6, <2>1, <3>1, <3>3 DEF Passed
      <4>. QED BY <1>10, <1>23, <3>2, <3>3, <4>1
    <3>4. CASE done + n # m.size
      <4>1. Passed' = Len(sent) - Len(queue) - 1
        BY <1>6, <2>1, <3>1, <3>4 DEF Passed
      <4>. QED BY <3>2, <3>4, <4>1
    <3>. QED BY <3>3, <3>4
  <2>2. CASE transport # "cached"
    <3>1. Passed = Len(sent) - 1
      BY <1>8, <2>2 DEF Passed
    <3>2. CASE done + n = m.size
      <4>1. Passed' = Len(sent) - 0
        BY <1>6, <1>17, <2>2, <3>2 DEF Passed
      <4>. QED BY <1>10, <3>1, <3>2, <4>1
    <3>3. CASE done + n # m.size
      <4>1. Passed' = Len(sent) - 1
        BY <1>6, <1>8, <1>17, <2>2, <3>3 DEF Passed
      <4>. QED BY <3>1, <3>3, <4>1
    <3>. QED BY <3>2, <3>3
  <2>. QED BY <2>1, <2>2
<1>25. InOrder'
  <2>1. \A k \in 1..Len(queue') : pool'[queue'[k]].msg = sent'[Len(sent') - Len(queue') + k]
    BY <1>6, <1>7 DEF InOrder
  <2>2. ASSUME Sending(Packets!Loop)' PROVE Message(Packets!Loop)' = sent'[Passed' + 1]
    <3>1. Busy(Packets!Loop)
      BY <1>19, <2>2, PacketBounds DEF Sending, Busy
    <3>2. s = Packets!Loop
      BY <1>7, <1>22, <3>1 DEF PlacesAgree
    <3>3. done + n # m.size
      BY <1>16, <2>2, <3>2 DEF Sending
    <3>. QED BY <1>1, <1>6, <1>10, <1>16, <1>24, <3>2, <3>3 DEF Message
  <2>3. ASSUME lock' # Packets!None
        PROVE  /\ Passed' < Len(sent') /\ Message(lock)' = sent'[Passed' + 1]
               /\ sender'[lock'].at > 0 => sender'[lock'].at - 1 < Message(lock)'.size
    <3>1. done + n # m.size /\ lock' = s
      BY <1>17, <2>3
    <3>2. Message(lock)' = m /\ sender'[lock'].at = done + n + 1
      BY <1>1, <1>6, <1>16, <3>1 DEF Message
    <3>3. (done + n + 1) - 1 < m.size
      BY <1>11, <1>13, <3>1
    <3>. QED BY <1>6, <1>10, <1>24, <3>1, <3>2, <3>3
  <2>4. Passed' \in Nat
    BY <1>10, <1>24
  <2>. QED BY <2>1, <2>2, <2>3, <2>4 DEF InOrder
<1>26. /\ WriteIndex = IF at = 0 THEN Passed ELSE Passed + 1
       /\ WriteCount = IF at = 0 THEN -1 ELSE done
  BY <1>2, <1>3, <1>8, <1>9 DEF WriteIndex, WriteCount, Partial
<1>27. /\ WriteIndex' = Passed + 1
       /\ WriteCount' = IF done + n = m.size THEN -1 ELSE done + n
  <2>1. CASE done + n = m.size
    BY <1>17, <1>24, <2>1 DEF WriteIndex, WriteCount, Partial
  <2>2. CASE done + n # m.size
    <3>1. lock' = s /\ lock' # Packets!None /\ sender'[lock'].at = done + n + 1 /\ Passed' = Passed
      BY <1>8, <1>16, <1>17, <1>24, <2>2
    <3>2. Partial' /\ (done + n + 1) - 1 = done + n
      BY <1>13, <3>1 DEF Partial
    <3>. QED BY <2>2, <3>1, <3>2 DEF WriteIndex, WriteCount
  <2>. QED BY <2>1, <2>2
<1>28. After(WriteIndex, WriteCount, p, WriteIndex', WriteCount')
  <2>1. p.msg = m.id /\ p.n = n /\ p.length = IF at = 0 THEN m.size ELSE -1
    BY <1>5
  <2>2. Passed + 1 \in 1..Len(sent)
    BY <1>10
  <2>3. CASE at = 0
    <3>1. done = 0 /\ WriteIndex = Passed /\ WriteCount = -1 /\ p.length = m.size
      BY <1>3, <1>26, <2>1, <2>3
    <3>2. WriteCount' = IF n = m.size THEN -1 ELSE n
      BY <1>13, <1>27, <3>1
    <3>. QED BY <1>10, <1>13, <1>27, <2>1, <2>2, <3>1, <3>2 DEF After
  <2>4. CASE at # 0
    <3>1. WriteIndex = Passed + 1 /\ WriteCount = done /\ p.length = -1 /\ done # -1
      BY <1>13, <1>26, <2>1, <2>4
    <3>. QED BY <1>10, <1>13, <1>27, <2>1, <2>2, <3>1 DEF After
  <2>. QED BY <2>3, <2>4
<1>29. WriteIndex \in Nat /\ WriteCount \in Int /\ WriteIndex' \in Nat /\ WriteCount' \in Int
  BY <1>10, <1>13, <1>26, <1>27
<1>30. PiecesFlow'
  BY <1>6, <1>7, <1>14, <1>28, <1>29, FlowGrows
<1>31. Packets!FramesWhole'
  BY <1>6, <1>7 DEF Packets!FramesWhole
<1>. QED BY <1>18, <1>20, <1>21, <1>25, <1>30, <1>31 DEF PacketInv


LEMMA ReceiveKeeps == ASSUME PacketInv, Packets!Receive PROVE PacketInv'
<1>1. PICK p : p = Head(wire)
  OBVIOUS
<1>2. PICK r : r = IF rx.length = -1 THEN [length |-> p.length, received |-> p.n, of |-> {p.msg}]
                   ELSE [rx EXCEPT !.received = @ + p.n, !.of = @ \cup {p.msg}]
  OBVIOUS
<1>3. /\ wire # <<>> /\ rx # Packets!Ended /\ wire' = Tail(wire)
      /\ IF r.length > Largest THEN UNCHANGED out /\ rx' = Packets!Ended
         ELSE IF r.received = r.length
         THEN out' = Append(out, [of |-> r.of, size |-> r.length]) /\ rx' = Packets!NoFrame
         ELSE UNCHANGED out /\ rx' = IF r.received > r.length THEN Packets!NoFrame ELSE r
      /\ UNCHANGED <<transport, pool, sender, queue, lock, sent, made>>
  BY <1>1, <1>2 DEF Packets!Receive
<1>4. /\ PacketTypes /\ PlacesAgree /\ HeldOnce /\ RefsCount /\ InOrder /\ PiecesFlow
      /\ Packets!FramesWhole
  BY DEF PacketInv
<1>5. /\ wire' \in Seq([msg : Nat, length : Int, n : Nat]) /\ Len(wire') = Len(wire) - 1
      /\ Len(wire) \in Nat \ {0}
      /\ \A k \in 1..Len(wire') : wire'[k] = wire[k + 1]
      /\ p = wire[1] /\ p \in [msg : Nat, length : Int, n : Nat]
  <2>1. wire \in Seq([msg : Nat, length : Int, n : Nat])
    BY <1>4 DEF PacketTypes
  <2>. QED BY <1>1, <1>3, <2>1, TailFacts
<1>6. PICK f, g : Flows(f, g)
  BY <1>3, <1>4 DEF PiecesFlow
<1>7. Reading
  BY <1>3, <1>4 DEF PiecesFlow
<1>8. /\ Len(out) \in Nat /\ Len(sent) \in Nat /\ rx \in [length : Int, received : Nat, of : SUBSET Nat]
      /\ \A k \in 1..Len(sent) : sent[k] \in PacketMessages
  BY <1>4 DEF PacketTypes
<1>9. PICK j \in Nat : j = Len(out) + 1
  BY <1>8
<1>10. After(f[0], g[0], p, f[1], g[1]) /\ f[0] = ReadIndex /\ g[0] = ReadCount
  <2>1. 1 \in 1..Len(wire) /\ 1 - 1 = 0
    BY <1>5
  <2>2. After(f[1 - 1], g[1 - 1], wire[1], f[1], g[1])
    BY <1>6, <2>1 DEF Flows
  <2>. QED BY <1>5, <1>6, <2>1, <2>2 DEF Flows
<1>11. /\ j \in 1..Len(sent) /\ f[1] = j
       /\ r \in [length : Int, received : Nat, of : SUBSET Nat]
       /\ r.length = sent[j].size /\ r.of = {sent[j].id} /\ r.received <= r.length
       /\ g[1] = IF r.received = r.length THEN -1 ELSE r.received
  <2>1. CASE rx.length = -1
    <3>1. r.length = p.length /\ r.received = p.n /\ r.of = {p.msg}
          /\ r \in [length : Int, received : Nat, of : SUBSET Nat]
      BY <1>2, <1>5, <2>1
    <3>2. f[0] = Len(out) /\ g[0] = -1
      BY <1>10, <2>1 DEF ReadIndex, ReadCount
    <3>3. /\ f[1] = j /\ j \in 1..Len(sent) /\ p.msg = sent[j].id /\ p.length = sent[j].size
          /\ p.n <= sent[j].size /\ g[1] = IF p.n = sent[j].size THEN -1 ELSE p.n
      BY <1>9, <1>10, <3>2 DEF After
    <3>. QED BY <3>1, <3>3
  <2>2. CASE rx.length # -1
    <3>1. /\ r.length = rx.length /\ r.received = rx.received + p.n /\ r.of = rx.of \cup {p.msg}
          /\ r \in [length : Int, received : Nat, of : SUBSET Nat]
      <4>1. PICK c \in Nat : c = rx.received + p.n
        BY <1>5, <1>8
      <4>2. PICK o \in SUBSET Nat : o = rx.of \cup {p.msg}
        BY <1>5, <1>8
      <4>3. r = [rx EXCEPT !.received = c, !.of = o]
        BY <1>2, <2>2, <4>1, <4>2
      <4>. QED BY <1>8, <4>1, <4>2, <4>3
    <3>2. f[0] = j /\ g[0] = rx.received /\ g[0] # -1
      BY <1>8, <1>9, <1>10, <2>2 DEF ReadIndex, ReadCount
    <3>3. /\ f[1] = j /\ j \in 1..Len(sent) /\ p.msg = sent[j].id
          /\ rx.received + p.n <= sent[j].size
          /\ g[1] = IF rx.received + p.n = sent[j].size THEN -1 ELSE rx.received + p.n
      BY <1>10, <3>2 DEF After
    <3>4. rx.length = sent[j].size /\ rx.of = {sent[j].id}
      BY <1>7, <1>9, <2>2 DEF Reading
    <3>. QED BY <3>1, <3>3, <3>4
  <2>. QED BY <2>1, <2>2
<1>12. PlacesAgree' /\ HeldOnce' /\ RefsCount' /\ InOrder'
  <2>1. PlacesAgree'
    BY <1>3, <1>4 DEF PlacesAgree, Busy
  <2>2. HeldOnce' /\ RefsCount'
    BY <1>3, <1>4, HoldersStay DEF Busy
  <2>3. InOrder'
    BY <1>3, <1>4, OrderStays DEF Message, Sending
  <2>. QED BY <2>1, <2>2, <2>3
<1>13. WriteIndex' = WriteIndex /\ WriteCount' = WriteCount
  BY <1>3 DEF WriteIndex, WriteCount, Partial, Passed, Sending
(* The rest of the pieces, for a reader that is at the first of them. *)
<1>14. ASSUME ReadIndex' = f[1], ReadCount' = g[1] PROVE \E h, i : Flows(h, i)'
  <2>1. PICK h : h = [k \in 0..Len(wire) - 1 |-> f[k + 1]]
    OBVIOUS
  <2>2. PICK i : i = [k \in 0..Len(wire) - 1 |-> g[k + 1]]
    OBVIOUS
  <2>3. f \in [0..Len(wire) -> Nat] /\ g \in [0..Len(wire) -> Int]
    BY <1>6 DEF Flows
  <2>4. h \in [0..Len(wire') -> Nat] /\ i \in [0..Len(wire') -> Int]
    BY <1>5, <2>1, <2>2, <2>3
  <2>5. \A k \in 0..Len(wire') : h[k] = f[k + 1] /\ i[k] = g[k + 1]
    BY <1>5, <2>1, <2>2
  <2>6. h[0] = ReadIndex' /\ i[0] = ReadCount'
    <3>1. 0 \in 0..Len(wire') /\ 0 + 1 = 1
      BY <1>5
    <3>. QED BY <1>14, <2>5, <3>1
  <2>7. h[Len(wire')] = WriteIndex' /\ i[Len(wire')] = WriteCount'
    <3>1. Len(wire') \in 0..Len(wire') /\ Len(wire') + 1 = Len(wire)
      BY <1>5
    <3>. QED BY <1>6, <1>13, <2>5, <3>1 DEF Flows
  <2>8. ASSUME NEW k \in 1..Len(wire') PROVE After(h[k - 1], i[k - 1], wire[k], h[k], i[k])'
    <3>1. k + 1 \in 1..Len(wire) /\ (k + 1) - 1 = k /\ k - 1 \in 0..Len(wire') /\ (k - 1) + 1 = k
          /\ k \in 0..Len(wire')
      BY <1>5
    <3>2. After(f[(k + 1) - 1], g[(k + 1) - 1], wire[k + 1], f[k + 1], g[k + 1])
      BY <1>6, <3>1 DEF Flows
    <3>3. h[k - 1] = f[k] /\ i[k - 1] = g[k] /\ h[k] = f[k + 1] /\ i[k] = g[k + 1] /\ wire'[k] = wire[k + 1]
      BY <1>5, <2>5, <3>1
    <3>. QED BY <1>3, <3>1, <3>2, <3>3 DEF After
  <2>9. Flows(h, i)'
    BY <2>4, <2>6, <2>7, <2>8 DEF Flows
  <2>. QED BY <2>9
<1>15. \A a \in Seq([of : SUBSET Nat, size : Int]), b \in [length : Int, received : Nat, of : SUBSET Nat] :
         out' = a /\ rx' = b => PacketTypes'
  BY <1>3, <1>4, <1>5 DEF PacketTypes
<1>16. out \in Seq([of : SUBSET Nat, size : Int])
  BY <1>4 DEF PacketTypes
<1>17. Packets!NoFrame \in [length : Int, received : Nat, of : SUBSET Nat] /\ Packets!NoFrame.length = -1
       /\ Packets!Ended \in [length : Int, received : Nat, of : SUBSET Nat]
  BY DEF Packets!NoFrame, Packets!Ended
<1>18. CASE r.length > Largest
  <2>1. out' = out /\ rx' = Packets!Ended
    BY <1>3, <1>18
  <2>2. Packets!FramesWhole'
    BY <1>3, <1>4, <2>1 DEF Packets!FramesWhole
  <2>3. PiecesFlow'
    <3>1. Packets!Ended' = Packets!Ended
      BY DEF Packets!Ended, Packets!NoFrame
    <3>. QED BY <2>1, <3>1 DEF PiecesFlow
  <2>4. PacketTypes'
    BY <1>15, <1>16, <1>17, <2>1
  <2>. QED BY <1>12, <2>2, <2>3, <2>4 DEF PacketInv
<1>19. CASE ~(r.length > Largest) /\ r.received = r.length
  <2>1. PICK e : e = [of |-> r.of, size |-> r.length]
    OBVIOUS
  <2>2. out' = Append(out, e) /\ rx' = Packets!NoFrame
    BY <1>3, <1>19, <2>1
  <2>3. e \in [of : SUBSET Nat, size : Int] /\ e = [of |-> {sent[j].id}, size |-> sent[j].size]
    BY <1>11, <2>1
  <2>4. /\ out' \in Seq([of : SUBSET Nat, size : Int]) /\ Len(out') = Len(out) + 1
        /\ out'[Len(out) + 1] = e /\ \A k \in 1..Len(out) : out'[k] = out[k]
    BY <1>16, <2>2, <2>3, AppendFacts
  <2>5. sent[j].size <= Largest
    <3>1. sent[j].size \in Nat
      BY <1>8, <1>11 DEF PacketMessages
    <3>. QED BY <1>11, <1>19, <3>1, PacketBounds
  <2>6. Packets!FramesWhole'
    <3>1. Len(out') <= Len(sent')
      BY <1>3, <1>8, <1>9, <1>11, <2>4
    <3>2. ASSUME NEW k \in 1..Len(out')
          PROVE  out'[k] = [of |-> {sent[k].id}, size |-> sent[k].size] /\ sent[k].size <= Largest
      <4>1. CASE k = j
        BY <1>9, <2>3, <2>4, <2>5, <4>1
      <4>2. CASE k # j
        <5>1. k \in 1..Len(out)
          BY <1>8, <1>9, <2>4, <4>2
        <5>. QED BY <1>4, <2>4, <5>1 DEF Packets!FramesWhole
      <4>. QED BY <4>1, <4>2
    <3>. QED BY <1>3, <3>1, <3>2 DEF Packets!FramesWhole
  <2>7. ReadIndex' = f[1] /\ ReadCount' = g[1]
    BY <1>9, <1>11, <1>17, <1>19, <2>2, <2>4 DEF ReadIndex, ReadCount
  <2>8. Reading'
    BY <1>17, <2>2 DEF Reading
  <2>9. PiecesFlow'
    BY <1>14, <2>7, <2>8 DEF PiecesFlow
  <2>10. PacketTypes'
    BY <1>15, <1>17, <2>2, <2>4
  <2>. QED BY <1>12, <2>6, <2>9, <2>10 DEF PacketInv
<1>20. CASE ~(r.length > Largest) /\ r.received # r.length
  <2>1. r.received < r.length /\ ~(r.received > r.length)
    BY <1>11, <1>20
  <2>2. out' = out /\ rx' = r
    BY <1>3, <1>20, <2>1
  <2>3. Packets!FramesWhole'
    BY <1>3, <1>4, <2>2 DEF Packets!FramesWhole
  <2>4. r.length # -1
    BY <1>11, <2>1
  <2>5. ReadIndex' = f[1] /\ ReadCount' = g[1]
    BY <1>9, <1>11, <1>20, <2>2, <2>4 DEF ReadIndex, ReadCount
  <2>6. Reading'
    BY <1>3, <1>8, <1>9, <1>11, <2>1, <2>2 DEF Reading
  <2>7. PiecesFlow'
    BY <1>14, <2>5, <2>6 DEF PiecesFlow
  <2>8. PacketTypes'
    BY <1>11, <1>15, <1>16, <2>2
  <2>. QED BY <1>12, <2>3, <2>7, <2>8 DEF PacketInv
<1>. QED BY <1>18, <1>19, <1>20

LEMMA PacketKeeps == ASSUME PacketInv, Packets!Next PROVE PacketInv'
  BY WriteKeeps, QueueKeeps, LockKeeps, RefuseKeeps, SendKeeps, PutKeeps, TakeFromQueueKeeps, ReceiveKeeps
  DEF Packets!Next, PacketSenders

LEMMA PacketStutter == ASSUME PacketInv, UNCHANGED sending PROVE PacketInv'
<1>1. /\ PacketTypes /\ PlacesAgree /\ HeldOnce /\ RefsCount /\ InOrder /\ PiecesFlow
      /\ Packets!FramesWhole
  BY DEF PacketInv
<1>2. UNCHANGED <<transport, pool, sender, queue, lock, wire, rx, sent, out, made>>
  BY DEF sending
<1>3. PacketTypes'
  BY <1>1, <1>2 DEF PacketTypes
<1>4. PlacesAgree'
  BY <1>1, <1>2 DEF PlacesAgree, Busy
<1>5. HeldOnce' /\ RefsCount'
  BY <1>1, <1>2, HoldersStay DEF Busy
<1>6. InOrder' /\ WriteIndex' = WriteIndex /\ WriteCount' = WriteCount
  BY <1>1, <1>2, OrderStays DEF Message, Sending
<1>7. PiecesFlow' /\ Packets!FramesWhole'
  BY <1>1, <1>2, <1>6, SameSent, FlowStays
<1>. QED BY <1>3, <1>4, <1>5, <1>6, <1>7 DEF PacketInv

(* What the reader of a data channel is handed are the messages sent, whole, unmixed and in order,
   up to the first that is too long, however sends run together, buffers return to the pool and the
   queue of the cached transport fills up. *)
THEOREM FramesStayWhole == Spec => []FramesWhole
<1>1. Init => PacketInv
  BY PacketInit DEF Init
<1>2. PacketInv /\ [Next]_vars => PacketInv'
  BY PacketKeeps, PacketStutter, OneSteps
<1>3. PacketInv => FramesWhole
  BY DEF PacketInv, FramesWhole
<1>. QED BY <1>1, <1>2, <1>3, PTL DEF Spec

------------------------------------------------------------------------------
(* ConsolePush, with the two sets of bounds of MCServices *)

PushProved == INSTANCE ConsolePushProofs WITH
  clients <- consoleClients, reader <- consoleReader,
  Topics <- {"devices"}, CanFail <- {}, Changing <- {"devices"}, MaxVersion <- 2, MaxOpens <- 2

PushTwoProved == INSTANCE ConsolePushProofs WITH
  clients <- consoleClients, reader <- consoleReader,
  Topics <- {"devices", "rpa_status"}, CanFail <- {"rpa_status"}, Changing <- {"devices"},
  MaxVersion <- 1, MaxOpens <- 1, MaxNotices <- 0

(* The module of the proofs has the same definitions. *)
LEMMA SamePush ==
  /\ PushProved!PushAssumption <=> Push!PushAssumption
  /\ (PushProved!Init <=> Push!Init) /\ (PushProved!Next <=> Push!Next)
  /\ PushProved!NothingMissed <=> Push!NothingMissed
  BY DEF PushProved!Next, Push!Next, PushProved!register, Push!register, PushProved!unregister, Push!unregister,
     PushProved!Asks, Push!Asks, PushProved!subscribe, Push!subscribe, PushProved!unsubscribe, Push!unsubscribe,
     PushProved!request, Push!request, PushProved!Pushes, Push!Pushes, PushProved!pushFetch, Push!pushFetch,
     PushProved!pushWrite, Push!pushWrite, PushProved!WriteJSON, Push!WriteJSON, PushProved!Checks, Push!Checks,
     PushProved!checkAndPush, Push!checkAndPush, PushProved!checkFetch, Push!checkFetch, PushProved!compareHash,
     Push!compareHash, PushProved!checkBroadcast, Push!checkBroadcast, PushProved!notifyFetch, Push!notifyFetch,
     PushProved!Notifies, Push!Notifies, PushProved!notifyStore, Push!notifyStore, PushProved!notifyBroadcast,
     Push!notifyBroadcast, PushProved!DataChanges, Push!DataChanges, PushProved!broadcastData, Push!broadcastData,
     PushProved!Subscribers, Push!Subscribers, PushProved!Offer, Push!Offer, PushProved!fetchData, Push!fetchData,
     PushProved!Failed, Push!Failed, PushProved!Goes, Push!Goes, PushProved!Newest, Push!Newest,
     PushProved!NotChecking, Push!NotChecking, PushProved!Resting, Push!Resting, PushProved!NoHash, Push!NoHash,
     PushProved!Content, Push!Content, PushProved!Cardinality, Push!Cardinality, PushProved!Init, Push!Init,
     PushProved!NothingMissed, Push!NothingMissed, PushProved!Pushing, Push!Pushing, PushProved!PushAssumption,
     Push!PushAssumption

LEMMA SamePushTwo ==
  /\ PushTwoProved!PushAssumption <=> PushTwo!PushAssumption
  /\ (PushTwoProved!Init <=> PushTwo!Init) /\ (PushTwoProved!Next <=> PushTwo!Next)
  /\ PushTwoProved!NothingMissed <=> PushTwo!NothingMissed
  BY DEF PushTwoProved!Next, PushTwo!Next, PushTwoProved!register, PushTwo!register, PushTwoProved!unregister,
     PushTwo!unregister, PushTwoProved!Asks, PushTwo!Asks, PushTwoProved!subscribe, PushTwo!subscribe,
     PushTwoProved!unsubscribe, PushTwo!unsubscribe, PushTwoProved!request, PushTwo!request, PushTwoProved!Pushes,
     PushTwo!Pushes, PushTwoProved!pushFetch, PushTwo!pushFetch, PushTwoProved!pushWrite, PushTwo!pushWrite,
     PushTwoProved!WriteJSON, PushTwo!WriteJSON, PushTwoProved!Checks, PushTwo!Checks, PushTwoProved!checkAndPush,
     PushTwo!checkAndPush, PushTwoProved!checkFetch, PushTwo!checkFetch, PushTwoProved!compareHash,
     PushTwo!compareHash, PushTwoProved!checkBroadcast, PushTwo!checkBroadcast, PushTwoProved!notifyFetch,
     PushTwo!notifyFetch, PushTwoProved!Notifies, PushTwo!Notifies, PushTwoProved!notifyStore, PushTwo!notifyStore,
     PushTwoProved!notifyBroadcast, PushTwo!notifyBroadcast, PushTwoProved!DataChanges, PushTwo!DataChanges,
     PushTwoProved!broadcastData, PushTwo!broadcastData, PushTwoProved!Subscribers, PushTwo!Subscribers,
     PushTwoProved!Offer, PushTwo!Offer, PushTwoProved!fetchData, PushTwo!fetchData, PushTwoProved!Failed,
     PushTwo!Failed, PushTwoProved!Goes, PushTwo!Goes, PushTwoProved!Newest, PushTwo!Newest,
     PushTwoProved!NotChecking, PushTwo!NotChecking, PushTwoProved!Resting, PushTwo!Resting, PushTwoProved!NoHash,
     PushTwo!NoHash, PushTwoProved!Content, PushTwo!Content, PushTwoProved!Cardinality, PushTwo!Cardinality,
     PushTwoProved!Init, PushTwo!Init, PushTwoProved!NothingMissed, PushTwo!NothingMissed, PushTwoProved!Pushing,
     PushTwo!Pushing, PushTwoProved!PushAssumption, PushTwo!PushAssumption

LEMMA SamePushTypes == (PushProved!TypeOK <=> Push!TypeOK) /\ (PushTwoProved!TypeOK <=> PushTwo!TypeOK)
  BY DEF PushProved!TypeOK, Push!TypeOK, PushTwoProved!TypeOK, PushTwo!TypeOK,
     PushProved!Cardinality, Push!Cardinality, PushTwoProved!Cardinality, PushTwo!Cardinality

PushesInv ==
  /\ part # "push two" => PushProved!PushInv /\ PushProved!PushBounded
  /\ part = "push two" => PushTwoProved!PushInv /\ PushTwoProved!PushBounded

LEMMA PushesInit == ASSUME Init PROVE PushesInv
<1>1. PushProved!PushAssumption /\ PushTwoProved!PushAssumption
  BY ServicesAssumption, SamePush, SamePushTwo
<1>2. ASSUME part # "push two" PROVE PushProved!PushInv /\ PushProved!PushBounded
  BY <1>1, <1>2, SamePush, PushProved!PushInit, PushProved!BoundedInit DEF Init
<1>3. ASSUME part = "push two" PROVE PushTwoProved!PushInv /\ PushTwoProved!PushBounded
  BY <1>1, <1>3, SamePushTwo, PushTwoProved!PushInit, PushTwoProved!BoundedInit DEF Init
<1>. QED BY <1>2, <1>3 DEF PushesInv

LEMMA PushesKeep == ASSUME PushesInv, [Next]_vars PROVE PushesInv'
<1>1. PushProved!PushAssumption /\ PushTwoProved!PushAssumption
  BY ServicesAssumption, SamePush, SamePushTwo
<1>2. UNCHANGED part
  BY OneSteps
<1>3. ASSUME part # "push two" PROVE PushProved!PushInv' /\ PushProved!PushBounded'
  <2>1. CASE Push!Next
    BY <1>1, <1>3, <2>1, SamePush, PushProved!PushKeeps, PushProved!BoundedKeeps DEF PushesInv
  <2>2. CASE UNCHANGED pushing
    BY <1>3, <2>2, PushProved!PushStutter, PushProved!BoundedStutter DEF PushesInv, pushing, PushProved!vars
  <2>. QED BY <1>3, <2>1, <2>2, OneSteps
<1>4. ASSUME part = "push two" PROVE PushTwoProved!PushInv' /\ PushTwoProved!PushBounded'
  <2>1. CASE PushTwo!Next
    BY <1>1, <1>4, <2>1, SamePushTwo, PushTwoProved!PushKeeps, PushTwoProved!BoundedKeeps DEF PushesInv
  <2>2. CASE UNCHANGED pushing
    BY <1>4, <2>2, PushTwoProved!PushStutter, PushTwoProved!BoundedStutter DEF PushesInv, pushing, PushTwoProved!vars
  <2>. QED BY <1>4, <2>1, <2>2, OneSteps
<1>. QED BY <1>2, <1>3, <1>4 DEF PushesInv

LEMMA PushesTyped == ASSUME PushesInv PROVE IF part = "push two" THEN PushTwo!TypeOK ELSE Push!TypeOK
  BY SamePushTypes, PushProved!InvHasTypes, PushTwoProved!InvHasTypes DEF PushesInv

(* A push that the hash says was made reached everyone who had subscribed, in every behaviour of the
   services (ConsolePushProofs!NoneMissedEver, for any constants). *)
THEOREM PushesReachAll == Spec => []NothingMissed
<1>1. Init => PushesInv
  BY PushesInit
<1>2. PushesInv /\ [Next]_vars => PushesInv'
  BY PushesKeep
<1>3. PushesInv => NothingMissed
  <2>1. ASSUME PushesInv, part = "push" PROVE Push!NothingMissed
    BY <2>1, SamePush, PushProved!InvMissesNothing DEF PushesInv
  <2>2. ASSUME PushesInv, part = "push two" PROVE PushTwo!NothingMissed
    BY <2>2, SamePushTwo, PushTwoProved!InvMissesNothing DEF PushesInv
  <2>. QED BY <2>1, <2>2 DEF NothingMissed
<1>. QED BY <1>1, <1>2, <1>3, PTL DEF Spec

------------------------------------------------------------------------------
(* PlatformSession, with the two sets of bounds of MCServices *)

SessionProved == INSTANCE PlatformSessionProofs WITH
  core <- platformCore, job <- request, Relogins <- {"relogin"}, Logins <- {<<"h1", "k1">>},
  Tried <- {<<"api", "find", "command", "ensure", "send">>}, MaxRequests <- 3, MaxFaults <- 1

SessionMoreProved == INSTANCE PlatformSessionProofs WITH
  core <- platformCore, job <- request, Relogins <- {"relogin", "another"},
  Logins <- {<<"h1", "k1">>, <<"h2", "k2">>},
  Tried <- Session!Handled \cup {Session!GetDevices, Session!ConnectDevice, Session!MiddleExecuteCommand},
  MaxRequests <- 2, MaxFaults <- 2

(* The module of the proofs has the same definitions. *)
LEMMA SameSession ==
  /\ SessionProved!SessionAssumption <=> Session!SessionAssumption
  /\ (SessionProved!Init <=> Session!Init) /\ (SessionProved!Next <=> Session!Next)
  /\ SessionProved!SessionHeld <=> Session!SessionHeld
  BY DEF SessionProved!Next, Session!Next, SessionProved!Init, Session!Init, SessionProved!SessionHeld,
     Session!SessionHeld, SessionProved!SessionAssumption, Session!SessionAssumption, SessionProved!held,
     Session!held, SessionProved!known, Session!known, SessionProved!counts, Session!counts,
     SessionProved!TokenKept, Session!TokenKept, SessionProved!Nobody, Session!Nobody, SessionProved!NoSession,
     Session!NoSession, SessionProved!Up, Session!Up, SessionProved!HasApi, Session!HasApi, SessionProved!NoJob,
     Session!NoJob, SessionProved!At, Session!At, SessionProved!Does, Session!Does, SessionProved!Goes,
     Session!Goes, SessionProved!Rest, Session!Rest, SessionProved!Continue, Session!Continue,
     SessionProved!Instead, Session!Instead, SessionProved!Ends, Session!Ends, SessionProved!Panics,
     Session!Panics, SessionProved!Unlock, Session!Unlock, SessionProved!ByApi, Session!ByApi,
     SessionProved!ByDevice, Session!ByDevice, SessionProved!Asked, Session!Asked, SessionProved!Ordered,
     Session!Ordered, SessionProved!handleGetAppList, Session!handleGetAppList,
     SessionProved!handleDownLoadInstallApp, Session!handleDownLoadInstallApp,
     SessionProved!handleGetDownloadProgress, Session!handleGetDownloadProgress, SessionProved!handleHideApp,
     Session!handleHideApp, SessionProved!handleGetUserFiles, Session!handleGetUserFiles,
     SessionProved!handleGetDeviceList, Session!handleGetDeviceList, SessionProved!CheckDeviceOnline,
     Session!CheckDeviceOnline, SessionProved!handleGetDeviceDetail, Session!handleGetDeviceDetail,
     SessionProved!handleGetDeviceStatus, Session!handleGetDeviceStatus, SessionProved!handleExecShell,
     Session!handleExecShell, SessionProved!handleStartApp, Session!handleStartApp, SessionProved!handleGetRoot,
     Session!handleGetRoot, SessionProved!handleScreenshot, Session!handleScreenshot,
     SessionProved!handleBackupApp, Session!handleBackupApp, SessionProved!handleGetBackupAppStatus,
     Session!handleGetBackupAppStatus, SessionProved!handleGetBackupList, Session!handleGetBackupList,
     SessionProved!handleRestoreApp, Session!handleRestoreApp, SessionProved!handleGetRestoreAppStatus,
     Session!handleGetRestoreAppStatus, SessionProved!handleChangePhones, Session!handleChangePhones,
     SessionProved!handleGetTaskStatus, Session!handleGetTaskStatus, SessionProved!handleChangeOldOsReq,
     Session!handleChangeOldOsReq, SessionProved!handleGetChangeOsList, Session!handleGetChangeOsList,
     SessionProved!handleSetSocket5, Session!handleSetSocket5, SessionProved!handleGetS5outLine,
     Session!handleGetS5outLine, SessionProved!handleSetLocation, Session!handleSetLocation,
     SessionProved!HandleFastUpload, Session!HandleFastUpload, SessionProved!HandleFileUpload,
     Session!HandleFileUpload, SessionProved!HandleFileDelete, Session!HandleFileDelete, SessionProved!Handled,
     Session!Handled, SessionProved!GetDevices, Session!GetDevices, SessionProved!ConnectDevice,
     Session!ConnectDevice, SessionProved!MiddleExecuteCommand,
     Session!MiddleExecuteCommand, SessionProved!Begin, Session!Begin, SessionProved!HandleUnifiedRequest,
     Session!HandleUnifiedRequest, SessionProved!handleLogin, Session!handleLogin, SessionProved!HandleHTTP,
     Session!HandleHTTP, SessionProved!UpdateConfig, Session!UpdateConfig, SessionProved!Reset, Session!Reset,
     SessionProved!KeepCore, Session!KeepCore, SessionProved!Dial, Session!Dial, SessionProved!DialFails,
     Session!DialFails, SessionProved!LoginWithoutSession, Session!LoginWithoutSession,
     SessionProved!LoginRefused, Session!LoginRefused, SessionProved!Login, Session!Login,
     SessionProved!CenterGetDeviceList, Session!CenterGetDeviceList, SessionProved!ListDevices,
     Session!ListDevices, SessionProved!Expire, Session!Expire, SessionProved!ExpireLeaked,
     Session!ExpireLeaked, SessionProved!Wake, Session!Wake, SessionProved!LinkDrops, Session!LinkDrops,
     SessionProved!HostChanged, Session!HostChanged, SessionProved!LoggedIn, Session!LoggedIn,
     SessionProved!EnsureRefuses, Session!EnsureRefuses, SessionProved!EnsureReturns, Session!EnsureReturns,
     SessionProved!EnsureLogin, Session!EnsureLogin, SessionProved!ClearLogin, Session!ClearLogin,
     SessionProved!ResetCore, Session!ResetCore, SessionProved!forceRelogin, Session!forceRelogin,
     SessionProved!DropCore, Session!DropCore, SessionProved!WithKey, Session!WithKey,
     SessionProved!ensureGlobalApi, Session!ensureGlobalApi, SessionProved!findDeviceInfoWithCache,
     Session!findDeviceInfoWithCache, SessionProved!LookUp, Session!LookUp, SessionProved!CallApi,
     Session!CallApi, SessionProved!Chosen, Session!Chosen, SessionProved!ReloginThen, Session!ReloginThen,
     SessionProved!findDeviceInfo, Session!findDeviceInfo, SessionProved!TakeKey, Session!TakeKey,
     SessionProved!SendGenericCommandToDevice, Session!SendGenericCommandToDevice, SessionProved!Created,
     Session!Created, SessionProved!CreatMiddlewareRtc, Session!CreatMiddlewareRtc, SessionProved!ListAgain,
     Session!ListAgain, SessionProved!CreateAgain, Session!CreateAgain, SessionProved!Request, Session!Request,
     SessionProved!LoginStep, Session!LoginStep, SessionProved!Ensures, Session!Ensures, SessionProved!Serves,
     Session!Serves, SessionProved!Works, Session!Works

LEMMA SameSessionMore ==
  /\ SessionMoreProved!SessionAssumption <=> SessionMore!SessionAssumption
  /\ (SessionMoreProved!Init <=> SessionMore!Init) /\ (SessionMoreProved!Next <=> SessionMore!Next)
  /\ SessionMoreProved!SessionHeld <=> SessionMore!SessionHeld
  BY DEF SessionMoreProved!Next, SessionMore!Next, SessionMoreProved!Init, SessionMore!Init,
     SessionMoreProved!SessionHeld, SessionMore!SessionHeld, SessionMoreProved!SessionAssumption,
     SessionMore!SessionAssumption, SessionMoreProved!held, SessionMore!held, SessionMoreProved!known,
     SessionMore!known, SessionMoreProved!counts, SessionMore!counts, SessionMoreProved!TokenKept, SessionMore!TokenKept, SessionMoreProved!Nobody, SessionMore!Nobody, SessionMoreProved!NoSession,
     SessionMore!NoSession, SessionMoreProved!Up, SessionMore!Up, SessionMoreProved!HasApi, SessionMore!HasApi,
     SessionMoreProved!NoJob, SessionMore!NoJob, SessionMoreProved!At, SessionMore!At, SessionMoreProved!Does,
     SessionMore!Does, SessionMoreProved!Goes, SessionMore!Goes, SessionMoreProved!Rest, SessionMore!Rest,
     SessionMoreProved!Continue, SessionMore!Continue, SessionMoreProved!Instead, SessionMore!Instead,
     SessionMoreProved!Ends, SessionMore!Ends, SessionMoreProved!Panics, SessionMore!Panics,
     SessionMoreProved!Unlock, SessionMore!Unlock, SessionMoreProved!ByApi, SessionMore!ByApi,
     SessionMoreProved!ByDevice, SessionMore!ByDevice, SessionMoreProved!Asked, SessionMore!Asked,
     SessionMoreProved!Ordered, SessionMore!Ordered, SessionMoreProved!handleGetAppList,
     SessionMore!handleGetAppList, SessionMoreProved!handleDownLoadInstallApp,
     SessionMore!handleDownLoadInstallApp, SessionMoreProved!handleGetDownloadProgress,
     SessionMore!handleGetDownloadProgress, SessionMoreProved!handleHideApp, SessionMore!handleHideApp,
     SessionMoreProved!handleGetUserFiles, SessionMore!handleGetUserFiles,
     SessionMoreProved!handleGetDeviceList, SessionMore!handleGetDeviceList,
     SessionMoreProved!CheckDeviceOnline, SessionMore!CheckDeviceOnline,
     SessionMoreProved!handleGetDeviceDetail, SessionMore!handleGetDeviceDetail,
     SessionMoreProved!handleGetDeviceStatus, SessionMore!handleGetDeviceStatus,
     SessionMoreProved!handleExecShell, SessionMore!handleExecShell, SessionMoreProved!handleStartApp,
     SessionMore!handleStartApp, SessionMoreProved!handleGetRoot, SessionMore!handleGetRoot,
     SessionMoreProved!handleScreenshot, SessionMore!handleScreenshot, SessionMoreProved!handleBackupApp,
     SessionMore!handleBackupApp, SessionMoreProved!handleGetBackupAppStatus,
     SessionMore!handleGetBackupAppStatus, SessionMoreProved!handleGetBackupList,
     SessionMore!handleGetBackupList, SessionMoreProved!handleRestoreApp, SessionMore!handleRestoreApp,
     SessionMoreProved!handleGetRestoreAppStatus, SessionMore!handleGetRestoreAppStatus,
     SessionMoreProved!handleChangePhones, SessionMore!handleChangePhones,
     SessionMoreProved!handleGetTaskStatus, SessionMore!handleGetTaskStatus,
     SessionMoreProved!handleChangeOldOsReq, SessionMore!handleChangeOldOsReq,
     SessionMoreProved!handleGetChangeOsList, SessionMore!handleGetChangeOsList,
     SessionMoreProved!handleSetSocket5, SessionMore!handleSetSocket5, SessionMoreProved!handleGetS5outLine,
     SessionMore!handleGetS5outLine, SessionMoreProved!handleSetLocation, SessionMore!handleSetLocation,
     SessionMoreProved!HandleFastUpload, SessionMore!HandleFastUpload, SessionMoreProved!HandleFileUpload,
     SessionMore!HandleFileUpload, SessionMoreProved!HandleFileDelete, SessionMore!HandleFileDelete,
     SessionMoreProved!Handled, SessionMore!Handled, SessionMoreProved!GetDevices, SessionMore!GetDevices, SessionMoreProved!ConnectDevice,
     SessionMore!ConnectDevice,
     SessionMoreProved!MiddleExecuteCommand, SessionMore!MiddleExecuteCommand, SessionMoreProved!Begin,
     SessionMore!Begin, SessionMoreProved!HandleUnifiedRequest, SessionMore!HandleUnifiedRequest,
     SessionMoreProved!handleLogin, SessionMore!handleLogin, SessionMoreProved!HandleHTTP,
     SessionMore!HandleHTTP, SessionMoreProved!UpdateConfig, SessionMore!UpdateConfig, SessionMoreProved!Reset,
     SessionMore!Reset, SessionMoreProved!KeepCore, SessionMore!KeepCore, SessionMoreProved!Dial,
     SessionMore!Dial, SessionMoreProved!DialFails, SessionMore!DialFails,
     SessionMoreProved!LoginWithoutSession, SessionMore!LoginWithoutSession, SessionMoreProved!LoginRefused,
     SessionMore!LoginRefused, SessionMoreProved!Login, SessionMore!Login,
     SessionMoreProved!CenterGetDeviceList, SessionMore!CenterGetDeviceList, SessionMoreProved!ListDevices,
     SessionMore!ListDevices, SessionMoreProved!Expire, SessionMore!Expire, SessionMoreProved!ExpireLeaked,
     SessionMore!ExpireLeaked, SessionMoreProved!Wake, SessionMore!Wake, SessionMoreProved!LinkDrops,
     SessionMore!LinkDrops, SessionMoreProved!HostChanged, SessionMore!HostChanged, SessionMoreProved!LoggedIn,
     SessionMore!LoggedIn, SessionMoreProved!EnsureRefuses, SessionMore!EnsureRefuses,
     SessionMoreProved!EnsureReturns, SessionMore!EnsureReturns, SessionMoreProved!EnsureLogin,
     SessionMore!EnsureLogin, SessionMoreProved!ClearLogin, SessionMore!ClearLogin, SessionMoreProved!ResetCore,
     SessionMore!ResetCore, SessionMoreProved!forceRelogin, SessionMore!forceRelogin,
     SessionMoreProved!DropCore, SessionMore!DropCore, SessionMoreProved!WithKey, SessionMore!WithKey,
     SessionMoreProved!ensureGlobalApi, SessionMore!ensureGlobalApi, SessionMoreProved!findDeviceInfoWithCache,
     SessionMore!findDeviceInfoWithCache, SessionMoreProved!LookUp, SessionMore!LookUp,
     SessionMoreProved!CallApi, SessionMore!CallApi, SessionMoreProved!Chosen, SessionMore!Chosen,
     SessionMoreProved!ReloginThen, SessionMore!ReloginThen, SessionMoreProved!findDeviceInfo,
     SessionMore!findDeviceInfo, SessionMoreProved!TakeKey, SessionMore!TakeKey,
     SessionMoreProved!SendGenericCommandToDevice, SessionMore!SendGenericCommandToDevice,
     SessionMoreProved!Created, SessionMore!Created, SessionMoreProved!CreatMiddlewareRtc,
     SessionMore!CreatMiddlewareRtc, SessionMoreProved!ListAgain, SessionMore!ListAgain,
     SessionMoreProved!CreateAgain, SessionMore!CreateAgain, SessionMoreProved!Request, SessionMore!Request,
     SessionMoreProved!LoginStep, SessionMore!LoginStep, SessionMoreProved!Ensures, SessionMore!Ensures,
     SessionMoreProved!Serves, SessionMore!Serves, SessionMoreProved!Works, SessionMore!Works

LEMMA SameSessionTypes ==
  (SessionProved!TypeOK <=> Session!TypeOK) /\ (SessionMoreProved!TypeOK <=> SessionMore!TypeOK)
  BY DEF SessionProved!TypeOK, Session!TypeOK, SessionMoreProved!TypeOK, SessionMore!TypeOK,
     SessionProved!Nobody, Session!Nobody, SessionMoreProved!Nobody, SessionMore!Nobody

SessionsInv ==
  /\ part # "session more" => SessionProved!SessionInv /\ SessionProved!KnownTypes
  /\ part = "session more" => SessionMoreProved!SessionInv /\ SessionMoreProved!KnownTypes

LEMMA SessionsInit == ASSUME Init PROVE SessionsInv
<1>1. SessionProved!SessionAssumption /\ SessionMoreProved!SessionAssumption
  BY ServicesAssumption, SameSession, SameSessionMore
<1>2. IF part = "session more" THEN SessionMore!Init ELSE Session!Init
  BY DEF Init
<1>3. ASSUME part # "session more" PROVE SessionProved!SessionInv /\ SessionProved!KnownTypes
  BY <1>1, <1>2, <1>3, SameSession, SessionProved!SessionInit, SessionProved!KnownInit
<1>4. ASSUME part = "session more" PROVE SessionMoreProved!SessionInv /\ SessionMoreProved!KnownTypes
  BY <1>1, <1>2, <1>4, SameSessionMore, SessionMoreProved!SessionInit, SessionMoreProved!KnownInit
<1>. QED BY <1>3, <1>4 DEF SessionsInv

LEMMA SessionsKeep == ASSUME SessionsInv, [Next]_vars PROVE SessionsInv'
<1>1. SessionProved!SessionAssumption /\ SessionMoreProved!SessionAssumption
  BY ServicesAssumption, SameSession, SameSessionMore
<1>2. UNCHANGED part
  BY OneSteps
<1>3. ASSUME part # "session more" PROVE SessionProved!SessionInv' /\ SessionProved!KnownTypes'
  <2>1. CASE Session!Next
    BY <1>1, <1>3, <2>1, SameSession, SessionProved!SessionKeeps, SessionProved!KnownKeeps DEF SessionsInv
  <2>2. CASE UNCHANGED requesting
    <3>1. UNCHANGED SessionProved!vars
      BY <2>2 DEF requesting, SessionProved!vars, SessionProved!held, SessionProved!known, SessionProved!counts
    <3>. QED BY <1>1, <1>3, <3>1, SessionProved!SessionKeeps, SessionProved!KnownKeeps DEF SessionsInv
  <2>. QED BY <1>3, <2>1, <2>2, OneSteps
<1>4. ASSUME part = "session more" PROVE SessionMoreProved!SessionInv' /\ SessionMoreProved!KnownTypes'
  <2>1. CASE SessionMore!Next
    BY <1>1, <1>4, <2>1, SameSessionMore, SessionMoreProved!SessionKeeps, SessionMoreProved!KnownKeeps DEF SessionsInv
  <2>2. CASE UNCHANGED requesting
    <3>1. UNCHANGED SessionMoreProved!vars
      BY <2>2 DEF requesting, SessionMoreProved!vars, SessionMoreProved!held, SessionMoreProved!known,
         SessionMoreProved!counts
    <3>. QED BY <1>1, <1>4, <3>1, SessionMoreProved!SessionKeeps, SessionMoreProved!KnownKeeps DEF SessionsInv
  <2>. QED BY <1>4, <2>1, <2>2, OneSteps
<1>. QED BY <1>2, <1>3, <1>4 DEF SessionsInv

LEMMA SessionsTyped == ASSUME SessionsInv PROVE IF part = "session more" THEN SessionMore!TypeOK ELSE Session!TypeOK
  BY SameSessionTypes, SessionProved!InvHasTypes, SessionMoreProved!InvHasTypes DEF SessionsInv

(* Whenever the lock of the login is free a login that is held is whole, in every behaviour of the
   services (PlatformSessionProofs!SessionWhole, for any constants). *)
THEOREM SessionsHeld == Spec => []SessionHeld
<1>1. Init => SessionsInv
  BY SessionsInit
<1>2. SessionsInv /\ [Next]_vars => SessionsInv'
  BY SessionsKeep
<1>3. SessionsInv => SessionHeld
  <2>1. ASSUME SessionsInv, part = "session" PROVE Session!SessionHeld
    BY <2>1, SameSession DEF SessionsInv, SessionProved!SessionInv
  <2>2. ASSUME SessionsInv, part = "session more" PROVE SessionMore!SessionHeld
    BY <2>2, SameSessionMore DEF SessionsInv, SessionMoreProved!SessionInv
  <2>. QED BY <2>1, <2>2 DEF SessionHeld
<1>. QED BY <1>1, <1>2, <1>3, PTL DEF Spec

------------------------------------------------------------------------------
(* The types of all services *)

LEMMA ForwardTyped == ASSUME ForwardInv PROVE Forward!TypeOK
  BY DEF ForwardInv, ForwardTypes, MapRecords, ForwarderRecords, Forward!TypeOK

LEMMA PacketTyped == ASSUME PacketInv PROVE Packets!TypeOK
<1>1. \A b \in Buffers : pool[b].refs \in 0..2
  BY DEF PacketInv, RefsCount
<1>. QED BY <1>1 DEF PacketInv, PacketTypes, PacketSenders, Packets!TypeOK

ServicesInv ==
  /\ part \in Parts
  /\ SyncInv /\ SyncBounds /\ RtcInv /\ RtcBounds /\ ForwardInv /\ PacketInv /\ PushesInv /\ SessionsInv

(* The state of every service keeps its types: a packet of the pool (packetPool) never has more than
   two references, a link no more calls of Close under way than its peer connection, the end of its
   signalling and a host that comes online again account for, and a command no number but its own. *)
THEOREM TypesHold == Spec => []TypeOK
<1>1. Init => ServicesInv
  BY SyncInit, SyncBoundsInit, RtcInit, RtcBoundsInit, ForwardInit, PacketInit, PushesInit, SessionsInit
  DEF Init, ServicesInv
<1>2. ServicesInv /\ [Next]_vars => ServicesInv'
  <2>. SUFFICES ASSUME ServicesInv, [Next]_vars PROVE ServicesInv'
    OBVIOUS
  <2>1. (part \in Parts)'
    BY OneSteps DEF ServicesInv, Parts
  <2>2. SyncInv' /\ SyncBounds'
    BY OneSteps, SyncKeeps, SyncStutter, SyncBoundsKeep, SyncBoundsStutter DEF ServicesInv, calling
  <2>3. RtcInv' /\ RtcBounds'
    BY OneSteps, RtcKeeps, RtcStutter, RtcBoundsKeep, RtcBoundsStutter DEF ServicesInv
  <2>4. ForwardInv' /\ PacketInv'
    BY OneSteps, ForwardKeeps, ForwardStutter, PacketKeeps, PacketStutter DEF ServicesInv
  <2>5. PushesInv' /\ SessionsInv'
    BY PushesKeep, SessionsKeep DEF ServicesInv
  <2>. QED BY <2>1, <2>2, <2>3, <2>4, <2>5 DEF ServicesInv
<1>3. ServicesInv => TypeOK
  BY SyncTyped, RtcTyped, ForwardTyped, PacketTyped, PushesTyped, SessionsTyped DEF ServicesInv, TypeOK
<1>. QED BY <1>1, <1>2, <1>3, PTL DEF Spec
===============================================================================
