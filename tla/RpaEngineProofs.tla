--------------------------- MODULE RpaEngineProofs ---------------------------
(***************************************************************************)
(* Theorems of RpaEngine, for every set of devices, flows, goroutines and   *)
(* handlers and every value of the bounds.                                  *)
(***************************************************************************)
EXTENDS RpaEngine, FiniteSetTheorems, TLAPS

-----------------------------------------------------------------------------
(* The type invariant.  What a goroutine holds is typed by where it is: past *)
(* "take" it is at work on a device, while a step is executed that step is   *)
(* one a step list can have, and at the end of a round the mode is "loop".   *)

AtStep == {"exec", "mergeR", "mergeW", "progress", "failStep"}
AtRound == {"loopR", "loopW", "loopRewind", "loopHist"}

GoodLoop == {g \in LoopRow :
  /\ g.pc \notin {"off", "wait", "take"} => g.d \in Device
  /\ g.pc \in AtStep => g.cfg.step \in StepIdx
  /\ g.pc \in AtRound => g.cfg.mode = "loop"}
GoodReq == {q \in ReqRow : q.pc \notin {"idle", "goLoop", "wgWait"} => q.d \in Device}

RowT == row \in [Device -> Row]
FlowT == flow \in [Flow -> FlowRow]
HistT == /\ hist \in [HistId -> HistRow] /\ nhist \in 0 .. MaxHist
         /\ historyMap \in [Device -> 0 .. MaxHist]
StepT == /\ recs \in [RecId -> RecRow] /\ nrec \in 0 .. MaxRec
         /\ stepMap \in [Device \X StepIdx -> 0 .. MaxRec]
CtlT == running \in BOOLEAN /\ stopCh \in Nat
LoopT == loop \in [Loop -> GoodLoop]
ReqT == req \in [Req -> GoodReq]
EnvT == used \in 0 .. MaxReq /\ boot \in Nat

TypeInv == /\ RowT /\ FlowT /\ HistT /\ StepT /\ CtlT /\ LoopT /\ ReqT /\ EnvT
           /\ starts \in Nat

LEMMA TypeInvImpliesTypeOK == TypeInv => TypeOK
  <1>1. LoopT => loop \in [Loop -> LoopRow] BY DEF LoopT, GoodLoop
  <1>2. ReqT => req \in [Req -> ReqRow] BY DEF ReqT, GoodReq
  <1> QED BY <1>1, <1>2 DEF TypeInv, TypeOK, RowT, FlowT, HistT, StepT, CtlT, EnvT

\* What a step leaves alone keeps its type.
LEMMA Frame ==
  /\ RowT /\ UNCHANGED row => RowT'
  /\ FlowT /\ UNCHANGED flow => FlowT'
  /\ HistT /\ UNCHANGED histVars => HistT'
  /\ StepT /\ UNCHANGED stepVars => StepT'
  /\ CtlT /\ UNCHANGED ctlVars => CtlT'
  /\ LoopT /\ UNCHANGED loop => LoopT'
  /\ ReqT /\ UNCHANGED req => ReqT'
  /\ EnvT /\ UNCHANGED envVars => EnvT'
  BY DEF RowT, FlowT, HistT, StepT, CtlT, LoopT, ReqT, EnvT,
         histVars, stepVars, ctlVars, envVars

LEMMA NoRowType == NoRow \in Row
  BY EngineAssumption DEF NoRow, Row, Status, Mode

LEMMA SelectType ==
  ASSUME NEW c \in Nat
  PROVE  Select(c) \in GoodLoop /\ Beginning(c) \in GoodLoop /\ NoLoop \in GoodLoop
  <1>1. Select(c) \in LoopRow /\ Select(0) \in LoopRow
    BY NoRowType DEF Select, LoopRow, NoSnap, LoopPC, Kind
  <1>2. Beginning(c) \in LoopRow /\ NoLoop \in LoopRow
    BY <1>1 DEF Beginning, NoLoop, LoopRow, LoopPC
  <1> QED BY <1>1, <1>2 DEF GoodLoop, Select, Beginning, NoLoop, AtStep, AtRound

LEMMA SetLoop ==
  ASSUME LoopT, NEW l \in Loop, NEW g \in GoodLoop, loop' = [loop EXCEPT ![l] = g]
  PROVE  LoopT'
  BY DEF LoopT

LEMMA GotoType ==
  ASSUME LoopT, NEW l \in Loop, NEW p \in LoopPC, Goto(l, p),
         loop[l].d \in Device,
         p \in AtStep => loop[l].cfg.step \in StepIdx,
         p \in AtRound => loop[l].cfg.mode = "loop"
  PROVE  LoopT'
  <1>1. loop[l] \in LoopRow BY DEF LoopT, GoodLoop
  <1>2. [loop[l] EXCEPT !.pc = p] \in GoodLoop BY <1>1 DEF LoopRow, GoodLoop
  <1>3. loop' = [loop EXCEPT ![l] = [loop[l] EXCEPT !.pc = p]] BY DEF Goto
  <1> QED BY <1>2, <1>3, SetLoop

LEMMA DoneType == ASSUME LoopT, NEW l \in Loop, Done(l) PROVE LoopT'
  <1>1. loop[l] \in LoopRow BY DEF LoopT, GoodLoop
  <1>2. Select(loop[l].ch) \in LoopRow BY <1>1, SelectType DEF LoopRow, GoodLoop
  <1>3. [Select(loop[l].ch) EXCEPT !.pc = "take", !.todo = loop[l].todo,
                                   !.snap = loop[l].snap] \in LoopRow
    BY <1>1, <1>2 DEF LoopRow, LoopPC
  <1>4. Taking(loop[l]) \in GoodLoop
    BY <1>2, <1>3 DEF Taking, GoodLoop, AtStep, AtRound, Select
  <1> QED BY <1>4, SetLoop DEF Done

\* A goroutine at work on a device: what it holds.
LEMMA AtWork ==
  ASSUME TypeInv, NEW l \in Loop, loop[l].pc \notin {"off", "wait", "take"}
  PROVE  /\ loop[l] \in LoopRow /\ loop[l].d \in Device
         /\ loop[l].cfg \in Row /\ loop[l].row \in Row
         /\ row[loop[l].d] \in Row
  BY DEF TypeInv, LoopT, RowT, GoodLoop, LoopRow

LEMMA SetRow ==
  ASSUME RowT, NEW d \in Device, NEW c \in Row, row' = [row EXCEPT ![d] = c]
  PROVE  RowT'
  BY DEF RowT

LEMMA StartHistoryType ==
  ASSUME HistT, EnvT, NEW d \in Device, StartHistory(d)
  PROVE  HistT'
  <1>1. [NoHist EXCEPT !.dev = d, !.st = "running", !.boot = boot] \in HistRow
    BY DEF EnvT, NoHist, HistRow, ExecStatus
  <1>2. nhist + 1 \in HistId /\ nhist + 1 \in 0 .. MaxHist
    BY EngineAssumption DEF HistT, StartHistory, HistId
  <1> QED BY <1>1, <1>2 DEF HistT, StartHistory

LEMMA CountsAreNat ==
  ASSUME StepT, NEW h, NEW st
  PROVE  Cardinality(RecsOf(h, st)) \in Nat
  <1>1. IsFiniteSet(1 .. nrec) BY EngineAssumption, FS_Interval DEF StepT
  <1>2. RecsOf(h, st) \subseteq 1 .. nrec BY DEF RecsOf
  <1> QED BY <1>1, <1>2, FS_Subset, FS_CardinalityType

LEMMA CompleteHistoryType ==
  ASSUME HistT, StepT, NEW d \in Device, NEW st \in ExecStatus, CompleteHistory(d, st)
  PROVE  HistT'
  <1>1. hist' \in [HistId -> HistRow]
    <2>1. CASE historyMap[d] = 0 BY <2>1 DEF HistT, CompleteHistory
    <2>2. CASE historyMap[d] # 0
      <3> DEFINE h == historyMap[d]
                 ok == Cardinality(RecsOf(h, "success"))
                 bad == Cardinality(RecsOf(h, "failed"))
      <3>1. hist[h] \in HistRow BY <2>2, EngineAssumption DEF HistT, HistId
      <3>2. ok \in Nat /\ bad \in Nat BY CountsAreNat
      <3> HIDE DEF ok, bad
      <3>3. [hist[h] EXCEPT !.st = st, !.ok = ok, !.bad = bad] \in HistRow
        BY <3>1, <3>2 DEF HistRow
      <3>4. hist' = [hist EXCEPT ![h] = [hist[h] EXCEPT !.st = st, !.ok = ok, !.bad = bad]]
        BY <2>2 DEF CompleteHistory, HistT, ok, bad
      <3> QED BY <3>3, <3>4 DEF HistT
    <2> QED BY <2>1, <2>2
  <1> QED BY <1>1, EngineAssumption DEF HistT, CompleteHistory

LEMMA StartStepRecordType ==
  ASSUME HistT, StepT, NEW d \in Device, NEW i \in Nat, StartStepRecord(d, i)
  PROVE  StepT'
  <1>1. CASE historyMap[d] = 0 BY <1>1, Frame DEF StartStepRecord
  <1>2. CASE historyMap[d] # 0
    <2>1. nrec + 1 \in RecId /\ nrec + 1 \in 0 .. MaxRec
      BY <1>2, EngineAssumption DEF StepT, StartStepRecord, RecId
    <2>2. [h |-> historyMap[d], step |-> i, st |-> "running"] \in RecRow
      BY DEF HistT, RecRow, ExecStatus
    <2> QED BY <1>2, <2>1, <2>2 DEF StepT, StartStepRecord
  <1> QED BY <1>1, <1>2

LEMMA CompleteStepRecordType ==
  ASSUME StepT, NEW d \in Device, NEW i \in StepIdx, NEW st \in ExecStatus,
         CompleteStepRecord(d, i, st)
  PROVE  StepT'
  <1> DEFINE r == stepMap[<<d, i>>]
  <1>1. recs' \in [RecId -> RecRow]
    <2>1. CASE r = 0 BY <2>1 DEF StepT, CompleteStepRecord
    <2>2. CASE r # 0
      <3>1. recs[r] \in RecRow BY <2>2, EngineAssumption DEF StepT, RecId
      <3>2. [recs[r] EXCEPT !.st = st] \in RecRow BY <3>1 DEF RecRow
      <3>3. recs' = [recs EXCEPT ![r] = [recs[r] EXCEPT !.st = st]]
        BY <2>2 DEF StepT, CompleteStepRecord
      <3> QED BY <3>2, <3>3 DEF StepT
    <2> QED BY <2>1, <2>2
  <1> QED BY <1>1, EngineAssumption DEF StepT, CompleteStepRecord

-----------------------------------------------------------------------------
(* The actions of a poll.                                                    *)

LEMMA TickType == ASSUME TypeInv, NEW l \in Loop, Tick(l) PROVE TypeInv'
  <1> DEFINE R == {d \in Device : row[d].status = "running"}
             copy == [d \in Device |-> IF d \in R THEN row[d] ELSE NoRow]
             g == [loop[l] EXCEPT !.pc = "take", !.todo = R, !.snap = copy]
  <1>1. loop[l] \in LoopRow BY DEF TypeInv, LoopT, GoodLoop
  <1>2. copy \in [Device -> Row] BY NoRowType DEF TypeInv, RowT
  <1> HIDE DEF copy
  <1>3. R \subseteq Device OBVIOUS
  <1> HIDE DEF R
  <1>4. g \in LoopRow BY <1>1, <1>2, <1>3 DEF LoopRow, LoopPC
  <1>5. g \in GoodLoop BY <1>4, <1>1 DEF GoodLoop, AtStep, AtRound, LoopRow
  <1>6. loop' = [loop EXCEPT ![l] = g] BY DEF Tick, R, copy
  <1> HIDE DEF g
  <1>7. LoopT' BY <1>5, <1>6, SetLoop DEF TypeInv
  <1> QED BY <1>7, Frame DEF TypeInv, Tick

LEMMA EnterSelectType == ASSUME TypeInv, NEW l \in Loop, EnterSelect(l) PROVE TypeInv'
  <1>1. LoopT' BY SelectType, SetLoop DEF TypeInv, CtlT, EnterSelect
  <1> QED BY <1>1, Frame DEF TypeInv, EnterSelect

LEMMA ExitLoopType == ASSUME TypeInv, NEW l \in Loop, ExitLoop(l) PROVE TypeInv'
  <1>1. LoopT' BY SelectType, SetLoop DEF TypeInv, ExitLoop
  <1> QED BY <1>1, Frame DEF TypeInv, ExitLoop

LEMMA TakeType ==
  ASSUME LoopT, NEW l \in Loop, NEW d \in Device,
         NEW p \in LoopPC \ AtStep, Take(l, d, p),
         p \in AtRound => loop[l].snap[d].mode = "loop"
  PROVE  LoopT'
  <1> DEFINE snap == [loop[l].snap EXCEPT ![d] = NoRow]
             g == [loop[l] EXCEPT !.pc = p, !.todo = @ \ {d}, !.d = d,
                                  !.cfg = loop[l].snap[d], !.snap = snap]
  <1>1. loop[l] \in LoopRow BY DEF LoopT, GoodLoop
  <1>2. loop[l].snap[d] \in Row /\ snap \in [Device -> Row]
    BY <1>1, NoRowType DEF LoopRow
  <1> HIDE DEF snap
  <1>3. g \in LoopRow BY <1>1, <1>2 DEF LoopRow
  <1>4. g.d = d /\ g.pc = p /\ g.cfg = loop[l].snap[d] BY <1>1 DEF LoopRow
  <1>5. g \in GoodLoop BY <1>3, <1>4 DEF GoodLoop
  <1>6. loop' = [loop EXCEPT ![l] = g] BY <1>1 DEF Take, snap, LoopRow, LoopT
  <1> HIDE DEF g
  <1> QED BY <1>5, <1>6, SetLoop

LEMMA ProcessBrokenType ==
  ASSUME TypeInv, NEW l \in Loop, NEW d \in Device, ProcessBroken(l, d) PROVE TypeInv'
  <1>1. LoopT' BY TakeType DEF TypeInv, ProcessBroken, LoopPC, AtStep, AtRound
  <1> QED BY <1>1, Frame DEF TypeInv, ProcessBroken

LEMMA ProcessEmptyType ==
  ASSUME TypeInv, NEW l \in Loop, NEW d \in Device, ProcessEmpty(l, d) PROVE TypeInv'
  <1>1. LoopT' BY TakeType DEF TypeInv, ProcessEmpty, LoopPC, AtStep, AtRound
  <1> QED BY <1>1, Frame DEF TypeInv, ProcessEmpty

LEMMA ProcessAtEndType ==
  ASSUME TypeInv, NEW l \in Loop, NEW d \in Device, ProcessAtEnd(l, d) PROVE TypeInv'
  <1> DEFINE p == IF loop[l].snap[d].mode = "loop" THEN "loopR" ELSE "doneR"
  <1>1. Take(l, d, p) BY DEF ProcessAtEnd
  <1>2. p \in LoopPC \ AtStep /\ (p \in AtRound => loop[l].snap[d].mode = "loop")
    BY DEF LoopPC, AtStep, AtRound
  <1> HIDE DEF p
  <1>3. LoopT' BY <1>1, <1>2, TakeType DEF TypeInv
  <1>4. HistT' BY CompleteHistoryType DEF TypeInv, ProcessAtEnd, ExecStatus
  <1> QED BY <1>3, <1>4, Frame DEF TypeInv, ProcessAtEnd

LEMMA ProcessStepType ==
  ASSUME TypeInv, NEW l \in Loop, NEW d \in Device, ProcessStep(l, d) PROVE TypeInv'
  <1> DEFINE c == loop[l].snap[d]
             steps == flow[c.rpa].steps
             snap == [loop[l].snap EXCEPT ![d] = NoRow]
             g == [loop[l] EXCEPT !.pc = "exec", !.todo = @ \ {d}, !.d = d,
                                  !.cfg = c, !.snap = snap,
                                  !.n = Len(steps), !.kind = steps[c.step + 1]]
  <1>1. loop[l] \in LoopRow BY DEF TypeInv, LoopT, GoodLoop
  <1>2. c \in Row /\ snap \in [Device -> Row] BY <1>1, NoRowType DEF LoopRow
  <1>3. c.step \in Nat BY <1>2 DEF Row
  <1>4. steps \in FlowDefs
    BY DEF ProcessStep, Found, TypeInv, FlowT, FlowRow
  <1>5. steps \in Seq(Kind) /\ Len(steps) <= MaxLen BY <1>4, EngineAssumption
  <1>6. c.step < Len(steps) BY DEF ProcessStep
  <1>7. Len(steps) \in Nat /\ steps[c.step + 1] \in Kind /\ c.step \in StepIdx
    <2> HIDE DEF c, steps
    <2>1. Len(steps) \in Nat BY <1>5
    <2>2. c.step + 1 \in 1 .. Len(steps) BY <1>3, <1>6, <2>1
    <2>3. steps[c.step + 1] \in Kind BY <1>5, <2>2
    <2>4. c.step \in 0 .. MaxLen - 1
      BY <1>3, <1>5, <1>6, <2>1, EngineAssumption
    <2> QED BY <2>1, <2>3, <2>4 DEF StepIdx
  <1>8. loop' = [loop EXCEPT ![l] = g]
    BY <1>1 DEF ProcessStep, LoopRow, TypeInv, LoopT
  <1>9. StepT'
    BY <1>3, StartStepRecordType, Frame DEF TypeInv, ProcessStep
  <1>10. UNCHANGED <<row, flow, histVars, ctlVars, req, starts, envVars>>
    BY DEF ProcessStep
  <1> HIDE DEF c, steps, snap
  <1>11. g \in LoopRow BY <1>1, <1>2, <1>7 DEF LoopRow, LoopPC
  <1>12. g.d = d /\ g.pc = "exec" /\ g.cfg = c BY <1>1 DEF LoopRow
  <1>13. g \in GoodLoop BY <1>7, <1>11, <1>12 DEF GoodLoop, AtStep, AtRound
  <1> HIDE DEF g
  <1>14. LoopT' BY <1>8, <1>13, SetLoop DEF TypeInv
  <1> QED BY <1>9, <1>10, <1>14, Frame DEF TypeInv

LEMMA ExecSuccessType == ASSUME TypeInv, NEW l \in Loop, ExecSuccess(l) PROVE TypeInv'
  <1>1. loop[l] \in LoopRow /\ loop[l].d \in Device /\ loop[l].cfg \in Row
    BY AtWork DEF ExecSuccess
  <1>2. loop[l].cfg.step \in StepIdx BY DEF TypeInv, LoopT, GoodLoop, ExecSuccess, AtStep
  <1>3. PICK nx \in NextSteps(loop[l]), stop \in BOOLEAN :
          LET after == IF stop THEN "doneR" ELSE "progress" IN
          loop' = [loop EXCEPT ![l].next = nx, ![l].goto = after,
                     ![l].pc = IF loop[l].kind = "act" THEN after ELSE "mergeR"]
    BY DEF ExecSuccess
  <1> DEFINE after == IF stop THEN "doneR" ELSE "progress"
             p == IF loop[l].kind = "act" THEN after ELSE "mergeR"
             g == [loop[l] EXCEPT !.next = nx, !.goto = after, !.pc = p]
  <1>4. nx \in Nat
    BY <1>1, <1>3 DEF NextSteps, LoopRow, Row
  <1>5. after \in {"take", "progress", "doneR"} /\ p \in LoopPC /\ p \notin AtRound
    BY DEF LoopPC, AtRound
  <1>6. loop' = [loop EXCEPT ![l] = g] BY <1>3 DEF TypeInv, LoopT
  <1> HIDE DEF after, p
  <1>7. g \in LoopRow BY <1>1, <1>4, <1>5 DEF LoopRow
  <1>8. g.d = loop[l].d /\ g.pc = p /\ g.cfg = loop[l].cfg BY <1>1 DEF LoopRow
  <1>9. g \in GoodLoop BY <1>1, <1>2, <1>5, <1>7, <1>8 DEF GoodLoop
  <1> HIDE DEF g
  <1>10. LoopT' BY <1>6, <1>9, SetLoop DEF TypeInv
  <1>11. StepT'
    BY <1>1, <1>2, CompleteStepRecordType DEF TypeInv, ExecSuccess, ExecStatus
  <1> QED BY <1>10, <1>11, Frame DEF TypeInv, ExecSuccess

LEMMA ExecFailType == ASSUME TypeInv, NEW l \in Loop, ExecFail(l) PROVE TypeInv'
  <1>1. loop[l].pc = "exec" BY DEF ExecFail
  <1>2. loop[l].d \in Device /\ row[loop[l].d] \in Row BY <1>1, AtWork
  <1>3. loop[l].cfg.step \in StepIdx BY <1>1 DEF TypeInv, LoopT, GoodLoop, AtStep
  <1>4. LoopT'
    BY <1>2, <1>3, GotoType DEF TypeInv, ExecFail, LoopPC, AtRound
  <1>5. [row[loop[l].d] EXCEPT !.status = "error"] \in Row BY <1>2 DEF Row, Status
  <1>6. RowT' BY <1>2, <1>5, SetRow DEF TypeInv, ExecFail
  <1> QED BY <1>4, <1>6, Frame DEF TypeInv, ExecFail

LEMMA ExecPendingType == ASSUME TypeInv, NEW l \in Loop, ExecPending(l) PROVE TypeInv'
  <1> DEFINE step == loop[l].cfg.step
             sub == loop[l].cfg.sub + 1
  <1>1. loop[l].d \in Device /\ row[loop[l].d] \in Row /\ loop[l].cfg \in Row
    BY AtWork DEF ExecPending
  <1>2. step \in Nat /\ sub \in Nat BY <1>1 DEF Row
  <1>3. row' = [row EXCEPT ![loop[l].d] = [row[loop[l].d] EXCEPT !.step = step, !.sub = sub]]
    <2>1. row \in [Device -> Row] BY DEF TypeInv, RowT
    <2>2. row' = [row EXCEPT ![loop[l].d].step = step, ![loop[l].d].sub = sub]
      BY DEF ExecPending
    <2> QED BY <1>1, <2>1, <2>2 DEF Row
  <1> HIDE DEF step, sub
  <1>4. [row[loop[l].d] EXCEPT !.step = step, !.sub = sub] \in Row
    BY <1>1, <1>2 DEF Row
  <1>5. RowT' BY <1>1, <1>3, <1>4, SetRow DEF TypeInv
  <1>6. LoopT' BY DoneType DEF TypeInv, ExecPending
  <1> QED BY <1>5, <1>6, Frame DEF TypeInv, ExecPending

\* A read of the row, kept in the goroutine.
LEMMA ReadRowType ==
  ASSUME TypeInv, NEW l \in Loop, NEW p \in LoopPC,
         loop[l].pc \notin {"off", "wait", "take"},
         p \in AtStep => loop[l].cfg.step \in StepIdx,
         p \in AtRound => loop[l].cfg.mode = "loop",
         loop' = [loop EXCEPT ![l].pc = p, ![l].row = row[loop[l].d]]
  PROVE  LoopT'
  <1>1. loop[l] \in LoopRow /\ loop[l].d \in Device /\ row[loop[l].d] \in Row BY AtWork
  <1> DEFINE g == [loop[l] EXCEPT !.pc = p, !.row = row[loop[l].d]]
  <1>2. g \in LoopRow BY <1>1 DEF LoopRow
  <1>3. g.d = loop[l].d /\ g.pc = p /\ g.cfg = loop[l].cfg BY <1>1 DEF LoopRow
  <1>4. g \in GoodLoop BY <1>1, <1>2, <1>3 DEF GoodLoop
  <1>5. loop' = [loop EXCEPT ![l] = g] BY <1>1 DEF TypeInv, LoopT
  <1> HIDE DEF g
  <1> QED BY <1>4, <1>5, SetLoop DEF TypeInv

LEMMA MergeReadType == ASSUME TypeInv, NEW l \in Loop, MergeRead(l) PROVE TypeInv'
  <1>1. loop[l].pc = "mergeR" BY DEF MergeRead
  <1>2. loop[l].cfg.step \in StepIdx BY <1>1 DEF TypeInv, LoopT, GoodLoop, AtStep
  <1>3. LoopT' BY <1>1, <1>2, ReadRowType DEF MergeRead, LoopPC, AtRound
  <1> QED BY <1>3, Frame DEF TypeInv, MergeRead

LEMMA CompletedReadType == ASSUME TypeInv, NEW l \in Loop, CompletedRead(l) PROVE TypeInv'
  <1>1. LoopT' BY ReadRowType DEF CompletedRead, ReadRow, LoopPC, AtRound, AtStep
  <1> QED BY <1>1, Frame DEF TypeInv, CompletedRead, ReadRow

LEMMA LoopCountReadType == ASSUME TypeInv, NEW l \in Loop, LoopCountRead(l) PROVE TypeInv'
  <1>1. loop[l].pc = "loopR" BY DEF LoopCountRead, ReadRow
  <1>2. loop[l].cfg.mode = "loop" BY <1>1 DEF TypeInv, LoopT, GoodLoop, AtRound
  <1>3. LoopT' BY <1>1, <1>2, ReadRowType DEF LoopCountRead, ReadRow, LoopPC, AtStep
  <1> QED BY <1>3, Frame DEF TypeInv, LoopCountRead, ReadRow

\* A row written back: the goroutine drops what it read.
LEMMA DropRowType ==
  ASSUME TypeInv, NEW l \in Loop, NEW p \in LoopPC,
         loop[l].pc \notin {"off", "wait", "take"},
         p \in AtStep => loop[l].cfg.step \in StepIdx,
         p \in AtRound => loop[l].cfg.mode = "loop",
         loop' = [loop EXCEPT ![l].pc = p, ![l].row = NoRow]
  PROVE  LoopT'
  <1>1. loop[l] \in LoopRow /\ loop[l].d \in Device BY AtWork
  <1> DEFINE g == [loop[l] EXCEPT !.pc = p, !.row = NoRow]
  <1>2. g \in LoopRow BY <1>1, NoRowType DEF LoopRow
  <1>3. g.d = loop[l].d /\ g.pc = p /\ g.cfg = loop[l].cfg BY <1>1 DEF LoopRow
  <1>4. g \in GoodLoop BY <1>1, <1>2, <1>3 DEF GoodLoop
  <1>5. loop' = [loop EXCEPT ![l] = g] BY <1>1 DEF TypeInv, LoopT
  <1> HIDE DEF g
  <1> QED BY <1>4, <1>5, SetLoop DEF TypeInv

LEMMA MergeWriteType == ASSUME TypeInv, NEW l \in Loop, MergeWrite(l) PROVE TypeInv'
  <1>1. loop[l].pc = "mergeW" BY DEF MergeWrite
  <1>2. /\ loop[l].d \in Device /\ row[loop[l].d] \in Row
        /\ loop[l].cfg.run \in Nat /\ loop[l].cfg.step \in Nat
        /\ loop[l].row.vars \in SUBSET (Nat \X Nat)
        /\ loop[l].goto \in {"take", "progress", "doneR"}
    BY <1>1, AtWork DEF Row, LoopRow
  <1>3. loop[l].cfg.step \in StepIdx BY <1>1 DEF TypeInv, LoopT, GoodLoop, AtStep
  <1>4. LoopT'
    BY <1>1, <1>2, <1>3, DropRowType DEF MergeWrite, LoopPC, AtRound
  <1> DEFINE v == loop[l].row.vars \cup {<<loop[l].cfg.run, loop[l].cfg.step>>}
  <1>5. v \in SUBSET (Nat \X Nat) BY <1>2
  <1>6. row' = [row EXCEPT ![loop[l].d] = [row[loop[l].d] EXCEPT !.vars = v]]
    BY <1>2 DEF MergeWrite, TypeInv, RowT
  <1> HIDE DEF v
  <1>7. [row[loop[l].d] EXCEPT !.vars = v] \in Row BY <1>2, <1>5 DEF Row
  <1>8. RowT' BY <1>2, <1>6, <1>7, SetRow DEF TypeInv
  <1> QED BY <1>4, <1>8, Frame DEF TypeInv, MergeWrite

LEMMA ProgressType == ASSUME TypeInv, NEW l \in Loop, Progress(l) PROVE TypeInv'
  <1>1. /\ loop[l].d \in Device /\ row[loop[l].d] \in Row /\ loop[l].next \in Nat
    BY AtWork DEF Progress, LoopRow
  <1>2. [row[loop[l].d] EXCEPT !.step = loop[l].next, !.sub = 0] \in Row
    BY <1>1 DEF Row
  <1>3. row' = [row EXCEPT ![loop[l].d] =
                  [row[loop[l].d] EXCEPT !.step = loop[l].next, !.sub = 0]]
    BY <1>1 DEF Progress, TypeInv, RowT, Row
  <1>4. RowT' BY <1>1, <1>2, <1>3, SetRow DEF TypeInv
  <1>5. LoopT' BY DoneType DEF TypeInv, Progress
  <1> QED BY <1>4, <1>5, Frame DEF TypeInv, Progress

LEMMA FailStepType == ASSUME TypeInv, NEW l \in Loop, FailStep(l) PROVE TypeInv'
  <1>1. loop[l].pc = "failStep" BY DEF FailStep
  <1>2. loop[l].d \in Device BY <1>1, AtWork
  <1>3. loop[l].cfg.step \in StepIdx BY <1>1 DEF TypeInv, LoopT, GoodLoop, AtStep
  <1>4. LoopT' BY <1>2, GotoType DEF TypeInv, FailStep, LoopPC, AtStep, AtRound
  <1>5. StepT' BY <1>2, <1>3, CompleteStepRecordType DEF TypeInv, FailStep, ExecStatus
  <1> QED BY <1>4, <1>5, Frame DEF TypeInv, FailStep

LEMMA FailHistType == ASSUME TypeInv, NEW l \in Loop, FailHist(l) PROVE TypeInv'
  <1>1. loop[l].d \in Device BY AtWork DEF FailHist
  <1>2. HistT' BY <1>1, CompleteHistoryType DEF TypeInv, FailHist, ExecStatus
  <1>3. LoopT' BY DoneType DEF TypeInv, FailHist
  <1> QED BY <1>2, <1>3, Frame DEF TypeInv, FailHist

LEMMA SetDeviceErrorType == ASSUME TypeInv, NEW l \in Loop, SetDeviceError(l) PROVE TypeInv'
  <1>1. loop[l].d \in Device /\ row[loop[l].d] \in Row BY AtWork DEF SetDeviceError
  <1>2. [row[loop[l].d] EXCEPT !.status = "error"] \in Row BY <1>1 DEF Row, Status
  <1>3. RowT' BY <1>1, <1>2, SetRow DEF TypeInv, SetDeviceError
  <1>4. LoopT' BY DoneType DEF TypeInv, SetDeviceError
  <1> QED BY <1>3, <1>4, Frame DEF TypeInv, SetDeviceError

LEMMA CompletedSaveType == ASSUME TypeInv, NEW l \in Loop, CompletedSave(l) PROVE TypeInv'
  <1>1. loop[l].d \in Device /\ loop[l].row \in Row BY AtWork DEF CompletedSave
  <1>2. [loop[l].row EXCEPT !.status = "completed"] \in Row BY <1>1 DEF Row, Status
  <1>3. RowT' BY <1>1, <1>2, SetRow DEF TypeInv, CompletedSave
  <1>4. LoopT' BY DoneType DEF TypeInv, CompletedSave
  <1> QED BY <1>3, <1>4, Frame DEF TypeInv, CompletedSave

LEMMA LoopCountSaveType == ASSUME TypeInv, NEW l \in Loop, LoopCountSave(l) PROVE TypeInv'
  <1>1. loop[l].pc = "loopW" BY DEF LoopCountSave
  <1>2. loop[l].d \in Device /\ loop[l].row \in Row BY <1>1, AtWork
  <1>3. [loop[l].row EXCEPT !.loops = @ + 1] \in Row BY <1>2 DEF Row
  <1>4. RowT' BY <1>2, <1>3, SetRow DEF TypeInv, LoopCountSave
  <1>5. loop[l].cfg.mode = "loop" BY <1>1 DEF TypeInv, LoopT, GoodLoop, AtRound
  <1>6. LoopT' BY <1>1, <1>5, DropRowType DEF LoopCountSave, LoopPC, AtStep
  <1> QED BY <1>4, <1>6, Frame DEF TypeInv, LoopCountSave

LEMMA LoopRewindType == ASSUME TypeInv, NEW l \in Loop, LoopRewind(l) PROVE TypeInv'
  <1>1. loop[l].pc = "loopRewind" BY DEF LoopRewind
  <1>2. loop[l].d \in Device /\ row[loop[l].d] \in Row BY <1>1, AtWork
  <1>3. [row[loop[l].d] EXCEPT !.step = 0, !.sub = 0] \in Row BY <1>2 DEF Row
  <1>4. row' = [row EXCEPT ![loop[l].d] = [row[loop[l].d] EXCEPT !.step = 0, !.sub = 0]]
    BY <1>2 DEF LoopRewind, TypeInv, RowT, Row
  <1>5. RowT' BY <1>2, <1>3, <1>4, SetRow DEF TypeInv
  <1>6. loop[l].cfg.mode = "loop" BY <1>1 DEF TypeInv, LoopT, GoodLoop, AtRound
  <1>7. LoopT' BY <1>2, <1>6, GotoType DEF TypeInv, LoopRewind, LoopPC, AtStep
  <1> QED BY <1>5, <1>7, Frame DEF TypeInv, LoopRewind

LEMMA LoopHistoryType == ASSUME TypeInv, NEW l \in Loop, LoopHistory(l) PROVE TypeInv'
  <1>1. loop[l].d \in Device BY AtWork DEF LoopHistory
  <1>2. HistT' BY <1>1, StartHistoryType DEF TypeInv, LoopHistory
  <1>3. LoopT' BY DoneType DEF TypeInv, LoopHistory
  <1> QED BY <1>2, <1>3, Frame DEF TypeInv, LoopHistory

LEMMA PollType == ASSUME TypeInv, NEW l \in Loop, Poll(l) PROVE TypeInv'
  <1>1. ASSUME NEW d \in Device,
               ProcessBroken(l, d) \/ ProcessEmpty(l, d) \/ ProcessAtEnd(l, d)
                 \/ ProcessStep(l, d)
        PROVE  TypeInv'
    BY <1>1, ProcessBrokenType, ProcessEmptyType, ProcessAtEndType, ProcessStepType
  <1> QED
    BY <1>1, TickType, EnterSelectType, ExitLoopType, ExecSuccessType, ExecFailType,
       ExecPendingType, MergeReadType, MergeWriteType, ProgressType, FailStepType,
       FailHistType, SetDeviceErrorType, CompletedReadType, CompletedSaveType,
       LoopCountReadType, LoopCountSaveType, LoopRewindType, LoopHistoryType DEF Poll

-----------------------------------------------------------------------------
(* The actions of a handler.                                                 *)

LEMMA CallEnv == ASSUME EnvT, NEW op, Call(op) PROVE EnvT'
  BY EngineAssumption DEF EnvT, Call

LEMMA SetReq ==
  ASSUME ReqT, NEW r \in Req, NEW q \in GoodReq, req' = [req EXCEPT ![r] = q]
  PROVE  ReqT'
  BY DEF ReqT

LEMMA NoReqType == NoReq \in GoodReq
  BY NoRowType DEF NoReq, GoodReq, ReqRow, ReqPC

LEMMA ReplyType == ASSUME ReqT, NEW r \in Req, Reply(r) PROVE ReqT'
  BY NoReqType, SetReq DEF Reply

\* A handler that begins to work on a device.
LEMMA BeginType ==
  ASSUME NEW d \in Device, NEW p \in ReqPC
  PROVE  [NoReq EXCEPT !.pc = p, !.d = d] \in GoodReq
  <1>1. [NoReq EXCEPT !.pc = p, !.d = d] \in ReqRow BY NoRowType DEF NoReq, ReqRow
  <1> QED BY <1>1 DEF GoodReq, NoReq

\* A handler that goes on, with another row in its hands.
LEMMA GoOnType ==
  ASSUME ReqT, NEW r \in Req, req[r].d \in Device, NEW p \in ReqPC, NEW c \in Row
  PROVE  [req[r] EXCEPT !.pc = p, !.row = c] \in GoodReq
  <1>1. req[r] \in ReqRow BY DEF ReqT, GoodReq
  <1>2. [req[r] EXCEPT !.pc = p, !.row = c] \in ReqRow BY <1>1 DEF ReqRow
  <1> QED BY <1>1, <1>2 DEF GoodReq, ReqRow

LEMMA Handling ==
  ASSUME TypeInv, NEW r \in Req, req[r].pc \notin {"idle", "goLoop", "wgWait"}
  PROVE  /\ req[r] \in ReqRow /\ req[r].d \in Device /\ req[r].row \in Row
         /\ row[req[r].d] \in Row
  BY DEF TypeInv, ReqT, RowT, GoodReq, ReqRow

LEMMA SetColumnsType ==
  ASSUME RowT, NEW d \in Device, NEW c \in Row, SetColumns(d, c) PROVE RowT'
  BY SetRow, Frame DEF SetColumns

LEMMA BindReadType ==
  ASSUME TypeInv, NEW r \in Req, NEW d \in Device, NEW f \in Flow, NEW m \in Mode,
         BindRead(r, d, f, m)
  PROVE  TypeInv'
  <1> DEFINE old == IF row[d].status = "none" THEN [NoRow EXCEPT !.status = "idle"]
                    ELSE row[d]
             new == [old EXCEPT !.rpa = f, !.mode = m, !.status = "idle", !.step = 0,
                                !.sub = 0, !.loops = 0]
             q == [pc |-> "bindW", d |-> d, row |-> new]
  <1>1. old \in Row
    <2>1. [NoRow EXCEPT !.status = "idle"] \in Row BY NoRowType DEF Row, Status
    <2> QED BY <2>1 DEF TypeInv, RowT
  <1>2. row' = [row EXCEPT ![d] = old] /\ req' = [req EXCEPT ![r] = q]
    BY DEF BindRead
  <1> HIDE DEF old
  <1>3. new \in Row BY <1>1 DEF Row, Status
  <1> HIDE DEF new
  <1>4. q \in GoodReq BY <1>3 DEF GoodReq, ReqRow, ReqPC
  <1> HIDE DEF q
  <1>5. RowT' /\ ReqT' BY <1>1, <1>2, <1>4, SetRow, SetReq DEF TypeInv
  <1>6. EnvT' BY CallEnv DEF TypeInv, BindRead, Begin
  <1> QED BY <1>5, <1>6, Frame DEF TypeInv, BindRead

LEMMA BindSaveType == ASSUME TypeInv, NEW r \in Req, BindSave(r) PROVE TypeInv'
  <1>1. req[r].d \in Device /\ req[r].row \in Row BY Handling DEF BindSave
  <1>2. RowT' BY <1>1, SetRow DEF TypeInv, BindSave
  <1>3. ReqT' BY ReplyType DEF TypeInv, BindSave
  <1> QED BY <1>2, <1>3, Frame DEF TypeInv, BindSave

LEMMA StartCancelType ==
  ASSUME TypeInv, NEW r \in Req, NEW d \in Device, StartCancel(r, d) PROVE TypeInv'
  <1>1. \A h \in HistId : [hist[h] EXCEPT !.st = "cancelled"] \in HistRow
    BY DEF TypeInv, HistT, HistRow, ExecStatus
  <1>2. HistT' BY <1>1 DEF TypeInv, HistT, StartCancel
  <1>3. "startR" \in ReqPC BY DEF ReqPC
  <1>4. ReqT' BY <1>3, BeginType, SetReq DEF TypeInv, StartCancel
  <1>5. EnvT' BY CallEnv DEF TypeInv, StartCancel, Begin
  <1> QED BY <1>2, <1>4, <1>5, Frame DEF TypeInv, StartCancel

LEMMA StartReadType == ASSUME TypeInv, NEW r \in Req, StartRead(r) PROVE TypeInv'
  <1> DEFINE old == row[req[r].d]
             new == [old EXCEPT !.status = "running", !.step = 0, !.sub = 0,
                                !.run = starts + 1, !.vars = {}]
  <1>1. req[r] \in ReqRow /\ req[r].d \in Device /\ req[r].row \in Row /\ old \in Row
    BY Handling DEF StartRead
  <1>2. starts \in Nat /\ ReqT BY DEF TypeInv
  <1>3. CASE old.status = "none"
    <2>1. req' = [req EXCEPT ![r] = [req[r] EXCEPT !.pc = "startHist"]] /\ starts' = starts
      BY <1>3 DEF StartRead
    <2>2. [req[r] EXCEPT !.pc = "startHist"] \in GoodReq
      BY <1>1 DEF GoodReq, ReqRow, ReqPC
    <2>3. ReqT' BY <1>2, <2>1, <2>2, SetReq
    <2> QED BY <2>1, <2>3, Frame DEF TypeInv, StartRead
  <1>4. CASE old.status # "none"
    <2>1. starts' = starts + 1 BY <1>4 DEF StartRead
    <2>2. req' = [req EXCEPT ![r].pc = "startW", ![r].row = new] BY <1>4 DEF StartRead
    <2>3. UNCHANGED <<row, flow, histVars, stepVars, ctlVars, loop, envVars>>
      BY DEF StartRead
    <2>4. new \in Row
      <3>1. starts + 1 \in Nat BY <1>2
      <3> DEFINE n == starts + 1
      <3> HIDE DEF old, n
      <3>2. [old EXCEPT !.status = "running", !.step = 0, !.sub = 0, !.run = n,
                        !.vars = {}] \in Row
        BY <1>1, <3>1 DEF Row, Status, n
      <3> QED BY <3>2 DEF n
    <2> HIDE DEF new
    <2>5. req' = [req EXCEPT ![r] = [req[r] EXCEPT !.pc = "startW", !.row = new]]
      BY <2>2 DEF TypeInv, ReqT
    <2>6. "startW" \in ReqPC BY DEF ReqPC
    <2>7. ReqT' BY <1>1, <1>2, <2>4, <2>5, <2>6, GoOnType, SetReq
    <2> QED BY <1>2, <2>1, <2>3, <2>7, Frame DEF TypeInv
  <1> QED BY <1>3, <1>4

LEMMA StartSaveType == ASSUME TypeInv, NEW r \in Req, StartSave(r) PROVE TypeInv'
  <1>1. req[r].d \in Device /\ req[r].row \in Row BY Handling DEF StartSave
  <1>2. RowT' BY <1>1, SetRow DEF TypeInv, StartSave
  <1>3. req' = [req EXCEPT ![r] = [req[r] EXCEPT !.pc = "startHist", !.row = NoRow]]
    BY DEF StartSave, TypeInv, ReqT
  <1>4. "startHist" \in ReqPC BY DEF ReqPC
  <1>5. [req[r] EXCEPT !.pc = "startHist", !.row = NoRow] \in GoodReq
    BY <1>1, <1>4, NoRowType, GoOnType DEF TypeInv
  <1>6. ReqT' BY <1>3, <1>5, SetReq DEF TypeInv
  <1> QED BY <1>2, <1>6, Frame DEF TypeInv, StartSave

LEMMA StartOpenType == ASSUME TypeInv, NEW r \in Req, StartOpen(r) PROVE TypeInv'
  <1>1. req[r].d \in Device BY Handling DEF StartOpen
  <1>2. HistT' BY <1>1, StartHistoryType, Frame DEF TypeInv, StartOpen
  <1>3. ReqT' BY ReplyType DEF TypeInv, StartOpen
  <1> QED BY <1>2, <1>3, Frame DEF TypeInv, StartOpen

LEMMA PauseType == ASSUME TypeInv, NEW d \in Device, Pause(d) PROVE TypeInv'
  <1>1. [row[d] EXCEPT !.status = "paused"] \in Row BY DEF TypeInv, RowT, Row, Status
  <1>2. RowT' BY <1>1, SetColumnsType DEF TypeInv, Pause
  <1>3. EnvT' BY CallEnv DEF TypeInv, Pause
  <1> QED BY <1>2, <1>3, Frame DEF TypeInv, Pause

LEMMA ResumeType == ASSUME TypeInv, NEW d \in Device, Resume(d) PROVE TypeInv'
  <1>1. [row[d] EXCEPT !.status = "running"] \in Row BY DEF TypeInv, RowT, Row, Status
  <1>2. RowT' BY <1>1, SetColumnsType DEF TypeInv, Resume
  <1>3. EnvT' BY CallEnv DEF TypeInv, Resume
  <1> QED BY <1>2, <1>3, Frame DEF TypeInv, Resume

LEMMA StopHistoryType ==
  ASSUME TypeInv, NEW r \in Req, NEW d \in Device, StopHistory(r, d) PROVE TypeInv'
  <1>1. HistT' BY CompleteHistoryType DEF TypeInv, StopHistory, ExecStatus
  <1>2. "stopW" \in ReqPC BY DEF ReqPC
  <1>3. ReqT' BY <1>2, BeginType, SetReq DEF TypeInv, StopHistory
  <1>4. EnvT' BY CallEnv DEF TypeInv, StopHistory, Begin
  <1> QED BY <1>1, <1>3, <1>4, Frame DEF TypeInv, StopHistory

LEMMA StopSaveType == ASSUME TypeInv, NEW r \in Req, StopSave(r) PROVE TypeInv'
  <1>1. req[r].d \in Device /\ row[req[r].d] \in Row BY Handling DEF StopSave
  <1>2. [row[req[r].d] EXCEPT !.status = "idle", !.step = 0, !.sub = 0] \in Row
    BY <1>1 DEF Row, Status
  <1>3. RowT' BY <1>1, <1>2, SetColumnsType DEF TypeInv, StopSave
  <1>4. ReqT' BY ReplyType DEF TypeInv, StopSave
  <1> QED BY <1>3, <1>4, Frame DEF TypeInv, StopSave

LEMMA SaveFlowType ==
  ASSUME TypeInv, NEW f \in Flow, NEW s \in FlowDefs, SaveFlow(f, s) PROVE TypeInv'
  <1>1. FlowT' BY DEF TypeInv, FlowT, FlowRow, SaveFlow
  <1>2. EnvT' BY CallEnv DEF TypeInv, SaveFlow
  <1> QED BY <1>1, <1>2, Frame DEF TypeInv, SaveFlow

LEMMA DeleteFlowType ==
  ASSUME TypeInv, NEW f \in Flow, DeleteFlow(f) PROVE TypeInv'
  <1>1. FlowT' BY DEF TypeInv, FlowT, FlowRow, DeleteFlow
  <1>2. EnvT' BY CallEnv DEF TypeInv, DeleteFlow
  <1> QED BY <1>1, <1>2, Frame DEF TypeInv, DeleteFlow

\* A handler that waits for the engine: it holds no device.
LEMMA WaitType ==
  ASSUME ReqT, NEW r \in Req, NEW p \in {"goLoop", "wgWait"}
  PROVE  [req[r] EXCEPT !.pc = p] \in GoodReq
  BY DEF ReqT, GoodReq, ReqRow, ReqPC

LEMMA StartEngineType == ASSUME TypeInv, NEW r \in Req, StartEngine(r) PROVE TypeInv'
  <1>1. CtlT' BY DEF TypeInv, CtlT, StartEngine
  <1>2. ReqT'
    <2>1. CASE running BY <2>1, Frame DEF TypeInv, StartEngine
    <2>2. CASE ~running
      <3>1. req' = [req EXCEPT ![r] = [req[r] EXCEPT !.pc = "goLoop"]]
        BY <2>2 DEF StartEngine
      <3> QED BY <3>1, WaitType, SetReq DEF TypeInv
    <2> QED BY <2>1, <2>2
  <1>3. EnvT' BY CallEnv DEF TypeInv, StartEngine, Begin
  <1> QED BY <1>1, <1>2, <1>3, Frame DEF TypeInv, StartEngine

LEMMA StartLoopType ==
  ASSUME TypeInv, NEW r \in Req, NEW l \in Loop, StartLoop(r, l) PROVE TypeInv'
  <1>1. LoopT' BY SelectType, SetLoop DEF TypeInv, CtlT, StartLoop
  <1>2. ReqT' BY ReplyType DEF TypeInv, StartLoop
  <1> QED BY <1>1, <1>2, Frame DEF TypeInv, StartLoop

LEMMA StopEngineType == ASSUME TypeInv, NEW r \in Req, StopEngine(r) PROVE TypeInv'
  <1>1. CtlT' BY DEF TypeInv, CtlT, StopEngine
  <1>2. ReqT'
    <2>1. CASE ~running BY <2>1, Frame DEF TypeInv, StopEngine
    <2>2. CASE running
      <3>1. req' = [req EXCEPT ![r] = [req[r] EXCEPT !.pc = "wgWait"]]
        BY <2>2 DEF StopEngine
      <3> QED BY <3>1, WaitType, SetReq DEF TypeInv
    <2> QED BY <2>1, <2>2
  <1>3. EnvT' BY CallEnv DEF TypeInv, StopEngine, Begin
  <1> QED BY <1>1, <1>2, <1>3, Frame DEF TypeInv, StopEngine

LEMMA StopEngineWaitType ==
  ASSUME TypeInv, NEW r \in Req, StopEngineWait(r) PROVE TypeInv'
  <1>1. ReqT' BY ReplyType DEF TypeInv, StopEngineWait
  <1> QED BY <1>1, Frame DEF TypeInv, StopEngineWait

LEMMA HandleType == ASSUME TypeInv, NEW r \in Req, Handle(r) PROVE TypeInv'
  BY BindSaveType, StartReadType, StartSaveType, StartOpenType, StopSaveType,
     StopEngineWaitType, StartLoopType DEF Handle

LEMMA RequestType == ASSUME TypeInv, Request PROVE TypeInv'
  BY BindReadType, StartCancelType, StopHistoryType, PauseType, ResumeType,
     DeleteFlowType, SaveFlowType, StartEngineType, StopEngineType DEF Request

-----------------------------------------------------------------------------
LEMMA BootType == ASSUME NEW l \in Loop PROVE Boot(l) \in [Loop -> GoodLoop]
  BY SelectType DEF Boot

LEMMA CrashType == ASSUME TypeInv, NEW l \in Loop, Crash(l) PROVE TypeInv'
  <1>1. HistT' BY EngineAssumption DEF TypeInv, HistT, Crash
  <1>2. StepT' BY EngineAssumption DEF TypeInv, StepT, Crash
  <1>3. LoopT' BY BootType DEF LoopT, Crash
  <1>4. ReqT' BY NoReqType DEF ReqT, Crash
  <1>5. CtlT' BY DEF CtlT, Crash
  <1>6. EnvT' BY DEF TypeInv, EnvT, Crash
  <1> QED BY <1>1, <1>2, <1>3, <1>4, <1>5, <1>6, Frame DEF TypeInv, Crash

LEMMA InitType == Init => TypeInv
  <1> SUFFICES ASSUME Init PROVE TypeInv
    OBVIOUS
  <1>1. RowT
    <2>1. \A f \in Flow, m \in Mode : BoundRow(f, m) \in Row
      BY NoRowType DEF BoundRow, Row, Status, Mode
    <2>2. FirstRow \subseteq Row BY <2>1, NoRowType DEF FirstRow
    <2> QED BY <2>2 DEF RowT, Init
  <1>2. FlowT BY DEF FlowT, FlowRow, Init
  <1>3. HistT
    <2>1. NoHist \in HistRow BY DEF NoHist, HistRow
    <2> QED BY <2>1, EngineAssumption DEF HistT, Init
  <1>4. StepT
    <2>1. NoRec \in RecRow BY EngineAssumption DEF NoRec, RecRow
    <2> QED BY <2>1, EngineAssumption DEF StepT, Init
  <1>5. LoopT BY BootType DEF LoopT, Init
  <1>6. ReqT BY NoReqType DEF ReqT, Init
  <1>7. CtlT /\ EnvT BY EngineAssumption DEF CtlT, EnvT, Init
  <1> QED BY <1>1, <1>2, <1>3, <1>4, <1>5, <1>6, <1>7 DEF TypeInv, Init

LEMMA NextType == TypeInv /\ [Next]_vars => TypeInv'
  <1> SUFFICES ASSUME TypeInv, [Next]_vars PROVE TypeInv'
    OBVIOUS
  <1>1. CASE UNCHANGED vars
    BY <1>1, Frame DEF TypeInv, vars, histVars, stepVars, ctlVars, envVars
  <1>2. CASE Next
    BY <1>2, PollType, CrashType, HandleType, RequestType DEF Next
  <1> QED BY <1>1, <1>2

THEOREM TypeInvariant == Spec => []TypeInv
  BY InitType, NextType, PTL DEF Spec

\* Every variable keeps its type, through every interleaving of polls, handlers
\* and crashes of the engine and its tables.
THEOREM TypeCorrect == Spec => []TypeOK
  BY TypeInvariant, TypeInvImpliesTypeOK, PTL

-----------------------------------------------------------------------------
(* The execution history and the step records.  Every step touches them      *)
(* through the functions that hold historyMu, through CancelRunningExecutions,*)
(* or by a crash: the cases of HistSteps and RecSteps.  The invariants are    *)
(* inductive once the rows of the history are known to belong to devices and  *)
(* to this process or an earlier one.                                         *)

Ended == ExecStatus \ {"running"}

\* Rows of the history that exist.
HistRows == \A h \in 1 .. nhist : hist[h].dev \in Device /\ hist[h].boot <= boot

HistInv == HistRows /\ LiveHistoryIsNewest /\ RunningHistoryOwned

LEMMA HistSteps ==
  ASSUME TypeInv, [Next]_vars
  PROVE  \/ UNCHANGED <<histVars, boot>>
         \/ \E d \in Device : StartHistory(d) /\ UNCHANGED boot
         \/ \E d \in Device, st \in Ended :
              /\ CompleteHistory(d, st) /\ UNCHANGED boot
              /\ st = "failed" => \E l \in Loop : FailHist(l) /\ loop[l].d = d
         \/ \E r \in Req, d \in Device : StartCancel(r, d) /\ UNCHANGED boot
         \/ \E l \in Loop : Crash(l)
  <1> USE DEF envVars
  <1>1. ASSUME NEW l \in Loop, Poll(l)
        PROVE  \/ UNCHANGED <<histVars, boot>>
               \/ \E d \in Device : StartHistory(d) /\ UNCHANGED boot
               \/ \E d \in Device, st \in Ended :
                    /\ CompleteHistory(d, st) /\ UNCHANGED boot
                    /\ st = "failed" => FailHist(l) /\ loop[l].d = d
    <2>1. ASSUME NEW d \in Device, ProcessAtEnd(l, d)
          PROVE  CompleteHistory(d, "success") /\ UNCHANGED boot
      BY <2>1 DEF ProcessAtEnd
    <2>2. ASSUME FailHist(l)
          PROVE  loop[l].d \in Device /\ CompleteHistory(loop[l].d, "failed") /\ UNCHANGED boot
      BY <2>2, AtWork DEF FailHist
    <2>3. ASSUME LoopHistory(l)
          PROVE  loop[l].d \in Device /\ StartHistory(loop[l].d) /\ UNCHANGED boot
      BY <2>3, AtWork DEF LoopHistory
    <2>4. ASSUME NEW d \in Device,
                 ProcessBroken(l, d) \/ ProcessEmpty(l, d) \/ ProcessStep(l, d)
          PROVE  UNCHANGED <<histVars, boot>>
      BY <2>4 DEF ProcessBroken, ProcessEmpty, ProcessStep
    <2>5. ASSUME \/ Tick(l) \/ EnterSelect(l) \/ ExitLoop(l) \/ ExecSuccess(l)
                 \/ ExecFail(l) \/ ExecPending(l) \/ MergeRead(l) \/ MergeWrite(l)
          PROVE  UNCHANGED <<histVars, boot>>
      BY <2>5 DEF Tick, EnterSelect, ExitLoop, ExecSuccess, ExecFail, ExecPending,
                  MergeRead, MergeWrite
    <2>6. ASSUME \/ Progress(l) \/ FailStep(l) \/ SetDeviceError(l) \/ CompletedRead(l)
                 \/ CompletedSave(l) \/ LoopCountRead(l) \/ LoopCountSave(l) \/ LoopRewind(l)
          PROVE  UNCHANGED <<histVars, boot>>
      BY <2>6 DEF Progress, FailStep, SetDeviceError, CompletedRead, CompletedSave,
                  LoopCountRead, LoopCountSave, LoopRewind, ReadRow
    <2>7. "success" \in Ended /\ "failed" \in Ended BY DEF Ended, ExecStatus
    <2> QED BY <1>1, <2>1, <2>2, <2>3, <2>4, <2>5, <2>6, <2>7 DEF Poll
  <1>2. ASSUME NEW r \in Req, Handle(r)
        PROVE  \/ UNCHANGED <<histVars, boot>>
               \/ \E d \in Device : StartHistory(d) /\ UNCHANGED boot
    <2>1. ASSUME StartOpen(r)
          PROVE  \/ UNCHANGED <<histVars, boot>>
                 \/ req[r].d \in Device /\ StartHistory(req[r].d) /\ UNCHANGED boot
      BY <2>1, Handling DEF StartOpen
    <2>2. ASSUME \/ BindSave(r) \/ StartRead(r) \/ StartSave(r) \/ StopSave(r)
                 \/ StopEngineWait(r) \/ \E l \in Loop : StartLoop(r, l)
          PROVE  UNCHANGED <<histVars, boot>>
      BY <2>2 DEF BindSave, StartRead, StartSave, StopSave, StopEngineWait, StartLoop
    <2> QED BY <1>2, <2>1, <2>2 DEF Handle
  <1>3. ASSUME Request
        PROVE  \/ UNCHANGED <<histVars, boot>>
               \/ \E d \in Device, st \in Ended \ {"failed"} :
                    CompleteHistory(d, st) /\ UNCHANGED boot
               \/ \E r \in Req, d \in Device : StartCancel(r, d) /\ UNCHANGED boot
    <2> USE DEF Call, Begin
    <2>1. ASSUME NEW r \in Req, NEW d \in Device, StopHistory(r, d)
          PROVE  CompleteHistory(d, "cancelled") /\ UNCHANGED boot
      BY <2>1 DEF StopHistory
    <2>2. ASSUME NEW r \in Req, NEW d \in Device, StartCancel(r, d) PROVE UNCHANGED boot
      BY <2>2 DEF StartCancel
    <2>3. ASSUME NEW r \in Req, NEW d \in Device, NEW f \in Flow, NEW m \in Mode,
                 BindRead(r, d, f, m)
          PROVE  UNCHANGED <<histVars, boot>>
      BY <2>3 DEF BindRead
    <2>4. ASSUME NEW d \in Device, Pause(d) \/ Resume(d) PROVE UNCHANGED <<histVars, boot>>
      BY <2>4 DEF Pause, Resume
    <2>5. ASSUME NEW f \in Flow, DeleteFlow(f) \/ \E s \in FlowDefs : SaveFlow(f, s)
          PROVE  UNCHANGED <<histVars, boot>>
      BY <2>5 DEF DeleteFlow, SaveFlow
    <2>6. ASSUME NEW r \in Req, StartEngine(r) \/ StopEngine(r)
          PROVE  UNCHANGED <<histVars, boot>>
      BY <2>6 DEF StartEngine, StopEngine
    <2>7. "cancelled" \in Ended \ {"failed"} BY DEF Ended, ExecStatus
    <2> QED BY <1>3, <2>1, <2>2, <2>3, <2>4, <2>5, <2>6, <2>7 DEF Request
  <1>4. ASSUME UNCHANGED vars PROVE UNCHANGED <<histVars, boot>>
    BY <1>4 DEF vars, histVars
  <1> QED BY <1>1, <1>2, <1>3, <1>4 DEF Next

LEMMA StartHistoryInv ==
  ASSUME TypeInv, HistInv, NEW d \in Device, StartHistory(d), UNCHANGED boot
  PROVE  HistInv'
  <1> DEFINE n == nhist + 1
             new == [NoHist EXCEPT !.dev = d, !.st = "running", !.boot = boot]
  <1>1. nhist \in Nat /\ n \in HistId /\ n \in Nat
    BY EngineAssumption DEF TypeInv, HistT, StartHistory, HistId
  <1>2. new.dev = d /\ new.st = "running" /\ new.boot = boot BY DEF NoHist
  <1>3. nhist' = n /\ hist' = [hist EXCEPT ![n] = new] BY DEF StartHistory
  <1>4. historyMap' = [historyMap EXCEPT ![d] = n] BY DEF StartHistory
  <1>5. hist'[n] = new /\ \A h \in 1 .. nhist : hist'[h] = hist[h] /\ h # n
    BY <1>1, <1>3 DEF TypeInv, HistT
  <1>6. historyMap'[d] = n /\ \A e \in Device : e # d => historyMap'[e] = historyMap[e]
    BY <1>4 DEF TypeInv, HistT
  <1>7. boot' = boot /\ boot \in Nat BY DEF TypeInv, EnvT
  <1> HIDE DEF new
  <1>8. HistRows'
    BY <1>1, <1>2, <1>3, <1>5, <1>7 DEF HistInv, HistRows
  <1>9. LiveHistoryIsNewest'
    <2> SUFFICES ASSUME NEW e \in Device, historyMap'[e] # 0
                 PROVE  /\ historyMap'[e] <= n /\ hist'[historyMap'[e]].dev = e
                        /\ hist'[historyMap'[e]].boot = boot
                        /\ \A k \in historyMap'[e] + 1 .. n : hist'[k].dev # e
      BY <1>3, <1>7 DEF LiveHistoryIsNewest
    <2>1. CASE e = d BY <2>1, <1>1, <1>2, <1>5, <1>6
    <2>2. CASE e # d
      <3>1. historyMap'[e] = historyMap[e] /\ historyMap[e] \in Nat
        BY <2>2, <1>6, EngineAssumption DEF TypeInv, HistT
      <3>2. /\ historyMap[e] <= nhist /\ hist[historyMap[e]].dev = e
            /\ hist[historyMap[e]].boot = boot
            /\ \A k \in historyMap[e] + 1 .. nhist : hist[k].dev # e
        BY <3>1 DEF HistInv, LiveHistoryIsNewest
      <3>3. historyMap[e] \in 1 .. nhist BY <3>1, <3>2, <1>1
      <3>4. \A k \in historyMap[e] + 1 .. n : k \in historyMap[e] + 1 .. nhist \/ k = n
        BY <3>1, <1>1
      <3>5. \A k \in historyMap[e] + 1 .. nhist : k \in 1 .. nhist BY <3>1, <1>1
      <3> QED BY <2>2, <3>1, <3>2, <3>3, <3>4, <3>5, <1>1, <1>2, <1>5
    <2> QED BY <2>1, <2>2
  <1>10. RunningHistoryOwned'
    <2> SUFFICES ASSUME NEW h \in 1 .. n, hist'[h].boot = boot, hist'[h].st = "running",
                        \A k \in h + 1 .. n : hist'[k].dev # hist'[h].dev
                 PROVE  historyMap'[hist'[h].dev] = h
      BY <1>3, <1>7 DEF RunningHistoryOwned
    <2>1. CASE h = n BY <2>1, <1>2, <1>5, <1>6
    <2>2. CASE h # n
      <3>1. h \in 1 .. nhist /\ n \in h + 1 .. n BY <2>2, <1>1
      <3>2. hist'[h] = hist[h] BY <3>1, <1>5
      <3>3. hist[h].dev # d BY <3>1, <3>2, <1>2, <1>5
      <3>4. \A k \in h + 1 .. nhist : k \in h + 1 .. n /\ k \in 1 .. nhist BY <3>1, <1>1
      <3>5. \A k \in h + 1 .. nhist : hist[k].dev # hist[h].dev BY <3>2, <3>4, <1>5
      <3>6. historyMap[hist[h].dev] = h
        BY <3>1, <3>2, <3>5 DEF HistInv, RunningHistoryOwned
      <3>7. hist[h].dev \in Device BY <3>1 DEF HistInv, HistRows
      <3> QED BY <3>2, <3>3, <3>6, <3>7, <1>6
    <2> QED BY <2>1, <2>2
  <1> QED BY <1>8, <1>9, <1>10 DEF HistInv

LEMMA CompleteHistoryInv ==
  ASSUME TypeInv, HistInv, NEW d \in Device, NEW st \in Ended,
         CompleteHistory(d, st), UNCHANGED boot
  PROVE  HistInv'
  <1> DEFINE c == historyMap[d]
  <1>1. historyMap' = [historyMap EXCEPT ![d] = 0] /\ nhist' = nhist /\ boot' = boot
    BY DEF CompleteHistory
  <1>2. historyMap'[d] = 0 /\ \A e \in Device : e # d => historyMap'[e] = historyMap[e]
    BY <1>1 DEF TypeInv, HistT
  <1>3. nhist \in Nat /\ nhist <= MaxHist /\ c \in 0 .. MaxHist
    BY EngineAssumption DEF TypeInv, HistT
  <1>4. \A h \in HistId : /\ hist'[h].dev = hist[h].dev /\ hist'[h].boot = hist[h].boot
                          /\ h # c => hist'[h] = hist[h]
                          /\ h = c => hist'[h].st = st
    <2>1. CASE c = 0
      <3>1. \A h \in HistId : h # c BY <2>1 DEF HistId
      <3> QED BY <2>1, <3>1 DEF CompleteHistory
    <2>2. CASE c # 0
      <3>1. PICK ok, bad : hist' = [hist EXCEPT ![c].st = st, ![c].ok = ok, ![c].bad = bad]
        BY <2>2 DEF CompleteHistory
      <3>2. \A h \in HistId : hist[h] \in HistRow BY DEF TypeInv, HistT
      <3> QED BY <3>1, <3>2 DEF TypeInv, HistT, HistRow
    <2> QED BY <2>1, <2>2
  <1>5. \A h \in 1 .. nhist : h \in HistId BY <1>3, EngineAssumption DEF HistId
  <1> HIDE DEF c
  <1>6. HistRows' BY <1>1, <1>4, <1>5 DEF HistInv, HistRows
  <1>7. LiveHistoryIsNewest'
    <2> SUFFICES ASSUME NEW e \in Device, historyMap'[e] # 0
                 PROVE  /\ historyMap'[e] <= nhist /\ hist'[historyMap'[e]].dev = e
                        /\ hist'[historyMap'[e]].boot = boot
                        /\ \A k \in historyMap'[e] + 1 .. nhist : hist'[k].dev # e
      BY <1>1 DEF LiveHistoryIsNewest
    <2>1. historyMap'[e] = historyMap[e] /\ historyMap[e] \in Nat
      BY <1>2, EngineAssumption DEF TypeInv, HistT
    <2>2. /\ historyMap[e] <= nhist /\ hist[historyMap[e]].dev = e
          /\ hist[historyMap[e]].boot = boot
          /\ \A k \in historyMap[e] + 1 .. nhist : hist[k].dev # e
      BY <2>1 DEF HistInv, LiveHistoryIsNewest
    <2>3. historyMap[e] \in HistId BY <2>1, <2>2, <1>3, <1>5
    <2>4. \A k \in historyMap[e] + 1 .. nhist : k \in HistId BY <2>1, <1>3, <1>5
    <2> QED BY <2>1, <2>2, <2>3, <2>4, <1>4
  <1>8. RunningHistoryOwned'
    <2> SUFFICES ASSUME NEW h \in 1 .. nhist, hist'[h].boot = boot, hist'[h].st = "running",
                        \A k \in h + 1 .. nhist : hist'[k].dev # hist'[h].dev
                 PROVE  historyMap'[hist'[h].dev] = h
      BY <1>1 DEF RunningHistoryOwned
    <2>1. h \in HistId /\ h # c BY <1>4, <1>5 DEF Ended
    <2>2. hist'[h] = hist[h] BY <1>4, <2>1
    <2>3. \A k \in h + 1 .. nhist : k \in HistId BY <1>3, <1>5
    <2>4. \A k \in h + 1 .. nhist : hist[k].dev # hist[h].dev BY <1>4, <2>2, <2>3
    <2>5. historyMap[hist[h].dev] = h BY <2>2, <2>4 DEF HistInv, RunningHistoryOwned
    <2>6. hist[h].dev \in Device BY DEF HistInv, HistRows
    <2>7. hist[h].dev # d BY <2>1, <2>5 DEF c
    <2> QED BY <1>2, <2>2, <2>5, <2>6, <2>7
  <1> QED BY <1>6, <1>7, <1>8 DEF HistInv

LEMMA StartCancelInv ==
  ASSUME TypeInv, HistInv, NEW r \in Req, NEW d \in Device, StartCancel(r, d), UNCHANGED boot
  PROVE  HistInv'
  <1>1. historyMap' = historyMap /\ nhist' = nhist /\ boot' = boot BY DEF StartCancel
  <1>2. \A h \in HistId : /\ hist'[h].dev = hist[h].dev /\ hist'[h].boot = hist[h].boot
                          /\ hist'[h].st = "running" => hist[h].st = "running"
    <2>1. \A h \in HistId : hist[h] \in HistRow BY DEF TypeInv, HistT
    <2>2. \A h \in HistId : hist'[h] = IF hist[h].dev = d /\ hist[h].st = "running"
                                       THEN [hist[h] EXCEPT !.st = "cancelled"] ELSE hist[h]
      BY DEF StartCancel
    <2> QED BY <2>1, <2>2 DEF HistRow
  <1>3. nhist \in Nat /\ \A e \in Device : historyMap[e] \in Nat
    BY EngineAssumption DEF TypeInv, HistT
  <1>4. \A h \in 1 .. nhist : h \in HistId
    BY <1>3, EngineAssumption DEF HistId, TypeInv, HistT
  <1>5. HistRows' BY <1>1, <1>2, <1>4 DEF HistInv, HistRows
  <1>6. LiveHistoryIsNewest'
    <2> SUFFICES ASSUME NEW e \in Device, historyMap[e] # 0
                 PROVE  /\ historyMap[e] <= nhist /\ hist'[historyMap[e]].dev = e
                        /\ hist'[historyMap[e]].boot = boot
                        /\ \A k \in historyMap[e] + 1 .. nhist : hist'[k].dev # e
      BY <1>1 DEF LiveHistoryIsNewest
    <2>1. /\ historyMap[e] <= nhist /\ hist[historyMap[e]].dev = e
          /\ hist[historyMap[e]].boot = boot
          /\ \A k \in historyMap[e] + 1 .. nhist : hist[k].dev # e
      BY DEF HistInv, LiveHistoryIsNewest
    <2>2. historyMap[e] \in HistId BY <2>1, <1>3, <1>4
    <2>3. \A k \in historyMap[e] + 1 .. nhist : k \in HistId BY <1>3, <1>4
    <2> QED BY <2>1, <2>2, <2>3, <1>2
  <1>7. RunningHistoryOwned'
    <2> SUFFICES ASSUME NEW h \in 1 .. nhist, hist'[h].boot = boot, hist'[h].st = "running",
                        \A k \in h + 1 .. nhist : hist'[k].dev # hist'[h].dev
                 PROVE  historyMap[hist'[h].dev] = h
      BY <1>1 DEF RunningHistoryOwned
    <2>1. h \in HistId BY <1>4
    <2>2. \A k \in h + 1 .. nhist : k \in HistId BY <1>3, <1>4
    <2>3. \A k \in h + 1 .. nhist : hist[k].dev # hist[h].dev BY <1>2, <2>1, <2>2
    <2> QED BY <1>2, <2>1, <2>3 DEF HistInv, RunningHistoryOwned
  <1> QED BY <1>5, <1>6, <1>7 DEF HistInv

\* A process that begins has no execution of its own.
LEMMA CrashInv ==
  ASSUME TypeInv, HistInv, NEW l \in Loop, Crash(l) PROVE HistInv'
  <1>1. boot' = boot + 1 /\ boot \in Nat BY DEF Crash, TypeInv, EnvT
  <1>2. hist' = hist /\ nhist' = nhist BY DEF Crash
  <1>3. \A h \in 1 .. nhist : hist[h] \in HistRow
    BY EngineAssumption DEF TypeInv, HistT, HistId
  <1>4. \A h \in 1 .. nhist : hist[h].dev \in Device /\ hist[h].boot <= boot
    BY DEF HistInv, HistRows
  <1>5. \A h \in 1 .. nhist : hist[h].boot \in Nat BY <1>3 DEF HistRow
  <1>6. HistRows'
    <2>1. \A h \in 1 .. nhist : hist[h].boot <= boot + 1 BY <1>1, <1>4, <1>5
    <2> QED BY <2>1, <1>1, <1>2, <1>4 DEF HistRows
  <1>7. LiveHistoryIsNewest' BY DEF LiveHistoryIsNewest, Crash
  <1>8. RunningHistoryOwned'
    <2>1. \A h \in 1 .. nhist : hist[h].boot # boot + 1 BY <1>1, <1>4, <1>5
    <2> QED BY <2>1, <1>1, <1>2 DEF RunningHistoryOwned
  <1> QED BY <1>6, <1>7, <1>8 DEF HistInv

LEMMA HistInvInit == Init => HistInv
  <1> SUFFICES ASSUME Init PROVE HistInv
    OBVIOUS
  <1>1. nhist = 0 /\ \A d \in Device : historyMap[d] = 0 BY DEF Init
  <1>2. \A h \in 1 .. nhist : FALSE BY <1>1
  <1> QED BY <1>1, <1>2 DEF HistInv, HistRows, LiveHistoryIsNewest, RunningHistoryOwned

LEMMA HistInvNext == TypeInv /\ HistInv /\ [Next]_vars => HistInv'
  <1> SUFFICES ASSUME TypeInv, HistInv, [Next]_vars PROVE HistInv'
    OBVIOUS
  <1>1. CASE UNCHANGED <<histVars, boot>>
    BY <1>1 DEF HistInv, HistRows, LiveHistoryIsNewest, RunningHistoryOwned, histVars
  <1> QED
    BY <1>1, HistSteps, StartHistoryInv, CompleteHistoryInv, StartCancelInv, CrashInv

LEMMA HistInvariant == Spec => []HistInv
  BY TypeInvariant, HistInvInit, HistInvNext, PTL DEF Spec

\* The entry historyMap holds for a device is always its newest execution, and one
\* of this process, whatever starts, stops and polls overlap.
THEOREM LiveHistory == Spec => []LiveHistoryIsNewest
  <1>1. HistInv => LiveHistoryIsNewest BY DEF HistInv
  <1> QED BY <1>1, HistInvariant, PTL

\* CompleteHistory never forgets an execution of this process that it has not
\* closed: the newest one of a device, while open, is the one historyMap holds.
THEOREM RunningOwned == Spec => []RunningHistoryOwned
  <1>1. HistInv => RunningHistoryOwned BY DEF HistInv
  <1> QED BY <1>1, HistInvariant, PTL

-----------------------------------------------------------------------------
(* Executions a crash has left open.                                         *)

Starting == {"startR", "startW", "startHist"}

LEMMA PollsKeepReq == ASSUME NEW l \in Loop, Poll(l) PROVE UNCHANGED req
  <1>1. ASSUME NEW d \in Device, ProcessBroken(l, d) \/ ProcessEmpty(l, d)
                                   \/ ProcessAtEnd(l, d) \/ ProcessStep(l, d)
        PROVE  UNCHANGED req
    BY <1>1 DEF ProcessBroken, ProcessEmpty, ProcessAtEnd, ProcessStep
  <1>2. ASSUME \/ Tick(l) \/ EnterSelect(l) \/ ExitLoop(l) \/ ExecSuccess(l)
               \/ ExecFail(l) \/ ExecPending(l) \/ MergeRead(l) \/ MergeWrite(l)
        PROVE  UNCHANGED req
    BY <1>2 DEF Tick, EnterSelect, ExitLoop, ExecSuccess, ExecFail, ExecPending,
                MergeRead, MergeWrite
  <1>3. ASSUME \/ Progress(l) \/ FailStep(l) \/ FailHist(l) \/ SetDeviceError(l)
               \/ CompletedRead(l) \/ CompletedSave(l) \/ LoopCountRead(l)
               \/ LoopCountSave(l) \/ LoopRewind(l) \/ LoopHistory(l)
        PROVE  UNCHANGED req
    BY <1>3 DEF Progress, FailStep, FailHist, SetDeviceError, CompletedRead, CompletedSave,
                LoopCountRead, LoopCountSave, LoopRewind, LoopHistory, ReadRow
  <1> QED BY <1>1, <1>2, <1>3 DEF Poll

\* A handler is on its way to StartHistory only after CancelRunningExecutions.
LEMMA StartingSteps ==
  ASSUME TypeInv, [Next]_vars, NEW r \in Req, req'[r].pc \in Starting
  PROVE  \/ req[r].pc \in Starting /\ req'[r].d = req[r].d
         \/ \E d \in Device : StartCancel(r, d) /\ req'[r].d = d
  <1> USE DEF Starting
  <1>1. req \in [Req -> GoodReq] /\ \A q \in Req : req[q] \in ReqRow
    BY DEF TypeInv, ReqT, GoodReq
  <1>2. CASE UNCHANGED req BY <1>2
  <1>3. ASSUME NEW q \in Req, Handle(q)
        PROVE  req[r].pc \in Starting /\ req'[r].d = req[r].d
    <2>1. CASE StartRead(q) BY <2>1, <1>1 DEF StartRead, ReqRow
    <2>2. CASE StartSave(q) BY <2>2, <1>1 DEF StartSave, ReqRow
    <2>3. ASSUME \/ BindSave(q) \/ StartOpen(q) \/ StopSave(q) \/ StopEngineWait(q)
                 \/ \E l \in Loop : StartLoop(q, l)
          PROVE  req' = [req EXCEPT ![q] = NoReq]
      BY <2>3 DEF BindSave, StartOpen, StopSave, StopEngineWait, StartLoop, Reply
    <2>4. CASE req' = [req EXCEPT ![q] = NoReq] BY <2>4, <1>1 DEF NoReq
    <2> QED BY <1>3, <2>1, <2>2, <2>3, <2>4 DEF Handle
  <1>4. ASSUME NEW q \in Req, NEW d \in Device, StartCancel(q, d)
        PROVE  \/ req[r].pc \in Starting /\ req'[r].d = req[r].d
               \/ StartCancel(r, d) /\ req'[r].d = d
    <2>1. CASE q = r BY <2>1, <1>4, <1>1 DEF StartCancel, NoReq
    <2>2. CASE q # r BY <2>2, <1>4, <1>1 DEF StartCancel
    <2> QED BY <2>1, <2>2
  <1>5. ASSUME NEW q \in Req, NEW p \in {"bindW", "stopW", "goLoop", "wgWait"}, NEW g,
               req' = [req EXCEPT ![q] = g], g.pc = p
        PROVE  req[r].pc \in Starting /\ req'[r].d = req[r].d
    BY <1>5, <1>1
  <1>6. ASSUME NEW q \in Req, NEW d \in Device, NEW f \in Flow, NEW m \in Mode,
               BindRead(q, d, f, m)
        PROVE  req[r].pc \in Starting /\ req'[r].d = req[r].d
    BY <1>6, <1>5 DEF BindRead
  <1>7. ASSUME NEW q \in Req, NEW d \in Device, StopHistory(q, d)
        PROVE  req[r].pc \in Starting /\ req'[r].d = req[r].d
    <2>1. [NoReq EXCEPT !.pc = "stopW", !.d = d].pc = "stopW" BY DEF NoReq
    <2> QED BY <2>1, <1>7, <1>5 DEF StopHistory
  <1>8. ASSUME NEW q \in Req, StartEngine(q) \/ StopEngine(q)
        PROVE  UNCHANGED req \/ (req[r].pc \in Starting /\ req'[r].d = req[r].d)
    <2>1. [req[q] EXCEPT !.pc = "goLoop"].pc = "goLoop"
          /\ [req[q] EXCEPT !.pc = "wgWait"].pc = "wgWait"
      BY <1>1 DEF ReqRow
    <2> QED BY <2>1, <1>8, <1>5, <1>1 DEF StartEngine, StopEngine
  <1>9. ASSUME NEW d \in Device, Pause(d) \/ Resume(d) PROVE UNCHANGED req
    BY <1>9 DEF Pause, Resume
  <1>10. ASSUME NEW f \in Flow, DeleteFlow(f) \/ \E s \in FlowDefs : SaveFlow(f, s)
         PROVE  UNCHANGED req
    BY <1>10 DEF DeleteFlow, SaveFlow
  <1>11. ASSUME NEW l \in Loop, Crash(l) PROVE FALSE BY <1>11 DEF Crash, NoReq
  <1>12. ASSUME UNCHANGED vars PROVE UNCHANGED req BY <1>12 DEF vars
  <1> QED
    BY <1>2, <1>3, <1>4, <1>6, <1>7, <1>8, <1>9, <1>10, <1>11, <1>12, PollsKeepReq
    DEF Next, Request

\* Only this process opens executions, and no step opens a closed one again.
LEMMA RunningKept ==
  ASSUME TypeInv, HistInv, [Next]_vars, UNCHANGED boot,
         NEW h \in 1 .. nhist', hist'[h].st = "running", hist'[h].boot < boot
  PROVE  h \in 1 .. nhist /\ hist'[h] = hist[h]
  <1>1. nhist \in Nat /\ boot \in Nat /\ \A k \in 1 .. nhist : k \in HistId /\ hist[k] \in HistRow
    BY EngineAssumption DEF TypeInv, HistT, EnvT, HistId
  <1>2. CASE UNCHANGED <<histVars, boot>> BY <1>2 DEF histVars
  <1>3. ASSUME NEW d \in Device, StartHistory(d)
        PROVE  h \in 1 .. nhist /\ hist'[h] = hist[h]
    <2> DEFINE n == nhist + 1
    <2>1. n \in HistId /\ nhist' = n BY <1>1, <1>3, EngineAssumption DEF StartHistory, HistId
    <2>2. hist' = [hist EXCEPT ![n] = [NoHist EXCEPT !.dev = d, !.st = "running", !.boot = boot]]
      BY <1>3 DEF StartHistory
    <2>3. hist'[n].boot = boot BY <2>1, <2>2 DEF TypeInv, HistT, NoHist
    <2>4. h # n BY <2>3, <1>1
    <2> HIDE DEF n
    <2>5. hist'[h] = hist[h] BY <2>2, <2>4 DEF TypeInv, HistT
    <2> QED BY <2>1, <2>4, <2>5, <1>1 DEF n
  <1>4. ASSUME NEW d \in Device, NEW st \in Ended, CompleteHistory(d, st)
        PROVE  h \in 1 .. nhist /\ hist'[h] = hist[h]
    <2>1. nhist' = nhist BY <1>4 DEF CompleteHistory
    <2>2. CASE historyMap[d] = 0 BY <2>1, <2>2, <1>4 DEF CompleteHistory
    <2>3. CASE historyMap[d] # 0
      <3>1. PICK ok, bad : hist' = [hist EXCEPT ![historyMap[d]].st = st,
                                     ![historyMap[d]].ok = ok, ![historyMap[d]].bad = bad]
        BY <2>3, <1>4 DEF CompleteHistory
      <3>2. h \in HistId /\ hist[h] \in HistRow BY <1>1, <2>1
      <3>3. h = historyMap[d] => hist'[h].st = st BY <3>1, <3>2 DEF TypeInv, HistT, HistRow
      <3>4. h # historyMap[d] BY <3>3 DEF Ended
      <3>5. hist'[h] = hist[h] BY <3>1, <3>2, <3>4 DEF TypeInv, HistT, HistRow
      <3> QED BY <3>5, <2>1
    <2> QED BY <2>2, <2>3
  <1>5. ASSUME NEW r \in Req, NEW d \in Device, StartCancel(r, d)
        PROVE  h \in 1 .. nhist /\ hist'[h] = hist[h]
    <2>1. nhist' = nhist BY <1>5 DEF StartCancel
    <2>2. h \in HistId /\ hist[h] \in HistRow BY <1>1, <2>1
    <2>3. hist'[h] = IF hist[h].dev = d /\ hist[h].st = "running"
                     THEN [hist[h] EXCEPT !.st = "cancelled"] ELSE hist[h]
      BY <1>5, <2>2 DEF StartCancel
    <2>4. [hist[h] EXCEPT !.st = "cancelled"].st = "cancelled" BY <2>2 DEF HistRow
    <2> QED BY <2>1, <2>3, <2>4
  <1>6. ASSUME NEW l \in Loop, Crash(l) PROVE FALSE BY <1>1, <1>6 DEF Crash
  <1> QED BY <1>2, <1>3, <1>4, <1>5, <1>6, HistSteps

LEMMA NoOrphanNext ==
  ASSUME TypeInv, HistInv, NoOrphanAtStart, [Next]_vars PROVE NoOrphanAtStart'
  <1>1. CASE \E l \in Loop : Crash(l) BY <1>1 DEF Crash, NoOrphanAtStart, NoReq
  <1>2. CASE UNCHANGED boot
    <2> SUFFICES ASSUME NEW r \in Req, req'[r].pc \in Starting,
                        NEW h \in 1 .. nhist', hist'[h].dev = req'[r].d,
                        hist'[h].boot < boot, hist'[h].st = "running"
                 PROVE  FALSE
      BY <1>2 DEF NoOrphanAtStart, Starting
    <2>1. h \in 1 .. nhist /\ hist'[h] = hist[h] BY <1>2, RunningKept
    <2>2. CASE req[r].pc \in Starting /\ req'[r].d = req[r].d
      BY <2>1, <2>2 DEF NoOrphanAtStart, Starting
    <2>3. ASSUME NEW d \in Device, StartCancel(r, d), req'[r].d = d PROVE FALSE
      <3>1. h \in HistId /\ hist[h] \in HistRow
        BY <2>1, EngineAssumption DEF TypeInv, HistT, HistId
      <3>2. hist'[h] = [hist[h] EXCEPT !.st = "cancelled"]
        BY <2>1, <2>3, <3>1 DEF StartCancel
      <3> QED BY <2>1, <3>1, <3>2 DEF HistRow
    <2> QED BY <2>2, <2>3, StartingSteps
  <1> QED BY <1>1, <1>2, HistSteps

\* Executions that a crash of the process has left open are closed before the
\* next start of their device opens its own.
THEOREM OrphansClosed == Spec => []NoOrphanAtStart
  <1>1. Init => NoOrphanAtStart BY DEF Init, NoOrphanAtStart, NoReq
  <1>2. TypeInv /\ HistInv /\ NoOrphanAtStart /\ [Next]_vars => NoOrphanAtStart'
    BY NoOrphanNext
  <1> QED BY <1>1, <1>2, TypeInvariant, HistInvariant, PTL DEF Spec

-----------------------------------------------------------------------------
(***************************************************************************)
(* The step records of RpaEngine and the status of its devices: what a key  *)
(* of stepMap leads to, that an outcome is final, and which polls can set a *)
(* device running.                                                          *)
(***************************************************************************)
\* A record that was not written yet reads "none".
RecFresh == \A r \in RecId : r > nrec => recs[r].st = "none"

RecInv == OpenStepRecord /\ RecFresh

\* Rows of the history stay, and stay with their device.
HistKept == nhist <= nhist' /\ \A h \in 1 .. nhist : hist'[h].dev = hist[h].dev

LEMMA HistoryKept == ASSUME TypeInv, HistInv, [Next]_vars PROVE HistKept
  <1>1. nhist \in Nat /\ \A h \in 1 .. nhist : h \in HistId /\ hist[h] \in HistRow
    BY EngineAssumption DEF TypeInv, HistT, HistId
  <1>2. CASE UNCHANGED <<histVars, boot>> BY <1>1, <1>2 DEF HistKept, histVars
  <1>3. ASSUME NEW d \in Device, StartHistory(d) PROVE HistKept
    <2>1. \A h \in 1 .. nhist : h # nhist + 1 BY <1>1
    <2> QED BY <2>1, <1>1, <1>3 DEF HistKept, StartHistory, TypeInv, HistT
  <1>4. ASSUME NEW d \in Device, NEW st \in Ended, CompleteHistory(d, st) PROVE HistKept
    <2>1. CASE historyMap[d] = 0 BY <2>1, <1>1, <1>4 DEF HistKept, CompleteHistory
    <2>2. CASE historyMap[d] # 0
      <3>1. PICK ok, bad : hist' = [hist EXCEPT ![historyMap[d]].st = st,
                                     ![historyMap[d]].ok = ok, ![historyMap[d]].bad = bad]
        BY <2>2, <1>4 DEF CompleteHistory
      <3>2. \A h \in 1 .. nhist : hist'[h].dev = hist[h].dev
        BY <3>1, <1>1 DEF TypeInv, HistT, HistRow
      <3> QED BY <3>2, <1>1, <1>4 DEF HistKept, CompleteHistory
    <2> QED BY <2>1, <2>2
  <1>5. ASSUME NEW r \in Req, NEW d \in Device, StartCancel(r, d) PROVE HistKept
    <2>1. \A h \in HistId : hist'[h] = IF hist[h].dev = d /\ hist[h].st = "running"
                                       THEN [hist[h] EXCEPT !.st = "cancelled"] ELSE hist[h]
      BY <1>5 DEF StartCancel
    <2>2. nhist' = nhist BY <1>5 DEF StartCancel
    <2>3. \A h \in 1 .. nhist : hist'[h].dev = hist[h].dev
      <3> SUFFICES ASSUME NEW h \in 1 .. nhist PROVE hist'[h].dev = hist[h].dev
        OBVIOUS
      <3>1. h \in HistId /\ hist[h] \in HistRow BY <1>1
      <3>2. [hist[h] EXCEPT !.st = "cancelled"].dev = hist[h].dev BY <3>1 DEF HistRow
      <3> QED BY <2>1, <3>1, <3>2
    <2> QED BY <2>2, <2>3, <1>1 DEF HistKept
  <1>6. ASSUME NEW l \in Loop, Crash(l) PROVE HistKept
    BY <1>1, <1>6 DEF HistKept, Crash
  <1> QED BY <1>2, <1>3, <1>4, <1>5, <1>6, HistSteps

LEMMA RecSteps ==
  ASSUME TypeInv, [Next]_vars
  PROVE  \/ UNCHANGED stepVars
         \/ \E d \in Device, i \in StepIdx : StartStepRecord(d, i) /\ UNCHANGED histVars
         \/ \E d \in Device, i \in StepIdx, st \in {"success", "failed"} :
              CompleteStepRecord(d, i, st)
         \/ \E l \in Loop : Crash(l)
  <1>1. ASSUME NEW l \in Loop, Poll(l)
        PROVE  \/ UNCHANGED stepVars
               \/ \E d \in Device, i \in StepIdx : StartStepRecord(d, i) /\ UNCHANGED histVars
               \/ \E d \in Device, i \in StepIdx, st \in {"success", "failed"} :
                    CompleteStepRecord(d, i, st)
    <2>1. ASSUME NEW d \in Device, ProcessStep(l, d)
          PROVE  \/ UNCHANGED stepVars
                 \/ \E i \in StepIdx : StartStepRecord(d, i) /\ UNCHANGED histVars
      <3>1. loop'[l] \in GoodLoop /\ loop[l] \in LoopRow
        BY <2>1, ProcessStepType DEF TypeInv, LoopT, GoodLoop
      <3>2. loop'[l].pc = "exec" /\ loop'[l].cfg = loop[l].snap[d]
        BY <2>1, <3>1 DEF ProcessStep, LoopRow, TypeInv, LoopT
      <3>3. loop[l].snap[d].step \in StepIdx BY <3>1, <3>2 DEF GoodLoop, AtStep
      <3> QED BY <2>1, <3>3 DEF ProcessStep
    <2>2. ASSUME ExecSuccess(l) \/ FailStep(l)
          PROVE  \E d \in Device, i \in StepIdx, st \in {"success", "failed"} :
                   CompleteStepRecord(d, i, st)
      <3>1. loop[l].pc \in {"exec", "failStep"} BY <2>2 DEF ExecSuccess, FailStep
      <3>2. loop[l].d \in Device /\ loop[l].cfg.step \in StepIdx
        BY <3>1 DEF TypeInv, LoopT, GoodLoop, AtStep
      <3> QED BY <2>2, <3>2 DEF ExecSuccess, FailStep
    <2>3. ASSUME NEW d \in Device,
                 ProcessBroken(l, d) \/ ProcessEmpty(l, d) \/ ProcessAtEnd(l, d)
          PROVE  UNCHANGED stepVars
      BY <2>3 DEF ProcessBroken, ProcessEmpty, ProcessAtEnd
    <2>4. ASSUME \/ Tick(l) \/ EnterSelect(l) \/ ExitLoop(l) \/ ExecFail(l)
                 \/ ExecPending(l) \/ MergeRead(l) \/ MergeWrite(l) \/ FailHist(l)
          PROVE  UNCHANGED stepVars
      BY <2>4 DEF Tick, EnterSelect, ExitLoop, ExecFail, ExecPending, MergeRead,
                  MergeWrite, FailHist
    <2>5. ASSUME \/ Progress(l) \/ SetDeviceError(l) \/ CompletedRead(l) \/ LoopHistory(l)
                 \/ CompletedSave(l) \/ LoopCountRead(l) \/ LoopCountSave(l) \/ LoopRewind(l)
          PROVE  UNCHANGED stepVars
      BY <2>5 DEF Progress, SetDeviceError, CompletedRead, CompletedSave,
                  LoopCountRead, LoopCountSave, LoopRewind, LoopHistory, ReadRow
    <2> QED BY <1>1, <2>1, <2>2, <2>3, <2>4, <2>5 DEF Poll
  <1>2. ASSUME NEW r \in Req, Handle(r) PROVE UNCHANGED stepVars
    BY <1>2 DEF Handle, BindSave, StartRead, StartSave, StartOpen, StopSave,
                StopEngineWait, StartLoop
  <1>3. ASSUME Request PROVE UNCHANGED stepVars
    BY <1>3 DEF Request, BindRead, StartCancel, StopHistory, Pause, Resume, DeleteFlow,
                SaveFlow, StartEngine, StopEngine
  <1>4. ASSUME UNCHANGED vars PROVE UNCHANGED stepVars
    BY <1>4 DEF vars, stepVars
  <1> QED BY <1>1, <1>2, <1>3, <1>4 DEF Next

LEMMA RecFrame ==
  ASSUME TypeInv, TypeInv', RecInv, HistKept, UNCHANGED stepVars PROVE RecInv'
  <1>1. nhist \in Nat /\ nhist' >= nhist /\ \A h \in 1 .. nhist : hist'[h].dev = hist[h].dev
    <2>1. nhist \in 0 .. MaxHist /\ nhist' \in 0 .. MaxHist BY DEF TypeInv, HistT
    <2> QED BY <2>1, EngineAssumption DEF HistKept
  <1>2. recs' = recs /\ nrec' = nrec /\ stepMap' = stepMap BY DEF stepVars
  <1>3. RecFresh'
    <2>1. RecFresh BY DEF RecInv
    <2> QED BY <1>2, <2>1 DEF RecFresh
  <1>4. OpenStepRecord'
    <2> SUFFICES ASSUME NEW d \in Device, NEW i \in StepIdx, stepMap[<<d, i>>] # 0
                 PROVE  LET r == stepMap[<<d, i>>] IN
                        /\ r <= nrec /\ recs[r].st = "running" /\ recs[r].step = i
                        /\ recs[r].h \in 1 .. nhist' /\ hist'[recs[r].h].dev = d
      BY <1>2 DEF OpenStepRecord
    <2> DEFINE r == stepMap[<<d, i>>]
    <2>1. /\ r <= nrec /\ recs[r].st = "running" /\ recs[r].step = i
          /\ recs[r].h \in 1 .. nhist /\ hist[recs[r].h].dev = d
      BY DEF RecInv, OpenStepRecord
    <2>2. nhist' \in Nat BY EngineAssumption DEF TypeInv, HistT
    <2> HIDE DEF r
    <2>3. recs[r].h \in 1 .. nhist' BY <2>1, <2>2, <1>1
    <2> QED BY <2>1, <2>3, <1>1 DEF r
  <1> QED BY <1>3, <1>4 DEF RecInv

LEMMA RecStart ==
  ASSUME TypeInv, TypeInv', HistInv, RecInv, NEW d \in Device, NEW i \in StepIdx,
         StartStepRecord(d, i), UNCHANGED histVars
  PROVE  RecInv'
  <1>1. CASE historyMap[d] = 0
    <2>1. UNCHANGED stepVars BY <1>1 DEF StartStepRecord
    <2>2. HistKept BY EngineAssumption DEF HistKept, histVars, TypeInv, HistT
    <2> QED BY <2>1, <2>2, RecFrame
  <1>2. CASE historyMap[d] # 0
    <2> DEFINE n == nrec + 1
               new == [h |-> historyMap[d], step |-> i, st |-> "running"]
    <2>1. /\ nrec' = n /\ recs' = [recs EXCEPT ![n] = new] /\ nrec < MaxRec
          /\ stepMap' = [stepMap EXCEPT ![<<d, i>>] = n]
      BY <1>2 DEF StartStepRecord
    <2>2. nrec \in Nat /\ n \in RecId /\ n \in Nat
      BY <2>1, EngineAssumption DEF TypeInv, StepT, RecId
    <2>3. recs'[n] = new /\ \A r \in RecId : r # n => recs'[r] = recs[r]
      BY <2>1, <2>2 DEF TypeInv, StepT
    <2>4. /\ stepMap'[<<d, i>>] = n
          /\ \A e \in Device, j \in StepIdx : <<e, j>> # <<d, i>> => stepMap'[<<e, j>>] = stepMap[<<e, j>>]
      BY <2>1 DEF TypeInv, StepT
    <2>5. hist' = hist /\ nhist' = nhist BY DEF histVars
    <2>6. historyMap[d] \in 1 .. nhist /\ hist[historyMap[d]].dev = d
      BY <1>2, EngineAssumption DEF HistInv, LiveHistoryIsNewest, TypeInv, HistT
    <2>7. RecFresh'
      <3>1. \A r \in RecId : r > n => r > nrec /\ r # n BY <2>2 DEF RecId
      <3> QED BY <3>1, <2>1, <2>3 DEF RecInv, RecFresh
    <2>8. OpenStepRecord'
      <3> SUFFICES ASSUME NEW e \in Device, NEW j \in StepIdx, stepMap'[<<e, j>>] # 0
                   PROVE  LET r == stepMap'[<<e, j>>] IN
                          /\ r <= n /\ recs'[r].st = "running" /\ recs'[r].step = j
                          /\ recs'[r].h \in 1 .. nhist /\ hist[recs'[r].h].dev = e
        BY <2>1, <2>5 DEF OpenStepRecord
      <3>1. CASE e = d /\ j = i BY <3>1, <2>2, <2>3, <2>4, <2>6
      <3>2. CASE ~(e = d /\ j = i)
        <4> DEFINE r == stepMap[<<e, j>>]
        <4>1. stepMap'[<<e, j>>] = r BY <3>2, <2>4
        <4>2. /\ r <= nrec /\ recs[r].st = "running" /\ recs[r].step = j
              /\ recs[r].h \in 1 .. nhist /\ hist[recs[r].h].dev = e
          BY <4>1 DEF RecInv, OpenStepRecord
        <4>3. r \in RecId
          BY <4>1, EngineAssumption DEF TypeInv, StepT, RecId
        <4> HIDE DEF r
        <4>4. r # n /\ r <= n BY <4>2, <4>3, <2>2 DEF RecId
        <4> QED BY <4>1, <4>2, <4>3, <4>4, <2>3
      <3> QED BY <3>1, <3>2
    <2> QED BY <2>7, <2>8 DEF RecInv
  <1> QED BY <1>1, <1>2

\* Two keys never lead to one record: it is of one step of one device.
LEMMA RecComplete ==
  ASSUME TypeInv, TypeInv', RecInv, HistKept, NEW d \in Device, NEW i \in StepIdx,
         NEW st \in {"success", "failed"}, CompleteStepRecord(d, i, st)
  PROVE  RecInv'
  <1> DEFINE c == stepMap[<<d, i>>]
  <1>1. nrec' = nrec /\ stepMap' = [stepMap EXCEPT ![<<d, i>>] = 0]
    BY DEF CompleteStepRecord
  <1>2. \A r \in RecId : /\ r # c => recs'[r] = recs[r]
                         /\ recs[r].st = "none" => recs'[r] = recs[r]
    <2>1. CASE c = 0 BY <2>1 DEF CompleteStepRecord
    <2>2. CASE c # 0
      <3>1. recs' = [recs EXCEPT ![c].st = st] BY <2>2 DEF CompleteStepRecord
      <3>2. recs[c].st = "running" BY <2>2 DEF RecInv, OpenStepRecord
      <3> QED BY <3>1, <3>2 DEF TypeInv, StepT
    <2> QED BY <2>1, <2>2
  <1>3. /\ stepMap'[<<d, i>>] = 0
        /\ \A e \in Device, j \in StepIdx : <<e, j>> # <<d, i>> => stepMap'[<<e, j>>] = stepMap[<<e, j>>]
    BY <1>1 DEF TypeInv, StepT
  <1>4. RecFresh' BY <1>1, <1>2 DEF RecInv, RecFresh
  <1>5. OpenStepRecord'
    <2> SUFFICES ASSUME NEW e \in Device, NEW j \in StepIdx, stepMap'[<<e, j>>] # 0
                 PROVE  LET r == stepMap'[<<e, j>>] IN
                        /\ r <= nrec /\ recs'[r].st = "running" /\ recs'[r].step = j
                        /\ recs'[r].h \in 1 .. nhist' /\ hist'[recs'[r].h].dev = e
      BY <1>1 DEF OpenStepRecord
    <2> DEFINE r == stepMap[<<e, j>>]
    <2>1. stepMap'[<<e, j>>] = r /\ r # 0 /\ ~(e = d /\ j = i) BY <1>3
    <2>2. /\ r <= nrec /\ recs[r].st = "running" /\ recs[r].step = j
          /\ recs[r].h \in 1 .. nhist /\ hist[recs[r].h].dev = e
      BY <2>1 DEF RecInv, OpenStepRecord
    <2>3. r \in RecId BY <2>1, EngineAssumption DEF TypeInv, StepT, RecId
    <2>4. r # c
      <3>1. ASSUME c # 0 PROVE recs[c].step = i /\ hist[recs[c].h].dev = d
        BY <3>1 DEF RecInv, OpenStepRecord
      <3> QED BY <3>1, <2>1, <2>2
    <2>5. nhist' \in Nat /\ nhist \in Nat /\ nhist <= nhist'
      BY EngineAssumption DEF TypeInv, HistT, HistKept
    <2> HIDE DEF r, c
    <2>6. recs'[r] = recs[r] BY <1>2, <2>3, <2>4
    <2>7. recs[r].h \in 1 .. nhist' BY <2>2, <2>5
    <2> QED BY <2>1, <2>2, <2>6, <2>7 DEF HistKept
  <1> QED BY <1>4, <1>5 DEF RecInv

LEMMA RecCrash == ASSUME TypeInv, RecInv, NEW l \in Loop, Crash(l) PROVE RecInv'
  <1>1. recs' = recs /\ nrec' = nrec BY DEF Crash
  <1>2. \A d \in Device, i \in StepIdx : stepMap'[<<d, i>>] = 0 BY DEF Crash
  <1> QED BY <1>1, <1>2 DEF RecInv, RecFresh, OpenStepRecord

LEMMA RecInvInit == Init => RecInv
  <1> SUFFICES ASSUME Init PROVE RecInv
    OBVIOUS
  <1>1. RecFresh BY DEF Init, RecFresh, NoRec
  <1>2. \A d \in Device, i \in StepIdx : stepMap[<<d, i>>] = 0 BY DEF Init
  <1> QED BY <1>1, <1>2 DEF RecInv, OpenStepRecord

LEMMA RecInvNext == TypeInv /\ HistInv /\ RecInv /\ [Next]_vars => RecInv'
  <1> SUFFICES ASSUME TypeInv, HistInv, RecInv, [Next]_vars PROVE RecInv'
    OBVIOUS
  <1>1. TypeInv' BY NextType
  <1>2. HistKept BY HistoryKept
  <1> QED BY <1>1, <1>2, RecSteps, RecFrame, RecStart, RecComplete, RecCrash

LEMMA RecInvariant == Spec => []RecInv
  BY TypeInvariant, HistInvariant, RecInvInit, RecInvNext, PTL DEF Spec

\* A key of stepMap always leads to a record that is open, of the step and the
\* device of the key, whatever polls, restarts of a flow and stops overlap.
THEOREM OpenRecords == Spec => []OpenStepRecord
  <1>1. RecInv => OpenStepRecord BY DEF RecInv
  <1> QED BY <1>1, RecInvariant, PTL

LEMMA RecordKept ==
  ASSUME TypeInv, RecInv, [Next]_vars, NEW r \in RecId, recs[r].st \in {"success", "failed"}
  PROVE  recs'[r] = recs[r]
  <1>1. CASE UNCHANGED stepVars BY <1>1 DEF stepVars
  <1>2. ASSUME NEW d \in Device, NEW i \in StepIdx, StartStepRecord(d, i)
        PROVE  recs'[r] = recs[r]
    <2>1. CASE historyMap[d] = 0 BY <2>1, <1>2 DEF StartStepRecord, stepVars
    <2>2. CASE historyMap[d] # 0
      <3>1. nrec \in Nat /\ nrec < MaxRec
        BY <2>2, <1>2, EngineAssumption DEF StartStepRecord, TypeInv, StepT
      <3>2. nrec + 1 \in RecId /\ nrec + 1 > nrec BY <3>1, EngineAssumption DEF RecId
      <3>3. r # nrec + 1 BY <3>2 DEF RecInv, RecFresh
      <3> QED BY <2>2, <3>3, <1>2 DEF StartStepRecord, TypeInv, StepT
    <2> QED BY <2>1, <2>2
  <1>3. ASSUME NEW d \in Device, NEW i \in StepIdx, NEW st \in {"success", "failed"},
               CompleteStepRecord(d, i, st)
        PROVE  recs'[r] = recs[r]
    <2>1. CASE stepMap[<<d, i>>] = 0 BY <2>1, <1>3 DEF CompleteStepRecord
    <2>2. CASE stepMap[<<d, i>>] # 0
      <3>1. r # stepMap[<<d, i>>] BY <2>2 DEF RecInv, OpenStepRecord
      <3> QED BY <2>2, <3>1, <1>3 DEF CompleteStepRecord, TypeInv, StepT
    <2> QED BY <2>1, <2>2
  <1>4. ASSUME NEW l \in Loop, Crash(l) PROVE recs'[r] = recs[r] BY <1>4 DEF Crash
  <1> QED BY <1>1, <1>2, <1>3, <1>4, RecSteps

\* The outcome of a step record is written once: no poll, restart or stop that
\* comes late rewrites it.
THEOREM RecordsFinal == Spec => StepRecordFinal
  <1>1. TypeInv /\ RecInv /\ [Next]_vars =>
          [\A r \in RecId : recs[r].st \in {"success", "failed"} => recs'[r] = recs[r]]_recs
    BY RecordKept
  <1> QED BY <1>1, TypeInvariant, RecInvariant, PTL DEF Spec, StepRecordFinal

-----------------------------------------------------------------------------
(* The status of a device.                                                   *)

\* What a poll at work on a device makes of its status.
LEMMA PollStatus ==
  ASSUME TypeInv, NEW l \in Loop, Poll(l), loop[l].d \in Device,
         row'[loop[l].d].status = "running", row[loop[l].d].status # "running"
  PROVE  loop[l].cfg.mode = "loop"
  <1> DEFINE d == loop[l].d
  <1>1. row \in [Device -> Row] /\ row[d] \in Row BY DEF TypeInv, RowT
  <1>2. ASSUME UNCHANGED row PROVE FALSE BY <1>2
  <1>3. CASE LoopCountSave(l)
    BY <1>3 DEF LoopCountSave, TypeInv, LoopT, GoodLoop, AtRound
  <1>4. CASE ExecFail(l) \/ SetDeviceError(l) \/ CompletedSave(l)
    <2>1. PICK c \in Row, st \in {"error", "completed"} :
            row' = [row EXCEPT ![d] = [c EXCEPT !.status = st]]
      BY <1>1, <1>4, AtWork DEF ExecFail, SetDeviceError, CompletedSave
    <2>2. row'[d].status = st BY <2>1, <1>1 DEF Row
    <2> QED BY <2>2
  <1>5. CASE ExecPending(l) \/ MergeWrite(l) \/ Progress(l) \/ LoopRewind(l)
    <2>1. row'[d].status \in {row[d].status, "error"}
      BY <1>1, <1>5 DEF ExecPending, MergeWrite, Progress, LoopRewind, Row
    <2> QED BY <2>1
  <1>6. ASSUME NEW e \in Device,
               \/ ProcessBroken(l, e) \/ ProcessEmpty(l, e) \/ ProcessAtEnd(l, e)
               \/ ProcessStep(l, e)
        PROVE  UNCHANGED row
    BY <1>6 DEF ProcessBroken, ProcessEmpty, ProcessAtEnd, ProcessStep
  <1>7. ASSUME \/ Tick(l) \/ EnterSelect(l) \/ ExitLoop(l) \/ ExecSuccess(l) \/ MergeRead(l)
               \/ FailStep(l) \/ FailHist(l) \/ CompletedRead(l) \/ LoopCountRead(l)
               \/ LoopHistory(l)
        PROVE  UNCHANGED row
    BY <1>7 DEF Tick, EnterSelect, ExitLoop, ExecSuccess, MergeRead, FailStep, FailHist,
                CompletedRead, LoopCountRead, LoopHistory, ReadRow
  <1> QED BY <1>2, <1>3, <1>4, <1>5, <1>6, <1>7 DEF Poll

\* A poll moves no goroutine but its own.
LEMMA PollsOwn ==
  ASSUME TypeInv, NEW k \in Loop, NEW l \in Loop, Poll(k), k # l
  PROVE  loop'[l] = loop[l]
  <1>1. loop \in [Loop -> GoodLoop] BY DEF TypeInv, LoopT
  <1>2. ASSUME NEW g, loop' = [loop EXCEPT ![k] = g] PROVE loop'[l] = loop[l]
    BY <1>1, <1>2
  <1>3. ASSUME NEW d \in Device, ProcessBroken(k, d) \/ ProcessEmpty(k, d)
                                   \/ ProcessAtEnd(k, d) \/ ProcessStep(k, d)
        PROVE  loop'[l] = loop[l]
    BY <1>1, <1>3 DEF ProcessBroken, ProcessEmpty, ProcessAtEnd, ProcessStep, Take
  <1>4. ASSUME \/ Tick(k) \/ EnterSelect(k) \/ ExitLoop(k) \/ ExecSuccess(k)
               \/ ExecFail(k) \/ ExecPending(k) \/ MergeRead(k) \/ MergeWrite(k)
        PROVE  loop'[l] = loop[l]
    BY <1>1, <1>4 DEF Tick, EnterSelect, ExitLoop, ExecSuccess, ExecFail,
       ExecPending, MergeRead, MergeWrite, Goto, Done
  <1>5. ASSUME \/ Progress(k) \/ FailStep(k) \/ FailHist(k) \/ SetDeviceError(k)
               \/ CompletedRead(k) \/ CompletedSave(k) \/ LoopCountRead(k)
               \/ LoopCountSave(k) \/ LoopRewind(k) \/ LoopHistory(k)
        PROVE  loop'[l] = loop[l]
    BY <1>1, <1>5 DEF Progress, FailStep, FailHist, SetDeviceError, CompletedRead,
       CompletedSave, LoopCountRead, LoopCountSave, LoopRewind, LoopHistory, ReadRow,
       Goto, Done
  <1> QED BY <1>3, <1>4, <1>5 DEF Poll

\* A goroutine's place is changed by its own polls, by its start, and by a crash.
LEMMA LoopSteps ==
  ASSUME TypeInv, Next, NEW l \in Loop, loop'[l] # loop[l], row' # row
  PROVE  Poll(l)
  <1>1. ASSUME NEW k \in Loop, Poll(k), k # l PROVE loop'[l] = loop[l]
    BY <1>1, PollsOwn
  <1>2. ASSUME NEW k \in Loop, Crash(k) PROVE row' = row BY <1>2 DEF Crash
  <1>3. ASSUME NEW r \in Req, Handle(r) PROVE row' = row \/ loop' = loop
    BY <1>3 DEF Handle, BindSave, StartRead, StartSave, StartOpen, StopSave,
                StopEngineWait, StartLoop
  <1>4. ASSUME Request PROVE loop' = loop
    BY <1>4 DEF Request, BindRead, StartCancel, StopHistory, Pause, Resume, DeleteFlow,
                SaveFlow, StartEngine, StopEngine
  <1> QED BY <1>1, <1>2, <1>3, <1>4 DEF Next

LEMMA StepRevives ==
  ASSUME TypeInv, [Next]_vars, NEW l \in Loop, loop'[l] # loop[l],
         loop[l].d # NoDevice, row'[loop[l].d].status = "running",
         row[loop[l].d].status # "running"
  PROVE  loop[l].cfg.mode = "loop"
  <1>1. loop[l].d \in Device BY DEF TypeInv, LoopT, GoodLoop, LoopRow
  <1>2. row' # row OBVIOUS
  <1>3. Next BY <1>2 DEF vars
  <1>4. Poll(l) BY <1>2, <1>3, LoopSteps
  <1> QED BY <1>1, <1>4, PollStatus

\* Of all the late writes of a poll only the row saved at the end of a round of
\* loop mode can make a device that was stopped or paused run again.
THEOREM RoundsRevive == Spec => OnlyRoundsRevive
  <1>1. TypeInv /\ [Next]_vars =>
          [\A l \in Loop : LET d == loop[l].d IN
             (loop'[l] # loop[l] /\ d # NoDevice /\ row'[d].status = "running"
                /\ row[d].status # "running")
             => loop[l].cfg.mode = "loop"]_vars
    BY StepRevives
  <1> QED BY <1>1, TypeInvariant, PTL DEF Spec, OnlyRoundsRevive

-----------------------------------------------------------------------------
(* The switch of the engine.                                                 *)

\* Where a poll leaves its goroutine: at work, unless it entered the select on the
\* channel of now or found its own channel closed.
LEMMA PollStaysOn ==
  ASSUME TypeInv, NEW l \in Loop, Poll(l)
  PROVE  \/ loop'[l].pc \notin {"off", "wait"}
         \/ loop'[l].pc = "wait" /\ loop'[l].ch = stopCh
         \/ ExitLoop(l)
  <1>1. loop \in [Loop -> GoodLoop] /\ loop[l] \in LoopRow BY DEF TypeInv, LoopT, GoodLoop
  <1>2. CASE EnterSelect(l)
    BY <1>1, <1>2 DEF EnterSelect, Select
  <1>3. ASSUME NEW d \in Device, NEW p, p \notin {"off", "wait"}, Take(l, d, p)
        PROVE  loop'[l].pc \notin {"off", "wait"}
    BY <1>1, <1>3 DEF Take, LoopRow
  <1>4. ASSUME NEW d \in Device,
               ProcessBroken(l, d) \/ ProcessEmpty(l, d) \/ ProcessAtEnd(l, d)
                 \/ ProcessStep(l, d)
        PROVE  loop'[l].pc \notin {"off", "wait"}
    <2>1. CASE ProcessBroken(l, d) BY <2>1, <1>3 DEF ProcessBroken
    <2>2. CASE ProcessEmpty(l, d) BY <2>2, <1>3 DEF ProcessEmpty
    <2>3. CASE ProcessAtEnd(l, d) BY <2>3, <1>3 DEF ProcessAtEnd
    <2>4. CASE ProcessStep(l, d)
      <3>1. loop'[l].pc = "exec" BY <2>4, <1>1 DEF ProcessStep, LoopRow
      <3> QED BY <3>1
    <2> QED BY <1>4, <2>1, <2>2, <2>3, <2>4
  <1>5. ASSUME Done(l) PROVE loop'[l].pc \notin {"off", "wait"}
    BY <1>1, <1>5 DEF Done, Taking, Select
  <1>6. ASSUME \/ ExecPending(l) \/ Progress(l) \/ FailHist(l) \/ SetDeviceError(l)
               \/ CompletedSave(l) \/ LoopHistory(l)
        PROVE  Done(l)
    BY <1>6 DEF ExecPending, Progress, FailHist, SetDeviceError, CompletedSave, LoopHistory
  <1>7. ASSUME \/ Tick(l) \/ ExecFail(l) \/ FailStep(l) \/ LoopRewind(l) \/ MergeRead(l)
               \/ CompletedRead(l) \/ LoopCountRead(l) \/ LoopCountSave(l)
        PROVE  loop'[l].pc \notin {"off", "wait"}
    <2>1. CASE Tick(l) BY <1>1, <2>1 DEF Tick, LoopRow
    <2>2. CASE ExecFail(l) BY <1>1, <2>2 DEF ExecFail, Goto, LoopRow
    <2>3. CASE FailStep(l) BY <1>1, <2>3 DEF FailStep, Goto, LoopRow
    <2>4. CASE LoopRewind(l) BY <1>1, <2>4 DEF LoopRewind, Goto, LoopRow
    <2>5. CASE MergeRead(l) BY <1>1, <2>5 DEF MergeRead, ReadRow, Goto, LoopRow
    <2>6. CASE CompletedRead(l) BY <1>1, <2>6 DEF CompletedRead, ReadRow, Goto, LoopRow
    <2>7. CASE LoopCountRead(l) BY <1>1, <2>7 DEF LoopCountRead, ReadRow, Goto, LoopRow
    <2>8. CASE LoopCountSave(l) BY <1>1, <2>8 DEF LoopCountSave, Goto, LoopRow
    <2> QED BY <1>7, <2>1, <2>2, <2>3, <2>4, <2>5, <2>6, <2>7, <2>8
  <1>8. ASSUME MergeWrite(l) \/ ExecSuccess(l)
        PROVE  loop'[l].pc \notin {"off", "wait"}
    <2>1. CASE MergeWrite(l)
      <3>1. loop[l].goto \in {"take", "progress", "doneR"} BY <1>1 DEF LoopRow
      <3>2. loop'[l].pc = loop[l].goto BY <2>1, <1>1 DEF MergeWrite, LoopRow
      <3> QED BY <3>1, <3>2
    <2>2. CASE ExecSuccess(l)
      <3>1. loop'[l].pc \in {"progress", "doneR", "mergeR"}
        BY <2>2, <1>1 DEF ExecSuccess, LoopRow
      <3> QED BY <3>1
    <2> QED BY <1>8, <2>1, <2>2
  <1> QED BY <1>2, <1>4, <1>5, <1>6, <1>7, <1>8 DEF Poll

LEMMA PollKeepsSwitch == ASSUME NEW l \in Loop, Poll(l) PROVE UNCHANGED ctlVars
  <1>1. ASSUME NEW d \in Device, ProcessBroken(l, d) \/ ProcessEmpty(l, d)
                                   \/ ProcessAtEnd(l, d) \/ ProcessStep(l, d)
        PROVE  UNCHANGED ctlVars
    BY <1>1 DEF ProcessBroken, ProcessEmpty, ProcessAtEnd, ProcessStep
  <1>2. ASSUME \/ Tick(l) \/ EnterSelect(l) \/ ExitLoop(l) \/ ExecSuccess(l)
               \/ ExecFail(l) \/ ExecPending(l) \/ MergeRead(l) \/ MergeWrite(l)
        PROVE  UNCHANGED ctlVars
    BY <1>2 DEF Tick, EnterSelect, ExitLoop, ExecSuccess, ExecFail, ExecPending,
                MergeRead, MergeWrite
  <1>3. ASSUME \/ Progress(l) \/ FailStep(l) \/ FailHist(l) \/ SetDeviceError(l)
               \/ CompletedRead(l) \/ CompletedSave(l) \/ LoopCountRead(l)
               \/ LoopCountSave(l) \/ LoopRewind(l) \/ LoopHistory(l)
        PROVE  UNCHANGED ctlVars
    BY <1>3 DEF Progress, FailStep, FailHist, SetDeviceError, CompletedRead, CompletedSave,
                LoopCountRead, LoopCountSave, LoopRewind, LoopHistory, ReadRow
  <1> QED BY <1>1, <1>2, <1>3 DEF Poll

\* A goroutine that polls and will go on polling.
Polls(l) == loop[l].pc # "off" /\ (loop[l].pc = "wait" => ~Closed(loop[l].ch))

LEMMA AliveUnderPoll ==
  ASSUME TypeInv, EngineAlive, NEW l \in Loop, Poll(l) PROVE EngineAlive'
  <1> SUFFICES ASSUME running' PROVE \/ \E k \in Loop : Polls(k)'
                                     \/ \E r \in Req : req'[r].pc = "goLoop"
    BY DEF EngineAlive, Polls
  <1>1. running' = running /\ stopCh' = stopCh /\ req' = req
    BY PollKeepsSwitch, PollsKeepReq DEF ctlVars
  <1>2. CASE \E r \in Req : req[r].pc = "goLoop" BY <1>1, <1>2
  <1>3. ASSUME NEW k \in Loop, Polls(k) PROVE \E j \in Loop : Polls(j)'
    <2>1. CASE k # l
      <3>1. loop'[k] = loop[k] BY <2>1, PollsOwn
      <3> QED BY <1>1, <1>3, <3>1 DEF Polls, Closed
    <2>2. CASE k = l
      <3>1. ~ExitLoop(l) BY <2>2, <1>3 DEF Polls, ExitLoop
      <3>2. ~(stopCh < stopCh) BY DEF TypeInv, CtlT
      <3>3. Polls(l)' BY <3>1, <3>2, <1>1, PollStaysOn DEF Polls, Closed
      <3> QED BY <3>3
    <2> QED BY <2>1, <2>2
  <1> QED BY <1>1, <1>2, <1>3 DEF EngineAlive, Polls

LEMMA AliveUnderHandle ==
  ASSUME TypeInv, EngineAlive, NEW r \in Req, Handle(r) PROVE EngineAlive'
  <1>1. req \in [Req -> GoodReq] /\ loop \in [Loop -> GoodLoop]
    BY DEF TypeInv, ReqT, LoopT
  <1>2. running' = running /\ stopCh' = stopCh
    BY DEF Handle, BindSave, StartRead, StartSave, StartOpen, StopSave, StopEngineWait,
           StartLoop, ctlVars
  <1>3. ASSUME NEW l \in Loop, StartLoop(r, l) PROVE EngineAlive'
    <2>1. loop'[l] = Beginning(stopCh) BY <1>1, <1>3 DEF StartLoop
    <2>2. loop'[l].pc = "take" BY <2>1 DEF Beginning, Select
    <2> QED BY <2>2 DEF EngineAlive
  <1>4. ASSUME \/ BindSave(r) \/ StartRead(r) \/ StartSave(r) \/ StartOpen(r) \/ StopSave(r)
               \/ StopEngineWait(r)
        PROVE  EngineAlive'
    <2>1. loop' = loop /\ req[r].pc # "goLoop"
      BY <1>4 DEF BindSave, StartRead, StartSave, StartOpen, StopSave, StopEngineWait
    <2>2. \A q \in Req : q # r => req'[q] = req[q]
      BY <1>1, <1>4 DEF BindSave, StartRead, StartSave, StartOpen, StopSave,
                        StopEngineWait, Reply
    <2>3. \A q \in Req : req[q].pc = "goLoop" => req'[q].pc = "goLoop" BY <2>1, <2>2
    <2> QED BY <1>2, <2>1, <2>3 DEF EngineAlive, Closed
  <1> QED BY <1>3, <1>4 DEF Handle

LEMMA AliveUnderRequest == ASSUME TypeInv, EngineAlive, Request PROVE EngineAlive'
  <1>1. req \in [Req -> GoodReq] BY DEF TypeInv, ReqT
  <1>2. ASSUME NEW r \in Req, StartEngine(r) PROVE EngineAlive'
    <2>1. CASE running
      <3>1. UNCHANGED <<running, stopCh, loop, req>> BY <1>2, <2>1 DEF StartEngine
      <3> QED BY <3>1 DEF EngineAlive, Closed
    <2>2. CASE ~running
      <3>1. req'[r] = [req[r] EXCEPT !.pc = "goLoop"] BY <1>1, <1>2, <2>2 DEF StartEngine
      <3>2. req'[r].pc = "goLoop" BY <1>1, <3>1 DEF GoodReq, ReqRow
      <3> QED BY <3>2 DEF EngineAlive
    <2> QED BY <2>1, <2>2
  <1>3. ASSUME NEW r \in Req, StopEngine(r) PROVE EngineAlive'
    BY <1>3 DEF StopEngine, EngineAlive
  <1>4. ASSUME UNCHANGED <<ctlVars, loop>>,
               \A q \in Req : req[q].pc = "goLoop" => req'[q].pc = "goLoop"
        PROVE  EngineAlive'
    BY <1>4 DEF EngineAlive, Closed, ctlVars
  <1>5. ASSUME NEW r \in Req, NEW d \in Device,
               \/ StartCancel(r, d) \/ StopHistory(r, d)
               \/ \E f \in Flow, m \in Mode : BindRead(r, d, f, m)
        PROVE  EngineAlive'
    <2>1. req[r].pc = "idle" BY <1>5 DEF StartCancel, StopHistory, BindRead, Begin
    <2>2. \A q \in Req : q # r => req'[q] = req[q]
      BY <1>1, <1>5 DEF StartCancel, StopHistory, BindRead
    <2>3. UNCHANGED <<ctlVars, loop>> BY <1>5 DEF StartCancel, StopHistory, BindRead
    <2> QED BY <2>1, <2>2, <2>3, <1>4
  <1>6. ASSUME NEW d \in Device, Pause(d) \/ Resume(d) PROVE EngineAlive'
    BY <1>6, <1>4 DEF Pause, Resume
  <1>7. ASSUME NEW f \in Flow, DeleteFlow(f) \/ \E s \in FlowDefs : SaveFlow(f, s)
        PROVE  EngineAlive'
    BY <1>7, <1>4 DEF DeleteFlow, SaveFlow
  <1> QED BY <1>2, <1>3, <1>5, <1>6, <1>7 DEF Request

LEMMA AliveNext == TypeInv /\ EngineAlive /\ [Next]_vars => EngineAlive'
  <1> SUFFICES ASSUME TypeInv, EngineAlive, [Next]_vars PROVE EngineAlive'
    OBVIOUS
  <1>1. ASSUME NEW l \in Loop, Crash(l) PROVE EngineAlive'
    <2>1. loop'[l].pc = "take" BY <1>1 DEF Crash, Boot, Beginning, Select
    <2> QED BY <2>1 DEF EngineAlive
  <1>2. CASE UNCHANGED vars BY <1>2 DEF vars, EngineAlive, Closed
  <1> QED
    BY <1>1, <1>2, AliveUnderPoll, AliveUnderHandle, AliveUnderRequest DEF Next

LEMMA AliveInit == Init => EngineAlive
  <1> SUFFICES ASSUME Init PROVE EngineAlive
    OBVIOUS
  <1>1. PICK l \in Loop : loop = Boot(l) BY DEF Init
  <1>2. loop[l].pc = "take" BY <1>1 DEF Boot, Beginning, Select
  <1> QED BY <1>2 DEF EngineAlive

\* While IsRunning answers true a goroutine polls, or is about to, and none of the
\* starts and stops that race can leave it in a select on a channel that is closed.
THEOREM Alive == Spec => []EngineAlive
  BY TypeInvariant, AliveInit, AliveNext, PTL DEF Spec
=============================================================================
