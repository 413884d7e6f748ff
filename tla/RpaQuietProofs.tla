---------------------------- MODULE RpaQuietProofs ----------------------------
(***************************************************************************)
(* What RpaEngine promises while handlers and polls do not overlap (Quiet): *)
(* the variables of a run are its own, a device has one open execution, and *)
(* a failed execution shows the step it failed at.  The last two are for    *)
(* one engine goroutine at a time: two of them poll a device side by side.  *)
(***************************************************************************)
EXTENDS RpaEngineProofs

OneLoop == \A k, l \in Loop : k = l

\* No step decides where the flow goes.
NothingSteers == \A s \in FlowDefs : \A i \in 1 .. Len(s) : s[i] # "steer"

\* One handler at a time, and none while a goroutine is in a tick.
NoOverlap ==
  \A r \in Req : req[r].pc # "idle" =>
    /\ \A q \in Req : q # r => req[q].pc = "idle"
    /\ \A l \in Loop : loop[l].pc \in {"off", "wait"}

Resting == {"off", "wait", "take"}
Holding == {"mergeW", "doneW", "loopW"}

Own(c) == \A v \in c.vars : v[1] = c.run

\* What a goroutine copied belongs to the run its device is still in.
SameRun(g, rows) ==
  /\ g.pc \in {"off", "wait"} => g.todo = {}
  /\ \A d \in g.todo : g.snap[d].run = rows[d].run
  /\ g.pc \notin Resting => g.cfg.run = rows[g.d].run
  /\ g.pc \in Holding => g.row.run = rows[g.d].run /\ Own(g.row)

VarsInv ==
  /\ NoOverlap
  /\ \A d \in Device : Own(row[d])
  /\ \A r \in Req : req[r].pc \in {"bindW", "startW"} => Own(req[r].row)
  /\ \A l \in Loop : SameRun(loop[l], row)

\* An execution that is open is the one historyMap holds, and there is none while
\* a start or the end of a round is about to open another.
OneInv ==
  /\ boot = 1
  /\ \A h \in 1 .. nhist : hist[h].st = "running" => historyMap[hist[h].dev] = h
  /\ \A r \in Req : req[r].pc \in Starting =>
       \A h \in 1 .. nhist : hist[h].dev = req[r].d => hist[h].st # "running"
  /\ \A l \in Loop : loop[l].pc \in AtRound =>
       \A h \in 1 .. nhist : hist[h].dev = loop[l].d => hist[h].st # "running"

\* The record of step i of the execution historyMap holds for d is open.
Opened(d, i) ==
  historyMap[d] # 0 => /\ i \in StepIdx /\ stepMap[<<d, i>>] # 0
                       /\ recs[stepMap[<<d, i>>]].h = historyMap[d]

\* The one goroutine holds its devices as they are.
SameRow(g, rows) ==
  /\ g.pc \in {"off", "wait"} => g.todo = {}
  /\ \A d \in g.todo : g.snap[d] = rows[d]
  /\ g.pc \notin Resting => g.d \notin g.todo
  /\ g.pc \in {"doneW", "loopW"} => g.row = rows[g.d]

\* The record of the step is closed, the row still says that the step goes on.
AfterStep == {"mergeR", "mergeW", "progress", "failHist"}

NoneUnbound == \A d \in Device : row[d].status = "none" => row[d].rpa = NoRpa

\* A step that goes on has an open record, or its outcome is being stored.
Carried ==
  \A d \in Device : row[d].sub # 0 =>
    Opened(d, row[d].step) \/ \E l \in Loop : loop[l].pc \in AfterStep /\ loop[l].d = d

\* A handler is about to give its device a row that begins a step.
FreshRow(q, rows) ==
  /\ q.pc = "startHist" => rows[q.d].sub = 0 \/ rows[q.d].status = "none"
  /\ q.pc \in {"bindW", "startW"} => q.row.sub = 0 /\ q.row.status # "none"

\* What the goroutine finds when it comes to close a record or an execution.
Calm(l) == LET g == loop[l] IN
  /\ SameRow(g, row)
  /\ g.kind # "steer"
  /\ g.pc \in {"exec", "failStep"} => Opened(g.d, g.cfg.step)
  /\ g.pc = "failHist" /\ historyMap[g.d] # 0 => RecsOf(historyMap[g.d], "failed") # {}
  /\ g.pc = "loopHist" => row[g.d].sub = 0
  /\ g.pc \in {"mergeR", "mergeW"} => g.goto = "progress"

CauseInv ==
  /\ FailureHasCause /\ NoneUnbound /\ Carried
  /\ \A r \in Req : FreshRow(req[r], row)
  /\ \A l \in Loop : Calm(l)

-----------------------------------------------------------------------------
(* Handlers and polls take turns.                                            *)

LEMMA PollWaits ==
  ASSUME NEW l \in Loop, Poll(l), loop[l].pc \in {"off", "wait"}
  PROVE  Tick(l) \/ ExitLoop(l)
  BY DEF Poll, Tick, EnterSelect, ExitLoop, ExecSuccess, ExecFail, ExecPending, MergeRead,
     MergeWrite, Progress, FailStep, FailHist, SetDeviceError, CompletedRead, CompletedSave,
     LoopCountRead, LoopCountSave, LoopRewind, LoopHistory, ReadRow, ProcessBroken,
     ProcessEmpty, ProcessAtEnd, ProcessStep

LEMMA HandleReq ==
  ASSUME TypeInv, NEW r \in Req, Handle(r)
  PROVE  /\ req[r].pc # "idle"
         /\ \A q \in Req : q # r => req'[q] = req[q]
         /\ loop' = loop \/ (req[r].pc = "goLoop" /\ req'[r].pc = "idle")
  <1>1. req \in [Req -> GoodReq] BY DEF TypeInv, ReqT
  <1>2. ASSUME NEW l \in Loop, StartLoop(r, l) PROVE req[r].pc = "goLoop" /\ req'[r].pc = "idle"
    BY <1>1, <1>2 DEF StartLoop, Reply, NoReq
  <1>3. CASE \E l \in Loop : StartLoop(r, l)
    BY <1>1, <1>2, <1>3 DEF StartLoop, Reply
  <1>4. CASE \/ BindSave(r) \/ StartRead(r) \/ StartSave(r) \/ StartOpen(r) \/ StopSave(r)
             \/ StopEngineWait(r)
    BY <1>1, <1>4 DEF BindSave, StartRead, StartSave, StartOpen, StopSave, StopEngineWait,
                      Reply
  <1> QED BY <1>3, <1>4 DEF Handle

LEMMA RequestReq ==
  ASSUME TypeInv, Quiet, Request
  PROVE  /\ \A r \in Req : req[r].pc = "idle"
         /\ \A l \in Loop : loop[l].pc \in {"off", "wait"}
         /\ loop' = loop
         /\ req' = req \/ \E r \in Req : \A q \in Req : q # r => req'[q] = req[q]
  <1>1. req \in [Req -> GoodReq] BY DEF TypeInv, ReqT
  <1>2. MayOverlap /\ loop' = loop
    BY DEF Request, BindRead, StartCancel, StopHistory, Pause, Resume, DeleteFlow, SaveFlow,
           StartEngine, StopEngine, Begin
  <1>3. ASSUME NEW r \in Req, NEW d \in Device,
               \/ StartCancel(r, d) \/ StopHistory(r, d)
               \/ \E f \in Flow, m \in Mode : BindRead(r, d, f, m)
        PROVE  \A q \in Req : q # r => req'[q] = req[q]
    BY <1>1, <1>3 DEF StartCancel, StopHistory, BindRead
  <1>4. ASSUME NEW r \in Req, StartEngine(r) \/ StopEngine(r)
        PROVE  \A q \in Req : q # r => req'[q] = req[q]
    BY <1>1, <1>4 DEF StartEngine, StopEngine
  <1>5. ASSUME \/ \E d \in Device : Pause(d) \/ Resume(d)
               \/ \E f \in Flow : DeleteFlow(f) \/ \E s \in FlowDefs : SaveFlow(f, s)
        PROVE  req' = req
    BY <1>5 DEF Pause, Resume, DeleteFlow, SaveFlow
  <1>6. req' = req \/ \E r \in Req : \A q \in Req : q # r => req'[q] = req[q]
    BY <1>3, <1>4, <1>5 DEF Request
  <1> QED BY <1>2, <1>6 DEF MayOverlap

LEMMA OverlapNext ==
  ASSUME TypeInv, Quiet, NoOverlap, [Next]_vars PROVE NoOverlap'
  <1>1. ASSUME NEW l \in Loop, Poll(l) PROVE NoOverlap'
    <2>1. req' = req BY <1>1, PollsKeepReq
    <2> SUFFICES ASSUME NEW r \in Req, req[r].pc # "idle"
                 PROVE  \A k \in Loop : loop'[k].pc \in {"off", "wait"}
      BY <2>1 DEF NoOverlap
    <2>2. \A k \in Loop : loop[k].pc \in {"off", "wait"} BY DEF NoOverlap
    <2>3. ~Tick(l) BY DEF Tick
    <2>4. ExitLoop(l) BY <1>1, <2>2, <2>3, PollWaits
    <2>5. loop'[l].pc = "off" BY <2>4 DEF ExitLoop, NoLoop, Select, TypeInv, LoopT
    <2> QED BY <1>1, <2>2, <2>5, PollsOwn
  <1>2. ASSUME NEW r \in Req, Handle(r) PROVE NoOverlap'
    BY <1>2, HandleReq DEF NoOverlap
  <1>3. ASSUME Request PROVE NoOverlap'
    BY <1>3, RequestReq DEF NoOverlap
  <1>4. ASSUME NEW l \in Loop, Crash(l) PROVE NoOverlap'
    BY <1>4 DEF NoOverlap, Crash, NoReq
  <1>5. CASE UNCHANGED vars BY <1>5 DEF NoOverlap, vars
  <1> QED BY <1>1, <1>2, <1>3, <1>4, <1>5 DEF Next

-----------------------------------------------------------------------------
(* The variables of a run.                                                   *)

LEMMA SameRunKept ==
  ASSUME NEW g \in GoodLoop, NEW rows, NEW new, SameRun(g, rows),
         \A d \in Device : new[d].run = rows[d].run
  PROVE  SameRun(g, new)
  <1>1. g.todo \subseteq Device /\ (g.pc \notin Resting => g.d \in Device)
    BY DEF GoodLoop, LoopRow, Resting
  <1>2. g.pc \in Holding => g.pc \notin Resting BY DEF Holding, Resting
  <1> QED BY <1>1, <1>2 DEF SameRun

LEMMA SetRowRun ==
  ASSUME RowT, \A e \in Device : Own(row[e]), NEW d \in Device, NEW c,
         row' = [row EXCEPT ![d] = c], c.run = row[d].run, Own(c)
  PROVE  \A e \in Device : row'[e].run = row[e].run /\ Own(row'[e])
  BY DEF RowT

\* No poll changes the run a device is in, or brings it the variables of another.
LEMMA PollRuns ==
  ASSUME TypeInv, VarsInv, NEW l \in Loop, Poll(l)
  PROVE  \A d \in Device : row'[d].run = row[d].run /\ Own(row'[d])
  <1> DEFINE d == loop[l].d
  <1>1. row \in [Device -> Row] /\ RowT /\ \A e \in Device : row[e] \in Row
    BY DEF TypeInv, RowT
  <1>2. \A e \in Device : Own(row[e]) BY DEF VarsInv
  <1>3. CASE UNCHANGED row BY <1>2, <1>3
  <1>4. CASE MergeWrite(l)
    <2>1. loop[l].pc = "mergeW" BY <1>4 DEF MergeWrite
    <2>2. d \in Device /\ loop[l].row \in Row BY <2>1, AtWork
    <2>3. /\ loop[l].row.run = row[d].run /\ Own(loop[l].row)
          /\ loop[l].cfg.run = row[d].run
      BY <2>1 DEF VarsInv, SameRun, Holding, Resting
    <2> DEFINE vs == loop[l].row.vars \cup {<<loop[l].cfg.run, loop[l].cfg.step>>}
               c == [row[d] EXCEPT !.vars = vs]
    <2>4. row' = [row EXCEPT ![d] = c] BY <1>4, <1>1 DEF MergeWrite
    <2>5. c.run = row[d].run /\ c.vars = vs BY <1>1, <2>2 DEF Row
    <2>6. Own(c) BY <2>3, <2>5 DEF Own
    <2> QED BY <1>1, <1>2, <2>2, <2>4, <2>5, <2>6, SetRowRun
  <1>5. CASE CompletedSave(l) \/ LoopCountSave(l)
    <2>1. loop[l].pc \in {"doneW", "loopW"} BY <1>5 DEF CompletedSave, LoopCountSave
    <2>2. d \in Device /\ loop[l].row \in Row BY <2>1, AtWork
    <2>3. loop[l].row.run = row[d].run /\ Own(loop[l].row)
      BY <2>1 DEF VarsInv, SameRun, Holding
    <2>4. \E c : row' = [row EXCEPT ![d] = c] /\ c.run = row[d].run /\ c.vars = loop[l].row.vars
      <3>1. PICK r \in Row : r = loop[l].row BY <2>2
      <3>2. CASE CompletedSave(l)
        <4>1. PICK c : c = [r EXCEPT !.status = "completed"] OBVIOUS
        <4>2. c.run = r.run /\ c.vars = r.vars BY <4>1 DEF Row
        <4>3. row' = [row EXCEPT ![d] = c] BY <3>1, <3>2, <4>1 DEF CompletedSave
        <4> QED BY <3>1, <4>2, <4>3, <2>3
      <3>3. CASE LoopCountSave(l)
        <4>1. PICK c : c = [r EXCEPT !.loops = @ + 1] OBVIOUS
        <4>2. c.run = r.run /\ c.vars = r.vars BY <4>1 DEF Row
        <4>3. row' = [row EXCEPT ![d] = c] BY <3>1, <3>3, <4>1 DEF LoopCountSave
        <4> QED BY <3>1, <4>2, <4>3, <2>3
      <3> QED BY <1>5, <3>2, <3>3
    <2> QED BY <1>1, <1>2, <2>2, <2>3, <2>4, SetRowRun DEF Own
  <1>6. CASE ExecFail(l) \/ SetDeviceError(l) \/ ExecPending(l) \/ Progress(l) \/ LoopRewind(l)
    <2>1. loop[l].pc \notin {"off", "wait", "take"}
      BY <1>6 DEF ExecFail, SetDeviceError, ExecPending, Progress, LoopRewind
    <2>2. d \in Device BY <2>1, AtWork
    <2>3. \E c : row' = [row EXCEPT ![d] = c] /\ c.run = row[d].run /\ c.vars = row[d].vars
      <3>1. CASE ExecFail(l) \/ SetDeviceError(l)
        <4>1. row' = [row EXCEPT ![d] = [row[d] EXCEPT !.status = "error"]]
          BY <3>1 DEF ExecFail, SetDeviceError
        <4>2. LET c == [row[d] EXCEPT !.status = "error"] IN
              c.run = row[d].run /\ c.vars = row[d].vars
          BY <1>1, <2>2 DEF Row
        <4> QED BY <4>1, <4>2
      <3>2. ASSUME NEW i, NEW j, row' = [row EXCEPT ![d].step = i, ![d].sub = j]
            PROVE  \E c : row' = [row EXCEPT ![d] = c] /\ c.run = row[d].run /\ c.vars = row[d].vars
        <4> DEFINE c == [row[d] EXCEPT !.step = i, !.sub = j]
        <4>1. row' = [row EXCEPT ![d] = c] BY <1>1, <2>2, <3>2
        <4>2. c.run = row[d].run /\ c.vars = row[d].vars BY <1>1, <2>2 DEF Row
        <4> HIDE DEF c
        <4> QED BY <4>1, <4>2
      <3>3. CASE ExecPending(l) BY <3>2, <3>3 DEF ExecPending
      <3>4. CASE Progress(l) BY <3>2, <3>4 DEF Progress
      <3>5. CASE LoopRewind(l) BY <3>2, <3>5 DEF LoopRewind
      <3> QED BY <1>6, <3>1, <3>3, <3>4, <3>5
    <2> QED BY <1>1, <1>2, <2>2, <2>3, SetRowRun DEF Own
  <1>7. ASSUME NEW e \in Device,
               \/ ProcessBroken(l, e) \/ ProcessEmpty(l, e) \/ ProcessAtEnd(l, e)
               \/ ProcessStep(l, e)
        PROVE  UNCHANGED row
    BY <1>7 DEF ProcessBroken, ProcessEmpty, ProcessAtEnd, ProcessStep
  <1>8. ASSUME \/ Tick(l) \/ EnterSelect(l) \/ ExitLoop(l) \/ ExecSuccess(l) \/ MergeRead(l)
               \/ FailStep(l) \/ FailHist(l) \/ CompletedRead(l) \/ LoopCountRead(l)
               \/ LoopHistory(l)
        PROVE  UNCHANGED row
    BY <1>8 DEF Tick, EnterSelect, ExitLoop, ExecSuccess, MergeRead, FailStep, FailHist,
                CompletedRead, LoopCountRead, LoopHistory, ReadRow
  <1> QED BY <1>3, <1>4, <1>5, <1>6, <1>7, <1>8 DEF Poll

\* What a goroutine takes with it from one statement to the next.
LEMMA PollHolds ==
  ASSUME TypeInv, VarsInv, NEW l \in Loop, Poll(l)
  PROVE  SameRun(loop'[l], row)
  <1> USE DEF SameRun, Resting, Holding
  <1>1. loop \in [Loop -> GoodLoop] /\ loop[l] \in LoopRow /\ SameRun(loop[l], row)
    BY DEF TypeInv, LoopT, GoodLoop, VarsInv
  <1>2. \A e \in Device : Own(row[e]) BY DEF VarsInv
  <1>3. CASE Tick(l) BY <1>1, <1>3 DEF Tick, LoopRow
  <1>4. CASE EnterSelect(l) \/ ExitLoop(l)
    <2>1. loop'[l].pc \in {"off", "wait"} /\ loop'[l].todo = {}
      BY <1>1, <1>4 DEF EnterSelect, ExitLoop, NoLoop, Select
    <2> QED BY <2>1
  <1>5. ASSUME NEW d \in Device, NEW p, loop[l].pc = "take", d \in loop[l].todo,
               loop'[l].pc = p, p \notin {"off", "wait"} \cup Holding,
               loop'[l].todo = loop[l].todo \ {d}, loop'[l].d = d,
               loop'[l].cfg = loop[l].snap[d],
               loop'[l].snap = [loop[l].snap EXCEPT ![d] = NoRow]
        PROVE  SameRun(loop'[l], row)
    <2>1. \A e \in loop[l].todo : loop[l].snap[e].run = row[e].run BY <1>1
    <2>2. \A e \in loop[l].todo \ {d} : loop'[l].snap[e] = loop[l].snap[e]
      BY <1>1, <1>5 DEF LoopRow
    <2> QED BY <1>5, <2>1, <2>2
  <1>6. ASSUME NEW d \in Device, NEW p, loop[l].pc = "take", d \in loop[l].todo,
               p \notin {"off", "wait"} \cup Holding, Take(l, d, p)
        PROVE  SameRun(loop'[l], row)
    <2>1. /\ loop'[l].pc = p /\ loop'[l].todo = loop[l].todo \ {d} /\ loop'[l].d = d
          /\ loop'[l].cfg = loop[l].snap[d]
          /\ loop'[l].snap = [loop[l].snap EXCEPT ![d] = NoRow]
      BY <1>1, <1>6 DEF Take, LoopRow
    <2> QED BY <1>5, <1>6, <2>1
  <1>7. ASSUME NEW d \in Device, ProcessBroken(l, d) PROVE SameRun(loop'[l], row)
    BY <1>6, <1>7 DEF ProcessBroken
  <1>8. ASSUME NEW d \in Device, ProcessEmpty(l, d) PROVE SameRun(loop'[l], row)
    BY <1>6, <1>8 DEF ProcessEmpty
  <1>9. ASSUME NEW d \in Device, ProcessAtEnd(l, d) PROVE SameRun(loop'[l], row)
    BY <1>6, <1>9 DEF ProcessAtEnd
  <1>10. ASSUME NEW d \in Device, ProcessStep(l, d) PROVE SameRun(loop'[l], row)
    <2>1. /\ loop'[l].pc = "exec" /\ loop'[l].todo = loop[l].todo \ {d} /\ loop'[l].d = d
          /\ loop'[l].cfg = loop[l].snap[d]
          /\ loop'[l].snap = [loop[l].snap EXCEPT ![d] = NoRow]
          /\ loop[l].pc = "take" /\ d \in loop[l].todo
      BY <1>1, <1>10 DEF ProcessStep, LoopRow
    <2> QED BY <1>5, <2>1
  <1>11. ASSUME Done(l) PROVE SameRun(loop'[l], row)
    <2>1. /\ loop'[l].pc = "take" /\ loop'[l].todo = loop[l].todo
          /\ loop'[l].snap = loop[l].snap
      BY <1>1, <1>11 DEF Done, Taking, Select
    <2> QED BY <1>1, <2>1
  <1>12. ASSUME \/ ExecPending(l) \/ Progress(l) \/ FailHist(l) \/ SetDeviceError(l)
                \/ CompletedSave(l) \/ LoopHistory(l)
         PROVE  Done(l)
    BY <1>12 DEF ExecPending, Progress, FailHist, SetDeviceError, CompletedSave, LoopHistory
  <1>13. ASSUME loop[l].pc \notin Resting, loop'[l].pc \notin Resting \cup Holding,
                loop'[l].todo = loop[l].todo, loop'[l].snap = loop[l].snap,
                loop'[l].d = loop[l].d, loop'[l].cfg = loop[l].cfg
         PROVE  SameRun(loop'[l], row)
    BY <1>1, <1>13
  <1>14. CASE ExecFail(l) \/ FailStep(l) \/ LoopRewind(l) \/ LoopCountSave(l)
    <2>1. /\ loop[l].pc \in {"exec", "failStep", "loopRewind", "loopW"}
          /\ loop'[l].pc \in {"failStep", "failHist", "loopHist", "loopRewind"}
          /\ loop'[l].todo = loop[l].todo /\ loop'[l].snap = loop[l].snap
          /\ loop'[l].d = loop[l].d /\ loop'[l].cfg = loop[l].cfg
      BY <1>1, <1>14 DEF ExecFail, FailStep, LoopRewind, LoopCountSave, Goto, LoopRow
    <2> QED BY <1>13, <2>1
  <1>15. CASE ExecSuccess(l)
    <2>1. /\ loop[l].pc = "exec" /\ loop'[l].pc \in {"progress", "doneR", "mergeR"}
          /\ loop'[l].todo = loop[l].todo /\ loop'[l].snap = loop[l].snap
          /\ loop'[l].d = loop[l].d /\ loop'[l].cfg = loop[l].cfg
      BY <1>1, <1>15 DEF ExecSuccess, LoopRow
    <2> QED BY <1>13, <2>1
  <1>16. CASE MergeWrite(l)
    <2>1. /\ loop[l].pc = "mergeW" /\ loop'[l].pc = loop[l].goto
          /\ loop'[l].todo = loop[l].todo /\ loop'[l].snap = loop[l].snap
          /\ loop'[l].d = loop[l].d /\ loop'[l].cfg = loop[l].cfg
      BY <1>1, <1>16 DEF MergeWrite, LoopRow
    <2>2. loop[l].goto \in {"take", "progress", "doneR"} BY <1>1 DEF LoopRow
    <2> QED BY <1>1, <2>1, <2>2
  <1>17. CASE MergeRead(l) \/ CompletedRead(l) \/ LoopCountRead(l)
    <2>1. /\ loop[l].pc \in {"mergeR", "doneR", "loopR"}
          /\ loop'[l].pc \in {"mergeW", "doneW", "loopW"}
          /\ loop'[l].todo = loop[l].todo /\ loop'[l].snap = loop[l].snap
          /\ loop'[l].d = loop[l].d /\ loop'[l].cfg = loop[l].cfg
          /\ loop'[l].row = row[loop[l].d]
      BY <1>1, <1>17 DEF MergeRead, CompletedRead, LoopCountRead, ReadRow, LoopRow
    <2>2. loop[l].d \in Device BY <2>1, AtWork
    <2> QED BY <1>1, <1>2, <2>1, <2>2
  <1> QED
    BY <1>3, <1>4, <1>7, <1>8, <1>9, <1>10, <1>11, <1>12, <1>14, <1>15, <1>16, <1>17 DEF Poll

LEMMA VarsUnderPoll ==
  ASSUME TypeInv, TypeInv', Quiet, VarsInv, NEW l \in Loop, Poll(l) PROVE VarsInv'
  <1>1. \A d \in Device : row'[d].run = row[d].run /\ Own(row'[d]) BY PollRuns
  <1>2. req' = req BY PollsKeepReq
  <1>3. \A k \in Loop : loop'[k] \in GoodLoop BY DEF TypeInv, LoopT
  <1>4. \A k \in Loop : SameRun(loop'[k], row)
    BY PollHolds, PollsOwn DEF VarsInv
  <1>5. \A k \in Loop : SameRun(loop'[k], row') BY <1>1, <1>3, <1>4, SameRunKept
  <1>6. NoOverlap' BY OverlapNext DEF VarsInv, Next
  <1> QED BY <1>1, <1>2, <1>5, <1>6 DEF VarsInv

\* The handlers that write a row, and what they hold meanwhile.
LEMMA VarsUnderHandle ==
  ASSUME TypeInv, TypeInv', Quiet, VarsInv, NEW r \in Req, Handle(r) PROVE VarsInv'
  <1> DEFINE Owned == /\ \A d \in Device : Own(row'[d])
                     /\ \A q \in Req : req'[q].pc \in {"bindW", "startW"} => Own(req'[q].row)
  <1>1. req \in [Req -> GoodReq] /\ row \in [Device -> Row] /\ RowT
    BY DEF TypeInv, ReqT, RowT
  <1>2. /\ req[r].pc # "idle" /\ \A q \in Req : q # r => req'[q] = req[q]
        /\ \A d \in Device : Own(row[d])
    BY HandleReq DEF VarsInv
  <1>3. \A k \in Loop : loop[k].pc \in {"off", "wait"} /\ loop[k].todo = {}
    BY <1>2 DEF VarsInv, NoOverlap, SameRun
  <1>4. \A k \in Loop : SameRun(loop'[k], row')
    <2>1. ASSUME NEW k \in Loop, loop'[k] = loop[k] PROVE SameRun(loop'[k], row')
      BY <2>1, <1>3 DEF SameRun, Resting, Holding
    <2>2. ASSUME NEW l \in Loop, StartLoop(r, l) PROVE \A k \in Loop : SameRun(loop'[k], row')
      <3>1. loop'[l] = Beginning(stopCh) BY <2>2 DEF StartLoop, TypeInv, LoopT
      <3>2. SameRun(loop'[l], row')
        BY <3>1 DEF SameRun, Beginning, Select, Resting, Holding
      <3>3. \A k \in Loop : k # l => loop'[k] = loop[k] BY <2>2 DEF StartLoop, TypeInv, LoopT
      <3> QED BY <2>1, <3>2, <3>3
    <2>3. CASE \/ BindSave(r) \/ StartRead(r) \/ StartSave(r) \/ StartOpen(r) \/ StopSave(r)
               \/ StopEngineWait(r)
      <3>1. loop' = loop
        BY <2>3 DEF BindSave, StartRead, StartSave, StartOpen, StopSave, StopEngineWait
      <3> QED BY <2>1, <3>1
    <2> QED BY <2>2, <2>3 DEF Handle
  <1>5. ASSUME BindSave(r) \/ StartSave(r) PROVE Owned
    <2>1. req[r].pc \in {"bindW", "startW"} /\ req[r].d \in Device
      BY <1>5, Handling DEF BindSave, StartSave
    <2>2. Own(req[r].row) BY <2>1 DEF VarsInv
    <2>3. \A d \in Device : Own(row'[d])
      BY <1>1, <1>2, <1>5, <2>1, <2>2 DEF BindSave, StartSave
    <2>4. req'[r].pc \in {"idle", "startHist"}
      BY <1>1, <1>5 DEF BindSave, StartSave, Reply, NoReq, GoodReq, ReqRow
    <2> QED BY <2>3, <2>4, <1>2 DEF VarsInv
  <1>6. ASSUME StartRead(r) PROVE Owned
    <2>1. req'[r].pc = "startHist" \/ (req'[r].pc = "startW" /\ req'[r].row.vars = {})
      <3>1. req[r] \in ReqRow /\ req[r].d \in Device /\ row[req[r].d] \in Row
        BY <1>6, Handling DEF StartRead
      <3> DEFINE c == [row[req[r].d] EXCEPT !.status = "running", !.step = 0, !.sub = 0,
                                            !.run = starts + 1, !.vars = {}]
      <3>2. CASE row[req[r].d].status = "none"
        BY <1>1, <1>6, <3>1, <3>2 DEF StartRead, ReqRow
      <3>3. CASE row[req[r].d].status # "none"
        <4>1. req' = [req EXCEPT ![r].pc = "startW", ![r].row = c]
          BY <1>6, <3>3 DEF StartRead
        <4>2. c.vars = {} BY <3>1 DEF Row
        <4> HIDE DEF c
        <4> QED BY <1>1, <3>1, <4>1, <4>2 DEF ReqRow
      <3> QED BY <3>2, <3>3
    <2>2. row' = row BY <1>6 DEF StartRead
    <2> QED BY <2>1, <2>2, <1>2 DEF VarsInv, Own
  <1>7. ASSUME StopSave(r) PROVE Owned
    <2>1. req[r].d \in Device /\ row[req[r].d] \in Row BY <1>7, Handling DEF StopSave
    <2> DEFINE d == req[r].d
               c == [row[d] EXCEPT !.status = "idle", !.step = 0, !.sub = 0]
    <2>2. row' = row \/ row' = [row EXCEPT ![d] = c] BY <1>7 DEF StopSave, SetColumns
    <2>3. c.run = row[d].run /\ c.vars = row[d].vars BY <2>1 DEF Row
    <2>4. Own(c) BY <2>1, <2>3, <1>2 DEF Own
    <2> HIDE DEF c
    <2>5. \A e \in Device : Own(row'[e]) BY <1>1, <1>2, <2>1, <2>2, <2>4
    <2>6. req'[r].pc = "idle" BY <1>1, <1>7 DEF StopSave, Reply, NoReq
    <2> QED BY <2>5, <2>6, <1>2 DEF VarsInv
  <1>8. ASSUME StartOpen(r) \/ StopEngineWait(r) \/ \E l \in Loop : StartLoop(r, l) PROVE Owned
    <2>1. row' = row /\ req'[r].pc = "idle"
      BY <1>1, <1>8 DEF StartOpen, StopEngineWait, StartLoop, Reply, NoReq
    <2> QED BY <2>1, <1>2 DEF VarsInv
  <1>9. NoOverlap' BY OverlapNext DEF VarsInv, Next
  <1>10. Owned BY <1>5, <1>6, <1>7, <1>8 DEF Handle
  <1> QED BY <1>4, <1>9, <1>10 DEF VarsInv

LEMMA VarsUnderRequest ==
  ASSUME TypeInv, TypeInv', Quiet, VarsInv, Request PROVE VarsInv'
  <1>1. row \in [Device -> Row] /\ \A d \in Device : row[d] \in Row /\ Own(row[d])
    BY DEF TypeInv, RowT, VarsInv
  <1>2. req \in [Req -> GoodReq] /\ \A r \in Req : req[r].pc = "idle"
    BY RequestReq DEF TypeInv, ReqT
  <1>3. \A l \in Loop : SameRun(loop'[l], row')
    <2>1. loop' = loop /\ \A l \in Loop : loop[l].pc \in {"off", "wait"} BY RequestReq
    <2> QED BY <2>1 DEF VarsInv, SameRun, Resting, Holding
  <1>4. ASSUME NEW r \in Req, NEW d \in Device, NEW f \in Flow, NEW m \in Mode,
               BindRead(r, d, f, m)
        PROVE  /\ \A e \in Device : Own(row'[e])
               /\ \A q \in Req : req'[q].pc \in {"bindW", "startW"} => Own(req'[q].row)
    <2> DEFINE old == IF row[d].status = "none" THEN [NoRow EXCEPT !.status = "idle"]
                      ELSE row[d]
               new == [old EXCEPT !.rpa = f, !.mode = m, !.status = "idle", !.step = 0,
                                  !.sub = 0, !.loops = 0]
    <2>1. Own(old) /\ old \in Row
      <3>1. [NoRow EXCEPT !.status = "idle"] \in Row BY NoRowType DEF Row, Status
      <3>2. [NoRow EXCEPT !.status = "idle"].vars = {} BY DEF NoRow
      <3> QED BY <1>1, <3>1, <3>2 DEF Own
    <2>2. /\ row' = [row EXCEPT ![d] = old]
          /\ req' = [req EXCEPT ![r] = [pc |-> "bindW", d |-> d, row |-> new]]
      BY <1>4 DEF BindRead
    <2> HIDE DEF old
    <2>3. new.vars = old.vars /\ new.run = old.run BY <2>1 DEF Row
    <2> HIDE DEF new
    <2>4. Own(new) BY <2>1, <2>3 DEF Own
    <2> QED BY <1>1, <1>2, <2>1, <2>2, <2>4
  <1>5. ASSUME NEW d \in Device, Pause(d) \/ Resume(d)
        PROVE  (\A e \in Device : Own(row'[e])) /\ req' = req
    <2>1. PICK st \in Status : row' = row \/ row' = [row EXCEPT ![d] = [row[d] EXCEPT !.status = st]]
      BY <1>5 DEF Pause, Resume, SetColumns, Status
    <2>2. Own([row[d] EXCEPT !.status = st]) BY <1>1 DEF Own, Row
    <2> QED BY <1>1, <1>5, <2>1, <2>2 DEF Pause, Resume
  <1>6. ASSUME NEW r \in Req, NEW d \in Device, StartCancel(r, d) \/ StopHistory(r, d)
        PROVE  /\ row' = row
               /\ \A q \in Req : req'[q].pc \notin {"bindW", "startW"}
    BY <1>2, <1>6 DEF StartCancel, StopHistory, NoReq
  <1>7. ASSUME NEW f \in Flow, DeleteFlow(f) \/ \E s \in FlowDefs : SaveFlow(f, s)
        PROVE  row' = row /\ req' = req
    BY <1>7 DEF DeleteFlow, SaveFlow
  <1>8. ASSUME NEW r \in Req, StartEngine(r) \/ StopEngine(r)
        PROVE  row' = row /\ \A q \in Req : req'[q].pc \notin {"bindW", "startW"}
    <2>1. \A p : [req[r] EXCEPT !.pc = p].pc = p BY <1>2 DEF GoodReq, ReqRow
    <2> QED BY <1>2, <1>8, <2>1 DEF StartEngine, StopEngine
  <1>9. /\ \A e \in Device : Own(row'[e])
        /\ \A q \in Req : req'[q].pc \in {"bindW", "startW"} => Own(req'[q].row)
    BY <1>1, <1>2, <1>4, <1>5, <1>6, <1>7, <1>8 DEF Request
  <1>10. NoOverlap' BY OverlapNext DEF VarsInv, Next
  <1> QED BY <1>3, <1>9, <1>10 DEF VarsInv

\* A goroutine that begins has copied nothing.
LEMMA BootSameRun ==
  ASSUME NEW l \in Loop, NEW k \in Loop, NEW rows PROVE SameRun(Boot(l)[k], rows)
  BY DEF SameRun, Boot, Beginning, NoLoop, Select, Resting, Holding

LEMMA VarsNext ==
  ASSUME TypeInv, Quiet, VarsInv, [Next]_vars PROVE VarsInv'
  <1>1. TypeInv' BY NextType
  <1>2. NoOverlap' BY OverlapNext DEF VarsInv
  <1>3. ASSUME NEW l \in Loop, Crash(l) PROVE VarsInv'
    BY <1>2, <1>3, BootSameRun DEF Crash, VarsInv, NoReq
  <1>4. CASE UNCHANGED vars BY <1>2, <1>4 DEF VarsInv, vars
  <1> QED
    BY <1>1, <1>3, <1>4, VarsUnderPoll, VarsUnderHandle, VarsUnderRequest DEF Next

LEMMA VarsInit == Init => VarsInv
  <1> SUFFICES ASSUME Init PROVE VarsInv
    OBVIOUS
  <1>1. \A d \in Device : row[d].vars = {}
    <2>1. NoRow.vars = {} /\ \A f \in Flow, m \in Mode : BoundRow(f, m).vars = {}
      BY DEF NoRow, BoundRow
    <2> QED BY <2>1 DEF Init, FirstRow
  <1>2. \A r \in Req : req[r].pc = "idle" BY DEF Init, NoReq
  <1> QED BY <1>1, <1>2, BootSameRun DEF Init, VarsInv, NoOverlap, Own

\* While a handler and a poll never overlap, the variables a run sees are those
\* its own steps have put out: with any number of engine goroutines, across
\* crashes and restarts of the engine.
THEOREM VariablesOwned == Quiet => (Spec => []OwnVariables)
  <1> SUFFICES ASSUME Quiet PROVE Spec => []OwnVariables
    OBVIOUS
  <1>1. TypeInv /\ VarsInv /\ [Next]_vars => VarsInv' BY VarsNext
  <1>2. VarsInv => OwnVariables BY DEF VarsInv, OwnVariables, Own
  <1> QED BY <1>1, <1>2, TypeInvariant, VarsInit, PTL DEF Spec

-----------------------------------------------------------------------------
(* One open execution.                                                       *)

\* Who opens an execution.
LEMMA Opens ==
  ASSUME TypeInv, [Next]_vars, nhist' # nhist
  PROVE  \/ \E r \in Req : /\ req[r].pc = "startHist" /\ req[r].d \in Device
                           /\ StartHistory(req[r].d) /\ Reply(r)
         \/ \E l \in Loop : LoopHistory(l) /\ loop[l].d \in Device
  <1> USE DEF histVars
  <1>1. ASSUME NEW l \in Loop, Poll(l) PROVE LoopHistory(l) /\ loop[l].d \in Device
    <2>1. ASSUME NEW d \in Device,
                 \/ ProcessBroken(l, d) \/ ProcessEmpty(l, d) \/ ProcessAtEnd(l, d)
                 \/ ProcessStep(l, d)
          PROVE  nhist' = nhist
      BY <2>1 DEF ProcessBroken, ProcessEmpty, ProcessAtEnd, ProcessStep, CompleteHistory
    <2>2. ASSUME \/ Tick(l) \/ EnterSelect(l) \/ ExitLoop(l) \/ ExecSuccess(l)
                 \/ ExecFail(l) \/ ExecPending(l) \/ MergeRead(l) \/ MergeWrite(l)
                 \/ FailHist(l)
          PROVE  nhist' = nhist
      BY <2>2 DEF Tick, EnterSelect, ExitLoop, ExecSuccess, ExecFail, ExecPending,
                  MergeRead, MergeWrite, FailHist, CompleteHistory
    <2>3. ASSUME \/ Progress(l) \/ FailStep(l) \/ SetDeviceError(l) \/ CompletedRead(l)
                 \/ CompletedSave(l) \/ LoopCountRead(l) \/ LoopCountSave(l) \/ LoopRewind(l)
          PROVE  nhist' = nhist
      BY <2>3 DEF Progress, FailStep, SetDeviceError, CompletedRead, CompletedSave,
                  LoopCountRead, LoopCountSave, LoopRewind, ReadRow
    <2>4. LoopHistory(l) BY <1>1, <2>1, <2>2, <2>3 DEF Poll
    <2> QED BY <2>4, AtWork DEF LoopHistory
  <1>2. ASSUME NEW r \in Req, Handle(r)
        PROVE  /\ req[r].pc = "startHist" /\ req[r].d \in Device
               /\ StartHistory(req[r].d) /\ Reply(r)
    <2>1. ASSUME \/ BindSave(r) \/ StartRead(r) \/ StartSave(r) \/ StopSave(r)
                 \/ StopEngineWait(r) \/ \E l \in Loop : StartLoop(r, l)
          PROVE  nhist' = nhist
      BY <2>1 DEF BindSave, StartRead, StartSave, StopSave, StopEngineWait, StartLoop
    <2>2. StartOpen(r) BY <1>2, <2>1 DEF Handle
    <2> QED BY <2>2, Handling DEF StartOpen
  <1>3. ASSUME Request PROVE nhist' = nhist
    BY <1>3 DEF Request, BindRead, StartCancel, StopHistory, Pause, Resume, DeleteFlow,
                SaveFlow, StartEngine, StopEngine, CompleteHistory
  <1>4. ASSUME NEW l \in Loop, Crash(l) PROVE nhist' = nhist BY <1>4 DEF Crash
  <1>5. ASSUME UNCHANGED vars PROVE nhist' = nhist BY <1>5 DEF vars
  <1> QED BY <1>1, <1>2, <1>3, <1>4, <1>5 DEF Next

\* How a row of the history is touched: it is opened, closed, or left.
LEMMA RowOfHistory ==
  ASSUME TypeInv, HistInv, [Next]_vars, NEW h \in 1 .. nhist', hist'[h].st = "running"
  PROVE  \/ h \in 1 .. nhist /\ hist[h].st = "running" /\ hist'[h].dev = hist[h].dev
         \/ nhist' # nhist /\ h = nhist'
  <1>1. nhist \in Nat /\ \A k \in 1 .. nhist : k \in HistId /\ hist[k] \in HistRow
    BY EngineAssumption DEF TypeInv, HistT, HistId
  <1>2. CASE UNCHANGED <<histVars, boot>> BY <1>2 DEF histVars
  <1>3. ASSUME NEW d \in Device, StartHistory(d), h # nhist'
        PROVE  h \in 1 .. nhist /\ hist'[h] = hist[h]
    BY <1>1, <1>3 DEF StartHistory, TypeInv, HistT
  <1>4. ASSUME NEW d \in Device, StartHistory(d) PROVE nhist' # nhist
    BY <1>1, <1>4 DEF StartHistory
  <1>5. ASSUME NEW d \in Device, NEW st \in Ended, CompleteHistory(d, st)
        PROVE  h \in 1 .. nhist /\ hist'[h] = hist[h]
    <2>1. nhist' = nhist BY <1>5 DEF CompleteHistory
    <2>2. CASE historyMap[d] = 0 BY <2>1, <2>2, <1>5 DEF CompleteHistory
    <2>3. CASE historyMap[d] # 0
      <3>1. PICK ok, bad : hist' = [hist EXCEPT ![historyMap[d]].st = st,
                                     ![historyMap[d]].ok = ok, ![historyMap[d]].bad = bad]
        BY <2>3, <1>5 DEF CompleteHistory
      <3>2. h \in HistId /\ hist[h] \in HistRow BY <1>1, <2>1
      <3>3. h = historyMap[d] => hist'[h].st = st BY <3>1, <3>2 DEF TypeInv, HistT, HistRow
      <3>4. h # historyMap[d] BY <3>3 DEF Ended
      <3>5. hist'[h] = hist[h] BY <3>1, <3>2, <3>4 DEF TypeInv, HistT, HistRow
      <3> QED BY <3>5, <2>1
    <2> QED BY <2>2, <2>3
  <1>6. ASSUME NEW r \in Req, NEW d \in Device, StartCancel(r, d)
        PROVE  h \in 1 .. nhist /\ hist'[h] = hist[h]
    <2>1. nhist' = nhist BY <1>6 DEF StartCancel
    <2>2. h \in HistId /\ hist[h] \in HistRow BY <1>1, <2>1
    <2>3. hist'[h] = IF hist[h].dev = d /\ hist[h].st = "running"
                     THEN [hist[h] EXCEPT !.st = "cancelled"] ELSE hist[h]
      BY <1>6, <2>2 DEF StartCancel
    <2>4. [hist[h] EXCEPT !.st = "cancelled"].st = "cancelled" BY <2>2 DEF HistRow
    <2> QED BY <2>1, <2>3, <2>4
  <1>7. ASSUME NEW l \in Loop, Crash(l) PROVE nhist' = nhist /\ hist' = hist
    BY <1>7 DEF Crash
  <1> QED BY <1>2, <1>3, <1>4, <1>5, <1>6, <1>7, HistSteps

\* A goroutine comes to the end of a round by closing the history.
LEMMA RoundSteps ==
  ASSUME TypeInv, NEW l \in Loop, Poll(l), loop'[l].pc \in AtRound
  PROVE  \/ loop[l].pc \in AtRound /\ loop'[l].d = loop[l].d
         \/ \E d \in Device : ProcessAtEnd(l, d) /\ loop'[l].d = d
  <1> USE DEF AtRound
  <1>1. loop \in [Loop -> GoodLoop] /\ loop[l] \in LoopRow BY DEF TypeInv, LoopT, GoodLoop
  <1>2. CASE LoopCountRead(l) \/ LoopCountSave(l) \/ LoopRewind(l)
    BY <1>1, <1>2 DEF LoopCountRead, LoopCountSave, LoopRewind, ReadRow, Goto, LoopRow
  <1>3. ASSUME NEW d \in Device, NEW p, Take(l, d, p)
        PROVE  loop'[l].pc = p /\ loop'[l].d = d
    BY <1>1, <1>3 DEF Take, LoopRow
  <1>4. ASSUME NEW d \in Device, ProcessAtEnd(l, d) PROVE loop'[l].d = d
    BY <1>3, <1>4 DEF ProcessAtEnd
  <1>5. ASSUME NEW d \in Device, ProcessBroken(l, d) \/ ProcessEmpty(l, d)
        PROVE  loop'[l].pc \in {"setError", "doneR"}
    BY <1>3, <1>5 DEF ProcessBroken, ProcessEmpty
  <1>6. ASSUME NEW d \in Device, ProcessStep(l, d) PROVE loop'[l].pc = "exec"
    BY <1>1, <1>6 DEF ProcessStep, LoopRow
  <1>7. ASSUME \/ ExecPending(l) \/ Progress(l) \/ FailHist(l) \/ SetDeviceError(l)
               \/ CompletedSave(l) \/ LoopHistory(l)
        PROVE  loop'[l].pc = "take"
    BY <1>1, <1>7 DEF ExecPending, Progress, FailHist, SetDeviceError, CompletedSave,
                      LoopHistory, Done, Taking, Select
  <1>8. ASSUME \/ Tick(l) \/ EnterSelect(l) \/ ExitLoop(l) \/ ExecFail(l) \/ FailStep(l)
               \/ MergeRead(l) \/ CompletedRead(l)
        PROVE  loop'[l].pc \in {"take", "wait", "off", "failStep", "failHist", "mergeW", "doneW"}
    <2>1. CASE Tick(l) \/ ExecFail(l) \/ FailStep(l)
      <3>1. CASE Tick(l) BY <1>1, <3>1 DEF Tick, LoopRow
      <3>2. CASE ExecFail(l) BY <1>1, <3>2 DEF ExecFail, Goto, LoopRow
      <3>3. CASE FailStep(l) BY <1>1, <3>3 DEF FailStep, Goto, LoopRow
      <3> QED BY <2>1, <3>1, <3>2, <3>3
    <2>2. CASE EnterSelect(l) \/ ExitLoop(l)
      BY <1>1, <2>2 DEF EnterSelect, ExitLoop, Select, NoLoop
    <2>3. CASE MergeRead(l) \/ CompletedRead(l)
      BY <1>1, <2>3 DEF MergeRead, CompletedRead, ReadRow, LoopRow
    <2> QED BY <1>8, <2>1, <2>2, <2>3
  <1>9. ASSUME ExecSuccess(l) PROVE loop'[l].pc \in {"progress", "doneR", "mergeR"}
    BY <1>1, <1>9 DEF ExecSuccess, LoopRow
  <1>10. ASSUME MergeWrite(l) PROVE loop'[l].pc \in {"take", "progress", "doneR"}
    BY <1>1, <1>10 DEF MergeWrite, LoopRow
  <1> QED BY <1>2, <1>4, <1>5, <1>6, <1>7, <1>8, <1>9, <1>10 DEF Poll

\* Steps that are not a poll find the goroutine, and leave it, where it is, or start it.
LEMMA OtherSteps ==
  ASSUME TypeInv, [Next]_vars, NEW l \in Loop, \A k \in Loop : ~Poll(k)
  PROVE  loop'[l] = loop[l] \/ loop'[l].pc \in {"off", "take"}
  <1>1. ASSUME NEW k \in Loop, Crash(k) PROVE loop'[l].pc \in {"off", "take"}
    BY <1>1 DEF Crash, Boot, Beginning, NoLoop, Select
  <1>2. ASSUME NEW r \in Req, NEW k \in Loop, StartLoop(r, k)
        PROVE  loop'[l] = loop[l] \/ loop'[l].pc = "take"
    BY <1>2 DEF StartLoop, TypeInv, LoopT, Beginning, Select
  <1>3. ASSUME NEW r \in Req,
               \/ BindSave(r) \/ StartRead(r) \/ StartSave(r) \/ StartOpen(r) \/ StopSave(r)
               \/ StopEngineWait(r)
        PROVE  loop' = loop
    BY <1>3 DEF BindSave, StartRead, StartSave, StartOpen, StopSave, StopEngineWait
  <1>4. ASSUME Request PROVE loop' = loop
    BY <1>4 DEF Request, BindRead, StartCancel, StopHistory, Pause, Resume, DeleteFlow,
                SaveFlow, StartEngine, StopEngine
  <1>5. ASSUME UNCHANGED vars PROVE loop' = loop BY <1>5 DEF vars
  <1> QED BY <1>1, <1>2, <1>3, <1>4, <1>5 DEF Next, Handle

OneState == TypeInv /\ HistInv /\ NoOverlap /\ OneInv

\* What is opened is opened for a device that has no open execution.
LEMMA OpensFree ==
  ASSUME OneState, [Next]_vars, nhist' # nhist
  PROVE  \E d \in Device : /\ StartHistory(d)
                           /\ \A h \in 1 .. nhist : hist[h].dev = d => hist[h].st # "running"
  <1>1. ASSUME NEW r \in Req, req[r].pc = "startHist"
        PROVE  \A h \in 1 .. nhist : hist[h].dev = req[r].d => hist[h].st # "running"
    BY <1>1 DEF OneState, OneInv, Starting
  <1>2. ASSUME NEW l \in Loop, LoopHistory(l)
        PROVE  /\ StartHistory(loop[l].d)
               /\ \A h \in 1 .. nhist : hist[h].dev = loop[l].d => hist[h].st # "running"
    BY <1>2 DEF OneState, OneInv, LoopHistory, AtRound
  <1> QED BY <1>1, <1>2, Opens DEF OneState

LEMMA OneOwned ==
  ASSUME OneState, [Next]_vars, UNCHANGED boot, NEW h \in 1 .. nhist', hist'[h].st = "running"
  PROVE  historyMap'[hist'[h].dev] = h
  <1>1. nhist \in Nat /\ \A k \in 1 .. nhist : hist[k].dev \in Device
    BY EngineAssumption DEF OneState, TypeInv, HistT, HistInv, HistRows
  <1>2. ASSUME h \in 1 .. nhist, hist[h].st = "running" PROVE historyMap[hist[h].dev] = h
    BY <1>2 DEF OneState, OneInv
  <1>3. CASE nhist' # nhist
    <2>1. PICK d \in Device :
            /\ StartHistory(d)
            /\ \A k \in 1 .. nhist : hist[k].dev = d => hist[k].st # "running"
      BY <1>3, OpensFree
    <2>2. nhist' = nhist + 1 /\ historyMap' = [historyMap EXCEPT ![d] = nhist + 1]
      BY <2>1 DEF StartHistory
    <2>3. nhist + 1 \in HistId
      BY <1>1, <2>1, EngineAssumption DEF StartHistory, HistId, OneState, TypeInv, HistT
    <2>4. hist'[nhist + 1].dev = d
      BY <2>1, <2>3 DEF StartHistory, OneState, TypeInv, HistT, NoHist
    <2>5. CASE h = nhist + 1 BY <2>2, <2>4, <2>5 DEF OneState, TypeInv, HistT
    <2>6. CASE h # nhist + 1
      <3>1. h \in 1 .. nhist /\ hist[h].st = "running" /\ hist'[h].dev = hist[h].dev
        BY <2>2, <2>6, RowOfHistory DEF OneState
      <3>2. hist[h].dev # d BY <2>1, <3>1
      <3> QED BY <1>1, <1>2, <2>2, <3>1, <3>2 DEF OneState, TypeInv, HistT
    <2> QED BY <2>5, <2>6
  <1>4. CASE nhist' = nhist
    <2>1. h \in 1 .. nhist /\ hist[h].st = "running" /\ hist'[h].dev = hist[h].dev
      BY <1>4, RowOfHistory DEF OneState
    <2>2. historyMap[hist[h].dev] = h /\ hist[h].dev \in Device BY <1>1, <1>2, <2>1
    <2>3. CASE historyMap' = historyMap BY <2>1, <2>2, <2>3
    <2>4. ASSUME NEW d \in Device, NEW st \in Ended, CompleteHistory(d, st)
          PROVE  historyMap'[hist[h].dev] = h
      <3>1. historyMap' = [historyMap EXCEPT ![d] = 0] BY <2>4 DEF CompleteHistory
      <3>2. CASE hist[h].dev # d
        BY <2>2, <3>1, <3>2 DEF OneState, TypeInv, HistT
      <3>3. CASE hist[h].dev = d
        <4>1. h = historyMap[d] /\ h # 0 BY <2>1, <2>2, <3>3
        <4>2. PICK ok, bad : hist' = [hist EXCEPT ![h].st = st, ![h].ok = ok, ![h].bad = bad]
          BY <2>4, <4>1 DEF CompleteHistory
        <4>3. h \in HistId /\ hist[h] \in HistRow
          BY <2>1, EngineAssumption DEF OneState, TypeInv, HistT, HistId
        <4>4. hist'[h].st = st BY <4>2, <4>3 DEF OneState, TypeInv, HistT, HistRow
        <4> QED BY <4>4 DEF Ended
      <3> QED BY <3>2, <3>3
    <2>5. ASSUME NEW d \in Device, StartHistory(d) PROVE FALSE
      BY <1>1, <1>4, <2>5 DEF StartHistory
    <2>6. \A d \in Device : ~StartHistory(d) BY <2>5
    <2>7. ASSUME NEW l \in Loop, Crash(l) PROVE FALSE
      BY <2>7 DEF Crash, OneState, OneInv
    <2>8. ASSUME NEW r \in Req, NEW d \in Device, StartCancel(r, d)
          PROVE  historyMap' = historyMap
      BY <2>8 DEF StartCancel
    <2>9. ASSUME UNCHANGED <<histVars, boot>> PROVE historyMap' = historyMap
      BY <2>9 DEF histVars
    <2> QED BY <2>1, <2>3, <2>4, <2>6, <2>7, <2>8, <2>9, HistSteps DEF OneState
  <1> QED BY <1>3, <1>4

LEMMA OneAtStart ==
  ASSUME OneState, Quiet, [Next]_vars, UNCHANGED boot, NEW r \in Req, req'[r].pc \in Starting,
         NEW h \in 1 .. nhist', hist'[h].dev = req'[r].d
  PROVE  hist'[h].st # "running"
  <1> SUFFICES ASSUME hist'[h].st = "running" PROVE FALSE
    OBVIOUS
  <1>1. CASE req[r].pc \in Starting /\ req'[r].d = req[r].d
    <2>1. nhist' = nhist
      <3> SUFFICES ASSUME nhist' # nhist PROVE FALSE
        OBVIOUS
      <3>1. req[r].pc # "idle" BY <1>1 DEF Starting
      <3>2. ASSUME NEW q \in Req, req[q].pc = "startHist", Reply(q) PROVE FALSE
        <4>1. q = r BY <3>1, <3>2 DEF OneState, NoOverlap
        <4>2. req'[r].pc = "idle" BY <3>2, <4>1 DEF Reply, NoReq, OneState, TypeInv, ReqT
        <4> QED BY <4>2 DEF Starting
      <3>3. ASSUME NEW l \in Loop, LoopHistory(l) PROVE FALSE
        BY <3>1, <3>3 DEF LoopHistory, OneState, NoOverlap
      <3> QED BY <3>2, <3>3, Opens DEF OneState
    <2>2. h \in 1 .. nhist /\ hist[h].st = "running" /\ hist'[h].dev = hist[h].dev
      BY <2>1, RowOfHistory DEF OneState
    <2> QED BY <1>1, <2>2 DEF OneState, OneInv
  <1>2. ASSUME NEW d \in Device, StartCancel(r, d), req'[r].d = d PROVE FALSE
    <2>1. nhist' = nhist BY <1>2 DEF StartCancel
    <2>2. h \in HistId /\ hist[h] \in HistRow
      BY <2>1, EngineAssumption DEF OneState, TypeInv, HistT, HistId
    <2>3. hist'[h] = IF hist[h].dev = d /\ hist[h].st = "running"
                     THEN [hist[h] EXCEPT !.st = "cancelled"] ELSE hist[h]
      BY <1>2, <2>2 DEF StartCancel
    <2>4. LET c == [hist[h] EXCEPT !.st = "cancelled"] IN c.st = "cancelled"
      BY <2>2 DEF HistRow
    <2> QED BY <1>2, <2>3, <2>4
  <1> QED BY <1>1, <1>2, StartingSteps DEF OneState

LEMMA OneAtRound ==
  ASSUME OneState, OneLoop, [Next]_vars, NEW l \in Loop, loop'[l].pc \in AtRound,
         NEW h \in 1 .. nhist', hist'[h].dev = loop'[l].d
  PROVE  hist'[h].st # "running"
  <1> SUFFICES ASSUME hist'[h].st = "running" PROVE FALSE
    OBVIOUS
  <1>1. CASE loop[l].pc \in AtRound /\ loop'[l].d = loop[l].d
    <2>1. nhist' = nhist
      <3> SUFFICES ASSUME nhist' # nhist PROVE FALSE
        OBVIOUS
      <3>1. ASSUME NEW q \in Req, req[q].pc = "startHist" PROVE FALSE
        BY <1>1, <3>1 DEF OneState, NoOverlap, AtRound
      <3>2. ASSUME NEW k \in Loop, LoopHistory(k) PROVE FALSE
        <4>1. k = l BY DEF OneLoop
        <4>2. loop'[l].pc = "take"
          BY <3>2, <4>1 DEF LoopHistory, Done, Taking, Select, OneState, TypeInv, LoopT
        <4> QED BY <4>2 DEF AtRound
      <3> QED BY <3>1, <3>2, Opens DEF OneState
    <2>2. h \in 1 .. nhist /\ hist[h].st = "running" /\ hist'[h].dev = hist[h].dev
      BY <2>1, RowOfHistory DEF OneState
    <2> QED BY <1>1, <2>2 DEF OneState, OneInv
  <1>2. ASSUME NEW d \in Device, ProcessAtEnd(l, d), loop'[l].d = d PROVE FALSE
    <2>1. CompleteHistory(d, "success") /\ boot' = boot BY <1>2 DEF ProcessAtEnd, envVars
    <2>2. historyMap'[d] = 0
      BY <2>1 DEF CompleteHistory, OneState, TypeInv, HistT
    <2>3. historyMap'[d] = h BY <1>2, <2>1, OneOwned
    <2> QED BY <2>2, <2>3
  <1>3. CASE Poll(l) BY <1>1, <1>2, <1>3, RoundSteps DEF OneState
  <1>4. CASE ~Poll(l)
    <2>1. \A k \in Loop : ~Poll(k) BY <1>4 DEF OneLoop
    <2>2. loop'[l] = loop[l] BY <2>1, OtherSteps DEF OneState, AtRound
    <2> QED BY <1>1, <2>2
  <1> QED BY <1>3, <1>4

LEMMA OneNext ==
  ASSUME OneState, Quiet, OneLoop, MaxCrash = 0, [Next]_vars PROVE OneState'
  <1>1. TypeInv' /\ HistInv' /\ NoOverlap' BY NextType, HistInvNext, OverlapNext DEF OneState
  <1>2. boot' = boot
    <2>1. ASSUME NEW l \in Loop, Crash(l) PROVE FALSE
      BY <2>1 DEF Crash, OneState, OneInv
    <2> QED BY <2>1, HistSteps DEF OneState
  <1>3. OneInv'
    BY <1>2, OneOwned, OneAtStart, OneAtRound DEF OneInv, OneState
  <1> QED BY <1>1, <1>3 DEF OneState

LEMMA NoOverlapInit == Init => NoOverlap
  BY DEF Init, NoOverlap, NoReq

LEMMA OneInit == Init => OneState
  <1> SUFFICES ASSUME Init PROVE OneState
    OBVIOUS
  <1>1. boot = 1 /\ nhist = 0 BY DEF Init
  <1>2. \A h \in 1 .. nhist : FALSE BY <1>1
  <1>3. \A r \in Req : req[r].pc \notin Starting BY DEF Init, NoReq, Starting
  <1> QED BY <1>1, <1>2, <1>3, InitType, HistInvInit, NoOverlapInit DEF OneState, OneInv

\* While handlers and polls do not overlap, one engine goroutine runs at a time and
\* the process does not die, a device never has two open executions.
THEOREM OneRunning ==
  Quiet /\ OneLoop /\ MaxCrash = 0 => (Spec => []OneRunningHistory)
  <1> SUFFICES ASSUME Quiet, OneLoop, MaxCrash = 0 PROVE Spec => []OneRunningHistory
    OBVIOUS
  <1>1. OneState /\ [Next]_vars => OneState' BY OneNext
  <1>2. OneState => OneRunningHistory BY DEF OneState, OneInv, OneRunningHistory
  <1> QED BY <1>1, <1>2, OneInit, PTL DEF Spec
-----------------------------------------------------------------------------
(* The cause of a failure.                                                   *)

CauseState == TypeInv /\ HistInv /\ RecInv /\ NoOverlap /\ CauseInv

\* A record stays with its execution, and a failed one stays failed.
LEMMA RecsKept ==
  ASSUME TypeInv, RecInv, [Next]_vars
  PROVE  /\ \A r \in 1 .. nrec : r \in 1 .. nrec' /\ recs'[r].h = recs[r].h
         /\ \A r \in 1 .. nrec : recs[r].st = "failed" => recs'[r].st = "failed"
  <1>1. nrec \in Nat /\ \A r \in 1 .. nrec : r \in RecId /\ recs[r] \in RecRow
    BY EngineAssumption DEF TypeInv, StepT, RecId
  <1>2. \A r \in 1 .. nrec : recs[r].st = "failed" => recs'[r].st = "failed"
    BY <1>1, RecordKept
  <1>3. CASE UNCHANGED <<recs, nrec>> BY <1>1, <1>3
  <1>4. ASSUME NEW d \in Device, NEW i \in StepIdx, StartStepRecord(d, i),
               ~UNCHANGED <<recs, nrec>>
        PROVE  \A r \in 1 .. nrec : r \in 1 .. nrec' /\ recs'[r].h = recs[r].h
    BY <1>1, <1>4 DEF StartStepRecord, stepVars, TypeInv, StepT
  <1>5. ASSUME NEW d \in Device, NEW i \in StepIdx, NEW st \in {"success", "failed"},
               CompleteStepRecord(d, i, st)
        PROVE  \A r \in 1 .. nrec : r \in 1 .. nrec' /\ recs'[r].h = recs[r].h
    <2>1. nrec' = nrec BY <1>5 DEF CompleteStepRecord
    <2>2. recs' = recs \/ recs' = [recs EXCEPT ![stepMap[<<d, i>>]].st = st]
      BY <1>5 DEF CompleteStepRecord
    <2>3. \A r \in RecId : recs'[r].h = recs[r].h
      BY <2>2 DEF TypeInv, StepT, RecRow
    <2> QED BY <1>1, <2>1, <2>3
  <1>6. ASSUME NEW l \in Loop, Crash(l) PROVE UNCHANGED <<recs, nrec>> BY <1>6 DEF Crash
  <1> QED BY <1>2, <1>3, <1>4, <1>5, <1>6, RecSteps DEF stepVars

LEMMA FailuresKept ==
  ASSUME TypeInv, RecInv, [Next]_vars, NEW h, RecsOf(h, "failed") # {}
  PROVE  RecsOf(h, "failed")' # {}
  <1>1. PICK r \in 1 .. nrec : recs[r].h = h /\ recs[r].st = "failed" BY DEF RecsOf
  <1>2. r \in RecsOf(h, "failed")' BY <1>1, RecsKept DEF RecsOf
  <1> QED BY <1>2

\* An execution that reads failed was closed by FailHist, which counts the records.
LEMMA FailedRow ==
  ASSUME TypeInv, [Next]_vars, NEW h \in 1 .. nhist', hist'[h].st = "failed"
  PROVE  \/ h \in 1 .. nhist /\ hist'[h] = hist[h]
         \/ \E l \in Loop : /\ FailHist(l) /\ loop[l].d \in Device
                            /\ historyMap[loop[l].d] = h
                            /\ hist'[h].bad = Cardinality(RecsOf(h, "failed"))
  <1>1. nhist \in Nat /\ \A k \in 1 .. nhist : k \in HistId /\ hist[k] \in HistRow
    BY EngineAssumption DEF TypeInv, HistT, HistId
  <1>2. CASE UNCHANGED <<histVars, boot>> BY <1>2 DEF histVars
  <1>3. ASSUME NEW d \in Device, StartHistory(d)
        PROVE  h \in 1 .. nhist /\ hist'[h] = hist[h]
    <2> DEFINE n == nhist + 1
    <2>1. n \in HistId /\ nhist' = n BY <1>1, <1>3, EngineAssumption DEF StartHistory, HistId
    <2>2. hist' = [hist EXCEPT ![n] = [NoHist EXCEPT !.dev = d, !.st = "running", !.boot = boot]]
      BY <1>3 DEF StartHistory
    <2>3. hist'[n].st = "running" BY <2>1, <2>2 DEF TypeInv, HistT, NoHist
    <2>4. h # n BY <2>3
    <2> HIDE DEF n
    <2>5. hist'[h] = hist[h] BY <2>2, <2>4 DEF TypeInv, HistT
    <2> QED BY <2>1, <2>4, <2>5, <1>1 DEF n
  <1>4. ASSUME NEW d \in Device, NEW st \in Ended, CompleteHistory(d, st),
               st = "failed" => \E l \in Loop : FailHist(l) /\ loop[l].d = d
        PROVE  \/ h \in 1 .. nhist /\ hist'[h] = hist[h]
               \/ \E l \in Loop : /\ FailHist(l) /\ loop[l].d \in Device
                                  /\ historyMap[loop[l].d] = h
                                  /\ hist'[h].bad = Cardinality(RecsOf(h, "failed"))
    <2>1. nhist' = nhist BY <1>4 DEF CompleteHistory
    <2>2. CASE historyMap[d] = 0 BY <2>1, <2>2, <1>4 DEF CompleteHistory
    <2>3. CASE historyMap[d] # 0
      <3>1. PICK ok : hist' = [hist EXCEPT ![historyMap[d]].st = st,
                                ![historyMap[d]].ok = ok,
                                ![historyMap[d]].bad = Cardinality(RecsOf(historyMap[d], "failed"))]
        BY <2>3, <1>4 DEF CompleteHistory
      <3>2. h \in HistId /\ hist[h] \in HistRow BY <1>1, <2>1
      <3>3. CASE h # historyMap[d] BY <3>1, <3>2, <3>3, <2>1 DEF TypeInv, HistT, HistRow
      <3>4. CASE h = historyMap[d]
        <4> DEFINE bad == Cardinality(RecsOf(h, "failed"))
        <4>1. hist' = [hist EXCEPT ![h].st = st, ![h].ok = ok, ![h].bad = bad]
          BY <3>1, <3>4
        <4> HIDE DEF bad
        <4>2. hist'[h].st = st /\ hist'[h].bad = bad
          BY <4>1, <3>2 DEF TypeInv, HistT, HistRow
        <4> QED BY <4>2, <3>4, <1>4 DEF bad
      <3> QED BY <3>3, <3>4
    <2> QED BY <2>2, <2>3
  <1>5. ASSUME NEW r \in Req, NEW d \in Device, StartCancel(r, d)
        PROVE  h \in 1 .. nhist /\ hist'[h] = hist[h]
    <2>1. nhist' = nhist BY <1>5 DEF StartCancel
    <2>2. h \in HistId /\ hist[h] \in HistRow BY <1>1, <2>1
    <2>3. hist'[h] = IF hist[h].dev = d /\ hist[h].st = "running"
                     THEN [hist[h] EXCEPT !.st = "cancelled"] ELSE hist[h]
      BY <1>5, <2>2 DEF StartCancel
    <2>4. [hist[h] EXCEPT !.st = "cancelled"].st = "cancelled" BY <2>2 DEF HistRow
    <2> QED BY <2>1, <2>3, <2>4
  <1>6. ASSUME NEW l \in Loop, Crash(l) PROVE h \in 1 .. nhist /\ hist'[h] = hist[h]
    BY <1>6 DEF Crash
  <1> QED BY <1>2, <1>3, <1>4, <1>5, <1>6, HistSteps

LEMMA FailureCounted == ASSUME CauseState, [Next]_vars PROVE FailureHasCause'
  <1> SUFFICES ASSUME NEW h \in 1 .. nhist', hist'[h].st = "failed"
               PROVE  hist'[h].bad >= 1 /\ RecsOf(h, "failed")' # {}
    BY DEF FailureHasCause
  <1>1. CASE h \in 1 .. nhist /\ hist'[h] = hist[h]
    BY <1>1, FailuresKept DEF CauseState, CauseInv, FailureHasCause
  <1>2. ASSUME NEW l \in Loop, FailHist(l), loop[l].d \in Device, historyMap[loop[l].d] = h,
               hist'[h].bad = Cardinality(RecsOf(h, "failed"))
        PROVE  hist'[h].bad >= 1 /\ RecsOf(h, "failed")' # {}
    <2>1. loop[l].pc = "failHist" BY <1>2 DEF FailHist
    <2>2. h # 0
      BY <1>2, EngineAssumption DEF CauseState, TypeInv, HistT
    <2>3. RecsOf(h, "failed") # {} BY <1>2, <2>1, <2>2 DEF CauseState, CauseInv, Calm
    <2>4. IsFiniteSet(1 .. nrec)
      <3>1. nrec \in Int BY EngineAssumption DEF CauseState, TypeInv, StepT
      <3>2. 1 \in Int OBVIOUS
      <3> QED BY <3>1, <3>2, FS_Interval
    <2>5. IsFiniteSet(RecsOf(h, "failed")) BY <2>4, FS_Subset DEF RecsOf
    <2>6. Cardinality(RecsOf(h, "failed")) \in Nat \ {0}
      BY <2>3, <2>5, FS_CardinalityType, FS_EmptySet
    <2> QED BY <1>2, <2>3, <2>6, FailuresKept DEF CauseState
  <1> QED BY <1>1, <1>2, FailedRow DEF CauseState

\* After the step: Opened(d, i), and the other devices are left alone.
StaysOpen(d, i) ==
  historyMap'[d] # 0 => /\ i \in StepIdx /\ stepMap'[<<d, i>>] # 0
                        /\ recs'[stepMap'[<<d, i>>]].h = historyMap'[d]

LeftAlone(e) ==
  /\ row'[e] = row[e]
  /\ historyMap'[e] \in {0, historyMap[e]}
  /\ \A i \in StepIdx : stepMap'[<<e, i>>] = stepMap[<<e, i>>]

LEMMA OpenKept ==
  ASSUME TypeInv, RecInv, [Next]_vars, NEW d \in Device, NEW i, Opened(d, i),
         historyMap'[d] \in {0, historyMap[d]},
         i \in StepIdx => stepMap'[<<d, i>>] = stepMap[<<d, i>>]
  PROVE  StaysOpen(d, i)
  <1> SUFFICES ASSUME historyMap'[d] # 0 PROVE StaysOpen(d, i)
    BY DEF StaysOpen
  <1>1. /\ historyMap'[d] = historyMap[d] /\ i \in StepIdx /\ stepMap[<<d, i>>] # 0
        /\ recs[stepMap[<<d, i>>]].h = historyMap[d]
    BY DEF Opened
  <1>2. stepMap[<<d, i>>] \in 1 .. nrec
    <2>1. stepMap[<<d, i>>] <= nrec BY <1>1 DEF RecInv, OpenStepRecord
    <2>2. stepMap[<<d, i>>] \in Nat /\ nrec \in Nat
      BY <1>1, EngineAssumption DEF TypeInv, StepT
    <2> QED BY <1>1, <2>1, <2>2
  <1> QED BY <1>1, <1>2, RecsKept DEF StaysOpen

\* What a poll at work on x has to establish; the other devices follow.
LEMMA CauseAt ==
  ASSUME CauseState, OneLoop, [Next]_vars, NEW l \in Loop, NEW x \in Device,
         \A e \in Device : e # x => LeftAlone(e),
         loop[l].pc = "take" \/ loop[l].d = x,
         loop'[l].pc \notin {"off", "wait"},
         loop'[l].todo \subseteq loop[l].todo \ {x}, loop[l].todo \subseteq Device,
         \A e \in loop'[l].todo : loop'[l].snap[e] = loop[l].snap[e],
         loop'[l].pc = "take" \/ loop'[l].d = x,
         loop'[l].pc \in {"doneW", "loopW"} => loop'[l].row = row'[x],
         row'[x].status = "none" => row'[x].rpa = NoRpa,
         \/ row'[x].sub = 0 \/ StaysOpen(x, row'[x].step)
         \/ loop'[l].pc \in AfterStep,
         loop'[l].kind # "steer",
         loop'[l].pc \in {"exec", "failStep"} => StaysOpen(x, loop'[l].cfg.step),
         loop'[l].pc = "failHist" /\ historyMap'[x] # 0
           => RecsOf(historyMap[x], "failed")' # {},
         loop'[l].pc = "loopHist" => row'[x].sub = 0,
         loop'[l].pc \in {"mergeR", "mergeW"} => loop'[l].goto = "progress"
  PROVE  NoneUnbound' /\ Carried' /\ \A k \in Loop : Calm(k)'
  <1> USE DEF AfterStep
  <1>1. NoneUnbound' BY DEF NoneUnbound, CauseState, CauseInv, LeftAlone
  <1>2. Carried'
    <2> SUFFICES ASSUME NEW e \in Device, row'[e].sub # 0
                 PROVE  StaysOpen(e, row'[e].step)
                        \/ \E k \in Loop : loop'[k].pc \in AfterStep /\ loop'[k].d = e
      BY DEF Carried, StaysOpen, Opened
    <2>1. CASE e = x BY <2>1
    <2>2. CASE e # x
      <3>1. LeftAlone(e) BY <2>2
      <3>2. \A k \in Loop : ~(loop[k].pc \in AfterStep /\ loop[k].d = e) BY <2>2 DEF OneLoop
      <3>3. Opened(e, row[e].step) BY <3>1, <3>2 DEF LeftAlone, CauseState, CauseInv, Carried
      <3> QED BY <3>1, <3>3, OpenKept DEF LeftAlone, CauseState
    <2> QED BY <2>1, <2>2
  <1>3. Calm(l)'
    <2>1. SameRow(loop'[l], row')
      <3>1. \A e \in loop'[l].todo : loop'[l].snap[e] = row'[e]
        BY DEF LeftAlone, CauseState, CauseInv, Calm, SameRow
      <3> QED BY <3>1 DEF SameRow, Resting
    <2> QED BY <2>1 DEF Calm, StaysOpen, Opened
  <1> QED BY <1>1, <1>2, <1>3 DEF OneLoop

\* What the goroutine knows of the device it is at work on.
LEMMA Working ==
  ASSUME CauseState, NEW l \in Loop, loop[l].pc \notin Resting
  PROVE  LET x == loop[l].d IN
         /\ loop[l] \in LoopRow /\ x \in Device /\ row[x] \in Row
         /\ loop[l].todo \subseteq Device /\ x \notin loop[l].todo
         /\ row[x].status = "none" => row[x].rpa = NoRpa
         /\ OneLoop /\ loop[l].pc \notin AfterStep =>
              row[x].sub = 0 \/ Opened(x, row[x].step)
  <1>1. loop[l] \in LoopRow /\ loop[l].d \in Device /\ row[loop[l].d] \in Row
    BY AtWork DEF CauseState, Resting
  <1> QED BY <1>1 DEF CauseState, CauseInv, NoneUnbound, Calm, SameRow, Carried, OneLoop, LoopRow

LEMMA RestUntouched ==
  ASSUME TypeInv, NEW x \in Device, row' = row \/ \E c : row' = [row EXCEPT ![x] = c],
         UNCHANGED historyMap
           \/ \E h : historyMap' = [historyMap EXCEPT ![x] = h],
         UNCHANGED stepMap
           \/ \E i \in StepIdx : \E r : stepMap' = [stepMap EXCEPT ![<<x, i>>] = r]
  PROVE  \A e \in Device : e # x => LeftAlone(e)
  <1> SUFFICES ASSUME NEW e \in Device, e # x PROVE LeftAlone(e)
    OBVIOUS
  <1>1. row'[e] = row[e] BY DEF TypeInv, RowT
  <1>2. historyMap'[e] \in {0, historyMap[e]} BY DEF TypeInv, HistT
  <1>3. \A i \in StepIdx : stepMap'[<<e, i>>] = stepMap[<<e, i>>] BY DEF TypeInv, StepT
  <1> QED BY <1>1, <1>2, <1>3 DEF LeftAlone

\* The end of a poll: only the rest of the snapshot is kept.
LEMMA CauseDone ==
  ASSUME CauseState, OneLoop, [Next]_vars, NEW l \in Loop, loop[l].pc \notin Resting, Done(l),
         \A e \in Device : e # loop[l].d => LeftAlone(e),
         row'[loop[l].d].status = "none" => row'[loop[l].d].rpa = NoRpa,
         row'[loop[l].d].sub = 0 \/ StaysOpen(loop[l].d, row'[loop[l].d].step)
  PROVE  NoneUnbound' /\ Carried' /\ \A k \in Loop : Calm(k)'
  <1> DEFINE x == loop[l].d
  <1>1. x \in Device /\ loop[l].todo \subseteq Device /\ x \notin loop[l].todo BY Working
  <1>2. /\ loop'[l].pc = "take" /\ loop'[l].todo = loop[l].todo
        /\ loop'[l].snap = loop[l].snap /\ loop'[l].kind = "act"
    BY DEF Done, Taking, Select, CauseState, TypeInv, LoopT
  <1> HIDE DEF x
  <1> QED BY <1>1, <1>2, CauseAt DEF x, AfterStep

\* The next statement of a poll: device, step and snapshot are kept.
LEMMA CauseGoes ==
  ASSUME CauseState, OneLoop, [Next]_vars, NEW l \in Loop, loop[l].pc \notin Resting,
         \A e \in Device : e # loop[l].d => LeftAlone(e),
         loop'[l].pc \notin Resting,
         loop'[l].todo = loop[l].todo, loop'[l].snap = loop[l].snap,
         loop'[l].d = loop[l].d, loop'[l].kind = loop[l].kind,
         loop'[l].pc \in {"doneW", "loopW"} => loop'[l].row = row'[loop[l].d],
         row'[loop[l].d].status = "none" => row'[loop[l].d].rpa = NoRpa,
         \/ row'[loop[l].d].sub = 0 \/ StaysOpen(loop[l].d, row'[loop[l].d].step)
         \/ loop'[l].pc \in AfterStep,
         loop'[l].pc \in {"exec", "failStep"} => StaysOpen(loop[l].d, loop'[l].cfg.step),
         loop'[l].pc = "failHist" /\ historyMap'[loop[l].d] # 0
           => RecsOf(historyMap[loop[l].d], "failed")' # {},
         loop'[l].pc = "loopHist" => row'[loop[l].d].sub = 0,
         loop'[l].pc \in {"mergeR", "mergeW"} => loop'[l].goto = "progress"
  PROVE  NoneUnbound' /\ Carried' /\ \A k \in Loop : Calm(k)'
  <1> DEFINE x == loop[l].d
  <1>1. x \in Device /\ loop[l].todo \subseteq Device /\ x \notin loop[l].todo BY Working
  <1>2. loop[l].kind # "steer" BY DEF CauseState, CauseInv, Calm
  <1>3. loop'[l].pc \notin {"off", "wait"} /\ loop'[l].todo \subseteq loop[l].todo \ {x}
    BY <1>1 DEF Resting
  <1> QED BY <1>1, <1>2, <1>3, CauseAt

LEMMA CauseEndPoll ==
  ASSUME CauseState, OneLoop, [Next]_vars, NEW l \in Loop,
         \/ ExecPending(l) \/ Progress(l) \/ FailHist(l) \/ SetDeviceError(l)
         \/ CompletedSave(l) \/ LoopHistory(l)
  PROVE  NoneUnbound' /\ Carried' /\ \A k \in Loop : Calm(k)'
  <1> DEFINE x == loop[l].d
  <1>1. loop[l].pc \notin Resting
    BY DEF ExecPending, Progress, FailHist, SetDeviceError, CompletedSave, LoopHistory, Resting
  <1>2. /\ x \in Device /\ row[x] \in Row /\ loop[l] \in LoopRow
        /\ row[x].status = "none" => row[x].rpa = NoRpa
        /\ loop[l].pc \notin AfterStep => row[x].sub = 0 \/ Opened(x, row[x].step)
    BY <1>1, Working
  <1>3. Done(l) BY DEF ExecPending, Progress, FailHist, SetDeviceError, CompletedSave, LoopHistory
  <1>4. row \in [Device -> Row] /\ TypeInv /\ RecInv BY DEF CauseState, TypeInv, RowT
  <1> DEFINE Good == /\ \A e \in Device : e # x => LeftAlone(e)
                     /\ row'[x].status = "none" => row'[x].rpa = NoRpa
                     /\ row'[x].sub = 0 \/ StaysOpen(x, row'[x].step)
  <1>5. ASSUME ExecPending(l) PROVE Good
    <2> DEFINE c == [row[x] EXCEPT !.step = loop[l].cfg.step, !.sub = loop[l].cfg.sub + 1]
    <2>1. row' = [row EXCEPT ![x] = c] /\ UNCHANGED <<histVars, stepVars>>
      BY <1>4, <1>5 DEF ExecPending
    <2>2. c.step = loop[l].cfg.step /\ c.status = row[x].status /\ c.rpa = row[x].rpa
      BY <1>2 DEF Row
    <2> HIDE DEF c
    <2>3. \A e \in Device : e # x => LeftAlone(e)
      BY <1>2, <1>4, <2>1, RestUntouched DEF histVars, stepVars
    <2>4. Opened(x, loop[l].cfg.step) BY <1>5 DEF ExecPending, CauseState, CauseInv, Calm
    <2>5. StaysOpen(x, loop[l].cfg.step)
      BY <1>2, <1>4, <2>1, <2>4, OpenKept DEF histVars, stepVars
    <2>6. row'[x] = c BY <1>2, <1>4, <2>1
    <2> QED BY <1>2, <2>2, <2>3, <2>5, <2>6
  <1>6. ASSUME Progress(l) PROVE Good
    <2> DEFINE c == [row[x] EXCEPT !.step = loop[l].next, !.sub = 0]
    <2>1. row' = [row EXCEPT ![x] = c] /\ UNCHANGED <<histVars, stepVars>>
      BY <1>4, <1>6 DEF Progress
    <2>2. c.sub = 0 /\ c.status = row[x].status /\ c.rpa = row[x].rpa BY <1>2 DEF Row
    <2> HIDE DEF c
    <2>3. \A e \in Device : e # x => LeftAlone(e)
      BY <1>2, <1>4, <2>1, RestUntouched DEF histVars, stepVars
    <2>4. row'[x] = c BY <1>2, <1>4, <2>1
    <2> QED BY <1>2, <2>2, <2>3, <2>4
  <1>7. ASSUME FailHist(l) PROVE Good
    <2>1. row' = row /\ UNCHANGED stepVars /\ historyMap' = [historyMap EXCEPT ![x] = 0]
      BY <1>7 DEF FailHist, CompleteHistory
    <2>2. \A e \in Device : e # x => LeftAlone(e)
      BY <1>2, <1>4, <2>1, RestUntouched DEF stepVars
    <2>3. historyMap'[x] = 0 BY <1>2, <1>4, <2>1 DEF TypeInv, HistT
    <2> QED BY <1>2, <2>1, <2>2, <2>3 DEF StaysOpen
  <1>8. ASSUME SetDeviceError(l) \/ CompletedSave(l) PROVE Good
    <2>1. /\ loop[l].pc \in {"setError", "doneW"} /\ UNCHANGED <<histVars, stepVars>>
          /\ \E st \in {"error", "completed"} :
               row' = [row EXCEPT ![x] = [row[x] EXCEPT !.status = st]]
      BY <1>8 DEF SetDeviceError, CompletedSave, CauseState, CauseInv, Calm, SameRow
    <2>2. PICK st \in {"error", "completed"} :
            row' = [row EXCEPT ![x] = [row[x] EXCEPT !.status = st]]
      BY <2>1
    <2> DEFINE c == [row[x] EXCEPT !.status = st]
    <2>3. c.status = st /\ c.sub = row[x].sub /\ c.step = row[x].step BY <1>2 DEF Row
    <2>4. row' = [row EXCEPT ![x] = c] BY <2>2
    <2> HIDE DEF c
    <2>5. \A e \in Device : e # x => LeftAlone(e)
      BY <1>2, <1>4, <2>1, <2>4, RestUntouched DEF histVars, stepVars
    <2>6. row'[x] = c BY <1>2, <1>4, <2>4
    <2>7. row[x].sub = 0 \/ Opened(x, row[x].step) BY <1>2, <2>1 DEF AfterStep
    <2>8. row[x].sub = 0 \/ StaysOpen(x, row[x].step)
      BY <1>2, <1>4, <2>1, <2>7, OpenKept DEF histVars, stepVars
    <2> QED BY <2>3, <2>5, <2>6, <2>8
  <1>9. ASSUME LoopHistory(l) PROVE Good
    <2>1. row' = row /\ UNCHANGED stepVars /\ \E h : historyMap' = [historyMap EXCEPT ![x] = h]
      BY <1>9 DEF LoopHistory, StartHistory
    <2>2. row[x].sub = 0 BY <1>9 DEF LoopHistory, CauseState, CauseInv, Calm
    <2>3. \A e \in Device : e # x => LeftAlone(e)
      BY <1>2, <1>4, <2>1, RestUntouched DEF stepVars
    <2> QED BY <1>2, <2>1, <2>2, <2>3
  <1>10. Good BY <1>5, <1>6, <1>7, <1>8, <1>9
  <1> QED BY <1>1, <1>3, <1>10, CauseDone

\* Statements that write nothing but the goroutine's own state, or the row of x.
LEMMA CauseRowOnly ==
  ASSUME CauseState, OneLoop, [Next]_vars, NEW l \in Loop, UNCHANGED <<histVars, stepVars>>,
         \/ ExecFail(l) \/ MergeRead(l) \/ MergeWrite(l) \/ CompletedRead(l)
         \/ LoopCountRead(l) \/ LoopCountSave(l) \/ LoopRewind(l)
  PROVE  NoneUnbound' /\ Carried' /\ \A k \in Loop : Calm(k)'
  <1> DEFINE x == loop[l].d
  <1>1. loop[l].pc \notin Resting
    BY DEF ExecFail, MergeRead, MergeWrite, CompletedRead, LoopCountRead, LoopCountSave,
           LoopRewind, ReadRow, Resting
  <1>2. /\ x \in Device /\ row[x] \in Row /\ loop[l] \in LoopRow
        /\ row[x].status = "none" => row[x].rpa = NoRpa
        /\ loop[l].pc \notin AfterStep => row[x].sub = 0 \/ Opened(x, row[x].step)
    BY <1>1, Working
  <1>3. /\ row \in [Device -> Row] /\ loop \in [Loop -> GoodLoop] /\ TypeInv /\ RecInv
        /\ SameRow(loop[l], row)
        /\ loop[l].pc = "exec" => Opened(x, loop[l].cfg.step)
        /\ loop[l].pc \in {"mergeR", "mergeW"} => loop[l].goto = "progress"
    BY DEF CauseState, TypeInv, RowT, LoopT, CauseInv, Calm
  <1>4. ASSUME NEW i, Opened(x, i) PROVE StaysOpen(x, i)
    BY <1>2, <1>3, <1>4, OpenKept DEF histVars, stepVars
  <1>5. ASSUME NEW c, row' = [row EXCEPT ![x] = c]
        PROVE  row'[x] = c /\ \A e \in Device : e # x => LeftAlone(e)
    BY <1>2, <1>3, <1>5, RestUntouched DEF histVars, stepVars
  <1>6. ASSUME row' = row PROVE \A e \in Device : e # x => LeftAlone(e)
    BY <1>2, <1>3, <1>6, RestUntouched DEF histVars, stepVars
  <1>7. CASE ExecFail(l)
    <2> DEFINE c == [row[x] EXCEPT !.status = "error"]
    <2>1. row' = [row EXCEPT ![x] = c] /\ loop[l].pc = "exec" BY <1>3, <1>7 DEF ExecFail
    <2>2. c.status = "error" /\ c.sub = row[x].sub /\ c.step = row[x].step BY <1>2 DEF Row
    <2> HIDE DEF c
    <2>3. /\ loop'[l].pc = "failStep" /\ loop'[l].todo = loop[l].todo
          /\ loop'[l].snap = loop[l].snap /\ loop'[l].d = loop[l].d
          /\ loop'[l].kind = loop[l].kind /\ loop'[l].cfg = loop[l].cfg
      BY <1>2, <1>3, <1>7 DEF ExecFail, Goto, LoopRow
    <2>4. row'[x] = c /\ \A e \in Device : e # x => LeftAlone(e) BY <2>1, <1>5
    <2>5. row'[x].sub = 0 \/ StaysOpen(x, row'[x].step)
      BY <1>2, <1>4, <2>1, <2>2, <2>4 DEF AfterStep
    <2>6. StaysOpen(x, loop'[l].cfg.step) BY <1>3, <1>4, <2>1, <2>3
    <2> QED BY <1>1, <2>2, <2>3, <2>4, <2>5, <2>6, CauseGoes DEF Resting
  <1>8. CASE MergeRead(l)
    <2>1. /\ loop'[l].pc = "mergeW" /\ loop'[l].todo = loop[l].todo
          /\ loop'[l].snap = loop[l].snap /\ loop'[l].d = loop[l].d
          /\ loop'[l].kind = loop[l].kind /\ loop'[l].goto = loop[l].goto
          /\ loop[l].pc = "mergeR" /\ row' = row
      BY <1>2, <1>3, <1>8 DEF MergeRead, LoopRow
    <2> QED BY <1>1, <1>2, <1>3, <1>6, <2>1, CauseGoes DEF Resting, AfterStep
  <1>9. CASE MergeWrite(l)
    <2> DEFINE c == [row[x] EXCEPT !.vars = loop[l].row.vars \cup {<<loop[l].cfg.run, loop[l].cfg.step>>}]
    <2>1. row' = [row EXCEPT ![x] = c] BY <1>3, <1>9 DEF MergeWrite
    <2>2. c.status = row[x].status /\ c.rpa = row[x].rpa BY <1>2 DEF Row
    <2> HIDE DEF c
    <2>3. /\ loop'[l].pc = "progress" /\ loop'[l].todo = loop[l].todo
          /\ loop'[l].snap = loop[l].snap /\ loop'[l].d = loop[l].d
          /\ loop'[l].kind = loop[l].kind
      BY <1>2, <1>3, <1>9 DEF MergeWrite, LoopRow
    <2>4. row'[x] = c /\ \A e \in Device : e # x => LeftAlone(e) BY <2>1, <1>5
    <2> QED BY <1>1, <1>2, <2>2, <2>3, <2>4, CauseGoes DEF Resting, AfterStep
  <1>10. CASE CompletedRead(l) \/ LoopCountRead(l)
    <2>1. /\ loop[l].pc \in {"doneR", "loopR"} /\ loop'[l].pc \in {"doneW", "loopW"}
          /\ loop'[l].todo = loop[l].todo
          /\ loop'[l].snap = loop[l].snap /\ loop'[l].d = loop[l].d
          /\ loop'[l].kind = loop[l].kind /\ loop'[l].row = row[x] /\ row' = row
      BY <1>2, <1>3, <1>10 DEF CompletedRead, LoopCountRead, ReadRow, LoopRow
    <2>2. row[x].sub = 0 \/ StaysOpen(x, row[x].step) BY <1>2, <1>4, <2>1 DEF AfterStep
    <2> QED BY <1>1, <1>2, <1>6, <2>1, <2>2, CauseGoes DEF Resting
  <1>11. CASE LoopCountSave(l)
    <2> DEFINE c == [row[x] EXCEPT !.loops = @ + 1]
    <2>1. row' = [row EXCEPT ![x] = c] /\ loop[l].pc = "loopW"
      BY <1>3, <1>11 DEF LoopCountSave, SameRow
    <2>2. /\ c.status = row[x].status /\ c.rpa = row[x].rpa
          /\ c.sub = row[x].sub /\ c.step = row[x].step
      BY <1>2 DEF Row
    <2> HIDE DEF c
    <2>3. /\ loop'[l].pc = "loopRewind" /\ loop'[l].todo = loop[l].todo
          /\ loop'[l].snap = loop[l].snap /\ loop'[l].d = loop[l].d
          /\ loop'[l].kind = loop[l].kind
      BY <1>2, <1>3, <1>11 DEF LoopCountSave, LoopRow
    <2>4. row'[x] = c /\ \A e \in Device : e # x => LeftAlone(e) BY <2>1, <1>5
    <2>5. row'[x].sub = 0 \/ StaysOpen(x, row'[x].step)
      BY <1>2, <1>4, <2>1, <2>2, <2>4 DEF AfterStep
    <2> QED BY <1>1, <1>2, <2>2, <2>3, <2>4, <2>5, CauseGoes DEF Resting
  <1>12. CASE LoopRewind(l)
    <2> DEFINE c == [row[x] EXCEPT !.step = 0, !.sub = 0]
    <2>1. row' = [row EXCEPT ![x] = c] BY <1>3, <1>12 DEF LoopRewind
    <2>2. c.status = row[x].status /\ c.rpa = row[x].rpa /\ c.sub = 0 BY <1>2 DEF Row
    <2> HIDE DEF c
    <2>3. /\ loop'[l].pc = "loopHist" /\ loop'[l].todo = loop[l].todo
          /\ loop'[l].snap = loop[l].snap /\ loop'[l].d = loop[l].d
          /\ loop'[l].kind = loop[l].kind
      BY <1>2, <1>3, <1>12 DEF LoopRewind, Goto, LoopRow
    <2>4. row'[x] = c /\ \A e \in Device : e # x => LeftAlone(e) BY <2>1, <1>5
    <2> QED BY <1>1, <1>2, <2>2, <2>3, <2>4, CauseGoes DEF Resting
  <1> QED BY <1>7, <1>8, <1>9, <1>10, <1>11, <1>12

\* The two statements that close the record of a step.
LEMMA CauseClose ==
  ASSUME CauseState, OneLoop, [Next]_vars, NEW l \in Loop, ExecSuccess(l) \/ FailStep(l)
  PROVE  NoneUnbound' /\ Carried' /\ \A k \in Loop : Calm(k)'
  <1> DEFINE x == loop[l].d
             i == loop[l].cfg.step
             r == stepMap[<<x, i>>]
  <1>1. loop[l].pc \in {"exec", "failStep"} BY DEF ExecSuccess, FailStep
  <1>2. /\ x \in Device /\ loop[l] \in LoopRow /\ i \in StepIdx
        /\ row[x].status = "none" => row[x].rpa = NoRpa
    BY <1>1, Working DEF Resting, CauseState, TypeInv, LoopT, GoodLoop, AtStep
  <1>3. /\ loop \in [Loop -> GoodLoop] /\ TypeInv /\ RecInv
        /\ Opened(x, i) /\ loop[l].kind # "steer"
    BY <1>1 DEF CauseState, TypeInv, LoopT, CauseInv, Calm
  <1>4. row' = row /\ UNCHANGED histVars /\ stepMap' = [stepMap EXCEPT ![<<x, i>>] = 0]
    BY DEF ExecSuccess, FailStep, CompleteStepRecord
  <1>5. \A e \in Device : e # x => LeftAlone(e)
    BY <1>2, <1>3, <1>4, RestUntouched DEF histVars
  <1>6. CASE ExecSuccess(l)
    <2>1. PICK nx \in NextSteps(loop[l]), stop \in BOOLEAN :
            LET after == IF stop THEN "doneR" ELSE "progress" IN
            /\ stop => loop[l].kind = "steer"
            /\ loop' = [loop EXCEPT ![l].next = nx, ![l].goto = after,
                          ![l].pc = IF loop[l].kind = "act" THEN after ELSE "mergeR"]
      BY <1>6 DEF ExecSuccess
    <2>2. ~stop BY <1>3, <2>1
    <2>3. /\ loop'[l].pc \in {"progress", "mergeR"} /\ loop'[l].todo = loop[l].todo
          /\ loop'[l].snap = loop[l].snap /\ loop'[l].d = loop[l].d
          /\ loop'[l].kind = loop[l].kind /\ loop'[l].goto = "progress"
      BY <1>2, <1>3, <2>1, <2>2 DEF LoopRow
    <2> QED BY <1>1, <1>2, <1>4, <1>5, <2>3, CauseGoes DEF Resting, AfterStep
  <1>7. CASE FailStep(l)
    <2>1. /\ loop'[l].pc = "failHist" /\ loop'[l].todo = loop[l].todo
          /\ loop'[l].snap = loop[l].snap /\ loop'[l].d = loop[l].d
          /\ loop'[l].kind = loop[l].kind
      BY <1>2, <1>3, <1>7 DEF FailStep, Goto, LoopRow
    <2>2. ASSUME historyMap[x] # 0 PROVE RecsOf(historyMap[x], "failed")' # {}
      <3>1. r # 0 /\ recs[r].h = historyMap[x] BY <1>3, <2>2 DEF Opened
      <3>2. r <= nrec /\ r \in RecId /\ nrec \in Nat /\ recs[r] \in RecRow
        BY <1>2, <1>3, <3>1, EngineAssumption
        DEF RecInv, OpenStepRecord, TypeInv, StepT, RecId
      <3>3. nrec' = nrec /\ recs' = [recs EXCEPT ![r].st = "failed"]
        BY <1>7, <3>1 DEF FailStep, CompleteStepRecord
      <3> HIDE DEF r
      <3>4. recs'[r].st = "failed" /\ recs'[r].h = historyMap[x]
        BY <1>3, <3>1, <3>2, <3>3 DEF TypeInv, StepT, RecRow
      <3>5. r \in 1 .. nrec' BY <3>2, <3>3 DEF RecId
      <3>6. historyMap'[x] = historyMap[x] BY <1>4 DEF histVars
      <3> QED BY <2>1, <3>4, <3>5, <3>6 DEF RecsOf
    <2>3. historyMap'[x] # 0 => RecsOf(historyMap[x], "failed")' # {}
      BY <2>2, <1>4 DEF histVars
    <2> QED BY <1>1, <1>2, <1>4, <1>5, <2>1, <2>3, CauseGoes DEF Resting, AfterStep
  <1> QED BY <1>6, <1>7

\* A device is taken from the snapshot: its row is still the one that was copied.
LEMMA CauseTake ==
  ASSUME CauseState, OneLoop, NothingSteers, [Next]_vars, NEW l \in Loop, NEW x \in Device,
         \/ ProcessBroken(l, x) \/ ProcessEmpty(l, x) \/ ProcessAtEnd(l, x) \/ ProcessStep(l, x)
  PROVE  NoneUnbound' /\ Carried' /\ \A k \in Loop : Calm(k)'
  <1>1. /\ loop[l].pc = "take" /\ x \in loop[l].todo /\ row' = row
        /\ historyMap' = historyMap \/ historyMap' = [historyMap EXCEPT ![x] = 0]
    BY DEF ProcessBroken, ProcessEmpty, ProcessAtEnd, ProcessStep, CompleteHistory, histVars
  <1>2. /\ loop \in [Loop -> GoodLoop] /\ loop[l] \in LoopRow /\ TypeInv /\ RecInv
        /\ loop[l].todo \subseteq Device /\ loop[l].snap \in [Device -> Row]
        /\ row[x] \in Row /\ loop[l].kind # "steer"
        /\ row[x].status = "none" => row[x].rpa = NoRpa
    BY DEF CauseState, TypeInv, RowT, LoopT, GoodLoop, LoopRow, CauseInv, NoneUnbound, Calm
  <1>3. loop[l].snap[x] = row[x] BY <1>1 DEF CauseState, CauseInv, Calm, SameRow
  <1>4. row[x].sub = 0 \/ Opened(x, row[x].step)
    BY <1>1 DEF CauseState, CauseInv, Carried, OneLoop, AfterStep
  <1>5. ASSUME NEW p, Take(l, x, p)
        PROVE  /\ loop'[l].pc = p /\ loop'[l].todo = loop[l].todo \ {x} /\ loop'[l].d = x
               /\ loop'[l].kind = loop[l].kind
               /\ \A e \in loop'[l].todo : loop'[l].snap[e] = loop[l].snap[e]
    BY <1>2, <1>5 DEF Take, LoopRow
  <1>6. ASSUME NEW p \in {"setError", "doneR", "loopR"}, Take(l, x, p), UNCHANGED stepVars
        PROVE  NoneUnbound' /\ Carried' /\ \A k \in Loop : Calm(k)'
    <2>1. \A e \in Device : e # x => LeftAlone(e)
      BY <1>1, <1>2, <1>6, RestUntouched DEF stepVars
    <2>2. historyMap'[x] \in {0, historyMap[x]} BY <1>1, <1>2 DEF TypeInv, HistT
    <2>3. row[x].sub = 0 \/ StaysOpen(x, row[x].step)
      BY <1>2, <1>4, <1>6, <2>2, OpenKept DEF stepVars
    <2> QED BY <1>1, <1>2, <1>5, <1>6, <2>1, <2>3, CauseAt
  <1>7. CASE ProcessBroken(l, x) BY <1>6, <1>7 DEF ProcessBroken
  <1>8. CASE ProcessEmpty(l, x) BY <1>6, <1>8 DEF ProcessEmpty
  <1>9. CASE ProcessAtEnd(l, x)
    <2>1. UNCHANGED stepVars /\ (Take(l, x, "loopR") \/ Take(l, x, "doneR"))
      BY <1>9 DEF ProcessAtEnd
    <2> QED BY <1>6, <2>1
  <1>10. CASE ProcessStep(l, x)
    <2> DEFINE i == row[x].step
               steps == flow[row[x].rpa].steps
    <2>1. /\ loop'[l].pc = "exec" /\ loop'[l].todo = loop[l].todo \ {x} /\ loop'[l].d = x
          /\ loop'[l].kind = steps[i + 1] /\ loop'[l].cfg = row[x]
          /\ \A e \in loop'[l].todo : loop'[l].snap[e] = loop[l].snap[e]
      BY <1>2, <1>3, <1>10 DEF ProcessStep, LoopRow
    <2>2. loop'[l].kind # "steer" /\ i \in StepIdx
      <3>1. row[x].rpa \in Flow /\ i < Len(steps) BY <1>3, <1>10 DEF ProcessStep, Found
      <3>2. steps \in FlowDefs BY <1>2, <3>1 DEF TypeInv, FlowT, FlowRow
      <3>3. steps \in Seq(Kind) /\ Len(steps) <= MaxLen /\ MaxLen \in Nat
        BY <3>2, EngineAssumption
      <3>4. i \in Nat BY <1>2 DEF Row
      <3> HIDE DEF i, steps
      <3>5. Len(steps) \in Nat BY <3>3
      <3>6. i + 1 \in 1 .. Len(steps) BY <3>1, <3>5, <3>4
      <3>7. steps[i + 1] # "steer" BY <3>2, <3>6 DEF NothingSteers
      <3> QED BY <2>1, <3>1, <3>3, <3>5, <3>7, <3>4 DEF StepIdx
    <2>3. historyMap' = historyMap BY <1>10 DEF ProcessStep, histVars
    <2>4. CASE row[x].sub = 0
      <3>1. StartStepRecord(x, i) BY <1>3, <1>10, <2>4 DEF ProcessStep
      <3>2. stepMap' = stepMap \/ stepMap' = [stepMap EXCEPT ![<<x, i>>] = nrec + 1]
        BY <3>1 DEF StartStepRecord, stepVars
      <3>3. \A e \in Device : e # x => LeftAlone(e)
        BY <1>1, <1>2, <2>2, <3>2, RestUntouched
      <3>4. StaysOpen(x, i)
        <4> SUFFICES ASSUME historyMap[x] # 0 PROVE StaysOpen(x, i)
          BY <2>3 DEF StaysOpen
        <4>1. /\ nrec < MaxRec /\ stepMap' = [stepMap EXCEPT ![<<x, i>>] = nrec + 1]
              /\ recs' = [recs EXCEPT ![nrec + 1] =
                            [h |-> historyMap[x], step |-> i, st |-> "running"]]
          BY <3>1 DEF StartStepRecord
        <4>2. nrec + 1 \in RecId /\ nrec + 1 # 0
          BY <1>2, <4>1, EngineAssumption DEF TypeInv, StepT, RecId
        <4>3. stepMap'[<<x, i>>] = nrec + 1 BY <1>2, <2>2, <4>1 DEF TypeInv, StepT
        <4>4. recs'[nrec + 1].h = historyMap[x] BY <1>2, <4>1, <4>2 DEF TypeInv, StepT
        <4> QED BY <2>2, <2>3, <4>2, <4>3, <4>4 DEF StaysOpen
      <3> QED BY <1>1, <1>2, <2>1, <2>2, <2>4, <3>3, <3>4, CauseAt
    <2>5. CASE row[x].sub # 0
      <3>1. UNCHANGED stepVars BY <1>3, <1>10, <2>5 DEF ProcessStep
      <3>2. \A e \in Device : e # x => LeftAlone(e)
        BY <1>1, <1>2, <3>1, RestUntouched DEF stepVars
      <3>3. StaysOpen(x, i) BY <1>2, <1>4, <2>3, <2>5, <3>1, OpenKept DEF stepVars
      <3> QED BY <1>1, <1>2, <2>1, <2>2, <3>2, <3>3, CauseAt
    <2> QED BY <2>4, <2>5
  <1> QED BY <1>7, <1>8, <1>9, <1>10

\* The steps of a goroutine that hold no device.
LEMMA CauseRest ==
  ASSUME CauseState, OneLoop, NEW l \in Loop, Tick(l) \/ EnterSelect(l) \/ ExitLoop(l)
  PROVE  NoneUnbound' /\ Carried' /\ \A k \in Loop : Calm(k)'
  <1>1. UNCHANGED <<row, histVars, stepVars>> BY DEF Tick, EnterSelect, ExitLoop
  <1>2. loop \in [Loop -> GoodLoop] /\ loop[l] \in LoopRow /\ loop[l].kind # "steer"
    BY DEF CauseState, TypeInv, LoopT, GoodLoop, CauseInv, Calm
  <1>3. NoneUnbound' BY <1>1 DEF CauseState, CauseInv, NoneUnbound
  <1>4. Carried'
    <2>1. \A k \in Loop : loop[k].pc \notin AfterStep
      BY DEF OneLoop, Tick, EnterSelect, ExitLoop, AfterStep
    <2>2. \A d \in Device : row[d].sub # 0 => Opened(d, row[d].step)
      BY <2>1 DEF CauseState, CauseInv, Carried
    <2> QED BY <1>1, <2>2 DEF Carried, Opened, histVars, stepVars
  <1>5. CASE Tick(l)
    <2> DEFINE R == {d \in Device : row[d].status = "running"}
    <2>1. /\ loop'[l].pc = "take" /\ loop'[l].kind = loop[l].kind /\ loop'[l].todo = R
          /\ loop'[l].snap = [d \in Device |-> IF d \in R THEN row[d] ELSE NoRow]
      BY <1>2, <1>5 DEF Tick, LoopRow
    <2>2. \A d \in loop'[l].todo : loop'[l].snap[d] = row'[d] BY <1>1, <2>1
    <2>3. Calm(l)' BY <1>2, <2>1, <2>2 DEF Calm, SameRow, Resting
    <2> QED BY <1>3, <1>4, <2>3 DEF OneLoop
  <1>6. CASE EnterSelect(l) \/ ExitLoop(l)
    <2>1. loop'[l].pc \in {"wait", "off"} /\ loop'[l].todo = {} /\ loop'[l].kind = "act"
      BY <1>2, <1>6 DEF EnterSelect, ExitLoop, NoLoop, Select
    <2>2. Calm(l)' BY <2>1 DEF Calm, SameRow, Resting
    <2> QED BY <1>3, <1>4, <2>2 DEF OneLoop
  <1> QED BY <1>5, <1>6

LEMMA CauseUnderPoll ==
  ASSUME CauseState, Quiet, OneLoop, NothingSteers, NEW l \in Loop, Poll(l) PROVE CauseInv'
  <1>1. [Next]_vars BY DEF Next
  <1>2. FailureHasCause' BY <1>1, FailureCounted
  <1>3. ASSUME \/ ExecFail(l) \/ MergeRead(l) \/ MergeWrite(l) \/ CompletedRead(l)
               \/ LoopCountRead(l) \/ LoopCountSave(l) \/ LoopRewind(l)
        PROVE  UNCHANGED <<histVars, stepVars>>
    BY <1>3 DEF ExecFail, MergeRead, MergeWrite, CompletedRead, LoopCountRead, LoopCountSave,
                LoopRewind, ReadRow
  <1>4. NoneUnbound' /\ Carried' /\ \A k \in Loop : Calm(k)'
    BY <1>1, <1>3, CauseEndPoll, CauseRowOnly, CauseClose, CauseTake, CauseRest DEF Poll
  <1>5. \A r \in Req : FreshRow(req'[r], row')
    <2> SUFFICES ASSUME NEW r \in Req, req[r].pc # "idle" PROVE FreshRow(req[r], row')
      BY PollsKeepReq DEF FreshRow
    <2>1. loop[l].pc \in {"off", "wait"} BY DEF CauseState, NoOverlap
    <2>2. Tick(l) \/ ExitLoop(l) BY <2>1, PollWaits
    <2>3. row' = row BY <2>2 DEF Tick, ExitLoop
    <2> QED BY <2>3 DEF CauseState, CauseInv
  <1> QED BY <1>2, <1>4, <1>5 DEF CauseInv

\* A handler finds the goroutine at rest: of its state only the rows it writes and
\* the execution it opens or closes matter.
LEMMA CauseHandled ==
  ASSUME CauseState, [Next]_vars, UNCHANGED stepVars,
         \A l \in Loop : loop[l].pc \in {"off", "wait"},
         \A l \in Loop : loop'[l] = loop[l] \/ loop'[l] = Beginning(stopCh),
         \A d \in Device : row'[d].status = "none" => row'[d].rpa = NoRpa,
         \A d \in Device : \/ row'[d].sub = 0
                           \/ /\ row'[d].sub = row[d].sub /\ row'[d].step = row[d].step
                              /\ historyMap'[d] \in {0, historyMap[d]},
         \A r \in Req : FreshRow(req'[r], row')
  PROVE  CauseInv'
  <1>1. FailureHasCause' BY FailureCounted
  <1>2. NoneUnbound' BY DEF NoneUnbound
  <1>3. Carried'
    <2> SUFFICES ASSUME NEW d \in Device, row'[d].sub # 0 PROVE StaysOpen(d, row'[d].step)
      BY DEF Carried, StaysOpen, Opened
    <2>1. \A l \in Loop : loop[l].pc \notin AfterStep BY DEF AfterStep
    <2>2. Opened(d, row[d].step) BY <2>1 DEF CauseState, CauseInv, Carried
    <2> QED BY <2>2, OpenKept DEF CauseState, stepVars
  <1>4. ASSUME NEW l \in Loop PROVE Calm(l)'
    <2>1. loop[l].todo = {} /\ loop[l].kind # "steer"
      BY DEF CauseState, CauseInv, Calm, SameRow
    <2>2. /\ loop'[l].pc \in {"off", "wait", "take"} /\ loop'[l].todo = {}
          /\ loop'[l].kind # "steer"
      BY <2>1 DEF Beginning, Select
    <2> QED BY <2>2 DEF Calm, SameRow, Resting
  <1> QED BY <1>1, <1>2, <1>3, <1>4 DEF CauseInv

LEMMA CauseUnderHandle ==
  ASSUME CauseState, NEW r \in Req, Handle(r) PROVE CauseInv'
  <1> DEFINE x == req[r].d
             Bound == \A d \in Device : row'[d].status = "none" => row'[d].rpa = NoRpa
             Goes == \A d \in Device : \/ row'[d].sub = 0
                                       \/ /\ row'[d].sub = row[d].sub
                                          /\ row'[d].step = row[d].step
                                          /\ historyMap'[d] \in {0, historyMap[d]}
  <1>1. /\ req \in [Req -> GoodReq] /\ row \in [Device -> Row]
        /\ \A d \in Device : row[d].status = "none" => row[d].rpa = NoRpa
        /\ FreshRow(req[r], row)
    BY DEF CauseState, TypeInv, ReqT, RowT, CauseInv, NoneUnbound
  <1>2. /\ \A l \in Loop : loop[l].pc \in {"off", "wait"}
        /\ \A q \in Req : q # r => req'[q].pc = "idle"
    BY HandleReq DEF CauseState, NoOverlap
  <1>3. \A l \in Loop : loop'[l] = loop[l] \/ loop'[l] = Beginning(stopCh)
    <2>1. ASSUME NEW l \in Loop, StartLoop(r, l)
          PROVE  \A k \in Loop : loop'[k] = loop[k] \/ loop'[k] = Beginning(stopCh)
      BY <2>1 DEF StartLoop, CauseState, TypeInv, LoopT
    <2> QED BY <2>1 DEF Handle, BindSave, StartRead, StartSave, StartOpen, StopSave, StopEngineWait
  <1>4. UNCHANGED stepVars
    BY DEF Handle, BindSave, StartRead, StartSave, StartOpen, StopSave, StopEngineWait, StartLoop
  <1>5. ASSUME BindSave(r) \/ StartSave(r) PROVE Bound /\ Goes /\ FreshRow(req'[r], row')
    <2>1. /\ req[r].pc \in {"bindW", "startW"} /\ x \in Device
          /\ row' = [row EXCEPT ![x] = req[r].row] /\ historyMap' = historyMap
      BY <1>5, Handling DEF BindSave, StartSave, CauseState, histVars
    <2>2. req[r].row.sub = 0 /\ req[r].row.status # "none" BY <1>1, <2>1 DEF FreshRow
    <2>3. Bound /\ Goes BY <1>1, <2>1, <2>2
    <2>4. req'[r].pc = "idle" \/ (req'[r].pc = "startHist" /\ req'[r].d = x)
      BY <1>1, <1>5 DEF BindSave, StartSave, Reply, NoReq, GoodReq, ReqRow
    <2> QED BY <1>1, <2>1, <2>2, <2>3, <2>4 DEF FreshRow
  <1>6. ASSUME StartRead(r) PROVE Bound /\ Goes /\ FreshRow(req'[r], row')
    <2>1. req[r] \in ReqRow /\ x \in Device /\ row[x] \in Row /\ row' = row
          /\ historyMap' = historyMap
      BY <1>1, <1>6, Handling DEF StartRead, CauseState, histVars
    <2> DEFINE c == [row[x] EXCEPT !.status = "running", !.step = 0, !.sub = 0,
                                   !.run = starts + 1, !.vars = {}]
    <2>2. CASE row[x].status = "none"
      <3>1. req'[r].pc = "startHist" /\ req'[r].d = x
        BY <1>1, <1>6, <2>1, <2>2 DEF StartRead, ReqRow
      <3> QED BY <1>1, <2>1, <2>2, <3>1 DEF FreshRow
    <2>3. CASE row[x].status # "none"
      <3>1. req' = [req EXCEPT ![r].pc = "startW", ![r].row = c] BY <1>6, <2>3 DEF StartRead
      <3>2. c.sub = 0 /\ c.status = "running" BY <2>1 DEF Row
      <3> HIDE DEF c
      <3>3. req'[r].pc = "startW" /\ req'[r].row = c BY <1>1, <2>1, <3>1 DEF ReqRow
      <3> QED BY <1>1, <2>1, <3>2, <3>3 DEF FreshRow
    <2> QED BY <2>2, <2>3
  <1>7. ASSUME StartOpen(r) PROVE Bound /\ Goes /\ FreshRow(req'[r], row')
    <2>1. /\ req[r].pc = "startHist" /\ x \in Device /\ row' = row
          /\ historyMap' = historyMap
               \/ (Found(row[x].rpa) /\ \E h : historyMap' = [historyMap EXCEPT ![x] = h])
      BY <1>7, Handling DEF StartOpen, StartHistory, CauseState, histVars
    <2>2. ~Found(NoRpa) BY EngineAssumption DEF Found
    <2>3. historyMap' = historyMap \/ row[x].sub = 0 BY <1>1, <2>1, <2>2 DEF FreshRow
    <2>4. \A d \in Device : d # x => historyMap'[d] = historyMap[d]
      BY <2>1 DEF CauseState, TypeInv, HistT
    <2>5. req'[r].pc = "idle" BY <1>1, <1>7 DEF StartOpen, Reply, NoReq
    <2> QED BY <1>1, <2>1, <2>3, <2>4, <2>5 DEF FreshRow
  <1>8. ASSUME StopSave(r) PROVE Bound /\ Goes /\ FreshRow(req'[r], row')
    <2> DEFINE c == [row[x] EXCEPT !.status = "idle", !.step = 0, !.sub = 0]
    <2>1. /\ x \in Device /\ row[x] \in Row /\ historyMap' = historyMap
          /\ row' = row \/ row' = [row EXCEPT ![x] = c]
      BY <1>1, <1>8, Handling DEF StopSave, SetColumns, CauseState, histVars
    <2>2. c.sub = 0 /\ c.status = "idle" BY <2>1 DEF Row
    <2> HIDE DEF c
    <2>3. Bound /\ Goes BY <1>1, <2>1, <2>2
    <2>4. req'[r].pc = "idle" BY <1>1, <1>8 DEF StopSave, Reply, NoReq
    <2> QED BY <2>3, <2>4 DEF FreshRow
  <1>9. ASSUME StopEngineWait(r) \/ \E l \in Loop : StartLoop(r, l)
        PROVE  Bound /\ Goes /\ FreshRow(req'[r], row')
    <2>1. row' = row /\ historyMap' = historyMap /\ req'[r].pc = "idle"
      BY <1>1, <1>9 DEF StopEngineWait, StartLoop, Reply, NoReq, histVars
    <2> QED BY <1>1, <2>1 DEF FreshRow
  <1>10. Bound /\ Goes /\ FreshRow(req'[r], row') BY <1>5, <1>6, <1>7, <1>8, <1>9 DEF Handle
  <1>11. \A q \in Req : FreshRow(req'[q], row') BY <1>2, <1>10 DEF FreshRow
  <1> QED BY <1>2, <1>3, <1>4, <1>10, <1>11, CauseHandled DEF Next

LEMMA CauseUnderRequest ==
  ASSUME CauseState, Quiet, Request PROVE CauseInv'
  <1> DEFINE Bound == \A d \in Device : row'[d].status = "none" => row'[d].rpa = NoRpa
             Goes == \A d \in Device : \/ row'[d].sub = 0
                                       \/ /\ row'[d].sub = row[d].sub
                                          /\ row'[d].step = row[d].step
                                          /\ historyMap'[d] \in {0, historyMap[d]}
             Fresh == \A q \in Req : FreshRow(req'[q], row')
  <1>1. /\ req \in [Req -> GoodReq] /\ row \in [Device -> Row]
        /\ \A d \in Device : row[d].status = "none" => row[d].rpa = NoRpa
    BY DEF CauseState, TypeInv, ReqT, RowT, CauseInv, NoneUnbound
  <1>2. /\ \A q \in Req : req[q].pc = "idle"
        /\ \A l \in Loop : loop[l].pc \in {"off", "wait"} /\ loop'[l] = loop[l]
    BY RequestReq DEF CauseState
  <1>3. UNCHANGED stepVars
    BY DEF Request, BindRead, StartCancel, StopHistory, Pause, Resume, DeleteFlow, SaveFlow,
           StartEngine, StopEngine
  <1>4. ASSUME NEW r \in Req, NEW d \in Device, NEW f \in Flow, NEW m \in Mode,
               BindRead(r, d, f, m)
        PROVE  Bound /\ Goes /\ Fresh
    <2> DEFINE old == IF row[d].status = "none" THEN [NoRow EXCEPT !.status = "idle"]
                      ELSE row[d]
               new == [old EXCEPT !.rpa = f, !.mode = m, !.status = "idle", !.step = 0,
                                  !.sub = 0, !.loops = 0]
    <2>1. old \in Row BY <1>1, NoRowType DEF Row, Status
    <2>2. old.status # "none" /\ (old.sub = 0 \/ old = row[d]) BY DEF NoRow
    <2>3. /\ row' = [row EXCEPT ![d] = old] /\ historyMap' = historyMap
          /\ req' = [req EXCEPT ![r] = [pc |-> "bindW", d |-> d, row |-> new]]
      BY <1>4 DEF BindRead, histVars
    <2> HIDE DEF old
    <2>4. new.sub = 0 /\ new.status = "idle" BY <2>1 DEF Row
    <2> HIDE DEF new
    <2>5. Bound /\ Goes BY <1>1, <2>2, <2>3
    <2>6. /\ req'[r].pc = "bindW" /\ req'[r].row = new
          /\ \A q \in Req : q # r => req'[q].pc = "idle"
      BY <1>1, <1>2, <2>3
    <2> QED BY <2>4, <2>5, <2>6 DEF FreshRow
  <1>5. ASSUME NEW d \in Device, Pause(d) \/ Resume(d) PROVE Bound /\ Goes /\ Fresh
    <2>1. PICK st \in {"paused", "running"} :
            row' = row \/ row' = [row EXCEPT ![d] = [row[d] EXCEPT !.status = st]]
      BY <1>5 DEF Pause, Resume, SetColumns
    <2> DEFINE c == [row[d] EXCEPT !.status = st]
    <2>2. c.status = st /\ c.sub = row[d].sub /\ c.step = row[d].step BY <1>1 DEF Row
    <2>3. row' = row \/ row' = [row EXCEPT ![d] = c] BY <2>1
    <2> HIDE DEF c
    <2>4. historyMap' = historyMap /\ req' = req BY <1>5 DEF Pause, Resume, histVars
    <2>5. Bound /\ Goes BY <1>1, <2>2, <2>3, <2>4
    <2> QED BY <1>2, <2>4, <2>5 DEF FreshRow
  <1>6. ASSUME row' = row, \A d \in Device : historyMap'[d] \in {0, historyMap[d]},
               \A q \in Req : req'[q].pc \in {"idle", "startR", "stopW", "goLoop", "wgWait"}
        PROVE  Bound /\ Goes /\ Fresh
    BY <1>1, <1>6 DEF FreshRow
  <1>7. ASSUME NEW r \in Req, NEW d \in Device, StartCancel(r, d) PROVE Bound /\ Goes /\ Fresh
    BY <1>1, <1>2, <1>6, <1>7 DEF StartCancel, NoReq
  <1>8. ASSUME NEW r \in Req, NEW d \in Device, StopHistory(r, d) PROVE Bound /\ Goes /\ Fresh
    <2>1. /\ row' = row /\ historyMap' = [historyMap EXCEPT ![d] = 0]
          /\ req' = [req EXCEPT ![r] = [NoReq EXCEPT !.pc = "stopW", !.d = d]]
      BY <1>8 DEF StopHistory, CompleteHistory
    <2>2. \A e \in Device : historyMap'[e] \in {0, historyMap[e]}
      BY <2>1 DEF CauseState, TypeInv, HistT
    <2>3. \A q \in Req : req'[q].pc \in {"idle", "stopW"} BY <1>1, <1>2, <2>1 DEF NoReq
    <2> QED BY <1>6, <2>1, <2>2, <2>3
  <1>9. ASSUME NEW f \in Flow, DeleteFlow(f) \/ \E s \in FlowDefs : SaveFlow(f, s)
        PROVE  Bound /\ Goes /\ Fresh
    BY <1>2, <1>6, <1>9 DEF DeleteFlow, SaveFlow, histVars
  <1>10. ASSUME NEW r \in Req, StartEngine(r) \/ StopEngine(r) PROVE Bound /\ Goes /\ Fresh
    <2>1. \A p : [req[r] EXCEPT !.pc = p].pc = p BY <1>1 DEF GoodReq, ReqRow
    <2>2. row' = row /\ historyMap' = historyMap
      BY <1>10 DEF StartEngine, StopEngine, histVars
    <2>3. \A q \in Req : req'[q].pc \in {"idle", "goLoop", "wgWait"}
      BY <1>1, <1>2, <1>10, <2>1 DEF StartEngine, StopEngine
    <2> QED BY <1>6, <2>2, <2>3
  <1>11. Bound /\ Goes /\ Fresh BY <1>4, <1>5, <1>7, <1>8, <1>9, <1>10 DEF Request
  <1> QED BY <1>2, <1>3, <1>11, CauseHandled DEF Next

LEMMA CauseCrash == ASSUME CauseState, NEW l \in Loop, Crash(l) PROVE CauseInv'
  <1>1. FailureHasCause' BY FailureCounted DEF Next
  <1>2. NoneUnbound' BY DEF CauseState, CauseInv, NoneUnbound, Crash
  <1>3. Carried' BY DEF Carried, Opened, Crash
  <1>4. \A r \in Req : FreshRow(req'[r], row') BY DEF FreshRow, Crash, NoReq
  <1>5. ASSUME NEW k \in Loop PROVE Calm(k)'
    <2>1. loop'[k].pc \in {"off", "take"} /\ loop'[k].todo = {} /\ loop'[k].kind = "act"
      BY DEF Crash, Boot, Beginning, NoLoop, Select
    <2> QED BY <2>1 DEF Calm, SameRow, Resting
  <1> QED BY <1>1, <1>2, <1>3, <1>4, <1>5 DEF CauseInv

LEMMA CauseNext ==
  ASSUME CauseState, Quiet, OneLoop, NothingSteers, [Next]_vars PROVE CauseState'
  <1>1. TypeInv' /\ HistInv' /\ RecInv' /\ NoOverlap'
    BY NextType, HistInvNext, RecInvNext, OverlapNext DEF CauseState
  <1>2. ASSUME UNCHANGED vars PROVE CauseInv'
    <2>1. FailureHasCause' BY FailureCounted
    <2>2. NoneUnbound' /\ Carried' /\ \A r \in Req : FreshRow(req[r], row)'
      BY <1>2 DEF CauseState, CauseInv, vars, NoneUnbound, Carried, Opened
    <2>3. \A l \in Loop : Calm(l)'
      BY <1>2 DEF CauseState, CauseInv, vars, Calm, Opened, RecsOf
    <2> QED BY <2>1, <2>2, <2>3 DEF CauseInv
  <1>3. CauseInv'
    <2>1. CASE Next BY <2>1, CauseUnderPoll, CauseUnderHandle, CauseUnderRequest, CauseCrash DEF Next
    <2> QED BY <1>2, <2>1 DEF CauseState
  <1> QED BY <1>1, <1>3 DEF CauseState

LEMMA CauseInit == Init => CauseState
  <1> SUFFICES ASSUME Init PROVE CauseState
    OBVIOUS
  <1>1. \A d \in Device : row[d].sub = 0 /\ (row[d].status = "none" => row[d].rpa = NoRpa)
    <2>1. /\ NoRow.sub = 0 /\ NoRow.rpa = NoRpa
          /\ \A f \in Flow, m \in Mode : BoundRow(f, m).sub = 0 /\ BoundRow(f, m).status = "idle"
      BY DEF NoRow, BoundRow
    <2> QED BY <2>1 DEF Init, FirstRow
  <1>2. NoneUnbound /\ Carried BY <1>1 DEF NoneUnbound, Carried
  <1>3. FailureHasCause
    <2>1. nhist = 0 BY DEF Init
    <2> QED BY <2>1 DEF FailureHasCause
  <1>4. \A r \in Req : FreshRow(req[r], row) BY DEF Init, FreshRow, NoReq
  <1>5. ASSUME NEW k \in Loop PROVE Calm(k)
    <2>1. loop[k].pc \in {"off", "take"} /\ loop[k].todo = {} /\ loop[k].kind = "act"
      BY DEF Init, Boot, Beginning, NoLoop, Select
    <2> QED BY <2>1 DEF Calm, SameRow, Resting
  <1> QED
    BY <1>2, <1>3, <1>4, <1>5, InitType, HistInvInit, RecInvInit, NoOverlapInit
    DEF CauseState, CauseInv

\* While handlers and polls do not overlap and one engine goroutine runs at a time,
\* an execution that reads failed counts the step it failed at: the record of the
\* step is closed before the counts are taken, across crashes and restarts.
THEOREM FailuresCaused ==
  Quiet /\ OneLoop /\ NothingSteers => (Spec => []FailureHasCause)
  <1> SUFFICES ASSUME Quiet, OneLoop, NothingSteers PROVE Spec => []FailureHasCause
    OBVIOUS
  <1>1. CauseState /\ [Next]_vars => CauseState' BY CauseNext
  <1>2. CauseState => FailureHasCause BY DEF CauseState, CauseInv
  <1> QED BY <1>1, <1>2, CauseInit, PTL DEF Spec
=============================================================================
