------------------------------ MODULE RpaEngine ------------------------------
(***************************************************************************)
(* The RPA engine of internal/rpa, the tables it lives on                  *)
(* (internal/database) and the HTTP handlers that control it.              *)
(*                                                                         *)
(* Three kinds of goroutine share the database: engine loops (one for      *)
(* every Engine.Start that was not refused), HTTP handlers, and whatever   *)
(* edits the flows.  A database statement is one action; a read followed   *)
(* by a Save of the whole row is two, with the row read kept by the        *)
(* goroutine in between.  The functions that hold historyMu                *)
(* (StartHistory, CompleteHistory, StartStepRecord, CompleteStepRecord)    *)
(* are one action each: nothing outside the mutex reads what they write    *)
(* half way, and CancelRunningExecutions commutes with each of their       *)
(* statements but the last.                                                *)
(***************************************************************************)
EXTENDS Naturals, FiniteSets, Sequences

CONSTANTS
  Device,    \* devices, one device_rpa_config row each
  Flow,      \* ids of rpa_flow rows
  FlowDefs,  \* step lists a flow may be given: sequences of step kinds
  Loop,      \* engine goroutines that can exist at once
  Req,       \* HTTP handlers that can be in flight at once
  Ops,       \* the operations the environment calls
  NoRpa, NoDevice,
  Quiet,     \* TRUE: a handler and a poll never overlap
  MaxLen,    \* longest step list
  MaxPoll,   \* polls after which an unfinished step meets its deadline
  MaxHist, MaxRec,  \* rows of the history and the step table
  MaxRound,  \* rounds of a device in loop mode
  MaxReq,    \* handler calls
  MaxCrash   \* process crashes

Kind == {"act",   \* an executor with no output
         "out",   \* an executor whose output goes to the flow variables
         "steer", \* one whose output also has stopFlow, jumpToStep or skipNext:
                  \* condition_check, and set_variables or http_request when
                  \* the user names a variable or a returned key so
         "bad"}   \* no executor is registered for the type

Op == {"bind", "start", "pause", "resume", "stop", "saveFlow", "deleteFlow",
       "startEngine", "stopEngine"}

ASSUME EngineAssumption ==
  /\ FlowDefs \subseteq Seq(Kind)
  /\ MaxLen \in Nat
  /\ \A s \in FlowDefs : Len(s) <= MaxLen
  /\ NoRpa \notin Flow
  /\ NoDevice \notin Device
  /\ Quiet \in BOOLEAN
  /\ Ops \subseteq Op
  /\ {MaxPoll, MaxHist, MaxRec, MaxRound, MaxReq, MaxCrash} \subseteq Nat

StepIdx == 0 .. MaxLen - 1
HistId == 1 .. MaxHist
RecId == 1 .. MaxRec

Status == {"none", "idle", "running", "paused", "error", "completed"}
Mode == {"single", "loop"}
ExecStatus == {"running", "success", "failed", "cancelled"}

(* device_rpa_config.  "none": the row is not there.  sub stands for SubStep  *)
(* with the retry and deadline data of StepContext: 0 when the step begins,   *)
(* else the number of polls it was left unfinished by.  run stands for        *)
(* StartedAt.  A flow variable is known by the run and the step that wrote it.*)
Row == [status : Status, mode : Mode, rpa : Flow \cup {NoRpa}, step : Nat,
        sub : Nat, loops : Nat, run : Nat, vars : SUBSET (Nat \X Nat)]

NoRow == [status |-> "none", mode |-> "single", rpa |-> NoRpa, step |-> 0,
          sub |-> 0, loops |-> 0, run |-> 0, vars |-> {}]

(* rpa_execution_history (ok and bad: SuccessSteps, FailedSteps; boot: the    *)
(* process that wrote it) and rpa_execution_step.                             *)
HistRow == [dev : Device \cup {NoDevice}, st : ExecStatus \cup {"none"},
            ok : Nat, bad : Nat, boot : Nat]
RecRow == [h : 0 .. MaxHist, step : Nat, st : ExecStatus \cup {"none"}]

NoHist == [dev |-> NoDevice, st |-> "none", ok |-> 0, bad |-> 0, boot |-> 0]
NoRec == [h |-> 0, step |-> 0, st |-> "none"]

FlowRow == [live : BOOLEAN, steps : FlowDefs]

LoopPC == {"off", "wait", "take", "exec", "mergeR", "mergeW", "progress",
           "setError", "doneR", "doneW", "failStep", "failHist",
           "loopR", "loopW", "loopRewind", "loopHist"}
ReqPC == {"idle", "bindW", "startR", "startW", "startHist", "stopW", "goLoop",
         "wgWait"}

VARIABLES
  row,         \* device_rpa_config
  flow,        \* rpa_flow
  hist, nhist, \* rpa_execution_history and its last id
  recs, nrec,  \* rpa_execution_step and its last id
  historyMap,  \* Engine.historyMap: device -> id of its open history, or 0
  stepMap,     \* Engine.stepMap: device, step -> id of its open record, or 0
  running,     \* Engine.running
  stopCh,      \* Engine.stopCh: channels are numbered as they are made
  loop,        \* the engine goroutines
  req,         \* the handler goroutines
  starts,      \* the clock StartedAt is read from: calls of StartDevice so far
  used, boot   \* handler calls made, process starts (both bounded)

histVars == <<hist, nhist, historyMap>>
stepVars == <<recs, nrec, stepMap>>
ctlVars == <<running, stopCh>>
envVars == <<used, boot>>
vars == <<row, flow, hist, nhist, recs, nrec, historyMap, stepMap, running,
          stopCh, loop, req, starts, used, boot>>

-----------------------------------------------------------------------------
(* What a goroutine holds between two statements.                            *)

NoSnap == [d \in Device |-> NoRow]

\* In the select of loop(), on channel c.
Select(c) ==
  [pc |-> "wait", ch |-> c, todo |-> {}, snap |-> NoSnap, d |-> NoDevice,
   cfg |-> NoRow, n |-> 0, kind |-> "act", next |-> 0, goto |-> "take",
   row |-> NoRow]
NoLoop == [Select(0) EXCEPT !.pc = "off"]

\* Between two devices of a tick: only the rest of the snapshot is kept.
Taking(g) == [Select(g.ch) EXCEPT !.pc = "take", !.todo = g.todo, !.snap = g.snap]

\* Before the first select of loop(); c is the channel it would find now.
Beginning(c) == [Select(c) EXCEPT !.pc = "take"]

NoReq == [pc |-> "idle", d |-> NoDevice, row |-> NoRow]

Found(f) == f \in Flow /\ flow[f].live

\* Mutant: Stop leaves the channel open.
ClosedByStart(c) == c < stopCh

\* A channel is closed by the Stop that follows the Start that made it.
Closed(c) == c < stopCh \/ ~running

-----------------------------------------------------------------------------
(* The functions of engine.go that hold historyMu.                           *)

\* Mutant: an execution that is already open keeps its place in historyMap.
StartHistoryKeepsOld(d) ==
  /\ nhist < MaxHist
  /\ nhist' = nhist + 1
  /\ hist' = [hist EXCEPT ![nhist + 1] =
                [NoHist EXCEPT !.dev = d, !.st = "running", !.boot = boot]]
  /\ historyMap' = [historyMap EXCEPT ![d] = IF @ = 0 THEN nhist + 1 ELSE @]

StartHistory(d) ==
  /\ nhist < MaxHist
  /\ nhist' = nhist + 1
  /\ hist' = [hist EXCEPT ![nhist + 1] =
                [NoHist EXCEPT !.dev = d, !.st = "running", !.boot = boot]]
  /\ historyMap' = [historyMap EXCEPT ![d] = nhist + 1]

RecsOf(h, st) == {r \in 1 .. nrec : recs[r].h = h /\ recs[r].st = st}

\* Mutant: the entry is dropped but the row is not updated.
CompleteHistoryForgets(d, st) ==
  /\ historyMap' = [historyMap EXCEPT ![d] = 0]
  /\ UNCHANGED <<hist, nhist>>

CompleteHistory(d, st) ==
  LET h == historyMap[d] IN
  /\ IF h = 0
     THEN UNCHANGED hist
     ELSE hist' = [hist EXCEPT ![h].st = st,
                               ![h].ok = Cardinality(RecsOf(h, "success")),
                               ![h].bad = Cardinality(RecsOf(h, "failed"))]
  /\ historyMap' = [historyMap EXCEPT ![d] = 0]
  /\ UNCHANGED nhist

StartStepRecord(d, i) ==
  IF historyMap[d] = 0
  THEN UNCHANGED stepVars
  ELSE /\ nrec < MaxRec
       /\ nrec' = nrec + 1
       /\ recs' = [recs EXCEPT ![nrec + 1] =
                     [h |-> historyMap[d], step |-> i, st |-> "running"]]
       /\ stepMap' = [stepMap EXCEPT ![<<d, i>>] = nrec + 1]

\* Mutant: the entry of stepMap is not deleted.
CompleteStepRecordKeepsKey(d, i, st) ==
  /\ IF stepMap[<<d, i>>] = 0
     THEN UNCHANGED recs
     ELSE recs' = [recs EXCEPT ![stepMap[<<d, i>>]].st = st]
  /\ UNCHANGED <<nrec, stepMap>>

\* Mutant: every record of the execution is updated.
CompleteStepRecordByHistory(d, i, st) ==
  /\ recs' = [r \in RecId |-> IF stepMap[<<d, i>>] # 0 /\ recs[r].h = recs[stepMap[<<d, i>>]].h
                              THEN [recs[r] EXCEPT !.st = st] ELSE recs[r]]
  /\ stepMap' = [stepMap EXCEPT ![<<d, i>>] = 0]
  /\ UNCHANGED nrec

CompleteStepRecord(d, i, st) ==
  /\ IF stepMap[<<d, i>>] = 0
     THEN UNCHANGED recs
     ELSE recs' = [recs EXCEPT ![stepMap[<<d, i>>]].st = st]
  /\ stepMap' = [stepMap EXCEPT ![<<d, i>>] = 0]
  /\ UNCHANGED nrec

-----------------------------------------------------------------------------
(* The poll of one device: tick, processDevice, handleStepResult,            *)
(* handleFlowComplete.                                                       *)

Goto(l, pc) == loop' = [loop EXCEPT ![l].pc = pc]
Done(l) == loop' = [loop EXCEPT ![l] = Taking(@)]

AtEnd(c) == Found(c.rpa) /\ c.step >= Len(flow[c.rpa].steps)

\* Another tick of the ticker: the rows that are running are copied.  (MaxRound
\* stops the ticker here: a goroutine is never stuck half way through a tick.)
Tick(l) ==
  /\ loop[l].pc = "wait"
  /\ Quiet => \A r \in Req : req[r].pc = "idle"
  /\ LET R == {d \in Device : row[d].status = "running"} IN
     /\ \A d \in R : row[d].mode = "loop" /\ AtEnd(row[d]) => row[d].loops < MaxRound
     /\ loop' = [loop EXCEPT ![l].pc = "take", ![l].todo = R,
                             ![l].snap = [d \in Device |-> IF d \in R THEN row[d] ELSE NoRow]]
  /\ UNCHANGED <<row, flow, histVars, stepVars, ctlVars, req, starts, envVars>>

\* The tick is over: the select is entered again, on the channel in e.stopCh now.
EnterSelect(l) ==
  /\ loop[l].pc = "take" /\ loop[l].todo = {}
  /\ loop' = [loop EXCEPT ![l] = Select(stopCh)]
  /\ UNCHANGED <<row, flow, histVars, stepVars, ctlVars, req, starts, envVars>>

\* When the ticker is ready too the select may still choose the tick.
ExitLoop(l) ==
  /\ loop[l].pc = "wait" /\ Closed(loop[l].ch)
  /\ loop' = [loop EXCEPT ![l] = NoLoop]
  /\ UNCHANGED <<row, flow, histVars, stepVars, ctlVars, req, starts, envVars>>

\* The loop variable of the range over the snapshot, and where it goes next.
Take(l, d, pc) ==
  loop' = [loop EXCEPT ![l].pc = pc, ![l].todo = @ \ {d}, ![l].d = d,
                       ![l].cfg = loop[l].snap[d], ![l].snap[d] = NoRow]

\* The flow is gone, or the type of the step is not registered: SetDeviceError.
ProcessBroken(l, d) ==
  /\ loop[l].pc = "take" /\ d \in loop[l].todo
  /\ LET c == loop[l].snap[d] IN
     \/ ~Found(c.rpa)
     \/ /\ Found(c.rpa)
        /\ c.step < Len(flow[c.rpa].steps)
        /\ flow[c.rpa].steps[c.step + 1] = "bad"
  /\ Take(l, d, "setError")
  /\ UNCHANGED <<row, flow, histVars, stepVars, ctlVars, req, starts, envVars>>

\* A flow with no steps: SetDeviceCompleted, the history is left alone.
ProcessEmpty(l, d) ==
  /\ loop[l].pc = "take" /\ d \in loop[l].todo
  /\ LET c == loop[l].snap[d] IN Found(c.rpa) /\ flow[c.rpa].steps = <<>>
  /\ Take(l, d, "doneR")
  /\ UNCHANGED <<row, flow, histVars, stepVars, ctlVars, req, starts, envVars>>

\* All steps are behind: handleFlowComplete closes the history first.
ProcessAtEnd(l, d) ==
  /\ loop[l].pc = "take" /\ d \in loop[l].todo
  /\ LET c == loop[l].snap[d] IN
     /\ AtEnd(c) /\ flow[c.rpa].steps # <<>>
     /\ Take(l, d, IF c.mode = "loop" THEN "loopR" ELSE "doneR")
  /\ CompleteHistory(d, "success")
  /\ UNCHANGED <<row, flow, stepVars, ctlVars, req, starts, envVars>>

\* The step is begun, or polled again; Execute is called.
ProcessStep(l, d) ==
  /\ loop[l].pc = "take" /\ d \in loop[l].todo
  /\ LET c == loop[l].snap[d]
         steps == flow[c.rpa].steps IN
     /\ Found(c.rpa)
     /\ c.step < Len(steps)
     /\ steps[c.step + 1] # "bad"
     /\ IF c.sub = 0 THEN StartStepRecord(d, c.step) ELSE UNCHANGED stepVars
     /\ loop' = [loop EXCEPT ![l].pc = "exec", ![l].todo = @ \ {d}, ![l].d = d,
                             ![l].cfg = c, ![l].snap[d] = NoRow,
                             ![l].n = Len(steps), ![l].kind = steps[c.step + 1]]
  /\ UNCHANGED <<row, flow, histVars, ctlVars, req, starts, envVars>>

\* Where a successful step leads: the next step, skipNext, jumpToStep.
NextSteps(g) ==
  {g.cfg.step + 1}
    \cup IF g.kind = "steer" THEN {g.cfg.step + 2} \cup 0 .. g.n - 1 ELSE {}

\* Execute returned Completed and Success.  The directives are taken from the
\* output of any step type (stopFlow stops with stopSuccess only); an output
\* that has them is taken to have something to save beside them.
ExecSuccess(l) ==
  /\ loop[l].pc = "exec"
  /\ CompleteStepRecord(loop[l].d, loop[l].cfg.step, "success")
  /\ \E nx \in NextSteps(loop[l]), stop \in BOOLEAN :
       LET after == IF stop THEN "doneR" ELSE "progress" IN
       /\ stop => loop[l].kind = "steer" /\ nx = loop[l].cfg.step + 1
       /\ loop' = [loop EXCEPT ![l].next = nx, ![l].goto = after,
                     ![l].pc = IF loop[l].kind = "act" THEN after ELSE "mergeR"]
  /\ UNCHANGED <<row, flow, histVars, ctlVars, req, starts, envVars>>

\* Mutant: a failed step closes the history before its own record.
ExecFailSwapped(l) ==
  /\ loop[l].pc = "exec"
  /\ row' = [row EXCEPT ![loop[l].d].status = "error"]
  /\ CompleteHistory(loop[l].d, "failed")
  /\ Goto(l, "failStep")
  /\ UNCHANGED <<flow, stepVars, ctlVars, req, starts, envVars>>

\* Mutant: the outcome of an execution is written where a device status belongs.
ExecFailWrongStatus(l) ==
  /\ loop[l].pc = "exec"
  /\ row' = [row EXCEPT ![loop[l].d].status = "failed"]
  /\ Goto(l, "failStep")
  /\ UNCHANGED <<flow, histVars, stepVars, ctlVars, req, starts, envVars>>

\* Execute returned Completed and not Success: SetDeviceError.
ExecFail(l) ==
  /\ loop[l].pc = "exec"
  /\ row' = [row EXCEPT ![loop[l].d].status = "error"]
  /\ Goto(l, "failStep")
  /\ UNCHANGED <<flow, histVars, stepVars, ctlVars, req, starts, envVars>>

\* Mutant: the deadline is never looked at.
ExecPendingForever(l) ==
  LET c == loop[l].cfg IN
  /\ loop[l].pc = "exec"
  /\ row' = [row EXCEPT ![loop[l].d].step = c.step, ![loop[l].d].sub = 1]
  /\ Done(l)
  /\ UNCHANGED <<flow, histVars, stepVars, ctlVars, req, starts, envVars>>

\* Execute returned not Completed: the sub-step and the context are stored.
ExecPending(l) ==
  LET c == loop[l].cfg IN
  /\ loop[l].pc = "exec"
  /\ c.sub < MaxPoll
  /\ row' = [row EXCEPT ![loop[l].d].step = c.step, ![loop[l].d].sub = c.sub + 1]
  /\ Done(l)
  /\ UNCHANGED <<flow, histVars, stepVars, ctlVars, req, starts, envVars>>

\* MergeFlowVariables: the stored variables are read ...
MergeRead(l) ==
  /\ loop[l].pc = "mergeR"
  /\ loop' = [loop EXCEPT ![l].pc = "mergeW", ![l].row = row[loop[l].d]]
  /\ UNCHANGED <<row, flow, histVars, stepVars, ctlVars, req, starts, envVars>>

\* ... and written back with the step's output.
MergeWrite(l) ==
  LET c == loop[l].cfg IN
  /\ loop[l].pc = "mergeW"
  /\ row' = [row EXCEPT ![loop[l].d].vars = loop[l].row.vars \cup {<<c.run, c.step>>}]
  /\ loop' = [loop EXCEPT ![l].pc = loop[l].goto, ![l].row = NoRow]
  /\ UNCHANGED <<flow, histVars, stepVars, ctlVars, req, starts, envVars>>

\* Mutant: the step that was done is stored again.
ProgressStays(l) ==
  /\ loop[l].pc = "progress"
  /\ row' = [row EXCEPT ![loop[l].d].step = loop[l].cfg.step, ![loop[l].d].sub = 0]
  /\ Done(l)
  /\ UNCHANGED <<flow, histVars, stepVars, ctlVars, req, starts, envVars>>

\* UpdateDeviceProgress: the progress columns only, whatever the status is now.
Progress(l) ==
  /\ loop[l].pc = "progress"
  /\ row' = [row EXCEPT ![loop[l].d].step = loop[l].next, ![loop[l].d].sub = 0]
  /\ Done(l)
  /\ UNCHANGED <<flow, histVars, stepVars, ctlVars, req, starts, envVars>>

FailStep(l) ==
  /\ loop[l].pc = "failStep"
  /\ CompleteStepRecord(loop[l].d, loop[l].cfg.step, "failed")
  /\ Goto(l, "failHist")
  /\ UNCHANGED <<row, flow, histVars, ctlVars, req, starts, envVars>>

FailHist(l) ==
  /\ loop[l].pc = "failHist"
  /\ CompleteHistory(loop[l].d, "failed")
  /\ Done(l)
  /\ UNCHANGED <<row, flow, stepVars, ctlVars, req, starts, envVars>>

\* SetDeviceError for a flow or a step type that does not exist.
SetDeviceError(l) ==
  /\ loop[l].pc = "setError"
  /\ row' = [row EXCEPT ![loop[l].d].status = "error"]
  /\ Done(l)
  /\ UNCHANGED <<flow, histVars, stepVars, ctlVars, req, starts, envVars>>

\* SetDeviceCompleted and IncrementLoopCount: the row is read ...
ReadRow(l, from, to) ==
  /\ loop[l].pc = from
  /\ loop' = [loop EXCEPT ![l].pc = to, ![l].row = row[loop[l].d]]
  /\ UNCHANGED <<row, flow, histVars, stepVars, ctlVars, req, starts, envVars>>

CompletedRead(l) == ReadRow(l, "doneR", "doneW")
LoopCountRead(l) == ReadRow(l, "loopR", "loopW")

\* Mutant: the status is left as it was read.
CompletedSaveNoStatus(l) ==
  /\ loop[l].pc = "doneW"
  /\ row' = [row EXCEPT ![loop[l].d] = loop[l].row]
  /\ Done(l)
  /\ UNCHANGED <<flow, histVars, stepVars, ctlVars, req, starts, envVars>>

\* ... and saved as a whole.
CompletedSave(l) ==
  /\ loop[l].pc = "doneW"
  /\ row' = [row EXCEPT ![loop[l].d] = [loop[l].row EXCEPT !.status = "completed"]]
  /\ Done(l)
  /\ UNCHANGED <<flow, histVars, stepVars, ctlVars, req, starts, envVars>>

LoopCountSave(l) ==
  /\ loop[l].pc = "loopW"
  /\ row' = [row EXCEPT ![loop[l].d] = [loop[l].row EXCEPT !.loops = @ + 1]]
  /\ loop' = [loop EXCEPT ![l].pc = "loopRewind", ![l].row = NoRow]
  /\ UNCHANGED <<flow, histVars, stepVars, ctlVars, req, starts, envVars>>

LoopRewind(l) ==
  /\ loop[l].pc = "loopRewind"
  /\ row' = [row EXCEPT ![loop[l].d].step = 0, ![loop[l].d].sub = 0]
  /\ Goto(l, "loopHist")
  /\ UNCHANGED <<flow, histVars, stepVars, ctlVars, req, starts, envVars>>

LoopHistory(l) ==
  /\ loop[l].pc = "loopHist"
  /\ StartHistory(loop[l].d)
  /\ Done(l)
  /\ UNCHANGED <<row, flow, stepVars, ctlVars, req, starts, envVars>>

-----------------------------------------------------------------------------
(* The HTTP handlers.                                                        *)

\* A call of op, by a handler of its own.
Call(op) == used < MaxReq /\ op \in Ops /\ used' = used + 1 /\ boot' = boot
MayOverlap ==
  Quiet => /\ \A r \in Req : req[r].pc = "idle"
           /\ \A l \in Loop : loop[l].pc \in {"wait", "off"}
Begin(r, op) == Call(op) /\ MayOverlap /\ req[r].pc = "idle"

Reply(r) == req' = [req EXCEPT ![r] = NoReq]

\* UPDATE ... WHERE device_id = d: nothing happens when there is no such row.
SetColumns(d, new) ==
  row' = IF row[d].status = "none" THEN row ELSE [row EXCEPT ![d] = new]

\* bindDeviceRpa: SetDeviceRpa reads the row, or creates it ...
BindRead(r, d, f, m) ==
  LET old == IF row[d].status = "none" THEN [NoRow EXCEPT !.status = "idle"] ELSE row[d] IN
  /\ Begin(r, "bind")
  /\ row' = [row EXCEPT ![d] = old]
  /\ req' = [req EXCEPT ![r] =
       [pc |-> "bindW", d |-> d,
        row |-> [old EXCEPT !.rpa = f, !.mode = m, !.status = "idle", !.step = 0,
                            !.sub = 0, !.loops = 0]]]
  /\ UNCHANGED <<flow, histVars, stepVars, ctlVars, loop, starts>>

\* ... and saves it as a whole.
BindSave(r) ==
  /\ req[r].pc = "bindW"
  /\ row' = [row EXCEPT ![req[r].d] = req[r].row]
  /\ Reply(r)
  /\ UNCHANGED <<flow, histVars, stepVars, ctlVars, loop, starts, envVars>>

\* Mutant: the executions left over are not cancelled.
StartCancelSkipped(r, d) ==
  /\ Begin(r, "start")
  /\ req' = [req EXCEPT ![r] = [NoReq EXCEPT !.pc = "startR", !.d = d]]
  /\ UNCHANGED <<row, flow, histVars, stepVars, ctlVars, loop, starts>>

\* startDevice: CancelRunningExecutions first.
StartCancel(r, d) ==
  /\ Begin(r, "start")
  /\ hist' = [h \in HistId |-> IF hist[h].dev = d /\ hist[h].st = "running"
                               THEN [hist[h] EXCEPT !.st = "cancelled"] ELSE hist[h]]
  /\ req' = [req EXCEPT ![r] = [NoReq EXCEPT !.pc = "startR", !.d = d]]
  /\ UNCHANGED <<row, flow, nhist, historyMap, stepVars, ctlVars, loop, starts>>

\* Mutant: the variables of the last run are kept.
StartReadKeepsVars(r) ==
  LET old == row[req[r].d] IN
  /\ req[r].pc = "startR"
  /\ IF old.status = "none"
     THEN /\ req' = [req EXCEPT ![r].pc = "startHist"]
          /\ UNCHANGED starts
     ELSE /\ starts' = starts + 1
          /\ req' = [req EXCEPT ![r].pc = "startW",
               ![r].row = [old EXCEPT !.status = "running", !.step = 0, !.sub = 0,
                                      !.run = starts + 1]]
  /\ UNCHANGED <<row, flow, histVars, stepVars, ctlVars, loop, envVars>>

\* StartDevice reads the row; without one it returns nil and the handler goes on.
StartRead(r) ==
  LET old == row[req[r].d] IN
  /\ req[r].pc = "startR"
  /\ IF old.status = "none"
     THEN /\ req' = [req EXCEPT ![r].pc = "startHist"]
          /\ UNCHANGED starts
     ELSE /\ starts' = starts + 1
          /\ req' = [req EXCEPT ![r].pc = "startW",
               ![r].row = [old EXCEPT !.status = "running", !.step = 0, !.sub = 0,
                                      !.run = starts + 1, !.vars = {}]]
  /\ UNCHANGED <<row, flow, histVars, stepVars, ctlVars, loop, envVars>>

StartSave(r) ==
  /\ req[r].pc = "startW"
  /\ row' = [row EXCEPT ![req[r].d] = req[r].row]
  /\ req' = [req EXCEPT ![r].pc = "startHist", ![r].row = NoRow]
  /\ UNCHANGED <<flow, histVars, stepVars, ctlVars, loop, starts, envVars>>

\* The handler reads the row and the flow again and opens an execution.
StartOpen(r) ==
  /\ req[r].pc = "startHist"
  /\ IF Found(row[req[r].d].rpa)
     THEN StartHistory(req[r].d)
     ELSE UNCHANGED histVars
  /\ Reply(r)
  /\ UNCHANGED <<row, flow, stepVars, ctlVars, loop, starts, envVars>>

\* pauseDevice and resumeDevice: the status column, whatever its value was.
Pause(d) ==
  /\ Call("pause") /\ MayOverlap
  /\ SetColumns(d, [row[d] EXCEPT !.status = "paused"])
  /\ UNCHANGED <<flow, histVars, stepVars, ctlVars, loop, req, starts>>

Resume(d) ==
  /\ Call("resume") /\ MayOverlap
  /\ SetColumns(d, [row[d] EXCEPT !.status = "running"])
  /\ UNCHANGED <<flow, histVars, stepVars, ctlVars, loop, req, starts>>

\* stopDevice: the open execution is cancelled ...
StopHistory(r, d) ==
  /\ Begin(r, "stop")
  /\ CompleteHistory(d, "cancelled")
  /\ req' = [req EXCEPT ![r] = [NoReq EXCEPT !.pc = "stopW", !.d = d]]
  /\ UNCHANGED <<row, flow, stepVars, ctlVars, loop, starts>>

\* ... and then the device is made idle.
StopSave(r) ==
  LET d == req[r].d IN
  /\ req[r].pc = "stopW"
  /\ SetColumns(d, [row[d] EXCEPT !.status = "idle", !.step = 0, !.sub = 0])
  /\ Reply(r)
  /\ UNCHANGED <<flow, histVars, stepVars, ctlVars, loop, starts, envVars>>

\* createFlow, importFlow and updateFlow (db.Save inserts a row that is gone).
SaveFlow(f, steps) ==
  /\ Call("saveFlow") /\ MayOverlap
  /\ flow' = [flow EXCEPT ![f] = [live |-> TRUE, steps |-> steps]]
  /\ UNCHANGED <<row, histVars, stepVars, ctlVars, loop, req, starts>>

DeleteFlow(f) ==
  /\ Call("deleteFlow") /\ MayOverlap
  /\ flow' = [flow EXCEPT ![f].live = FALSE]
  /\ UNCHANGED <<row, histVars, stepVars, ctlVars, loop, req, starts>>

\* Engine.Start: refused while running; else a new channel ...
StartEngine(r) ==
  /\ Begin(r, "startEngine")
  /\ running' = TRUE
  /\ stopCh' = IF running THEN stopCh ELSE stopCh + 1
  /\ req' = IF running THEN req ELSE [req EXCEPT ![r].pc = "goLoop"]
  /\ UNCHANGED <<row, flow, histVars, stepVars, loop, starts>>

\* Mutant: no goroutine is started.
StartLoopNone(r, l) ==
  /\ req[r].pc = "goLoop"
  /\ Reply(r)
  /\ UNCHANGED <<row, flow, histVars, stepVars, ctlVars, loop, starts, envVars>>

\* ... and, the lock released, a new goroutine.
StartLoop(r, l) ==
  /\ req[r].pc = "goLoop" /\ loop[l].pc = "off"
  /\ loop' = [loop EXCEPT ![l] = Beginning(stopCh)]
  /\ Reply(r)
  /\ UNCHANGED <<row, flow, histVars, stepVars, ctlVars, starts, envVars>>

\* Engine.Stop closes the channel, unlocks, and waits for the goroutines.
StopEngine(r) ==
  /\ Begin(r, "stopEngine")
  /\ running' = FALSE /\ stopCh' = stopCh
  /\ req' = IF running THEN [req EXCEPT ![r].pc = "wgWait"] ELSE req
  /\ UNCHANGED <<row, flow, histVars, stepVars, loop, starts>>

StopEngineWait(r) ==
  /\ req[r].pc = "wgWait"
  /\ \A l \in Loop : loop[l].pc = "off"
  /\ Reply(r)
  /\ UNCHANGED <<row, flow, histVars, stepVars, ctlVars, loop, starts, envVars>>

-----------------------------------------------------------------------------
(* The process dies and main starts it again, the engine with it: the        *)
(* database stays, the maps and every goroutine are lost.                    *)

Boot(l) == [k \in Loop |-> IF k = l THEN Beginning(1) ELSE NoLoop]

Crash(l) ==
  /\ boot <= MaxCrash
  /\ boot' = boot + 1
  /\ historyMap' = [d \in Device |-> 0]
  /\ stepMap' = [k \in Device \X StepIdx |-> 0]
  /\ running' = TRUE /\ stopCh' = 1
  /\ loop' = Boot(l)
  /\ req' = [r \in Req |-> NoReq]
  /\ UNCHANGED <<row, flow, hist, nhist, recs, nrec, starts, used>>

\* A first start, over devices that are new or were bound before.
BoundRow(f, m) == [NoRow EXCEPT !.status = "idle", !.rpa = f, !.mode = m]
FirstRow == {NoRow} \cup {BoundRow(f, m) : f \in Flow, m \in Mode}

Init ==
  /\ row \in [Device -> FirstRow]
  /\ flow \in [Flow -> [live : {TRUE}, steps : FlowDefs]]
  /\ hist = [h \in HistId |-> NoHist] /\ nhist = 0
  /\ recs = [r \in RecId |-> NoRec] /\ nrec = 0
  /\ historyMap = [d \in Device |-> 0]
  /\ stepMap = [k \in Device \X StepIdx |-> 0]
  /\ running = TRUE /\ stopCh = 1
  /\ \E l \in Loop : loop = Boot(l)
  /\ req = [r \in Req |-> NoReq]
  /\ starts = 0 /\ used = 0 /\ boot = 1

Poll(l) ==
  \/ Tick(l) \/ EnterSelect(l) \/ ExitLoop(l)
  \/ \E d \in Device : ProcessBroken(l, d) \/ ProcessEmpty(l, d)
                       \/ ProcessAtEnd(l, d) \/ ProcessStep(l, d)
  \/ ExecSuccess(l) \/ ExecFail(l) \/ ExecPending(l)
  \/ MergeRead(l) \/ MergeWrite(l) \/ Progress(l)
  \/ FailStep(l) \/ FailHist(l) \/ SetDeviceError(l)
  \/ CompletedRead(l) \/ CompletedSave(l)
  \/ LoopCountRead(l) \/ LoopCountSave(l) \/ LoopRewind(l) \/ LoopHistory(l)

\* The rest of a handler that has begun.
Handle(r) == BindSave(r) \/ StartRead(r) \/ StartSave(r) \/ StartOpen(r)
             \/ StopSave(r) \/ StopEngineWait(r)
             \/ \E l \in Loop : StartLoop(r, l)

Request ==
  \/ \E r \in Req, d \in Device :
       \/ \E f \in Flow, m \in Mode : BindRead(r, d, f, m)
       \/ StartCancel(r, d) \/ StopHistory(r, d)
  \/ \E d \in Device : Pause(d) \/ Resume(d)
  \/ \E f \in Flow : DeleteFlow(f) \/ \E s \in FlowDefs : SaveFlow(f, s)
  \/ \E r \in Req : StartEngine(r) \/ StopEngine(r)

Next == \/ \E l \in Loop : Poll(l) \/ Crash(l)
        \/ \E r \in Req : Handle(r)
        \/ Request

Spec == Init /\ [][Next]_vars

\* The scheduler runs every goroutine, the ticker fires, and an executor comes
\* back (its HTTP calls and waits have deadlines); a closed channel wins the
\* select in the end.
Fairness == /\ \A l \in Loop : WF_vars(Poll(l)) /\ SF_vars(ExitLoop(l))
            /\ \A r \in Req : WF_vars(Handle(r))
FairSpec == Spec /\ Fairness

-----------------------------------------------------------------------------
LoopRow == [pc : LoopPC, ch : Nat, todo : SUBSET Device, snap : [Device -> Row],
            d : Device \cup {NoDevice}, cfg : Row, n : Nat, kind : Kind,
            next : Nat, goto : {"take", "progress", "doneR"}, row : Row]
ReqRow == [pc : ReqPC, d : Device \cup {NoDevice}, row : Row]

\* Every variable has its type: rows, tables, maps, and what goroutines hold.
TypeOK ==
  /\ row \in [Device -> Row]
  /\ flow \in [Flow -> FlowRow]
  /\ hist \in [HistId -> HistRow] /\ nhist \in 0 .. MaxHist
  /\ recs \in [RecId -> RecRow] /\ nrec \in 0 .. MaxRec
  /\ historyMap \in [Device -> 0 .. MaxHist]
  /\ stepMap \in [Device \X StepIdx -> 0 .. MaxRec]
  /\ running \in BOOLEAN /\ stopCh \in Nat
  /\ loop \in [Loop -> LoopRow]
  /\ req \in [Req -> ReqRow]
  /\ starts \in Nat /\ used \in 0 .. MaxReq /\ boot \in Nat

\* historyMap points at the newest execution of its device, written by this
\* process: StartHistory replaces an entry that a racing start, or a stop that
\* lost its race with a new round, has left behind.
LiveHistoryIsNewest ==
  \A d \in Device : LET h == historyMap[d] IN h # 0 =>
    /\ h <= nhist /\ hist[h].dev = d /\ hist[h].boot = boot
    /\ \A k \in h + 1 .. nhist : hist[k].dev # d

\* An execution of this process that still reads "running" is either the one
\* historyMap will close, or has been superseded: CompleteHistory never lets
\* go of an execution it has not closed.
RunningHistoryOwned ==
  \A h \in 1 .. nhist :
    /\ hist[h].st = "running" /\ hist[h].boot = boot
    /\ \A k \in h + 1 .. nhist : hist[k].dev # hist[h].dev
    => historyMap[hist[h].dev] = h

\* A key of stepMap leads to a record that is open, of that step of that
\* device: a late CompleteStepRecord cannot close a record twice.
OpenStepRecord ==
  \A d \in Device, i \in StepIdx : LET r == stepMap[<<d, i>>] IN r # 0 =>
    /\ r <= nrec /\ recs[r].st = "running" /\ recs[r].step = i
    /\ recs[r].h \in 1 .. nhist /\ hist[recs[r].h].dev = d

\* Once a step record reads success or failed, no poll, stop, restart or
\* second handler ever changes it.
StepRecordFinal ==
  [][\A r \in RecId : recs[r].st \in {"success", "failed"} => recs'[r] = recs[r]]_recs

\* A poll makes a device run again only when it ends a round of loop mode (the
\* whole row that IncrementLoopCount saves): the late writes of every other poll
\* leave a device that was stopped, paused or bound meanwhile at rest.
OnlyRoundsRevive ==
  [][\A l \in Loop : LET d == loop[l].d IN
       (loop'[l] # loop[l] /\ d # NoDevice /\ row'[d].status = "running"
          /\ row[d].status # "running")
       => loop[l].cfg.mode = "loop"]_vars

\* While IsRunning answers true, some goroutine polls and will go on polling
\* (it is not in a select on a channel that is closed), or is about to.
EngineAlive ==
  running => \/ \E l \in Loop : /\ loop[l].pc # "off"
                                /\ loop[l].pc = "wait" => ~Closed(loop[l].ch)
             \/ \E r \in Req : req[r].pc = "goLoop"

\* The variables a run sees are those its own steps have put out.
OwnVariables == \A d \in Device : \A v \in row[d].vars : v[1] = row[d].run

\* Executions that a crash has left open are closed by the next start of their
\* device, before it opens its own.
NoOrphanAtStart ==
  \A r \in Req : req[r].pc \in {"startR", "startW", "startHist"} =>
    \A h \in 1 .. nhist : hist[h].dev = req[r].d /\ hist[h].boot < boot
                          => hist[h].st # "running"

\* An execution that reads failed counts the step it failed at: the record of
\* the step is closed before the counts are taken.
FailureHasCause ==
  \A h \in 1 .. nhist : hist[h].st = "failed" =>
    hist[h].bad >= 1 /\ RecsOf(h, "failed") # {}

\* At most one execution of a device reads "running".
OneRunningHistory ==
  \A h, k \in 1 .. nhist :
    hist[h].st = "running" /\ hist[k].st = "running" /\ hist[h].dev = hist[k].dev => h = k

\* A device that was stopped does not run again until somebody starts or
\* resumes it.  (A handler's step changes req or used.)
StopSticks ==
  [][req' = req /\ used' = used =>
       \A d \in Device : row[d].status = "idle" => row'[d].status # "running"]_vars

\* A device in single mode does not run for ever: with no step that jumps
\* back, every poll ends, every step ends, and the flow ends, whatever handlers
\* and polls overlap; only an engine that is stopped leaves it running.
RunEnds ==
  \A d \in Device : row[d].status = "running" /\ row[d].mode = "single"
                    ~> row[d].status # "running" \/ row[d].mode = "loop" \/ ~running

\* Engine.Stop stops the engine: a goroutine whose channel it closed, in its
\* select or in the middle of a tick, goes away.
StopStopsEngine ==
  \A l \in Loop : loop[l].pc # "off" /\ Closed(loop[l].ch) ~> loop[l].pc = "off"

\* The handler of a stop is answered, unless the engine is started meanwhile.
StopReturns == \A r \in Req : req[r].pc = "wgWait" ~> req[r].pc = "idle" \/ running

=============================================================================
