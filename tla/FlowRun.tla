------------------------------- MODULE FlowRun -------------------------------
(***************************************************************************)
(* What the RPA engine promises to the user of one device after another:   *)
(* a run of a flow goes from step to step, ends in one of the ways the      *)
(* history records, and obeys start, pause, resume and stop at once.        *)
(* RpaEngine implements it as long as no handler overlaps a poll            *)
(* (RpaRefinement); what becomes of it when they do is what the runs on     *)
(* overlapping handlers show.                                               *)
(***************************************************************************)
EXTENDS Naturals

CONSTANTS Device, Flow, NoRpa,
          Length    \* the numbers of steps a flow may have

Status == {"none", "idle", "running", "paused", "error", "completed"}
Outcome == {"none", "running", "success", "failed", "cancelled"}

VARIABLES
  run,     \* device -> its status, mode, flow, step, rounds done, and the
           \* outcome of its last execution
  length   \* flow -> number of steps

runVars == <<run, length>>

Run == [status : Status, mode : {"single", "loop"}, rpa : Flow \cup {NoRpa},
        step : Nat, rounds : Nat, outcome : Outcome]

\* An execution that is open ends as o; one that is closed keeps its outcome.
Close(o, outcome) == IF outcome = "running" THEN o ELSE outcome

Change(d, new) == run' = [run EXCEPT ![d] = new] /\ UNCHANGED length

Bind(d, f, m) ==
  Change(d, [run[d] EXCEPT !.status = "idle", !.mode = m, !.rpa = f,
                           !.step = 0, !.rounds = 0])

\* A start cancels the execution that is open and opens another one.
Start(d) ==
  /\ run[d].status # "none"
  /\ Change(d, [run[d] EXCEPT !.status = "running", !.step = 0,
                  !.outcome = IF run[d].rpa \in Flow THEN "running"
                              ELSE Close("cancelled", @)])

Pause(d) == run[d].status # "none" /\ Change(d, [run[d] EXCEPT !.status = "paused"])
Resume(d) == run[d].status # "none" /\ Change(d, [run[d] EXCEPT !.status = "running"])

Stop(d) ==
  /\ run[d].status # "none"
  /\ Change(d, [run[d] EXCEPT !.status = "idle", !.step = 0,
                              !.outcome = Close("cancelled", @)])

\* The steps of a run.
Running(d) == run[d].status = "running"
AtEnd(d) == Running(d) /\ run[d].rpa \in Flow /\ run[d].step >= length[run[d].rpa]
AtStep(d) == Running(d) /\ run[d].rpa \in Flow /\ run[d].step < length[run[d].rpa]

Advance(d) == AtStep(d) /\ Change(d, [run[d] EXCEPT !.step = @ + 1])

Fail(d) ==
  AtStep(d) /\ Change(d, [run[d] EXCEPT !.status = "error",
                                        !.outcome = Close("failed", @)])

Finish(d) ==
  /\ AtEnd(d) /\ run[d].mode = "single"
  /\ Change(d, [run[d] EXCEPT !.status = "completed", !.outcome = Close("success", @)])

Round(d) ==
  /\ AtEnd(d) /\ run[d].mode = "loop"
  /\ Change(d, [run[d] EXCEPT !.step = 0, !.rounds = @ + 1, !.outcome = "running"])

\* The steps of a flow are edited.
Edit(f, n) == length' = [length EXCEPT ![f] = n] /\ UNCHANGED run

Step(d) == Advance(d) \/ Fail(d) \/ Finish(d)

Init ==
  /\ run \in [Device -> [status : {"none", "idle"}, mode : {"single", "loop"},
                         rpa : Flow \cup {NoRpa}, step : {0}, rounds : {0},
                         outcome : {"none"}]]
  /\ length \in [Flow -> Length]

Next ==
  \/ \E d \in Device :
       \/ \E f \in Flow, m \in {"single", "loop"} : Bind(d, f, m)
       \/ Start(d) \/ Pause(d) \/ Resume(d) \/ Stop(d)
       \/ Step(d) \/ Round(d)
  \/ \E f \in Flow, n \in Length : Edit(f, n)

\* A run that is not interrupted is carried on.
Spec == Init /\ [][Next]_runVars
FairSpec == Spec /\ \A d \in Device : WF_runVars(Step(d))
=============================================================================
