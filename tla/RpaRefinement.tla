---------------------------- MODULE RpaRefinement ----------------------------
(***************************************************************************)
(* RpaEngine implements FlowRun when no handler overlaps a poll.  The       *)
(* several writes of a handler or of a poll become one step: the mapping    *)
(* shows their result from the first write on.  (Flows are edited but not    *)
(* deleted, have at least one step, and steps are plain ones.)               *)
(***************************************************************************)
EXTENDS MCRpaEngine

\* The newest execution of a device, as its outcome.
LastOutcome(d) ==
  LET H == {h \in 1 .. nhist : hist[h].dev = d} IN
  IF H = {} THEN "none"
  ELSE hist[CHOOSE h \in H : \A k \in H : k <= h].st

Abs(r, outcome) == [status |-> r.status, mode |-> r.mode, rpa |-> r.rpa,
                    step |-> r.step, rounds |-> r.loops, outcome |-> outcome]

\* The row as the handler or the poll that is at work on it will leave it.
Target(d) ==
  LET now == Abs(row[d], LastOutcome(d))
      at(pcs) == \E l \in Loop : loop[l].d = d /\ loop[l].pc \in pcs
      by(pcs) == \E r \in Req : req[r].d = d /\ req[r].pc \in pcs
      started == IF Found(row[d].rpa) THEN "running" ELSE LastOutcome(d)
  IN
  CASE by({"bindW"}) ->
         Abs(req[CHOOSE r \in Req : req[r].d = d /\ req[r].pc = "bindW"].row, LastOutcome(d))
    [] by({"startR", "startW"}) /\ row[d].status # "none" ->
         [now EXCEPT !.status = "running", !.step = 0, !.outcome = started]
    [] by({"startHist"}) -> [now EXCEPT !.outcome = started]
    [] by({"stopW"}) /\ row[d].status # "none" ->
         [now EXCEPT !.status = "idle", !.step = 0]
    [] at({"failStep", "failHist"}) ->
         [now EXCEPT !.outcome = IF historyMap[d] # 0 THEN "failed" ELSE @]
    [] at({"doneR", "doneW"}) -> [now EXCEPT !.status = "completed"]
    [] at({"loopR", "loopW"}) ->
         [now EXCEPT !.step = 0, !.rounds = @ + 1, !.outcome = "running"]
    [] at({"loopRewind"}) -> [now EXCEPT !.step = 0, !.outcome = "running"]
    [] at({"loopHist"}) -> [now EXCEPT !.outcome = "running"]
    [] OTHER -> now

F == INSTANCE FlowRun WITH
       run <- [d \in Device |-> Target(d)],
       length <- [f \in Flow |-> Len(flow[f].steps)],
       Length <- {Len(s) : s \in FlowDefs}

\* Every handler and every poll, taken whole, is a step FlowRun allows.
ImplementsFlowRun == F!Spec

\* A run that nobody interrupts is carried on, step after step, to its end.
ImplementsFairFlowRun == F!FairSpec
=============================================================================
