------------------------ MODULE RpaRefinementProofs ------------------------
(***************************************************************************)
(* RpaEngine implements FlowRun, for every set of devices and flows: each   *)
(* of its steps is, under the mapping of RpaRefinement, a step of FlowRun   *)
(* or none.  Handlers and polls do not overlap, one goroutine polls, the    *)
(* process lives, and flows are plain, have steps and are not deleted; the  *)
(* counterparts of these are what the other runs of RpaEngine explore.      *)
(*                                                                         *)
(* A handler and a poll are several steps of RpaEngine.  The mapping shows   *)
(* what they lead to from their first step that decides it: that step is    *)
(* the step of FlowRun, the others stutter.  RunState says what a goroutine *)
(* half way through may rely on for that.                                   *)
(***************************************************************************)
EXTENDS RpaQuietProofs, RpaRefinement

-----------------------------------------------------------------------------
(* What a step relies on.                                                    *)

\* Flows have steps, of the plain kinds, and are not deleted.
PlainRuns ==
  /\ "deleteFlow" \notin Ops
  /\ \A s \in FlowDefs : s # <<>> /\ \A i \in 1 .. Len(s) : s[i] \in {"act", "out"}

\* A device without a flow is new, or is being bound.
Bound ==
  \A d \in Device : row[d].status # "none" /\ row[d].rpa = NoRpa =>
    \E r \in Req : req[r].pc = "bindW" /\ req[r].d = d

\* A device that has no row never ran.
NoneUnused ==
  \A d \in Device : row[d].status = "none" => \A h \in 1 .. nhist : hist[h].dev # d

\* The row a handler is about to save.
Prepared(q, rows) ==
  /\ q.pc = "bindW" => q.row.rpa \in Flow
  /\ q.pc = "startW" => /\ q.row.status = "running" /\ q.row.step = 0
                        /\ rows[q.d].status # "none"
                        /\ q.row.rpa = rows[q.d].rpa /\ q.row.mode = rows[q.d].mode
                        /\ q.row.loops = rows[q.d].loops

\* The execution historyMap holds is open, but for a start that has cancelled it.
HeldOpen ==
  \A d \in Device : historyMap[d] # 0 =>
    \/ hist[historyMap[d]].st = "running"
    \/ \E r \in Req : req[r].pc \in Starting /\ req[r].d = d

\* A device that has executions has a newest one.
Newest ==
  \A h \in 1 .. nhist : \E k \in 1 .. nhist :
    hist[k].dev = hist[h].dev /\ \A m \in k + 1 .. nhist : hist[m].dev # hist[h].dev

Polling == {"exec", "mergeR", "mergeW", "progress"}

\* The goroutine polls devices that run, at a step their flow has.
OnCourse(g, rows) ==
  /\ g.pc # "setError"
  /\ \A e \in g.todo : rows[e].status = "running"
  /\ g.pc \notin Resting => rows[g.d].status # "none"
  /\ g.pc \in Polling =>
       /\ rows[g.d].status = "running" /\ rows[g.d].rpa \in Flow
       /\ rows[g.d].step = g.cfg.step /\ g.cfg.step < Len(flow[rows[g.d].rpa].steps)
       /\ g.kind \in {"act", "out"}
  /\ g.pc \in Polling \ {"exec"} => g.next = g.cfg.step + 1

RunInv ==
  /\ \A f \in Flow : flow[f].live
  /\ Bound /\ NoneUnused /\ HeldOpen /\ Newest
  /\ \A r \in Req : Prepared(req[r], row)
  /\ \A l \in Loop : OnCourse(loop[l], row)

RunState == CauseState /\ OneInv /\ RunInv

-----------------------------------------------------------------------------
(* The last outcome of a device.                                             *)

\* LastOutcome, of any history.
OutcomeOf(hs, n, d) ==
  LET H == {h \in 1 .. n : hs[h].dev = d} IN
  IF H = {} THEN "none" ELSE hs[CHOOSE h \in H : \A k \in H : k <= h].st

LEMMA OutcomeIs ==
  ASSUME NEW hs, NEW n \in Nat, NEW d, NEW h \in 1 .. n, hs[h].dev = d,
         \A k \in h + 1 .. n : hs[k].dev # d
  PROVE  OutcomeOf(hs, n, d) = hs[h].st
  <1> DEFINE H == {k \in 1 .. n : hs[k].dev = d}
             P(k) == k \in H /\ \A m \in H : m <= k
  <1>1. h \in H /\ \A m \in H : m <= h OBVIOUS
  <1>2. \A k \in H : (\A m \in H : m <= k) => k = h BY <1>1
  <1>3. (CHOOSE k \in H : \A m \in H : m <= k) = h BY <1>1, <1>2
  <1>4. H # {} BY <1>1
  <1> HIDE DEF H
  <1> QED BY <1>3, <1>4 DEF OutcomeOf, H

LEMMA OutcomeNone ==
  ASSUME NEW hs, NEW n, NEW d, \A h \in 1 .. n : hs[h].dev # d
  PROVE  OutcomeOf(hs, n, d) = "none"
  BY DEF OutcomeOf

LEMMA LastOutcomeOf == \A d : LastOutcome(d) = OutcomeOf(hist, nhist, d)
  BY DEF LastOutcome, OutcomeOf

LEMMA LastOutcomeNext == (\A d : LastOutcome(d) = OutcomeOf(hist, nhist, d))'
  BY LastOutcomeOf, PTL

LEMMA HistBounds ==
  ASSUME TypeInv
  PROVE  /\ nhist \in Nat /\ MaxHist \in Nat /\ nhist <= MaxHist
         /\ \A h \in 1 .. nhist : h \in HistId /\ hist[h] \in HistRow
         /\ \A d \in Device : historyMap[d] \in 0 .. MaxHist
  BY EngineAssumption DEF TypeInv, HistT, HistId

\* Executions of other devices, and those that keep their status.
LEMMA OutcomeFrame ==
  ASSUME RunState, TypeInv', NEW e \in Device, nhist <= nhist',
         \A h \in 1 .. nhist : /\ hist'[h].dev = hist[h].dev
                               /\ hist[h].dev = e => hist'[h].st = hist[h].st,
         \A h \in nhist + 1 .. nhist' : hist'[h].dev # e
  PROVE  LastOutcome(e)' = LastOutcome(e)
  <1>1. nhist \in Nat /\ nhist' \in Nat
    BY HistBounds, EngineAssumption DEF TypeInv, HistT, RunState, CauseState
  <1>2. CASE \A h \in 1 .. nhist : hist[h].dev # e
    <2>1. \A h \in 1 .. nhist' : hist'[h].dev # e BY <1>1, <1>2
    <2> QED BY <1>2, <2>1, OutcomeNone, LastOutcomeOf, LastOutcomeNext
  <1>3. ASSUME NEW h \in 1 .. nhist, hist[h].dev = e PROVE LastOutcome(e)' = LastOutcome(e)
    <2>1. PICK k \in 1 .. nhist : hist[k].dev = e /\ \A m \in k + 1 .. nhist : hist[m].dev # e
      BY <1>3 DEF RunState, RunInv, Newest
    <2>2. OutcomeOf(hist, nhist, e) = hist[k].st BY <1>1, <2>1, OutcomeIs
    <2>3. k \in 1 .. nhist' /\ hist'[k].dev = e /\ hist'[k].st = hist[k].st BY <1>1, <2>1
    <2>4. ASSUME NEW m \in k + 1 .. nhist' PROVE hist'[m].dev # e
      <3>1. m \in k + 1 .. nhist \/ m \in nhist + 1 .. nhist' BY <1>1, <2>1
      <3>2. k + 1 .. nhist \subseteq 1 .. nhist BY <1>1, <2>1
      <3> QED BY <2>1, <3>1, <3>2
    <2>5. OutcomeOf(hist', nhist', e) = hist'[k].st BY <1>1, <2>3, <2>4, OutcomeIs
    <2> QED BY <2>2, <2>3, <2>5, LastOutcomeOf, LastOutcomeNext
  <1> QED BY <1>2, <1>3

\* The last outcome is "running" while historyMap holds an execution.
LEMMA OutcomeNow ==
  ASSUME RunState, NEW d \in Device
  PROVE  /\ historyMap[d] = 0 => LastOutcome(d) # "running"
         /\ historyMap[d] # 0 => LastOutcome(d) = hist[historyMap[d]].st
         /\ \A r \in Req : req[r].pc \in Starting /\ req[r].d = d => LastOutcome(d) # "running"
         /\ (\A r \in Req : req[r].pc = "idle") =>
               (historyMap[d] # 0 <=> LastOutcome(d) = "running")
  <1>0. nhist \in Nat /\ TypeInv /\ HistInv BY HistBounds DEF RunState, CauseState
  <1>1. historyMap[d] # 0 => LastOutcome(d) = hist[historyMap[d]].st
    <2> SUFFICES ASSUME historyMap[d] # 0 PROVE LastOutcome(d) = hist[historyMap[d]].st
      OBVIOUS
    <2> DEFINE h == historyMap[d]
    <2>1. h \in 1 .. nhist
      <3>1. h <= nhist BY <1>0 DEF HistInv, LiveHistoryIsNewest
      <3>2. h \in 0 .. MaxHist /\ MaxHist \in Nat BY <1>0, HistBounds
      <3> QED BY <1>0, <3>1, <3>2
    <2>2. hist[h].dev = d /\ \A k \in h + 1 .. nhist : hist[k].dev # d
      BY <1>0 DEF HistInv, LiveHistoryIsNewest
    <2> HIDE DEF h
    <2>3. OutcomeOf(hist, nhist, d) = hist[h].st BY <1>0, <2>1, <2>2, OutcomeIs
    <2> QED BY <2>3, LastOutcomeOf DEF h
  <1>2. LastOutcome(d) = "running" =>
          \E h \in 1 .. nhist : hist[h].dev = d /\ hist[h].st = "running"
    <2>1. CASE \A h \in 1 .. nhist : hist[h].dev # d
      <3>1. LastOutcome(d) = "none" BY <2>1, OutcomeNone, LastOutcomeOf
      <3> QED BY <3>1
    <2>2. ASSUME NEW h \in 1 .. nhist, hist[h].dev = d
          PROVE  \E k \in 1 .. nhist : hist[k].dev = d /\ LastOutcome(d) = hist[k].st
      <3>1. PICK k \in 1 .. nhist : hist[k].dev = d /\ \A m \in k + 1 .. nhist : hist[m].dev # d
        BY <2>2 DEF RunState, RunInv, Newest
      <3>2. OutcomeOf(hist, nhist, d) = hist[k].st BY <1>0, <3>1, OutcomeIs
      <3> QED BY <3>1, <3>2, LastOutcomeOf
    <2> QED BY <2>1, <2>2
  <1>3. LastOutcome(d) = "running" => historyMap[d] # 0
    <2> SUFFICES ASSUME LastOutcome(d) = "running" PROVE historyMap[d] # 0
      OBVIOUS
    <2>1. PICK h \in 1 .. nhist : hist[h].dev = d /\ hist[h].st = "running" BY <1>2
    <2>2. historyMap[d] = h BY <2>1 DEF RunState, OneInv
    <2> QED BY <1>0, <2>2
  <1>4. \A r \in Req : req[r].pc \in Starting /\ req[r].d = d => LastOutcome(d) # "running"
    BY <1>2 DEF RunState, OneInv
  <1>5. (\A r \in Req : req[r].pc = "idle") /\ historyMap[d] # 0 => hist[historyMap[d]].st = "running"
    BY DEF RunState, RunInv, HeldOpen, Starting
  <1> QED BY <1>1, <1>3, <1>4, <1>5

\* What the functions that hold historyMu, and a start, do to the last outcome.
LEMMA Opening ==
  ASSUME RunState, TypeInv', NEW d \in Device, StartHistory(d)
  PROVE  /\ LastOutcome(d)' = "running"
         /\ \A e \in Device : e # d => LastOutcome(e)' = LastOutcome(e)
         /\ Newest'
         /\ hist'[historyMap'[d]].st = "running"
         /\ \A e \in Device : e # d => historyMap'[e] = historyMap[e]
         /\ \A h \in 1 .. nhist : hist'[h] = hist[h]
  <1>0. /\ nhist \in Nat /\ nhist' \in Nat /\ hist \in [HistId -> HistRow]
        /\ historyMap \in [Device -> 0 .. MaxHist]
    BY HistBounds, EngineAssumption DEF TypeInv, HistT, RunState, CauseState
  <1>1. PICK n \in Nat : n = nhist + 1 BY <1>0
  <1> DEFINE R == [NoHist EXCEPT !.dev = d, !.st = "running", !.boot = boot]
  <1>2. /\ n \in HistId /\ nhist' = n /\ hist' = [hist EXCEPT ![n] = R]
        /\ historyMap' = [historyMap EXCEPT ![d] = n]
    BY <1>0, <1>1, EngineAssumption DEF StartHistory, HistId
  <1>3. R.dev = d /\ R.st = "running" BY DEF NoHist
  <1> HIDE DEF R
  <1>4. hist'[n].dev = d /\ hist'[n].st = "running" /\ historyMap'[d] = n BY <1>0, <1>2, <1>3
  <1>5. \A h \in 1 .. nhist : h \in HistId /\ h # n
    BY <1>0, <1>1, HistBounds DEF RunState, CauseState
  <1>6. \A h \in 1 .. nhist : hist'[h] = hist[h] BY <1>0, <1>2, <1>5
  <1>7. LastOutcome(d)' = "running"
    <2>1. \A k \in n + 1 .. nhist' : hist'[k].dev # d
      <3>1. n + 1 .. nhist' = {} BY <1>0, <1>2, <1>1
      <3> QED BY <3>1
    <2>2. nhist' \in Nat /\ n \in 1 .. nhist' /\ hist'[n].dev = d BY <1>0, <1>2, <1>1, <1>4
    <2>3. OutcomeOf(hist', nhist', d) = hist'[n].st BY <2>1, <2>2, OutcomeIs
    <2> QED BY <1>4, <2>3, LastOutcomeNext
  <1>8. ASSUME NEW e \in Device, e # d PROVE LastOutcome(e)' = LastOutcome(e)
    <2>1. \A h \in nhist + 1 .. nhist' : hist'[h].dev # e BY <1>0, <1>2, <1>1, <1>4, <1>8
    <2>2. nhist <= nhist' BY <1>0, <1>2, <1>1
    <2> QED BY <1>6, <2>1, <2>2, OutcomeFrame
  <1>9. Newest'
    <2> SUFFICES ASSUME NEW h \in 1 .. nhist'
                 PROVE  \E k \in 1 .. nhist' : /\ hist'[k].dev = hist'[h].dev
                                               /\ \A m \in k + 1 .. nhist' : hist'[m].dev # hist'[h].dev
      BY DEF Newest
    <2>1. CASE hist'[h].dev = d
      <3>1. n \in 1 .. nhist' /\ n + 1 .. nhist' = {} BY <1>0, <1>2, <1>1
      <3> QED BY <1>4, <2>1, <3>1
    <2>2. CASE hist'[h].dev # d
      <3>1. h \in 1 .. nhist BY <1>0, <1>2, <1>1, <1>4, <2>2
      <3>2. PICK k \in 1 .. nhist :
              hist[k].dev = hist[h].dev /\ \A m \in k + 1 .. nhist : hist[m].dev # hist[h].dev
        BY <3>1 DEF RunState, RunInv, Newest
      <3>3. k \in 1 .. nhist' /\ hist'[k].dev = hist'[h].dev BY <1>0, <1>2, <1>1, <1>6, <3>1, <3>2
      <3>4. ASSUME NEW m \in k + 1 .. nhist' PROVE hist'[m].dev # hist'[h].dev
        <4>1. m = n \/ (m \in k + 1 .. nhist /\ m \in 1 .. nhist) BY <1>0, <1>2, <1>1, <3>2
        <4> QED BY <1>4, <1>6, <2>2, <3>1, <3>2, <4>1
      <3> QED BY <3>3, <3>4
    <2> QED BY <2>1, <2>2
  <1>10. \A e \in Device : e # d => historyMap'[e] = historyMap[e] BY <1>0, <1>2
  <1> QED BY <1>4, <1>6, <1>7, <1>8, <1>9, <1>10

LEMMA NewestKept ==
  ASSUME RunState, nhist' = nhist, \A h \in 1 .. nhist : hist'[h].dev = hist[h].dev
  PROVE  Newest'
  <1> SUFFICES ASSUME NEW h \in 1 .. nhist
               PROVE  \E k \in 1 .. nhist : /\ hist'[k].dev = hist'[h].dev
                                            /\ \A m \in k + 1 .. nhist : hist'[m].dev # hist'[h].dev
    BY DEF Newest
  <1>0. nhist \in Nat BY HistBounds DEF RunState, CauseState
  <1>1. PICK k \in 1 .. nhist :
          hist[k].dev = hist[h].dev /\ \A m \in k + 1 .. nhist : hist[m].dev # hist[h].dev
    BY DEF RunState, RunInv, Newest
  <1>2. \A m \in k + 1 .. nhist : m \in 1 .. nhist BY <1>0, <1>1
  <1> QED BY <1>1, <1>2

LEMMA Closing ==
  ASSUME RunState, TypeInv', NEW d \in Device, NEW st \in Ended, CompleteHistory(d, st)
  PROVE  /\ LastOutcome(d)' = IF historyMap[d] = 0 THEN LastOutcome(d) ELSE st
         /\ \A e \in Device : e # d => LastOutcome(e)' = LastOutcome(e)
         /\ Newest' /\ historyMap'[d] = 0
         /\ \A e \in Device : e # d => /\ historyMap'[e] = historyMap[e]
                                       /\ historyMap[e] # 0 =>
                                            hist'[historyMap[e]].st = hist[historyMap[e]].st
  <1>0. /\ nhist \in Nat /\ hist \in [HistId -> HistRow] /\ nhist' = nhist
        /\ historyMap \in [Device -> 0 .. MaxHist] /\ historyMap' = [historyMap EXCEPT ![d] = 0]
    BY HistBounds, EngineAssumption DEF TypeInv, HistT, RunState, CauseState, CompleteHistory
  <1>1. \A h \in 1 .. nhist : h \in HistId /\ hist[h] \in HistRow
    BY HistBounds DEF RunState, CauseState
  <1>2. historyMap'[d] = 0 /\ \A e \in Device : e # d => historyMap'[e] = historyMap[e] BY <1>0
  <1>3. CASE historyMap[d] = 0
    <2>1. hist' = hist BY <1>3 DEF CompleteHistory
    <2>2. \A e \in Device : LastOutcome(e)' = LastOutcome(e) BY <1>0, <2>1 DEF LastOutcome
    <2>3. Newest' BY <1>0, <2>1, NewestKept
    <2> QED BY <1>2, <1>3, <2>1, <2>2, <2>3
  <1>4. CASE historyMap[d] # 0
    <2> DEFINE h == historyMap[d]
    <2>1. PICK ok, bad : hist' = [hist EXCEPT ![h].st = st, ![h].ok = ok, ![h].bad = bad]
      BY <1>4 DEF CompleteHistory
    <2>2. h \in 1 .. nhist /\ hist[h].dev = d /\ \A k \in h + 1 .. nhist : hist[k].dev # d
      <3>1. h <= nhist /\ hist[h].dev = d /\ \A k \in h + 1 .. nhist : hist[k].dev # d
        BY <1>4 DEF RunState, CauseState, HistInv, LiveHistoryIsNewest
      <3>2. h \in 0 .. MaxHist BY <1>0
      <3> QED BY <1>0, <1>4, <3>1, <3>2
    <2>3. h \in HistId /\ hist[h] \in HistRow BY <1>1, <2>2
    <2> HIDE DEF h
    <2>4. hist'[h].st = st /\ hist'[h].dev = d BY <1>0, <2>1, <2>2, <2>3 DEF HistRow
    <2>5. \A k \in HistId : k # h => hist'[k] = hist[k] BY <1>0, <2>1, <2>3
    <2>6. LastOutcome(d)' = st
      <3>1. \A k \in h + 1 .. nhist' : hist'[k].dev # d
        <4> SUFFICES ASSUME NEW k \in h + 1 .. nhist PROVE hist'[k].dev # d
          BY <1>0
        <4>1. k \in 1 .. nhist /\ k # h BY <1>0, <2>2
        <4> QED BY <1>1, <2>2, <2>5, <4>1
      <3>2. OutcomeOf(hist', nhist', d) = hist'[h].st BY <1>0, <2>2, <2>4, <3>1, OutcomeIs
      <3> QED BY <2>4, <3>2, LastOutcomeNext
    <2>7. \A k \in 1 .. nhist : hist'[k].dev = hist[k].dev BY <1>1, <2>2, <2>4, <2>5
    <2>8. ASSUME NEW e \in Device, e # d PROVE LastOutcome(e)' = LastOutcome(e)
      <3>1. \A k \in 1 .. nhist : hist[k].dev = e => hist'[k].st = hist[k].st
        BY <1>1, <2>2, <2>5, <2>8
      <3>2. nhist <= nhist' /\ nhist + 1 .. nhist' = {} BY <1>0
      <3> QED BY <2>7, <3>1, <3>2, OutcomeFrame
    <2>9. Newest' BY <1>0, <2>7, NewestKept
    <2>10. ASSUME NEW e \in Device, e # d, historyMap[e] # 0
           PROVE  hist'[historyMap[e]].st = hist[historyMap[e]].st
      <3>1. hist[historyMap[e]].dev = e BY <2>10 DEF RunState, CauseState, HistInv, LiveHistoryIsNewest
      <3>2. historyMap[e] # h BY <2>2, <2>10, <3>1
      <3>3. historyMap[e] \in HistId
        <4>1. historyMap[e] \in 0 .. MaxHist BY <1>0
        <4> QED BY <2>10, <4>1, EngineAssumption DEF HistId
      <3> QED BY <2>5, <3>2, <3>3
    <2> QED BY <1>2, <1>4, <2>6, <2>8, <2>9, <2>10
  <1> QED BY <1>3, <1>4

\* What an open execution becomes at a start or a stop.
Cancelled(outcome) == IF outcome = "running" THEN "cancelled" ELSE outcome

LEMMA Cancelling ==
  ASSUME RunState, TypeInv', \A r \in Req : req[r].pc = "idle", NEW q \in Req, NEW d \in Device,
         StartCancel(q, d)
  PROVE  /\ LastOutcome(d)' = Cancelled(LastOutcome(d))
         /\ \A e \in Device : e # d => LastOutcome(e)' = LastOutcome(e)
         /\ Newest' /\ historyMap' = historyMap
         /\ \A e \in Device : e # d /\ historyMap[e] # 0 =>
              hist'[historyMap[e]].st = hist[historyMap[e]].st
  <1>0. /\ nhist \in Nat /\ hist \in [HistId -> HistRow] /\ nhist' = nhist
        /\ historyMap \in [Device -> 0 .. MaxHist] /\ historyMap' = historyMap
    BY HistBounds DEF TypeInv, HistT, RunState, CauseState, StartCancel
  <1>1. \A h \in 1 .. nhist : h \in HistId /\ hist[h] \in HistRow
    BY HistBounds DEF RunState, CauseState
  <1>2. ASSUME NEW h \in HistId
        PROVE  /\ hist'[h].dev = hist[h].dev
               /\ hist'[h].st = IF hist[h].dev = d /\ hist[h].st = "running" THEN "cancelled"
                                ELSE hist[h].st
    <2>1. PICK c \in HistRow : c = hist[h] BY <1>0
    <2>2. hist'[h] = IF c.dev = d /\ c.st = "running" THEN [c EXCEPT !.st = "cancelled"] ELSE c
      BY <2>1 DEF StartCancel
    <2>3. [c EXCEPT !.st = "cancelled"].dev = c.dev /\ [c EXCEPT !.st = "cancelled"].st = "cancelled"
      BY DEF HistRow
    <2> QED BY <2>1, <2>2, <2>3
  <1>3. ASSUME NEW e \in Device, \A h \in 1 .. nhist : hist[h].dev = e => hist'[h].st = hist[h].st
        PROVE  LastOutcome(e)' = LastOutcome(e)
    <2>1. nhist <= nhist' /\ nhist + 1 .. nhist' = {} BY <1>0
    <2> QED BY <1>1, <1>2, <1>3, <2>1, OutcomeFrame
  <1>4. \A e \in Device : e # d => LastOutcome(e)' = LastOutcome(e) BY <1>1, <1>2, <1>3
  <1>5. LastOutcome(d)' = Cancelled(LastOutcome(d))
    <2>1. CASE historyMap[d] = 0
      <3>1. \A h \in 1 .. nhist : hist[h].dev = d => hist[h].st # "running"
        <4> SUFFICES ASSUME NEW h \in 1 .. nhist, hist[h].dev = d, hist[h].st = "running" PROVE FALSE
          OBVIOUS
        <4>1. historyMap[d] = h BY DEF RunState, OneInv
        <4> QED BY <1>0, <2>1, <4>1
      <3>2. LastOutcome(d)' = LastOutcome(d) BY <1>1, <1>2, <1>3, <3>1
      <3>3. LastOutcome(d) # "running" BY <2>1, OutcomeNow
      <3> QED BY <3>2, <3>3 DEF Cancelled
    <2>2. CASE historyMap[d] # 0
      <3>1. LastOutcome(d) = "running" /\ LastOutcome(d) = hist[historyMap[d]].st
        BY <2>2, OutcomeNow
      <3>2. PICK h : h = historyMap[d] OBVIOUS
      <3>3. h \in 1 .. nhist /\ hist[h].dev = d /\ \A k \in h + 1 .. nhist : hist[k].dev # d
        <4>1. h <= nhist /\ hist[h].dev = d /\ \A k \in h + 1 .. nhist : hist[k].dev # d
          BY <2>2, <3>2 DEF RunState, CauseState, HistInv, LiveHistoryIsNewest
        <4>2. h \in 0 .. MaxHist /\ MaxHist \in Nat BY <1>0, <3>2, EngineAssumption
        <4> QED BY <1>0, <2>2, <3>2, <4>1, <4>2
      <3>4. hist'[h].dev = d /\ hist'[h].st = "cancelled" BY <1>1, <1>2, <3>1, <3>2, <3>3
      <3>5. \A k \in h + 1 .. nhist' : hist'[k].dev # d
        <4> SUFFICES ASSUME NEW k \in h + 1 .. nhist PROVE hist'[k].dev # d
          BY <1>0
        <4>1. k \in 1 .. nhist BY <1>0, <3>3
        <4> QED BY <1>1, <1>2, <3>3, <4>1
      <3>6. OutcomeOf(hist', nhist', d) = hist'[h].st BY <1>0, <3>3, <3>4, <3>5, OutcomeIs
      <3> QED BY <3>1, <3>4, <3>6, LastOutcomeNext DEF Cancelled
    <2> QED BY <2>1, <2>2
  <1>6. Newest' BY <1>0, <1>1, <1>2, NewestKept
  <1>7. ASSUME NEW e \in Device, e # d, historyMap[e] # 0
        PROVE  hist'[historyMap[e]].st = hist[historyMap[e]].st
    <2>1. hist[historyMap[e]].dev = e BY <1>7 DEF RunState, CauseState, HistInv, LiveHistoryIsNewest
    <2>2. historyMap[e] \in HistId
      <3>1. historyMap[e] \in 0 .. MaxHist BY <1>0
      <3> QED BY <1>7, <3>1, EngineAssumption DEF HistId
    <2> QED BY <1>2, <1>7, <2>1, <2>2
  <1> QED BY <1>0, <1>4, <1>5, <1>6, <1>7

-----------------------------------------------------------------------------
(* The mapping, as it shows a device while somebody is at work on it.        *)

WorkPcs == {"failStep", "failHist", "doneR", "doneW", "loopR", "loopW", "loopRewind", "loopHist"}
HandlePcs == {"bindW", "startR", "startW", "startHist", "stopW"}

\* Nobody is between two statements about d that show.
Idle(d) == /\ \A l \in Loop : loop[l].pc \in WorkPcs => loop[l].d # d
           /\ \A r \in Req : req[r].pc \in HandlePcs => req[r].d # d

Show(status, mode, rpa, step, rounds, outcome) ==
  [status |-> status, mode |-> mode, rpa |-> rpa, step |-> step, rounds |-> rounds,
   outcome |-> outcome]

\* The row c, with another status, step, number of rounds and outcome.
ShowRow(c, status, step, rounds, outcome) == Show(status, c.mode, c.rpa, step, rounds, outcome)

Now(d) == ShowRow(row[d], row[d].status, row[d].step, row[d].loops, LastOutcome(d))

\* The outcome a start leaves.
Started(d) == IF Found(row[d].rpa) THEN "running" ELSE LastOutcome(d)

LEMMA TargetIdle == \A d \in Device : Idle(d) => Target(d) = Now(d)
  <1> SUFFICES ASSUME NEW d \in Device, Idle(d) PROVE Target(d) = Now(d)
    OBVIOUS
  <1>1. /\ \A p \in WorkPcs : ~\E l \in Loop : loop[l].d = d /\ loop[l].pc = p
        /\ \A p \in HandlePcs : ~\E r \in Req : req[r].d = d /\ req[r].pc = p
    BY DEF Idle
  <1>2. Target(d) = Abs(row[d], LastOutcome(d)) BY <1>1 DEF Target, WorkPcs, HandlePcs
  <1> QED BY <1>2 DEF Now, Abs, ShowRow, Show

LEMMA TargetIdleNext == (\A d \in Device : Idle(d) => Target(d) = Now(d))'
  BY TargetIdle, PTL

\* A goroutine at work on d.
PollShows(l) ==
  LET d == loop[l].d
      pc == loop[l].pc
      c == row[d]
  IN
  /\ pc \in {"failStep", "failHist"} => Target(d) =
       ShowRow(c, c.status, c.step, c.loops, IF historyMap[d] # 0 THEN "failed" ELSE LastOutcome(d))
  /\ pc \in {"doneR", "doneW"} => Target(d) =
       ShowRow(c, "completed", c.step, c.loops, LastOutcome(d))
  /\ pc \in {"loopR", "loopW"} => Target(d) = ShowRow(c, c.status, 0, c.loops + 1, "running")
  /\ pc = "loopRewind" => Target(d) = ShowRow(c, c.status, 0, c.loops, "running")
  /\ pc = "loopHist" => Target(d) = ShowRow(c, c.status, c.step, c.loops, "running")

LEMMA TargetPoll ==
  \A l \in Loop : OneLoop /\ loop[l].d \in Device /\ (\A r \in Req : req[r].pc = "idle") =>
    PollShows(l)
  <1> SUFFICES ASSUME NEW l \in Loop, OneLoop, loop[l].d \in Device, \A r \in Req : req[r].pc = "idle"
               PROVE  PollShows(l)
    OBVIOUS
  <1> DEFINE d == loop[l].d
             now == Abs(row[d], LastOutcome(d))
  <1>1. \A k \in Loop : k = l BY DEF OneLoop
  <1>2. CASE loop[l].pc \in {"failStep", "failHist"}
    <2>1. Target(d) = [now EXCEPT !.outcome = IF historyMap[d] # 0 THEN "failed" ELSE @]
      BY <1>1, <1>2 DEF Target
    <2> QED BY <1>2, <2>1 DEF PollShows, Abs, ShowRow, Show
  <1>3. CASE loop[l].pc \in {"doneR", "doneW"}
    <2>1. Target(d) = [now EXCEPT !.status = "completed"]
      BY <1>1, <1>3 DEF Target
    <2> QED BY <1>3, <2>1 DEF PollShows, Abs, ShowRow, Show
  <1>4. CASE loop[l].pc \in {"loopR", "loopW"}
    <2>1. Target(d) = [now EXCEPT !.step = 0, !.rounds = @ + 1, !.outcome = "running"]
      BY <1>1, <1>4 DEF Target
    <2> QED BY <1>4, <2>1 DEF PollShows, Abs, ShowRow, Show
  <1>5. CASE loop[l].pc = "loopRewind"
    <2>1. Target(d) = [now EXCEPT !.step = 0, !.outcome = "running"]
      BY <1>1, <1>5 DEF Target
    <2> QED BY <1>5, <2>1 DEF PollShows, Abs, ShowRow, Show
  <1>6. CASE loop[l].pc = "loopHist"
    <2>1. Target(d) = [now EXCEPT !.outcome = "running"]
      BY <1>1, <1>6 DEF Target
    <2> QED BY <1>6, <2>1 DEF PollShows, Abs, ShowRow, Show
  <1> QED BY <1>2, <1>3, <1>4, <1>5, <1>6 DEF PollShows

LEMMA TargetPollNext ==
  (\A l \in Loop : OneLoop /\ loop[l].d \in Device /\ (\A r \in Req : req[r].pc = "idle") =>
     PollShows(l))'
  BY TargetPoll, PTL

\* A handler at work on d.
HandlerShows(r) ==
  LET d == req[r].d
      pc == req[r].pc
      c == row[d]
  IN
  /\ pc = "bindW" => Target(d) = LET q == req[r].row IN
       ShowRow(q, q.status, q.step, q.loops, LastOutcome(d))
  /\ pc \in {"startR", "startW"} /\ c.status # "none" =>
       Target(d) = ShowRow(c, "running", 0, c.loops, Started(d))
  /\ pc \in {"startR", "startW"} /\ c.status = "none" => Target(d) = Now(d)
  /\ pc = "startHist" => Target(d) = ShowRow(c, c.status, c.step, c.loops, Started(d))
  /\ pc = "stopW" /\ c.status # "none" => Target(d) = ShowRow(c, "idle", 0, c.loops, LastOutcome(d))
  /\ pc = "stopW" /\ c.status = "none" => Target(d) = Now(d)

LEMMA TargetHandler ==
  \A r \in Req : NoOverlap /\ req[r].pc # "idle" /\ req[r].d \in Device => HandlerShows(r)
  <1> SUFFICES ASSUME NEW r \in Req, NoOverlap, req[r].pc # "idle", req[r].d \in Device
               PROVE  HandlerShows(r)
    OBVIOUS
  <1> DEFINE d == req[r].d
             now == Abs(row[d], LastOutcome(d))
  <1>1. \A q \in Req : q # r => req[q].pc = "idle" BY DEF NoOverlap
  <1>2. \A l \in Loop : loop[l].pc \notin WorkPcs BY DEF NoOverlap, WorkPcs
  <1>3. CASE req[r].pc = "bindW"
    <2>1. (CHOOSE q \in Req : req[q].d = d /\ req[q].pc = "bindW") = r BY <1>1, <1>3
    <2>2. Target(d) = Abs(req[r].row, LastOutcome(d)) BY <1>1, <1>2, <1>3, <2>1 DEF Target, WorkPcs
    <2> QED BY <1>3, <2>2 DEF HandlerShows, Abs, ShowRow, Show
  <1>4. CASE req[r].pc \in {"startR", "startW"} /\ row[d].status # "none"
    <2>1. Target(d) = [now EXCEPT !.status = "running", !.step = 0, !.outcome = Started(d)]
      BY <1>1, <1>2, <1>4 DEF Target, Started, WorkPcs
    <2> QED BY <1>4, <2>1 DEF HandlerShows, Abs, ShowRow, Show
  <1>5. CASE req[r].pc \in {"startR", "startW", "stopW"} /\ row[d].status = "none"
    <2>1. Target(d) = now BY <1>1, <1>2, <1>5 DEF Target, WorkPcs
    <2> QED BY <1>5, <2>1 DEF HandlerShows, Now, Abs, ShowRow, Show
  <1>6. CASE req[r].pc = "startHist"
    <2>1. Target(d) = [now EXCEPT !.outcome = Started(d)]
      BY <1>1, <1>2, <1>6 DEF Target, Started, WorkPcs
    <2> QED BY <1>6, <2>1 DEF HandlerShows, Abs, ShowRow, Show
  <1>7. CASE req[r].pc = "stopW" /\ row[d].status # "none"
    <2>1. Target(d) = [now EXCEPT !.status = "idle", !.step = 0]
      BY <1>1, <1>2, <1>7 DEF Target, WorkPcs
    <2> QED BY <1>7, <2>1 DEF HandlerShows, Abs, ShowRow, Show
  <1> QED BY <1>3, <1>4, <1>5, <1>6, <1>7 DEF HandlerShows

LEMMA TargetHandlerNext ==
  (\A r \in Req : NoOverlap /\ req[r].pc # "idle" /\ req[r].d \in Device => HandlerShows(r))'
  BY TargetHandler, PTL

-----------------------------------------------------------------------------
(* The steps of FlowRun, in terms of what the mapping shows.                 *)

Others(d) == \A e \in Device : e # d => Target(e)' = Target(e)

LEMMA FStutter ==
  ASSUME \A e \in Device : Target(e)' = Target(e), flow' = flow
  PROVE  UNCHANGED F!runVars
  BY DEF F!runVars

LEMMA FChange ==
  ASSUME NEW d \in Device, Others(d), flow' = flow, NEW new, Target(d)' = new
  PROVE  F!Change(d, new)
  BY DEF F!Change, Others

LEMMA FAdvance ==
  ASSUME NEW d \in Device, Others(d), flow' = flow, NEW m, NEW f \in Flow, NEW s, NEW k, NEW o,
         Target(d) = Show("running", m, f, s, k, o), s < Len(flow[f].steps),
         Target(d)' = Show("running", m, f, s + 1, k, o)
  PROVE  F!Next
  <1>1. F!AtStep(d) BY DEF F!AtStep, F!Running, Show
  <1>2. F!Change(d, Show("running", m, f, s + 1, k, o)) BY FChange
  <1>3. F!Advance(d) BY <1>1, <1>2 DEF F!Advance, Show
  <1> QED BY <1>3 DEF F!Next, F!Step

LEMMA FFail ==
  ASSUME NEW d \in Device, Others(d), flow' = flow, NEW m, NEW f \in Flow, NEW s, NEW k, NEW o,
         Target(d) = Show("running", m, f, s, k, o), s < Len(flow[f].steps),
         Target(d)' = Show("error", m, f, s, k, IF o = "running" THEN "failed" ELSE o)
  PROVE  F!Next
  <1>1. F!AtStep(d) BY DEF F!AtStep, F!Running, Show
  <1>2. F!Change(d, Show("error", m, f, s, k, IF o = "running" THEN "failed" ELSE o)) BY FChange
  <1>3. [Target(d) EXCEPT !.status = "error", !.outcome = F!Close("failed", @)] =
         Show("error", m, f, s, k, IF o = "running" THEN "failed" ELSE o)
    <2>1. PICK c : c = IF o = "running" THEN "failed" ELSE o OBVIOUS
    <2>2. [Target(d) EXCEPT !.status = "error"] = Show("error", m, f, s, k, o) BY DEF Show
    <2>3. [Show("error", m, f, s, k, o) EXCEPT !.outcome = c] = Show("error", m, f, s, k, c)
      BY DEF Show
    <2>4. c = F!Close("failed", Target(d).outcome) BY <2>1 DEF Show, F!Close
    <2> QED BY <2>1, <2>2, <2>3, <2>4
  <1>4. F!Fail(d) BY <1>1, <1>2, <1>3 DEF F!Fail
  <1> QED BY <1>4 DEF F!Next, F!Step

LEMMA FFinish ==
  ASSUME NEW d \in Device, Others(d), flow' = flow, NEW f \in Flow, NEW s, NEW k, NEW o,
         Target(d) = Show("running", "single", f, s, k, o), s >= Len(flow[f].steps),
         Target(d)' = Show("completed", "single", f, s, k, IF o = "running" THEN "success" ELSE o)
  PROVE  F!Next
  <1>1. F!AtEnd(d) /\ Target(d).mode = "single" BY DEF F!AtEnd, F!Running, Show
  <1>2. F!Change(d, Show("completed", "single", f, s, k, IF o = "running" THEN "success" ELSE o))
    BY FChange
  <1>3. [Target(d) EXCEPT !.status = "completed", !.outcome = F!Close("success", @)] =
         Show("completed", "single", f, s, k, IF o = "running" THEN "success" ELSE o)
    <2>1. PICK c : c = IF o = "running" THEN "success" ELSE o OBVIOUS
    <2>2. [Target(d) EXCEPT !.status = "completed"] = Show("completed", "single", f, s, k, o)
      BY DEF Show
    <2>3. [Show("completed", "single", f, s, k, o) EXCEPT !.outcome = c] =
             Show("completed", "single", f, s, k, c)
      BY DEF Show
    <2>4. c = F!Close("success", Target(d).outcome) BY <2>1 DEF Show, F!Close
    <2> QED BY <2>1, <2>2, <2>3, <2>4
  <1>4. F!Finish(d) BY <1>1, <1>2, <1>3 DEF F!Finish
  <1> QED BY <1>4 DEF F!Next, F!Step

LEMMA FRound ==
  ASSUME NEW d \in Device, Others(d), flow' = flow, NEW f \in Flow, NEW s, NEW k, NEW o,
         Target(d) = Show("running", "loop", f, s, k, o), s >= Len(flow[f].steps),
         Target(d)' = Show("running", "loop", f, 0, k + 1, "running")
  PROVE  F!Next
  <1>1. F!AtEnd(d) /\ Target(d).mode = "loop" BY DEF F!AtEnd, F!Running, Show
  <1>2. F!Change(d, Show("running", "loop", f, 0, k + 1, "running")) BY FChange
  <1>3. [Target(d) EXCEPT !.step = 0, !.rounds = @ + 1, !.outcome = "running"] =
         Show("running", "loop", f, 0, k + 1, "running")
    <2>1. [Target(d) EXCEPT !.step = 0] = Show("running", "loop", f, 0, k, o) BY DEF Show
    <2>2. [Show("running", "loop", f, 0, k, o) EXCEPT !.rounds = k + 1] =
             Show("running", "loop", f, 0, k + 1, o)
      BY DEF Show
    <2>3. [Show("running", "loop", f, 0, k + 1, o) EXCEPT !.outcome = "running"] =
             Show("running", "loop", f, 0, k + 1, "running")
      BY DEF Show
    <2>4. Target(d).rounds = k BY DEF Show
    <2> QED BY <2>1, <2>2, <2>3, <2>4
  <1>4. F!Round(d) BY <1>1, <1>2, <1>3 DEF F!Round
  <1> QED BY <1>4 DEF F!Next

LEMMA FBind ==
  ASSUME NEW d \in Device, Others(d), flow' = flow, NEW f \in Flow, NEW m \in Mode,
         NEW st, NEW m0, NEW f0, NEW s, NEW k, NEW o,
         Target(d) = Show(st, m0, f0, s, k, o), Target(d)' = Show("idle", m, f, 0, 0, o)
  PROVE  F!Next
  <1>1. F!Change(d, Show("idle", m, f, 0, 0, o)) BY FChange
  <1>2. [Target(d) EXCEPT !.status = "idle", !.mode = m, !.rpa = f, !.step = 0, !.rounds = 0] =
         Show("idle", m, f, 0, 0, o)
    <2>1. [Target(d) EXCEPT !.status = "idle"] = Show("idle", m0, f0, s, k, o) BY DEF Show
    <2>2. [Show("idle", m0, f0, s, k, o) EXCEPT !.mode = m] = Show("idle", m, f0, s, k, o) BY DEF Show
    <2>3. [Show("idle", m, f0, s, k, o) EXCEPT !.rpa = f] = Show("idle", m, f, s, k, o) BY DEF Show
    <2>4. [Show("idle", m, f, s, k, o) EXCEPT !.step = 0] = Show("idle", m, f, 0, k, o) BY DEF Show
    <2>5. [Show("idle", m, f, 0, k, o) EXCEPT !.rounds = 0] = Show("idle", m, f, 0, 0, o) BY DEF Show
    <2>6. [Target(d) EXCEPT !.status = "idle", !.mode = m, !.rpa = f] = Show("idle", m, f, s, k, o)
      BY <2>1, <2>2, <2>3
    <2> QED BY <2>4, <2>5, <2>6
  <1>3. F!Bind(d, f, m) BY <1>1, <1>2 DEF F!Bind
  <1>4. m \in {"single", "loop"} BY DEF Mode
  <1> QED BY <1>3, <1>4 DEF F!Next

LEMMA FStart ==
  ASSUME NEW d \in Device, Others(d), flow' = flow, NEW st, NEW m, NEW f, NEW s, NEW k, NEW o,
         Target(d) = Show(st, m, f, s, k, o), st # "none",
         Target(d)' = Show("running", m, f, 0, k, IF f \in Flow THEN "running" ELSE Cancelled(o))
  PROVE  F!Next
  <1>1. F!Change(d, Show("running", m, f, 0, k, IF f \in Flow THEN "running" ELSE Cancelled(o)))
    BY FChange
  <1>2. [Target(d) EXCEPT !.status = "running", !.step = 0,
                !.outcome = IF Target(d).rpa \in Flow THEN "running" ELSE F!Close("cancelled", @)] =
         Show("running", m, f, 0, k, IF f \in Flow THEN "running" ELSE Cancelled(o))
    <2>1. PICK c : c = IF f \in Flow THEN "running" ELSE Cancelled(o) OBVIOUS
    <2>2. [Target(d) EXCEPT !.status = "running"] = Show("running", m, f, s, k, o) BY DEF Show
    <2>3. [Show("running", m, f, s, k, o) EXCEPT !.step = 0] = Show("running", m, f, 0, k, o)
      BY DEF Show
    <2>4. [Show("running", m, f, 0, k, o) EXCEPT !.outcome = c] = Show("running", m, f, 0, k, c)
      BY DEF Show
    <2>5. c = (IF Target(d).rpa \in Flow THEN "running"
               ELSE F!Close("cancelled", Target(d).outcome))
      BY <2>1 DEF Show, F!Close, Cancelled
    <2> QED BY <2>1, <2>2, <2>3, <2>4, <2>5
  <1>3. Target(d).status # "none" BY DEF Show
  <1>4. F!Start(d) BY <1>1, <1>3, <1>2 DEF F!Start
  <1> QED BY <1>4 DEF F!Next

LEMMA FPause ==
  ASSUME NEW d \in Device, Others(d), flow' = flow, NEW st, NEW m, NEW f, NEW s, NEW k, NEW o,
         Target(d) = Show(st, m, f, s, k, o), st # "none", NEW to \in {"paused", "running"},
         Target(d)' = Show(to, m, f, s, k, o)
  PROVE  F!Next
  <1>1. F!Change(d, Show(to, m, f, s, k, o)) BY FChange
  <1>2. F!Pause(d) \/ F!Resume(d) BY <1>1 DEF F!Pause, F!Resume, Show
  <1> QED BY <1>2 DEF F!Next

LEMMA FStop ==
  ASSUME NEW d \in Device, Others(d), flow' = flow, NEW st, NEW m, NEW f, NEW s, NEW k, NEW o,
         Target(d) = Show(st, m, f, s, k, o), st # "none",
         Target(d)' = Show("idle", m, f, 0, k, Cancelled(o))
  PROVE  F!Next
  <1>1. F!Change(d, Show("idle", m, f, 0, k, Cancelled(o))) BY FChange
  <1>2. [Target(d) EXCEPT !.status = "idle", !.step = 0, !.outcome = F!Close("cancelled", @)] =
         Show("idle", m, f, 0, k, Cancelled(o))
    <2>1. PICK c : c = Cancelled(o) OBVIOUS
    <2>2. [Target(d) EXCEPT !.status = "idle"] = Show("idle", m, f, s, k, o) BY DEF Show
    <2>3. [Show("idle", m, f, s, k, o) EXCEPT !.step = 0] = Show("idle", m, f, 0, k, o) BY DEF Show
    <2>4. [Show("idle", m, f, 0, k, o) EXCEPT !.outcome = c] = Show("idle", m, f, 0, k, c) BY DEF Show
    <2>5. c = F!Close("cancelled", Target(d).outcome) BY <2>1 DEF Show, F!Close, Cancelled
    <2> QED BY <2>1, <2>2, <2>3, <2>4, <2>5
  <1>3. Target(d).status # "none" BY DEF Show
  <1>4. F!Stop(d) BY <1>1, <1>3, <1>2 DEF F!Stop
  <1> QED BY <1>4 DEF F!Next

LEMMA FEdit ==
  ASSUME TypeInv, NEW f \in Flow, NEW steps \in FlowDefs,
         flow' = [flow EXCEPT ![f] = [live |-> TRUE, steps |-> steps]],
         \A e \in Device : Target(e)' = Target(e)
  PROVE  F!Next
  <1> DEFINE len == [g \in Flow |-> Len(flow[g].steps)]
  <1>1. flow \in [Flow -> FlowRow] BY DEF TypeInv, FlowT
  <1>2. ASSUME NEW g \in Flow
        PROVE  Len(flow'[g].steps) = IF g = f THEN Len(steps) ELSE Len(flow[g].steps)
    BY <1>1
  <1>3. len' = [len EXCEPT ![f] = Len(steps)] BY <1>2
  <1>4. F!Edit(f, Len(steps)) BY <1>3 DEF F!Edit
  <1> QED BY <1>4 DEF F!Next

-----------------------------------------------------------------------------
(* A step at one device.                                                     *)

\* What a step does to the executions of x.
HistEffect(x) ==
  \/ UNCHANGED histVars
  \/ StartHistory(x)
  \/ \E st \in Ended : CompleteHistory(x, st)
  \/ (\A q \in Req : req[q].pc = "idle") /\ \E r \in Req : StartCancel(r, x)

\* Nobody but at x is between two statements that show.
OnlyAt(x) ==
  /\ \A l \in Loop : loop[l].pc \in WorkPcs => loop[l].d = x
  /\ \A q \in Req : req[q].pc \in HandlePcs => req[q].d = x

LEMMA HistAt ==
  ASSUME RunState, TypeInv', NEW x \in Device, HistEffect(x), OnlyAt(x)
  PROVE  /\ Newest'
         /\ \A e \in Device : e # x => LastOutcome(e)' = LastOutcome(e)
         /\ \A e \in Device : e # x /\ historyMap'[e] # 0 => hist'[historyMap'[e]].st = "running"
  <1> DEFINE Fine ==
        /\ Newest'
        /\ \A e \in Device : e # x => LastOutcome(e)' = LastOutcome(e)
        /\ \A e \in Device : e # x /\ historyMap[e] # 0 =>
             hist'[historyMap[e]].st = hist[historyMap[e]].st
        /\ \A e \in Device : e # x => historyMap'[e] = historyMap[e]
  <1>1. ASSUME UNCHANGED histVars PROVE Fine
    <2>1. nhist' = nhist /\ hist' = hist /\ historyMap' = historyMap BY <1>1 DEF histVars
    <2>2. Newest' BY <2>1, NewestKept
    <2>3. \A e \in Device : LastOutcome(e)' = LastOutcome(e) BY <2>1 DEF LastOutcome
    <2> QED BY <2>1, <2>2, <2>3
  <1>2. ASSUME StartHistory(x) PROVE Fine
    <2>1. /\ \A e \in Device : e # x => LastOutcome(e)' = LastOutcome(e)
          /\ Newest'
          /\ \A e \in Device : e # x => historyMap'[e] = historyMap[e]
          /\ \A h \in 1 .. nhist : hist'[h] = hist[h]
      BY <1>2, Opening
    <2>2. ASSUME NEW e \in Device, historyMap[e] # 0 PROVE historyMap[e] \in 1 .. nhist
      <3>1. historyMap[e] <= nhist /\ historyMap[e] \in 0 .. MaxHist /\ nhist \in Nat /\ MaxHist \in Nat
        BY <2>2, HistBounds DEF RunState, CauseState, HistInv, LiveHistoryIsNewest
      <3> QED BY <2>2, <3>1
    <2> QED BY <2>1, <2>2
  <1>3. ASSUME \E st \in Ended : CompleteHistory(x, st) PROVE Fine
    <2>1. PICK st \in Ended : CompleteHistory(x, st) BY <1>3
    <2> QED BY <2>1, Closing
  <1>4. ASSUME (\A q \in Req : req[q].pc = "idle") /\ \E r \in Req : StartCancel(r, x) PROVE Fine
    <2>1. PICK r \in Req : StartCancel(r, x) BY <1>4
    <2> QED BY <1>4, <2>1, Cancelling
  <1>5. Fine BY <1>1, <1>2, <1>3, <1>4 DEF HistEffect
  <1>6. ASSUME NEW e \in Device, e # x, historyMap[e] # 0 PROVE hist[historyMap[e]].st = "running"
    <2>1. \A r \in Req : req[r].pc \in Starting => req[r].d = x
      BY DEF OnlyAt, Starting, HandlePcs
    <2> QED BY <1>6, <2>1 DEF RunState, RunInv, HeldOpen
  <1> QED BY <1>5, <1>6

LEMMA OneDevice ==
  ASSUME RunState, TypeInv', [Next]_vars, NEW x \in Device, HistEffect(x), OnlyAt(x), OnlyAt(x)',
         row' = row \/ \E c : row' = [row EXCEPT ![x] = c],
         \A f \in Flow : flow'[f].live,
         row'[x].status = "none" => row[x].status = "none" /\ nhist' = nhist,
         row'[x].status # "none" /\ row'[x].rpa = NoRpa =>
           \E r \in Req : req'[r].pc = "bindW" /\ req'[r].d = x,
         historyMap'[x] # 0 => \/ hist'[historyMap'[x]].st = "running"
                               \/ \E r \in Req : req'[r].pc \in Starting /\ req'[r].d = x,
         \A r \in Req : Prepared(req'[r], row'),
         \A l \in Loop : OnCourse(loop[l], row)'
  PROVE  RunInv' /\ Others(x)
  <1>1. \A e \in Device : e # x => row'[e] = row[e]
    BY DEF RunState, CauseState, TypeInv, RowT
  <1>2. /\ Newest'
        /\ \A e \in Device : e # x => LastOutcome(e)' = LastOutcome(e)
        /\ \A e \in Device : e # x /\ historyMap'[e] # 0 => hist'[historyMap'[e]].st = "running"
    BY HistAt
  <1>3. HeldOpen' BY <1>2 DEF HeldOpen
  <1>4. Bound'
    <2> SUFFICES ASSUME NEW e \in Device, row'[e].status # "none", row'[e].rpa = NoRpa
                 PROVE  \E r \in Req : req'[r].pc = "bindW" /\ req'[r].d = e
      BY DEF Bound
    <2>1. CASE e = x BY <2>1
    <2>2. CASE e # x
      <3>1. PICK r \in Req : req[r].pc = "bindW" /\ req[r].d = e
        BY <1>1, <2>2 DEF RunState, RunInv, Bound
      <3> QED BY <2>2, <3>1 DEF OnlyAt, HandlePcs
    <2> QED BY <2>1, <2>2
  <1>5. NoneUnused'
    <2> SUFFICES ASSUME NEW e \in Device, row'[e].status = "none",
                        NEW h \in 1 .. nhist', hist'[h].dev = e
                 PROVE  FALSE
      BY DEF NoneUnused
    <2>0. /\ row[e].status = "none" /\ (e = x => nhist' = nhist)
          /\ nhist \in Nat /\ nhist' \in Nat
      BY <1>1, HistBounds, EngineAssumption DEF RunState, CauseState, TypeInv, HistT
    <2>1. \A k \in 1 .. nhist : hist[k].dev # e BY <2>0 DEF RunState, RunInv, NoneUnused
    <2>2. \A k \in 1 .. nhist : hist'[k].dev = hist[k].dev
      BY HistoryKept DEF HistKept, RunState, CauseState
    <2>3. h \notin 1 .. nhist BY <2>1, <2>2
    <2>4. nhist' # nhist BY <2>3
    <2>5. StartHistory(x) BY <2>4 DEF HistEffect, histVars, CompleteHistory, StartCancel
    <2>6. nhist' = nhist + 1 /\ hist' = [hist EXCEPT ![nhist + 1] =
                [NoHist EXCEPT !.dev = x, !.st = "running", !.boot = boot]]
      BY <2>5 DEF StartHistory
    <2>7. h = nhist + 1 /\ h \in HistId
      BY <2>0, <2>3, <2>6, EngineAssumption DEF TypeInv, HistT, HistId
    <2>8. hist \in [HistId -> HistRow] BY DEF RunState, CauseState, TypeInv, HistT
    <2>9. hist'[h].dev = x BY <2>6, <2>7, <2>8 DEF NoHist
    <2> QED BY <2>0, <2>4, <2>9
  <1>6. RunInv' BY <1>2, <1>3, <1>4, <1>5 DEF RunInv
  <1>7. Others(x)
    <2> SUFFICES ASSUME NEW e \in Device, e # x PROVE Target(e)' = Target(e)
      BY DEF Others
    <2>1. Idle(e) /\ Idle(e)' BY DEF OnlyAt, Idle
    <2>2. Target(e) = Now(e) /\ Target(e)' = Now(e)' BY <2>1, TargetIdle, TargetIdleNext
    <2> QED BY <1>1, <1>2, <2>2 DEF Now
  <1> QED BY <1>6, <1>7

\* A step at no device.
LEMMA NoDeviceStep ==
  ASSUME RunState, NoOverlap', UNCHANGED row, UNCHANGED histVars,
         \A l \in Loop : loop[l].pc \notin WorkPcs /\ loop'[l].pc \notin WorkPcs,
         \A q \in Req : req'[q] = req[q] \/ (req[q].pc \notin HandlePcs /\ req'[q].pc \notin HandlePcs),
         flow' = flow \/ \A q \in Req : req[q].pc = "idle",
         \A f \in Flow : flow'[f].live,
         \A l \in Loop : OnCourse(loop[l], row)'
  PROVE  RunInv' /\ \A e \in Device : Target(e)' = Target(e)
  <1>0. nhist' = nhist /\ hist' = hist /\ historyMap' = historyMap BY DEF histVars
  <1>1. \A e \in Device : LastOutcome(e)' = LastOutcome(e) BY <1>0 DEF LastOutcome
  <1>2. Newest' BY <1>0, NewestKept
  <1>3. NoneUnused' BY <1>0 DEF RunState, RunInv, NoneUnused
  <1>4. \A q \in Req : \/ req'[q] = req[q]
                       \/ /\ req[q].pc \notin Starting \cup {"bindW"}
                          /\ req'[q].pc \notin Starting \cup {"bindW"}
    BY DEF HandlePcs, Starting
  <1>5. HeldOpen' BY <1>0, <1>4 DEF RunState, RunInv, HeldOpen
  <1>6. Bound' BY <1>4 DEF RunState, RunInv, Bound
  <1>7. ASSUME NEW q \in Req PROVE Prepared(req'[q], row')
    <2>1. CASE req'[q] = req[q] BY <2>1 DEF RunState, RunInv
    <2>2. CASE req'[q].pc \notin {"bindW", "startW"} BY <2>2 DEF Prepared
    <2> QED BY <2>1, <2>2 DEF HandlePcs
  <1>8. RunInv' BY <1>2, <1>3, <1>5, <1>6, <1>7 DEF RunInv
  <1>9. ASSUME NEW e \in Device PROVE Target(e)' = Target(e)
    <2>1. CASE \A q \in Req : req[q].pc \in HandlePcs => req[q].d # e
      <3>1. Idle(e) /\ Idle(e)' BY <2>1 DEF Idle
      <3>2. Target(e) = Now(e) /\ Target(e)' = Now(e)' BY <3>1, TargetIdle, TargetIdleNext
      <3> QED BY <1>1, <3>2 DEF Now
    <2>2. ASSUME NEW q \in Req, req[q].pc \in HandlePcs, req[q].d = e PROVE Target(e)' = Target(e)
      <3>1. req'[q] = req[q] /\ flow' = flow /\ req[q].pc # "idle" BY <2>2 DEF HandlePcs
      <3>2. HandlerShows(q)
        BY <2>2, <3>1, TargetHandler DEF RunState, CauseState
      <3>3. HandlerShows(q)'
        BY <2>2, <3>1, TargetHandlerNext
      <3>4. Now(e)' = Now(e) /\ Started(e)' = Started(e) BY <1>1, <3>1 DEF Now, Started, Found
      <3> QED BY <1>1, <2>2, <3>1, <3>2, <3>3, <3>4 DEF HandlerShows, HandlePcs
    <2> QED BY <2>1, <2>2
  <1> QED BY <1>8, <1>9

-----------------------------------------------------------------------------
(* Polls.                                                                    *)

LEMMA BoundDevice ==
  ASSUME RunState, \A r \in Req : req[r].pc = "idle", NEW x \in Device, row[x].status # "none"
  PROVE  row[x] \in Row /\ row[x].rpa \in Flow /\ flow[row[x].rpa].live
         /\ flow[row[x].rpa].steps \in FlowDefs
  <1>1. row[x] \in Row BY DEF RunState, CauseState, TypeInv, RowT
  <1>2. row[x].rpa # NoRpa BY DEF RunState, RunInv, Bound
  <1>3. row[x].rpa \in Flow BY <1>1, <1>2 DEF Row
  <1> QED BY <1>1, <1>3 DEF RunState, RunInv, CauseState, TypeInv, FlowT, FlowRow

\* What the goroutine at work on a device finds.
LEMMA AtDevice ==
  ASSUME RunState, OneLoop, NEW l \in Loop, loop[l].pc \notin Resting
  PROVE  LET x == loop[l].d IN
         /\ loop[l] \in LoopRow /\ x \in Device /\ row[x] \in Row
         /\ \A r \in Req : req[r].pc = "idle"
         /\ OnCourse(loop[l], row) /\ SameRow(loop[l], row) /\ Calm(l)
         /\ row[x].status # "none" /\ row[x].rpa \in Flow
         /\ x \notin loop[l].todo
         /\ historyMap[x] # 0 <=> LastOutcome(x) = "running"
  <1>1. CauseState BY DEF RunState
  <1>2. loop[l] \in LoopRow /\ loop[l].d \in Device /\ row[loop[l].d] \in Row
        /\ loop[l].d \notin loop[l].todo
    BY <1>1, Working
  <1>3. \A r \in Req : req[r].pc = "idle" BY <1>1 DEF CauseState, NoOverlap, Resting
  <1>4. OnCourse(loop[l], row) /\ SameRow(loop[l], row) /\ Calm(l)
    BY <1>1 DEF RunState, RunInv, CauseState, CauseInv, Calm
  <1>5. row[loop[l].d].status # "none" BY <1>4 DEF OnCourse
  <1> QED BY <1>2, <1>3, <1>4, <1>5, BoundDevice, OutcomeNow

LEMMA PollKeeps ==
  ASSUME RunState, OneLoop, TypeInv', [Next]_vars, NEW l \in Loop, loop[l].pc \notin {"off", "wait"},
         UNCHANGED <<req, flow>>, NEW x \in Device, HistEffect(x),
         loop[l].pc \in WorkPcs => loop[l].d = x,
         row[x].status # "none",
         row' = row \/ \E c : row' = [row EXCEPT ![x] = c],
         row'[x].status # "none", row'[x].rpa = row[x].rpa,
         x \notin loop'[l].todo, loop'[l].todo \subseteq loop[l].todo,
         loop'[l].pc \notin Resting => loop'[l].d = x,
         loop'[l].pc # "setError",
         loop'[l].pc \in Polling =>
           /\ row'[x].status = "running" /\ row'[x].step = loop'[l].cfg.step
           /\ loop'[l].cfg.step < Len(flow[row[x].rpa].steps)
           /\ loop'[l].kind \in {"act", "out"},
         loop'[l].pc \in Polling \ {"exec"} => loop'[l].next = loop'[l].cfg.step + 1
  PROVE  RunInv' /\ Others(x)
  <1>1. \A r \in Req : req[r].pc = "idle" /\ req'[r].pc = "idle"
    BY DEF RunState, CauseState, NoOverlap
  <1>2. \A k \in Loop : k = l BY DEF OneLoop
  <1>3. OnlyAt(x) BY <1>1, <1>2 DEF OnlyAt, HandlePcs
  <1>4. OnlyAt(x)' BY <1>1, <1>2 DEF OnlyAt, HandlePcs, WorkPcs, Resting
  <1>5. row[x].rpa \in Flow /\ \A f \in Flow : flow'[f].live
    BY <1>1, BoundDevice DEF RunState, RunInv
  <1>6. row'[x].rpa # NoRpa BY <1>5, EngineAssumption
  <1>7. historyMap'[x] # 0 => hist'[historyMap'[x]].st = "running"
    <2>1. CASE UNCHANGED histVars BY <1>1, <2>1 DEF histVars, RunState, RunInv, HeldOpen, Starting
    <2>2. CASE StartHistory(x) BY <2>2, Opening
    <2>3. CASE \E st \in Ended : CompleteHistory(x, st)
      BY <2>3, Closing
    <2>4. CASE \E r \in Req : StartCancel(r, x)
      BY <1>1, <2>4 DEF StartCancel, RunState, CauseState, TypeInv, ReqT
    <2> QED BY <2>1, <2>2, <2>3, <2>4 DEF HistEffect
  <1>8. \A r \in Req : Prepared(req'[r], row') BY <1>1 DEF Prepared
  <1>9. \A e \in Device : e # x => row'[e] = row[e]
    BY DEF RunState, CauseState, TypeInv, RowT
  <1>10. ASSUME NEW k \in Loop PROVE OnCourse(loop[k], row)'
    <2>1. \A e \in loop'[l].todo : row'[e].status = "running"
      <3>1. loop[l].todo \subseteq Device /\ \A e \in loop[l].todo : row[e].status = "running"
        BY DEF RunState, RunInv, OnCourse, CauseState, TypeInv, LoopT, GoodLoop, LoopRow
      <3> QED BY <1>9, <3>1
    <2>2. loop'[l].pc \in Polling => loop'[l].d = x BY DEF Polling, Resting
    <2> QED BY <1>2, <1>5, <2>1, <2>2 DEF OnCourse
  <1> QED BY <1>3, <1>4, <1>5, <1>6, <1>7, <1>8, <1>10, OneDevice

\* A poll that shows nothing.
LEMMA PollStutters ==
  ASSUME NEW x \in Device, Others(x), Target(x)' = Target(x), flow' = flow
  PROVE  UNCHANGED F!runVars
  BY FStutter DEF Others

\* The device of a poll that is not between two statements that show.
LEMMA PollNow ==
  ASSUME OneLoop, NEW l \in Loop, loop[l].pc \notin WorkPcs, \A r \in Req : req[r].pc = "idle"
  PROVE  \A e \in Device : Target(e) = Now(e)
  BY TargetIdle DEF OneLoop, Idle, HandlePcs

LEMMA PollNowNext ==
  ASSUME OneLoop, NEW l \in Loop, loop'[l].pc \notin WorkPcs, \A r \in Req : req'[r].pc = "idle"
  PROVE  \A e \in Device : Target(e)' = Now(e)'
  <1>1. \A e \in Device : Idle(e)' BY DEF OneLoop, Idle, HandlePcs
  <1> QED BY <1>1, TargetIdleNext

-----------------------------------------------------------------------------
(* The polls.  Each action keeps RunInv, and FlowRun allows what it shows.    *)

\* A step of FlowRun, or none.
Allowed == F!Next \/ UNCHANGED F!runVars

\* What is known of a step.
RunStep == RunState /\ OneLoop /\ Quiet /\ PlainRuns /\ TypeInv' /\ NoOverlap' /\ [Next]_vars

LEMMA RunExec ==
  ASSUME RunStep, NEW l \in Loop,
         ExecSuccess(l) \/ ExecPending(l) \/ MergeRead(l) \/ MergeWrite(l)
  PROVE  RunInv' /\ Allowed
  <1> PICK x : x = loop[l].d OBVIOUS
  <1>0. RunState /\ OneLoop /\ TypeInv' /\ [Next]_vars BY DEF RunStep
  <1>1. loop[l].pc \in Polling /\ loop[l].pc \notin WorkPcs /\ loop[l].pc \notin Resting
    BY DEF ExecSuccess, ExecPending, MergeRead, MergeWrite, Polling, WorkPcs, Resting
  <1>2. /\ loop[l] \in LoopRow /\ x \in Device /\ row[x] \in Row
        /\ \A r \in Req : req[r].pc = "idle"
        /\ OnCourse(loop[l], row) /\ Calm(l)
        /\ row[x].status # "none" /\ row[x].rpa \in Flow
        /\ x \notin loop[l].todo
    BY <1>0, <1>1, AtDevice
  <1>3. /\ row[x].status = "running" /\ row[x].step = loop[l].cfg.step
        /\ loop[l].cfg.step < Len(flow[row[x].rpa].steps)
        /\ loop[l].kind \in {"act", "out"}
        /\ loop[l].pc # "exec" => loop[l].next = loop[l].cfg.step + 1
        /\ loop[l].pc \in {"mergeR", "mergeW"} => loop[l].goto = "progress"
    BY <1>1, <1>2 DEF OnCourse, Calm
  <1>4. loop \in [Loop -> GoodLoop] /\ row \in [Device -> Row]
    BY <1>0 DEF RunState, CauseState, TypeInv, LoopT, RowT
  <1>5. UNCHANGED <<req, flow>> /\ UNCHANGED histVars
    BY DEF ExecSuccess, ExecPending, MergeRead, MergeWrite
  <1> DEFINE Fields ==
        /\ loop'[l].pc \in {"mergeR", "mergeW", "progress", "take"}
        /\ loop'[l].todo = loop[l].todo
        /\ loop'[l].pc # "take" =>
             /\ loop'[l].d = x /\ loop'[l].cfg = loop[l].cfg /\ loop'[l].kind = loop[l].kind
             /\ loop'[l].next = loop[l].cfg.step + 1
      Rows ==
        /\ row' = row \/ \E c : row' = [row EXCEPT ![x] = c]
        /\ row'[x].status = row[x].status /\ row'[x].rpa = row[x].rpa
        /\ row'[x].step = row[x].step /\ row'[x].loops = row[x].loops
        /\ row'[x].mode = row[x].mode
  <1>6. ASSUME ExecSuccess(l) PROVE Fields /\ Rows
    <2>1. row' = row BY <1>6 DEF ExecSuccess
    <2>2. PICK nx, stop :
            /\ nx \in NextSteps(loop[l])
            /\ stop => loop[l].kind = "steer"
            /\ loop' = [loop EXCEPT ![l].next = nx, ![l].goto = IF stop THEN "doneR" ELSE "progress",
                          ![l].pc = IF loop[l].kind = "act" THEN IF stop THEN "doneR" ELSE "progress"
                                    ELSE "mergeR"]
      BY <1>6 DEF ExecSuccess
    <2>3. nx = loop[l].cfg.step + 1 /\ ~stop BY <1>3, <2>2 DEF NextSteps
    <2>4. /\ loop'[l].pc = IF loop[l].kind = "act" THEN "progress" ELSE "mergeR"
          /\ loop'[l].todo = loop[l].todo /\ loop'[l].d = loop[l].d
          /\ loop'[l].cfg = loop[l].cfg /\ loop'[l].kind = loop[l].kind /\ loop'[l].next = nx
      BY <1>2, <1>4, <2>2, <2>3 DEF LoopRow
    <2> QED BY <2>1, <2>3, <2>4
  <1>7. ASSUME ExecPending(l) PROVE Fields /\ Rows
    <2>1. Done(l) BY <1>7 DEF ExecPending
    <2>2. loop'[l].pc = "take" /\ loop'[l].todo = loop[l].todo
      BY <1>4, <2>1 DEF Done, Taking, Select
    <2>3. PICK s, u : s = loop[l].cfg.step /\ row' = [row EXCEPT ![x].step = s, ![x].sub = u]
      BY <1>7 DEF ExecPending
    <2>4. row'[x] = [row[x] EXCEPT !.step = s, !.sub = u] BY <1>2, <1>4, <2>3
    <2>5. \E c : row' = [row EXCEPT ![x] = c] BY <2>3
    <2>6. /\ row'[x].status = row[x].status /\ row'[x].rpa = row[x].rpa /\ row'[x].step = s
          /\ row'[x].loops = row[x].loops /\ row'[x].mode = row[x].mode
      BY <1>2, <2>4 DEF Row
    <2> QED BY <1>3, <2>2, <2>3, <2>5, <2>6
  <1>8. ASSUME MergeRead(l) PROVE Fields /\ Rows
    <2>1. row' = row BY <1>8 DEF MergeRead
    <2>2. PICK c : loop' = [loop EXCEPT ![l].pc = "mergeW", ![l].row = c] BY <1>8 DEF MergeRead
    <2>3. /\ loop'[l].pc = "mergeW" /\ loop'[l].todo = loop[l].todo /\ loop'[l].d = loop[l].d
          /\ loop'[l].cfg = loop[l].cfg /\ loop'[l].kind = loop[l].kind
          /\ loop'[l].next = loop[l].next
      BY <1>2, <1>4, <2>2 DEF LoopRow
    <2>4. loop[l].pc # "exec" BY <1>8 DEF MergeRead
    <2> QED BY <1>3, <2>1, <2>3, <2>4
  <1>9. ASSUME MergeWrite(l) PROVE Fields /\ Rows
    <2>1. loop[l].pc = "mergeW" BY <1>9 DEF MergeWrite
    <2>2. loop' = [loop EXCEPT ![l].pc = loop[l].goto, ![l].row = NoRow] BY <1>9 DEF MergeWrite
    <2>3. /\ loop'[l].pc = "progress" /\ loop'[l].todo = loop[l].todo /\ loop'[l].d = loop[l].d
          /\ loop'[l].cfg = loop[l].cfg /\ loop'[l].kind = loop[l].kind
          /\ loop'[l].next = loop[l].next
      BY <1>2, <1>3, <1>4, <2>1, <2>2 DEF LoopRow
    <2>4. PICK v : row' = [row EXCEPT ![x].vars = v] BY <1>9 DEF MergeWrite
    <2>5. row'[x] = [row[x] EXCEPT !.vars = v] BY <1>2, <1>4, <2>4
    <2>6. \E c : row' = [row EXCEPT ![x] = c] BY <2>4
    <2>7. /\ row'[x].status = row[x].status /\ row'[x].rpa = row[x].rpa
          /\ row'[x].step = row[x].step
          /\ row'[x].loops = row[x].loops /\ row'[x].mode = row[x].mode
      BY <1>2, <2>5 DEF Row
    <2> QED BY <1>3, <2>1, <2>3, <2>6, <2>7
  <1>10. Fields /\ Rows BY <1>6, <1>7, <1>8, <1>9
  <1> HIDE DEF Fields, Rows
  <1>11. /\ loop'[l].pc \in {"mergeR", "mergeW", "progress", "take"}
         /\ loop'[l].todo = loop[l].todo
         /\ loop'[l].pc # "take" =>
              /\ loop'[l].d = x /\ loop'[l].cfg = loop[l].cfg /\ loop'[l].kind = loop[l].kind
              /\ loop'[l].next = loop[l].cfg.step + 1
    BY <1>10 DEF Fields
  <1>12. /\ row' = row \/ \E c : row' = [row EXCEPT ![x] = c]
         /\ row'[x].status = row[x].status /\ row'[x].rpa = row[x].rpa
         /\ row'[x].step = row[x].step /\ row'[x].loops = row[x].loops
         /\ row'[x].mode = row[x].mode
    BY <1>10 DEF Rows
  <1>13. loop[l].pc \notin {"off", "wait"} /\ HistEffect(x)
    BY <1>1, <1>5 DEF Resting, HistEffect
  <1>14. RunInv' /\ Others(x)
    BY <1>0, <1>1, <1>2, <1>3, <1>5, <1>11, <1>12, <1>13, PollKeeps DEF Polling, Resting
  <1>15. LastOutcome(x)' = LastOutcome(x) BY <1>5 DEF LastOutcome, histVars
  <1>16. Target(x) = Now(x) BY <1>0, <1>1, <1>2, PollNow
  <1>17. loop'[l].pc \notin WorkPcs BY <1>11 DEF WorkPcs
  <1>18. Target(x)' = Now(x)' BY <1>0, <1>2, <1>5, <1>17, PollNowNext
  <1>19. Target(x)' = Target(x) BY <1>12, <1>15, <1>16, <1>18 DEF Now, ShowRow
  <1> QED BY <1>2, <1>5, <1>14, <1>19, PollStutters DEF Allowed

LEMMA RunProgress ==
  ASSUME RunStep, NEW l \in Loop, Progress(l)
  PROVE  RunInv' /\ Allowed
  <1> PICK x : x = loop[l].d OBVIOUS
  <1>0. RunState /\ OneLoop /\ TypeInv' /\ [Next]_vars BY DEF RunStep
  <1>1. loop[l].pc = "progress" /\ UNCHANGED <<req, flow>> /\ UNCHANGED histVars
    BY DEF Progress
  <1>2. /\ loop[l] \in LoopRow /\ x \in Device /\ row[x] \in Row
        /\ \A r \in Req : req[r].pc = "idle"
        /\ OnCourse(loop[l], row)
        /\ row[x].status # "none" /\ row[x].rpa \in Flow
        /\ x \notin loop[l].todo
    BY <1>0, <1>1, AtDevice DEF Resting
  <1>3. /\ row[x].status = "running" /\ row[x].step < Len(flow[row[x].rpa].steps)
        /\ loop[l].next = row[x].step + 1
    BY <1>1, <1>2 DEF OnCourse, Polling
  <1>4. loop \in [Loop -> GoodLoop] /\ row \in [Device -> Row]
    BY <1>0 DEF RunState, CauseState, TypeInv, LoopT, RowT
  <1>5. loop'[l].pc = "take" /\ loop'[l].todo = loop[l].todo
    BY <1>4 DEF Progress, Done, Taking, Select
  <1>6. PICK s : s = row[x].step + 1 /\ row' = [row EXCEPT ![x].step = s, ![x].sub = 0]
    BY <1>3 DEF Progress
  <1>7. row'[x] = [row[x] EXCEPT !.step = s, !.sub = 0] BY <1>2, <1>4, <1>6
  <1>8. /\ row'[x].status = row[x].status /\ row'[x].rpa = row[x].rpa
        /\ row'[x].step = s /\ row'[x].loops = row[x].loops
        /\ row'[x].mode = row[x].mode
    BY <1>2, <1>7 DEF Row
  <1>9. \E c : row' = [row EXCEPT ![x] = c] BY <1>6
  <1>10. loop[l].pc \notin {"off", "wait"} /\ loop[l].pc \notin WorkPcs /\ HistEffect(x)
         /\ loop'[l].pc \notin WorkPcs
    BY <1>1, <1>5 DEF HistEffect, WorkPcs
  <1>11. RunInv' /\ Others(x)
    BY <1>0, <1>1, <1>2, <1>5, <1>8, <1>9, <1>10, PollKeeps DEF Polling, Resting
  <1>12. LastOutcome(x)' = LastOutcome(x) BY <1>1 DEF LastOutcome, histVars
  <1>13. Target(x) = Now(x) /\ Target(x)' = Now(x)'
    BY <1>0, <1>1, <1>2, <1>10, PollNow, PollNowNext
  <1>14. Target(x) = Show("running", row[x].mode, row[x].rpa, row[x].step, row[x].loops, LastOutcome(x))
    BY <1>3, <1>13 DEF Now, ShowRow
  <1>15. Target(x)' =
           Show("running", row[x].mode, row[x].rpa, row[x].step + 1, row[x].loops, LastOutcome(x))
    BY <1>3, <1>6, <1>8, <1>12, <1>13 DEF Now, ShowRow
  <1>16. F!Next BY <1>1, <1>2, <1>3, <1>11, <1>14, <1>15, FAdvance
  <1> QED BY <1>11, <1>16 DEF Allowed

LEMMA RunFail ==
  ASSUME RunStep, NEW l \in Loop, ExecFail(l)
  PROVE  RunInv' /\ Allowed
  <1> PICK x : x = loop[l].d OBVIOUS
  <1>0. RunState /\ OneLoop /\ TypeInv' /\ [Next]_vars BY DEF RunStep
  <1>1. loop[l].pc = "exec" /\ UNCHANGED <<req, flow>> /\ UNCHANGED histVars
    BY DEF ExecFail
  <1>2. /\ loop[l] \in LoopRow /\ x \in Device /\ row[x] \in Row
        /\ \A r \in Req : req[r].pc = "idle"
        /\ OnCourse(loop[l], row)
        /\ row[x].status # "none" /\ row[x].rpa \in Flow
        /\ x \notin loop[l].todo
        /\ historyMap[x] # 0 <=> LastOutcome(x) = "running"
    BY <1>0, <1>1, AtDevice DEF Resting
  <1>3. row[x].status = "running" /\ row[x].step < Len(flow[row[x].rpa].steps)
    BY <1>1, <1>2 DEF OnCourse, Polling
  <1>4. loop \in [Loop -> GoodLoop] /\ row \in [Device -> Row]
    BY <1>0 DEF RunState, CauseState, TypeInv, LoopT, RowT
  <1>5. loop'[l].pc = "failStep" /\ loop'[l].todo = loop[l].todo /\ loop'[l].d = x
    BY <1>2, <1>4 DEF ExecFail, Goto, LoopRow
  <1>6. row' = [row EXCEPT ![x].status = "error"] BY DEF ExecFail
  <1>7. row'[x] = [row[x] EXCEPT !.status = "error"] BY <1>2, <1>4, <1>6
  <1>8. /\ row'[x].status = "error" /\ row'[x].rpa = row[x].rpa
        /\ row'[x].step = row[x].step /\ row'[x].loops = row[x].loops
        /\ row'[x].mode = row[x].mode
    BY <1>2, <1>7 DEF Row
  <1>9. \E c : row' = [row EXCEPT ![x] = c] BY <1>6
  <1>10. loop[l].pc \notin {"off", "wait"} /\ loop[l].pc \notin WorkPcs /\ HistEffect(x)
    BY <1>1 DEF HistEffect, WorkPcs
  <1>11. RunInv' /\ Others(x)
    BY <1>0, <1>1, <1>2, <1>5, <1>8, <1>9, <1>10, PollKeeps DEF Polling, Resting
  <1>12. LastOutcome(x)' = LastOutcome(x) /\ historyMap' = historyMap
    BY <1>1 DEF LastOutcome, histVars
  <1>13. Target(x) = Now(x) BY <1>0, <1>2, <1>10, PollNow
  <1>14. PollShows(l)' BY <1>0, <1>1, <1>2, <1>5, TargetPollNext
  <1>15. Target(x)' = ShowRow(row[x], "error", row[x].step, row[x].loops,
                        IF historyMap[x] # 0 THEN "failed" ELSE LastOutcome(x))
    BY <1>5, <1>8, <1>12, <1>14 DEF PollShows, ShowRow
  <1>16. Target(x) = Show("running", row[x].mode, row[x].rpa, row[x].step, row[x].loops, LastOutcome(x))
    BY <1>3, <1>13 DEF Now, ShowRow
  <1>17. Target(x)' = Show("error", row[x].mode, row[x].rpa, row[x].step, row[x].loops,
                        IF LastOutcome(x) = "running" THEN "failed" ELSE LastOutcome(x))
    BY <1>2, <1>15 DEF ShowRow
  <1>18. F!Next BY <1>1, <1>2, <1>3, <1>11, <1>16, <1>17, FFail
  <1> QED BY <1>11, <1>18 DEF Allowed

\* The statements between the one that shows the end of a step, or of a round, and
\* the end of the poll.
LEMMA RunFinish ==
  ASSUME RunStep, NEW l \in Loop,
         \/ FailStep(l) \/ FailHist(l) \/ CompletedRead(l) \/ CompletedSave(l)
         \/ LoopCountRead(l) \/ LoopCountSave(l) \/ LoopRewind(l) \/ LoopHistory(l)
  PROVE  RunInv' /\ Allowed
  <1> PICK x : x = loop[l].d OBVIOUS
  <1>0. RunState /\ OneLoop /\ TypeInv' /\ [Next]_vars BY DEF RunStep
  <1>1. loop[l].pc \in WorkPcs /\ loop[l].pc \notin Resting
    BY DEF FailStep, FailHist, CompletedRead, CompletedSave, LoopCountRead, LoopCountSave,
           LoopRewind, LoopHistory, ReadRow, WorkPcs, Resting
  <1>2. /\ loop[l] \in LoopRow /\ x \in Device /\ row[x] \in Row
        /\ \A r \in Req : req[r].pc = "idle"
        /\ SameRow(loop[l], row)
        /\ row[x].status # "none" /\ row[x].rpa \in Flow
        /\ x \notin loop[l].todo
    BY <1>0, <1>1, AtDevice
  <1>3. loop \in [Loop -> GoodLoop] /\ row \in [Device -> Row]
    BY <1>0 DEF RunState, CauseState, TypeInv, LoopT, RowT
  <1>4. UNCHANGED <<req, flow>>
    BY DEF FailStep, FailHist, CompletedRead, CompletedSave, LoopCountRead, LoopCountSave,
           LoopRewind, LoopHistory, ReadRow
  <1>5. PollShows(l) BY <1>0, <1>2, TargetPoll
  <1>6. loop'[l].d = x => PollShows(l)' BY <1>0, <1>2, <1>4, TargetPollNext
  <1>7. loop'[l].pc = "take" => Target(x)' = Now(x)' BY <1>0, <1>2, <1>4, PollNowNext DEF WorkPcs
  <1>8. ASSUME Done(l) PROVE loop'[l].pc = "take" /\ loop'[l].todo = loop[l].todo
    BY <1>3, <1>8 DEF Done, Taking, Select
  <1>9. ASSUME NEW p, Goto(l, p)
        PROVE  loop'[l].pc = p /\ loop'[l].todo = loop[l].todo /\ loop'[l].d = x
    BY <1>2, <1>3, <1>9 DEF Goto, LoopRow
  <1>10. ASSUME NEW p, NEW c, loop' = [loop EXCEPT ![l].pc = p, ![l].row = c]
         PROVE  loop'[l].pc = p /\ loop'[l].todo = loop[l].todo /\ loop'[l].d = x
    BY <1>2, <1>3, <1>10 DEF LoopRow
  <1>11. ASSUME UNCHANGED histVars
         PROVE  HistEffect(x) /\ LastOutcome(x)' = LastOutcome(x) /\ historyMap' = historyMap
    BY <1>11 DEF HistEffect, histVars, LastOutcome
  <1> DEFINE Fine ==
        /\ HistEffect(x)
        /\ row' = row \/ \E c : row' = [row EXCEPT ![x] = c]
        /\ row'[x].status # "none" /\ row'[x].rpa = row[x].rpa
        /\ loop'[l].pc \in WorkPcs \cup {"take"}
        /\ loop'[l].pc # "take" => loop'[l].d = x
        /\ loop'[l].todo = loop[l].todo
        /\ Target(x)' = Target(x)
  <1>12. ASSUME FailStep(l) PROVE Fine
    <2>1. /\ loop[l].pc = "failStep" /\ Goto(l, "failHist") /\ row' = row
          /\ UNCHANGED histVars
      BY <1>12 DEF FailStep
    <2>2. loop'[l].pc = "failHist" /\ loop'[l].todo = loop[l].todo /\ loop'[l].d = x
      BY <1>9, <2>1
    <2>3. Target(x)' = Target(x)
      BY <1>5, <1>6, <1>11, <2>1, <2>2 DEF PollShows
    <2> QED BY <1>2, <1>11, <2>1, <2>2, <2>3 DEF WorkPcs
  <1>13. ASSUME FailHist(l) PROVE Fine
    <2>1. loop[l].pc = "failHist" /\ Done(l) /\ row' = row /\ CompleteHistory(x, "failed")
      BY <1>13 DEF FailHist
    <2>2. "failed" \in Ended BY DEF Ended, ExecStatus
    <2>3. LastOutcome(x)' = IF historyMap[x] = 0 THEN LastOutcome(x) ELSE "failed"
      BY <1>0, <1>2, <2>1, <2>2, Closing
    <2>4. Target(x)' = Target(x)
      BY <1>5, <1>7, <1>8, <2>1, <2>3 DEF PollShows, Now
    <2> QED BY <1>2, <1>8, <2>1, <2>2, <2>4 DEF HistEffect
  <1>14. ASSUME CompletedRead(l) \/ LoopCountRead(l) PROVE Fine
    <2>1. PICK from, to : /\ <<from, to>> \in {<<"doneR", "doneW">>, <<"loopR", "loopW">>}
                          /\ ReadRow(l, from, to)
      BY <1>14 DEF CompletedRead, LoopCountRead
    <2>2. /\ loop[l].pc = from /\ row' = row /\ UNCHANGED histVars
          /\ loop' = [loop EXCEPT ![l].pc = to, ![l].row = row[loop[l].d]]
      BY <2>1 DEF ReadRow
    <2>3. loop'[l].pc = to /\ loop'[l].todo = loop[l].todo /\ loop'[l].d = x BY <1>10, <2>2
    <2>4. Target(x)' = Target(x)
      <3>1. CASE from = "doneR" /\ to = "doneW"
        BY <1>5, <1>6, <1>11, <2>2, <2>3, <3>1 DEF PollShows
      <3>2. CASE from = "loopR" /\ to = "loopW"
        BY <1>5, <1>6, <1>11, <2>2, <2>3, <3>2 DEF PollShows
      <3> QED BY <2>1, <3>1, <3>2
    <2>5. to \in WorkPcs BY <2>1 DEF WorkPcs
    <2> QED BY <1>2, <1>11, <2>2, <2>3, <2>4, <2>5
  <1>15. ASSUME CompletedSave(l) PROVE Fine
    <2>1. /\ loop[l].pc = "doneW" /\ Done(l) /\ UNCHANGED histVars
          /\ row' = [row EXCEPT ![loop[l].d] = [loop[l].row EXCEPT !.status = "completed"]]
      BY <1>15 DEF CompletedSave
    <2>2. loop[l].row = row[x] BY <1>2, <2>1 DEF SameRow
    <2>3. row'[x] = [row[x] EXCEPT !.status = "completed"] BY <1>2, <1>3, <2>1, <2>2
    <2>4. /\ row'[x].status = "completed" /\ row'[x].rpa = row[x].rpa
          /\ row'[x].step = row[x].step /\ row'[x].loops = row[x].loops
          /\ row'[x].mode = row[x].mode
      BY <1>2, <2>3 DEF Row
    <2>5. Target(x)' = Target(x)
      BY <1>5, <1>7, <1>8, <1>11, <2>1, <2>4 DEF PollShows, Now, ShowRow
    <2>6. \E c : row' = [row EXCEPT ![x] = c] BY <2>1
    <2> QED BY <1>2, <1>8, <1>11, <2>1, <2>4, <2>5, <2>6
  <1>16. ASSUME LoopCountSave(l) PROVE Fine
    <2>1. /\ loop[l].pc = "loopW" /\ UNCHANGED histVars
          /\ loop' = [loop EXCEPT ![l].pc = "loopRewind", ![l].row = NoRow]
          /\ row' = [row EXCEPT ![loop[l].d] = [loop[l].row EXCEPT !.loops = @ + 1]]
      BY <1>16 DEF LoopCountSave
    <2>2. loop[l].row = row[x] BY <1>2, <2>1 DEF SameRow
    <2>3. PICK n : n = row[x].loops + 1 OBVIOUS
    <2>4. row'[x] = [row[x] EXCEPT !.loops = n] BY <1>2, <1>3, <2>1, <2>2, <2>3
    <2>5. /\ row'[x].status = row[x].status /\ row'[x].rpa = row[x].rpa
          /\ row'[x].loops = n /\ row'[x].mode = row[x].mode
      BY <1>2, <2>4 DEF Row
    <2>6. loop'[l].pc = "loopRewind" /\ loop'[l].todo = loop[l].todo /\ loop'[l].d = x
      BY <1>10, <2>1
    <2>7. Target(x) = ShowRow(row[x], row[x].status, 0, n, "running")
      BY <1>5, <2>1, <2>3 DEF PollShows
    <2>8. Target(x)' = ShowRow(row[x], row[x].status, 0, n, "running")
      BY <1>6, <2>5, <2>6 DEF PollShows, ShowRow
    <2>9. \E c : row' = [row EXCEPT ![x] = c] BY <2>1
    <2> QED BY <1>2, <1>11, <2>1, <2>5, <2>6, <2>7, <2>8, <2>9 DEF WorkPcs
  <1>17. ASSUME LoopRewind(l) PROVE Fine
    <2>1. /\ loop[l].pc = "loopRewind" /\ UNCHANGED histVars /\ Goto(l, "loopHist")
          /\ row' = [row EXCEPT ![x].step = 0, ![x].sub = 0]
      BY <1>17 DEF LoopRewind
    <2>2. row'[x] = [row[x] EXCEPT !.step = 0, !.sub = 0] BY <1>2, <1>3, <2>1
    <2>3. /\ row'[x].status = row[x].status /\ row'[x].rpa = row[x].rpa /\ row'[x].step = 0
          /\ row'[x].loops = row[x].loops /\ row'[x].mode = row[x].mode
      BY <1>2, <2>2 DEF Row
    <2>4. loop'[l].pc = "loopHist" /\ loop'[l].todo = loop[l].todo /\ loop'[l].d = x
      BY <1>9, <2>1
    <2>5. Target(x) = ShowRow(row[x], row[x].status, 0, row[x].loops, "running")
      BY <1>5, <2>1 DEF PollShows
    <2>6. Target(x)' = ShowRow(row[x], row[x].status, 0, row[x].loops, "running")
      BY <1>6, <2>3, <2>4 DEF PollShows, ShowRow
    <2>7. \E c : row' = [row EXCEPT ![x] = c] BY <2>1
    <2> QED BY <1>2, <1>11, <2>1, <2>3, <2>4, <2>5, <2>6, <2>7 DEF WorkPcs
  <1>18. ASSUME LoopHistory(l) PROVE Fine
    <2>1. loop[l].pc = "loopHist" /\ Done(l) /\ row' = row /\ StartHistory(x)
      BY <1>18 DEF LoopHistory
    <2>2. LastOutcome(x)' = "running" BY <1>0, <1>2, <2>1, Opening
    <2>3. Target(x)' = Target(x)
      BY <1>5, <1>7, <1>8, <2>1, <2>2 DEF PollShows, Now
    <2> QED BY <1>2, <1>8, <2>1, <2>3 DEF HistEffect
  <1>19. Fine BY <1>12, <1>13, <1>14, <1>15, <1>16, <1>17, <1>18
  <1> HIDE DEF Fine
  <1>20. /\ HistEffect(x)
         /\ row' = row \/ \E c : row' = [row EXCEPT ![x] = c]
         /\ row'[x].status # "none" /\ row'[x].rpa = row[x].rpa
         /\ loop'[l].pc \in WorkPcs \cup {"take"}
         /\ loop'[l].pc # "take" => loop'[l].d = x
         /\ loop'[l].todo = loop[l].todo
         /\ Target(x)' = Target(x)
    BY <1>19 DEF Fine
  <1>21. /\ loop[l].pc \notin {"off", "wait"}
         /\ loop'[l].pc \notin Polling /\ loop'[l].pc # "setError"
         /\ loop'[l].pc \notin Resting => loop'[l].d = x
    BY <1>1, <1>20 DEF Resting, WorkPcs, Polling
  <1>22. RunInv' /\ Others(x) BY <1>0, <1>2, <1>4, <1>20, <1>21, PollKeeps
  <1> QED BY <1>2, <1>4, <1>20, <1>22, PollStutters DEF Allowed

LEMMA RunNoError ==
  ASSUME RunState, OneLoop, NEW l \in Loop PROVE ~SetDeviceError(l)
  BY DEF SetDeviceError, RunState, RunInv, OnCourse

\* The next device of the tick: it runs, at a step its flow has or behind the last.
LEMMA NextDevice ==
  ASSUME RunStep, NEW l \in Loop, loop[l].pc = "take", NEW d \in loop[l].todo
  PROVE  /\ d \in Device /\ loop[l] \in LoopRow /\ \A r \in Req : req[r].pc = "idle"
         /\ loop[l].snap[d] = row[d] /\ row[d] \in Row /\ row[d].status = "running"
         /\ row[d].rpa \in Flow /\ Found(row[d].rpa)
         /\ flow[row[d].rpa].steps # <<>>
         /\ \A i \in 1 .. Len(flow[row[d].rpa].steps) : flow[row[d].rpa].steps[i] \in {"act", "out"}
         /\ Len(flow[row[d].rpa].steps) \in Nat
         /\ historyMap[d] # 0 <=> LastOutcome(d) = "running"
  <1>0. RunState /\ PlainRuns /\ CauseState BY DEF RunStep, RunState
  <1>1. loop[l] \in LoopRow /\ d \in Device
    BY <1>0 DEF CauseState, TypeInv, LoopT, GoodLoop, LoopRow
  <1>2. \A r \in Req : req[r].pc = "idle" BY <1>0 DEF CauseState, NoOverlap
  <1>3. loop[l].snap[d] = row[d] BY <1>0 DEF CauseState, CauseInv, Calm, SameRow
  <1>4. row[d].status = "running" BY <1>0 DEF RunState, RunInv, OnCourse
  <1>5. /\ row[d] \in Row /\ row[d].rpa \in Flow /\ flow[row[d].rpa].live
        /\ flow[row[d].rpa].steps \in FlowDefs
    BY <1>0, <1>1, <1>2, <1>4, BoundDevice
  <1>6. /\ flow[row[d].rpa].steps # <<>>
        /\ \A i \in 1 .. Len(flow[row[d].rpa].steps) : flow[row[d].rpa].steps[i] \in {"act", "out"}
    BY <1>0, <1>5 DEF PlainRuns
  <1>7. Len(flow[row[d].rpa].steps) \in Nat
    <2>1. flow[row[d].rpa].steps \in Seq(Kind) BY <1>5, EngineAssumption
    <2> QED BY <2>1
  <1> QED BY <1>0, <1>1, <1>2, <1>3, <1>4, <1>5, <1>6, <1>7, OutcomeNow DEF Found

LEMMA RunBroken ==
  ASSUME RunStep, NEW l \in Loop, NEW d \in Device
  PROVE  ~ProcessBroken(l, d) /\ ~ProcessEmpty(l, d)
  <1>1. ASSUME ProcessBroken(l, d) PROVE FALSE
    <2>1. loop[l].pc = "take" /\ d \in loop[l].todo BY <1>1 DEF ProcessBroken
    <2> PICK c : c = loop[l].snap[d] OBVIOUS
    <2>2. /\ c = row[d] /\ row[d] \in Row /\ Found(row[d].rpa)
          /\ Len(flow[row[d].rpa].steps) \in Nat
          /\ \A i \in 1 .. Len(flow[row[d].rpa].steps) : flow[row[d].rpa].steps[i] \in {"act", "out"}
      BY <2>1, NextDevice
    <2>3. c.step < Len(flow[c.rpa].steps) /\ flow[c.rpa].steps[c.step + 1] = "bad"
      BY <1>1, <2>2 DEF ProcessBroken
    <2>4. c.step \in Nat BY <2>2 DEF Row
    <2>5. c.step + 1 \in 1 .. Len(flow[c.rpa].steps) BY <2>2, <2>3, <2>4
    <2> QED BY <2>2, <2>3, <2>5
  <1>2. ASSUME ProcessEmpty(l, d) PROVE FALSE
    <2>1. loop[l].pc = "take" /\ d \in loop[l].todo BY <1>2 DEF ProcessEmpty
    <2> QED BY <1>2, <2>1, NextDevice DEF ProcessEmpty
  <1> QED BY <1>1, <1>2

LEMMA RunAtEnd ==
  ASSUME RunStep, NEW l \in Loop, NEW x \in Device, ProcessAtEnd(l, x)
  PROVE  RunInv' /\ Allowed
  <1>0. RunState /\ OneLoop /\ TypeInv' /\ [Next]_vars BY DEF RunStep
  <1>1. /\ loop[l].pc = "take" /\ x \in loop[l].todo /\ UNCHANGED <<req, flow>> /\ row' = row
        /\ CompleteHistory(x, "success")
    BY DEF ProcessAtEnd
  <1> PICK c : c = loop[l].snap[x] OBVIOUS
  <1>2. /\ loop[l] \in LoopRow /\ \A r \in Req : req[r].pc = "idle"
        /\ c = row[x] /\ c \in Row /\ c.status = "running" /\ c.rpa \in Flow
        /\ historyMap[x] # 0 <=> LastOutcome(x) = "running"
    BY <1>1, NextDevice
  <1>3. c.step >= Len(flow[c.rpa].steps) BY DEF ProcessAtEnd, AtEnd
  <1>4. loop \in [Loop -> GoodLoop] BY <1>0 DEF RunState, CauseState, TypeInv, LoopT
  <1>5. PICK p : p = IF c.mode = "loop" THEN "loopR" ELSE "doneR" OBVIOUS
  <1>6. loop' = [loop EXCEPT ![l].pc = p, ![l].todo = @ \ {x}, ![l].d = x,
                             ![l].cfg = loop[l].snap[x], ![l].snap[x] = NoRow]
    BY <1>5 DEF ProcessAtEnd, Take
  <1>7. loop'[l].pc = p /\ loop'[l].todo = loop[l].todo \ {x} /\ loop'[l].d = x
    BY <1>2, <1>4, <1>6 DEF LoopRow
  <1>8. "success" \in Ended BY DEF Ended, ExecStatus
  <1>9. /\ loop[l].pc \notin {"off", "wait"} /\ loop[l].pc \notin WorkPcs /\ HistEffect(x)
        /\ p \in WorkPcs /\ p \notin Polling /\ p # "setError"
    BY <1>1, <1>5, <1>8 DEF HistEffect, WorkPcs, Polling
  <1>10. RunInv' /\ Others(x)
    BY <1>0, <1>1, <1>2, <1>7, <1>9, PollKeeps
  <1>11. LastOutcome(x)' = IF LastOutcome(x) = "running" THEN "success" ELSE LastOutcome(x)
    BY <1>0, <1>1, <1>2, <1>8, Closing
  <1>12. Target(x) = Now(x) BY <1>0, <1>2, <1>9, PollNow
  <1>13. PollShows(l)' BY <1>0, <1>1, <1>2, <1>7, TargetPollNext
  <1>14. Target(x) = Show("running", c.mode, c.rpa, c.step, c.loops, LastOutcome(x))
    BY <1>2, <1>12 DEF Now, ShowRow
  <1>15. CASE c.mode = "loop"
    <2>1. p = "loopR" BY <1>5, <1>15
    <2>2. Target(x)' = Show("running", "loop", c.rpa, 0, c.loops + 1, "running")
      BY <1>1, <1>2, <1>7, <1>13, <1>15, <2>1 DEF PollShows, ShowRow
    <2>3. F!Next BY <1>1, <1>2, <1>3, <1>10, <1>14, <1>15, <2>2, FRound
    <2> QED BY <1>10, <2>3 DEF Allowed
  <1>16. CASE c.mode = "single"
    <2>1. p = "doneR" BY <1>5, <1>16
    <2>2. Target(x)' = Show("completed", "single", c.rpa, c.step, c.loops,
                         IF LastOutcome(x) = "running" THEN "success" ELSE LastOutcome(x))
      BY <1>1, <1>2, <1>7, <1>11, <1>13, <1>16, <2>1 DEF PollShows, ShowRow
    <2>3. F!Next BY <1>1, <1>2, <1>3, <1>10, <1>14, <1>16, <2>2, FFinish
    <2> QED BY <1>10, <2>3 DEF Allowed
  <1>17. c.mode \in Mode BY <1>2 DEF Row
  <1> QED BY <1>15, <1>16, <1>17 DEF Mode

LEMMA RunProcess ==
  ASSUME RunStep, NEW l \in Loop, NEW x \in Device, ProcessStep(l, x)
  PROVE  RunInv' /\ Allowed
  <1>0. RunState /\ OneLoop /\ TypeInv' /\ [Next]_vars BY DEF RunStep
  <1>1. /\ loop[l].pc = "take" /\ x \in loop[l].todo /\ UNCHANGED <<req, flow>> /\ row' = row
        /\ UNCHANGED histVars
    BY DEF ProcessStep
  <1> PICK c : c = loop[l].snap[x] OBVIOUS
  <1> PICK steps : steps = flow[c.rpa].steps OBVIOUS
  <1>2. /\ loop[l] \in LoopRow /\ \A r \in Req : req[r].pc = "idle"
        /\ c = row[x] /\ c \in Row /\ c.status = "running" /\ c.rpa \in Flow
        /\ \A i \in 1 .. Len(steps) : steps[i] \in {"act", "out"}
        /\ Len(steps) \in Nat
    <2>1. /\ loop[l] \in LoopRow /\ \A r \in Req : req[r].pc = "idle"
          /\ loop[l].snap[x] = row[x] /\ row[x] \in Row /\ row[x].status = "running"
          /\ row[x].rpa \in Flow
      BY <1>1, NextDevice
    <2>2. steps = flow[row[x].rpa].steps BY <2>1
    <2>3. /\ \A i \in 1 .. Len(steps) : steps[i] \in {"act", "out"}
          /\ Len(steps) \in Nat
      BY <1>1, <2>2, NextDevice
    <2> QED BY <2>1, <2>3
  <1>3. /\ c.step < Len(steps)
        /\ loop' = [loop EXCEPT ![l].pc = "exec", ![l].todo = @ \ {x}, ![l].d = x,
                             ![l].cfg = c, ![l].snap[x] = NoRow,
                             ![l].n = Len(steps), ![l].kind = steps[c.step + 1]]
    BY DEF ProcessStep
  <1>4. steps[c.step + 1] \in {"act", "out"}
    <2>1. c.step \in Nat /\ c.step < Len(steps) /\ Len(steps) \in Nat BY <1>2, <1>3 DEF Row
    <2>2. \A s, n \in Nat : s < n => s + 1 \in 1 .. n OBVIOUS
    <2>3. c.step + 1 \in 1 .. Len(steps) BY <2>1, <2>2
    <2> QED BY <1>2, <2>3
  <1>5. loop \in [Loop -> GoodLoop] BY <1>0 DEF RunState, CauseState, TypeInv, LoopT
  <1>6. /\ loop'[l].pc = "exec" /\ loop'[l].todo = loop[l].todo \ {x} /\ loop'[l].d = x
        /\ loop'[l].cfg = c /\ loop'[l].kind = steps[c.step + 1]
    BY <1>2, <1>3, <1>5 DEF LoopRow
  <1>7. /\ loop[l].pc \notin {"off", "wait"} /\ loop[l].pc \notin WorkPcs /\ HistEffect(x)
        /\ loop'[l].pc \notin WorkPcs
    BY <1>1, <1>6 DEF HistEffect, WorkPcs
  <1>8. RunInv' /\ Others(x)
    BY <1>0, <1>1, <1>2, <1>3, <1>4, <1>6, <1>7, PollKeeps DEF Polling, Resting
  <1>9. LastOutcome(x)' = LastOutcome(x) BY <1>1 DEF LastOutcome, histVars
  <1>10. Target(x) = Now(x) /\ Target(x)' = Now(x)'
    BY <1>0, <1>1, <1>2, <1>7, PollNow, PollNowNext
  <1>11. Target(x)' = Target(x) BY <1>1, <1>9, <1>10 DEF Now
  <1> QED BY <1>1, <1>8, <1>11, PollStutters DEF Allowed

LEMMA RunTick ==
  ASSUME RunStep, NEW l \in Loop, Tick(l) \/ EnterSelect(l) \/ ExitLoop(l)
  PROVE  RunInv' /\ Allowed
  <1>0. RunState /\ OneLoop /\ NoOverlap' BY DEF RunStep
  <1>1. loop \in [Loop -> GoodLoop] /\ loop[l] \in LoopRow
    BY <1>0 DEF RunState, CauseState, TypeInv, LoopT, GoodLoop
  <1>2. /\ UNCHANGED row /\ UNCHANGED histVars /\ UNCHANGED flow /\ UNCHANGED req
        /\ loop[l].pc \in Resting
    BY DEF Tick, EnterSelect, ExitLoop, Resting
  <1>3. loop'[l].pc \in Resting /\ \A e \in loop'[l].todo : row[e].status = "running"
    <2>1. CASE Tick(l)
      <3>1. PICK R, s : /\ R = {d \in Device : row[d].status = "running"}
                        /\ loop' = [loop EXCEPT ![l].pc = "take", ![l].todo = R, ![l].snap = s]
        BY <2>1 DEF Tick
      <3>2. loop'[l].pc = "take" /\ loop'[l].todo = R BY <1>1, <3>1 DEF LoopRow
      <3> QED BY <3>1, <3>2 DEF Resting
    <2>2. CASE EnterSelect(l)
      BY <1>1, <2>2 DEF EnterSelect, Select, Resting
    <2>3. CASE ExitLoop(l)
      BY <1>1, <2>3 DEF ExitLoop, NoLoop, Select, Resting
    <2> QED BY <2>1, <2>2, <2>3
  <1>4. \A k \in Loop : loop[k].pc \notin WorkPcs /\ loop'[k].pc \notin WorkPcs
    BY <1>0, <1>2, <1>3 DEF OneLoop, Resting, WorkPcs
  <1>5. \A k \in Loop : OnCourse(loop[k], row)'
    BY <1>0, <1>2, <1>3 DEF OneLoop, OnCourse, Resting, Polling
  <1>6. \A f \in Flow : flow'[f].live BY <1>0, <1>2 DEF RunState, RunInv
  <1>7. RunInv' /\ \A e \in Device : Target(e)' = Target(e)
    BY <1>0, <1>2, <1>4, <1>5, <1>6, NoDeviceStep
  <1> QED BY <1>2, <1>7, FStutter DEF Allowed

LEMMA RunPoll ==
  ASSUME RunStep, NEW l \in Loop, Poll(l)
  PROVE  RunInv' /\ Allowed
  <1>1. RunState /\ OneLoop BY DEF RunStep
  <1> QED BY <1>1, RunExec, RunProgress, RunFail, RunFinish, RunNoError, RunBroken, RunAtEnd,
             RunProcess, RunTick DEF Poll

-----------------------------------------------------------------------------
(* Handlers.                                                                 *)

LEMMA RestCourse ==
  ASSUME RunStep, \A l \in Loop : loop[l].pc \in {"off", "wait"}, loop' = loop
  PROVE  \A l \in Loop : OnCourse(loop[l], row)'
  <1>1. \A l \in Loop : loop[l].todo = {}
    BY DEF RunStep, RunState, CauseState, CauseInv, Calm, SameRow
  <1> QED BY <1>1 DEF OnCourse, Resting, Polling

\* A step of the handler r, at x.
LEMMA HandlerKeeps ==
  ASSUME RunStep, NEW r \in Req, NEW x \in Device, HistEffect(x), UNCHANGED <<loop, flow>>,
         \A q \in Req : q # r => req[q].pc = "idle" /\ req'[q] = req[q],
         \A l \in Loop : loop[l].pc \in {"off", "wait"},
         req[r].pc \in HandlePcs => req[r].d = x,
         req'[r].pc \in HandlePcs => req'[r].d = x,
         row' = row \/ \E c : row' = [row EXCEPT ![x] = c],
         row'[x].status = "none" => row[x].status = "none" /\ nhist' = nhist,
         row'[x].status # "none" /\ row'[x].rpa = NoRpa => req'[r].pc = "bindW",
         historyMap'[x] # 0 => hist'[historyMap'[x]].st = "running" \/ req'[r].pc \in Starting,
         Prepared(req'[r], row')
  PROVE  /\ RunInv' /\ Others(x)
         /\ req[r].pc \notin HandlePcs => Target(x) = Now(x)
         /\ req'[r].pc \notin HandlePcs => Target(x)' = Now(x)'
         /\ req[r].pc \in HandlePcs => HandlerShows(r)
         /\ req'[r].pc \in HandlePcs => HandlerShows(r)'
  <1>0. RunState /\ TypeInv' /\ NoOverlap' /\ [Next]_vars BY DEF RunStep
  <1>1. \A l \in Loop : loop[l].pc \notin WorkPcs /\ loop'[l].pc \notin WorkPcs BY DEF WorkPcs
  <1>2. \A q \in Req : q # r => req[q].pc \notin HandlePcs /\ req'[q].pc \notin HandlePcs
    BY DEF HandlePcs
  <1>3. OnlyAt(x) BY <1>1, <1>2 DEF OnlyAt
  <1>4. OnlyAt(x)' BY <1>1, <1>2 DEF OnlyAt
  <1>5. \A q \in Req : Prepared(req'[q], row')
    BY DEF Prepared
  <1>6. \A f \in Flow : flow'[f].live BY <1>0 DEF RunState, RunInv
  <1>7. \A l \in Loop : OnCourse(loop[l], row)' BY RestCourse
  <1>8. row'[x].status # "none" /\ row'[x].rpa = NoRpa =>
          \E q \in Req : req'[q].pc = "bindW" /\ req'[q].d = x
    BY DEF HandlePcs
  <1>9. historyMap'[x] # 0 => \/ hist'[historyMap'[x]].st = "running"
                              \/ \E q \in Req : req'[q].pc \in Starting /\ req'[q].d = x
    BY DEF HandlePcs, Starting
  <1>10. RunInv' /\ Others(x) BY <1>0, <1>3, <1>4, <1>5, <1>6, <1>7, <1>8, <1>9, OneDevice
  <1>11. req[r].pc \notin HandlePcs => Target(x) = Now(x)
    BY <1>1, <1>2, TargetIdle DEF Idle
  <1>12. req'[r].pc \notin HandlePcs => Target(x)' = Now(x)'
    <2>1. req'[r].pc \notin HandlePcs => Idle(x)' BY <1>1, <1>2 DEF Idle
    <2> QED BY <2>1, TargetIdleNext
  <1>13. req[r].pc \in HandlePcs => HandlerShows(r)
    BY <1>0, TargetHandler DEF RunState, CauseState, HandlePcs
  <1>14. req'[r].pc \in HandlePcs => HandlerShows(r)'
    BY <1>0, TargetHandlerNext DEF HandlePcs
  <1> QED BY <1>10, <1>11, <1>12, <1>13, <1>14

\* What a handler at work finds.
LEMMA AtHandler ==
  ASSUME RunStep, NEW r \in Req, req[r].pc \in HandlePcs
  PROVE  /\ req[r].d \in Device /\ row[req[r].d] \in Row /\ req[r].row \in Row
         /\ req \in [Req -> GoodReq] /\ row \in [Device -> Row]
         /\ \A q \in Req : q # r => req[q].pc = "idle"
         /\ \A l \in Loop : loop[l].pc \in {"off", "wait"}
         /\ Prepared(req[r], row) /\ FreshRow(req[r], row)
         /\ row[req[r].d].status = "none" => row[req[r].d].rpa = NoRpa
         /\ historyMap[req[r].d] # 0 =>
              \/ hist[historyMap[req[r].d]].st = "running"
              \/ req[r].pc \in Starting
         /\ req[r].pc # "bindW" /\ row[req[r].d].status # "none" => Found(row[req[r].d].rpa)
  <1>0. RunState /\ CauseState BY DEF RunStep, RunState
  <1>1. /\ req \in [Req -> GoodReq] /\ row \in [Device -> Row]
        /\ req[r].d \in Device /\ req[r].row \in Row
    BY <1>0 DEF CauseState, TypeInv, ReqT, RowT, GoodReq, ReqRow, HandlePcs
  <1>2. /\ \A q \in Req : q # r => req[q].pc = "idle"
        /\ \A l \in Loop : loop[l].pc \in {"off", "wait"}
    BY <1>0 DEF CauseState, NoOverlap, HandlePcs
  <1>3. /\ Prepared(req[r], row) /\ FreshRow(req[r], row)
        /\ row[req[r].d].status = "none" => row[req[r].d].rpa = NoRpa
    BY <1>0, <1>1 DEF RunState, RunInv, CauseState, CauseInv, NoneUnbound
  <1>4. historyMap[req[r].d] # 0 =>
              \/ hist[historyMap[req[r].d]].st = "running"
              \/ req[r].pc \in Starting
    BY <1>0, <1>1, <1>2 DEF RunState, RunInv, HeldOpen, Starting
  <1>5. req[r].pc # "bindW" /\ row[req[r].d].status # "none" => Found(row[req[r].d].rpa)
    <2> SUFFICES ASSUME req[r].pc # "bindW", row[req[r].d].status # "none"
                 PROVE  Found(row[req[r].d].rpa)
      OBVIOUS
    <2>1. row[req[r].d].rpa # NoRpa BY <1>0, <1>1, <1>2 DEF RunState, RunInv, Bound
    <2>2. row[req[r].d].rpa \in Flow BY <1>1, <2>1 DEF Row
    <2> QED BY <1>0, <2>2 DEF RunState, RunInv, Found
  <1> QED BY <1>1, <1>2, <1>3, <1>4, <1>5

LEMMA RunBindSave ==
  ASSUME RunStep, NEW r \in Req, BindSave(r)
  PROVE  RunInv' /\ Allowed
  <1> PICK x : x = req[r].d OBVIOUS
  <1> PICK c : c = req[r].row OBVIOUS
  <1>1. /\ req[r].pc = "bindW" /\ row' = [row EXCEPT ![x] = c] /\ Reply(r)
        /\ UNCHANGED <<loop, flow>> /\ UNCHANGED histVars
    BY DEF BindSave
  <1>2. req[r].pc \in HandlePcs BY <1>1 DEF HandlePcs
  <1>3. /\ x \in Device /\ c \in Row
        /\ req \in [Req -> GoodReq] /\ row \in [Device -> Row]
        /\ \A q \in Req : q # r => req[q].pc = "idle"
        /\ \A l \in Loop : loop[l].pc \in {"off", "wait"}
        /\ c.status # "none" /\ c.rpa \in Flow
        /\ historyMap[x] # 0 => hist[historyMap[x]].st = "running"
    BY <1>1, <1>2, AtHandler DEF Prepared, FreshRow, Starting
  <1>4. req'[r].pc = "idle" /\ \A q \in Req : q # r => req'[q] = req[q]
    BY <1>1, <1>3 DEF Reply, NoReq
  <1>5. row'[x] = c /\ c.rpa # NoRpa BY <1>1, <1>3, EngineAssumption
  <1>6. /\ HistEffect(x) /\ LastOutcome(x)' = LastOutcome(x)
        /\ hist' = hist /\ historyMap' = historyMap
    BY <1>1 DEF HistEffect, histVars, LastOutcome
  <1>7. req'[r].pc \notin HandlePcs /\ Prepared(req'[r], row') BY <1>4 DEF HandlePcs, Prepared
  <1>8. /\ RunInv' /\ Others(x) /\ HandlerShows(r) /\ Target(x)' = Now(x)'
    BY <1>1, <1>2, <1>3, <1>4, <1>5, <1>6, <1>7, HandlerKeeps
  <1>9. Target(x)' = Target(x)
    BY <1>1, <1>5, <1>6, <1>8 DEF HandlerShows, Now
  <1> QED BY <1>1, <1>3, <1>8, <1>9, PollStutters DEF Allowed

LEMMA RunStartRead ==
  ASSUME RunStep, NEW r \in Req, StartRead(r)
  PROVE  RunInv' /\ Allowed
  <1> PICK x : x = req[r].d OBVIOUS
  <1> PICK c : c = row[x] OBVIOUS
  <1>1. /\ req[r].pc = "startR" /\ UNCHANGED <<loop, flow>> /\ UNCHANGED histVars /\ row' = row
    BY DEF StartRead
  <1>2. req[r].pc \in HandlePcs BY <1>1 DEF HandlePcs
  <1>3. /\ x \in Device /\ c \in Row
        /\ req \in [Req -> GoodReq]
        /\ \A q \in Req : q # r => req[q].pc = "idle"
        /\ \A l \in Loop : loop[l].pc \in {"off", "wait"}
        /\ c.status = "none" => c.rpa = NoRpa
        /\ c.status # "none" => Found(c.rpa)
    BY <1>1, <1>2, AtHandler
  <1>4. /\ HistEffect(x) /\ LastOutcome(x)' = LastOutcome(x)
        /\ hist' = hist /\ historyMap' = historyMap /\ nhist' = nhist
    BY <1>1 DEF HistEffect, histVars, LastOutcome
  <1>5. Started(x)' = Started(x) BY <1>1, <1>4 DEF Started, Found
  <1>6. ASSUME c.status = "none"
        PROVE  /\ req'[r].pc = "startHist" /\ req'[r].d = x
               /\ \A q \in Req : q # r => req'[q] = req[q]
    BY <1>3, <1>6 DEF StartRead, GoodReq, ReqRow
  <1>7. ASSUME c.status # "none"
        PROVE  /\ req'[r].pc = "startW" /\ req'[r].d = x
               /\ \A q \in Req : q # r => req'[q] = req[q]
               /\ req'[r].row.status = "running" /\ req'[r].row.step = 0
               /\ req'[r].row.rpa = c.rpa /\ req'[r].row.mode = c.mode
               /\ req'[r].row.loops = c.loops
    <2> PICK n : n = starts + 1 OBVIOUS
    <2> PICK new : new = [c EXCEPT !.status = "running", !.step = 0, !.sub = 0, !.run = n, !.vars = {}]
      OBVIOUS
    <2>1. req' = [req EXCEPT ![r].pc = "startW", ![r].row = new] BY <1>7 DEF StartRead
    <2>2. /\ req'[r].pc = "startW" /\ req'[r].d = x /\ req'[r].row = new
          /\ \A q \in Req : q # r => req'[q] = req[q]
      BY <1>3, <2>1 DEF GoodReq, ReqRow
    <2>3. /\ new.status = "running" /\ new.step = 0 /\ new.rpa = c.rpa /\ new.mode = c.mode
          /\ new.loops = c.loops
      BY <1>3 DEF Row
    <2> QED BY <2>2, <2>3
  <1>8. /\ req'[r].pc \in {"startW", "startHist"} /\ req'[r].d = x
        /\ \A q \in Req : q # r => req'[q] = req[q]
    BY <1>6, <1>7
  <1>9. Prepared(req'[r], row') BY <1>1, <1>6, <1>7 DEF Prepared
  <1>10. req'[r].pc \in HandlePcs /\ req'[r].pc \in Starting BY <1>8 DEF HandlePcs, Starting
  <1>11. c.status # "none" => c.rpa # NoRpa BY <1>3, EngineAssumption DEF Found
  <1>12. RunInv' /\ Others(x) /\ HandlerShows(r) /\ HandlerShows(r)'
    BY <1>1, <1>2, <1>3, <1>4, <1>8, <1>9, <1>10, <1>11, HandlerKeeps
  <1>13. CASE c.status = "none"
    <2>1. Target(x) = Now(x) BY <1>1, <1>12, <1>13 DEF HandlerShows
    <2>2. Target(x)' = ShowRow(c, c.status, c.step, c.loops, Started(x))
      BY <1>1, <1>5, <1>6, <1>12, <1>13 DEF HandlerShows
    <2>3. Started(x) = LastOutcome(x) BY <1>3, <1>13, EngineAssumption DEF Started, Found
    <2> QED BY <1>1, <1>3, <1>12, <2>1, <2>2, <2>3, PollStutters DEF Allowed, Now
  <1>14. CASE c.status # "none"
    <2>1. Target(x) = ShowRow(c, "running", 0, c.loops, Started(x))
      BY <1>1, <1>12, <1>14 DEF HandlerShows
    <2>2. Target(x)' = ShowRow(c, "running", 0, c.loops, Started(x))
      BY <1>1, <1>5, <1>7, <1>12, <1>14 DEF HandlerShows
    <2> QED BY <1>1, <1>3, <1>12, <2>1, <2>2, PollStutters DEF Allowed
  <1> QED BY <1>13, <1>14

LEMMA RunStartSave ==
  ASSUME RunStep, NEW r \in Req, StartSave(r)
  PROVE  RunInv' /\ Allowed
  <1> PICK x : x = req[r].d OBVIOUS
  <1> PICK c : c = req[r].row OBVIOUS
  <1>1. /\ req[r].pc = "startW" /\ row' = [row EXCEPT ![x] = c]
        /\ req' = [req EXCEPT ![r].pc = "startHist", ![r].row = NoRow]
        /\ UNCHANGED <<loop, flow>> /\ UNCHANGED histVars
    BY DEF StartSave
  <1>2. req[r].pc \in HandlePcs BY <1>1 DEF HandlePcs
  <1>3. /\ x \in Device /\ c \in Row
        /\ req \in [Req -> GoodReq] /\ row \in [Device -> Row]
        /\ \A q \in Req : q # r => req[q].pc = "idle"
        /\ \A l \in Loop : loop[l].pc \in {"off", "wait"}
        /\ row[x].status # "none" /\ Found(row[x].rpa)
    BY <1>1, <1>2, AtHandler DEF Prepared
  <1>4. /\ c.status = "running" /\ c.step = 0 /\ c.rpa = row[x].rpa /\ c.mode = row[x].mode
        /\ c.loops = row[x].loops
    BY <1>1, <1>2, AtHandler DEF Prepared
  <1>5. /\ req'[r].pc = "startHist" /\ req'[r].d = x
        /\ \A q \in Req : q # r => req'[q] = req[q]
    BY <1>1, <1>3 DEF GoodReq, ReqRow
  <1>6. row'[x] = c /\ c.rpa # NoRpa BY <1>1, <1>3, <1>4, EngineAssumption DEF Found
  <1>7. /\ HistEffect(x) /\ LastOutcome(x)' = LastOutcome(x)
        /\ hist' = hist /\ historyMap' = historyMap
    BY <1>1 DEF HistEffect, histVars, LastOutcome
  <1>8. req'[r].pc \in HandlePcs /\ req'[r].pc \in Starting /\ Prepared(req'[r], row')
    BY <1>5 DEF HandlePcs, Starting, Prepared
  <1>9. RunInv' /\ Others(x) /\ HandlerShows(r) /\ HandlerShows(r)'
    BY <1>1, <1>2, <1>3, <1>4, <1>5, <1>6, <1>7, <1>8, HandlerKeeps
  <1>10. Started(x)' = Started(x) BY <1>1, <1>4, <1>6, <1>7 DEF Started, Found
  <1>11. Target(x) = ShowRow(row[x], "running", 0, row[x].loops, Started(x))
    BY <1>1, <1>3, <1>9 DEF HandlerShows
  <1>12. Target(x)' = ShowRow(c, c.status, c.step, c.loops, Started(x))
    BY <1>5, <1>6, <1>9, <1>10 DEF HandlerShows
  <1>13. Target(x)' = Target(x) BY <1>4, <1>11, <1>12 DEF ShowRow
  <1> QED BY <1>1, <1>3, <1>9, <1>13, PollStutters DEF Allowed

LEMMA RunStartOpen ==
  ASSUME RunStep, NEW r \in Req, StartOpen(r)
  PROVE  RunInv' /\ Allowed
  <1> PICK x : x = req[r].d OBVIOUS
  <1> PICK c : c = row[x] OBVIOUS
  <1>0. RunState /\ TypeInv' BY DEF RunStep
  <1>1. /\ req[r].pc = "startHist" /\ row' = row /\ Reply(r) /\ UNCHANGED <<loop, flow>>
        /\ IF Found(c.rpa) THEN StartHistory(x) ELSE UNCHANGED histVars
    BY DEF StartOpen
  <1>2. req[r].pc \in HandlePcs BY <1>1 DEF HandlePcs
  <1>3. /\ x \in Device /\ c \in Row
        /\ req \in [Req -> GoodReq]
        /\ \A q \in Req : q # r => req[q].pc = "idle"
        /\ \A l \in Loop : loop[l].pc \in {"off", "wait"}
        /\ c.status = "none" => c.rpa = NoRpa
        /\ c.status # "none" => Found(c.rpa)
    BY <1>1, <1>2, AtHandler
  <1>4. req'[r].pc = "idle" /\ \A q \in Req : q # r => req'[q] = req[q]
    BY <1>1, <1>3 DEF Reply, NoReq
  <1>5. req'[r].pc \notin HandlePcs /\ Prepared(req'[r], row') BY <1>4 DEF HandlePcs, Prepared
  <1>6. ASSUME Found(c.rpa)
        PROVE  /\ HistEffect(x) /\ LastOutcome(x)' = "running"
               /\ hist'[historyMap'[x]].st = "running"
    BY <1>0, <1>1, <1>3, <1>6, Opening DEF HistEffect
  <1>7. ASSUME ~Found(c.rpa)
        PROVE  /\ HistEffect(x) /\ LastOutcome(x)' = LastOutcome(x) /\ nhist' = nhist
               /\ historyMap'[x] = 0
    <2>1. nhist' = nhist /\ hist' = hist /\ historyMap' = historyMap BY <1>1, <1>7 DEF histVars
    <2>2. \A h \in 1 .. nhist : hist[h].dev # x
      BY <1>0, <1>3, <1>7 DEF RunState, RunInv, NoneUnused
    <2>3. historyMap[x] = 0
      <3> SUFFICES ASSUME historyMap[x] # 0 PROVE FALSE
        OBVIOUS
      <3>1. historyMap[x] <= nhist /\ hist[historyMap[x]].dev = x
        BY <1>0, <1>3 DEF RunState, CauseState, HistInv, LiveHistoryIsNewest
      <3>2. historyMap[x] \in 0 .. MaxHist /\ nhist \in Nat /\ MaxHist \in Nat
        BY <1>0, <1>3, HistBounds DEF RunState, CauseState
      <3>3. historyMap[x] \in 1 .. nhist BY <3>1, <3>2
      <3> QED BY <2>2, <3>1, <3>3
    <2> QED BY <1>1, <1>7, <2>1, <2>3 DEF HistEffect, LastOutcome
  <1>8. c.status # "none" => c.rpa # NoRpa BY <1>3, EngineAssumption DEF Found
  <1>9. c.status = "none" => ~Found(c.rpa) BY <1>3, EngineAssumption DEF Found
  <1>10. RunInv' /\ Others(x) /\ HandlerShows(r) /\ Target(x)' = Now(x)'
    BY <1>1, <1>2, <1>3, <1>4, <1>5, <1>6, <1>7, <1>8, <1>9, HandlerKeeps
  <1>11. Target(x) = ShowRow(c, c.status, c.step, c.loops, Started(x))
    BY <1>1, <1>10 DEF HandlerShows
  <1>12. LastOutcome(x)' = Started(x) BY <1>6, <1>7 DEF Started
  <1>13. Target(x)' = Target(x) BY <1>1, <1>10, <1>11, <1>12 DEF Now
  <1> QED BY <1>1, <1>3, <1>10, <1>13, PollStutters DEF Allowed

\* UPDATE ... WHERE device_id = x.
LEMMA ColumnsSet ==
  ASSUME row \in [Device -> Row], NEW x \in Device, NEW new, SetColumns(x, new)
  PROVE  /\ row[x].status = "none" => row' = row
         /\ row[x].status # "none" => row' = [row EXCEPT ![x] = new] /\ row'[x] = new
  BY DEF SetColumns

LEMMA RunStopSave ==
  ASSUME RunStep, NEW r \in Req, StopSave(r)
  PROVE  RunInv' /\ Allowed
  <1> PICK x : x = req[r].d OBVIOUS
  <1> PICK c : c = row[x] OBVIOUS
  <1> PICK new : new = [c EXCEPT !.status = "idle", !.step = 0, !.sub = 0] OBVIOUS
  <1>1. /\ req[r].pc = "stopW" /\ SetColumns(x, new) /\ Reply(r)
        /\ UNCHANGED <<loop, flow>> /\ UNCHANGED histVars
    BY DEF StopSave
  <1>2. req[r].pc \in HandlePcs BY <1>1 DEF HandlePcs
  <1>3. /\ x \in Device /\ c \in Row
        /\ req \in [Req -> GoodReq] /\ row \in [Device -> Row]
        /\ \A q \in Req : q # r => req[q].pc = "idle"
        /\ \A l \in Loop : loop[l].pc \in {"off", "wait"}
        /\ c.status # "none" => Found(c.rpa)
        /\ historyMap[x] # 0 => hist[historyMap[x]].st = "running"
    BY <1>1, <1>2, AtHandler DEF Starting
  <1>4. req'[r].pc = "idle" /\ \A q \in Req : q # r => req'[q] = req[q]
    BY <1>1, <1>3 DEF Reply, NoReq
  <1>5. req'[r].pc \notin HandlePcs /\ Prepared(req'[r], row') BY <1>4 DEF HandlePcs, Prepared
  <1>6. /\ HistEffect(x) /\ LastOutcome(x)' = LastOutcome(x)
        /\ hist' = hist /\ historyMap' = historyMap /\ nhist' = nhist
    BY <1>1 DEF HistEffect, histVars, LastOutcome
  <1>7. /\ new.status = "idle" /\ new.step = 0 /\ new.rpa = c.rpa /\ new.mode = c.mode
        /\ new.loops = c.loops
    BY <1>3 DEF Row
  <1>8. /\ c.status = "none" => row' = row
        /\ c.status # "none" => row' = [row EXCEPT ![x] = new] /\ row'[x] = new
    BY <1>1, <1>3, ColumnsSet
  <1>9. c.status # "none" => c.rpa # NoRpa BY <1>3, EngineAssumption DEF Found
  <1>10. row' = row \/ \E v : row' = [row EXCEPT ![x] = v] BY <1>8
  <1>11. /\ row'[x].status = "none" => c.status = "none"
         /\ ~(row'[x].status # "none" /\ row'[x].rpa = NoRpa)
    BY <1>7, <1>8, <1>9
  <1>12. historyMap'[x] # 0 => hist'[historyMap'[x]].st = "running" BY <1>3, <1>6
  <1>13. RunInv' /\ Others(x) /\ HandlerShows(r) /\ Target(x)' = Now(x)'
    BY <1>1, <1>2, <1>3, <1>4, <1>5, <1>6, <1>10, <1>11, <1>12, HandlerKeeps
  <1>14. CASE c.status = "none"
    <2>1. Target(x) = Now(x) BY <1>1, <1>13, <1>14 DEF HandlerShows
    <2> QED BY <1>1, <1>3, <1>6, <1>8, <1>13, <1>14, <2>1, PollStutters DEF Allowed, Now
  <1>15. CASE c.status # "none"
    <2>1. Target(x) = ShowRow(c, "idle", 0, c.loops, LastOutcome(x))
      BY <1>1, <1>13, <1>15 DEF HandlerShows
    <2>2. Target(x)' = ShowRow(c, "idle", 0, c.loops, LastOutcome(x))
      BY <1>6, <1>7, <1>8, <1>13, <1>15 DEF Now, ShowRow
    <2> QED BY <1>1, <1>3, <1>13, <2>1, <2>2, PollStutters DEF Allowed
  <1> QED BY <1>14, <1>15

\* The handlers of the engine's own switch, and the goroutine they start.
LEMMA RunSwitch ==
  ASSUME RunStep, NEW r \in Req,
         \/ StopEngineWait(r) \/ StartEngine(r) \/ StopEngine(r) \/ \E l \in Loop : StartLoop(r, l)
  PROVE  RunInv' /\ Allowed
  <1>0. RunState /\ NoOverlap' /\ CauseState /\ Quiet BY DEF RunStep, RunState
  <1>1. req \in [Req -> GoodReq] /\ loop \in [Loop -> GoodLoop]
    BY <1>0 DEF CauseState, TypeInv, ReqT, LoopT
  <1>2. UNCHANGED row /\ UNCHANGED histVars /\ UNCHANGED flow
    BY DEF StopEngineWait, StartEngine, StopEngine, StartLoop
  <1>3. \A l \in Loop : loop[l].pc \in {"off", "wait"}
    <2>1. MayOverlap \/ req[r].pc \in {"wgWait", "goLoop"}
      BY DEF StopEngineWait, StartEngine, StopEngine, StartLoop, Begin
    <2> QED BY <1>0, <2>1 DEF MayOverlap, CauseState, NoOverlap
  <1>4. \A q \in Req : \/ req'[q] = req[q]
                       \/ req[q].pc \notin HandlePcs /\ req'[q].pc \notin HandlePcs
    <2>1. CASE StopEngineWait(r) \/ \E l \in Loop : StartLoop(r, l)
      <3>1. Reply(r) /\ req[r].pc \in {"wgWait", "goLoop"} BY <2>1 DEF StopEngineWait, StartLoop
      <3>2. req'[r].pc = "idle" /\ \A q \in Req : q # r => req'[q] = req[q]
        BY <1>1, <3>1 DEF Reply, NoReq
      <3> QED BY <3>1, <3>2 DEF HandlePcs
    <2>2. CASE StartEngine(r) \/ StopEngine(r)
      <3>1. /\ req[r].pc = "idle"
            /\ req' = req \/ \E p \in {"goLoop", "wgWait"} : req' = [req EXCEPT ![r].pc = p]
        BY <2>2 DEF StartEngine, StopEngine, Begin
      <3>2. CASE req' = req BY <3>2
      <3>3. ASSUME NEW p \in {"goLoop", "wgWait"}, req' = [req EXCEPT ![r].pc = p]
            PROVE  req'[r].pc = p /\ \A q \in Req : q # r => req'[q] = req[q]
        BY <1>1, <3>3 DEF GoodReq, ReqRow
      <3> QED BY <3>1, <3>2, <3>3 DEF HandlePcs
    <2> QED BY <2>1, <2>2
  <1>5. \A k \in Loop : OnCourse(loop[k], row)' /\ loop'[k].pc \notin WorkPcs
    <2>1. CASE loop' = loop BY <1>3, <2>1, RestCourse DEF WorkPcs
    <2>2. ASSUME NEW l \in Loop, StartLoop(r, l)
          PROVE  \A k \in Loop : OnCourse(loop[k], row)' /\ loop'[k].pc \notin WorkPcs
      <3>1. loop' = [loop EXCEPT ![l] = Beginning(stopCh)] BY <2>2 DEF StartLoop
      <3>2. \A k \in Loop : loop[k].todo = {}
        BY <1>0, <1>3 DEF CauseState, CauseInv, Calm, SameRow
      <3>3. ASSUME NEW k \in Loop
            PROVE  loop'[k].pc \in Resting /\ loop'[k].todo = {}
        BY <1>1, <1>3, <3>1, <3>2 DEF Beginning, Select, Resting
      <3> QED BY <3>3 DEF OnCourse, Resting, Polling, WorkPcs
    <2> QED BY <2>1, <2>2 DEF StopEngineWait, StartEngine, StopEngine
  <1>6. \A k \in Loop : loop[k].pc \notin WorkPcs BY <1>3 DEF WorkPcs
  <1>7. \A f \in Flow : flow'[f].live BY <1>0, <1>2 DEF RunState, RunInv
  <1>8. RunInv' /\ \A e \in Device : Target(e)' = Target(e)
    BY <1>0, <1>2, <1>4, <1>5, <1>6, <1>7, NoDeviceStep
  <1> QED BY <1>2, <1>8, FStutter DEF Allowed

LEMMA RunHandle ==
  ASSUME RunStep, NEW r \in Req, Handle(r) PROVE RunInv' /\ Allowed
  BY RunBindSave, RunStartRead, RunStartSave, RunStartOpen, RunStopSave, RunSwitch DEF Handle

\* What a handler that begins finds.
LEMMA AtRequest ==
  ASSUME RunStep, Request
  PROVE  /\ RunState /\ TypeInv' /\ NoOverlap' /\ [Next]_vars
         /\ req \in [Req -> GoodReq] /\ row \in [Device -> Row] /\ flow \in [Flow -> FlowRow]
         /\ \A q \in Req : req[q].pc = "idle"
         /\ \A l \in Loop : loop[l].pc \in {"off", "wait"}
         /\ loop' = loop
         /\ \A d \in Device : /\ Target(d) = Now(d)
                              /\ row[d].status = "none" => row[d].rpa = NoRpa
                              /\ row[d].status # "none" => row[d].rpa # NoRpa /\ Found(row[d].rpa)
                              /\ historyMap[d] # 0 => hist[historyMap[d]].st = "running"
  <1>0. RunState /\ CauseState /\ TypeInv' /\ NoOverlap' /\ [Next]_vars /\ Quiet
    BY DEF RunStep, RunState
  <1>1. req \in [Req -> GoodReq] /\ row \in [Device -> Row] /\ flow \in [Flow -> FlowRow]
    BY <1>0 DEF CauseState, TypeInv, ReqT, RowT, FlowT
  <1>2. /\ \A q \in Req : req[q].pc = "idle"
        /\ \A l \in Loop : loop[l].pc \in {"off", "wait"}
        /\ loop' = loop
    BY <1>0, RequestReq DEF CauseState
  <1>3. ASSUME NEW d \in Device PROVE Target(d) = Now(d)
    <2>1. Idle(d) BY <1>2 DEF Idle, WorkPcs, HandlePcs
    <2> QED BY <2>1, TargetIdle
  <1>4. ASSUME NEW d \in Device, row[d].status # "none"
        PROVE  row[d].rpa # NoRpa /\ Found(row[d].rpa)
    <2>1. row[d].rpa \in Flow /\ flow[row[d].rpa].live BY <1>0, <1>2, <1>4, BoundDevice
    <2> QED BY <2>1, EngineAssumption DEF Found
  <1>5. \A d \in Device : row[d].status = "none" => row[d].rpa = NoRpa
    BY <1>0 DEF CauseState, CauseInv, NoneUnbound
  <1>6. \A d \in Device : historyMap[d] # 0 => hist[historyMap[d]].st = "running"
    BY <1>0, <1>2 DEF RunState, RunInv, HeldOpen, Starting
  <1> QED BY <1>0, <1>1, <1>2, <1>3, <1>4, <1>5, <1>6

LEMMA RunBindRead ==
  ASSUME RunStep, Request, NEW r \in Req, NEW x \in Device, NEW f \in Flow, NEW m \in Mode,
         BindRead(r, x, f, m)
  PROVE  RunInv' /\ Allowed
  <1> PICK old : old = IF row[x].status = "none" THEN [NoRow EXCEPT !.status = "idle"] ELSE row[x]
    OBVIOUS
  <1> PICK new : new = [old EXCEPT !.rpa = f, !.mode = m, !.status = "idle", !.step = 0,
                                   !.sub = 0, !.loops = 0]
    OBVIOUS
  <1>1. /\ row' = [row EXCEPT ![x] = old]
        /\ req' = [req EXCEPT ![r] = [pc |-> "bindW", d |-> x, row |-> new]]
        /\ UNCHANGED <<loop, flow>> /\ UNCHANGED histVars
    BY DEF BindRead
  <1>2. /\ req \in [Req -> GoodReq] /\ row \in [Device -> Row]
        /\ \A q \in Req : req[q].pc = "idle"
        /\ \A l \in Loop : loop[l].pc \in {"off", "wait"}
        /\ historyMap[x] # 0 => hist[historyMap[x]].st = "running"
    BY AtRequest
  <1>3. old \in Row /\ old.status # "none" BY <1>2, NoRowType DEF Row, Status, NoRow
  <1>4. /\ new.rpa = f /\ new.mode = m /\ new.status = "idle" /\ new.step = 0 /\ new.loops = 0
    BY <1>3 DEF Row
  <1>5. /\ req'[r].pc = "bindW" /\ req'[r].d = x /\ req'[r].row = new
        /\ \A q \in Req : q # r => req'[q] = req[q]
    BY <1>1, <1>2
  <1>6. row'[x] = old BY <1>1, <1>2
  <1>7. row' = row \/ \E c : row' = [row EXCEPT ![x] = c] BY <1>1
  <1>8. row'[x].status = "none" => row[x].status = "none" /\ nhist' = nhist BY <1>3, <1>6
  <1>9. row'[x].status # "none" /\ row'[x].rpa = NoRpa => req'[r].pc = "bindW" BY <1>5
  <1>10. /\ HistEffect(x) /\ LastOutcome(x)' = LastOutcome(x)
        /\ hist' = hist /\ historyMap' = historyMap
    BY <1>1 DEF HistEffect, histVars, LastOutcome
  <1>11. Prepared(req'[r], row') BY <1>4, <1>5 DEF Prepared
  <1>12. \A q \in Req : q # r => req[q].pc = "idle" /\ req'[q] = req[q] BY <1>2, <1>5
  <1>13. historyMap'[x] # 0 => hist'[historyMap'[x]].st = "running" BY <1>2, <1>10
  <1>14. req[r].pc \notin HandlePcs /\ req'[r].pc \in HandlePcs BY <1>2, <1>5 DEF HandlePcs
  <1>15. RunInv' /\ Others(x) /\ Target(x) = Now(x) /\ HandlerShows(r)'
    <2>1. /\ UNCHANGED <<loop, flow>> /\ HistEffect(x)
          /\ \A l \in Loop : loop[l].pc \in {"off", "wait"}
          /\ req[r].pc \in HandlePcs => req[r].d = x
          /\ req'[r].pc \in HandlePcs => req'[r].d = x
      BY <1>1, <1>2, <1>5, <1>10, <1>14
    <2>2. historyMap'[x] # 0 =>
            hist'[historyMap'[x]].st = "running" \/ req'[r].pc \in Starting
      BY <1>13
    <2> QED BY <1>7, <1>8, <1>9, <1>11, <1>12, <1>14, <2>1, <2>2, HandlerKeeps
  <1>16. Target(x)' = Show("idle", m, f, 0, 0, LastOutcome(x))
    BY <1>4, <1>5, <1>10, <1>15 DEF HandlerShows, ShowRow
  <1>17. Target(x) = Show(row[x].status, row[x].mode, row[x].rpa, row[x].step, row[x].loops,
                          LastOutcome(x))
    BY <1>15 DEF Now, ShowRow
  <1> QED BY <1>1, <1>15, <1>16, <1>17, FBind DEF Allowed

LEMMA RunStartCancel ==
  ASSUME RunStep, Request, NEW r \in Req, NEW x \in Device, StartCancel(r, x)
  PROVE  RunInv' /\ Allowed
  <1> PICK c : c = row[x] OBVIOUS
  <1>0. RunState /\ TypeInv' BY AtRequest
  <1>1. /\ row' = row /\ req' = [req EXCEPT ![r] = [NoReq EXCEPT !.pc = "startR", !.d = x]]
        /\ UNCHANGED <<loop, flow>> /\ nhist' = nhist
    BY DEF StartCancel
  <1>2. /\ req \in [Req -> GoodReq] /\ c \in Row
        /\ \A q \in Req : req[q].pc = "idle"
        /\ \A l \in Loop : loop[l].pc \in {"off", "wait"}
        /\ c.status # "none" => c.rpa # NoRpa /\ Found(c.rpa)
    BY AtRequest
  <1>3. /\ req'[r].pc = "startR" /\ req'[r].d = x
        /\ \A q \in Req : q # r => req'[q] = req[q]
    BY <1>1, <1>2 DEF NoReq
  <1>4. HistEffect(x) /\ LastOutcome(x)' = Cancelled(LastOutcome(x))
    BY <1>0, <1>2, Cancelling DEF HistEffect
  <1>5. Prepared(req'[r], row') BY <1>3 DEF Prepared
  <1>6. req[r].pc \notin HandlePcs /\ req'[r].pc \in HandlePcs /\ req'[r].pc \in Starting
    BY <1>2, <1>3 DEF HandlePcs, Starting
  <1>7. RunInv' /\ Others(x) /\ Target(x) = Now(x) /\ HandlerShows(r)'
    BY <1>1, <1>2, <1>3, <1>4, <1>5, <1>6, HandlerKeeps
  <1>8. CASE c.status = "none"
    <2>1. \A h \in 1 .. nhist : hist[h].dev # x BY <1>0, <1>8 DEF RunState, RunInv, NoneUnused
    <2>2. LastOutcome(x) = "none" BY <2>1, OutcomeNone, LastOutcomeOf
    <2>3. LastOutcome(x)' = LastOutcome(x) BY <1>4, <2>2 DEF Cancelled
    <2>4. Target(x)' = Now(x)' BY <1>1, <1>3, <1>7, <1>8 DEF HandlerShows
    <2>5. Target(x)' = Target(x) BY <1>1, <1>7, <2>3, <2>4 DEF Now
    <2> QED BY <1>1, <1>7, <2>5, PollStutters DEF Allowed
  <1>9. CASE c.status # "none"
    <2>1. Found(c.rpa)' /\ c.rpa \in Flow BY <1>1, <1>2, <1>9 DEF Found
    <2>2. Started(x)' = "running" BY <1>1, <2>1 DEF Started
    <2>3. Target(x)' = Show("running", c.mode, c.rpa, 0, c.loops, "running")
      BY <1>1, <1>3, <1>7, <1>9, <2>2 DEF HandlerShows, ShowRow
    <2>4. Target(x) = Show(c.status, c.mode, c.rpa, c.step, c.loops, LastOutcome(x))
      BY <1>7 DEF Now, ShowRow
    <2>5. F!Next BY <1>1, <1>7, <1>9, <2>1, <2>3, <2>4, FStart
    <2> QED BY <1>7, <2>5 DEF Allowed
  <1> QED BY <1>8, <1>9

LEMMA RunStopHistory ==
  ASSUME RunStep, Request, NEW r \in Req, NEW x \in Device, StopHistory(r, x)
  PROVE  RunInv' /\ Allowed
  <1> PICK c : c = row[x] OBVIOUS
  <1>0. RunState /\ TypeInv' BY AtRequest
  <1>1. /\ row' = row /\ req' = [req EXCEPT ![r] = [NoReq EXCEPT !.pc = "stopW", !.d = x]]
        /\ UNCHANGED <<loop, flow>> /\ nhist' = nhist /\ CompleteHistory(x, "cancelled")
    BY DEF StopHistory, CompleteHistory
  <1>2. /\ req \in [Req -> GoodReq] /\ c \in Row
        /\ \A q \in Req : req[q].pc = "idle"
        /\ \A l \in Loop : loop[l].pc \in {"off", "wait"}
        /\ c.status # "none" => c.rpa # NoRpa /\ Found(c.rpa)
    BY AtRequest
  <1>3. /\ req'[r].pc = "stopW" /\ req'[r].d = x
        /\ \A q \in Req : q # r => req'[q] = req[q]
    BY <1>1, <1>2 DEF NoReq
  <1>4. "cancelled" \in Ended BY DEF Ended, ExecStatus
  <1>5. HistEffect(x) BY <1>1, <1>4 DEF HistEffect
  <1>6. /\ LastOutcome(x)' = IF historyMap[x] = 0 THEN LastOutcome(x) ELSE "cancelled"
        /\ historyMap'[x] = 0
    BY <1>0, <1>1, <1>4, Closing
  <1>7. historyMap[x] # 0 <=> LastOutcome(x) = "running" BY <1>0, <1>2, OutcomeNow
  <1>8. LastOutcome(x)' = Cancelled(LastOutcome(x)) BY <1>6, <1>7 DEF Cancelled
  <1>9. Prepared(req'[r], row') BY <1>3 DEF Prepared
  <1>10. req[r].pc \notin HandlePcs /\ req'[r].pc \in HandlePcs
    BY <1>2, <1>3 DEF HandlePcs
  <1>11. RunInv' /\ Others(x) /\ Target(x) = Now(x) /\ HandlerShows(r)'
    BY <1>1, <1>2, <1>3, <1>5, <1>6, <1>9, <1>10, HandlerKeeps
  <1>12. CASE c.status = "none"
    <2>1. \A h \in 1 .. nhist : hist[h].dev # x BY <1>0, <1>12 DEF RunState, RunInv, NoneUnused
    <2>2. LastOutcome(x) = "none" BY <2>1, OutcomeNone, LastOutcomeOf
    <2>3. LastOutcome(x)' = LastOutcome(x) BY <1>8, <2>2 DEF Cancelled
    <2>4. Target(x)' = Now(x)' BY <1>1, <1>3, <1>11, <1>12 DEF HandlerShows
    <2>5. Target(x)' = Target(x) BY <1>1, <1>11, <2>3, <2>4 DEF Now
    <2> QED BY <1>1, <1>11, <2>5, PollStutters DEF Allowed
  <1>13. CASE c.status # "none"
    <2>1. Target(x)' = Show("idle", c.mode, c.rpa, 0, c.loops, Cancelled(LastOutcome(x)))
      BY <1>1, <1>3, <1>8, <1>11, <1>13 DEF HandlerShows, ShowRow
    <2>2. Target(x) = Show(c.status, c.mode, c.rpa, c.step, c.loops, LastOutcome(x))
      BY <1>11 DEF Now, ShowRow
    <2>3. F!Next BY <1>1, <1>11, <1>13, <2>1, <2>2, FStop
    <2> QED BY <1>11, <2>3 DEF Allowed
  <1> QED BY <1>12, <1>13

LEMMA RunPause ==
  ASSUME RunStep, Request, NEW x \in Device, Pause(x) \/ Resume(x)
  PROVE  RunInv' /\ Allowed
  <1> PICK c : c = row[x] OBVIOUS
  <1>0. RunState /\ TypeInv' /\ [Next]_vars BY AtRequest
  <1>1. PICK to \in {"paused", "running"} : SetColumns(x, [c EXCEPT !.status = to])
    BY DEF Pause, Resume
  <1> PICK new : new = [c EXCEPT !.status = to] OBVIOUS
  <1>2. UNCHANGED <<loop, flow, req>> /\ UNCHANGED histVars BY DEF Pause, Resume
  <1>3. /\ row \in [Device -> Row] /\ c \in Row
        /\ \A q \in Req : req[q].pc = "idle"
        /\ \A l \in Loop : loop[l].pc \in {"off", "wait"}
        /\ Target(x) = Now(x)
        /\ c.status # "none" => c.rpa # NoRpa /\ Found(c.rpa)
        /\ historyMap[x] # 0 => hist[historyMap[x]].st = "running"
    BY AtRequest
  <1>4. /\ c.status = "none" => row' = row
        /\ c.status # "none" => row' = [row EXCEPT ![x] = new] /\ row'[x] = new
    BY <1>1, <1>3, ColumnsSet
  <1>5. /\ new.status = to /\ new.mode = c.mode /\ new.rpa = c.rpa /\ new.step = c.step
        /\ new.loops = c.loops
    BY <1>3 DEF Row
  <1>6. /\ HistEffect(x) /\ LastOutcome(x)' = LastOutcome(x)
        /\ hist' = hist /\ historyMap' = historyMap /\ nhist' = nhist
    BY <1>2 DEF HistEffect, histVars, LastOutcome
  <1>7. OnlyAt(x) /\ OnlyAt(x)' BY <1>2, <1>3 DEF OnlyAt, WorkPcs, HandlePcs
  <1>8. row' = row \/ \E v : row' = [row EXCEPT ![x] = v] BY <1>4
  <1>9. /\ row'[x].status = "none" => c.status = "none"
        /\ ~(row'[x].status # "none" /\ row'[x].rpa = NoRpa)
    BY <1>3, <1>4, <1>5
  <1>10. \A q \in Req : Prepared(req'[q], row') BY <1>2, <1>3 DEF Prepared
  <1>11. \A l \in Loop : OnCourse(loop[l], row)' BY <1>2, <1>3, RestCourse
  <1>12. \A f \in Flow : flow'[f].live BY <1>0, <1>2 DEF RunState, RunInv
  <1>13. historyMap'[x] # 0 => hist'[historyMap'[x]].st = "running" BY <1>3, <1>6
  <1>14. RunInv' /\ Others(x)
    BY <1>0, <1>6, <1>7, <1>8, <1>9, <1>10, <1>11, <1>12, <1>13, OneDevice
  <1>15. Target(x)' = Now(x)'
    <2>1. Idle(x)' BY <1>2, <1>3 DEF Idle, WorkPcs, HandlePcs
    <2> QED BY <2>1, TargetIdleNext
  <1>16. CASE c.status = "none"
    <2>1. Target(x)' = Target(x) BY <1>3, <1>4, <1>6, <1>15, <1>16 DEF Now
    <2> QED BY <1>2, <1>14, <2>1, PollStutters DEF Allowed
  <1>17. CASE c.status # "none"
    <2>1. Target(x) = Show(c.status, c.mode, c.rpa, c.step, c.loops, LastOutcome(x))
      BY <1>3 DEF Now, ShowRow
    <2>2. Target(x)' = Show(to, c.mode, c.rpa, c.step, c.loops, LastOutcome(x))
      BY <1>4, <1>5, <1>6, <1>15, <1>17 DEF Now, ShowRow
    <2>3. F!Next BY <1>2, <1>14, <1>17, <2>1, <2>2, FPause
    <2> QED BY <1>14, <2>3 DEF Allowed
  <1> QED BY <1>16, <1>17

LEMMA RunSaveFlow ==
  ASSUME RunStep, Request, NEW f \in Flow, NEW steps \in FlowDefs, SaveFlow(f, steps)
  PROVE  RunInv' /\ Allowed
  <1>1. /\ flow' = [flow EXCEPT ![f] = [live |-> TRUE, steps |-> steps]]
        /\ UNCHANGED <<row, loop, req>> /\ UNCHANGED histVars
    BY DEF SaveFlow
  <1>2. /\ RunState /\ NoOverlap' /\ flow \in [Flow -> FlowRow] /\ TypeInv
        /\ \A q \in Req : req[q].pc = "idle"
        /\ \A l \in Loop : loop[l].pc \in {"off", "wait"}
    BY AtRequest DEF RunState, CauseState
  <1>3. \A g \in Flow : flow'[g].live
    <2>1. \A g \in Flow : flow[g].live BY <1>2 DEF RunState, RunInv
    <2> QED BY <1>1, <1>2, <2>1
  <1>4. \A l \in Loop : OnCourse(loop[l], row)' BY <1>1, <1>2, RestCourse
  <1>5. \A l \in Loop : loop[l].pc \notin WorkPcs /\ loop'[l].pc \notin WorkPcs
    BY <1>1, <1>2 DEF WorkPcs
  <1>6. \A q \in Req : req'[q] = req[q] BY <1>1
  <1>7. RunInv' /\ \A e \in Device : Target(e)' = Target(e)
    BY <1>1, <1>2, <1>3, <1>4, <1>5, <1>6, NoDeviceStep
  <1>8. F!Next BY <1>1, <1>2, <1>7, FEdit
  <1> QED BY <1>7, <1>8 DEF Allowed

LEMMA RunRequest ==
  ASSUME RunStep, Request PROVE RunInv' /\ Allowed
  <1>1. \A f \in Flow : ~DeleteFlow(f) BY DEF DeleteFlow, Call, RunStep, PlainRuns
  <1>2. CASE \E r \in Req : StartEngine(r) \/ StopEngine(r) BY <1>2, RunSwitch
  <1>3. CASE ~\E r \in Req : StartEngine(r) \/ StopEngine(r)
    BY <1>1, <1>3, RunBindRead, RunStartCancel, RunStopHistory, RunPause, RunSaveFlow DEF Request
  <1> QED BY <1>2, <1>3
-----------------------------------------------------------------------------
(* Every step.                                                               *)

LEMMA RunStutters ==
  ASSUME RunState, UNCHANGED vars PROVE RunInv' /\ UNCHANGED F!runVars
  <1>1. /\ row' = row /\ flow' = flow /\ hist' = hist /\ nhist' = nhist
        /\ historyMap' = historyMap /\ loop' = loop /\ req' = req
    BY DEF vars
  <1>2. /\ \A f \in Flow : flow'[f].live
        /\ Bound' /\ NoneUnused' /\ HeldOpen' /\ Newest'
    BY <1>1 DEF RunState, RunInv, Bound, NoneUnused, HeldOpen, Newest
  <1>3. \A r \in Req : Prepared(req'[r], row') BY <1>1 DEF RunState, RunInv
  <1>4. \A l \in Loop : OnCourse(loop[l], row)' BY <1>1 DEF RunState, RunInv, OnCourse
  <1>5. ASSUME NEW e \in Device PROVE Target(e)' = Target(e)
    <2>1. LastOutcome(e)' = LastOutcome(e) BY <1>1 DEF LastOutcome
    <2>2. \A f : Found(f)' = Found(f) BY <1>1 DEF Found
    <2> QED BY <1>1, <2>1, <2>2 DEF Target, Abs
  <1> QED BY <1>1, <1>2, <1>3, <1>4, <1>5, FStutter DEF RunInv

LEMMA RunNext ==
  ASSUME RunState, Quiet, OneLoop, MaxCrash = 0, PlainRuns, [Next]_vars
  PROVE  RunState' /\ Allowed
  <1>1. NothingSteers
    <2>1. \A s \in FlowDefs : \A i \in 1 .. Len(s) : s[i] \in {"act", "out"} BY DEF PlainRuns
    <2> QED BY <2>1 DEF NothingSteers
  <1>2. CauseState' /\ CauseState BY <1>1, CauseNext DEF RunState
  <1>3. OneInv'
    <2>1. OneState BY <1>2 DEF RunState, OneState, CauseState
    <2>2. OneState' BY <2>1, OneNext
    <2> QED BY <2>2 DEF OneState
  <1>4. RunStep BY <1>2 DEF RunStep, CauseState
  <1>5. ASSUME NEW l \in Loop, Crash(l) PROVE FALSE
    BY <1>5 DEF Crash, RunState, OneInv
  <1>6. CASE Next
    <2>1. ASSUME NEW l \in Loop, Poll(l) PROVE RunInv' /\ Allowed BY <1>4, <2>1, RunPoll
    <2>2. ASSUME NEW r \in Req, Handle(r) PROVE RunInv' /\ Allowed BY <1>4, <2>2, RunHandle
    <2>3. ASSUME Request PROVE RunInv' /\ Allowed BY <1>4, <2>3, RunRequest
    <2>4. RunInv' /\ Allowed BY <1>5, <1>6, <2>1, <2>2, <2>3 DEF Next
    <2> QED BY <1>2, <1>3, <2>4 DEF RunState
  <1>7. CASE UNCHANGED vars
    <2>1. RunInv' /\ Allowed BY <1>7, RunStutters DEF Allowed
    <2> QED BY <1>2, <1>3, <2>1 DEF RunState
  <1> QED BY <1>6, <1>7

LEMMA RunInit == Init /\ PlainRuns => RunState /\ F!Init
  <1> SUFFICES ASSUME Init, PlainRuns PROVE RunState /\ F!Init
    OBVIOUS
  <1>0. \A l \in Loop : loop[l].pc \in {"off", "take"} /\ loop[l].todo = {}
    BY DEF Init, Boot, Beginning, NoLoop, Select
  <1>1. /\ nhist = 0 /\ 1 .. nhist = {} /\ flow \in [Flow -> [live : {TRUE}, steps : FlowDefs]]
        /\ \A d \in Device : historyMap[d] = 0
        /\ \A r \in Req : req[r].pc = "idle"
        /\ \A l \in Loop : loop[l].pc \in {"off", "take"} /\ loop[l].todo = {}
    <2>1. nhist = 0 /\ 1 .. nhist = {} BY DEF Init
    <2> QED BY <1>0, <2>1 DEF Init, NoReq
  <1>2. ASSUME NEW d \in Device
        PROVE  /\ row[d].status \in {"none", "idle"} /\ row[d].mode \in {"single", "loop"}
               /\ row[d].rpa \in Flow \cup {NoRpa} /\ row[d].step = 0 /\ row[d].loops = 0
               /\ row[d].status # "none" => row[d].rpa \in Flow
    <2>1. row[d] \in FirstRow BY DEF Init
    <2>2. CASE row[d] = NoRow BY <2>2 DEF NoRow
    <2>3. ASSUME NEW f \in Flow, NEW m \in Mode, row[d] = BoundRow(f, m)
          PROVE  /\ row[d].status = "idle" /\ row[d].mode = m /\ row[d].rpa = f
                 /\ row[d].step = 0 /\ row[d].loops = 0
      BY <2>3 DEF BoundRow, NoRow
    <2> QED BY <2>1, <2>2, <2>3 DEF FirstRow, Mode
  <1>3. RunInv
    <2>1. \A f \in Flow : flow[f].live BY <1>1
    <2>2. Bound BY <1>2, EngineAssumption DEF Bound
    <2>3. NoneUnused /\ HeldOpen /\ Newest BY <1>1 DEF NoneUnused, HeldOpen, Newest
    <2>4. \A r \in Req : Prepared(req[r], row) BY <1>1 DEF Prepared
    <2>5. \A l \in Loop : OnCourse(loop[l], row) BY <1>1 DEF OnCourse, Resting, Polling
    <2> QED BY <2>1, <2>2, <2>3, <2>4, <2>5 DEF RunInv
  <1>4. RunState BY <1>3, CauseInit, OneInit DEF RunState, OneState
  <1>5. ASSUME NEW d \in Device
        PROVE  Target(d) \in [status : {"none", "idle"}, mode : {"single", "loop"},
                              rpa : Flow \cup {NoRpa}, step : {0}, rounds : {0}, outcome : {"none"}]
    <2>1. Idle(d) BY <1>1 DEF Idle, WorkPcs, HandlePcs
    <2>2. Target(d) = Now(d) BY <2>1, TargetIdle
    <2>3. LastOutcome(d) = "none" BY <1>1, OutcomeNone, LastOutcomeOf
    <2> QED BY <1>2, <2>2, <2>3 DEF Now, ShowRow, Show
  <1>6. \A f \in Flow : flow[f].steps \in FlowDefs BY <1>1
  <1>7. F!Init BY <1>5, <1>6 DEF F!Init
  <1> QED BY <1>4, <1>7

-----------------------------------------------------------------------------
\* Taken whole, every handler and every poll of the engine is a step FlowRun
\* allows: a run goes from step to step, ends in one of the ways the history
\* records, and obeys start, pause, resume and stop at once; the statements in
\* between show nothing else.
THEOREM FlowRunImplemented ==
  Quiet /\ OneLoop /\ MaxCrash = 0 /\ PlainRuns => (Spec => ImplementsFlowRun)
  <1> SUFFICES ASSUME Quiet, OneLoop, MaxCrash = 0, PlainRuns PROVE Spec => ImplementsFlowRun
    OBVIOUS
  <1>1. Init => RunState /\ F!Init BY RunInit
  <1>2. RunState /\ [Next]_vars => RunState' /\ [F!Next]_F!runVars BY RunNext DEF Allowed
  <1> QED BY <1>1, <1>2, PTL DEF Spec, ImplementsFlowRun, F!Spec
=============================================================================
