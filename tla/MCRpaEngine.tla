---------------------------- MODULE MCRpaEngine ----------------------------
(* Instances of RpaEngine for TLC. *)
EXTENDS RpaEngine, TLC

\* An output and a plain step; one that may jump, skip or stop; no step; a
\* type nobody registered.
PlainFlows == {<<"act">>, <<"out", "act">>}
OddFlows == {<<>>, <<"out", "bad">>, <<"steer", "act">>}
OneStep == {<<"act">>}

Control == {"bind", "start", "pause", "resume", "stop"}
ControlAndEdits == Control \cup {"saveFlow"}
NoSwitch == Op \ {"startEngine", "stopEngine"}
Switching == {"start", "startEngine", "stopEngine"}
StartStop == {"start", "stop"}
Switch == {"startEngine", "stopEngine"}

\* Handlers are alike, and so are engine goroutines.
Alike == Permutations(Req) \cup Permutations(Loop)
============================================================================
