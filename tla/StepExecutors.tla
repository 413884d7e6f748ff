---------------------------- MODULE StepExecutors ----------------------------
(***************************************************************************)
(* The step executors of the flow engine (internal/rpa/steps): what one    *)
(* step of a flow does to one device, sub-step by sub-step, while the      *)
(* engine (or the single-step handler) polls it.  An executor keeps no     *)
(* state: what it needs at the next poll it returns in a context, which    *)
(* the engine writes to the database as JSON and the single-step handler   *)
(* keeps in memory as it is.  A call of Execute and the storing of its     *)
(* result are two steps here, since the process may die in between.        *)
(***************************************************************************)
EXTENDS Conditions, FiniteSets

CONSTANTS
  Kinds,          \* the step types run by this instance, one per behaviour
  Modes,          \* who polls: "engine" or "single"
  Files,          \* files of a download_cloud step
  MaxTasks,       \* bound: tasks the platform accepts
  MaxRetries,     \* polls of start_bot, rounds of network_check, probes
  TaskTimeout,    \* limit on a download and on a change of the system (300 s)
  InstallTimeout, \* limit on the installation (120 s)
  OnlineTimeout,  \* limit on the device coming back (300 s)
  BootWait,       \* wait after it was seen online (180 s)
  ProxyWait,      \* wait for a proxy to take effect (5 s)
  ScriptTimeout,  \* limit on a script (60 s)
  SingleTimeout,  \* limit of the single-step handler (300 s)
  Epoch,          \* the clock at the start, counted from 1970
  MaxTime,        \* bound: last reading of the clock
  MaxLag,         \* bound: ticks of the clock between two polls
  MaxBreaks,      \* bound: pauses and deaths of the process
  MaxConns,       \* bound: connections of the device
  Params          \* parameters of a step of a kind

ASSUME StepAssumption ==
  /\ {Files, MaxTasks, MaxRetries, TaskTimeout, InstallTimeout, OnlineTimeout,
      BootWait, ProxyWait, ScriptTimeout, SingleTimeout, Epoch, MaxTime, MaxLag,
      MaxBreaks, MaxConns} \subseteq Nat
  /\ \A limit \in {TaskTimeout, InstallTimeout, OnlineTimeout, BootWait, ProxyWait,
                   ScriptTimeout, SingleTimeout} : Epoch > limit
  /\ Modes \subseteq {"engine", "single"}
  /\ Epoch <= MaxTime /\ MaxConns >= 1
  \* only install_app_and_wait can be told to install; conditions have parameters of their own
  /\ \A k \in Kinds \ {"condition_check"} : \A p \in Params[k] :
       p.install \in BOOLEAN /\ (p.install => k = "install_app_and_wait")
  \* and the flow variables, whose numbers are numbers of the instance
  /\ "condition_check" \in Kinds =>
       \A p \in Params["condition_check"] :
         /\ DOMAIN p.step = {"variable", "operator", "value", "onTrue", "onFalse"}
         /\ \A x \in DOMAIN p.vars : p.vars[x].type \in {"num", "int"} => p.vars[x].n \in Numbers

VARIABLES
  kind, mode,     \* the step and its caller, fixed by the initial state
  params,         \* its parameters that matter here, fixed as well
  row,            \* sub-step and context as the caller holds them
  phase,          \* idle, calling (inside a long Execute), returned, ended
  pc, acc,        \* place and tasks of a long Execute: lost with the process
  ret, retAt,     \* result of the last Execute, and when it was computed
  now, lag,       \* the clock, and its ticks since the last poll
  paused, breaks, deaths,
  tasks,          \* status of every task submitted for this step
  bot,            \* commands of start_bot the device carried out
  net,            \* answers to the pings of network_check
  conn, inbox,    \* the device's connection (0: none), results it holds
  conns,          \* connections so far
  pushedOn        \* the connection the last script was pushed over

world == <<tasks, bot, net, conn, inbox, conns, pushedOn>>
caller == <<kind, mode, params, paused, breaks, deaths>>
vars == <<kind, mode, params, row, phase, pc, acc, ret, retAt, now, lag, paused, breaks,
          deaths, tasks, bot, net, conn, inbox, conns, pushedOn>>

(***************************************************************************)
(* Contexts.  A time is put into the context as a float64 or as an int64   *)
(* and read back with an assertion on float64: an int64 that did not pass  *)
(* through JSON reads as 0, the year 1970.                                 *)
(***************************************************************************)
NoStamp == [at |-> 0, float |-> FALSE]

FloatNow == [at |-> now, float |-> TRUE]

(* Mutant of IntNow: the time is put in as a float64.                      *)
IntNowFloat == [at |-> now, float |-> TRUE]

IntNow == [at |-> now, float |-> FALSE]

Elapsed(stamp) == IF stamp.float THEN now - stamp.at ELSE now

NoCtx == [start |-> NoStamp, done |-> NoStamp, boot |-> NoStamp,
          ids |-> <<>>, got |-> {}, retry |-> 0]

Json(c) == [f \in DOMAIN c |-> IF f \in {"start", "done", "boot"} /\ c[f].at # 0
                               THEN [c[f] EXCEPT !.float = TRUE] ELSE c[f]]

Fail == [done |-> TRUE, ok |-> FALSE, sub |-> 0, ctx |-> NoCtx]

Success == [done |-> TRUE, ok |-> TRUE, sub |-> 0, ctx |-> NoCtx]

Go(s, c) == [done |-> FALSE, ok |-> FALSE, sub |-> s, ctx |-> c]

TaskStatus == {"queued", "downloaded", "installed", "failed", "installFailed",
               "changed", "answeredOk", "answeredFail"}

(***************************************************************************)
(* One call of an executor                                                 *)
(***************************************************************************)
SingleExpired == mode = "single" /\ now - Epoch > SingleTimeout

At(k, s) == /\ phase = "idle" /\ ~paused /\ ~SingleExpired
            /\ kind \in k /\ row.sub = s

Inside(p) == phase = "calling" /\ pc = p

Returns(r) == /\ phase' = "returned" /\ ret' = r /\ retAt' = now
              /\ pc' = "" /\ acc' = <<>>
              /\ UNCHANGED <<caller, row, now, lag>>

Continues(p, ids) == /\ phase' = "calling" /\ pc' = p /\ acc' = ids
                     /\ UNCHANGED <<caller, row, ret, retAt, now, lag>>

(* A command through the unified interface: an answer with code 200, a     *)
(* refusal, or no answer, in which case the platform may have acted.       *)
Answers == {"ok", "refused", "lost"}

NewId == Len(tasks) + 1

Submitted(a) ==
  /\ Len(tasks) < MaxTasks \/ a = "refused"
  /\ \/ a # "refused" /\ tasks' = Append(tasks, "queued")
     \/ a # "ok" /\ tasks' = tasks
  /\ UNCHANGED <<bot, net, conn, inbox, conns, pushedOn>>

(* The status of a task as a query reports it; an error, a code other than *)
(* 200 and data that cannot be parsed all read as "unknown".               *)
Query(id) == {"unknown", tasks[id]}

Start(ids, stamp) == [NoCtx EXCEPT !.ids = ids, !.start = stamp]

(***************************************************************************)
(* set_proxy_and_wait                                                      *)
(***************************************************************************)
SetProxy ==
  /\ At({"set_proxy_and_wait"}, 0)
  /\ \E ok \in BOOLEAN : Returns(IF ok THEN Go(1, Start(<<>>, IntNow)) ELSE Fail)
  /\ UNCHANGED world

WaitEffect ==
  /\ At({"set_proxy_and_wait"}, 1)
  /\ Returns(IF Elapsed(row.ctx.start) > ProxyWait THEN Success ELSE Go(1, row.ctx))
  /\ UNCHANGED world

(***************************************************************************)
(* download_url, install_app_and_wait, change_os_and_wait: one task        *)
(***************************************************************************)
SendTask(k) ==
  /\ At({k}, 0)
  /\ \E a \in Answers \cup {"noId"} :
       /\ Submitted(IF a = "noId" THEN "ok" ELSE a)
       /\ Returns(IF a = "ok" THEN Go(1, Start(<<NewId>>, FloatNow)) ELSE Fail)

SendDownload == SendTask("download_url")

SendDownloadInstall == SendTask("install_app_and_wait")

(* The phone number, the model and the message centre sent along are not looked at again.  *)
SendChangeOs == SendTask("change_os_and_wait")

Late(stamp, limit) == Elapsed(stamp) > limit

(* A wait looks at its limit first, then asks the platform, and judges the *)
(* answer when it comes, by whatever time that is.                         *)
Asks(k, s, late) ==
  /\ At({k}, s)
  /\ IF late THEN Returns(Fail) ELSE Continues("query", <<>>)

Asked(k, s) == Inside("query") /\ kind = k /\ row.sub = s

(* Mutant of WaitDownload: no limit.                                       *)
WaitDownloadNoLimit ==
  /\ \/ Asks("download_url", 1, FALSE)
     \/ /\ Asked("download_url", 1)
        /\ \E s \in Query(row.ctx.ids[1]) :
             Returns(IF s = "failed" THEN Fail
                     ELSE IF s = "downloaded" THEN Success ELSE Go(1, row.ctx))
  /\ UNCHANGED world

WaitDownload ==
  /\ \/ Asks("download_url", 1, Late(row.ctx.start, TaskTimeout))
     \/ /\ Asked("download_url", 1)
        /\ \E s \in Query(row.ctx.ids[1]) :
             Returns(IF s = "failed" THEN Fail
                     ELSE IF s = "downloaded" THEN Success ELSE Go(1, row.ctx))
  /\ UNCHANGED world

WaitInstallDownload ==
  /\ \/ Asks("install_app_and_wait", 1, Late(row.ctx.start, TaskTimeout))
     \/ /\ Asked("install_app_and_wait", 1)
        /\ \E s \in Query(row.ctx.ids[1]) :
             Returns(IF s \in {"failed", "installFailed"} THEN Fail
                     ELSE IF s = "installed" \/ (s = "downloaded" /\ ~params.install) THEN Success
                     ELSE IF s = "downloaded" THEN Go(2, [row.ctx EXCEPT !.done = FloatNow])
                     ELSE Go(1, row.ctx))
  /\ UNCHANGED world

WaitInstall ==
  /\ \/ Asks("install_app_and_wait", 2, Late(row.ctx.done, InstallTimeout))
     \/ /\ Asked("install_app_and_wait", 2)
        /\ \E s \in Query(row.ctx.ids[1]) :
             Returns(IF s \in {"failed", "installFailed"} THEN Fail
                     ELSE IF s = "installed" THEN Success ELSE Go(2, row.ctx))
  /\ UNCHANGED world

(* Mutant of WaitChangeOs: a failed query starts the step over.            *)
WaitChangeOsAgain ==
  /\ \/ Asks("change_os_and_wait", 1, Late(row.ctx.start, TaskTimeout))
     \/ /\ Asked("change_os_and_wait", 1)
        /\ \E s \in Query(row.ctx.ids[1]) :
             Returns(IF s = "changed" THEN Go(2, [row.ctx EXCEPT !.done = FloatNow])
                     ELSE Go(IF s = "unknown" THEN 0 ELSE 1, row.ctx))
  /\ UNCHANGED world

(* A change that failed on the platform is not told from one in progress.  *)
WaitChangeOs ==
  /\ \/ Asks("change_os_and_wait", 1, Late(row.ctx.start, TaskTimeout))
     \/ /\ Asked("change_os_and_wait", 1)
        /\ \E s \in Query(row.ctx.ids[1]) :
             Returns(IF s = "changed" THEN Go(2, [row.ctx EXCEPT !.done = FloatNow])
                     ELSE Go(1, row.ctx))
  /\ UNCHANGED world

(* What WaitOnline does with the answer to its query.                      *)
SeenOnline ==
  /\ Asked("change_os_and_wait", 2)
  /\ \E seen \in {"error", "offline", "online"} :
       Returns(Go(2, IF seen = "online" THEN [row.ctx EXCEPT !.boot = FloatNow] ELSE row.ctx))

(* Mutant of WaitOnline: the wait for the boot before the limit.           *)
WaitOnlineBootFirst ==
  /\ \/ /\ At({"change_os_and_wait"}, 2)
        /\ IF row.ctx.boot.float
           THEN Returns(IF Elapsed(row.ctx.boot) < BootWait THEN Go(2, row.ctx) ELSE Success)
           ELSE IF Late(row.ctx.done, OnlineTimeout) THEN Returns(Fail)
           ELSE Continues("query", <<>>)
     \/ SeenOnline
  /\ UNCHANGED world

(* The limit on coming back is looked at before the wait for the boot, and *)
(* a device that was seen online is not asked for again.                   *)
WaitOnline ==
  /\ \/ /\ At({"change_os_and_wait"}, 2)
        /\ IF Late(row.ctx.done, OnlineTimeout) THEN Returns(Fail)
           ELSE IF row.ctx.boot.float
           THEN Returns(IF Elapsed(row.ctx.boot) < BootWait THEN Go(2, row.ctx) ELSE Success)
           ELSE Continues("query", <<>>)
     \/ SeenOnline
  /\ UNCHANGED world

(***************************************************************************)
(* download_cloud: one command per file in one call, then all are awaited  *)
(***************************************************************************)
CloudSend ==
  /\ At({"download_cloud"}, 0) \/ Inside("send")
  /\ Len(acc) < Files
  /\ \E a \in Answers \cup {"noId"} :
       /\ Submitted(IF a = "noId" THEN "ok" ELSE a)
       /\ IF a = "ok" THEN Continues("send", Append(acc, NewId)) ELSE Returns(Fail)

CloudSent ==
  /\ Inside("send") /\ Len(acc) = Files
  /\ Returns(Go(1, Start(acc, FloatNow)))
  /\ UNCHANGED world

(* Mutant of CloudWait: a query that fails does not hold the step back.    *)
CloudWaitForgets ==
  /\ At({"download_cloud"}, 1)
  /\ \E told \in SUBSET {row.ctx.ids[i] : i \in DOMAIN row.ctx.ids} :
       LET got == row.ctx.got \cup {t \in told : tasks[t] = "downloaded"}
       IN Returns(IF \/ Late(row.ctx.start, TaskTimeout)
                     \/ \E t \in told \ row.ctx.got : tasks[t] = "failed"
                  THEN Fail
                  ELSE Go(IF told \subseteq got THEN 2 ELSE 1, [row.ctx EXCEPT !.got = got]))
  /\ UNCHANGED world

(* told: the tasks whose query of this round is answered.  One seen as     *)
(* downloaded in an earlier round is not asked for again.  A task that was *)
(* asked for early in the round and ends before its last answer is one not *)
(* told here, so the round is one step.                                    *)
CloudWait ==
  /\ At({"download_cloud"}, 1)
  /\ \E told \in SUBSET {row.ctx.ids[i] : i \in DOMAIN row.ctx.ids} :
       LET ids == {row.ctx.ids[i] : i \in DOMAIN row.ctx.ids}
           got == row.ctx.got \cup {t \in told : tasks[t] = "downloaded"}
       IN Returns(IF \/ Late(row.ctx.start, TaskTimeout)
                     \/ \E t \in told \ row.ctx.got : tasks[t] = "failed"
                  THEN Fail
                  ELSE Go(IF ids \subseteq got THEN 2 ELSE 1, [row.ctx EXCEPT !.got = got]))
  /\ UNCHANGED world

(* Moving the files and setting their mode: errors are only logged.        *)
CloudPost ==
  /\ At({"download_cloud"}, 2)
  /\ Returns(Success)
  /\ UNCHANGED world
(***************************************************************************)
(* start_bot.  A command over a channel that is not ready is answered with *)
(* 200 and not carried out; the probes wait for an echo.                   *)
(***************************************************************************)
Commanded(a, what) ==
  /\ bot' \in {bot} \cup (IF a # "refused" /\ "shell" \in bot THEN {bot \cup {what}} ELSE {})
  /\ a = "ok" /\ "shell" \in bot => what \in bot'
  /\ UNCHANGED <<tasks, net, conn, inbox, conns, pushedOn>>

WriteConfig ==
  /\ At({"start_bot"}, 0)
  /\ \E a \in Answers : /\ Commanded(a, "config")
                        /\ Returns(IF a = "ok" THEN Go(1, NoCtx) ELSE Fail)

ProbeShellChannel ==
  /\ At({"start_bot"}, 1) \/ At({"start_bot"}, 2)
  /\ \/ "shell" \in bot /\ Continues("probed", <<>>)
     \/ Returns(Fail)
  /\ UNCHANGED world

(* The source of accSys is there, or appears after the app was launched.   *)
UnpackAccSys ==
  /\ Inside("probed") /\ row.sub = 1
  /\ Continues("unpacked", <<>>) \/ Returns(Fail)
  /\ UNCHANGED world

StartAccSys ==
  /\ Inside("unpacked")
  /\ \E a \in Answers : /\ Commanded(a, "accSys")
                        /\ IF a = "ok" THEN Continues("started", <<>>) ELSE Returns(Fail)

(* A list of processes that cannot be read is taken as a good sign.        *)
CheckAccSys ==
  /\ Inside("started")
  /\ \E alive \in {"yes", "no", "unknown"} :
       /\ (alive = "yes") => "accSys" \in bot
       /\ bot' = IF alive = "no" THEN bot \ {"accSys"} ELSE bot
       /\ Returns(IF alive = "no" THEN Fail ELSE Go(2, row.ctx))
  /\ UNCHANGED <<tasks, net, conn, inbox, conns, pushedOn>>

StartTestFramework ==
  /\ Inside("probed") /\ row.sub = 2
  /\ \E a \in Answers :
       /\ Commanded(a, "framework")
       /\ Returns(IF a = "ok" THEN Go(3, [row.ctx EXCEPT !.start = IntNow, !.retry = 0]) ELSE Fail)

(* Mutant of WaitConnection: one poll more than allowed.                   *)
WaitConnectionOneMore ==
  /\ At({"start_bot"}, 3)
  /\ Returns(IF row.ctx.retry > MaxRetries THEN Fail
             ELSE IF conn # 0 THEN Success
             ELSE Go(3, [row.ctx EXCEPT !.retry = @ + 1]))
  /\ UNCHANGED world

WaitConnection ==
  /\ At({"start_bot"}, 3)
  /\ Returns(IF row.ctx.retry >= MaxRetries THEN Fail
             ELSE IF conn # 0 THEN Success
             ELSE Go(3, [row.ctx EXCEPT !.retry = @ + 1]))
  /\ UNCHANGED world

(***************************************************************************)
(* run_script, execute_repo_script: a task pushed over the connection the  *)
(* device has now, its result looked for in the one it has at the poll.    *)
(***************************************************************************)
LoadScript ==
  /\ At({"execute_repo_script"}, 0)
  /\ \E found \in BOOLEAN : Returns(IF found THEN Go(1, NoCtx) ELSE Fail)
  /\ UNCHANGED world

PushScript(k, s) ==
  /\ At({k}, s)
  /\ \E sent \in BOOLEAN :
       IF conn # 0 /\ sent /\ Len(tasks) < MaxTasks
       THEN /\ tasks' = Append(tasks, "queued") /\ pushedOn' = conn
            /\ Returns(Go(row.sub + 1, Start(<<NewId>>, IntNow)))
            /\ UNCHANGED <<bot, net, conn, inbox, conns>>
       ELSE Returns(Fail) /\ UNCHANGED world

PushRunScript == PushScript("run_script", 0)

PushRepoScript == PushScript("execute_repo_script", 1)

(* The limit travels in the context with the start, and reads as 0 with it *)
ScriptLate(c) == Elapsed(c.start) > IF c.start.float THEN ScriptTimeout ELSE 0

(* Mutant of WaitResult: no result yet counts as a failure.                *)
WaitResultImpatient(k, s) ==
  /\ At({k}, s)
  /\ LET id == row.ctx.ids[1]
     IN Returns(IF ScriptLate(row.ctx) \/ conn = 0 THEN Fail
                ELSE IF id \in inbox /\ tasks[id] = "answeredOk" THEN Success ELSE Fail)
  /\ UNCHANGED world

WaitResult(k, s) ==
  /\ At({k}, s)
  /\ LET id == row.ctx.ids[1]
     IN Returns(IF ScriptLate(row.ctx) \/ conn = 0 THEN Fail
                ELSE IF id \notin inbox THEN Go(row.sub, row.ctx)
                ELSE IF tasks[id] = "answeredOk" THEN Success ELSE Fail)
  /\ UNCHANGED world

WaitRunResult == WaitResult("run_script", 1)

WaitRepoResult == WaitResult("execute_repo_script", 2)

(***************************************************************************)
(* Steps of one call                                                       *)
(***************************************************************************)
SetVariables ==
  /\ At({"set_variables"}, 0)
  /\ \E merged \in BOOLEAN : Returns(IF merged THEN Success ELSE Fail)
  /\ UNCHANGED world

ExecShell ==
  /\ At({"shell"}, 0)
  /\ \E a \in Answers : Returns(IF a = "ok" THEN Success ELSE Fail)
  /\ UNCHANGED world

GetRoot ==
  /\ At({"get_root"}, 0)
  /\ \E a \in Answers : Returns(IF a = "ok" THEN Success ELSE Fail)
  /\ UNCHANGED world

SetLocation ==
  /\ At({"set_location"}, 0)
  /\ \E a \in Answers \cup {"nowhere"} : Returns(IF a = "ok" THEN Success ELSE Fail)
  /\ UNCHANGED world

HttpRequest ==
  /\ At({"http_request"}, 0)
  /\ \E status \in {0, 200, 399, 400} :
       Returns(IF status = 0 \/ status >= 400 THEN Fail ELSE Success)
  /\ UNCHANGED world

(* What the output of a ping contains: of a lost one "100% packet loss",   *)
(* which ends in the phrase the code looks for.                            *)
Phrases == [reply  |-> {"bytes from", "0% packet loss"},
            lost   |-> {"0% packet loss"},
            silent |-> {}]

PingPassed(p) == Phrases[p] \cap {"bytes from", "0% packet loss"} # {}

NetworkCheck ==
  /\ At({"network_check"}, 0) \/ Inside("ping")
  /\ \E p \in DOMAIN Phrases :
       /\ net' = net \cup {p}
       /\ IF PingPassed(p) THEN Returns(Success)
          ELSE IF Len(acc) + 1 >= MaxRetries THEN Returns(Fail)
          ELSE Continues("ping", Append(acc, 0))
  /\ UNCHANGED <<tasks, bot, conn, inbox, conns, pushedOn>>

(* The parameters as the executor gets them: the engine has resolved their *)
(* references, the single-step handler has not.                            *)
Given == IF mode = "engine" THEN resolveParams(params.step, params.vars, 1) ELSE asWritten(params.step)

(* A parameter that is missing or no text reads as "".                     *)
Word(v) == IF v.type = "str" THEN v.s ELSE ""

Action(v) == IF Word(v) = "" THEN "continue" ELSE Word(v)

(* The variable is looked up under its whole name, dots and all.  The      *)
(* variables of the resolution and the ones read here are taken as one.    *)
Condition ==
  LET p == Given
  IN [variable |-> Word(p.variable), op |-> Word(p.operator), b |-> p.value,
      a |-> Entry(Map(params.vars), Word(p.variable)),
      onTrue |-> Action(p.onTrue), onFalse |-> Action(p.onFalse)]

(* read: the configuration of the device could be read.                    *)
ConditionCheck ==
  /\ At({"condition_check"}, 0)
  /\ \E read \in BOOLEAN :
       LET c == Condition
           action == IF evaluateCondition(c.a, c.op, c.b) THEN c.onTrue ELSE c.onFalse
       IN Returns(IF c.variable # "" /\ c.op # "" /\ read /\ executeAction(action).ok
                  THEN Success ELSE Fail)
  /\ UNCHANGED world

(***************************************************************************)
(* The callers                                                             *)
(***************************************************************************)
(* UpdateDeviceProgress writes the context as JSON; the loop of the        *)
(* single-step handler takes it over as it is.                             *)
Store ==
  /\ phase = "returned"
  /\ phase' = (IF ret.done THEN "ended" ELSE "idle")
  /\ row' = IF ret.done THEN row
            ELSE [sub |-> ret.sub, ctx |-> IF mode = "engine" THEN Json(ret.ctx) ELSE ret.ctx]
  /\ lag' = 0
  /\ UNCHANGED <<kind, mode, params, pc, acc, ret, retAt, now, paused, breaks, deaths, world>>

SingleGivesUp ==
  /\ phase = "idle" /\ SingleExpired
  /\ phase' = "ended" /\ ret' = Fail /\ retAt' = now
  /\ UNCHANGED <<caller, row, pc, acc, now, lag, world>>

Breaks == breaks < MaxBreaks /\ breaks' = breaks + 1 /\ mode = "engine" /\ phase # "ended"

Pause ==
  /\ ~paused /\ Breaks /\ paused' = TRUE
  /\ UNCHANGED <<kind, mode, params, deaths, row, phase, pc, acc, ret, retAt, now, lag, world>>

Resume ==
  /\ paused /\ paused' = FALSE
  /\ UNCHANGED <<kind, mode, params, breaks, deaths, row, phase, pc, acc, ret, retAt, now, lag, world>>

(* The process dies and comes back: a call that had not been stored is     *)
(* made again, and the hub has no connections and no results.              *)
Crash ==
  /\ Breaks /\ deaths' = deaths + 1
  /\ phase' = "idle" /\ pc' = "" /\ acc' = <<>> /\ ret' = Go(0, NoCtx)
  /\ conn' = 0 /\ inbox' = {}
  /\ UNCHANGED <<kind, mode, params, paused, row, retAt, now, lag, tasks, bot, net, conns,
                 pushedOn>>

Tick ==
  /\ phase # "ended" /\ now < MaxTime /\ lag < MaxLag
  /\ now' = now + 1 /\ lag' = lag + 1
  /\ UNCHANGED <<caller, row, phase, pc, acc, ret, retAt, world>>

(***************************************************************************)
(* The platform and the device                                             *)
(***************************************************************************)
Outcomes == [queued     |-> IF kind = "change_os_and_wait" THEN {"changed"}
                            ELSE IF kind \in {"run_script", "execute_repo_script"} THEN {}
                            ELSE {"downloaded", "failed"},
             downloaded |-> IF params.install THEN {"installed", "installFailed"} ELSE {}]

PlatformWorks ==
  /\ phase # "ended"
  /\ \E t \in DOMAIN tasks : /\ tasks[t] \in DOMAIN Outcomes
                             /\ \E s \in Outcomes[tasks[t]] : tasks' = [tasks EXCEPT ![t] = s]
  /\ UNCHANGED <<caller, row, phase, pc, acc, ret, retAt, now, lag,
                 bot, net, conn, inbox, conns, pushedOn>>

ShellReady ==
  /\ kind = "start_bot" /\ "shell" \notin bot /\ bot' = bot \cup {"shell"}
  /\ UNCHANGED <<caller, row, phase, pc, acc, ret, retAt, now, lag,
                 tasks, net, conn, inbox, conns, pushedOn>>

Connect ==
  /\ kind \in {"start_bot", "run_script", "execute_repo_script"} /\ phase # "ended"
  /\ conns < MaxConns
  /\ conns' = conns + 1 /\ conn' = conns' /\ inbox' = {}
  /\ UNCHANGED <<caller, row, phase, pc, acc, ret, retAt, now, lag, tasks, bot, net, pushedOn>>

Disconnect ==
  /\ conn # 0 /\ conn' = 0 /\ inbox' = {} /\ phase # "ended"
  /\ UNCHANGED <<caller, row, phase, pc, acc, ret, retAt, now, lag, tasks, bot, net, conns, pushedOn>>

(* The result of a task, by whatever connection the device has by then.    *)
DeviceAnswers ==
  /\ kind \in {"run_script", "execute_repo_script"} /\ conn # 0 /\ phase # "ended"
  /\ \E t \in DOMAIN tasks, s \in {"answeredOk", "answeredFail"} :
       tasks[t] = "queued" /\ tasks' = [tasks EXCEPT ![t] = s] /\ inbox' = inbox \cup {t}
  /\ UNCHANGED <<caller, row, phase, pc, acc, ret, retAt, now, lag, bot, net, conn, conns,
                 pushedOn>>

Init ==
  /\ kind \in Kinds /\ mode \in Modes
  /\ params \in Params[kind]
  /\ row = [sub |-> 0, ctx |-> NoCtx] /\ phase = "idle" /\ pc = "" /\ acc = <<>>
  /\ ret = Go(0, NoCtx) /\ retAt = Epoch /\ now = Epoch /\ lag = 0
  /\ paused = FALSE /\ breaks = 0 /\ deaths = 0
  /\ tasks = <<>> /\ bot = {} /\ net = {} /\ inbox = {} /\ pushedOn = 0
  /\ conn \in {0, 1} /\ conns = conn
  /\ conn = 1 => kind \in {"start_bot", "run_script", "execute_repo_script"}

Execute ==
  \/ SetProxy \/ WaitEffect \/ SendDownload \/ SendDownloadInstall \/ SendChangeOs \/ WaitDownload \/ WaitInstallDownload \/ WaitInstall
  \/ WaitChangeOs \/ WaitOnline \/ CloudSend \/ CloudSent \/ CloudWait \/ CloudPost
  \/ WriteConfig \/ ProbeShellChannel \/ UnpackAccSys \/ StartAccSys \/ CheckAccSys
  \/ StartTestFramework \/ WaitConnection \/ LoadScript \/ PushRunScript \/ PushRepoScript
  \/ WaitRunResult \/ WaitRepoResult
  \/ SetVariables \/ ExecShell \/ GetRoot \/ SetLocation \/ HttpRequest \/ NetworkCheck
  \/ ConditionCheck

Environment == PlatformWorks \/ ShellReady \/ Connect \/ Disconnect \/ DeviceAnswers

Next == Execute \/ Store \/ SingleGivesUp \/ Pause \/ Resume \/ Crash \/ Tick \/ Environment

(* The poll and the clock go on, and a paused device is resumed.           *)
Fairness == /\ WF_vars(Execute) /\ WF_vars(Store) /\ WF_vars(SingleGivesUp)
            /\ WF_vars(Resume) /\ WF_vars(Tick)

Spec == Init /\ [][Next]_vars

FairSpec == Spec /\ Fairness

(***************************************************************************)
(* Properties                                                              *)
(***************************************************************************)
ScriptKinds == {"run_script", "execute_repo_script"}

Ctx == [start : [at : 0..MaxTime, float : BOOLEAN], done : [at : 0..MaxTime, float : BOOLEAN],
        boot : [at : 0..MaxTime, float : BOOLEAN], ids : Seq(1..MaxTasks),
        got : SUBSET (1..MaxTasks), retry : 0..MaxRetries]

(* Every variable keeps its type: the stored context, the pending result,  *)
(* the clock within its bounds, and one connection at most.                *)
TypeOK ==
  /\ kind \in Kinds /\ mode \in Modes /\ params \in Params[kind]
  /\ phase \in {"idle", "calling", "returned", "ended"}
  /\ row \in [sub : 0..3, ctx : Ctx]
  /\ ret \in [done : BOOLEAN, ok : BOOLEAN, sub : 0..3, ctx : Ctx]
  /\ pc \in {"", "send", "query", "probed", "unpacked", "started", "ping"} /\ acc \in Seq(0..MaxTasks)
  /\ now \in Epoch..MaxTime /\ retAt \in Epoch..MaxTime /\ lag \in 0..MaxLag
  /\ paused \in BOOLEAN /\ breaks \in 0..MaxBreaks /\ deaths \in 0..MaxBreaks
  /\ tasks \in Seq(TaskStatus) /\ inbox \subseteq 1..MaxTasks
  /\ bot \subseteq {"shell", "config", "accSys", "framework"} /\ net \subseteq DOMAIN Phrases
  /\ conn \in {0, conns} /\ conns \in 0..MaxConns /\ pushedOn \in 0..MaxConns

Succeeded == ret.done /\ ret.ok

(* No step succeeds later than one call after its limit, counted from the  *)
(* times its context carried through restarts and pauses.  A wait asks the *)
(* platform when it has looked at its limit and judges the answer when it  *)
(* comes: the limit is exceeded by the length of that call (MaxLag bounds  *)
(* it) and by no more.  Where nothing is asked it is kept to the letter: a *)
(* script is not found answered past its limit, a proxy not taken as       *)
(* effective before its wait, and a device seen online later than          *)
(* OnlineTimeout - BootWait after the change of its system always fails.   *)
VerdictInTime ==
  Succeeded =>
    /\ kind = "download_url" => retAt - row.ctx.start.at <= TaskTimeout + MaxLag
    /\ kind = "install_app_and_wait" /\ row.sub = 2 =>
         /\ row.ctx.done.at - row.ctx.start.at <= TaskTimeout + MaxLag
         /\ retAt - row.ctx.done.at <= InstallTimeout + MaxLag
    /\ kind = "change_os_and_wait" =>
         /\ row.ctx.done.at - row.ctx.start.at <= TaskTimeout + MaxLag
         /\ row.ctx.boot.at - row.ctx.done.at <= OnlineTimeout - BootWait
         /\ retAt - row.ctx.boot.at >= BootWait
    /\ kind \in ScriptKinds => retAt - row.ctx.start.at <= ScriptTimeout
    /\ kind = "set_proxy_and_wait" /\ mode = "engine" => retAt - row.ctx.start.at > ProxyWait

(* A step succeeds on the outcome of its own commands: every task its last *)
(* attempt submitted is at its end (the ones of an attempt that died with  *)
(* the process do not count), and a bot was started over a live channel    *)
(* (the shell of a device that was ready is taken to stay ready).          *)
SuccessIsOwn ==
  Succeeded =>
    /\ kind = "download_url" => tasks[row.ctx.ids[1]] = "downloaded"
    /\ kind = "install_app_and_wait" =>
         tasks[row.ctx.ids[1]] = IF params.install THEN "installed" ELSE "downloaded"
    /\ kind = "change_os_and_wait" => tasks[row.ctx.ids[1]] = "changed"
    /\ kind = "download_cloud" => /\ Len(row.ctx.ids) = Files
                                  /\ \A i \in 1..Files : tasks[row.ctx.ids[i]] = "downloaded"
    /\ kind = "start_bot" => {"accSys", "framework"} \subseteq bot
    /\ kind \in ScriptKinds => tasks[row.ctx.ids[1]] = "answeredOk"

(* A command is sent again only because the process died while it was      *)
(* under way: not by a poll, a pause, a lost answer or a failed query.     *)
(* One goroutine polls here; RpaEngine!StopStopsEngine is about two.       *)
ResentOnlyAfterDeath ==
  Len(tasks) <= (IF kind = "download_cloud" THEN Files ELSE 1) * (1 + deaths)

(* The verdict on a script is the device's own, unless the limit passed or *)
(* the connection it was pushed over is gone: a result that came by that   *)
(* connection, or by a newer one lost since, is lost with it.              *)
ScriptVerdict ==
  ret.done /\ kind \in ScriptKinds /\ mode = "engine" /\ row.ctx.ids # <<>> =>
    \/ tasks[row.ctx.ids[1]] = IF ret.ok THEN "answeredOk" ELSE "answeredFail"
    \/ ~ret.ok /\ (retAt - row.ctx.start.at > ScriptTimeout \/ conn # pushedOn)

(* The single-step handler never sees a script succeed: the int64 start    *)
(* and limit it hands back read as 0, so the first look for the result     *)
(* already counts as too late.                                             *)
SingleScriptFails == mode = "single" /\ kind \in ScriptKinds => ~Succeeded

(* A parameter that is one reference to a flow variable.                   *)
RefTo(name) == Template(<<Ref(<<name>>)>>)

(* The integer a value stands for: a number, or a text that is read as one *)
StandsFor(v, n) == \/ v.type \in {"num", "int"} /\ v.n = n
                   \/ v.type = "str" /\ v.s \in Spellings[n]

(* A condition with one branch to stop_error lets the flow go on only on   *)
(* the right side: between values that stand for integers, however they    *)
(* are written, gt, lt, gte and lte go by the integers; eq and ne do so    *)
(* where both print as plain numerals (the engine's 1000000 prints 1e+06,  *)
(* and is not eq to the text 1000000); and in a flow a variable compared   *)
(* with a reference to itself is equal, set or not.                        *)
ConditionAgrees ==
  kind = "condition_check" /\ Succeeded =>
    LET c == Condition
        Is(op, p) == c.op = op => (c.onFalse = "stop_error" <=> p)
    IN (c.onTrue = "stop_error" <=> c.onFalse # "stop_error") =>
         /\ \A x, y \in Numbers : StandsFor(c.a, x) /\ StandsFor(c.b, y) =>
              /\ Is("gt", x > y) /\ Is("lt", x < y) /\ Is("gte", x >= y) /\ Is("lte", x <= y)
              /\ Text(c.a) = Numeral[x] /\ Text(c.b) = Numeral[y] => Is("eq", x = y) /\ Is("ne", x # y)
         /\ mode = "engine" /\ c.variable # "deviceId" /\ params.step.value = RefTo(c.variable) =>
              Is("eq", TRUE) /\ Is("ne", FALSE) /\ Is("gt", FALSE) /\ Is("lt", FALSE)

(* Every step ends, by its outcome or by its limits, however the platform  *)
(* and the device behave, as long as it is polled and the clock runs.      *)
StepEnds == <>(phase = "ended")
=============================================================================
