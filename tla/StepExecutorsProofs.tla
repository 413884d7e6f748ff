------------------------- MODULE StepExecutorsProofs -------------------------
(* Theorems of StepExecutors, for every set of step types, every limit and    *)
(* every bound.                                                               *)
EXTENDS StepExecutors, TLAPS

Stamps == [at : 0..MaxTime, float : BOOLEAN]

Results == [done : BOOLEAN, ok : BOOLEAN, sub : 0..3, ctx : Ctx]

LEMMA Bounds ==
  /\ Files \in Nat /\ MaxTasks \in Nat /\ MaxRetries \in Nat /\ Epoch \in Nat /\ MaxTime \in Nat /\ MaxLag \in Nat
  /\ MaxBreaks \in Nat /\ MaxConns \in Nat /\ MaxConns >= 1 /\ Epoch <= MaxTime
  /\ TaskTimeout \in Nat /\ InstallTimeout \in Nat /\ OnlineTimeout \in Nat /\ BootWait \in Nat /\ ProxyWait \in Nat
  /\ ScriptTimeout \in Nat /\ Epoch > ScriptTimeout /\ Epoch > 0
  BY StepAssumption

LEMMA NoCtxType == NoCtx \in Ctx /\ NoCtx.ids = <<>> /\ NoCtx.got = {} /\ NoCtx.start = NoStamp
  BY Bounds DEF NoCtx, Ctx, NoStamp

LEMMA ResultTypes == /\ Fail \in Results /\ Fail.done /\ ~Fail.ok
                     /\ Success \in Results /\ Success.done /\ Success.ok
  BY NoCtxType DEF Fail, Success, Results

LEMMA GoType ==
  ASSUME NEW s \in 0..3, NEW c \in Ctx
  PROVE  Go(s, c) \in Results /\ ~Go(s, c).done /\ ~Go(s, c).ok /\ Go(s, c).sub = s /\ Go(s, c).ctx = c
  BY DEF Go, Results

LEMMA NowStamps ==
  ASSUME now \in Epoch..MaxTime
  PROVE  /\ FloatNow \in Stamps /\ FloatNow.float /\ FloatNow.at = now
         /\ IntNow \in Stamps /\ ~IntNow.float /\ IntNow.at = now
  BY Bounds DEF FloatNow, IntNow, Stamps

LEMMA StartType ==
  ASSUME NEW ids \in Seq(1..MaxTasks), NEW stamp \in Stamps
  PROVE  /\ Start(ids, stamp) \in Ctx
         /\ Start(ids, stamp).ids = ids /\ Start(ids, stamp).start = stamp /\ Start(ids, stamp).got = {}
<1>1. PICK c \in Ctx : c = NoCtx
  BY NoCtxType
<1>2. Start(ids, stamp) = [c EXCEPT !.ids = ids, !.start = stamp]
  BY <1>1 DEF Start
<1>3. PICK d \in Ctx : d = [c EXCEPT !.ids = ids]
  BY DEF Ctx
<1>4. d.ids = ids /\ d.got = c.got
  BY <1>3 DEF Ctx
<1>5. Start(ids, stamp) = [d EXCEPT !.start = stamp]
  BY <1>2, <1>3
<1>6. Start(ids, stamp) \in Ctx
  BY <1>5 DEF Ctx, Stamps
<1>7. Start(ids, stamp).start = stamp /\ Start(ids, stamp).ids = d.ids /\ Start(ids, stamp).got = d.got
  BY <1>5 DEF Ctx, Stamps
<1>. QED BY <1>1, <1>4, <1>6, <1>7, NoCtxType

LEMMA CtxFields ==
  ASSUME NEW c \in Ctx
  PROVE  /\ c.start \in Stamps /\ c.done \in Stamps /\ c.boot \in Stamps
         /\ c.ids \in Seq(1..MaxTasks) /\ c.got \in SUBSET (1..MaxTasks) /\ c.retry \in 0..MaxRetries
  BY DEF Ctx, Stamps

LEMMA JsonType ==
  ASSUME NEW c \in Ctx
  PROVE  /\ Json(c) \in Ctx /\ Json(c).ids = c.ids /\ Json(c).got = c.got
         /\ Json(c).start.at = c.start.at /\ Json(c).done.at = c.done.at /\ Json(c).boot.at = c.boot.at
         /\ c.start.at # 0 => Json(c).start.float
         /\ c.start.float => Json(c).start.float
         /\ c.done.float => Json(c).done.float
  BY DEF Json, Ctx, Stamps

(* The context with one field changed. *)
LEMMA ChangedTime ==
  ASSUME NEW c \in Ctx, NEW stamp \in Stamps
  PROVE  /\ [c EXCEPT !.done = stamp] \in Ctx /\ [c EXCEPT !.boot = stamp] \in Ctx
         /\ [c EXCEPT !.done = stamp].done = stamp /\ [c EXCEPT !.done = stamp].start = c.start
         /\ [c EXCEPT !.done = stamp].ids = c.ids
         /\ [c EXCEPT !.boot = stamp].done = c.done /\ [c EXCEPT !.boot = stamp].start = c.start
         /\ [c EXCEPT !.boot = stamp].ids = c.ids
  BY DEF Ctx, Stamps

LEMMA ChangedRest ==
  ASSUME NEW c \in Ctx, NEW g \in SUBSET (1..MaxTasks), NEW n \in 0..MaxRetries, NEW stamp \in Stamps
  PROVE  /\ [c EXCEPT !.got = g] \in Ctx /\ [c EXCEPT !.retry = n] \in Ctx
         /\ [c EXCEPT !.got = g].got = g /\ [c EXCEPT !.got = g].ids = c.ids /\ [c EXCEPT !.got = g].start = c.start
         /\ [c EXCEPT !.start = stamp, !.retry = n] \in Ctx
  BY DEF Ctx, Stamps

------------------------------------------------------------------------------
(* The invariant *)

CallerTypes ==
  /\ kind \in Kinds /\ mode \in Modes /\ params \in Params[kind]
  /\ phase \in {"idle", "calling", "returned", "ended"}
  /\ row \in [sub : 0..3, ctx : Ctx] /\ ret \in Results
  /\ pc \in {"", "send", "query", "probed", "unpacked", "started", "ping"} /\ acc \in Seq(0..MaxTasks)
  /\ now \in Epoch..MaxTime /\ retAt \in Epoch..MaxTime /\ lag \in 0..MaxLag
  /\ paused \in BOOLEAN /\ breaks \in 0..MaxBreaks /\ deaths \in 0..breaks

WorldTypes ==
  /\ tasks \in Seq(TaskStatus) /\ Len(tasks) <= MaxTasks /\ inbox \subseteq 1..MaxTasks
  /\ bot \subseteq {"shell", "config", "accSys", "framework"} /\ net \subseteq DOMAIN Phrases
  /\ conn \in {0, conns} /\ conns \in 0..MaxConns /\ pushedOn \in 0..conns

OneTaskKinds == {"download_url", "install_app_and_wait", "change_os_and_wait"}

(* The sub-steps after the commands were sent. *)
Waiting(s) == s >= IF kind = "execute_repo_script" THEN 2 ELSE 1

(* What a context holds at sub-step s. *)
TaskCarried(s, c) ==
  kind \in OneTaskKinds =>
    /\ s >= 1 => Len(c.ids) = 1 /\ c.ids[1] \in 1..Len(tasks) /\ c.start.float
    /\ s >= 2 /\ kind # "download_url" => c.done.float /\ c.done.at - c.start.at <= TaskTimeout + MaxLag
    /\ s >= 2 /\ kind = "change_os_and_wait" => tasks[c.ids[1]] = "changed"

CloudCarried(s, c) ==
  kind = "download_cloud" /\ s >= 1 =>
    /\ c.start.float /\ Len(c.ids) = Files /\ \A i \in 1..Files : c.ids[i] \in 1..Len(tasks)
    /\ \A t \in c.got : t \in 1..Len(tasks) /\ tasks[t] = "downloaded"
    /\ s >= 2 => \A i \in 1..Files : c.ids[i] \in c.got

BotCarried(s) ==
  kind = "start_bot" => (s >= 2 => "accSys" \in bot) /\ (s >= 3 => "framework" \in bot)

ScriptCarried(s, c) ==
  kind \in ScriptKinds =>
    /\ c.ids # <<>> <=> Waiting(s)
    /\ Waiting(s) => Len(c.ids) = 1 /\ c.ids[1] \in 1..Len(tasks) /\ c.start.at # 0 /\ pushedOn >= 1
    /\ mode = "single" => ~c.start.float

ProxyCarried(s, c) == kind = "set_proxy_and_wait" /\ s >= 1 => c.start.at # 0

Carries(s, c) ==
  TaskCarried(s, c) /\ CloudCarried(s, c) /\ BotCarried(s) /\ ScriptCarried(s, c) /\ ProxyCarried(s, c)

(* A time that was read back from the database is a float64. *)
FromJson(c) == mode = "engine" /\ c.start.at # 0 => c.start.float

RowCarries == Carries(row.sub, row.ctx) /\ FromJson(row.ctx)

(* A query that is under way was asked within its limit: the clock has gone   *)
(* on by the ticks since the last poll at most.                               *)
AskedInTime ==
  /\ row.sub = 1 => now - row.ctx.start.at <= TaskTimeout + lag
  /\ kind = "install_app_and_wait" /\ row.sub = 2 => now - row.ctx.done.at <= InstallTimeout + lag

(* Inside a long Execute. *)
InCall ==
  \/ /\ pc = "send" /\ kind = "download_cloud" /\ row.sub = 0
     /\ acc \in Seq(1..MaxTasks) /\ Len(acc) <= Files /\ \A i \in 1..Len(acc) : acc[i] \in 1..Len(tasks)
  \/ pc = "probed" /\ kind = "start_bot" /\ row.sub \in {1, 2} /\ "shell" \in bot
  \/ pc = "unpacked" /\ kind = "start_bot" /\ row.sub = 1 /\ "shell" \in bot
  \/ pc = "started" /\ kind = "start_bot" /\ row.sub = 1 /\ {"shell", "accSys"} \subseteq bot
  \/ pc = "ping" /\ kind = "network_check"
  \/ pc = "query" /\ kind \in OneTaskKinds /\ row.sub \in {1, 2} /\ AskedInTime

Called ==
  /\ phase = "calling" => InCall
  /\ phase # "calling" => pc = "" /\ acc = <<>>
  /\ phase \in {"idle", "calling"} => ~ret.done

(* The parts of the properties that speak of a step that is over. *)
InTime(at) ==
  /\ kind = "download_url" => at - row.ctx.start.at <= TaskTimeout + MaxLag
  /\ kind = "install_app_and_wait" /\ row.sub = 2 =>
       row.ctx.done.at - row.ctx.start.at <= TaskTimeout + MaxLag /\ at - row.ctx.done.at <= InstallTimeout + MaxLag
  /\ kind = "change_os_and_wait" =>
       /\ row.ctx.done.at - row.ctx.start.at <= TaskTimeout + MaxLag
       /\ row.ctx.boot.at - row.ctx.done.at <= OnlineTimeout - BootWait
       /\ at - row.ctx.boot.at >= BootWait
  /\ kind \in ScriptKinds => at - row.ctx.start.at <= ScriptTimeout
  /\ kind = "set_proxy_and_wait" /\ mode = "engine" => at - row.ctx.start.at > ProxyWait

Own ==
  /\ kind \in OneTaskKinds \cup ScriptKinds => row.ctx.ids[1] \in 1..Len(tasks)
  /\ kind = "download_url" => tasks[row.ctx.ids[1]] = "downloaded"
  /\ kind = "install_app_and_wait" =>
       tasks[row.ctx.ids[1]] = IF params.install THEN "installed" ELSE "downloaded"
  /\ kind = "change_os_and_wait" => tasks[row.ctx.ids[1]] = "changed"
  /\ kind = "download_cloud" =>
       /\ Len(row.ctx.ids) = Files
       /\ \A i \in 1..Files : row.ctx.ids[i] \in 1..Len(tasks) /\ tasks[row.ctx.ids[i]] = "downloaded"
  /\ kind = "start_bot" => {"accSys", "framework"} \subseteq bot
  /\ kind \in ScriptKinds => tasks[row.ctx.ids[1]] = "answeredOk"

Truth(r, at) ==
  kind \in ScriptKinds /\ mode = "engine" /\ row.ctx.ids # <<>> =>
    \/ tasks[row.ctx.ids[1]] = IF r.ok THEN "answeredOk" ELSE "answeredFail"
    \/ ~r.ok /\ (at - row.ctx.start.at > ScriptTimeout \/ conn # pushedOn)

Judged(r, at) ==
  /\ r.ok => InTime(at) /\ Own /\ ~(mode = "single" /\ kind \in ScriptKinds)
  /\ Truth(r, at)

Returned ==
  /\ phase = "returned" /\ ~ret.done => Carries(ret.sub, ret.ctx)
  /\ ret.done => Judged(ret, retAt)

(* The platform and the device report what they were asked for. *)
Answered ==
  /\ \A t \in inbox : t \in 1..Len(tasks) /\ tasks[t] \in {"answeredOk", "answeredFail"}
  /\ kind = "install_app_and_wait" => \A t \in 1..Len(tasks) : tasks[t] = "installed" => params.install

StepInv == CallerTypes /\ WorldTypes /\ RowCarries /\ Called /\ Returned /\ Answered

LEMMA InvImplies == StepInv => TypeOK /\ VerdictInTime /\ SuccessIsOwn /\ ScriptVerdict /\ SingleScriptFails
<1>. SUFFICES ASSUME StepInv PROVE TypeOK /\ VerdictInTime /\ SuccessIsOwn /\ ScriptVerdict /\ SingleScriptFails
  OBVIOUS
<1>1. TypeOK
  <2>1. ret \in [done : BOOLEAN, ok : BOOLEAN, sub : 0..3, ctx : Ctx]
    BY DEF StepInv, CallerTypes, Results
  <2>2. pushedOn \in 0..MaxConns /\ deaths \in 0..MaxBreaks
    <3>1. pushedOn \in 0..conns /\ conns \in 0..MaxConns /\ breaks \in 0..MaxBreaks /\ deaths \in 0..breaks
      BY DEF StepInv, CallerTypes, WorldTypes
    <3>. QED BY <3>1, Bounds
  <2>. QED BY <2>1, <2>2 DEF StepInv, CallerTypes, WorldTypes, TypeOK
<1>2. ret.done => Judged(ret, retAt)
  BY DEF StepInv, Returned
<1>3. VerdictInTime
  BY <1>2 DEF Judged, InTime, VerdictInTime, Succeeded
<1>4. SuccessIsOwn
  BY <1>2 DEF Judged, Own, SuccessIsOwn, Succeeded
<1>5. ScriptVerdict
  BY <1>2 DEF Judged, Truth, ScriptVerdict
<1>6. SingleScriptFails
  BY <1>2 DEF Judged, SingleScriptFails, Succeeded
<1>. QED BY <1>1, <1>3, <1>4, <1>5, <1>6

------------------------------------------------------------------------------
(* What the world may do without taking back what a context or a verdict      *)
(* rests on: tasks are added, and only one that is not at its end moves on.   *)

WorldKeeps ==
  /\ UNCHANGED <<kind, mode, params>>
  /\ Len(tasks) <= Len(tasks')
  /\ \A t \in 1..Len(tasks) :
       tasks[t] # "queued" /\ ~(tasks[t] = "downloaded" /\ params.install) => tasks'[t] = tasks[t]
  /\ bot \subseteq bot'
  /\ pushedOn >= 1 => pushedOn' >= 1

LEMMA InstallOnly ==
  ASSUME CallerTypes, kind # "condition_check"
  PROVE  params.install \in BOOLEAN /\ (params.install => kind = "install_app_and_wait")
  BY StepAssumption DEF CallerTypes

LEMMA CarriesStays ==
  ASSUME CallerTypes, WorldTypes, WorldTypes', WorldKeeps, NEW s \in 0..3, NEW c \in Ctx, Carries(s, c)
  PROVE  Carries(s, c)'
<1>1. 1..Len(tasks) \subseteq 1..Len(tasks')
  BY DEF WorldTypes, WorldKeeps
<1>2. TaskCarried(s, c)'
  <2>1. ASSUME NEW t \in 1..Len(tasks), tasks[t] = "changed" PROVE tasks'[t] = "changed"
    BY <2>1 DEF WorldKeeps
  <2>. QED BY <1>1, <2>1 DEF Carries, TaskCarried, WorldKeeps
<1>3. CloudCarried(s, c)'
  <2>1. SUFFICES ASSUME kind = "download_cloud", s >= 1 PROVE CloudCarried(s, c)'
    BY DEF CloudCarried, WorldKeeps
  <2>2. ~params.install
    BY <2>1, InstallOnly
  <2>3. \A t \in 1..Len(tasks) : tasks[t] = "downloaded" => tasks'[t] = "downloaded"
    BY <2>2 DEF WorldKeeps
  <2>. QED BY <1>1, <2>1, <2>3 DEF Carries, CloudCarried, WorldKeeps
<1>4. BotCarried(s)'
  BY DEF Carries, BotCarried, WorldKeeps
<1>5. ScriptCarried(s, c)'
  BY <1>1 DEF Carries, ScriptCarried, WorldKeeps, Waiting
<1>6. ProxyCarried(s, c)'
  BY DEF Carries, ProxyCarried, WorldKeeps
<1>. QED BY <1>2, <1>3, <1>4, <1>5, <1>6 DEF Carries

LEMMA JudgedStays ==
  ASSUME CallerTypes, WorldTypes, WorldTypes', RowCarries, WorldKeeps, UNCHANGED row, NEW r \in Results, NEW at, Judged(r, at),
         kind \in ScriptKinds /\ row.ctx.ids # <<>> /\ conn # pushedOn => conn' # pushedOn'
  PROVE  Judged(r, at)'
<1>1. 1..Len(tasks) \subseteq 1..Len(tasks')
  BY DEF WorldTypes, WorldKeeps
<1>2. InTime(at) => InTime(at)'
  BY DEF InTime, WorldKeeps
<1>3. ASSUME NEW t \in 1..Len(tasks), tasks[t] \in {"changed", "answeredOk", "answeredFail", "installed"}
      PROVE  tasks'[t] = tasks[t]
  BY <1>3 DEF WorldKeeps
<1>4. ASSUME NEW t \in 1..Len(tasks), tasks[t] = "downloaded",
             kind \in {"download_url", "download_cloud"} \/ (kind = "install_app_and_wait" /\ ~params.install)
      PROVE  tasks'[t] = tasks[t]
  BY <1>4, InstallOnly DEF WorldKeeps
<1>5. ASSUME Own PROVE Own'
  <2>. USE <1>5 DEF Own, WorldKeeps
  <2>1. kind \in OneTaskKinds \cup ScriptKinds => row.ctx.ids[1] \in 1..Len(tasks)
    OBVIOUS
  <2>2. (kind \in OneTaskKinds \cup ScriptKinds => row.ctx.ids[1] \in 1..Len(tasks))'
    BY <1>1
  <2>3. (kind = "download_url" => tasks[row.ctx.ids[1]] = "downloaded")'
    BY <1>4, <2>1 DEF OneTaskKinds
  <2>4. (kind = "install_app_and_wait" =>
          tasks[row.ctx.ids[1]] = IF params.install THEN "installed" ELSE "downloaded")'
    BY <1>3, <1>4, <2>1 DEF OneTaskKinds
  <2>5. (kind = "change_os_and_wait" => tasks[row.ctx.ids[1]] = "changed")'
    BY <1>3, <2>1 DEF OneTaskKinds
  <2>6. (kind = "download_cloud" =>
          /\ Len(row.ctx.ids) = Files
          /\ \A i \in 1..Files : row.ctx.ids[i] \in 1..Len(tasks) /\ tasks[row.ctx.ids[i]] = "downloaded")'
    BY <1>1, <1>4
  <2>7. (kind = "start_bot" => {"accSys", "framework"} \subseteq bot)'
    OBVIOUS
  <2>8. (kind \in ScriptKinds => tasks[row.ctx.ids[1]] = "answeredOk")'
    BY <1>3, <2>1
  <2>. QED BY <2>2, <2>3, <2>4, <2>5, <2>6, <2>7, <2>8
<1>6. Truth(r, at)'
  <2>1. SUFFICES ASSUME kind \in ScriptKinds, mode = "engine", row.ctx.ids # <<>> PROVE Truth(r, at)'
    BY DEF Truth, WorldKeeps
  <2>2. row.ctx.ids[1] \in 1..Len(tasks)
    BY <2>1 DEF RowCarries, Carries, ScriptCarried
  <2>3. Truth(r, at)
    BY DEF Judged
  <2>. QED BY <1>3, <2>1, <2>2, <2>3 DEF Truth
<1>. QED BY <1>2, <1>5, <1>6 DEF Judged, WorldKeeps

------------------------------------------------------------------------------
(* What every call of an executor owes: the types of what it returns, and for *)
(* a verdict or a context that it holds after the step.                       *)

Owed(r) == (~r.done => Carries(r.sub, r.ctx)) /\ (r.done => Judged(r, now))

WorldIsFine == WorldTypes' /\ RowCarries' /\ Answered'

LEMMA ReturnsKeep ==
  ASSUME StepInv, NEW r \in Results, Returns(r), WorldIsFine, Owed(r)'
  PROVE  StepInv'
<1>1. CallerTypes'
  <2>1. acc' \in Seq(0..MaxTasks) /\ pc' = ""
    <3>1. <<>> \in Seq(0..MaxTasks)
      OBVIOUS
    <3>2. acc' = <<>> /\ pc' = ""
      BY DEF Returns
    <3>. QED BY <3>1, <3>2
  <2>2. UNCHANGED <<kind, mode, params, row, paused, breaks, deaths, now, lag>> /\ phase' = "returned"
        /\ ret' = r /\ retAt' = now
    BY DEF Returns, caller
  <2>. QED BY <2>1, <2>2 DEF StepInv, CallerTypes
<1>2. Called'
  BY DEF Called, Returns
<1>3. Returned'
  BY DEF Returned, Returns, Owed
<1>. QED BY <1>1, <1>2, <1>3 DEF StepInv, WorldIsFine

LEMMA ContinuesKeep ==
  ASSUME StepInv, NEW p \in {"send", "query", "probed", "unpacked", "started", "ping"}, NEW ids \in Seq(0..MaxTasks), Continues(p, ids),
         WorldIsFine, InCall', phase \in {"idle", "calling"}
  PROVE  StepInv'
<1>1. CallerTypes'
  BY DEF StepInv, CallerTypes, Continues, caller
<1>2. ~ret.done /\ ret' = ret /\ phase' = "calling"
  BY DEF StepInv, Called, Continues
<1>3. Called' /\ Returned'
  BY <1>2 DEF Called, Returned
<1>. QED BY <1>1, <1>3 DEF StepInv, WorldIsFine

(* The world is left alone. *)
LEMMA Untouched ==
  ASSUME StepInv, UNCHANGED <<kind, mode, params, row, now, world>>
  PROVE  /\ WorldIsFine /\ \A s, c : Carries(s, c) => Carries(s, c)'
         /\ \A r : Owed(r) => Owed(r)'
         /\ InTime(now) => InTime(now)'
<1>. USE DEF world
<1>1. WorldTypes' /\ Answered'
  BY DEF StepInv, WorldTypes, Answered
<1>2. ASSUME NEW s, NEW c, Carries(s, c) PROVE Carries(s, c)'
  BY <1>2 DEF Carries, TaskCarried, CloudCarried, BotCarried, ScriptCarried, ProxyCarried, Waiting
<1>3. RowCarries'
  BY <1>2 DEF StepInv, RowCarries, FromJson
<1>4. ASSUME NEW r, Judged(r, now) PROVE Judged(r, now)'
  BY <1>4 DEF Judged, InTime, Own, Truth
<1>. QED BY <1>1, <1>2, <1>3, <1>4 DEF WorldIsFine, Owed, InTime

LEMMA ReturnsHere ==
  ASSUME StepInv, NEW r \in Results, Returns(r), UNCHANGED world, Owed(r)
  PROVE  StepInv'
<1>1. UNCHANGED <<kind, mode, params, row, now, world>>
  BY DEF Returns, caller
<1>. QED BY <1>1, Untouched, ReturnsKeep

LEMMA FailsHere ==
  ASSUME StepInv, Returns(Fail), UNCHANGED world, kind \notin ScriptKinds \/ row.ctx.ids = <<>>
  PROVE  StepInv'
<1>1. Judged(Fail, now)
  BY ResultTypes DEF Judged, Truth
<1>. QED BY <1>1, ResultTypes, ReturnsHere DEF Owed

(* A step without a verdict to justify. *)
OneCallKinds == {"set_variables", "shell", "get_root", "set_location", "http_request", "network_check",
                 "condition_check"}

LEMMA OneCallHere ==
  ASSUME StepInv, kind \in OneCallKinds, UNCHANGED <<kind, mode, params, row, now>>, NEW r \in {Success, Fail}
  PROVE  Owed(r)'
  BY ResultTypes DEF OneCallKinds, Owed, Judged, InTime, Own, Truth, OneTaskKinds, ScriptKinds

------------------------------------------------------------------------------
(* The executors, one lemma each. *)

LEMMA StepFacts ==
  ASSUME StepInv
  PROVE  /\ row.sub \in 0..3 /\ row.ctx \in Ctx /\ Carries(row.sub, row.ctx) /\ FromJson(row.ctx)
         /\ now \in Epoch..MaxTime /\ now \in Nat /\ now # 0 /\ now > ScriptTimeout
         /\ CallerTypes /\ WorldTypes /\ RowCarries
         /\ FloatNow \in Stamps /\ FloatNow.float /\ FloatNow.at = now
         /\ IntNow \in Stamps /\ ~IntNow.float /\ IntNow.at = now
<1>1. CallerTypes /\ WorldTypes /\ RowCarries
  BY DEF StepInv
<1>2. now \in Epoch..MaxTime /\ row.sub \in 0..3 /\ row.ctx \in Ctx
  BY <1>1 DEF CallerTypes
<1>3. now \in Nat /\ now # 0 /\ now > ScriptTimeout
  BY <1>2, Bounds
<1>4. Carries(row.sub, row.ctx) /\ FromJson(row.ctx)
  BY <1>1 DEF RowCarries
<1>. QED BY <1>1, <1>2, <1>3, <1>4, NowStamps

LEMMA NoTasksYet == <<>> \in Seq(1..MaxTasks) /\ <<>> \in Seq(0..MaxTasks)
  OBVIOUS

LEMMA SetProxyKeeps == ASSUME StepInv, SetProxy PROVE StepInv'
<1>1. kind = "set_proxy_and_wait" /\ UNCHANGED world
  BY DEF SetProxy, At
<1>2. CASE Returns(Fail)
  BY <1>1, <1>2, FailsHere DEF ScriptKinds
<1>3. CASE Returns(Go(1, Start(<<>>, IntNow)))
  <2>1. PICK c \in Ctx : c = Start(<<>>, IntNow) /\ c.start.at = now
    <3>1. PICK e \in Seq(1..MaxTasks) : e = <<>>
      BY NoTasksYet
    <3>2. Start(e, IntNow) \in Ctx /\ Start(e, IntNow).start = IntNow
      BY StepFacts, StartType
    <3>. QED BY <3>1, <3>2, StepFacts
  <2>2. PICK r \in Results : r = Go(1, c) /\ ~r.done /\ r.sub = 1 /\ r.ctx = c
    BY GoType
  <2>3. Carries(1, c)
    BY <1>1, <2>1, StepFacts DEF Carries, TaskCarried, CloudCarried, BotCarried, ScriptCarried, ProxyCarried,
       OneTaskKinds, ScriptKinds
  <2>. QED BY <1>1, <1>3, <2>1, <2>2, <2>3, ReturnsHere DEF Owed
<1>. QED BY <1>2, <1>3 DEF SetProxy

LEMMA WaitEffectKeeps == ASSUME StepInv, WaitEffect PROVE StepInv'
<1>1. kind = "set_proxy_and_wait" /\ row.sub = 1 /\ UNCHANGED world
  BY DEF WaitEffect, At
<1>2. CASE Elapsed(row.ctx.start) > ProxyWait
  <2>1. Returns(Success)
    BY <1>2 DEF WaitEffect
  <2>2. mode = "engine" => row.ctx.start.float
    BY <1>1, StepFacts DEF Carries, ProxyCarried, FromJson
  <2>3. Judged(Success, now)
    BY <1>1, <1>2, <2>2 DEF Judged, InTime, Own, Truth, OneTaskKinds, ScriptKinds, Elapsed
  <2>. QED BY <1>1, <2>1, <2>3, ResultTypes, ReturnsHere DEF Owed
<1>3. CASE ~(Elapsed(row.ctx.start) > ProxyWait)
  <2>1. Returns(Go(1, row.ctx))
    BY <1>3 DEF WaitEffect
  <2>2. PICK r \in Results : r = Go(1, row.ctx) /\ ~r.done /\ r.sub = 1 /\ r.ctx = row.ctx
    BY GoType, StepFacts
  <2>. QED BY <1>1, <2>1, <2>2, StepFacts, ReturnsHere DEF Owed
<1>. QED BY <1>2, <1>3

LEMMA OneCallKeep ==
  ASSUME StepInv, SetVariables \/ ExecShell \/ GetRoot \/ SetLocation \/ HttpRequest \/ ConditionCheck
  PROVE  StepInv'
<1>1. kind \in OneCallKinds /\ UNCHANGED world
  BY DEF SetVariables, ExecShell, GetRoot, SetLocation, HttpRequest, ConditionCheck, At, OneCallKinds
<1>2. Returns(Success) \/ Returns(Fail)
  BY DEF SetVariables, ExecShell, GetRoot, SetLocation, HttpRequest, ConditionCheck
<1>3. UNCHANGED <<kind, mode, params, row, now, world>>
  BY <1>1, <1>2 DEF Returns, caller
<1>. QED BY <1>1, <1>2, <1>3, Untouched, OneCallHere, ReturnsKeep, ResultTypes

LEMMA NetworkCheckKeeps == ASSUME StepInv, NetworkCheck PROVE StepInv'
<1>1. PICK p \in DOMAIN Phrases :
        /\ net' = net \cup {p}
        /\ Returns(Success) \/ Returns(Fail) \/ Continues("ping", Append(acc, 0))
  BY DEF NetworkCheck
<1>2. /\ kind = "network_check" /\ phase \in {"idle", "calling"}
      /\ UNCHANGED <<tasks, bot, conn, inbox, conns, pushedOn>>
  BY DEF NetworkCheck, At, Inside, StepInv, Called, InCall
<1>3. UNCHANGED <<kind, mode, params, row, now>>
  BY <1>1 DEF Returns, Continues, caller
<1>4. WorldIsFine
  <2>1. WorldTypes' /\ Answered'
    BY <1>1, <1>2, <1>3 DEF StepInv, WorldTypes, Answered
  <2>2. RowCarries'
    BY <1>2, <1>3 DEF StepInv, RowCarries, FromJson, Carries, TaskCarried, CloudCarried, BotCarried, ScriptCarried,
       ProxyCarried, Waiting
  <2>. QED BY <2>1, <2>2 DEF WorldIsFine
<1>5. CASE Returns(Success) \/ Returns(Fail)
  BY <1>2, <1>3, <1>4, <1>5, OneCallHere, ReturnsKeep, ResultTypes DEF OneCallKinds
<1>6. CASE Continues("ping", Append(acc, 0))
  <2>1. Append(acc, 0) \in Seq(0..MaxTasks)
    <3>1. acc \in Seq(0..MaxTasks)
      BY StepFacts DEF CallerTypes
    <3>2. 0 \in 0..MaxTasks
      BY Bounds
    <3>. QED BY <3>1, <3>2
  <2>2. InCall'
    BY <1>2, <1>3, <1>6 DEF InCall, Continues
  <2>. QED BY <1>2, <1>4, <1>6, <2>1, <2>2, ContinuesKeep
<1>. QED BY <1>1, <1>5, <1>6

(* A task is submitted, and the rest of the world is left alone. *)
LEMMA AddTask ==
  ASSUME StepInv, Len(tasks) < MaxTasks, tasks' = Append(tasks, "queued"),
         UNCHANGED <<kind, mode, params, row, now, bot, net, inbox>>,
         conn' \in {0, conns'}, conns' \in 0..MaxConns, pushedOn' \in 0..conns', pushedOn >= 1 => pushedOn' >= 1
  PROVE  /\ WorldIsFine /\ WorldKeeps
         /\ NewId \in 1..MaxTasks /\ NewId \in 1..Len(tasks') /\ 1..Len(tasks) \subseteq 1..Len(tasks')
<1>1. tasks \in Seq(TaskStatus) /\ "queued" \in TaskStatus /\ Len(tasks) \in Nat
  BY StepFacts DEF WorldTypes, TaskStatus
<1>2. /\ tasks' \in Seq(TaskStatus) /\ Len(tasks') = Len(tasks) + 1
      /\ \A t \in 1..Len(tasks) : tasks'[t] = tasks[t]
  BY <1>1
<1>3. WorldTypes'
  BY <1>1, <1>2, StepFacts, Bounds DEF WorldTypes
<1>4. WorldKeeps
  BY <1>1, <1>2 DEF WorldKeeps
<1>5. RowCarries'
  BY <1>3, <1>4, StepFacts, CarriesStays DEF RowCarries, FromJson
<1>6. Answered'
  BY <1>1, <1>2 DEF StepInv, Answered
<1>. QED BY <1>1, <1>2, <1>3, <1>4, <1>5, <1>6, Bounds DEF WorldIsFine, NewId

LEMMA SubmittedKeeps ==
  ASSUME StepInv, NEW a \in Answers, Submitted(a), UNCHANGED <<kind, mode, params, row, now>>
  PROVE  /\ WorldIsFine /\ WorldKeeps
         /\ a = "ok" => NewId \in 1..MaxTasks /\ NewId \in 1..Len(tasks') /\ 1..Len(tasks) \subseteq 1..Len(tasks')
<1>1. CASE a # "refused" /\ tasks' = Append(tasks, "queued")
  <2>1. Len(tasks) < MaxTasks /\ UNCHANGED <<bot, net, conn, inbox, conns, pushedOn>>
    BY <1>1 DEF Submitted
  <2>. QED BY <1>1, <2>1, StepFacts, AddTask DEF WorldTypes
<1>2. CASE a # "ok" /\ tasks' = tasks
  <2>1. UNCHANGED <<kind, mode, params, row, now, world>>
    BY <1>2 DEF Submitted, world
  <2>2. WorldKeeps
    BY <2>1, StepFacts DEF WorldKeeps, world, WorldTypes
  <2>. QED BY <1>2, <2>1, <2>2, Untouched
<1>. QED BY <1>1, <1>2 DEF Submitted

(* A failure says nothing but about scripts. *)
LEMMA Fails ==
  ASSUME StepInv, Returns(Fail), WorldIsFine, kind \notin ScriptKinds
  PROVE  StepInv'
<1>1. Owed(Fail)'
  BY ResultTypes DEF Owed, Judged, Truth, Returns, caller
<1>. QED BY <1>1, ResultTypes, ReturnsKeep

LEMMA SendTaskKeeps ==
  ASSUME StepInv, NEW k \in OneTaskKinds, SendTask(k)
  PROVE  StepInv'
<1>1. PICK a \in Answers \cup {"noId"} :
        /\ Submitted(IF a = "noId" THEN "ok" ELSE a)
        /\ Returns(IF a = "ok" THEN Go(1, Start(<<NewId>>, FloatNow)) ELSE Fail)
  BY DEF SendTask
<1>2. kind = k /\ kind \notin ScriptKinds /\ UNCHANGED <<kind, mode, params, row, now>>
  BY <1>1 DEF SendTask, At, OneTaskKinds, ScriptKinds, Returns, caller
<1>3. PICK b \in Answers : b = IF a = "noId" THEN "ok" ELSE a
  BY DEF Answers
<1>4. /\ WorldIsFine /\ WorldKeeps
      /\ b = "ok" => NewId \in 1..MaxTasks /\ NewId \in 1..Len(tasks')
  BY <1>1, <1>2, <1>3, SubmittedKeeps
<1>5. CASE a # "ok"
  BY <1>1, <1>2, <1>4, <1>5, Fails
<1>6. CASE a = "ok"
  <2>1. PICK id \in 1..MaxTasks : id = NewId /\ id \in 1..Len(tasks')
    BY <1>3, <1>4, <1>6
  <2>2. PICK e \in Seq(1..MaxTasks) : e = <<id>> /\ Len(e) = 1 /\ e[1] = id
    <3>1. <<id>> \in Seq(1..MaxTasks) /\ Len(<<id>>) = 1 /\ <<id>>[1] = id
      OBVIOUS
    <3>. QED BY <3>1
  <2>3. PICK c \in Ctx : c = Start(e, FloatNow) /\ c.ids = e /\ c.start = FloatNow
    BY StepFacts, StartType
  <2>4. PICK r \in Results : r = Go(1, c) /\ ~r.done /\ r.sub = 1 /\ r.ctx = c
    BY GoType
  <2>5. Returns(r)
    BY <1>1, <1>6, <2>1, <2>2, <2>3, <2>4
  <2>6. c.start.float
    BY <2>3, StepFacts
  <2>7. Carries(1, c)'
    BY <1>2, <2>1, <2>2, <2>3, <2>6 DEF Carries, TaskCarried, CloudCarried, BotCarried, ScriptCarried, ProxyCarried,
       OneTaskKinds, ScriptKinds
  <2>8. Owed(r)'
    BY <2>4, <2>7 DEF Owed
  <2>. QED BY <1>4, <2>5, <2>8, ReturnsKeep
<1>. QED BY <1>5, <1>6

LEMMA StaysHere ==
  ASSUME StepInv, Returns(Go(row.sub, row.ctx)), UNCHANGED world
  PROVE  StepInv'
<1>1. PICK r \in Results : r = Go(row.sub, row.ctx) /\ ~r.done /\ r.sub = row.sub /\ r.ctx = row.ctx
  BY GoType, StepFacts
<1>. QED BY <1>1, StepFacts, ReturnsHere DEF Owed

LEMMA SucceedsHere ==
  ASSUME StepInv, Returns(Success), UNCHANGED world, Judged(Success, now)
  PROVE  StepInv'
  BY ResultTypes, ReturnsHere DEF Owed

LEMMA OneTaskHeld ==
  ASSUME StepInv, kind \in OneTaskKinds, row.sub >= 1
  PROVE  /\ row.ctx.ids[1] \in 1..Len(tasks) /\ tasks[row.ctx.ids[1]] \in TaskStatus
         /\ Elapsed(row.ctx.start) = now - row.ctx.start.at
         /\ row.sub >= 2 /\ kind # "download_url" =>
              Elapsed(row.ctx.done) = now - row.ctx.done.at /\ row.ctx.done.at - row.ctx.start.at <= TaskTimeout + MaxLag
<1>1. TaskCarried(row.sub, row.ctx) /\ tasks \in Seq(TaskStatus)
  BY StepFacts DEF Carries, WorldTypes
<1>2. row.ctx.ids[1] \in 1..Len(tasks) /\ row.ctx.start.float
  BY <1>1 DEF TaskCarried
<1>3. tasks[row.ctx.ids[1]] \in TaskStatus
  BY <1>1, <1>2
<1>. QED BY <1>1, <1>2, <1>3 DEF TaskCarried, Elapsed

(* The times of a query. *)
LEMMA ClockFacts ==
  ASSUME StepInv
  PROVE  row.ctx.start.at \in Int /\ row.ctx.done.at \in Int /\ now \in Int /\ lag \in Int /\ 0 <= lag /\ lag <= MaxLag
<1>1. lag \in 0..MaxLag
  BY DEF StepInv, CallerTypes
<1>. QED BY <1>1, StepFacts, CtxFields, Bounds DEF Stamps

LEMMA QueryBegins ==
  ASSUME StepInv, kind \in OneTaskKinds, row.sub \in {1, 2}, phase = "idle", Continues("query", <<>>), UNCHANGED world,
         row.sub = 1 => ~Late(row.ctx.start, TaskTimeout),
         kind = "install_app_and_wait" /\ row.sub = 2 => ~Late(row.ctx.done, InstallTimeout)
  PROVE  StepInv'
<1>1. UNCHANGED <<kind, mode, params, row, now, lag, world>> /\ pc' = "query"
  BY DEF Continues, caller
<1>2. row.sub = 1 => now - row.ctx.start.at <= TaskTimeout + lag
  BY OneTaskHeld, ClockFacts, Bounds DEF Late
<1>3. kind = "install_app_and_wait" /\ row.sub = 2 => now - row.ctx.done.at <= InstallTimeout + lag
  BY OneTaskHeld, ClockFacts, Bounds DEF Late
<1>4. AskedInTime'
  BY <1>1, <1>2, <1>3 DEF AskedInTime
<1>5. InCall'
  BY <1>1, <1>4 DEF InCall
<1>6. PICK e \in Seq(0..MaxTasks) : e = <<>>
  BY NoTasksYet
<1>. QED BY <1>1, <1>5, <1>6, Untouched, ContinuesKeep

LEMMA AsksKeeps ==
  ASSUME StepInv, NEW k \in OneTaskKinds, NEW s \in {1, 2}, NEW late, Asks(k, s, late), UNCHANGED world,
         ~late /\ s = 1 => ~Late(row.ctx.start, TaskTimeout),
         ~late /\ k = "install_app_and_wait" /\ s = 2 => ~Late(row.ctx.done, InstallTimeout)
  PROVE  StepInv'
<1>1. kind = k /\ row.sub = s /\ kind \notin ScriptKinds /\ phase = "idle"
  BY DEF Asks, At, OneTaskKinds, ScriptKinds
<1>2. CASE Returns(Fail)
  BY <1>1, <1>2, FailsHere
<1>3. CASE ~late /\ Continues("query", <<>>)
  BY <1>1, <1>3, QueryBegins
<1>. QED BY <1>2, <1>3 DEF Asks

(* An answer comes within the limit and the ticks that passed meanwhile. *)
LEMMA QueryEnds ==
  ASSUME StepInv, NEW k, NEW s, Asked(k, s)
  PROVE  /\ kind = k /\ row.sub = s /\ kind \in OneTaskKinds /\ kind \notin ScriptKinds /\ phase = "calling"
         /\ s = 1 => now - row.ctx.start.at <= TaskTimeout + MaxLag
         /\ k = "install_app_and_wait" /\ s = 2 => now - row.ctx.done.at <= InstallTimeout + MaxLag
<1>1. pc = "query" /\ phase = "calling" /\ kind = k /\ row.sub = s
  BY DEF Asked, Inside
<1>2. kind \in OneTaskKinds /\ AskedInTime
  BY <1>1 DEF StepInv, Called, InCall
<1>3. /\ s = 1 => now - row.ctx.start.at <= TaskTimeout + lag
      /\ k = "install_app_and_wait" /\ s = 2 => now - row.ctx.done.at <= InstallTimeout + lag
  BY <1>1, <1>2 DEF AskedInTime
<1>4. /\ s = 1 => now - row.ctx.start.at <= TaskTimeout + MaxLag
      /\ k = "install_app_and_wait" /\ s = 2 => now - row.ctx.done.at <= InstallTimeout + MaxLag
  BY <1>3, ClockFacts, Bounds
<1>5. kind \notin ScriptKinds
  BY <1>2 DEF OneTaskKinds, ScriptKinds
<1>. QED BY <1>1, <1>2, <1>4, <1>5

LEMMA MovesOn ==
  ASSUME StepInv, kind \in {"install_app_and_wait", "change_os_and_wait"}, row.sub = 1,
         now - row.ctx.start.at <= TaskTimeout + MaxLag, Returns(Go(2, [row.ctx EXCEPT !.done = FloatNow])),
         UNCHANGED world, kind = "change_os_and_wait" => tasks[row.ctx.ids[1]] = "changed"
  PROVE  StepInv'
<1>1. PICK c \in Ctx : c = [row.ctx EXCEPT !.done = FloatNow] /\ c.done = FloatNow /\ c.start = row.ctx.start
                       /\ c.ids = row.ctx.ids
  <2>1. PICK x \in Ctx : x = row.ctx
    BY StepFacts
  <2>2. PICK stamp \in Stamps : stamp = FloatNow
    BY StepFacts
  <2>3. PICK z : z = [x EXCEPT !.done = stamp]
    OBVIOUS
  <2>4. z \in Ctx /\ z.done = stamp /\ z.start = x.start /\ z.ids = x.ids
    BY <2>3, ChangedTime
  <2>. QED BY <2>1, <2>2, <2>3, <2>4
<1>2. PICK r \in Results : r = Go(2, c) /\ ~r.done /\ r.sub = 2 /\ r.ctx = c
  BY GoType
<1>3. TaskCarried(2, c)
  BY <1>1, StepFacts DEF Carries, TaskCarried, OneTaskKinds
<1>4. Carries(2, c)
  BY <1>3 DEF Carries, CloudCarried, BotCarried, ScriptCarried, ProxyCarried, ScriptKinds
<1>. QED BY <1>1, <1>2, <1>4, ReturnsHere DEF Owed

LEMMA WaitDownloadKeeps == ASSUME StepInv, WaitDownload PROVE StepInv'
<1>1. UNCHANGED world
  BY DEF WaitDownload
<1>2. CASE Asks("download_url", 1, Late(row.ctx.start, TaskTimeout))
  BY <1>1, <1>2, AsksKeeps DEF OneTaskKinds
<1>3. CASE Asked("download_url", 1) /\ ~Asks("download_url", 1, Late(row.ctx.start, TaskTimeout))
  <2>1. /\ kind = "download_url" /\ row.sub = 1 /\ kind \in OneTaskKinds /\ kind \notin ScriptKinds
        /\ now - row.ctx.start.at <= TaskTimeout + MaxLag
    BY <1>3, QueryEnds
  <2>2. PICK s \in Query(row.ctx.ids[1]) :
          Returns(IF s = "failed" THEN Fail ELSE IF s = "downloaded" THEN Success ELSE Go(1, row.ctx))
    BY <1>3 DEF WaitDownload
  <2>3. CASE Returns(Fail)
    BY <1>1, <2>1, <2>3, FailsHere
  <2>4. CASE Returns(Go(1, row.ctx))
    BY <1>1, <2>1, <2>4, StaysHere
  <2>5. CASE Returns(Success) /\ s = "downloaded"
    <3>1. tasks[row.ctx.ids[1]] = "downloaded"
      BY <2>2, <2>5 DEF Query
    <3>2. Judged(Success, now)
      BY <2>1, <3>1, OneTaskHeld DEF Judged, InTime, Own, Truth, ScriptKinds
    <3>. QED BY <1>1, <2>5, <3>2, SucceedsHere
  <2>. QED BY <2>2, <2>3, <2>4, <2>5
<1>. QED BY <1>2, <1>3 DEF WaitDownload

LEMMA WaitInstallDownloadKeeps == ASSUME StepInv, WaitInstallDownload PROVE StepInv'
<1>1. UNCHANGED world
  BY DEF WaitInstallDownload
<1>2. CASE Asks("install_app_and_wait", 1, Late(row.ctx.start, TaskTimeout))
  BY <1>1, <1>2, AsksKeeps DEF OneTaskKinds
<1>3. CASE Asked("install_app_and_wait", 1) /\ ~Asks("install_app_and_wait", 1, Late(row.ctx.start, TaskTimeout))
  <2>1. /\ kind = "install_app_and_wait" /\ row.sub = 1 /\ kind \in OneTaskKinds /\ kind \notin ScriptKinds
        /\ now - row.ctx.start.at <= TaskTimeout + MaxLag
    BY <1>3, QueryEnds
  <2>2. PICK s \in Query(row.ctx.ids[1]) :
          Returns(IF s \in {"failed", "installFailed"} THEN Fail
                  ELSE IF s = "installed" \/ (s = "downloaded" /\ ~params.install) THEN Success
                  ELSE IF s = "downloaded" THEN Go(2, [row.ctx EXCEPT !.done = FloatNow])
                  ELSE Go(1, row.ctx))
    BY <1>3 DEF WaitInstallDownload
  <2>3. CASE Returns(Fail)
    BY <1>1, <2>1, <2>3, FailsHere
  <2>4. CASE Returns(Go(1, row.ctx))
    BY <1>1, <2>1, <2>4, StaysHere
  <2>5. CASE Returns(Success) /\ (s = "installed" \/ (s = "downloaded" /\ ~params.install))
    <3>1. tasks[row.ctx.ids[1]] = s
      BY <2>2, <2>5 DEF Query
    <3>2. params.install \in BOOLEAN /\ (s = "installed" => params.install)
      BY <2>1, <3>1, OneTaskHeld, StepFacts, InstallOnly DEF StepInv, Answered
    <3>3. Judged(Success, now)
      BY <2>1, <2>5, <3>1, <3>2, OneTaskHeld DEF Judged, InTime, Own, Truth, ScriptKinds
    <3>. QED BY <1>1, <2>5, <3>3, SucceedsHere
  <2>6. CASE Returns(Go(2, [row.ctx EXCEPT !.done = FloatNow]))
    BY <1>1, <2>1, <2>6, MovesOn
  <2>. QED BY <2>2, <2>3, <2>4, <2>5, <2>6
<1>. QED BY <1>2, <1>3 DEF WaitInstallDownload

LEMMA WaitInstallKeeps == ASSUME StepInv, WaitInstall PROVE StepInv'
<1>1. UNCHANGED world
  BY DEF WaitInstall
<1>2. CASE Asks("install_app_and_wait", 2, Late(row.ctx.done, InstallTimeout))
  BY <1>1, <1>2, AsksKeeps DEF OneTaskKinds
<1>3. CASE Asked("install_app_and_wait", 2) /\ ~Asks("install_app_and_wait", 2, Late(row.ctx.done, InstallTimeout))
  <2>1. /\ kind = "install_app_and_wait" /\ row.sub = 2 /\ kind \in OneTaskKinds /\ kind \notin ScriptKinds
        /\ now - row.ctx.done.at <= InstallTimeout + MaxLag
    BY <1>3, QueryEnds
  <2>2. PICK s \in Query(row.ctx.ids[1]) :
          Returns(IF s \in {"failed", "installFailed"} THEN Fail
                  ELSE IF s = "installed" THEN Success ELSE Go(2, row.ctx))
    BY <1>3 DEF WaitInstall
  <2>3. CASE Returns(Fail)
    BY <1>1, <2>1, <2>3, FailsHere
  <2>4. CASE Returns(Go(2, row.ctx))
    BY <1>1, <2>1, <2>4, StaysHere
  <2>5. CASE Returns(Success) /\ s = "installed"
    <3>1. tasks[row.ctx.ids[1]] = "installed"
      BY <2>2, <2>5 DEF Query
    <3>2. params.install
      BY <2>1, <3>1, OneTaskHeld DEF StepInv, Answered
    <3>3. row.ctx.done.at - row.ctx.start.at <= TaskTimeout + MaxLag
      BY <2>1, OneTaskHeld
    <3>4. Judged(Success, now)
      BY <2>1, <3>1, <3>2, <3>3, OneTaskHeld DEF Judged, InTime, Own, Truth, ScriptKinds
    <3>. QED BY <1>1, <2>5, <3>4, SucceedsHere
  <2>. QED BY <2>2, <2>3, <2>4, <2>5
<1>. QED BY <1>2, <1>3 DEF WaitInstall

LEMMA WaitChangeOsKeeps == ASSUME StepInv, WaitChangeOs PROVE StepInv'
<1>1. UNCHANGED world
  BY DEF WaitChangeOs
<1>2. CASE Asks("change_os_and_wait", 1, Late(row.ctx.start, TaskTimeout))
  BY <1>1, <1>2, AsksKeeps DEF OneTaskKinds
<1>3. CASE Asked("change_os_and_wait", 1) /\ ~Asks("change_os_and_wait", 1, Late(row.ctx.start, TaskTimeout))
  <2>1. /\ kind = "change_os_and_wait" /\ row.sub = 1 /\ kind \notin ScriptKinds
        /\ now - row.ctx.start.at <= TaskTimeout + MaxLag
    BY <1>3, QueryEnds
  <2>2. PICK s \in Query(row.ctx.ids[1]) :
          Returns(IF s = "changed" THEN Go(2, [row.ctx EXCEPT !.done = FloatNow]) ELSE Go(1, row.ctx))
    BY <1>3 DEF WaitChangeOs
  <2>3. CASE Returns(Go(1, row.ctx))
    BY <1>1, <2>1, <2>3, StaysHere
  <2>4. CASE Returns(Go(2, [row.ctx EXCEPT !.done = FloatNow])) /\ s = "changed"
    BY <1>1, <2>1, <2>2, <2>4, MovesOn DEF Query
  <2>. QED BY <2>2, <2>3, <2>4
<1>. QED BY <1>2, <1>3 DEF WaitChangeOs

LEMMA WaitOnlineKeeps == ASSUME StepInv, WaitOnline PROVE StepInv'
<1>1. kind = "change_os_and_wait" /\ row.sub = 2 /\ kind \notin ScriptKinds /\ kind \in OneTaskKinds /\ UNCHANGED world
  BY DEF WaitOnline, SeenOnline, Asked, At, ScriptKinds, OneTaskKinds
<1>2. CASE Returns(Fail)
  BY <1>1, <1>2, FailsHere
<1>3. CASE Returns(Go(2, row.ctx))
  BY <1>1, <1>3, StaysHere
<1>4. CASE Returns(Go(2, [row.ctx EXCEPT !.boot = FloatNow]))
  <2>1. PICK c \in Ctx : /\ c = [row.ctx EXCEPT !.boot = FloatNow] /\ c.done = row.ctx.done
                         /\ c.start = row.ctx.start /\ c.ids = row.ctx.ids
    <3>1. PICK x \in Ctx : x = row.ctx
      BY StepFacts
    <3>2. PICK stamp \in Stamps : stamp = FloatNow
      BY StepFacts
    <3>3. PICK z : z = [x EXCEPT !.boot = stamp]
      OBVIOUS
    <3>4. z \in Ctx /\ z.done = x.done /\ z.start = x.start /\ z.ids = x.ids
      BY <3>3, ChangedTime
    <3>. QED BY <3>1, <3>2, <3>3, <3>4
  <2>2. PICK r \in Results : r = Go(2, c) /\ ~r.done /\ r.sub = 2 /\ r.ctx = c
    BY GoType
  <2>3. TaskCarried(2, c)
    BY <1>1, <2>1, StepFacts DEF Carries, TaskCarried
  <2>4. Carries(2, c)
    BY <1>1, <2>3 DEF Carries, CloudCarried, BotCarried, ScriptCarried, ProxyCarried
  <2>. QED BY <1>1, <1>4, <2>1, <2>2, <2>4, ReturnsHere DEF Owed
<1>5. CASE /\ Returns(Success) /\ ~Late(row.ctx.done, OnlineTimeout)
           /\ row.ctx.boot.float /\ ~(Elapsed(row.ctx.boot) < BootWait)
  <2>1. row.ctx.done.at \in Int /\ row.ctx.boot.at \in Int /\ now \in Int
    BY StepFacts, CtxFields DEF Stamps
  <2>2. Elapsed(row.ctx.done) = now - row.ctx.done.at /\ row.ctx.done.at - row.ctx.start.at <= TaskTimeout + MaxLag
    BY <1>1, OneTaskHeld
  <2>3. tasks[row.ctx.ids[1]] = "changed"
    BY <1>1, StepFacts DEF Carries, TaskCarried
  <2>4. now - row.ctx.done.at <= OnlineTimeout
    BY <1>5, <2>1, <2>2, Bounds DEF Late
  <2>5. now - row.ctx.boot.at >= BootWait
    BY <1>5, <2>1, Bounds DEF Elapsed
  <2>6. row.ctx.boot.at - row.ctx.done.at <= OnlineTimeout - BootWait
    BY <2>1, <2>4, <2>5, Bounds
  <2>7. Judged(Success, now)
    BY <1>1, <2>2, <2>3, <2>5, <2>6, OneTaskHeld DEF Judged, InTime, Own, Truth
  <2>. QED BY <1>1, <1>5, <2>7, SucceedsHere
<1>6. CASE phase = "idle" /\ Continues("query", <<>>)
  BY <1>1, <1>6, QueryBegins
<1>7. CASE SeenOnline
  <2>1. PICK c : c = row.ctx /\ \E seen : Returns(Go(2, IF seen = "online" THEN [row.ctx EXCEPT !.boot = FloatNow] ELSE c))
    BY <1>7 DEF SeenOnline
  <2>. QED BY <1>3, <1>4, <2>1
<1>. QED BY <1>2, <1>3, <1>5, <1>6, <1>7 DEF WaitOnline, At

(* download_cloud *)
LEMMA CloudSendKeeps == ASSUME StepInv, CloudSend PROVE StepInv'
<1>1. PICK a \in Answers \cup {"noId"} :
        /\ Submitted(IF a = "noId" THEN "ok" ELSE a)
        /\ IF a = "ok" THEN Continues("send", Append(acc, NewId)) ELSE Returns(Fail)
  BY DEF CloudSend
<1>2. kind = "download_cloud" /\ kind \notin ScriptKinds /\ row.sub = 0 /\ phase \in {"idle", "calling"}
      /\ UNCHANGED <<kind, mode, params, row, now>>
  BY <1>1 DEF CloudSend, At, Inside, StepInv, Called, InCall, ScriptKinds, Returns, Continues, caller
<1>3. PICK b \in Answers : b = IF a = "noId" THEN "ok" ELSE a
  BY DEF Answers
<1>4. /\ WorldIsFine /\ WorldKeeps
      /\ b = "ok" => /\ NewId \in 1..MaxTasks /\ NewId \in 1..Len(tasks')
                     /\ 1..Len(tasks) \subseteq 1..Len(tasks')
  BY <1>1, <1>2, <1>3, SubmittedKeeps
<1>5. CASE a # "ok"
  BY <1>1, <1>2, <1>4, <1>5, Fails
<1>6. CASE a = "ok"
  <2>1. /\ acc \in Seq(1..MaxTasks) /\ Len(acc) < Files
        /\ \A i \in 1..Len(acc) : acc[i] \in 1..Len(tasks)
    <3>1. Len(acc) < Files
      BY DEF CloudSend
    <3>2. CASE Inside("send")
      BY <3>1, <3>2 DEF Inside, StepInv, Called, InCall
    <3>3. CASE phase = "idle"
      <4>1. acc = <<>>
        BY <3>3 DEF StepInv, Called
      <4>2. Len(<<>>) = 0
        OBVIOUS
      <4>. QED BY <3>1, <4>1, <4>2, NoTasksYet
    <3>. QED BY <3>2, <3>3 DEF CloudSend, At
  <2>2. PICK id \in 1..MaxTasks : id = NewId /\ id \in 1..Len(tasks') /\ 1..Len(tasks) \subseteq 1..Len(tasks')
    BY <1>3, <1>4, <1>6
  <2>3. PICK e \in Seq(1..MaxTasks) : e = Append(acc, id) /\ Len(e) = Len(acc) + 1
                                     /\ e[Len(acc) + 1] = id /\ \A i \in 1..Len(acc) : e[i] = acc[i]
    <3>1. PICK s \in Seq(1..MaxTasks) : s = acc
      BY <2>1
    <3>2. Append(s, id) \in Seq(1..MaxTasks) /\ Len(Append(s, id)) = Len(s) + 1 /\ Append(s, id)[Len(s) + 1] = id
      OBVIOUS
    <3>3. \A i \in 1..Len(s) : Append(s, id)[i] = s[i]
      OBVIOUS
    <3>. QED BY <3>1, <3>2, <3>3
  <2>4. e \in Seq(0..MaxTasks)
    BY <2>3, Bounds
  <2>5. Continues("send", e)
    BY <1>1, <1>6, <2>2, <2>3
  <2>6. Len(e) <= Files /\ \A i \in 1..Len(e) : e[i] \in 1..Len(tasks')
    <3>1. Len(acc) \in Nat
      BY <2>1
    <3>2. \A i \in 1..Len(e) : i \in 1..Len(acc) \/ i = Len(acc) + 1
      BY <2>3, <3>1
    <3>. QED BY <2>1, <2>2, <2>3, <3>1, <3>2, Bounds
  <2>7. InCall'
    BY <1>2, <2>5, <2>6 DEF InCall, Continues
  <2>. QED BY <1>2, <1>4, <2>4, <2>5, <2>7, ContinuesKeep
<1>. QED BY <1>5, <1>6

LEMMA CloudSentKeeps == ASSUME StepInv, CloudSent PROVE StepInv'
<1>1. /\ kind = "download_cloud" /\ acc \in Seq(1..MaxTasks) /\ Len(acc) = Files
      /\ \A i \in 1..Len(acc) : acc[i] \in 1..Len(tasks)
      /\ Returns(Go(1, Start(acc, FloatNow))) /\ UNCHANGED world
  BY DEF CloudSent, Inside, StepInv, Called, InCall
<1>2. PICK c \in Ctx : c = Start(acc, FloatNow) /\ c.ids = acc /\ c.start = FloatNow /\ c.got = {}
  BY <1>1, StepFacts, StartType
<1>3. PICK r \in Results : r = Go(1, c) /\ ~r.done /\ r.sub = 1 /\ r.ctx = c
  BY GoType
<1>4. CloudCarried(1, c)
  BY <1>1, <1>2, StepFacts DEF CloudCarried
<1>5. Carries(1, c)
  BY <1>1, <1>4 DEF Carries, TaskCarried, BotCarried, ScriptCarried, ProxyCarried, OneTaskKinds, ScriptKinds
<1>. QED BY <1>1, <1>2, <1>3, <1>5, ReturnsHere DEF Owed

LEMMA CloudWaitKeeps == ASSUME StepInv, CloudWait PROVE StepInv'
<1>. DEFINE ids == {row.ctx.ids[i] : i \in DOMAIN row.ctx.ids}
<1>1. kind = "download_cloud" /\ row.sub = 1 /\ kind \notin ScriptKinds /\ UNCHANGED world
  BY DEF CloudWait, At, ScriptKinds
<1>2. /\ row.ctx.start.float /\ Len(row.ctx.ids) = Files /\ \A i \in 1..Files : row.ctx.ids[i] \in 1..Len(tasks)
      /\ \A t \in row.ctx.got : t \in 1..Len(tasks) /\ tasks[t] = "downloaded"
  BY <1>1, StepFacts DEF Carries, CloudCarried
<1>3. DOMAIN row.ctx.ids = 1..Files
  BY <1>2, StepFacts, CtxFields
<1>4. ids \subseteq 1..Len(tasks)
  BY <1>2, <1>3
<1>5. PICK told \in SUBSET ids :
        LET got == row.ctx.got \cup {t \in told : tasks[t] = "downloaded"}
        IN Returns(IF \/ Late(row.ctx.start, TaskTimeout)
                      \/ \E t \in told \ row.ctx.got : tasks[t] = "failed"
                   THEN Fail
                   ELSE Go(IF ids \subseteq got THEN 2 ELSE 1, [row.ctx EXCEPT !.got = got]))
  BY DEF CloudWait
<1>6. CASE Returns(Fail)
  BY <1>1, <1>6, FailsHere
<1>7. ASSUME ~Returns(Fail) PROVE StepInv'
  <2>1. PICK got : got = row.ctx.got \cup {t \in told : tasks[t] = "downloaded"}
    OBVIOUS
  <2>2. PICK s \in {1, 2} : s = IF ids \subseteq got THEN 2 ELSE 1
    OBVIOUS
  <2>3. \A t \in got : t \in 1..Len(tasks) /\ tasks[t] = "downloaded"
    BY <1>2, <1>4, <2>1
  <2>4. got \in SUBSET (1..MaxTasks)
    <3>1. 1..Len(tasks) \subseteq 1..MaxTasks
      BY StepFacts, Bounds DEF WorldTypes
    <3>. QED BY <2>3, <3>1
  <2>5. PICK c \in Ctx : /\ c = [row.ctx EXCEPT !.got = got] /\ c.got = got
                         /\ c.ids = row.ctx.ids /\ c.start = row.ctx.start
    <3>1. 0 \in 0..MaxRetries
      BY Bounds
    <3>2. PICK x \in Ctx : x = row.ctx
      BY StepFacts
    <3>3. PICK z : z = [x EXCEPT !.got = got]
      OBVIOUS
    <3>4. PICK stamp \in Stamps : stamp = IntNow
      BY StepFacts
    <3>5. z \in Ctx /\ z.got = got /\ z.ids = x.ids /\ z.start = x.start
      BY <2>4, <3>1, <3>3, <3>4, ChangedRest
    <3>. QED BY <3>2, <3>3, <3>5
  <2>6. PICK r \in Results : r = Go(s, c) /\ ~r.done /\ r.sub = s /\ r.ctx = c
    <3>1. s \in 0..3
      OBVIOUS
    <3>. QED BY <3>1, GoType
  <2>7. Returns(r)
    BY <1>5, <1>7, <2>1, <2>2, <2>5, <2>6
  <2>8. s >= 2 => \A i \in 1..Files : row.ctx.ids[i] \in got
    BY <1>3, <2>2
  <2>9. CloudCarried(s, c)
    BY <1>2, <2>3, <2>5, <2>8 DEF CloudCarried
  <2>10. Carries(s, c)
    BY <1>1, <2>9 DEF Carries, TaskCarried, BotCarried, ScriptCarried, ProxyCarried, OneTaskKinds
  <2>. QED BY <1>1, <2>6, <2>7, <2>10, ReturnsHere DEF Owed
<1>. QED BY <1>6, <1>7

LEMMA CloudPostKeeps == ASSUME StepInv, CloudPost PROVE StepInv'
<1>1. kind = "download_cloud" /\ row.sub = 2 /\ Returns(Success) /\ UNCHANGED world
  BY DEF CloudPost, At
<1>2. /\ Len(row.ctx.ids) = Files
      /\ \A i \in 1..Files : row.ctx.ids[i] \in 1..Len(tasks) /\ tasks[row.ctx.ids[i]] = "downloaded"
  BY <1>1, StepFacts DEF Carries, CloudCarried
<1>3. Judged(Success, now)
  BY <1>1, <1>2 DEF Judged, InTime, Own, Truth, OneTaskKinds, ScriptKinds
<1>. QED BY <1>1, <1>3, SucceedsHere

(* start_bot *)
LEMMA CommandedKeeps ==
  ASSUME StepInv, kind = "start_bot", NEW a \in Answers, NEW what \in {"config", "accSys", "framework"}, Commanded(a, what),
         UNCHANGED <<kind, mode, params, row, now>>
  PROVE  /\ WorldIsFine /\ bot \subseteq bot'
         /\ a = "ok" /\ "shell" \in bot => what \in bot'
<1>1. bot \subseteq bot' /\ bot' \subseteq bot \cup {what}
      /\ UNCHANGED <<tasks, net, conn, inbox, conns, pushedOn>>
  BY DEF Commanded
<1>2. WorldTypes' /\ Answered'
  BY <1>1 DEF StepInv, WorldTypes, Answered
<1>3. RowCarries'
  BY <1>1, StepFacts DEF RowCarries, FromJson, Carries, TaskCarried, CloudCarried, BotCarried, ScriptCarried,
     ProxyCarried, OneTaskKinds, ScriptKinds
<1>. QED BY <1>1, <1>2, <1>3 DEF WorldIsFine, Commanded

LEMMA BotOwes ==
  ASSUME kind' = "start_bot", NEW r \in Results, ~r.done, BotCarried(r.sub)'
  PROVE  Owed(r)'
  BY DEF Owed, Carries, TaskCarried, CloudCarried, ScriptCarried, ProxyCarried, OneTaskKinds, ScriptKinds

LEMMA WriteConfigKeeps == ASSUME StepInv, WriteConfig PROVE StepInv'
<1>1. PICK a \in Answers : Commanded(a, "config") /\ Returns(IF a = "ok" THEN Go(1, NoCtx) ELSE Fail)
  BY DEF WriteConfig
<1>2. kind = "start_bot" /\ kind \notin ScriptKinds /\ UNCHANGED <<kind, mode, params, row, now>>
  BY <1>1 DEF WriteConfig, At, ScriptKinds, Returns, caller
<1>3. WorldIsFine
  BY <1>1, <1>2, CommandedKeeps
<1>4. CASE Returns(Fail)
  BY <1>2, <1>3, <1>4, Fails
<1>5. CASE Returns(Go(1, NoCtx))
  <2>1. PICK r \in Results : r = Go(1, NoCtx) /\ ~r.done /\ r.sub = 1
    BY GoType, NoCtxType
  <2>2. BotCarried(1)'
    BY DEF BotCarried
  <2>. QED BY <1>2, <1>3, <1>5, <2>1, <2>2, BotOwes, ReturnsKeep
<1>. QED BY <1>1, <1>4, <1>5

LEMMA ContinuesHere ==
  ASSUME StepInv, NEW p \in {"probed", "unpacked"}, Continues(p, <<>>), phase \in {"idle", "calling"},
         kind = "start_bot", row.sub \in {1, 2}, p = "unpacked" => row.sub = 1, "shell" \in bot, UNCHANGED world
  PROVE  StepInv'
<1>1. UNCHANGED <<kind, mode, params, row, now, world>> /\ pc' = p
  BY DEF Continues, caller
<1>2. InCall'
  BY <1>1 DEF InCall, world
<1>3. PICK e \in Seq(0..MaxTasks) : e = <<>>
  BY NoTasksYet
<1>. QED BY <1>1, <1>2, <1>3, Untouched, ContinuesKeep

LEMMA ProbeKeeps == ASSUME StepInv, ProbeShellChannel PROVE StepInv'
<1>1. kind = "start_bot" /\ kind \notin ScriptKinds /\ row.sub \in {1, 2} /\ phase = "idle" /\ UNCHANGED world
  BY DEF ProbeShellChannel, At, ScriptKinds
<1>2. CASE "shell" \in bot /\ Continues("probed", <<>>)
  BY <1>1, <1>2, ContinuesHere
<1>3. CASE Returns(Fail)
  BY <1>1, <1>3, FailsHere
<1>. QED BY <1>2, <1>3 DEF ProbeShellChannel

LEMMA UnpackKeeps == ASSUME StepInv, UnpackAccSys PROVE StepInv'
<1>1. kind = "start_bot" /\ kind \notin ScriptKinds /\ row.sub = 1 /\ phase = "calling" /\ "shell" \in bot /\ UNCHANGED world
  BY DEF UnpackAccSys, Inside, StepInv, Called, InCall, ScriptKinds
<1>2. CASE Continues("unpacked", <<>>)
  BY <1>1, <1>2, ContinuesHere
<1>3. CASE Returns(Fail)
  BY <1>1, <1>3, FailsHere
<1>. QED BY <1>2, <1>3 DEF UnpackAccSys

LEMMA StartAccSysKeeps == ASSUME StepInv, StartAccSys PROVE StepInv'
<1>1. PICK a \in Answers : /\ Commanded(a, "accSys")
                           /\ IF a = "ok" THEN Continues("started", <<>>) ELSE Returns(Fail)
  BY DEF StartAccSys
<1>2. /\ kind = "start_bot" /\ kind \notin ScriptKinds /\ row.sub = 1 /\ phase = "calling" /\ "shell" \in bot
      /\ UNCHANGED <<kind, mode, params, row, now>>
  BY <1>1 DEF StartAccSys, Inside, StepInv, Called, InCall, ScriptKinds, Returns, Continues, caller
<1>3. WorldIsFine /\ bot \subseteq bot' /\ (a = "ok" => "accSys" \in bot')
  BY <1>1, <1>2, CommandedKeeps
<1>4. CASE a # "ok"
  BY <1>1, <1>2, <1>3, <1>4, Fails
<1>5. CASE a = "ok"
  <2>1. PICK e \in Seq(0..MaxTasks) : e = <<>>
    BY NoTasksYet
  <2>2. Continues("started", e)
    BY <1>1, <1>5, <2>1
  <2>3. InCall'
    BY <1>2, <1>3, <1>5, <2>2 DEF InCall, Continues
  <2>. QED BY <1>2, <1>3, <2>2, <2>3, ContinuesKeep
<1>. QED BY <1>4, <1>5

LEMMA CheckAccSysKeeps == ASSUME StepInv, CheckAccSys PROVE StepInv'
<1>1. PICK alive \in {"yes", "no", "unknown"} :
        /\ bot' = IF alive = "no" THEN bot \ {"accSys"} ELSE bot
        /\ Returns(IF alive = "no" THEN Fail ELSE Go(2, row.ctx))
  BY DEF CheckAccSys
<1>2. /\ kind = "start_bot" /\ kind \notin ScriptKinds /\ row.sub = 1 /\ "accSys" \in bot
      /\ UNCHANGED <<tasks, net, conn, inbox, conns, pushedOn>>
      /\ UNCHANGED <<kind, mode, params, row, now>>
  BY <1>1 DEF CheckAccSys, Inside, StepInv, Called, InCall, ScriptKinds, Returns, caller
<1>3. WorldIsFine
  <2>1. WorldTypes' /\ Answered'
    BY <1>1, <1>2 DEF StepInv, WorldTypes, Answered
  <2>2. RowCarries'
    BY <1>2, StepFacts DEF RowCarries, FromJson, Carries, TaskCarried, CloudCarried, BotCarried, ScriptCarried,
       ProxyCarried, OneTaskKinds
  <2>. QED BY <2>1, <2>2 DEF WorldIsFine
<1>4. CASE alive = "no"
  BY <1>1, <1>2, <1>3, <1>4, Fails
<1>5. CASE alive # "no"
  <2>1. PICK r \in Results : r = Go(2, row.ctx) /\ ~r.done /\ r.sub = 2
    BY GoType, StepFacts
  <2>2. Returns(r) /\ bot' = bot
    BY <1>1, <1>5, <2>1
  <2>3. BotCarried(2)'
    BY <1>2, <2>2 DEF BotCarried
  <2>. QED BY <1>2, <1>3, <2>1, <2>2, <2>3, BotOwes, ReturnsKeep
<1>. QED BY <1>4, <1>5

LEMMA StartFrameworkKeeps == ASSUME StepInv, StartTestFramework PROVE StepInv'
<1>. DEFINE next == [row.ctx EXCEPT !.start = IntNow, !.retry = 0]
<1>1. PICK a \in Answers : Commanded(a, "framework") /\ Returns(IF a = "ok" THEN Go(3, next) ELSE Fail)
  BY DEF StartTestFramework
<1>2. /\ kind = "start_bot" /\ kind \notin ScriptKinds /\ row.sub = 2 /\ "shell" \in bot /\ "accSys" \in bot
      /\ UNCHANGED <<kind, mode, params, row, now>>
  <2>1. kind = "start_bot" /\ row.sub = 2 /\ "shell" \in bot
    BY DEF StartTestFramework, Inside, StepInv, Called, InCall
  <2>2. "accSys" \in bot
    BY <2>1, StepFacts DEF Carries, BotCarried
  <2>3. UNCHANGED <<kind, mode, params, row, now>>
    BY <1>1 DEF Returns, caller
  <2>. QED BY <2>1, <2>2, <2>3 DEF ScriptKinds
<1>3. WorldIsFine /\ bot \subseteq bot' /\ (a = "ok" => "framework" \in bot')
  BY <1>1, <1>2, CommandedKeeps
<1>4. CASE a # "ok"
  BY <1>1, <1>2, <1>3, <1>4, Fails
<1>5. CASE a = "ok"
  <2>1. next \in Ctx
    <3>1. 0 \in 0..MaxRetries
      BY Bounds
    <3>. QED BY <3>1, StepFacts, ChangedRest
  <2>2. PICK r \in Results : r = Go(3, next) /\ ~r.done /\ r.sub = 3
    BY <2>1, GoType
  <2>3. BotCarried(3)'
    BY <1>2, <1>3, <1>5 DEF BotCarried
  <2>. QED BY <1>1, <1>2, <1>3, <1>5, <2>2, <2>3, BotOwes, ReturnsKeep
<1>. QED BY <1>4, <1>5

LEMMA WaitConnectionKeeps == ASSUME StepInv, WaitConnection PROVE StepInv'
<1>1. /\ kind = "start_bot" /\ kind \notin ScriptKinds /\ row.sub = 3 /\ {"accSys", "framework"} \subseteq bot
      /\ UNCHANGED world
  BY StepFacts DEF WaitConnection, At, ScriptKinds, Carries, BotCarried
<1>2. CASE Returns(Fail)
  BY <1>1, <1>2, FailsHere
<1>3. CASE Returns(Success)
  <2>1. Judged(Success, now)
    BY <1>1 DEF Judged, InTime, Own, Truth, OneTaskKinds
  <2>. QED BY <1>1, <1>3, <2>1, SucceedsHere
<1>4. CASE Returns(Go(3, [row.ctx EXCEPT !.retry = @ + 1])) /\ ~(row.ctx.retry >= MaxRetries)
  <2>1. PICK n \in 0..MaxRetries : n = row.ctx.retry + 1
    <3>1. row.ctx.retry \in 0..MaxRetries
      BY StepFacts, CtxFields
    <3>. QED BY <1>4, <3>1, Bounds
  <2>2. PICK c \in Ctx : c = [row.ctx EXCEPT !.retry = @ + 1]
    <3>1. [row.ctx EXCEPT !.retry = @ + 1] = [row.ctx EXCEPT !.retry = n]
      BY <2>1
    <3>2. [row.ctx EXCEPT !.retry = n] \in Ctx
      BY StepFacts DEF Ctx
    <3>. QED BY <3>1, <3>2
  <2>3. PICK r \in Results : r = Go(3, c) /\ ~r.done /\ r.sub = 3
    BY GoType
  <2>4. UNCHANGED <<kind, mode, params, row, now, world>>
    BY <1>1, <1>4 DEF Returns, caller
  <2>5. BotCarried(3)'
    BY <1>1, <2>4 DEF BotCarried, world
  <2>. QED BY <1>1, <1>4, <2>2, <2>3, <2>4, <2>5, BotOwes, ReturnsKeep, Untouched
<1>. QED BY <1>2, <1>3, <1>4 DEF WaitConnection

(* run_script, execute_repo_script *)
LEMMA LoadScriptKeeps == ASSUME StepInv, LoadScript PROVE StepInv'
<1>1. kind = "execute_repo_script" /\ row.sub = 0 /\ UNCHANGED world
  BY DEF LoadScript, At
<1>2. row.ctx.ids = <<>>
  BY <1>1, StepFacts DEF Carries, ScriptCarried, Waiting, ScriptKinds
<1>3. CASE Returns(Fail)
  BY <1>1, <1>2, <1>3, FailsHere
<1>4. CASE Returns(Go(1, NoCtx))
  <2>1. PICK c \in Ctx : c = NoCtx /\ c.ids = <<>> /\ ~c.start.float
    BY NoCtxType DEF NoStamp
  <2>2. PICK r \in Results : r = Go(1, c) /\ ~r.done /\ r.sub = 1 /\ r.ctx = c
    BY GoType
  <2>3. ScriptCarried(1, c)
    BY <1>1, <2>1 DEF ScriptCarried, Waiting
  <2>4. Carries(1, c)
    BY <1>1, <2>3 DEF Carries, TaskCarried, CloudCarried, BotCarried, ProxyCarried, OneTaskKinds
  <2>. QED BY <1>1, <1>4, <2>1, <2>2, <2>4, ReturnsHere DEF Owed
<1>. QED BY <1>3, <1>4 DEF LoadScript

LEMMA PushScriptKeeps ==
  ASSUME StepInv, NEW k \in ScriptKinds, NEW s \in {0, 1}, s = IF k = "run_script" THEN 0 ELSE 1, PushScript(k, s)
  PROVE  StepInv'
<1>1. kind = k /\ row.sub = s /\ kind \in ScriptKinds
  BY DEF PushScript, At
<1>2. row.ctx.ids = <<>>
  BY <1>1, StepFacts DEF Carries, ScriptCarried, Waiting, ScriptKinds
<1>3. CASE Returns(Fail) /\ UNCHANGED world
  BY <1>2, <1>3, FailsHere
<1>4. CASE /\ conn # 0 /\ Len(tasks) < MaxTasks
           /\ tasks' = Append(tasks, "queued") /\ pushedOn' = conn
           /\ Returns(Go(row.sub + 1, Start(<<NewId>>, IntNow)))
           /\ UNCHANGED <<bot, net, conn, inbox, conns>>
  <2>1. UNCHANGED <<kind, mode, params, row, now>>
    BY <1>4 DEF Returns, caller
  <2>2. conn' \in {0, conns'} /\ conns' \in 0..MaxConns /\ pushedOn' \in 0..conns' /\ pushedOn' >= 1
    BY <1>4, StepFacts, Bounds DEF WorldTypes
  <2>3. WorldIsFine /\ NewId \in 1..MaxTasks /\ NewId \in 1..Len(tasks')
    BY <1>4, <2>1, <2>2, AddTask
  <2>4. PICK id \in 1..MaxTasks : id = NewId /\ id \in 1..Len(tasks')
    BY <2>3
  <2>5. PICK e \in Seq(1..MaxTasks) : e = <<id>> /\ Len(e) = 1 /\ e[1] = id /\ e # <<>>
    <3>1. <<id>> \in Seq(1..MaxTasks) /\ Len(<<id>>) = 1 /\ <<id>>[1] = id /\ <<id>> # <<>>
      OBVIOUS
    <3>. QED BY <3>1
  <2>6. PICK c \in Ctx : c = Start(e, IntNow) /\ c.ids = e /\ c.start = IntNow
    BY StepFacts, StartType
  <2>7. PICK n \in 0..3 : n = row.sub + 1 /\ n = s + 1
    BY <1>1
  <2>8. PICK r \in Results : r = Go(n, c) /\ ~r.done /\ r.sub = n /\ r.ctx = c
    BY GoType
  <2>9. Returns(r)
    BY <1>4, <2>4, <2>5, <2>6, <2>7, <2>8
  <2>10. (Waiting(n))'
    BY <1>1, <2>1, <2>7 DEF Waiting, ScriptKinds
  <2>11. ScriptCarried(n, c)'
    BY <2>1, <2>2, <2>4, <2>5, <2>6, <2>10, StepFacts DEF ScriptCarried
  <2>12. Carries(n, c)'
    BY <1>1, <2>1, <2>11 DEF Carries, TaskCarried, CloudCarried, BotCarried, ProxyCarried, OneTaskKinds, ScriptKinds
  <2>. QED BY <2>3, <2>8, <2>9, <2>12, ReturnsKeep DEF Owed
<1>. QED BY <1>3, <1>4 DEF PushScript

LEMMA WaitResultKeeps ==
  ASSUME StepInv, NEW k \in ScriptKinds, NEW s \in {1, 2}, s = IF k = "run_script" THEN 1 ELSE 2, WaitResult(k, s)
  PROVE  StepInv'
<1>1. kind = k /\ row.sub = s /\ kind \in ScriptKinds /\ UNCHANGED world
  BY DEF WaitResult, At
<1>2. PICK id : id = row.ctx.ids[1]
  OBVIOUS
<1>3. Returns(IF ScriptLate(row.ctx) \/ conn = 0 THEN Fail
              ELSE IF id \notin inbox THEN Go(row.sub, row.ctx)
              ELSE IF tasks[id] = "answeredOk" THEN Success ELSE Fail)
  BY <1>2 DEF WaitResult
<1>4. Waiting(row.sub)
  BY <1>1 DEF Waiting, ScriptKinds
<1>5. /\ id \in 1..Len(tasks) /\ row.ctx.start.at # 0 /\ pushedOn >= 1
      /\ mode = "single" => ~row.ctx.start.float
      /\ mode = "engine" => row.ctx.start.float
  BY <1>1, <1>2, <1>4, StepFacts DEF Carries, ScriptCarried, FromJson
<1>6. mode \in {"engine", "single"}
  BY StepFacts, StepAssumption DEF CallerTypes
<1>7. row.ctx.start.at \in Int /\ now \in Int /\ now > 0
  BY StepFacts, CtxFields, Bounds DEF Stamps
<1>8. ScriptLate(row.ctx) <=> mode = "single" \/ now - row.ctx.start.at > ScriptTimeout
  <2>1. CASE mode = "engine"
    BY <1>5, <2>1 DEF ScriptLate, Elapsed
  <2>2. CASE mode = "single"
    BY <1>5, <1>7, <2>2 DEF ScriptLate, Elapsed
  <2>. QED BY <1>6, <2>1, <2>2
<1>9. CASE ScriptLate(row.ctx) \/ conn = 0
  <2>1. Returns(Fail)
    BY <1>3, <1>9
  <2>2. Truth(Fail, now)
    BY <1>5, <1>8, <1>9, StepFacts, ResultTypes DEF Truth, WorldTypes
  <2>. QED BY <1>1, <2>1, <2>2, ReturnsHere, ResultTypes DEF Owed, Judged
<1>10. CASE ~(ScriptLate(row.ctx) \/ conn = 0) /\ id \notin inbox
  BY <1>1, <1>3, <1>10, StaysHere
<1>11. CASE ~(ScriptLate(row.ctx) \/ conn = 0) /\ id \in inbox /\ tasks[id] = "answeredOk"
  <2>1. Returns(Success)
    BY <1>3, <1>11
  <2>2. now - row.ctx.start.at <= ScriptTimeout /\ mode # "single"
    BY <1>7, <1>8, <1>11, Bounds
  <2>3. InTime(now)
    BY <1>1, <2>2 DEF InTime, ScriptKinds
  <2>4. Own
    BY <1>1, <1>2, <1>5, <1>11 DEF Own, ScriptKinds, OneTaskKinds
  <2>5. Truth(Success, now)
    BY <1>2, <1>11, ResultTypes DEF Truth
  <2>. QED BY <1>1, <2>1, <2>2, <2>3, <2>4, <2>5, SucceedsHere DEF Judged
<1>12. CASE ~(ScriptLate(row.ctx) \/ conn = 0) /\ id \in inbox /\ tasks[id] # "answeredOk"
  <2>1. Returns(Fail)
    BY <1>3, <1>12
  <2>2. tasks[id] = "answeredFail"
    BY <1>12 DEF StepInv, Answered
  <2>3. Truth(Fail, now)
    BY <1>2, <2>2, ResultTypes DEF Truth
  <2>. QED BY <1>1, <2>1, <2>3, ReturnsHere, ResultTypes DEF Owed, Judged
<1>. QED BY <1>9, <1>10, <1>11, <1>12

------------------------------------------------------------------------------
(* The callers and the clock. *)

LEMMA Rests ==
  ASSUME StepInv, UNCHANGED <<kind, mode, params, row, world>>
  PROVE  /\ WorldIsFine
         /\ (InCall /\ UNCHANGED <<pc, acc, now, lag>>) => InCall'
         /\ \A s, c : Carries(s, c) => Carries(s, c)'
         /\ \A r, at : Judged(r, at) => Judged(r, at)'
<1>. USE DEF world
<1>1. WorldTypes' /\ Answered'
  BY DEF StepInv, WorldTypes, Answered
<1>2. ASSUME NEW s, NEW c, Carries(s, c) PROVE Carries(s, c)'
  BY <1>2 DEF Carries, TaskCarried, CloudCarried, BotCarried, ScriptCarried, ProxyCarried, Waiting
<1>3. RowCarries'
  BY <1>2 DEF StepInv, RowCarries, FromJson
<1>4. ASSUME NEW r, NEW at, Judged(r, at) PROVE Judged(r, at)'
  BY <1>4 DEF Judged, InTime, Own, Truth
<1>5. InCall /\ UNCHANGED <<pc, acc, now, lag>> => InCall'
  <2>1. UNCHANGED <<now, lag>> /\ AskedInTime => AskedInTime'
    BY DEF AskedInTime
  <2>. QED BY <2>1 DEF InCall
<1>. QED BY <1>1, <1>2, <1>3, <1>4, <1>5 DEF WorldIsFine

LEMMA StoreKeeps == ASSUME StepInv, Store PROVE StepInv'
<1>1. /\ phase = "returned" /\ lag' = 0
      /\ UNCHANGED <<kind, mode, params, pc, acc, ret, retAt, now, paused, breaks, deaths, world>>
  BY DEF Store
<1>2. CASE ret.done
  <2>1. phase' = "ended" /\ row' = row
    BY <1>2 DEF Store
  <2>2. CallerTypes'
    <3>1. 0 \in 0..MaxLag
      BY Bounds
    <3>. QED BY <1>1, <2>1, <3>1 DEF StepInv, CallerTypes
  <2>3. WorldIsFine /\ Judged(ret, retAt)'
    BY <1>1, <1>2, <2>1, Rests DEF StepInv, Returned
  <2>4. Called' /\ Returned'
    BY <1>1, <2>1, <2>3 DEF StepInv, Called, Returned
  <2>. QED BY <2>2, <2>3, <2>4 DEF StepInv, WorldIsFine
<1>3. CASE ~ret.done
  <2>1. PICK c \in Ctx : c = ret.ctx /\ Carries(ret.sub, c)
    BY <1>1, <1>3 DEF StepInv, CallerTypes, Results, Returned
  <2>2. PICK s \in 0..3 : s = ret.sub
    BY DEF StepInv, CallerTypes, Results
  <2>3. PICK e : e = IF mode = "engine" THEN Json(c) ELSE c
    OBVIOUS
  <2>4. e \in Ctx /\ Carries(s, e) /\ FromJson(e)
    <3>1. CASE mode = "engine"
      <4>1. /\ e \in Ctx /\ e.ids = c.ids /\ e.got = c.got /\ e.start.at = c.start.at /\ e.done.at = c.done.at
            /\ (c.start.at # 0 => e.start.float) /\ (c.start.float => e.start.float) /\ (c.done.float => e.done.float)
        BY <2>3, <3>1, JsonType
      <4>2. TaskCarried(s, e) /\ CloudCarried(s, e)
        BY <2>1, <2>2, <4>1 DEF Carries, TaskCarried, CloudCarried
      <4>3. ScriptCarried(s, e) /\ ProxyCarried(s, e) /\ BotCarried(s)
        BY <2>1, <2>2, <3>1, <4>1 DEF Carries, ScriptCarried, ProxyCarried
      <4>. QED BY <4>1, <4>2, <4>3 DEF Carries, FromJson
    <3>2. CASE mode # "engine"
      BY <2>1, <2>2, <2>3, <3>2 DEF FromJson
    <3>. QED BY <3>1, <3>2
  <2>5. phase' = "idle" /\ row' = [sub |-> s, ctx |-> e]
    BY <1>3, <2>1, <2>2, <2>3 DEF Store
  <2>6. CallerTypes'
    <3>1. 0 \in 0..MaxLag
      BY Bounds
    <3>. QED BY <1>1, <2>4, <2>5, <3>1 DEF StepInv, CallerTypes
  <2>7. WorldTypes' /\ Answered'
    BY <1>1 DEF StepInv, WorldTypes, Answered, world
  <2>8. Carries(s, e)' /\ FromJson(e)'
    BY <1>1, <2>4 DEF Carries, TaskCarried, CloudCarried, BotCarried, ScriptCarried, ProxyCarried, Waiting, FromJson, world
  <2>9. RowCarries'
    <3>1. row'.sub = s /\ row'.ctx = e
      BY <2>5
    <3>. QED BY <2>8, <3>1 DEF RowCarries
  <2>10. Called' /\ Returned'
    BY <1>1, <1>3, <2>5 DEF StepInv, Called, Returned
  <2>. QED BY <2>6, <2>7, <2>9, <2>10 DEF StepInv
<1>. QED BY <1>2, <1>3

LEMMA GivesUpKeeps == ASSUME StepInv, SingleGivesUp PROVE StepInv'
<1>1. /\ phase = "idle" /\ phase' = "ended" /\ ret' = Fail /\ retAt' = now /\ mode = "single"
      /\ UNCHANGED <<kind, mode, params, paused, breaks, deaths, row, pc, acc, now, lag, world>>
  BY DEF SingleGivesUp, SingleExpired, caller
<1>2. CallerTypes'
  BY <1>1, ResultTypes DEF StepInv, CallerTypes
<1>3. WorldIsFine
  BY <1>1, Rests
<1>4. Judged(ret, retAt)'
  BY <1>1, ResultTypes DEF Judged, Truth
<1>5. Called' /\ Returned'
  BY <1>1, <1>4 DEF StepInv, Called, Returned
<1>. QED BY <1>2, <1>3, <1>5 DEF StepInv, WorldIsFine

LEMMA PauseResumeTickKeep == ASSUME StepInv, Pause \/ Resume \/ Tick PROVE StepInv'
<1>1. UNCHANGED <<kind, mode, params, deaths, row, phase, pc, acc, ret, retAt, world>>
  BY DEF Pause, Resume, Tick, caller
<1>2. CallerTypes'
  <2>1. CASE Pause
    <3>1. breaks < MaxBreaks /\ breaks' = breaks + 1 /\ UNCHANGED <<now, lag>> /\ paused' = TRUE
      BY <2>1 DEF Pause, Breaks
    <3>2. breaks \in 0..MaxBreaks /\ deaths \in 0..breaks
      BY DEF StepInv, CallerTypes
    <3>3. breaks' \in 0..MaxBreaks /\ deaths' \in 0..breaks'
      BY <1>1, <3>1, <3>2, Bounds
    <3>. QED BY <1>1, <3>1, <3>3 DEF StepInv, CallerTypes
  <2>2. CASE Resume
    BY <1>1, <2>2 DEF StepInv, CallerTypes, Resume
  <2>3. CASE Tick
    <3>1. now < MaxTime /\ lag < MaxLag /\ now' = now + 1 /\ lag' = lag + 1 /\ UNCHANGED caller
      BY <2>3 DEF Tick
    <3>2. now \in Epoch..MaxTime /\ lag \in 0..MaxLag
      BY DEF StepInv, CallerTypes
    <3>3. now' \in Epoch..MaxTime /\ lag' \in 0..MaxLag
      BY <3>1, <3>2, Bounds
    <3>. QED BY <1>1, <3>1, <3>3 DEF StepInv, CallerTypes, caller
  <2>. QED BY <2>1, <2>2, <2>3
<1>3. WorldIsFine /\ (ret.done => Judged(ret, retAt)') /\ (InCall /\ UNCHANGED <<now, lag>> => InCall')
      /\ (phase = "returned" /\ ~ret.done => Carries(ret.sub, ret.ctx)')
  BY <1>1, Rests DEF StepInv, Returned
<1>5. ASSUME InCall PROVE InCall'
  <2>1. CASE UNCHANGED <<now, lag>>
    BY <1>3, <1>5, <2>1
  <2>2. CASE now' = now + 1 /\ lag' = lag + 1
    <3>1. ASSUME AskedInTime PROVE AskedInTime'
      BY <1>1, <2>2, <3>1, ClockFacts, Bounds DEF AskedInTime
    <3>. QED BY <1>1, <1>5, <3>1 DEF InCall, world
  <2>. QED BY <2>1, <2>2 DEF Pause, Resume, Tick
<1>4. Called' /\ Returned'
  BY <1>1, <1>3, <1>5 DEF StepInv, Called, Returned
<1>. QED BY <1>2, <1>3, <1>4 DEF StepInv, WorldIsFine

------------------------------------------------------------------------------
(* The platform, the device and the death of the process. *)

LEMMA CrashKeeps == ASSUME StepInv, Crash PROVE StepInv'
<1>1. /\ breaks < MaxBreaks /\ breaks' = breaks + 1 /\ deaths' = deaths + 1 /\ phase' = "idle" /\ pc' = "" /\ acc' = <<>>
      /\ ret' = Go(0, NoCtx) /\ conn' = 0 /\ inbox' = {}
      /\ UNCHANGED <<kind, mode, params, paused, row, retAt, now, lag, tasks, bot, net, conns, pushedOn>>
  BY DEF Crash, Breaks
<1>2. ret' \in Results /\ ~ret'.done
  <2>1. 0 \in 0..3
    OBVIOUS
  <2>. QED BY <1>1, <2>1, NoCtxType, GoType
<1>3. WorldTypes' /\ Answered'
  BY <1>1 DEF StepInv, WorldTypes, Answered
<1>4. WorldKeeps
  <2>1. Len(tasks) <= Len(tasks')
    <3>1. Len(tasks) \in Nat
      BY StepFacts DEF WorldTypes
    <3>2. tasks' = tasks
      BY <1>1
    <3>. QED BY <3>1, <3>2
  <2>. QED BY <1>1, <2>1 DEF WorldKeeps
<1>5. RowCarries'
  BY <1>1, <1>3, <1>4, StepFacts, CarriesStays DEF RowCarries, FromJson
<1>6. Called' /\ Returned'
  BY <1>1, <1>2 DEF Called, Returned
<1>7. CallerTypes'
  <2>1. breaks \in 0..MaxBreaks /\ deaths \in 0..breaks
    BY DEF StepInv, CallerTypes
  <2>2. breaks' \in 0..MaxBreaks /\ deaths' \in 0..breaks'
    <3>1. breaks < MaxBreaks /\ breaks' = breaks + 1 /\ deaths' = deaths + 1
      BY <1>1
    <3>. QED BY <2>1, <3>1, Bounds
  <2>3. acc' \in Seq(0..MaxTasks)
    BY <1>1, NoTasksYet
  <2>. QED BY <1>1, <1>2, <2>2, <2>3 DEF StepInv, CallerTypes
<1>. QED BY <1>3, <1>5, <1>6, <1>7 DEF StepInv

LEMMA WorldMoves ==
  ASSUME StepInv, WorldKeeps, WorldTypes', Answered', UNCHANGED <<caller, row, phase, pc, acc, ret, retAt, now, lag>>,
         kind \in ScriptKinds /\ row.ctx.ids # <<>> /\ conn # pushedOn => conn' # pushedOn'
  PROVE  StepInv'
<1>1. UNCHANGED <<kind, mode, params, paused, breaks, deaths, row, phase, pc, acc, ret, retAt, now, lag>>
  BY DEF caller
<1>2. CallerTypes'
  BY <1>1 DEF StepInv, CallerTypes
<1>3. RowCarries'
  BY <1>1, StepFacts, CarriesStays DEF RowCarries, FromJson
<1>4. InCall => InCall'
  <2>1. 1..Len(tasks) \subseteq 1..Len(tasks')
    BY StepFacts DEF WorldTypes, WorldKeeps
  <2>2. UNCHANGED <<kind, pc, acc, row>> /\ bot \subseteq bot'
    BY <1>1 DEF WorldKeeps
  <2>3. AskedInTime => AskedInTime'
    BY <1>1 DEF AskedInTime
  <2>. QED BY <2>1, <2>2, <2>3 DEF InCall
<1>5. ASSUME phase = "returned", ~ret.done PROVE Carries(ret.sub, ret.ctx)'
  <2>1. PICK s \in 0..3 : s = ret.sub
    BY DEF StepInv, CallerTypes, Results
  <2>2. PICK c \in Ctx : c = ret.ctx
    BY DEF StepInv, CallerTypes, Results
  <2>3. Carries(s, c)
    BY <1>5, <2>1, <2>2 DEF StepInv, Returned
  <2>4. Carries(s, c)'
    BY <2>3, StepFacts, CarriesStays
  <2>5. s = ret'.sub /\ c = ret'.ctx
    BY <1>1, <2>1, <2>2
  <2>. QED BY <2>4, <2>5
<1>6. ASSUME ret.done PROVE Judged(ret, retAt)'
  <2>1. PICK r \in Results : r = ret
    BY DEF StepInv, CallerTypes
  <2>2. PICK at : at = retAt
    OBVIOUS
  <2>3. Judged(r, at)
    BY <1>6, <2>1, <2>2 DEF StepInv, Returned
  <2>4. Judged(r, at)'
    BY <1>1, <2>3, StepFacts, JudgedStays
  <2>5. r = ret' /\ at = retAt'
    BY <1>1, <2>1, <2>2
  <2>. QED BY <2>4, <2>5
<1>7. Called' /\ Returned'
  BY <1>1, <1>4, <1>5, <1>6 DEF StepInv, Called, Returned
<1>. QED BY <1>2, <1>3, <1>7 DEF StepInv

(* A task moves on. *)
LEMMA TaskMoves ==
  ASSUME StepInv, NEW t \in 1..Len(tasks), NEW s \in TaskStatus, tasks' = [tasks EXCEPT ![t] = s],
         tasks[t] = "queued" \/ (tasks[t] = "downloaded" /\ params.install), UNCHANGED <<kind, mode, params, bot, net, conn, conns, pushedOn>>,
         inbox' \subseteq inbox \cup {t}
  PROVE  /\ WorldTypes' /\ WorldKeeps /\ Len(tasks') = Len(tasks) /\ tasks'[t] = s
         /\ \A u \in 1..Len(tasks) \ {t} : tasks'[u] = tasks[u]
<1>1. tasks \in Seq(TaskStatus) /\ Len(tasks) \in Nat /\ Len(tasks) <= MaxTasks
  BY StepFacts DEF WorldTypes
<1>2. /\ tasks' \in Seq(TaskStatus) /\ Len(tasks') = Len(tasks) /\ tasks'[t] = s
      /\ \A u \in 1..Len(tasks) \ {t} : tasks'[u] = tasks[u]
  BY <1>1
<1>3. inbox' \subseteq 1..MaxTasks
  BY <1>1, StepFacts, Bounds DEF WorldTypes
<1>4. WorldTypes'
  BY <1>1, <1>2, <1>3, StepFacts DEF WorldTypes
<1>5. WorldKeeps
  <2>1. \A u \in 1..Len(tasks) :
          tasks[u] # "queued" /\ ~(tasks[u] = "downloaded" /\ params.install) => tasks'[u] = tasks[u]
    BY <1>2
  <2>. QED BY <1>1, <1>2, <2>1 DEF WorldKeeps
<1>. QED BY <1>2, <1>4, <1>5

LEMMA PlatformKeeps == ASSUME StepInv, PlatformWorks PROVE StepInv'
<1>1. /\ UNCHANGED <<caller, row, phase, pc, acc, ret, retAt, now, lag>>
      /\ UNCHANGED <<kind, mode, params, bot, net, conn, inbox, conns, pushedOn>>
  BY DEF PlatformWorks, caller
<1>2. PICK t \in 1..Len(tasks) : tasks[t] \in DOMAIN Outcomes /\ \E s \in Outcomes[tasks[t]] : tasks' = [tasks EXCEPT ![t] = s]
  <2>1. DOMAIN tasks = 1..Len(tasks)
    BY StepFacts DEF WorldTypes
  <2>. QED BY <2>1 DEF PlatformWorks
<1>3. PICK s \in Outcomes[tasks[t]] : tasks' = [tasks EXCEPT ![t] = s]
  BY <1>2
<1>4. DOMAIN Outcomes = {"queued", "downloaded"}
  BY DEF Outcomes
<1>5. CASE tasks[t] = "queued"
  <2>1. s \in {"changed", "downloaded", "failed"}
    BY <1>5 DEF Outcomes
  <2>2. s \in TaskStatus /\ inbox' \subseteq inbox \cup {t}
    BY <1>1, <2>1 DEF TaskStatus
  <2>3. /\ WorldTypes' /\ WorldKeeps /\ Len(tasks') = Len(tasks) /\ tasks'[t] = s
        /\ \A u \in 1..Len(tasks) \ {t} : tasks'[u] = tasks[u]
    BY <1>1, <1>3, <1>5, <2>2, TaskMoves
  <2>4. Answered'
    <3>1. t \notin inbox
      BY <1>5 DEF StepInv, Answered
    <3>. QED BY <1>1, <2>1, <2>3, <3>1 DEF StepInv, Answered
  <2>. QED BY <1>1, <2>3, <2>4, WorldMoves
<1>6. CASE tasks[t] = "downloaded"
  <2>1. params.install /\ s \in {"installed", "installFailed"}
    BY <1>6 DEF Outcomes
  <2>2. s \in TaskStatus /\ inbox' \subseteq inbox \cup {t}
    BY <1>1, <2>1 DEF TaskStatus
  <2>3. /\ WorldTypes' /\ WorldKeeps /\ Len(tasks') = Len(tasks) /\ tasks'[t] = s
        /\ \A u \in 1..Len(tasks) \ {t} : tasks'[u] = tasks[u]
    BY <1>1, <1>3, <1>6, <2>1, <2>2, TaskMoves
  <2>4. Answered'
    <3>1. t \notin inbox
      BY <1>6 DEF StepInv, Answered
    <3>. QED BY <1>1, <2>1, <2>3, <3>1 DEF StepInv, Answered
  <2>. QED BY <1>1, <2>3, <2>4, WorldMoves
<1>. QED BY <1>2, <1>4, <1>5, <1>6

LEMMA DeviceAnswersKeep == ASSUME StepInv, DeviceAnswers PROVE StepInv'
<1>1. /\ UNCHANGED <<caller, row, phase, pc, acc, ret, retAt, now, lag>>
      /\ UNCHANGED <<kind, mode, params, bot, net, conn, conns, pushedOn>> /\ kind \in ScriptKinds
  BY DEF DeviceAnswers, caller, ScriptKinds
<1>2. PICK t \in 1..Len(tasks), s \in {"answeredOk", "answeredFail"} :
        tasks[t] = "queued" /\ tasks' = [tasks EXCEPT ![t] = s] /\ inbox' = inbox \cup {t}
  <2>1. DOMAIN tasks = 1..Len(tasks)
    BY StepFacts DEF WorldTypes
  <2>. QED BY <2>1 DEF DeviceAnswers
<1>3. s \in TaskStatus
  BY DEF TaskStatus
<1>4. /\ WorldTypes' /\ WorldKeeps /\ Len(tasks') = Len(tasks) /\ tasks'[t] = s
      /\ \A u \in 1..Len(tasks) \ {t} : tasks'[u] = tasks[u]
  BY <1>1, <1>2, <1>3, TaskMoves
<1>5. Answered'
  BY <1>1, <1>2, <1>4 DEF StepInv, Answered, ScriptKinds
<1>. QED BY <1>1, <1>4, <1>5, WorldMoves

LEMMA LinkKeeps == ASSUME StepInv, ShellReady \/ Connect \/ Disconnect PROVE StepInv'
<1>1. /\ UNCHANGED <<caller, row, phase, pc, acc, ret, retAt, now, lag>>
      /\ UNCHANGED <<kind, mode, params, tasks, net, pushedOn>> /\ bot \subseteq bot' /\ inbox' \subseteq inbox
      /\ bot' \subseteq bot \cup {"shell"}
  BY DEF ShellReady, Connect, Disconnect, caller
<1>2. pushedOn \in 0..conns /\ conns \in 0..MaxConns /\ conn \in {0, conns}
  BY StepFacts DEF WorldTypes
<1>3. \/ UNCHANGED <<conn, conns>>
      \/ conns < MaxConns /\ conns' = conns + 1 /\ conn' = conns'
      \/ conn' = 0 /\ conns' = conns
  BY DEF ShellReady, Connect, Disconnect
<1>4. conn' \in {0, conns'} /\ conns' \in 0..MaxConns /\ pushedOn \in 0..conns'
      /\ (pushedOn >= 1 /\ conn # pushedOn => conn' # pushedOn)
  BY <1>2, <1>3, Bounds
<1>5. WorldTypes' /\ Answered'
  BY <1>1, <1>4 DEF StepInv, WorldTypes, Answered
<1>6. WorldKeeps
  <2>1. Len(tasks) \in Nat /\ tasks' = tasks
    BY <1>1, StepFacts DEF WorldTypes
  <2>. QED BY <1>1, <2>1 DEF WorldKeeps
<1>7. kind \in ScriptKinds /\ row.ctx.ids # <<>> => pushedOn >= 1
  BY StepFacts DEF Carries, ScriptCarried
<1>. QED BY <1>1, <1>4, <1>5, <1>6, <1>7, WorldMoves

------------------------------------------------------------------------------
(* The theorems *)

LEMMA InitHolds == Init => StepInv
<1>. SUFFICES ASSUME Init PROVE StepInv
  OBVIOUS
<1>1. row.sub = 0 /\ row.ctx = NoCtx /\ row \in [sub : 0..3, ctx : Ctx]
  <2>1. PICK c \in Ctx : c = NoCtx
    BY NoCtxType
  <2>2. row = [sub |-> 0, ctx |-> c]
    BY <2>1 DEF Init
  <2>. QED BY <2>1, <2>2
<1>2. ret \in Results /\ ~ret.done
  <2>1. 0 \in 0..3
    OBVIOUS
  <2>. QED BY <2>1, NoCtxType, GoType DEF Init
<1>3. CallerTypes
  <2>1. 0 \in 0..MaxLag /\ 0 \in 0..MaxBreaks /\ Epoch \in Epoch..MaxTime
    BY Bounds
  <2>2. acc \in Seq(0..MaxTasks)
    BY NoTasksYet DEF Init
  <2>3. /\ kind \in Kinds /\ mode \in Modes /\ params \in Params[kind]
        /\ phase = "idle" /\ pc = "" /\ retAt = Epoch /\ now = Epoch /\ lag = 0
        /\ paused = FALSE /\ breaks = 0 /\ deaths = 0
    BY DEF Init
  <2>4. deaths \in 0..breaks /\ breaks \in 0..MaxBreaks
    <3>1. breaks = 0 /\ deaths = 0
      BY DEF Init
    <3>2. deaths <= breaks /\ deaths \in Int /\ breaks \in Int /\ deaths >= 0
      BY <3>1
    <3>3. deaths \in 0..breaks
      BY <3>2
    <3>. QED BY <2>1, <3>1, <3>3
  <2>5. now \in Epoch..MaxTime /\ retAt \in Epoch..MaxTime /\ lag \in 0..MaxLag
    BY <2>1, <2>3
  <2>. QED BY <1>1, <1>2, <2>2, <2>3, <2>4, <2>5 DEF CallerTypes
<1>4. WorldTypes
  <2>1. tasks \in Seq(TaskStatus) /\ Len(tasks) = 0
    <3>1. <<>> \in Seq(TaskStatus) /\ Len(<<>>) = 0
      OBVIOUS
    <3>. QED BY <3>1 DEF Init
  <2>2. conn \in {0, conns} /\ conns \in 0..MaxConns /\ pushedOn \in 0..conns
    <3>1. conn \in {0, 1} /\ conns = conn /\ pushedOn = 0
      BY DEF Init
    <3>. QED BY <3>1, Bounds
  <2>3. bot = {} /\ net = {} /\ inbox = {}
    BY DEF Init
  <2>. QED BY <2>1, <2>2, <2>3, Bounds DEF WorldTypes
<1>5. Carries(0, NoCtx) /\ FromJson(NoCtx)
  BY NoCtxType DEF Carries, TaskCarried, CloudCarried, BotCarried, ScriptCarried, ProxyCarried, FromJson, NoStamp, Waiting
<1>6. RowCarries
  BY <1>1, <1>5 DEF RowCarries
<1>7. Called /\ Returned
  BY <1>2 DEF Init, Called, Returned
<1>8. Answered
  <2>1. inbox = {} /\ tasks = <<>> /\ Len(<<>>) = 0
    BY DEF Init
  <2>2. 1..Len(tasks) = {}
    BY <2>1
  <2>. QED BY <2>1, <2>2 DEF Answered
<1>. QED BY <1>3, <1>4, <1>6, <1>7, <1>8 DEF StepInv

LEMMA ExecuteKeeps == ASSUME StepInv, Execute PROVE StepInv'
<1>1. CASE SetProxy \/ WaitEffect
  BY <1>1, SetProxyKeeps, WaitEffectKeeps
<1>2. CASE SendDownload \/ SendDownloadInstall \/ SendChangeOs
  BY <1>2, SendTaskKeeps DEF SendDownload, SendDownloadInstall, SendChangeOs, OneTaskKinds
<1>3. CASE WaitDownload \/ WaitInstallDownload \/ WaitInstall \/ WaitChangeOs \/ WaitOnline
  BY <1>3, WaitDownloadKeeps, WaitInstallDownloadKeeps, WaitInstallKeeps, WaitChangeOsKeeps, WaitOnlineKeeps
<1>4. CASE CloudSend \/ CloudSent \/ CloudWait \/ CloudPost
  BY <1>4, CloudSendKeeps, CloudSentKeeps, CloudWaitKeeps, CloudPostKeeps
<1>5. CASE WriteConfig \/ ProbeShellChannel \/ UnpackAccSys \/ StartAccSys
  BY <1>5, WriteConfigKeeps, ProbeKeeps, UnpackKeeps, StartAccSysKeeps
<1>6. CASE CheckAccSys \/ StartTestFramework \/ WaitConnection
  BY <1>6, CheckAccSysKeeps, StartFrameworkKeeps, WaitConnectionKeeps
<1>7. CASE LoadScript \/ PushRunScript \/ PushRepoScript
  BY <1>7, LoadScriptKeeps, PushScriptKeeps DEF PushRunScript, PushRepoScript, ScriptKinds
<1>8. CASE WaitRunResult \/ WaitRepoResult
  BY <1>8, WaitResultKeeps DEF WaitRunResult, WaitRepoResult, ScriptKinds
<1>9. CASE SetVariables \/ ExecShell \/ GetRoot \/ SetLocation \/ HttpRequest \/ NetworkCheck \/ ConditionCheck
  BY <1>9, OneCallKeep, NetworkCheckKeeps
<1>. QED BY <1>1, <1>2, <1>3, <1>4, <1>5, <1>6, <1>7, <1>8, <1>9 DEF Execute

LEMMA NextKeeps == StepInv /\ [Next]_vars => StepInv'
<1>. SUFFICES ASSUME StepInv, [Next]_vars PROVE StepInv'
  OBVIOUS
<1>1. CASE Execute
  BY <1>1, ExecuteKeeps
<1>2. CASE Store \/ SingleGivesUp \/ Pause \/ Resume \/ Crash \/ Tick
  BY <1>2, StoreKeeps, GivesUpKeeps, PauseResumeTickKeep, CrashKeeps
<1>3. CASE Environment
  BY <1>3, PlatformKeeps, DeviceAnswersKeep, LinkKeeps DEF Environment
<1>4. CASE UNCHANGED vars
  <2>1. UNCHANGED <<kind, mode, params, row, phase, pc, acc, ret, retAt, now, lag, paused, breaks, deaths>>
        /\ UNCHANGED <<kind, mode, params, row, world>>
    BY <1>4 DEF vars, world
  <2>2. CallerTypes'
    BY <2>1 DEF StepInv, CallerTypes
  <2>3. /\ WorldIsFine /\ (InCall => InCall') /\ (ret.done => Judged(ret, retAt)')
        /\ (phase = "returned" /\ ~ret.done => Carries(ret.sub, ret.ctx)')
    BY <2>1, Rests DEF StepInv, Returned
  <2>4. Called' /\ Returned'
    BY <2>1, <2>3 DEF StepInv, Called, Returned
  <2>. QED BY <2>2, <2>3, <2>4 DEF StepInv, WorldIsFine
<1>. QED BY <1>1, <1>2, <1>3, <1>4 DEF Next

LEMMA InvHolds == Spec => []StepInv
  BY InitHolds, NextKeeps, PTL DEF Spec

(* Every variable keeps its type: the stored context, the pending result, the *)
(* clock within its bounds, and one connection at most.                       *)
THEOREM Types == Spec => []TypeOK
<1>1. StepInv => TypeOK
  BY InvImplies
<1>. QED BY <1>1, InvHolds, PTL

(* A step that succeeds does so within its limits, counted from the times its *)
(* context carried through the database, restarts and pauses.                 *)
THEOREM VerdictsInTime == Spec => []VerdictInTime
<1>1. StepInv => VerdictInTime
  BY InvImplies
<1>. QED BY <1>1, InvHolds, PTL

(* A step succeeds on the outcome of its own commands: the task whose number  *)
(* its context carries is at its end, all of them for a download of several   *)
(* files, and a bot was started over a live channel.                          *)
THEOREM SuccessOwned == Spec => []SuccessIsOwn
<1>1. StepInv => SuccessIsOwn
  BY InvImplies
<1>. QED BY <1>1, InvHolds, PTL

(* The verdict on a script is the device's own, unless the limit passed or    *)
(* the connection it was pushed over is gone.                                 *)
THEOREM ScriptVerdicts == Spec => []ScriptVerdict
<1>1. StepInv => ScriptVerdict
  BY InvImplies
<1>. QED BY <1>1, InvHolds, PTL

(* The single-step handler never sees a script succeed.                       *)
THEOREM SingleScripts == Spec => []SingleScriptFails
<1>1. StepInv => SingleScriptFails
  BY InvImplies
<1>. QED BY <1>1, InvHolds, PTL

------------------------------------------------------------------------------
(* A command is sent again only because the process died.  An attempt that    *)
(* was stored is not made again; one that died has at most what one attempt   *)
(* sends.                                                                     *)

Attempt == IF kind = "download_cloud" THEN Files ELSE 1

(* The tasks of attempts that died. *)
Lost == Attempt * deaths

Allowed(s) == IF Waiting(s) THEN Lost + Attempt ELSE Lost

UnderWay == IF pc = "send" THEN Len(acc) ELSE 0

SentInv ==
  /\ phase \in {"idle", "calling"} => Len(tasks) <= Allowed(row.sub) + UnderWay
  /\ phase = "returned" /\ ~ret.done => Len(tasks) <= Allowed(ret.sub)
  /\ Len(tasks) <= Lost + Attempt

LEMMA AttemptFacts ==
  ASSUME StepInv
  PROVE  /\ Attempt \in Nat /\ deaths \in Nat /\ Lost \in Nat /\ Attempt * (1 + deaths) = Lost + Attempt
         /\ Attempt * (deaths + 1) = Lost + Attempt /\ Len(tasks) \in Nat
<1>1. Attempt \in Nat
  BY Bounds DEF Attempt
<1>2. deaths \in Nat
  <2>1. deaths \in 0..breaks /\ breaks \in 0..MaxBreaks
    BY StepFacts DEF CallerTypes
  <2>. QED BY <2>1, Bounds
<1>3. PICK a \in Nat, d \in Nat : a = Attempt /\ d = deaths
  BY <1>1, <1>2
<1>4. a * d \in Nat /\ a * (1 + d) = a * d + a /\ a * (d + 1) = a * d + a
  OBVIOUS
<1>5. Len(tasks) \in Nat
  BY StepFacts DEF WorldTypes
<1>. QED BY <1>3, <1>4, <1>5 DEF Lost

LEMMA AllowedGrows ==
  ASSUME StepInv, NEW s \in 0..3, NEW t \in 0..3, s <= t
  PROVE  Allowed(s) <= Allowed(t) /\ Allowed(s) \in Nat /\ Allowed(t) \in Nat /\ Allowed(t) <= Lost + Attempt
  BY AttemptFacts DEF Allowed, Waiting

(* What the steps that send nothing do to the place of the step. *)
Onward ==
  /\ UNCHANGED <<kind, deaths, tasks, row>> /\ pc # "send"
  /\ \/ phase' = "returned" /\ (ret'.done \/ ret'.sub >= row.sub)
     \/ phase' = "calling" /\ pc' # "send"

LEMMA OnwardKeeps == ASSUME StepInv, StepInv', phase \in {"idle", "calling"}, SentInv, Onward PROVE SentInv'
<1>1. UNCHANGED <<Attempt, Lost>> /\ \A s : Allowed(s)' = Allowed(s)
  BY DEF Onward, Attempt, Lost, Allowed, Waiting
<1>2. UnderWay = 0 /\ Len(tasks) <= Allowed(row.sub) + 0 /\ Len(tasks) <= Lost + Attempt /\ UNCHANGED <<tasks, row>>
  BY DEF Onward, SentInv, UnderWay
<1>3. CASE phase' = "returned" /\ (ret'.done \/ ret'.sub >= row.sub)
  <2>1. PICK t \in 0..3 : t = ret'.sub
    BY DEF StepInv, CallerTypes, Results
  <2>2. row.sub \in 0..3 /\ Allowed(row.sub) \in Nat
    BY StepFacts, AllowedGrows
  <2>3. ASSUME ~ret'.done PROVE Len(tasks) <= Allowed(t)
    <3>1. Allowed(row.sub) <= Allowed(t) /\ Allowed(t) \in Nat
      BY <1>3, <2>1, <2>2, <2>3, AllowedGrows
    <3>. QED BY <1>2, <2>2, <3>1, AttemptFacts
  <2>. QED BY <1>1, <1>2, <1>3, <2>1, <2>3 DEF SentInv
<1>4. CASE phase' = "calling" /\ pc' # "send"
  BY <1>1, <1>2, <1>4 DEF SentInv, UnderWay
<1>. QED BY <1>3, <1>4 DEF Onward

(* One task at most is sent by the steps that send one. *)
LEMMA SentOne ==
  ASSUME StepInv, SentInv, phase = "idle", ~Waiting(row.sub), kind # "download_cloud", Len(tasks') <= Len(tasks) + 1, Len(tasks') \in Nat,
         NEW r \in Results, Returns(r), r.done \/ Waiting(r.sub)
  PROVE  SentInv'
<1>1. UNCHANGED <<kind, deaths, row>> /\ phase' = "returned" /\ ret' = r
  BY DEF Returns, caller
<1>2. UNCHANGED <<Attempt, Lost>> /\ \A s : Allowed(s)' = Allowed(s)
  BY <1>1 DEF Attempt, Lost, Allowed, Waiting
<1>3. Attempt = 1
  BY DEF Attempt
<1>4. Len(tasks) <= Lost + 0
  <2>1. pc = ""
    BY DEF StepInv, Called
  <2>. QED BY <2>1 DEF SentInv, UnderWay, Allowed
<1>5. Len(tasks') <= Lost + Attempt
  BY <1>3, <1>4, AttemptFacts
<1>6. r.done \/ Allowed(r.sub) = Lost + Attempt
  BY DEF Allowed
<1>. QED BY <1>1, <1>2, <1>5, <1>6 DEF SentInv

LEMMA SendersSend ==
  ASSUME StepInv, SentInv, SendDownload \/ SendDownloadInstall \/ SendChangeOs \/ PushRunScript \/ PushRepoScript
  PROVE  SentInv'
<1>1. tasks \in Seq(TaskStatus) /\ "queued" \in TaskStatus /\ Len(tasks) \in Nat
  BY StepFacts DEF WorldTypes, TaskStatus
<1>2. Len(Append(tasks, "queued")) = Len(tasks) + 1
  BY <1>1
<1>3. ASSUME NEW k \in OneTaskKinds, SendTask(k) PROVE SentInv'
  <2>1. PICK a \in Answers \cup {"noId"} :
        /\ Submitted(IF a = "noId" THEN "ok" ELSE a)
        /\ Returns(IF a = "ok" THEN Go(1, Start(<<NewId>>, FloatNow)) ELSE Fail)
    BY <1>3 DEF SendTask
  <2>2. phase = "idle" /\ kind = k /\ row.sub = 0 /\ ~Waiting(row.sub) /\ Waiting(1) /\ kind # "download_cloud"
    BY <1>3 DEF SendTask, At, Waiting, OneTaskKinds
  <2>3. tasks' = Append(tasks, "queued") \/ tasks' = tasks
    BY <2>1 DEF Submitted
  <2>4. Len(tasks') <= Len(tasks) + 1 /\ Len(tasks') \in Nat
    BY <1>1, <1>2, <2>3
  <2>5. PICK r \in Results : Returns(r) /\ (r.done \/ Waiting(r.sub))
    <3>1. CASE a # "ok"
      BY <2>1, <3>1, ResultTypes
    <3>2. CASE a = "ok"
      <4>1. PICK r : r = Go(1, Start(<<NewId>>, FloatNow))
        OBVIOUS
      <4>2. r.sub = 1
        BY <4>1 DEF Go
      <4>3. r = ret' /\ Returns(r)
        BY <2>1, <3>2, <4>1 DEF Returns
      <4>4. r \in Results
        BY <1>3, <4>3, SendTaskKeeps DEF StepInv, CallerTypes
      <4>. QED BY <2>2, <4>2, <4>3, <4>4
    <3>. QED BY <3>1, <3>2
  <2>. QED BY <2>2, <2>4, <2>5, SentOne
<1>4. ASSUME NEW k \in ScriptKinds, NEW s \in {0, 1}, s = IF k = "run_script" THEN 0 ELSE 1, PushScript(k, s) PROVE SentInv'
  <2>1. /\ phase = "idle" /\ kind = k /\ row.sub = s /\ ~Waiting(row.sub) /\ Waiting(row.sub + 1)
        /\ kind # "download_cloud"
    BY <1>4 DEF PushScript, At, Waiting, ScriptKinds
  <2>2. tasks' = Append(tasks, "queued") \/ tasks' = tasks
    BY <1>4 DEF PushScript, world
  <2>3. Len(tasks') <= Len(tasks) + 1 /\ Len(tasks') \in Nat
    BY <1>1, <1>2, <2>2
  <2>4. PICK r \in Results : Returns(r) /\ (r.done \/ Waiting(r.sub))
    <3>1. CASE Returns(Fail)
      BY <3>1, ResultTypes
    <3>2. CASE Returns(Go(row.sub + 1, Start(<<NewId>>, IntNow)))
      <4>1. PICK r : r = Go(row.sub + 1, Start(<<NewId>>, IntNow))
        OBVIOUS
      <4>2. r.sub = row.sub + 1
        BY <4>1 DEF Go
      <4>3. r = ret' /\ Returns(r)
        BY <3>2, <4>1 DEF Returns
      <4>4. r \in Results
        BY <1>4, <4>3, PushScriptKeeps DEF StepInv, CallerTypes
      <4>. QED BY <2>1, <4>2, <4>3, <4>4
    <3>. QED BY <1>4, <3>1, <3>2 DEF PushScript
  <2>. QED BY <2>1, <2>3, <2>4, SentOne
<1>. QED BY <1>3, <1>4 DEF SendDownload, SendDownloadInstall, SendChangeOs, PushRunScript, PushRepoScript,
     OneTaskKinds, ScriptKinds

LEMMA CloudSends == ASSUME StepInv, SentInv, CloudSend \/ CloudSent PROVE SentInv'
<1>1. UNCHANGED <<kind, deaths, row>>
  BY DEF CloudSend, CloudSent, Returns, Continues, caller
<1>2. UNCHANGED <<Attempt, Lost>> /\ \A s : Allowed(s)' = Allowed(s)
  BY <1>1 DEF Attempt, Lost, Allowed, Waiting
<1>3. kind = "download_cloud" /\ Attempt = Files /\ row.sub = 0 /\ phase \in {"idle", "calling"}
  BY DEF CloudSend, CloudSent, At, Inside, StepInv, Called, InCall, Attempt
<1>4. acc \in Seq(0..MaxTasks) /\ Len(acc) \in Nat /\ tasks \in Seq(TaskStatus) /\ Len(tasks) \in Nat
  <2>1. acc \in Seq(0..MaxTasks) /\ tasks \in Seq(TaskStatus)
    BY StepFacts DEF CallerTypes, WorldTypes
  <2>. QED BY <2>1
<1>5. Len(tasks) <= Lost + Len(acc)
  <2>1. UnderWay = Len(acc)
    <3>1. CASE pc = "send"
      BY <3>1 DEF UnderWay
    <3>2. CASE phase = "idle"
      <4>1. pc = "" /\ acc = <<>> /\ Len(<<>>) = 0
        BY <3>2 DEF StepInv, Called
      <4>. QED BY <4>1 DEF UnderWay
    <3>. QED BY <3>1, <3>2 DEF CloudSend, CloudSent, At, Inside
  <2>2. Allowed(row.sub) = Lost
    BY <1>3 DEF Allowed, Waiting
  <2>. QED BY <1>3, <2>1, <2>2 DEF SentInv
<1>6. CASE CloudSend
  <2>1. PICK a \in Answers \cup {"noId"} :
          /\ Submitted(IF a = "noId" THEN "ok" ELSE a)
          /\ IF a = "ok" THEN Continues("send", Append(acc, NewId)) ELSE Returns(Fail)
    BY <1>6 DEF CloudSend
  <2>2. Len(acc) < Files /\ (tasks' = Append(tasks, "queued") \/ tasks' = tasks)
    BY <1>6, <2>1 DEF CloudSend, Submitted
  <2>3. Len(tasks') <= Len(tasks) + 1 /\ Len(tasks') \in Nat
    <3>1. Len(Append(tasks, "queued")) = Len(tasks) + 1
      BY <1>4
    <3>. QED BY <1>4, <2>2, <3>1
  <2>4. Len(tasks') <= Lost + Len(acc) + 1 /\ Len(tasks') <= Lost + Attempt
    BY <1>3, <1>4, <1>5, <2>2, <2>3, AttemptFacts, Bounds
  <2>5. CASE a # "ok"
    <3>1. phase' = "returned" /\ ret'.done
      BY <2>1, <2>5, ResultTypes DEF Returns
    <3>. QED BY <1>2, <2>4, <3>1 DEF SentInv
  <2>6. CASE a = "ok"
    <3>1. phase' = "calling" /\ pc' = "send" /\ acc' = Append(acc, NewId)
      BY <2>1, <2>6 DEF Continues
    <3>2. Len(Append(acc, NewId)) = Len(acc) + 1
      BY <1>4
    <3>3. UnderWay' = Len(acc) + 1
      BY <3>1, <3>2 DEF UnderWay
    <3>4. Allowed(row.sub)' = Lost
      BY <1>1, <1>2, <1>3 DEF Allowed, Waiting
    <3>5. Len(tasks') <= Allowed(row.sub)' + UnderWay'
      BY <1>4, <2>3, <2>4, <3>3, <3>4, AttemptFacts
    <3>. QED BY <1>2, <2>4, <3>1, <3>5 DEF SentInv
  <2>. QED BY <2>5, <2>6
<1>7. CASE CloudSent
  <2>1. Len(acc) = Files /\ tasks' = tasks /\ Returns(Go(1, Start(acc, FloatNow)))
    BY <1>7 DEF CloudSent, world
  <2>2. phase' = "returned" /\ ret'.sub = 1
    BY <2>1 DEF Returns, Go
  <2>3. Len(tasks') <= Lost + Attempt
    BY <1>3, <1>5, <2>1
  <2>4. Allowed(1)' = Lost + Attempt
    BY <1>2, <1>3 DEF Allowed, Waiting
  <2>. QED BY <1>2, <2>2, <2>3, <2>4 DEF SentInv
<1>. QED BY <1>6, <1>7

(* The answer of a call that is not over leaves the step where it is, or moves it on. *)
LEMMA AtIdle ==
  ASSUME StepInv, NEW k, NEW s, At(k, s)
  PROVE  phase = "idle" /\ pc # "send" /\ row.sub = s
  BY DEF At, StepInv, Called

LEMMA Reaches ==
  ASSUME NEW r, Returns(r), UNCHANGED tasks, r.done \/ r.sub >= row.sub, pc # "send"
  PROVE  Onward
  BY DEF Onward, Returns, caller

LEMMA Places ==
  /\ Fail.done /\ Success.done /\ \A s, c : Go(s, c).sub = s
  /\ \A n \in 0..3 : n >= n
  BY DEF Fail, Success, Go

LEMMA ContinuesOnward ==
  ASSUME NEW p, p # "send", Continues(p, <<>>), UNCHANGED tasks, pc # "send"
  PROVE  Onward
  BY DEF Onward, Continues, caller

LEMMA AsksOnward ==
  ASSUME StepInv, NEW k, NEW s, NEW late, Asks(k, s, late), UNCHANGED tasks
  PROVE  phase = "idle" /\ Onward
<1>1. phase = "idle" /\ pc # "send"
  BY AtIdle DEF Asks
<1>2. Returns(Fail) \/ Continues("query", <<>>)
  BY DEF Asks
<1>. QED BY <1>1, <1>2, Reaches, Places, ContinuesOnward

LEMMA WaitersMoveOn ==
  ASSUME StepInv, \/ SetProxy \/ WaitEffect \/ WaitDownload \/ WaitInstallDownload \/ WaitInstall \/ WaitChangeOs
                  \/ WaitOnline \/ CloudWait \/ CloudPost
  PROVE  Onward /\ phase \in {"idle", "calling"}
<1>1. ASSUME SetProxy PROVE phase = "idle" /\ Onward
  BY <1>1, AtIdle, Reaches, Places DEF SetProxy, world
<1>2. ASSUME WaitEffect PROVE phase = "idle" /\ Onward
  BY <1>2, AtIdle, Reaches, Places DEF WaitEffect, world
<1>3. ASSUME WaitDownload PROVE phase \in {"idle", "calling"} /\ Onward
  <2>1. ASSUME NEW k, NEW s, NEW late, Asks(k, s, late) PROVE phase = "idle" /\ Onward
    BY <1>3, <2>1, AsksOnward DEF WaitDownload, world
  <2>2. ASSUME NEW k, NEW s, Asked(k, s) PROVE phase = "calling" /\ pc # "send" /\ row.sub = s
    BY <2>2 DEF Asked, Inside
  <2>. QED BY <1>3, <2>1, <2>2, Reaches, Places DEF WaitDownload, world
<1>4. ASSUME WaitInstallDownload PROVE phase \in {"idle", "calling"} /\ Onward
  <2>1. ASSUME NEW k, NEW s, NEW late, Asks(k, s, late) PROVE phase = "idle" /\ Onward
    BY <1>4, <2>1, AsksOnward DEF WaitInstallDownload, world
  <2>2. ASSUME NEW k, NEW s, Asked(k, s) PROVE phase = "calling" /\ pc # "send" /\ row.sub = s
    BY <2>2 DEF Asked, Inside
  <2>. QED BY <1>4, <2>1, <2>2, Reaches, Places DEF WaitInstallDownload, world
<1>5. ASSUME WaitInstall PROVE phase \in {"idle", "calling"} /\ Onward
  <2>1. ASSUME NEW k, NEW s, NEW late, Asks(k, s, late) PROVE phase = "idle" /\ Onward
    BY <1>5, <2>1, AsksOnward DEF WaitInstall, world
  <2>2. ASSUME NEW k, NEW s, Asked(k, s) PROVE phase = "calling" /\ pc # "send" /\ row.sub = s
    BY <2>2 DEF Asked, Inside
  <2>. QED BY <1>5, <2>1, <2>2, Reaches, Places DEF WaitInstall, world
<1>6. ASSUME WaitChangeOs PROVE phase \in {"idle", "calling"} /\ Onward
  <2>1. ASSUME NEW k, NEW s, NEW late, Asks(k, s, late) PROVE phase = "idle" /\ Onward
    BY <1>6, <2>1, AsksOnward DEF WaitChangeOs, world
  <2>2. ASSUME NEW k, NEW s, Asked(k, s) PROVE phase = "calling" /\ pc # "send" /\ row.sub = s
    BY <2>2 DEF Asked, Inside
  <2>. QED BY <1>6, <2>1, <2>2, Reaches, Places DEF WaitChangeOs, world
<1>7. ASSUME WaitOnline PROVE phase \in {"idle", "calling"} /\ Onward
  <2>1. phase \in {"idle", "calling"} /\ pc # "send" /\ row.sub = 2 /\ tasks' = tasks
    BY <1>7, AtIdle DEF WaitOnline, SeenOnline, Asked, Inside, world
  <2>2. CASE Continues("query", <<>>)
    BY <2>1, <2>2, ContinuesOnward
  <2>3. Returns(Fail) \/ Returns(Success) \/ (\E c : Returns(Go(2, c))) \/ Continues("query", <<>>)
    BY <1>7 DEF WaitOnline, SeenOnline
  <2>. QED BY <2>1, <2>2, <2>3, Reaches, Places
<1>8. ASSUME CloudWait PROVE phase = "idle" /\ Onward
  BY <1>8, AtIdle, Reaches, Places DEF CloudWait, world
<1>9. ASSUME CloudPost PROVE phase = "idle" /\ Onward
  BY <1>9, AtIdle, Reaches, Places DEF CloudPost, world
<1>. QED BY <1>1, <1>2, <1>3, <1>4, <1>5, <1>6, <1>7, <1>8, <1>9

LEMMA BotMovesOn ==
  ASSUME StepInv, \/ WriteConfig \/ ProbeShellChannel \/ UnpackAccSys \/ StartAccSys \/ CheckAccSys
                  \/ StartTestFramework \/ WaitConnection
  PROVE  Onward /\ phase \in {"idle", "calling"}
<1>1. ASSUME WriteConfig PROVE phase = "idle" /\ Onward
  BY <1>1, AtIdle, Reaches, Places DEF WriteConfig, Commanded
<1>2. ASSUME ProbeShellChannel PROVE phase = "idle" /\ Onward
  <2>1. phase = "idle" /\ pc # "send" /\ tasks' = tasks
    BY <1>2, AtIdle DEF ProbeShellChannel, world
  <2>2. CASE Returns(Fail)
    BY <2>1, <2>2, Reaches, Places
  <2>3. CASE Continues("probed", <<>>)
    BY <2>1, <2>3 DEF Continues, caller, Onward
  <2>. QED BY <1>2, <2>1, <2>2, <2>3 DEF ProbeShellChannel
<1>3. ASSUME UnpackAccSys PROVE phase = "calling" /\ Onward
  <2>1. phase = "calling" /\ pc # "send" /\ tasks' = tasks
    BY <1>3 DEF UnpackAccSys, Inside, world
  <2>2. CASE Returns(Fail)
    BY <2>1, <2>2, Reaches, Places
  <2>3. CASE Continues("unpacked", <<>>)
    BY <2>1, <2>3 DEF Continues, caller, Onward
  <2>. QED BY <1>3, <2>1, <2>2, <2>3 DEF UnpackAccSys
<1>4. ASSUME StartAccSys PROVE phase = "calling" /\ Onward
  <2>1. phase = "calling" /\ pc # "send" /\ tasks' = tasks
    BY <1>4 DEF StartAccSys, Inside, Commanded
  <2>2. CASE Returns(Fail)
    BY <2>1, <2>2, Reaches, Places
  <2>3. CASE Continues("started", <<>>)
    BY <2>1, <2>3 DEF Continues, caller, Onward
  <2>. QED BY <1>4, <2>1, <2>2, <2>3 DEF StartAccSys
<1>5. ASSUME CheckAccSys PROVE phase = "calling" /\ Onward
  <2>1. phase = "calling" /\ pc = "started" /\ row.sub = 1 /\ tasks' = tasks
    BY <1>5 DEF CheckAccSys, Inside, StepInv, Called, InCall
  <2>. QED BY <1>5, <2>1, Reaches, Places DEF CheckAccSys
<1>6. ASSUME StartTestFramework PROVE phase = "calling" /\ Onward
  <2>1. phase = "calling" /\ pc = "probed" /\ row.sub = 2
    BY <1>6 DEF StartTestFramework, Inside
  <2>. QED BY <1>6, <2>1, Reaches, Places DEF StartTestFramework, Commanded
<1>7. ASSUME WaitConnection PROVE phase = "idle" /\ Onward
  BY <1>7, AtIdle, Reaches, Places DEF WaitConnection, world
<1>. QED BY <1>1, <1>2, <1>3, <1>4, <1>5, <1>6, <1>7

LEMMA OthersMoveOn ==
  ASSUME StepInv, \/ LoadScript \/ WaitRunResult \/ WaitRepoResult \/ SetVariables \/ ExecShell \/ GetRoot
                  \/ SetLocation \/ HttpRequest \/ NetworkCheck \/ ConditionCheck
  PROVE  Onward /\ phase \in {"idle", "calling"}
<1>1. ASSUME LoadScript PROVE phase = "idle" /\ Onward
  BY <1>1, AtIdle, Reaches, Places DEF LoadScript, world
<1>2. ASSUME NEW k, NEW s \in {1, 2}, WaitResult(k, s) PROVE phase = "idle" /\ Onward
  BY <1>2, AtIdle, Reaches, Places, StepFacts DEF WaitResult, world
<1>3. ASSUME SetVariables \/ ExecShell \/ GetRoot \/ SetLocation \/ HttpRequest \/ ConditionCheck
      PROVE  phase = "idle" /\ Onward
  <2>1. phase = "idle" /\ pc # "send" /\ tasks' = tasks
    BY <1>3, AtIdle DEF SetVariables, ExecShell, GetRoot, SetLocation, HttpRequest, ConditionCheck, world
  <2>2. Returns(Success) \/ Returns(Fail)
    BY <1>3 DEF SetVariables, ExecShell, GetRoot, SetLocation, HttpRequest, ConditionCheck
  <2>. QED BY <2>1, <2>2, Reaches, Places
<1>4. ASSUME NetworkCheck PROVE phase \in {"idle", "calling"} /\ Onward
  <2>1. phase \in {"idle", "calling"} /\ pc # "send" /\ tasks' = tasks
    BY <1>4, AtIdle DEF NetworkCheck, Inside
  <2>2. CASE Returns(Success) \/ Returns(Fail)
    BY <2>1, <2>2, Reaches, Places
  <2>3. CASE Continues("ping", Append(acc, 0))
    BY <2>1, <2>3 DEF Continues, caller, Onward
  <2>4. Returns(Success) \/ Returns(Fail) \/ Continues("ping", Append(acc, 0))
    BY <1>4 DEF NetworkCheck
  <2>. QED BY <2>1, <2>2, <2>3, <2>4
<1>. QED BY <1>1, <1>2, <1>3, <1>4 DEF WaitRunResult, WaitRepoResult

LEMMA SentStays ==
  ASSUME StepInv, SentInv, UNCHANGED <<kind, deaths>>, Len(tasks') = Len(tasks),
         \/ phase' = "ended"
         \/ phase \in {"idle", "calling"} /\ UNCHANGED <<phase, row, pc, acc>>
         \/ phase = "returned" /\ UNCHANGED <<phase, ret>>
         \/ phase = "returned" /\ ~ret.done /\ phase' = "idle" /\ row'.sub = ret.sub /\ UNCHANGED pc
         \/ phase = "ended" /\ phase' = "ended"
  PROVE  SentInv'
<1>1. UNCHANGED <<Attempt, Lost>> /\ \A s : Allowed(s)' = Allowed(s)
  BY DEF Attempt, Lost, Allowed, Waiting
<1>2. Len(tasks') <= Lost + Attempt
  BY DEF SentInv
<1>3. CASE phase \in {"idle", "calling"} /\ UNCHANGED <<phase, row, pc, acc>>
  BY <1>1, <1>2, <1>3 DEF SentInv, UnderWay
<1>4. CASE phase = "returned" /\ UNCHANGED <<phase, ret>>
  BY <1>1, <1>2, <1>4 DEF SentInv
<1>5. CASE phase = "returned" /\ ~ret.done /\ phase' = "idle" /\ row'.sub = ret.sub /\ UNCHANGED pc
  <2>1. PICK s \in 0..3 : s = ret.sub
    BY DEF StepInv, CallerTypes, Results
  <2>2. Len(tasks) <= Allowed(s) /\ Allowed(s) \in Nat
    BY <1>5, <2>1, AllowedGrows DEF SentInv
  <2>3. UnderWay' = 0
    <3>1. pc = ""
      BY <1>5 DEF StepInv, Called
    <3>. QED BY <1>5, <3>1 DEF UnderWay
  <2>4. Len(tasks') <= Allowed(s) + 0
    BY <2>2, AttemptFacts
  <2>5. Allowed(row.sub)' = Allowed(s)
    BY <1>1, <1>5, <2>1
  <2>. QED BY <1>1, <1>2, <1>5, <2>3, <2>4, <2>5 DEF SentInv
<1>6. CASE phase' = "ended"
  BY <1>1, <1>2, <1>6 DEF SentInv
<1>. QED BY <1>3, <1>4, <1>5, <1>6

LEMMA SentAfterCrash == ASSUME StepInv, StepInv', SentInv, Crash PROVE SentInv'
<1>1. deaths' = deaths + 1 /\ UNCHANGED <<kind, tasks>> /\ phase' = "idle" /\ pc' = ""
  BY DEF Crash
<1>2. Attempt' = Attempt
  BY <1>1 DEF Attempt
<1>3. Lost' = Lost + Attempt
  <2>1. Lost' = Attempt * (deaths + 1)
    BY <1>1, <1>2 DEF Lost
  <2>. QED BY <2>1, AttemptFacts
<1>4. Len(tasks') <= Lost'
  BY <1>1, <1>3 DEF SentInv
<1>5. Attempt' \in Nat /\ Lost' \in Nat /\ Len(tasks') \in Nat
  <2>1. Attempt \in Nat /\ Lost \in Nat /\ Len(tasks) \in Nat
    BY AttemptFacts
  <2>2. tasks' = tasks
    BY <1>1
  <2>3. Len(tasks') \in Nat
    BY <2>1, <2>2
  <2>4. Attempt' \in Nat
    BY <2>1, <1>2
  <2>5. Lost' \in Nat
    BY <2>1, <1>3
  <2>. QED BY <2>3, <2>4, <2>5
<1>6. UnderWay' = 0
  BY <1>1 DEF UnderWay
<1>7. Allowed(row.sub)' \in {Lost', Lost' + Attempt'}
  BY DEF Allowed
<1>8. Len(tasks') <= Allowed(row.sub)' + UnderWay' /\ Len(tasks') <= Lost' + Attempt'
  BY <1>4, <1>5, <1>6, <1>7
<1>. QED BY <1>1, <1>8 DEF SentInv

LEMMA SentKeeps == StepInv /\ StepInv' /\ SentInv /\ [Next]_vars => SentInv'
<1>. SUFFICES ASSUME StepInv, StepInv', SentInv, [Next]_vars PROVE SentInv'
  OBVIOUS
<1>1. CASE Execute
  BY <1>1, SendersSend, CloudSends, WaitersMoveOn, BotMovesOn, OthersMoveOn, OnwardKeeps DEF Execute
<1>2. CASE Store
  <2>1. phase = "returned" /\ UNCHANGED <<kind, deaths, pc, tasks>>
    BY <1>2 DEF Store, world
  <2>2. CASE ret.done
    BY <1>2, <2>1, <2>2, SentStays DEF Store
  <2>3. CASE ~ret.done
    <3>1. row'.sub = ret.sub /\ phase' = "idle"
      BY <1>2, <2>3 DEF Store
    <3>. QED BY <2>1, <2>3, <3>1, SentStays
  <2>. QED BY <2>2, <2>3
<1>3. CASE SingleGivesUp
  BY <1>3, SentStays DEF SingleGivesUp, caller, world
<1>4. CASE Crash
  BY <1>4, SentAfterCrash
<1>5. ASSUME UNCHANGED <<kind, deaths, phase, row, pc, acc, ret>>, Len(tasks') = Len(tasks) PROVE SentInv'
  BY <1>5, SentStays DEF StepInv, CallerTypes
<1>6. CASE Pause \/ Resume \/ Tick \/ UNCHANGED vars
  BY <1>5, <1>6 DEF Pause, Resume, Tick, vars, caller, world
<1>7. CASE Environment
  <2>1. UNCHANGED <<kind, deaths, phase, row, pc, acc, ret>>
    BY <1>7 DEF Environment, PlatformWorks, ShellReady, Connect, Disconnect, DeviceAnswers, caller
  <2>2. tasks \in Seq(TaskStatus)
    BY StepFacts DEF WorldTypes
  <2>3. tasks' = tasks \/ \E t \in DOMAIN tasks : \E s : tasks' = [tasks EXCEPT ![t] = s]
    BY <1>7 DEF Environment, PlatformWorks, ShellReady, Connect, Disconnect, DeviceAnswers
  <2>4. ASSUME NEW t, NEW s, tasks' = [tasks EXCEPT ![t] = s] PROVE Len(tasks') = Len(tasks)
    <3>1. DOMAIN tasks' = DOMAIN tasks /\ DOMAIN tasks = 1..Len(tasks) /\ Len(tasks) \in Nat
      BY <2>2, <2>4
    <3>2. tasks' \in Seq(TaskStatus)
      BY DEF StepInv, WorldTypes
    <3>3. DOMAIN tasks' = 1..Len(tasks') /\ Len(tasks') \in Nat
      BY <3>2
    <3>. QED BY <3>1, <3>3
  <2>. QED BY <1>5, <2>1, <2>3, <2>4
<1>. QED BY <1>1, <1>2, <1>3, <1>4, <1>6, <1>7 DEF Next

LEMMA SentAtFirst == Init => SentInv
<1>. SUFFICES ASSUME Init PROVE SentInv
  OBVIOUS
<1>1. StepInv
  BY InitHolds
<1>2. tasks = <<>> /\ Len(<<>>) = 0 /\ phase = "idle" /\ pc = ""
  BY DEF Init
<1>3. Allowed(row.sub) \in Nat /\ Lost \in Nat /\ Attempt \in Nat
  BY <1>1, StepFacts, AllowedGrows, AttemptFacts
<1>4. UnderWay = 0
  BY <1>2 DEF UnderWay
<1>5. Len(tasks) = 0
  BY <1>2
<1>6. Len(tasks) <= Lost + Attempt
  BY <1>3, <1>5
<1>7. Len(tasks) <= Allowed(row.sub) + UnderWay
  BY <1>3, <1>4, <1>5
<1>. QED BY <1>2, <1>6, <1>7 DEF SentInv

(* A command is sent again only because the process died while it was under   *)
(* way: not by a poll, a pause, a lost answer or a failed query.              *)
THEOREM OneAttemptPerLife == Spec => []ResentOnlyAfterDeath
<1>1. Init => StepInv /\ SentInv
  BY InitHolds, SentAtFirst
<1>2. (StepInv /\ SentInv) /\ [Next]_vars => (StepInv /\ SentInv)'
  BY NextKeeps, SentKeeps
<1>3. StepInv /\ SentInv => ResentOnlyAfterDeath
  <2>. SUFFICES ASSUME StepInv, SentInv PROVE ResentOnlyAfterDeath
    OBVIOUS
  <2>1. Len(tasks) <= Attempt * (1 + deaths)
    BY AttemptFacts DEF SentInv
  <2>. QED BY <2>1 DEF ResentOnlyAfterDeath, Attempt
<1>. QED BY <1>1, <1>2, <1>3, PTL DEF Spec
------------------------------------------------------------------------------
(* What condition_check says of values that stand for integers, however they   *)
(* are written, and of a variable against itself.                              *)

LEMMA NumberFacts ==
  /\ Numbers \subseteq Int
  /\ \A m, n \in Numbers : Numeral[m] = Numeral[n] => m = n
  /\ \A s : \A m, n \in Numbers : s \in Spellings[m] /\ s \in Spellings[n] => m = n
<1>1. \A s : \A m, n \in Numbers : s \in Spellings[m] /\ s \in Spellings[n] => m = n
  BY NumberAssumption
<1>2. \A n \in Numbers : Numeral[n] \in Spellings[n]
  BY NumberAssumption
<1>. QED BY <1>1, <1>2, NumberAssumption

LEMMA ReadAs ==
  ASSUME NEW v, NEW n \in Numbers, StandsFor(v, n)
  PROVE  toFloat64(v) = n
<1>1. CASE v.type \in {"num", "int"} /\ v.n = n
  BY <1>1 DEF toFloat64
<1>2. CASE v.type = "str" /\ v.s \in Spellings[n]
  <2>1. PICK m \in Numbers : m = (CHOOSE k \in Numbers : v.s \in Spellings[k]) /\ v.s \in Spellings[m]
    BY <1>2
  <2>2. m = n
    BY <1>2, <2>1, NumberFacts
  <2>. QED BY <1>2, <2>1, <2>2 DEF toFloat64
<1>. QED BY <1>1, <1>2 DEF StandsFor

LEMMA NumbersCompare ==
  ASSUME NEW a, NEW b, NEW x \in Int, NEW y \in Int, toFloat64(a) = x, toFloat64(b) = y
  PROVE  /\ compareNumeric(a, b) > 0 <=> x > y
         /\ compareNumeric(a, b) < 0 <=> x < y
         /\ compareNumeric(a, b) >= 0 <=> x >= y
         /\ compareNumeric(a, b) <= 0 <=> x <= y
<1>1. PICK c \in Int : c = IF x < y THEN -1 ELSE IF x > y THEN 1 ELSE 0
  OBVIOUS
<1>2. c = compareNumeric(a, b)
  BY <1>1 DEF compareNumeric
<1>. QED BY <1>1, <1>2

(* Values that print as plain numerals are equal when the integers are. *)
LEMMA NumeralsEqual ==
  ASSUME NEW a, NEW b, NEW x \in Numbers, NEW y \in Numbers, StandsFor(a, x), StandsFor(b, y),
         Text(a) = Numeral[x], Text(b) = Numeral[y]
  PROVE  compareEqual(a, b) <=> x = y
<1>1. a # Nil /\ b # Nil
  BY DEF StandsFor, Nil
<1>. QED BY <1>1, NumberFacts DEF compareEqual

(* A value is like itself, set or not. *)
LEMMA LikeItself ==
  ASSUME NEW a, a.type \in {"num", "int"} => a.n \in Numbers
  PROVE  compareEqual(a, a) /\ compareNumeric(a, a) = 0
<1>1. PICK t : t = toFloat64(a)
  OBVIOUS
<1>2. t \in Int
  <2>1. CASE a.type \in {"num", "int"}
    BY <1>1, <2>1, NumberFacts DEF toFloat64
  <2>2. CASE a.type = "str"
    <3>1. CASE \E n \in Numbers : a.s \in Spellings[n]
      <4>1. PICK n \in Numbers : n = CHOOSE k \in Numbers : a.s \in Spellings[k]
        BY <3>1
      <4>. QED BY <1>1, <2>2, <3>1, <4>1, NumberFacts DEF toFloat64
    <3>. QED BY <1>1, <2>2, <3>1 DEF toFloat64
  <2>3. CASE a.type \notin {"num", "int"} /\ a.type # "str"
    BY <1>1, <2>3 DEF toFloat64
  <2>. QED BY <2>1, <2>2, <2>3
<1>3. compareNumeric(a, a) = 0
  BY <1>1, <1>2 DEF compareNumeric
<1>. QED BY <1>3 DEF compareEqual

(* A variable of a flow against a reference to itself. *)
LEMMA ItselfResolved ==
  ASSUME StepInv, kind = "condition_check", mode = "engine", Condition.variable # "deviceId",
         params.step.value = RefTo(Condition.variable)
  PROVE  Condition.b = Condition.a /\ (Condition.a.type \in {"num", "int"} => Condition.a.n \in Numbers)
<1>1. PICK x : x = Condition.variable
  OBVIOUS
<1>2. PICK all : all = [v \in DOMAIN params.vars \cup {"deviceId"} |-> IF v = "deviceId" THEN GoInt(1) ELSE params.vars[v]]
  OBVIOUS
<1>3. params \in Params["condition_check"] /\ kind \in Kinds
  BY DEF StepInv, CallerTypes
<1>4. "value" \in DOMAIN params.step
      /\ \A v \in DOMAIN params.vars : params.vars[v].type \in {"num", "int"} => params.vars[v].n \in Numbers
  BY <1>3, StepAssumption
<1>5. Condition.a = Entry(Map(params.vars), x) /\ Condition.b = Given.value
  BY <1>1 DEF Condition
<1>6. PICK parts : parts = <<Ref(<<x>>)>>
  OBVIOUS
<1>7. params.step.value.type = "template" /\ params.step.value.parts = parts
  BY <1>1, <1>6 DEF RefTo, Template
<1>8. Given.value = resolveString(parts, all)
  BY <1>2, <1>4, <1>7 DEF Given, resolveParams
<1>9. PICK path : path = <<x>>
  OBVIOUS
<1>10. Len(parts) = 1 /\ parts[1].type = "ref" /\ parts[1].path = path /\ Len(path) = 1 /\ path[1] = x
  BY <1>6, <1>9 DEF Ref
<1>11. resolveString(parts, all) = Entry(Map(all), x)
  BY <1>10 DEF resolveString, IsRef, getVarValue
<1>12. Entry(Map(all), x) = Entry(Map(params.vars), x)
  BY <1>1, <1>2 DEF Entry, Map
<1>13. Condition.a.type \in {"num", "int"} => Condition.a.n \in Numbers
  BY <1>4, <1>5 DEF Entry, Map, Nil
<1>. QED BY <1>5, <1>8, <1>11, <1>12, <1>13

(* What a call of the step has returned. *)
Met == evaluateCondition(Condition.a, Condition.op, Condition.b)

JudgedRight ==
  kind = "condition_check" /\ ret.done /\ ret.ok =>
    executeAction(IF Met THEN Condition.onTrue ELSE Condition.onFalse).ok

LEMMA OnlyCondition == ASSUME StepInv, kind = "condition_check", Execute PROVE ConditionCheck
<1>1. \A p : ~Inside(p)
  BY DEF StepInv, Called, InCall, Inside, OneTaskKinds
<1>2. \A k, s : At(k, s) => "condition_check" \in k
  BY DEF At
<1>3. ~(SetProxy \/ WaitEffect \/ WaitDownload \/ WaitInstallDownload \/ WaitInstall \/ WaitChangeOs \/ WaitOnline)
  BY <1>1, <1>2 DEF SetProxy, WaitEffect, WaitDownload, WaitInstallDownload, WaitInstall, WaitChangeOs, WaitOnline,
                    Asks, Asked, SeenOnline
<1>4. ~(SendDownload \/ SendDownloadInstall \/ SendChangeOs)
  BY <1>2 DEF SendDownload, SendDownloadInstall, SendChangeOs, SendTask
<1>5. ~(CloudSend \/ CloudSent \/ CloudWait \/ CloudPost \/ NetworkCheck)
  BY <1>1, <1>2 DEF CloudSend, CloudSent, CloudWait, CloudPost, NetworkCheck
<1>6. ~(WriteConfig \/ ProbeShellChannel \/ UnpackAccSys \/ StartAccSys \/ CheckAccSys \/ StartTestFramework \/ WaitConnection)
  BY <1>1, <1>2
  DEF WriteConfig, ProbeShellChannel, UnpackAccSys, StartAccSys, CheckAccSys, StartTestFramework, WaitConnection
<1>7. ~(LoadScript \/ PushRunScript \/ PushRepoScript \/ WaitRunResult \/ WaitRepoResult)
  BY <1>2 DEF LoadScript, PushRunScript, PushRepoScript, PushScript, WaitRunResult, WaitRepoResult, WaitResult
<1>8. ~(SetVariables \/ ExecShell \/ GetRoot \/ SetLocation \/ HttpRequest)
  BY <1>2 DEF SetVariables, ExecShell, GetRoot, SetLocation, HttpRequest
<1>. QED BY <1>3, <1>4, <1>5, <1>6, <1>7, <1>8 DEF Execute

LEMMA SameStep == ASSUME [Next]_vars PROVE UNCHANGED <<kind, mode, params>>
<1>1. CASE Execute
  <2>1. CASE WaitDownload \/ WaitInstallDownload \/ WaitInstall \/ WaitChangeOs \/ WaitOnline
    <3>1. \E r : Returns(r) \/ \E p, ids : Continues(p, ids)
      BY <2>1 DEF WaitDownload, WaitInstallDownload, WaitInstall, WaitChangeOs, WaitOnline, Asks, SeenOnline
    <3>. QED BY <3>1 DEF Returns, Continues, caller
  <2>2. CASE ~(WaitDownload \/ WaitInstallDownload \/ WaitInstall \/ WaitChangeOs \/ WaitOnline)
    <3>1. \E r : Returns(r) \/ \E p, ids : Continues(p, ids)
      BY <1>1, <2>2 DEF Execute, SetProxy, WaitEffect, SendDownload, SendDownloadInstall, SendChangeOs, SendTask,
         CloudSend, CloudSent, CloudWait, CloudPost, WriteConfig,
         ProbeShellChannel, UnpackAccSys, StartAccSys, CheckAccSys, StartTestFramework, WaitConnection, LoadScript,
         PushRunScript, PushRepoScript, PushScript, WaitRunResult, WaitRepoResult, WaitResult, SetVariables, ExecShell,
         GetRoot, SetLocation, HttpRequest, NetworkCheck, ConditionCheck
    <3>. QED BY <3>1 DEF Returns, Continues, caller
  <2>. QED BY <2>1, <2>2
<1>2. CASE ~Execute
  BY <1>2 DEF Next, Store, SingleGivesUp, Pause, Resume, Crash, Tick, Environment, PlatformWorks, ShellReady,
              Connect, Disconnect, DeviceAnswers, vars, caller
<1>. QED BY <1>1, <1>2

LEMMA JudgedKeeps == ASSUME StepInv, JudgedRight, [Next]_vars PROVE JudgedRight'
<1>. SUFFICES ASSUME kind' = "condition_check" PROVE JudgedRight'
  BY DEF JudgedRight
<1>1. UNCHANGED <<kind, mode, params>>
  BY SameStep
<1>2. Condition' = Condition /\ Met' = Met
  BY <1>1 DEF Condition, Given, Met
<1>3. CASE UNCHANGED ret
  BY <1>1, <1>2, <1>3 DEF JudgedRight
<1>4. CASE Execute
  <2>1. PICK r : Returns(r) /\ (r = Fail \/ (r = Success /\ executeAction(IF Met THEN Condition.onTrue ELSE Condition.onFalse).ok))
    BY <1>1, <1>4, OnlyCondition DEF ConditionCheck, Met
  <2>2. ret' = r
    BY <2>1 DEF Returns
  <2>. QED BY <1>2, <2>1, <2>2, ResultTypes DEF JudgedRight
<1>5. CASE SingleGivesUp \/ Crash
  <2>1. ret' = Fail \/ ret' = Go(0, NoCtx)
    BY <1>5 DEF SingleGivesUp, Crash
  <2>2. ~Fail.ok /\ ~Go(0, NoCtx).done
    BY ResultTypes DEF Go
  <2>3. ~ret'.ok \/ ~ret'.done
    BY <2>1, <2>2
  <2>. QED BY <2>3 DEF JudgedRight
<1>6. CASE ~(Execute \/ SingleGivesUp \/ Crash)
  <2>1. UNCHANGED ret
    BY <1>6 DEF Next, Store, Pause, Resume, Tick, Environment, PlatformWorks, ShellReady, Connect, Disconnect,
                DeviceAnswers, vars
  <2>. QED BY <1>3, <2>1
<1>. QED BY <1>4, <1>5, <1>6

LEMMA VerdictAgrees == ASSUME StepInv, JudgedRight PROVE ConditionAgrees
<1>. SUFFICES ASSUME kind = "condition_check", ret.done, ret.ok,
                     Condition.onTrue = "stop_error" <=> Condition.onFalse # "stop_error"
              PROVE  /\ \A x, y \in Numbers : StandsFor(Condition.a, x) /\ StandsFor(Condition.b, y) =>
                          /\ Condition.op = "gt" => (Condition.onFalse = "stop_error" <=> x > y)
                          /\ Condition.op = "lt" => (Condition.onFalse = "stop_error" <=> x < y)
                          /\ Condition.op = "gte" => (Condition.onFalse = "stop_error" <=> x >= y)
                          /\ Condition.op = "lte" => (Condition.onFalse = "stop_error" <=> x <= y)
                          /\ Text(Condition.a) = Numeral[x] /\ Text(Condition.b) = Numeral[y] =>
                               /\ Condition.op = "eq" => (Condition.onFalse = "stop_error" <=> x = y)
                               /\ Condition.op = "ne" => (Condition.onFalse = "stop_error" <=> x # y)
                     /\ mode = "engine" /\ Condition.variable # "deviceId" /\ params.step.value = RefTo(Condition.variable) =>
                          /\ Condition.op = "eq" => (Condition.onFalse = "stop_error" <=> TRUE)
                          /\ Condition.op = "ne" => (Condition.onFalse = "stop_error" <=> FALSE)
                          /\ Condition.op = "gt" => (Condition.onFalse = "stop_error" <=> FALSE)
                          /\ Condition.op = "lt" => (Condition.onFalse = "stop_error" <=> FALSE)
  BY DEF ConditionAgrees, Succeeded
<1>1. PICK met \in BOOLEAN : met <=> Met
  OBVIOUS
<1>2. met <=> Condition.onFalse = "stop_error"
  <2>1. \A act : executeAction(act).ok <=> act # "stop_error"
    BY DEF executeAction
  <2>2. executeAction(IF Met THEN Condition.onTrue ELSE Condition.onFalse).ok
    BY DEF JudgedRight
  <2>3. (IF Met THEN Condition.onTrue ELSE Condition.onFalse) # "stop_error"
    BY <2>1, <2>2
  <2>. QED BY <1>1, <2>3
<1>3. PICK a : a = Condition.a
  OBVIOUS
<1>4. PICK b : b = Condition.b
  OBVIOUS
<1>5. PICK op : op = Condition.op
  OBVIOUS
<1>6. /\ op = "eq" => (met <=> compareEqual(a, b))
      /\ op = "ne" => (met <=> ~compareEqual(a, b))
      /\ op = "gt" => (met <=> compareNumeric(a, b) > 0)
      /\ op = "lt" => (met <=> compareNumeric(a, b) < 0)
      /\ op = "gte" => (met <=> compareNumeric(a, b) >= 0)
      /\ op = "lte" => (met <=> compareNumeric(a, b) <= 0)
  BY <1>1, <1>3, <1>4, <1>5 DEF evaluateCondition, Met
<1>7. ASSUME NEW x \in Numbers, NEW y \in Numbers, StandsFor(a, x), StandsFor(b, y)
      PROVE  /\ op = "gt" => (met <=> x > y)
             /\ op = "lt" => (met <=> x < y)
             /\ op = "gte" => (met <=> x >= y)
             /\ op = "lte" => (met <=> x <= y)
  <2>1. x \in Int /\ y \in Int /\ toFloat64(a) = x /\ toFloat64(b) = y
    BY <1>7, ReadAs, NumberFacts
  <2>. QED BY <1>6, <2>1, NumbersCompare
<1>8. ASSUME NEW x \in Numbers, NEW y \in Numbers, StandsFor(a, x), StandsFor(b, y),
             Text(a) = Numeral[x], Text(b) = Numeral[y]
      PROVE  (op = "eq" => (met <=> x = y)) /\ (op = "ne" => (met <=> x # y))
  BY <1>6, <1>8, NumeralsEqual
<1>9. ASSUME mode = "engine", Condition.variable # "deviceId", params.step.value = RefTo(Condition.variable)
      PROVE  (op = "eq" => met) /\ (op = "ne" => ~met) /\ (op = "gt" => ~met) /\ (op = "lt" => ~met)
  <2>1. b = a /\ (a.type \in {"num", "int"} => a.n \in Numbers)
    BY <1>3, <1>4, <1>9, ItselfResolved
  <2>2. compareEqual(a, b) /\ compareNumeric(a, b) = 0
    BY <2>1, LikeItself
  <2>. QED BY <1>6, <2>2
<1>. QED BY <1>2, <1>3, <1>4, <1>5, <1>7, <1>8, <1>9

(* A condition that lets the flow go on does so on the right side, for any variables, parameters and  *)
(* ways of writing numbers: by the integers the values stand for, and equal for a variable compared   *)
(* with a reference to itself in a flow.                                                              *)
THEOREM ConditionsAgree == Spec => []ConditionAgrees
<1>1. Init => StepInv /\ JudgedRight
  <2>1. ASSUME Init PROVE JudgedRight
    <3>1. ~Go(0, NoCtx).done
      BY DEF Go
    <3>. QED BY <2>1, <3>1 DEF Init, JudgedRight
  <2>. QED BY <2>1, InitHolds
<1>2. (StepInv /\ JudgedRight) /\ [Next]_vars => (StepInv /\ JudgedRight)'
  BY NextKeeps, JudgedKeeps
<1>3. StepInv /\ JudgedRight => ConditionAgrees
  BY VerdictAgrees
<1>. QED BY <1>1, <1>2, <1>3, PTL DEF Spec
==============================================================================
