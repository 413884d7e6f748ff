--------------------------- MODULE PlatformSession ---------------------------
(* The login to the control platform (internal/service/service.go and         *)
(* device_control.go, centControlPlatform) and the requests that need it      *)
(* (internal/service/unified_*.go): each request is a list of steps, and the  *)
(* steps of the requests and of the relogins in the background run together.  *)
(* NewCore always returns the one Core there is, so that jpyCore either       *)
(* points to it or is nil.  A call of the platform's api is one step, but for *)
(* the dial, which has no timeout and may hang for ever.                      *)
EXTENDS Integers, Sequences, FiniteSets

CONSTANTS
  Callers,     \* goroutines that handle requests
  Relogins,    \* bound: goroutines that log in again in the background, at a time
  Logins,      \* pairs <<host, key>> users log in with
  Tried,       \* bound: the lists of steps of the requests made
  MaxRequests, MaxFaults  \* bounds: requests; connections lost, dials and logins refused

SessionAssumption ==
  /\ {MaxRequests, MaxFaults} \subseteq Nat
  /\ Callers \cap Relogins = {} /\ "nobody" \notin Callers \cup Relogins

VARIABLES
  wsUrl,       \* config: the platform's host, "" when not set
  unifiedKey,  \* the key of the last Login request
  jpyCore,     \* whether jpyCore is set
  currentKey, currentHost,
  loginLock,   \* who holds it
  core,        \* the Core: its url and key, and whether it keeps the token of a login
  session,     \* the Core's session: "none", "open", "live" or "dead"; whether its loss is noticed; the host it is
               \* connected to and the key it is logged in with, where they are known
  leaked,      \* live sessions the Core no longer knows, whose loss is noticed
  waking,      \* relogins that sleep their three seconds
  devices,     \* whether the Core has the list of devices
  cached,      \* whether deviceCache has the device
  linked,      \* whether the middleware agent of the device is connected
  job,         \* the steps each caller and each relogin still has to do, and its host and key
  requests, faults

held == <<wsUrl, unifiedKey, jpyCore, currentKey, currentHost, loginLock>>

known == <<devices, cached, linked>>

counts == <<requests, faults>>

vars == <<held, core, session, leaked, waking, known, job, counts>>

Nobody == "nobody"

NoSession == [state |-> "none", noticed |-> FALSE, host |-> "", key |-> ""]

Up(s) == s.state \in {"open", "live"}

(* GetGlobalApi, GetSession *)
HasApi == jpyCore /\ session.state # "none"

NoJob == [todo |-> <<>>, host |-> "", key |-> ""]

At(p, step) == job[p] # NoJob /\ Head(job[p].todo) = step

(* The job with other steps, host and key; nothing of a job that is done is kept. *)
Does(p, steps, host, key) ==
  job' = [job EXCEPT ![p] = IF steps = <<>> THEN NoJob ELSE [todo |-> steps, host |-> host, key |-> key]]

Goes(p, steps) == Does(p, steps, job[p].host, job[p].key)

Rest(p) == Tail(job[p].todo)

Continue(p) == Goes(p, Rest(p))

Instead(p, steps) == Goes(p, steps \o Rest(p))

(* An error returned: the request ends, unless it only failed to find one of the devices it is for. *)
Ends(p) ==
  Goes(p, IF \E i \in DOMAIN job[p].todo : job[p].todo[i] = "chosen" THEN <<"command", "ensure">> ELSE <<>>)

(* A panic that is recovered: the lock held is released. *)
Panics(p) == Goes(p, <<>>)

Unlock(p) == loginLock' = IF loginLock = p THEN Nobody ELSE loginLock

------------------------------------------------------------------------------
(* The requests: the steps in which a handler touches what is shared *)

ByApi == <<"api", "call">>

ByDevice == <<"api", "find", "call">>

Asked == <<"api", "find", "command", "ensure", "send">>

Ordered == <<"find", "command", "ensure", "send">>

(* unified_app.go.  The devices to install on are looked for one by one, and one that is not found is
   left out: with none left the command still goes through SendGenericCommandToDevice, to nobody. *)
handleGetAppList == Asked

handleDownLoadInstallApp == <<"find", "chosen", "command", "ensure", "send">>

handleGetDownloadProgress == Ordered

handleHideApp == ByDevice

handleGetUserFiles == <<"api", "call", "call">>

(* unified_device.go *)
handleGetDeviceList == ByApi

CheckDeviceOnline == ByApi

handleGetDeviceDetail == Asked

handleGetDeviceStatus == Asked

handleExecShell == Ordered

handleStartApp == Ordered

handleGetRoot == Ordered

handleScreenshot == Ordered

(* unified_backup.go *)
handleBackupApp == ByDevice

handleGetBackupAppStatus == ByDevice

handleGetBackupList == ByApi

handleRestoreApp == ByDevice

handleGetRestoreAppStatus == ByDevice

(* unified_changeos.go *)
handleChangePhones == ByApi

handleGetTaskStatus == ByApi

handleChangeOldOsReq == ByDevice

handleGetChangeOsList == ByApi

(* unified_proxy.go *)
handleSetSocket5 == ByDevice

handleGetS5outLine == ByDevice

handleSetLocation == ByDevice

(* unified_file_upload.go: an upload asks whether the file is there, for an address, and enters it. *)
HandleFastUpload == ByApi

HandleFileUpload == <<"api", "call", "call", "call">>

HandleFileDelete == ByApi

Handled ==
  {handleGetAppList, handleDownLoadInstallApp, handleGetDownloadProgress, handleHideApp, handleGetUserFiles,
   handleGetDeviceList, CheckDeviceOnline, handleGetDeviceDetail, handleGetDeviceStatus, handleExecShell,
   handleStartApp, handleGetRoot, handleScreenshot, handleBackupApp, handleGetBackupAppStatus,
   handleGetBackupList, handleRestoreApp, handleGetRestoreAppStatus, handleChangePhones, handleGetTaskStatus,
   handleChangeOldOsReq, handleGetChangeOsList, handleSetSocket5, handleGetS5outLine, handleSetLocation,
   HandleFastUpload, HandleFileUpload, HandleFileDelete}

GetDevices == <<"ensure", "relist">>

ConnectDevice == <<"ensure", "call">>

MiddleExecuteCommand == <<"ensure", "search", "ensure", "send">>

Begin(c, steps, host, key) ==
  /\ job[c] = NoJob /\ requests < MaxRequests
  /\ requests' = requests + 1
  /\ Does(c, steps, host, key)
  /\ UNCHANGED <<core, session, leaked, waking, known, faults>>

HandleUnifiedRequest(c) ==
  /\ \E steps \in Handled \cap Tried : Begin(c, steps, "", "")
  /\ UNCHANGED held

handleLogin(c) ==
  /\ \E l \in Logins : Begin(c, <<"ensure">>, l[1], l[2]) /\ unifiedKey' = l[2]
  /\ UNCHANGED <<wsUrl, jpyCore, currentKey, currentHost, loginLock>>

(* GetDevices and ConnectDevice go on with jpyCore as they find it; /api/middle/execute takes the
   current key when the request has none. *)
HandleHTTP(c) ==
  /\ \/ \E l \in Logins : \E steps \in {GetDevices, ConnectDevice, MiddleExecuteCommand} \cap Tried :
          Begin(c, steps, "", l[2])
     \/ currentKey # "" /\ MiddleExecuteCommand \in Tried /\ Begin(c, MiddleExecuteCommand, "", currentKey)
  /\ UNCHANGED held

(* The address is set before the lock is taken. *)
UpdateConfig(c) ==
  /\ \E l \in Logins : /\ l[1] # wsUrl /\ wsUrl' = l[1]
                       /\ Begin(c, <<"drop">>, "", "")
  /\ UNCHANGED <<unifiedKey, jpyCore, currentKey, currentHost, loginLock>>

------------------------------------------------------------------------------
(* The Core *)

(* Core.Reset, which also drops the token: the session is closed, which its callback may take for a loss. *)
Reset ==
  /\ session' = NoSession /\ devices' = FALSE
  /\ waking' \in IF Up(session) /\ session.noticed THEN {waking, waking + 1} ELSE {waking}

KeepCore == UNCHANGED <<session, devices, waking>>

(* Only a Reset drops the token, and only the Core that jpyCore points to is reset. *)
TokenKept == core' = [core EXCEPT !.token = @ /\ ~jpyCore]

(* The connection is there, however long it took: whoever dialled read the address before.  A relogin may
   have read one that is no longer the Core's. *)
Dial(p) ==
  /\ At(p, "dial")
  /\ Continue(p)
  /\ LET host == IF p \in Relogins THEN "" ELSE job[p].host
     IN session' = [state |-> "open", noticed |-> FALSE, host |-> host, key |-> ""]
  /\ leaked' = IF Up(session) /\ session.noticed THEN leaked + 1 ELSE leaked
  /\ UNCHANGED <<held, core, waking, known, counts>>

(* A dial that fails is tried again in the background, whatever the caller does. *)
DialFails(p) ==
  /\ At(p, "dial") /\ faults < MaxFaults
  /\ faults' = faults + 1 /\ waking' = waking + 1
  /\ Ends(p) /\ Unlock(p)
  /\ jpyCore' = (jpyCore /\ p \in Relogins)
  /\ UNCHANGED <<wsUrl, unifiedKey, currentKey, currentHost, core, session, leaked, known, requests>>

(* The login goes out on the session the Core has by now: with none the goroutine panics. *)
LoginWithoutSession(p) ==
  /\ At(p, "login") /\ session.state = "none"
  /\ Panics(p) /\ Unlock(p)
  /\ UNCHANGED <<wsUrl, unifiedKey, jpyCore, currentKey, currentHost, core, session, leaked, waking, known, counts>>

LoginRefused(p) ==
  /\ At(p, "login")
  /\ \/ session.state = "dead" /\ UNCHANGED faults
     \/ Up(session) /\ faults < MaxFaults /\ faults' = faults + 1
  /\ Ends(p) /\ Unlock(p)
  /\ jpyCore' = (jpyCore /\ p \in Relogins)
  /\ UNCHANGED <<wsUrl, unifiedKey, currentKey, currentHost, core, session, leaked, waking, known, requests>>

(* With the token the Core keeps, whose user may be another's than the key's; or, when there is none or it
   is refused, with the key. *)
Login(p) ==
  /\ At(p, "login") /\ Up(session)
  /\ \E key \in IF core.token THEN {"", core.apiKey} ELSE {core.apiKey} :
       session' = [session EXCEPT !.state = "live", !.noticed = TRUE, !.key = key]
  /\ core' = [core EXCEPT !.token = TRUE]
  /\ Continue(p)
  /\ IF p \in Relogins THEN UNCHANGED <<currentKey, currentHost>>
     ELSE currentKey' = job[p].key /\ currentHost' = job[p].host
  /\ UNCHANGED <<wsUrl, unifiedKey, jpyCore, loginLock, leaked, waking, known, counts>>

(* CenterGetDeviceList also connects the middleware agents, if they can be. *)
CenterGetDeviceList ==
  IF session.state = "live" THEN devices' = TRUE /\ linked' \in {linked, TRUE} ELSE UNCHANGED <<devices, linked>>

ListDevices(p) ==
  /\ At(p, "list")
  /\ CenterGetDeviceList
  /\ Continue(p) /\ Unlock(p)
  /\ UNCHANGED <<wsUrl, unifiedKey, jpyCore, currentKey, currentHost, core, session, leaked, waking, cached, counts>>

(* RegExpiryCallback: the session is lost, and three seconds later somebody logs in. *)
Expire ==
  /\ Up(session) /\ faults < MaxFaults
  /\ faults' = faults + 1
  /\ session' = [session EXCEPT !.state = "dead", !.noticed = FALSE]
  /\ waking' = IF session.noticed THEN waking + 1 ELSE waking
  /\ UNCHANGED <<held, core, leaked, known, job, requests>>

ExpireLeaked ==
  /\ leaked > 0 /\ faults < MaxFaults
  /\ faults' = faults + 1 /\ leaked' = leaked - 1 /\ waking' = waking + 1
  /\ UNCHANGED <<held, core, session, known, job, requests>>

(* The three seconds are over: the address is read and the dial begins. *)
Wake(r) ==
  /\ waking > 0 /\ job[r] = NoJob
  /\ waking' = waking - 1
  /\ Does(r, <<"dial", "login">>, "", "")
  /\ UNCHANGED <<held, core, session, leaked, known, counts>>

LinkDrops ==
  /\ linked /\ faults < MaxFaults
  /\ faults' = faults + 1 /\ linked' = FALSE
  /\ UNCHANGED <<held, core, session, leaked, waking, devices, cached, job, requests>>

------------------------------------------------------------------------------
(* EnsureLogin *)

HostChanged(c) == job[c].host # "" /\ (job[c].host # wsUrl \/ job[c].host # currentHost)

LoggedIn(c) == job[c].key = currentKey /\ currentHost # "" /\ HasApi

EnsureRefuses(c) ==
  /\ At(c, "ensure") /\ loginLock = Nobody
  /\ job[c].key = ""
  /\ Ends(c)
  /\ UNCHANGED <<held, core, session, leaked, waking, known, counts>>

EnsureReturns(c) ==
  /\ At(c, "ensure") /\ loginLock = Nobody
  /\ job[c].key # "" /\ ~HostChanged(c) /\ LoggedIn(c)
  /\ Continue(c)
  /\ UNCHANGED <<held, core, session, leaked, waking, known, counts>>

(* The old login is taken down, and unless no host is known the Core gets the new one. *)
EnsureLogin(c) ==
  /\ At(c, "ensure") /\ loginLock = Nobody
  /\ job[c].key # "" /\ (HostChanged(c) \/ ~LoggedIn(c))
  /\ IF jpyCore THEN Reset ELSE KeepCore
  /\ linked' = (linked /\ ~jpyCore /\ ~HostChanged(c))
  /\ LET url == IF HostChanged(c) THEN job[c].host ELSE wsUrl
     IN /\ wsUrl' = url
        /\ IF HostChanged(c) THEN currentKey' = "" /\ currentHost' = "" ELSE UNCHANGED <<currentKey, currentHost>>
        /\ jpyCore' = (url # "")
        /\ IF url = ""
           THEN Ends(c) /\ TokenKept /\ UNCHANGED loginLock
           ELSE /\ core' = [url |-> url, apiKey |-> job[c].key, token |-> core.token /\ ~jpyCore]
                /\ loginLock' = c
                /\ Does(c, <<"dial", "login", "list">> \o Rest(c), url, job[c].key)
  /\ UNCHANGED <<unifiedKey, leaked, cached, counts>>

ClearLogin(c) ==
  /\ loginLock = Nobody
  /\ currentKey' = "" /\ currentHost' = "" /\ jpyCore' = FALSE
  /\ Does(c, Rest(c), "", job[c].key)
  /\ UNCHANGED <<wsUrl, unifiedKey, loginLock, core, session, leaked, waking, known, counts>>

ResetCore(c) ==
  /\ IF jpyCore THEN Reset ELSE KeepCore
  /\ TokenKept
  /\ linked' = FALSE
  /\ UNCHANGED <<held, leaked, cached, counts>>

(* Mutant: the login is cleared first, the Core reset after. *)
forceReloginClearsFirst(c) ==
  \/ At(c, "reset") /\ ClearLogin(c)
  \/ At(c, "clear") /\ ResetCore(c) /\ Continue(c)

(* Mutant: the lock is kept for the login that follows. *)
forceReloginLocked(c) ==
  \/ At(c, "reset") /\ ResetCore(c) /\ Continue(c)
  \/ /\ At(c, "clear") /\ loginLock = Nobody
     /\ currentKey' = "" /\ currentHost' = "" /\ jpyCore' = FALSE /\ loginLock' = c
     /\ Does(c, Rest(c), "", job[c].key)
     /\ UNCHANGED <<wsUrl, unifiedKey, core, session, leaked, waking, known, counts>>

(* The Core is reset with no lock; the lock is taken to clear, released, and taken again to log in. *)
forceRelogin(c) ==
  \/ At(c, "reset") /\ ResetCore(c) /\ Continue(c)
  \/ At(c, "clear") /\ ClearLogin(c)

DropCore(c) ==
  /\ At(c, "drop") /\ loginLock = Nobody
  /\ jpyCore' = FALSE /\ currentKey' = IF jpyCore THEN "" ELSE currentKey
  /\ Continue(c)
  /\ UNCHANGED <<wsUrl, unifiedKey, currentHost, loginLock, core, session, leaked, waking, known, counts>>

------------------------------------------------------------------------------
(* What requests do with the login: no lock is held, and what was there may be gone *)

WithKey(c, steps) == Does(c, steps \o Rest(c), "", unifiedKey)

ensureGlobalApi(c) ==
  /\ At(c, "api")
  /\ IF HasApi THEN Continue(c)
     ELSE IF unifiedKey = "" THEN Ends(c)
     ELSE WithKey(c, <<"ensure">>)
  /\ UNCHANGED <<held, core, session, leaked, waking, known, counts>>

findDeviceInfoWithCache(c) ==
  /\ At(c, "find")
  /\ IF cached \/ (jpyCore /\ devices)
     THEN Continue(c) /\ cached' = TRUE
     ELSE Instead(c, <<"api", "lookup">>) /\ UNCHANGED cached
  /\ UNCHANGED <<held, core, session, leaked, waking, devices, linked, counts>>

(* GetUserDeviceList: the device is found, or is not among them, or the call fails. *)
LookUp(c) ==
  /\ At(c, "lookup")
  /\ \/ HasApi /\ session.state = "live" /\ Continue(c) /\ cached' = TRUE
     \/ Ends(c) /\ UNCHANGED cached
  /\ UNCHANGED <<held, core, session, leaked, waking, devices, linked, counts>>

(* One more call of the api; without it the goroutine panics or an error is returned. *)
CallApi(c) ==
  /\ At(c, "call")
  /\ IF HasApi /\ session.state = "live" THEN Continue(c) ELSE Panics(c)
  /\ UNCHANGED <<held, core, session, leaked, waking, known, counts>>

(* The devices that were found. *)
Chosen(c) ==
  /\ At(c, "chosen")
  /\ Continue(c)
  /\ UNCHANGED <<held, core, session, leaked, waking, known, counts>>

ReloginThen(c, steps) == Instead(c, <<"reset", "clear", "ensure">> \o steps)

(* findDeviceInfo: a call that fails for the session's sake is made again after a login. *)
findDeviceInfo(c) ==
  /\ At(c, "search")
  /\ \/ HasApi /\ session.state = "live" /\ Continue(c)
     \/ HasApi /\ session.state # "live" /\ ReloginThen(c, <<"lookup">>)
     \/ Ends(c)
  /\ UNCHANGED <<held, core, session, leaked, waking, known, counts>>

TakeKey(c) ==
  /\ At(c, "command")
  /\ WithKey(c, <<>>)
  /\ UNCHANGED <<held, core, session, leaked, waking, known, counts>>

(* SendGenericCommandToDevice: with its agent connected the command is sent; otherwise the devices are
   listed, and with no agent still one is asked for. *)
SendGenericCommandToDevice(c) ==
  /\ At(c, "send")
  /\ IF ~jpyCore THEN Ends(c) /\ UNCHANGED <<devices, linked>>
     ELSE IF linked THEN Continue(c) /\ UNCHANGED <<devices, linked>>
     ELSE /\ CenterGetDeviceList
          /\ IF linked' THEN Continue(c) ELSE Instead(c, <<"create">>)
  /\ UNCHANGED <<held, core, session, leaked, waking, cached, counts>>

(* CreatMiddlewareRtc: an agent, connected or not; an error for want of a session, which is answered by
   a new login the first time; another error. *)
Created(c) == session.state = "live" /\ Continue(c) /\ linked' \in BOOLEAN

CreatMiddlewareRtc(c) ==
  /\ At(c, "create")
  /\ \/ Created(c)
     \/ session.state \in {"open", "dead"} /\ ReloginThen(c, <<"relist", "recreate">>) /\ UNCHANGED linked
     \/ Ends(c) /\ UNCHANGED linked
  /\ UNCHANGED <<held, core, session, leaked, waking, devices, cached, counts>>

ListAgain(c) ==
  /\ At(c, "relist")
  /\ IF jpyCore /\ session.state = "live"
     THEN Continue(c) /\ CenterGetDeviceList ELSE Ends(c) /\ UNCHANGED <<devices, linked>>
  /\ UNCHANGED <<held, core, session, leaked, waking, cached, counts>>

CreateAgain(c) ==
  /\ At(c, "recreate")
  /\ \/ Created(c)
     \/ Ends(c) /\ UNCHANGED linked
  /\ UNCHANGED <<held, core, session, leaked, waking, devices, cached, counts>>

------------------------------------------------------------------------------
Init ==
  /\ wsUrl = "" /\ unifiedKey = "" /\ jpyCore = FALSE /\ currentKey = "" /\ currentHost = ""
  /\ loginLock = Nobody /\ core = [url |-> "", apiKey |-> "", token |-> FALSE] /\ session = NoSession
  /\ leaked = 0 /\ waking = 0 /\ devices = FALSE /\ cached = FALSE /\ linked = FALSE
  /\ job = [p \in Callers \cup Relogins |-> NoJob]
  /\ requests = 0 /\ faults = 0

Request(c) == HandleUnifiedRequest(c) \/ handleLogin(c) \/ HandleHTTP(c) \/ UpdateConfig(c)

LoginStep(p) ==
  Dial(p) \/ DialFails(p) \/ LoginWithoutSession(p) \/ LoginRefused(p) \/ Login(p) \/ ListDevices(p)

Ensures(c) == EnsureRefuses(c) \/ EnsureReturns(c) \/ EnsureLogin(c) \/ forceRelogin(c) \/ DropCore(c)

Serves(c) ==
  \/ ensureGlobalApi(c) \/ findDeviceInfoWithCache(c) \/ LookUp(c) \/ Chosen(c) \/ CallApi(c) \/ findDeviceInfo(c)
  \/ TakeKey(c) \/ SendGenericCommandToDevice(c) \/ CreatMiddlewareRtc(c) \/ ListAgain(c) \/ CreateAgain(c)

Works(c) == LoginStep(c) \/ Ensures(c) \/ Serves(c)

Next ==
  \/ \E c \in Callers : Request(c) \/ Works(c)
  \/ \E r \in Relogins : LoginStep(r) \/ Wake(r)
  \/ Expire \/ ExpireLeaked \/ LinkDrops

Spec == Init /\ [][Next]_vars

(* A goroutine runs on, every call of the api returns (each has a timeout), and the login lock does not
   starve a waiter.  A dial may hang. *)
RunsOn(c) == ~At(c, "dial") /\ Works(c)

FairSpec == Spec /\ \A c \in Callers : WF_vars(RunsOn(c))

------------------------------------------------------------------------------
TypeOK ==
  /\ loginLock \in Callers \cup {Nobody} /\ session.state \in {"none", "open", "live", "dead"}
  /\ {jpyCore, devices, cached, linked} \subseteq BOOLEAN
  /\ leaked \in Nat /\ waking \in Nat

(* Whenever the lock is free, a login that is held is whole, unless a relogin is about to clear it: the
   current key and host are known and are the Core's, the Core has a session, and the session is connected to
   that host and logged in with that key - where a relogin in the background did not dial it and no token was
   kept from an earlier login, for then it may be connected to the old host, or logged in as another user. *)
SessionHeld ==
  (loginLock = Nobody /\ jpyCore /\ \A c \in Callers : ~At(c, "clear"))
    => /\ currentKey # "" /\ currentKey = core.apiKey /\ currentHost = core.url
       /\ session.state # "none" /\ session.host \in {"", currentHost} /\ session.key \in {"", currentKey}

(* Unless a dial hangs for ever, every request comes to its end. *)
RequestEnds ==
  (\A c \in Callers : []<>~At(c, "dial")) => (\A c \in Callers : []<>(job[c] = NoJob))
==============================================================================
