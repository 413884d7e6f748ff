------------------------ MODULE PlatformSessionProofs ------------------------
(* A login that is held is whole (PlatformSession), for any callers, logins   *)
(* and bounds.  SessionHeld speaks of moments when the lock of the login is    *)
(* free; what makes it hold is what is true while somebody has the lock: which *)
(* steps of the login are left, and what the steps done have left behind.  And *)
(* whoever resets the Core with no lock goes on to clear the login.            *)
EXTENDS PlatformSession, SequenceTheorems, TLAPS

LoginSteps == {"dial", "login", "list"}

OtherSteps ==
  {"api", "call", "chosen", "clear", "command", "create", "drop", "ensure", "find", "lookup", "recreate", "relist",
   "search", "send"}

Steps == LoginSteps \cup OtherSteps \cup {"reset"}

(* Lists of steps of a request: no step of a login, and a reset is followed by the clearing. *)
Plain(s) == \A i \in 1..Len(s) : s[i] \notin LoginSteps

Clears(s) == \A i \in 1..Len(s) : s[i] = "reset" => i < Len(s) /\ s[i + 1] = "clear"

Ready == {s \in Seq(Steps) : Plain(s) /\ Clears(s)}

DialNext(s) == \E r \in Ready : s = <<"dial", "login", "list">> \o r

LoginNext(s) == \E r \in Ready : s = <<"login", "list">> \o r

ListNext(s) == \E r \in Ready : s = <<"list">> \o r

IsSession(s) ==
  /\ s = [state |-> s.state, noticed |-> s.noticed, host |-> s.host, key |-> s.key]
  /\ s.state \in {"none", "open", "live", "dead"}

SessionTypes ==
  /\ IsSession(session) /\ core = [url |-> core.url, apiKey |-> core.apiKey, token |-> core.token]
  /\ jpyCore \in BOOLEAN /\ loginLock \in Callers \cup {Nobody}
  /\ job = [p \in Callers \cup Relogins |-> job[p]]
  /\ \A c \in Callers : job[c].todo = <<>> => job[c] = NoJob

NobodyClears == \A c \in Callers : ~At(c, "clear")

(* What is known of the session is of the host and the key of the Core. *)
Own == session.host \in {"", core.url} /\ session.key \in {"", core.apiKey}

(* What is left to do, and has been done, of the login under way. *)
ForTheCore(j) == j.key # "" /\ j.key = core.apiKey /\ j.host = core.url

HeldForTheCore == currentKey # "" /\ currentKey = core.apiKey /\ currentHost = core.url

Connected == Own /\ (NobodyClears => session.state # "none")

Progress(c) ==
  IF c = loginLock
  THEN \/ DialNext(job[c].todo) /\ ForTheCore(job[c])
       \/ LoginNext(job[c].todo) /\ ForTheCore(job[c]) /\ Connected
       \/ ListNext(job[c].todo) /\ HeldForTheCore /\ Connected
  ELSE job[c].todo \in Ready

LockHolder == \A c \in Callers : Progress(c)

SessionInv == SessionTypes /\ LockHolder /\ SessionHeld

------------------------------------------------------------------------------
(* Lists *)

LEMMA ReadyTail == ASSUME NEW s \in Ready, s # <<>> PROVE Tail(s) \in Ready
<1>1. s \in Seq(Steps) /\ Plain(s) /\ Clears(s) /\ Len(s) > 0
  BY DEF Ready
<1>2. /\ Tail(s) \in Seq(Steps) /\ Len(Tail(s)) = Len(s) - 1
      /\ \A i \in 1..Len(Tail(s)) : Tail(s)[i] = s[i + 1]
  BY <1>1
<1>3. Plain(Tail(s))
  BY <1>1, <1>2 DEF Plain
<1>4. Clears(Tail(s))
  BY <1>1, <1>2 DEF Clears
<1>. QED BY <1>2, <1>3, <1>4 DEF Ready

LEMMA ReadyConcat == ASSUME NEW s \in Ready, NEW t \in Ready PROVE s \o t \in Ready
<1>1. /\ s \in Seq(Steps) /\ Plain(s) /\ Clears(s) /\ t \in Seq(Steps) /\ Plain(t) /\ Clears(t)
      /\ Len(s) \in Nat /\ Len(t) \in Nat
  BY DEF Ready
<1>2. /\ s \o t \in Seq(Steps) /\ Len(s \o t) = Len(s) + Len(t)
      /\ \A i \in 1..Len(s) : (s \o t)[i] = s[i]
      /\ \A i \in 1..Len(t) : (s \o t)[i + Len(s)] = t[i]
  BY <1>1
<1>3. ASSUME NEW i \in 1..Len(s \o t)
      PROVE  (i \in 1..Len(s)) \/ (i - Len(s) \in 1..Len(t) /\ (s \o t)[i] = t[i - Len(s)])
  BY <1>1, <1>2
<1>4. Plain(s \o t)
  BY <1>1, <1>2, <1>3 DEF Plain
<1>5. Clears(s \o t)
  <2>1. ASSUME NEW i \in 1..Len(s \o t), (s \o t)[i] = "reset"
        PROVE  i < Len(s \o t) /\ (s \o t)[i + 1] = "clear"
    <3>1. CASE i \in 1..Len(s)
      <4>1. i < Len(s) /\ s[i + 1] = "clear"
        BY <1>1, <1>2, <2>1, <3>1 DEF Clears
      <4>2. i + 1 \in 1..Len(s)
        BY <1>1, <3>1, <4>1
      <4>. QED BY <1>1, <1>2, <4>1, <4>2
    <3>2. CASE i - Len(s) \in 1..Len(t) /\ (s \o t)[i] = t[i - Len(s)]
      <4>1. PICK j \in 1..Len(t) : j = i - Len(s)
        BY <3>2
      <4>2. j < Len(t) /\ t[j + 1] = "clear"
        BY <1>1, <2>1, <3>2, <4>1 DEF Clears
      <4>3. j + 1 \in 1..Len(t) /\ (j + 1) + Len(s) = i + 1
        BY <1>1, <4>1, <4>2
      <4>4. (s \o t)[(j + 1) + Len(s)] = t[j + 1]
        BY <1>2, <4>3
      <4>. QED BY <1>1, <1>2, <4>1, <4>2, <4>3, <4>4
    <3>. QED BY <1>3, <3>1, <3>2
  <2>. QED BY <2>1 DEF Clears
<1>. QED BY <1>2, <1>4, <1>5 DEF Ready

(* The lists that are written out. *)
LEMMA ShortReady ==
  /\ <<>> \in Ready
  /\ \A a \in OtherSteps : <<a>> \in Ready
  /\ \A a, b \in OtherSteps : <<a, b>> \in Ready
  /\ \A a, b, c \in OtherSteps : <<a, b, c>> \in Ready
  /\ \A a, b, c, d \in OtherSteps : <<a, b, c, d>> \in Ready
  /\ \A a, b, c, d, e \in OtherSteps : <<a, b, c, d, e>> \in Ready
  /\ \A a, b, c \in Steps : a = "reset" /\ b = "clear" /\ c \in OtherSteps => <<a, b, c>> \in Ready
<1>. USE DEF Ready, Plain, Clears, Steps, OtherSteps, LoginSteps
<1>1. <<>> \in Ready
  OBVIOUS
<1>2. \A a \in OtherSteps : <<a>> \in Ready
  OBVIOUS
<1>3. \A a, b \in OtherSteps : <<a, b>> \in Ready
  OBVIOUS
<1>4. \A a, b, c \in OtherSteps : <<a, b, c>> \in Ready
  OBVIOUS
<1>5. \A a, b, c, d \in OtherSteps : <<a, b, c, d>> \in Ready
  OBVIOUS
<1>6. \A a, b, c, d, e \in OtherSteps : <<a, b, c, d, e>> \in Ready
  OBVIOUS
<1>7. \A a, b, c \in Steps : a = "reset" /\ b = "clear" /\ c \in OtherSteps => <<a, b, c>> \in Ready
  OBVIOUS
<1>. QED BY <1>1, <1>2, <1>3, <1>4, <1>5, <1>6, <1>7

LEMMA ListsReady ==
  /\ <<"ensure">> \in Ready /\ <<"drop">> \in Ready /\ <<"lookup">> \in Ready /\ <<"create">> \in Ready
  /\ <<"api", "lookup">> \in Ready /\ <<"relist", "recreate">> \in Ready
  /\ <<"command", "ensure">> \in Ready /\ <<"reset", "clear", "ensure">> \in Ready
  /\ GetDevices \in Ready /\ ConnectDevice \in Ready /\ MiddleExecuteCommand \in Ready
<1>1. {"ensure", "drop", "lookup", "create", "api", "relist", "recreate", "command"} \subseteq OtherSteps
  BY DEF OtherSteps
<1>2. "ensure" \in OtherSteps /\ "drop" \in OtherSteps /\ "lookup" \in OtherSteps /\ "create" \in OtherSteps
  BY <1>1
<1>3. <<"ensure">> \in Ready /\ <<"drop">> \in Ready /\ <<"lookup">> \in Ready /\ <<"create">> \in Ready
  BY <1>2, ShortReady
<1>4. <<"api", "lookup">> \in Ready
  BY <1>1, ShortReady
<1>5. <<"relist", "recreate">> \in Ready
  BY <1>1, ShortReady
<1>6. <<"command", "ensure">> \in Ready
  BY <1>1, ShortReady
<1>7. <<"reset", "clear", "ensure">> \in Ready
  <2>1. "reset" \in Steps /\ "clear" \in Steps /\ "ensure" \in Steps /\ "ensure" \in OtherSteps
    BY DEF Steps, OtherSteps
  <2>. QED BY <2>1, ShortReady
<1>8. GetDevices \in Ready /\ ConnectDevice \in Ready
  <2>1. "ensure" \in OtherSteps /\ "call" \in OtherSteps /\ "relist" \in OtherSteps
    BY DEF OtherSteps
  <2>. QED BY <2>1, ShortReady DEF GetDevices, ConnectDevice
<1>9. MiddleExecuteCommand \in Ready
  <2>1. "ensure" \in OtherSteps /\ "search" \in OtherSteps /\ "send" \in OtherSteps
    BY DEF OtherSteps
  <2>. QED BY <2>1, ShortReady DEF MiddleExecuteCommand
<1>. QED BY <1>3, <1>4, <1>5, <1>6, <1>7, <1>8, <1>9

LEMMA HandledReady == Handled \subseteq Ready
<1>1. /\ "api" \in OtherSteps /\ "call" \in OtherSteps /\ "find" \in OtherSteps /\ "command" \in OtherSteps
      /\ "ensure" \in OtherSteps /\ "send" \in OtherSteps /\ "chosen" \in OtherSteps
  BY DEF OtherSteps
<1>2. ByApi \in Ready
  BY <1>1, ShortReady DEF ByApi
<1>3. ByDevice \in Ready
  BY <1>1, ShortReady DEF ByDevice
<1>4. Asked \in Ready
  BY <1>1, ShortReady DEF Asked
<1>5. Ordered \in Ready
  BY <1>1, ShortReady DEF Ordered
<1>6. handleDownLoadInstallApp \in Ready
  BY <1>1, ShortReady DEF handleDownLoadInstallApp
<1>7. handleGetUserFiles \in Ready
  BY <1>1, ShortReady DEF handleGetUserFiles
<1>8. HandleFileUpload \in Ready
  BY <1>1, ShortReady DEF HandleFileUpload
<1>9. Handled = {ByApi, ByDevice, Asked, Ordered, handleDownLoadInstallApp, handleGetUserFiles, HandleFileUpload}
  BY DEF Handled, handleGetAppList, handleGetDownloadProgress, handleHideApp, handleGetDeviceList,
     CheckDeviceOnline, handleGetDeviceDetail, handleGetDeviceStatus, handleExecShell, handleStartApp, handleGetRoot,
     handleScreenshot, handleBackupApp, handleGetBackupAppStatus, handleGetBackupList, handleRestoreApp,
     handleGetRestoreAppStatus, handleChangePhones, handleGetTaskStatus, handleChangeOldOsReq, handleGetChangeOsList,
     handleSetSocket5, handleGetS5outLine, handleSetLocation, HandleFastUpload, HandleFileDelete
<1>. QED BY <1>2, <1>3, <1>4, <1>5, <1>6, <1>7, <1>8, <1>9

(* The steps of a login, one after the other. *)
LEMMA NothingLeft == NoJob.todo = <<>>
  BY DEF NoJob

LEMMA HeadTail ==
  ASSUME NEW a, NEW t \in Seq(Steps), a \in Steps
  PROVE  Head(<<a>> \o t) = a /\ Tail(<<a>> \o t) = t /\ <<a>> \o t # <<>>
  OBVIOUS

LEMMA JoinTwo == ASSUME NEW a \in Steps, NEW b \in Steps PROVE <<a>> \o <<b>> = <<a, b>>
<1>1. <<a>> \in Seq(Steps) /\ <<b>> \in Seq(Steps) /\ <<a, b>> \in Seq(Steps)
  OBVIOUS
<1>2. /\ <<a>> \o <<b>> \in Seq(Steps) /\ Len(<<a>> \o <<b>>) = 2
      /\ (<<a>> \o <<b>>)[1] = a /\ (<<a>> \o <<b>>)[2] = b
  BY <1>1, ConcatProperties
<1>3. PICK s \in Seq(Steps) : s = <<a>> \o <<b>> /\ Len(s) = 2 /\ s[1] = a /\ s[2] = b
  BY <1>2
<1>4. PICK t \in Seq(Steps) : t = <<a, b>> /\ Len(t) = 2 /\ t[1] = a /\ t[2] = b
  BY <1>1
<1>5. \A i \in 1..Len(s) : s[i] = t[i]
  <2>1. \A i \in 1..2 : i = 1 \/ i = 2
    OBVIOUS
  <2>. QED BY <1>3, <1>4, <2>1
<1>6. s = t
  BY <1>3, <1>4, <1>5, SeqEqual
<1>. QED BY <1>3, <1>4, <1>6

LEMMA JoinThree == ASSUME NEW a \in Steps, NEW b \in Steps, NEW c \in Steps PROVE <<a>> \o <<b, c>> = <<a, b, c>>
<1>1. <<a>> \in Seq(Steps) /\ <<b, c>> \in Seq(Steps) /\ <<a, b, c>> \in Seq(Steps)
  OBVIOUS
<1>2. /\ <<a>> \o <<b, c>> \in Seq(Steps) /\ Len(<<a>> \o <<b, c>>) = 3
      /\ (<<a>> \o <<b, c>>)[1] = a /\ (<<a>> \o <<b, c>>)[2] = b /\ (<<a>> \o <<b, c>>)[3] = c
  BY <1>1, ConcatProperties
<1>3. PICK s \in Seq(Steps) : s = <<a>> \o <<b, c>> /\ Len(s) = 3 /\ s[1] = a /\ s[2] = b /\ s[3] = c
  BY <1>2
<1>4. PICK t \in Seq(Steps) : t = <<a, b, c>> /\ Len(t) = 3 /\ t[1] = a /\ t[2] = b /\ t[3] = c
  BY <1>1
<1>5. \A i \in 1..Len(s) : s[i] = t[i]
  BY <1>3, <1>4
<1>6. s = t
  BY <1>3, <1>4, <1>5, SeqEqual
<1>. QED BY <1>3, <1>4, <1>6

LEMMA DialThenLogin ==
  ASSUME NEW s, DialNext(s)
  PROVE  s # <<>> /\ Head(s) = "dial" /\ LoginNext(Tail(s))
<1>1. PICK r \in Ready : s = <<"dial", "login", "list">> \o r
  BY DEF DialNext
<1>2. "dial" \in Steps /\ "login" \in Steps /\ "list" \in Steps /\ r \in Seq(Steps)
  BY DEF Steps, LoginSteps, Ready
<1>a. <<"dial">> \in Seq(Steps) /\ <<"login", "list">> \in Seq(Steps)
  BY <1>2
<1>b. <<"dial">> \o <<"login", "list">> = <<"dial", "login", "list">>
  BY <1>2, JoinThree
<1>3. PICK t \in Seq(Steps) : t = <<"login", "list">> \o r
  BY <1>2, <1>a, ConcatProperties
<1>4. s = <<"dial">> \o t
  BY <1>1, <1>2, <1>3, <1>a, <1>b, ConcatAssociative
<1>. QED BY <1>2, <1>3, <1>4, HeadTail DEF LoginNext

LEMMA LoginThenList ==
  ASSUME NEW s, LoginNext(s)
  PROVE  s # <<>> /\ Head(s) = "login" /\ ListNext(Tail(s))
<1>1. PICK r \in Ready : s = <<"login", "list">> \o r
  BY DEF LoginNext
<1>2. "login" \in Steps /\ "list" \in Steps /\ r \in Seq(Steps)
  BY DEF Steps, LoginSteps, Ready
<1>a. <<"login">> \in Seq(Steps) /\ <<"list">> \in Seq(Steps)
  BY <1>2
<1>b. <<"login">> \o <<"list">> = <<"login", "list">>
  BY <1>2, JoinTwo
<1>3. PICK t \in Seq(Steps) : t = <<"list">> \o r
  BY <1>2, <1>a, ConcatProperties
<1>4. s = <<"login">> \o t
  BY <1>1, <1>2, <1>3, <1>a, <1>b, ConcatAssociative
<1>. QED BY <1>2, <1>3, <1>4, HeadTail DEF ListNext

LEMMA ListThenRest ==
  ASSUME NEW s, ListNext(s)
  PROVE  s # <<>> /\ Head(s) = "list" /\ Tail(s) \in Ready
<1>1. PICK r \in Ready : s = <<"list">> \o r
  BY DEF ListNext
<1>2. "list" \in Steps /\ r \in Seq(Steps)
  BY DEF Steps, LoginSteps, Ready
<1>. QED BY <1>1, <1>2, HeadTail

LEMMA ReadyHead ==
  ASSUME NEW s \in Ready, s # <<>>
  PROVE  /\ Head(s) \notin LoginSteps
         /\ Head(s) = "reset" => Tail(s) # <<>> /\ Head(Tail(s)) = "clear"
<1>1. s \in Seq(Steps) /\ Plain(s) /\ Clears(s) /\ Len(s) > 0 /\ Head(s) = s[1] /\ 1 \in 1..Len(s)
  BY DEF Ready
<1>2. Head(s) \notin LoginSteps
  BY <1>1 DEF Plain
<1>3. ASSUME Head(s) = "reset" PROVE Tail(s) # <<>> /\ Head(Tail(s)) = "clear"
  <2>1. 1 < Len(s) /\ s[2] = "clear"
    BY <1>1, <1>3 DEF Clears
  <2>2. /\ Tail(s) \in Seq(Steps) /\ Len(Tail(s)) = Len(s) - 1
        /\ \A i \in 1..Len(Tail(s)) : Tail(s)[i] = s[i + 1]
    BY <1>1
  <2>3. Len(Tail(s)) # 0 /\ Tail(s)[1] = s[2]
    BY <1>1, <2>1, <2>2
  <2>4. Tail(s) # <<>>
    <3>1. Len(<<>>) = 0
      BY EmptySeq, Zenon
    <3>. QED BY <2>3, <3>1, Zenon
  <2>5. Head(Tail(s)) = Tail(s)[1]
    BY <2>2, <2>4
  <2>. QED BY <2>1, <2>3, <2>4, <2>5
<1>. QED BY <1>2, <1>3

------------------------------------------------------------------------------
(* Who is at which step *)

LEMMA AtLogin ==
  ASSUME SessionTypes, LockHolder, NEW c \in Callers, NEW x \in LoginSteps, At(c, x)
  PROVE  /\ c = loginLock
         /\ x = "dial" => DialNext(job[c].todo) /\ ForTheCore(job[c])
         /\ x = "login" => LoginNext(job[c].todo) /\ ForTheCore(job[c]) /\ Connected
         /\ x = "list" => ListNext(job[c].todo) /\ HeldForTheCore /\ Connected
<1>1. job[c] # NoJob /\ Head(job[c].todo) = x /\ job[c].todo # <<>>
  BY DEF At, SessionTypes
<1>2. c = loginLock
  BY <1>1, ReadyHead DEF LockHolder, Progress
<1>3. CASE DialNext(job[c].todo) /\ ForTheCore(job[c])
  <2>1. x = "dial"
    BY <1>1, <1>3, DialThenLogin
  <2>. QED BY <1>2, <1>3, <2>1
<1>4. CASE LoginNext(job[c].todo) /\ ForTheCore(job[c]) /\ Connected
  <2>1. x = "login"
    BY <1>1, <1>4, LoginThenList
  <2>. QED BY <1>2, <1>4, <2>1
<1>5. CASE ListNext(job[c].todo) /\ HeldForTheCore /\ Connected
  <2>1. x = "list"
    BY <1>1, <1>5, ListThenRest
  <2>. QED BY <1>2, <1>5, <2>1
<1>. QED BY <1>2, <1>3, <1>4, <1>5 DEF LockHolder, Progress

LEMMA AtOther ==
  ASSUME SessionTypes, LockHolder, NEW c \in Callers, NEW x, At(c, x), x \notin LoginSteps
  PROVE  /\ c # loginLock /\ job[c].todo \in Ready /\ job[c].todo # <<>> /\ Head(job[c].todo) = x
         /\ Rest(c) \in Ready
<1>1. job[c] # NoJob /\ Head(job[c].todo) = x /\ job[c].todo # <<>>
  BY DEF At, SessionTypes
<1>2. c # loginLock
  BY <1>1, DialThenLogin, LoginThenList, ListThenRest DEF LockHolder, Progress, LoginSteps
<1>3. job[c].todo \in Ready
  BY <1>2 DEF LockHolder, Progress
<1>. QED BY <1>1, <1>2, <1>3, ReadyTail DEF Rest

LEMMA Resting ==
  ASSUME SessionTypes, LockHolder, NEW c \in Callers, job[c] = NoJob
  PROVE  c # loginLock
<1>1. job[c].todo = <<>>
  BY NothingLeft
<1>. QED BY <1>1, DialThenLogin, LoginThenList, ListThenRest DEF LockHolder, Progress

------------------------------------------------------------------------------
(* Moves *)

(* One goroutine has other steps to do; nothing is said of their host and key. *)
Moves(c, s) ==
  /\ job' = [job EXCEPT ![c] = job'[c]]
  /\ job'[c].todo = s /\ (s = <<>> => job'[c] = NoJob)

LEMMA DoesMoves ==
  ASSUME NEW c \in Callers \cup Relogins, NEW s, NEW h, NEW k, Does(c, s, h, k), SessionTypes
  PROVE  Moves(c, s)
<1>1. PICK r : r = IF s = <<>> THEN NoJob ELSE [todo |-> s, host |-> h, key |-> k]
  OBVIOUS
<1>2. job' = [job EXCEPT ![c] = r]
  BY <1>1 DEF Does
<1>3. job'[c] = r
  BY <1>2 DEF SessionTypes
<1>4. r.todo = s
  BY <1>1 DEF NoJob
<1>. QED BY <1>1, <1>2, <1>3, <1>4 DEF Moves

LEMMA MovesEffect ==
  ASSUME NEW c \in Callers \cup Relogins, NEW s, Moves(c, s), SessionTypes
  PROVE  /\ job' = [p \in Callers \cup Relogins |-> job'[p]]
         /\ \A d \in Callers : d # c => job'[d] = job[d]
         /\ c \in Callers => job'[c].todo = s
         /\ \A d \in Callers : job'[d].todo = <<>> => job'[d] = NoJob
         /\ \A d \in Callers : d # c => At(d, "clear")' = At(d, "clear")
         /\ c \in Callers /\ s # <<>> => At(c, "clear")' = (Head(s) = "clear")
<1>1. PICK r : r = job'[c]
  OBVIOUS
<1>2. job' = [job EXCEPT ![c] = r] /\ r.todo = s /\ (s = <<>> => r = NoJob)
  BY <1>1 DEF Moves
<1>3. job' = [p \in Callers \cup Relogins |-> IF p = c THEN r ELSE job[p]]
  BY <1>2 DEF SessionTypes
<1>4. job' = [p \in Callers \cup Relogins |-> job'[p]]
  BY <1>3
<1>5. \A d \in Callers : d # c => job'[d] = job[d]
  BY <1>3
<1>6. \A d \in Callers : job'[d].todo = <<>> => job'[d] = NoJob
  <2>1. ASSUME NEW d \in Callers, job'[d].todo = <<>> PROVE job'[d] = NoJob
    <3>1. CASE d = c
      BY <1>2, <1>3, <2>1, <3>1
    <3>2. CASE d # c
      BY <1>5, <2>1, <3>2 DEF SessionTypes
    <3>. QED BY <3>1, <3>2
  <2>. QED BY <2>1
<1>7. \A d \in Callers : d # c => At(d, "clear")' = At(d, "clear")
  BY <1>5 DEF At
<1>8. ASSUME c \in Callers, s # <<>> PROVE At(c, "clear")' = (Head(s) = "clear")
  <2>1. job'[c] = r
    BY <1>1
  <2>2. r # NoJob
    BY <1>2, <1>8, NothingLeft
  <2>. QED BY <1>2, <2>1, <2>2 DEF At
<1>. QED BY <1>1, <1>2, <1>4, <1>5, <1>6, <1>7, <1>8

LoginAsIs ==
  UNCHANGED <<loginLock, jpyCore, currentKey, currentHost>> /\ core'.url = core.url /\ core'.apiKey = core.apiKey

CoreIsCore == core' = [url |-> core'.url, apiKey |-> core'.apiKey, token |-> core'.token]

(* The session is the same, or another of which nothing is known; it may have been logged in anew. *)
SessionGoesOn ==
  IsSession(session') /\ session'.host \in {"", session.host} /\ session'.key \in {"", session.key, core.apiKey}

LEMMA SessionStays == ASSUME SessionTypes, UNCHANGED session PROVE SessionGoesOn
  BY DEF SessionTypes, SessionGoesOn, IsSession

LEMMA CoreStays ==
  ASSUME SessionTypes, UNCHANGED <<loginLock, jpyCore, currentKey, currentHost, core>>
  PROVE  LoginAsIs /\ CoreIsCore
  BY DEF SessionTypes, LoginAsIs, CoreIsCore

LEMMA OwnStays == ASSUME Own, LoginAsIs, SessionGoesOn PROVE Own'
  BY DEF Own, LoginAsIs, SessionGoesOn

(* The login under way is not disturbed by a goroutine that does not have the lock. *)
LEMMA ProgressStays ==
  ASSUME LoginAsIs, SessionGoesOn, NEW d \in Callers, Progress(d), job'[d] = job[d],
         NobodyClears' => NobodyClears /\ (session'.state = "none" => session.state = "none")
  PROVE  Progress(d)'
<1>1. PICK j : j = job[d]
  OBVIOUS
<1>2. job'[d] = j
  BY <1>1
<1>3. CASE d = loginLock
  <2>1. ForTheCore(j) => ForTheCore(j)'
    BY DEF ForTheCore, LoginAsIs
  <2>2. HeldForTheCore => HeldForTheCore'
    BY DEF HeldForTheCore, LoginAsIs
  <2>3. Connected => Connected'
    BY OwnStays DEF Connected
  <2>4. d = loginLock'
    BY <1>3 DEF LoginAsIs
  <2>5. CASE DialNext(j.todo) /\ ForTheCore(j)
    BY <1>2, <2>1, <2>4, <2>5 DEF Progress
  <2>6. CASE LoginNext(j.todo) /\ ForTheCore(j) /\ Connected
    BY <1>2, <2>1, <2>3, <2>4, <2>6 DEF Progress
  <2>7. CASE ListNext(j.todo) /\ HeldForTheCore /\ Connected
    BY <1>2, <2>2, <2>3, <2>4, <2>7 DEF Progress
  <2>. QED BY <1>1, <1>3, <2>5, <2>6, <2>7 DEF Progress
<1>4. CASE d # loginLock
  BY <1>1, <1>2, <1>4 DEF Progress, LoginAsIs
<1>. QED BY <1>3, <1>4

LEMMA HeldStays ==
  ASSUME SessionHeld, LoginAsIs, SessionGoesOn,
         NobodyClears' => NobodyClears /\ (session'.state = "none" => session.state = "none")
  PROVE  SessionHeld'
<1>1. ASSUME loginLock' = Nobody, jpyCore', \A d \in Callers : ~At(d, "clear")'
      PROVE  /\ currentKey' # "" /\ currentKey' = core'.apiKey /\ currentHost' = core'.url
             /\ session'.state # "none" /\ session'.host \in {"", currentHost'} /\ session'.key \in {"", currentKey'}
  <2>1. NobodyClears /\ (session'.state = "none" => session.state = "none")
    BY <1>1 DEF NobodyClears
  <2>2. loginLock = Nobody /\ jpyCore
    BY <1>1 DEF LoginAsIs
  <2>3. /\ currentKey # "" /\ currentKey = core.apiKey /\ currentHost = core.url
        /\ session.state # "none" /\ session.host \in {"", currentHost} /\ session.key \in {"", currentKey}
    BY <2>1, <2>2 DEF SessionHeld, NobodyClears
  <2>. QED BY <2>1, <2>3 DEF LoginAsIs, SessionGoesOn
<1>. QED BY <1>1 DEF SessionHeld

(* A goroutine that does not have the lock does a step and leaves the login alone.  It may reset the
   session when what it does next is to clear the login. *)
LEMMA OtherMoves ==
  ASSUME SessionInv, NEW c \in Callers, NEW s \in Ready, Moves(c, s), c # loginLock, ~At(c, "clear"), LoginAsIs,
         CoreIsCore, SessionGoesOn,
         session'.state = "none" => session.state = "none" \/ (s # <<>> /\ Head(s) = "clear")
  PROVE  SessionInv'
<1>. USE DEF SessionInv
<1>1. SessionTypes'
  BY MovesEffect DEF SessionTypes, SessionGoesOn, CoreIsCore, LoginAsIs
<1>2. NobodyClears' => NobodyClears /\ (session'.state = "none" => session.state = "none")
  <2>1. \A d \in Callers : d # c => At(d, "clear")' = At(d, "clear")
    BY MovesEffect
  <2>2. s # <<>> => At(c, "clear")' = (Head(s) = "clear")
    BY MovesEffect
  <2>3. NobodyClears' => \A d \in Callers : ~At(d, "clear")'
    BY DEF NobodyClears
  <2>. QED BY <2>1, <2>2, <2>3 DEF NobodyClears
<1>3. LockHolder'
  <2>. SUFFICES ASSUME NEW d \in Callers PROVE Progress(d)'
    BY DEF LockHolder
  <2>1. CASE d = c
    <3>1. job'[d].todo \in Ready
      BY <2>1, MovesEffect
    <3>2. d # loginLock'
      BY <2>1 DEF LoginAsIs
    <3>. QED BY <3>1, <3>2 DEF Progress
  <2>2. CASE d # c
    <3>1. job'[d] = job[d] /\ Progress(d)
      BY <2>2, MovesEffect DEF LockHolder
    <3>. QED BY <1>2, <3>1, ProgressStays
  <2>. QED BY <2>1, <2>2
<1>4. SessionHeld'
  BY <1>2, HeldStays
<1>. QED BY <1>1, <1>3, <1>4

(* A relogin in the background, or nobody, moves. *)
LEMMA NobodyMoves ==
  ASSUME SessionInv, job' = [p \in Callers \cup Relogins |-> job'[p]], \A d \in Callers : job'[d] = job[d],
         LoginAsIs, CoreIsCore, SessionGoesOn, session'.state = "none" => session.state = "none"
  PROVE  SessionInv'
<1>. USE DEF SessionInv
<1>1. SessionTypes'
  BY DEF SessionTypes, SessionGoesOn, CoreIsCore, LoginAsIs
<1>2. NobodyClears' => NobodyClears
  BY DEF NobodyClears, At
<1>3. LockHolder'
  BY <1>2, ProgressStays DEF LockHolder
<1>4. SessionHeld'
  BY <1>2, HeldStays
<1>. QED BY <1>1, <1>3, <1>4

LEMMA ReloginMoves ==
  ASSUME SessionInv, NEW r \in Relogins, NEW s, Moves(r, s), LoginAsIs, CoreIsCore, SessionGoesOn,
         session'.state = "none" => session.state = "none", SessionAssumption
  PROVE  SessionInv'
<1>1. \A d \in Callers : d # r
  BY DEF SessionAssumption
<1>2. SessionTypes
  BY DEF SessionInv
<1>. QED BY <1>1, <1>2, MovesEffect, NobodyMoves

(* Whoever gives the login up, with the lock or while it is free. *)
LEMMA GivesUp ==
  ASSUME SessionInv, NEW c \in Callers, NEW s \in Ready, Moves(c, s), loginLock \in {c, Nobody}, loginLock' = Nobody,
         jpyCore' = FALSE, IsSession(session'), CoreIsCore, SessionAssumption
  PROVE  SessionInv'
<1>. USE DEF SessionInv
<1>1. SessionTypes'
  BY MovesEffect DEF SessionTypes, CoreIsCore
<1>2. Nobody \notin Callers
  BY DEF SessionAssumption, Nobody
<1>3. \A d \in Callers : job'[d].todo \in Ready
  <2>. SUFFICES ASSUME NEW d \in Callers PROVE job'[d].todo \in Ready
    OBVIOUS
  <2>1. CASE d = c
    BY <2>1, MovesEffect
  <2>2. CASE d # c
    BY <1>2, <2>2, MovesEffect DEF LockHolder, Progress
  <2>. QED BY <2>1, <2>2
<1>4. LockHolder'
  BY <1>2, <1>3 DEF LockHolder, Progress
<1>. QED BY <1>1, <1>4 DEF SessionHeld

------------------------------------------------------------------------------
(* Where the steps lead *)

LEMMA EndsReady ==
  ASSUME SessionTypes, NEW p \in Callers \cup Relogins, Ends(p) \/ Panics(p)
  PROVE  \E s \in Ready : Moves(p, s)
<1>1. <<>> \in Ready /\ <<"command", "ensure">> \in Ready
  BY ShortReady, ListsReady
<1>2. \E s \in Ready : Goes(p, s)
  BY <1>1 DEF Ends, Panics
<1>. QED BY <1>2, DoesMoves DEF Goes

LEMMA ContinueReady ==
  ASSUME SessionTypes, LockHolder, NEW c \in Callers, NEW x, At(c, x), x \notin LoginSteps, Continue(c)
  PROVE  \E s \in Ready : Moves(c, s)
  BY AtOther, DoesMoves DEF Continue, Goes

LEMMA InsteadReady ==
  ASSUME SessionTypes, LockHolder, NEW c \in Callers, NEW x, At(c, x), x \notin LoginSteps, NEW t \in Ready,
         Instead(c, t)
  PROVE  \E s \in Ready : Moves(c, s)
<1>1. t \o Rest(c) \in Ready
  BY AtOther, ReadyConcat
<1>. QED BY <1>1, DoesMoves DEF Instead, Goes

LEMMA WithKeyReady ==
  ASSUME SessionTypes, LockHolder, NEW c \in Callers, NEW x, At(c, x), x \notin LoginSteps, NEW t \in Ready,
         WithKey(c, t)
  PROVE  \E s \in Ready : Moves(c, s)
<1>1. t \o Rest(c) \in Ready
  BY AtOther, ReadyConcat
<1>. QED BY <1>1, DoesMoves DEF WithKey

LEMMA ReloginReady ==
  ASSUME SessionTypes, LockHolder, NEW c \in Callers, NEW x, At(c, x), x \notin LoginSteps, NEW t \in Ready,
         ReloginThen(c, t)
  PROVE  \E s \in Ready : Moves(c, s)
<1>1. <<"reset", "clear", "ensure">> \o t \in Ready
  BY ListsReady, ReadyConcat
<1>. QED BY <1>1, InsteadReady DEF ReloginThen

LEMMA PlainStep ==
  ASSUME SessionInv, NEW c \in Callers, NEW x, At(c, x), x \notin LoginSteps, x # "clear",
         \E s \in Ready : Moves(c, s), UNCHANGED <<loginLock, jpyCore, currentKey, currentHost, core, session>>
  PROVE  SessionInv'
<1>1. PICK s \in Ready : Moves(c, s)
  OBVIOUS
<1>2. SessionTypes /\ LockHolder
  BY DEF SessionInv
<1>3. c # loginLock /\ Head(job[c].todo) = x
  BY <1>2, AtOther
<1>4. ~At(c, "clear")
  BY <1>3 DEF At
<1>5. LoginAsIs /\ CoreIsCore /\ SessionGoesOn
  BY <1>2, CoreStays, SessionStays
<1>. QED BY <1>1, <1>3, <1>4, <1>5, OtherMoves

------------------------------------------------------------------------------
(* The steps of requests *)

LEMMA ServesKeeps == ASSUME SessionInv, NEW c \in Callers, Serves(c) PROVE SessionInv'
<1>. USE DEF SessionInv, held
<1>1. CASE ensureGlobalApi(c)
  <2>1. "api" \notin LoginSteps /\ <<"ensure">> \in Ready
    BY ListsReady DEF LoginSteps
  <2>2. \E s \in Ready : Moves(c, s)
    BY <1>1, <2>1, ContinueReady, EndsReady, WithKeyReady DEF ensureGlobalApi
  <2>. QED BY <1>1, <2>1, <2>2, PlainStep DEF ensureGlobalApi
<1>2. CASE findDeviceInfoWithCache(c)
  <2>1. "find" \notin LoginSteps /\ <<"api", "lookup">> \in Ready
    BY ListsReady DEF LoginSteps
  <2>2. \E s \in Ready : Moves(c, s)
    BY <1>2, <2>1, ContinueReady, InsteadReady DEF findDeviceInfoWithCache
  <2>. QED BY <1>2, <2>1, <2>2, PlainStep DEF findDeviceInfoWithCache
<1>3. CASE LookUp(c)
  <2>1. "lookup" \notin LoginSteps
    BY DEF LoginSteps
  <2>2. \E s \in Ready : Moves(c, s)
    BY <1>3, <2>1, ContinueReady, EndsReady DEF LookUp
  <2>. QED BY <1>3, <2>1, <2>2, PlainStep DEF LookUp
<1>4. CASE Chosen(c)
  <2>1. "chosen" \notin LoginSteps
    BY DEF LoginSteps
  <2>2. \E s \in Ready : Moves(c, s)
    BY <1>4, <2>1, ContinueReady DEF Chosen
  <2>. QED BY <1>4, <2>1, <2>2, PlainStep DEF Chosen
<1>5. CASE CallApi(c)
  <2>1. "call" \notin LoginSteps
    BY DEF LoginSteps
  <2>2. \E s \in Ready : Moves(c, s)
    BY <1>5, <2>1, ContinueReady, EndsReady DEF CallApi
  <2>. QED BY <1>5, <2>1, <2>2, PlainStep DEF CallApi
<1>6. CASE findDeviceInfo(c)
  <2>1. "search" \notin LoginSteps /\ <<"lookup">> \in Ready
    BY ListsReady DEF LoginSteps
  <2>2. \E s \in Ready : Moves(c, s)
    BY <1>6, <2>1, ContinueReady, EndsReady, ReloginReady DEF findDeviceInfo
  <2>. QED BY <1>6, <2>1, <2>2, PlainStep DEF findDeviceInfo
<1>7. CASE TakeKey(c)
  <2>1. "command" \notin LoginSteps /\ <<>> \in Ready
    BY ShortReady DEF LoginSteps
  <2>2. \E s \in Ready : Moves(c, s)
    BY <1>7, <2>1, WithKeyReady DEF TakeKey
  <2>. QED BY <1>7, <2>1, <2>2, PlainStep DEF TakeKey
<1>8. CASE SendGenericCommandToDevice(c)
  <2>1. "send" \notin LoginSteps /\ <<"create">> \in Ready
    BY ListsReady DEF LoginSteps
  <2>2. \E s \in Ready : Moves(c, s)
    BY <1>8, <2>1, ContinueReady, EndsReady, InsteadReady DEF SendGenericCommandToDevice
  <2>. QED BY <1>8, <2>1, <2>2, PlainStep DEF SendGenericCommandToDevice
<1>9. CASE CreatMiddlewareRtc(c)
  <2>1. "create" \notin LoginSteps /\ <<"relist", "recreate">> \in Ready
    BY ListsReady DEF LoginSteps
  <2>2. \E s \in Ready : Moves(c, s)
    BY <1>9, <2>1, ContinueReady, EndsReady, ReloginReady DEF CreatMiddlewareRtc, Created
  <2>. QED BY <1>9, <2>1, <2>2, PlainStep DEF CreatMiddlewareRtc
<1>10. CASE ListAgain(c)
  <2>1. "relist" \notin LoginSteps
    BY DEF LoginSteps
  <2>2. \E s \in Ready : Moves(c, s)
    BY <1>10, <2>1, ContinueReady, EndsReady DEF ListAgain
  <2>. QED BY <1>10, <2>1, <2>2, PlainStep DEF ListAgain
<1>11. CASE CreateAgain(c)
  <2>1. "recreate" \notin LoginSteps
    BY DEF LoginSteps
  <2>2. \E s \in Ready : Moves(c, s)
    BY <1>11, <2>1, ContinueReady, EndsReady DEF CreateAgain, Created
  <2>. QED BY <1>11, <2>1, <2>2, PlainStep DEF CreateAgain
<1>. QED BY <1>1, <1>2, <1>3, <1>4, <1>5, <1>6, <1>7, <1>8, <1>9, <1>10, <1>11 DEF Serves

LEMMA BeginKeeps ==
  ASSUME SessionInv, NEW c \in Callers, NEW s \in Ready, NEW h, NEW k, Begin(c, s, h, k),
         UNCHANGED <<loginLock, jpyCore, currentKey, currentHost>>
  PROVE  SessionInv'
<1>1. SessionTypes /\ LockHolder
  BY DEF SessionInv
<1>2. Moves(c, s)
  BY <1>1, DoesMoves DEF Begin
<1>3. c # loginLock /\ ~At(c, "clear")
  BY <1>1, Resting DEF Begin, At
<1>4. LoginAsIs /\ CoreIsCore /\ SessionGoesOn /\ UNCHANGED session
  BY <1>1, CoreStays, SessionStays DEF Begin
<1>. QED BY <1>2, <1>3, <1>4, OtherMoves

LEMMA RequestKeeps == ASSUME SessionInv, NEW c \in Callers, Request(c) PROVE SessionInv'
<1>. USE DEF held
<1>1. CASE HandleUnifiedRequest(c)
  <2>1. PICK s \in Handled \cap Tried : Begin(c, s, "", "")
    BY <1>1 DEF HandleUnifiedRequest
  <2>2. s \in Ready
    BY HandledReady
  <2>. QED BY <1>1, <2>1, <2>2, BeginKeeps DEF HandleUnifiedRequest
<1>2. CASE handleLogin(c)
  <2>1. PICK l \in Logins : Begin(c, <<"ensure">>, l[1], l[2])
    BY <1>2 DEF handleLogin
  <2>. QED BY <1>2, <2>1, ListsReady, BeginKeeps DEF handleLogin
<1>3. CASE HandleHTTP(c)
  <2>1. GetDevices \in Ready /\ ConnectDevice \in Ready /\ MiddleExecuteCommand \in Ready
    BY ListsReady
  <2>2. CASE \E l \in Logins :
               \E s \in {GetDevices, ConnectDevice, MiddleExecuteCommand} \cap Tried : Begin(c, s, "", l[2])
    <3>1. PICK l \in Logins, s \in {GetDevices, ConnectDevice, MiddleExecuteCommand} : Begin(c, s, "", l[2])
      BY <2>2
    <3>. QED BY <1>3, <2>1, <3>1, BeginKeeps DEF HandleHTTP
  <2>3. CASE Begin(c, MiddleExecuteCommand, "", currentKey)
    BY <1>3, <2>1, <2>3, BeginKeeps DEF HandleHTTP
  <2>. QED BY <1>3, <2>2, <2>3 DEF HandleHTTP
<1>4. CASE UpdateConfig(c)
  <2>1. PICK l \in Logins : Begin(c, <<"drop">>, "", "")
    BY <1>4 DEF UpdateConfig
  <2>. QED BY <1>4, <2>1, ListsReady, BeginKeeps DEF UpdateConfig
<1>. QED BY <1>1, <1>2, <1>3, <1>4 DEF Request

------------------------------------------------------------------------------
(* Logging in *)

LEMMA ResetStates == ASSUME SessionTypes, Reset \/ KeepCore PROVE SessionGoesOn
<1>1. IsSession(NoSession) /\ NoSession.host = "" /\ NoSession.key = ""
  BY DEF NoSession, IsSession
<1>2. session' = NoSession \/ session' = session
  BY DEF Reset, KeepCore
<1>3. IsSession(session)
  BY DEF SessionTypes
<1>4. CASE session' = NoSession
  BY <1>1, <1>4 DEF SessionGoesOn
<1>. QED BY <1>2, <1>3, <1>4 DEF SessionGoesOn

LEMMA TokenStays == ASSUME SessionTypes, TokenKept PROVE CoreIsCore /\ core'.url = core.url /\ core'.apiKey = core.apiKey
<1>1. PICK u, k, t : core = [url |-> u, apiKey |-> k, token |-> t]
  BY DEF SessionTypes
<1>2. core' = [url |-> u, apiKey |-> k, token |-> t /\ ~jpyCore]
  BY <1>1 DEF TokenKept
<1>. QED BY <1>1, <1>2 DEF CoreIsCore

LEMMA RefusesKeeps == ASSUME SessionInv, NEW c \in Callers, EnsureRefuses(c) \/ EnsureReturns(c) PROVE SessionInv'
<1>1. "ensure" \notin LoginSteps /\ SessionTypes /\ LockHolder
  BY DEF LoginSteps, SessionInv
<1>2. \E s \in Ready : Moves(c, s)
  BY <1>1, ContinueReady, EndsReady DEF EnsureRefuses, EnsureReturns
<1>. QED BY <1>1, <1>2, PlainStep DEF EnsureRefuses, EnsureReturns, held

LEMMA EnsureKeeps == ASSUME SessionInv, SessionAssumption, NEW c \in Callers, EnsureLogin(c) PROVE SessionInv'
<1>1. "ensure" \notin LoginSteps /\ SessionTypes /\ LockHolder /\ loginLock = Nobody /\ At(c, "ensure")
  BY DEF LoginSteps, SessionInv, EnsureLogin
<1>2. IsSession(session')
  BY <1>1, ResetStates DEF EnsureLogin, SessionGoesOn
<1>3. Nobody \notin Callers
  BY DEF SessionAssumption, Nobody
<1>4. PICK url : url = IF HostChanged(c) THEN job[c].host ELSE wsUrl
  OBVIOUS
<1>5. CASE url = ""
  <2>1. jpyCore' = FALSE /\ Ends(c) /\ UNCHANGED loginLock /\ CoreIsCore
    BY <1>1, <1>4, <1>5, TokenStays DEF EnsureLogin
  <2>2. PICK s \in Ready : Moves(c, s)
    BY <1>1, <2>1, EndsReady
  <2>. QED BY <1>1, <1>2, <2>1, <2>2, GivesUp
<1>6. CASE url # ""
  <2>1. /\ jpyCore' = TRUE /\ core' = [url |-> url, apiKey |-> job[c].key, token |-> core.token /\ ~jpyCore]
        /\ loginLock' = c /\ job[c].key # ""
        /\ Does(c, <<"dial", "login", "list">> \o Rest(c), url, job[c].key)
    <3>1. /\ jpyCore' = (url # "") /\ job[c].key # ""
          /\ IF url = ""
             THEN Ends(c) /\ TokenKept /\ UNCHANGED loginLock
             ELSE /\ core' = [url |-> url, apiKey |-> job[c].key, token |-> core.token /\ ~jpyCore]
                  /\ loginLock' = c
                  /\ Does(c, <<"dial", "login", "list">> \o Rest(c), url, job[c].key)
      BY <1>4 DEF EnsureLogin
    <3>. QED BY <1>6, <3>1
  <2>2. PICK s : s = <<"dial", "login", "list">> \o Rest(c)
    OBVIOUS
  <2>3. DialNext(s) /\ s # <<>>
    BY <1>1, <2>2, AtOther, DialThenLogin DEF DialNext
  <2>4. Moves(c, s)
    BY <1>1, <2>1, <2>2, DoesMoves
  <2>5. PICK k : k = job[c].key
    OBVIOUS
  <2>6. job'[c] = [todo |-> s, host |-> url, key |-> k]
    BY <1>1, <2>1, <2>2, <2>3, <2>5 DEF Does, SessionTypes
  <2>7. PICK t : t = (core.token /\ ~jpyCore)
    OBVIOUS
  <2>8. core' = [url |-> url, apiKey |-> k, token |-> t] /\ k # ""
    BY <2>1, <2>5, <2>7
  <2>9. core'.url = url /\ core'.apiKey = k /\ CoreIsCore
    BY <2>8 DEF CoreIsCore
  <2>10. job'[c].todo = s /\ job'[c].host = url /\ job'[c].key = k
    BY <2>6
  <2>11. ForTheCore(job[c])'
    BY <2>8, <2>9, <2>10 DEF ForTheCore
  <2>12. SessionTypes'
    BY <1>1, <1>2, <2>1, <2>4, <2>9, MovesEffect DEF SessionTypes, CoreIsCore
  <2>13. LockHolder'
    <3>. USE DEF Progress
    <3>. SUFFICES ASSUME NEW d \in Callers PROVE Progress(d)'
      BY DEF LockHolder
    <3>1. CASE d = c
      BY <2>1, <2>3, <2>10, <2>11, <3>1
    <3>2. CASE d # c
      <4>1. job'[d] = job[d]
        BY <1>1, <2>4, <3>2, MovesEffect
      <4>2. job[d].todo \in Ready
        BY <1>1, <1>3 DEF LockHolder, Progress
      <4>. QED BY <2>1, <3>2, <4>1, <4>2
    <3>. QED BY <3>1, <3>2
  <2>. QED BY <1>3, <2>1, <2>12, <2>13 DEF SessionInv, SessionHeld
<1>. QED BY <1>5, <1>6

LEMMA ForceKeeps == ASSUME SessionInv, SessionAssumption, NEW c \in Callers, forceRelogin(c) PROVE SessionInv'
<1>1. "reset" \notin LoginSteps /\ "clear" \notin LoginSteps /\ SessionTypes /\ LockHolder
  BY DEF LoginSteps, SessionInv
<1>2. CASE At(c, "reset") /\ ResetCore(c) /\ Continue(c)
  <2>1. c # loginLock /\ job[c].todo \in Ready /\ job[c].todo # <<>> /\ Head(job[c].todo) = "reset" /\ Rest(c) \in Ready
    BY <1>1, <1>2, AtOther
  <2>2. Rest(c) # <<>> /\ Head(Rest(c)) = "clear"
    BY <2>1, ReadyHead DEF Rest
  <2>3. Moves(c, Rest(c))
    BY <1>1, <1>2, DoesMoves DEF Continue, Goes
  <2>4. ~At(c, "clear")
    BY <2>1 DEF At
  <2>5. SessionGoesOn
    BY <1>1, <1>2, ResetStates DEF ResetCore
  <2>6. LoginAsIs /\ CoreIsCore
    BY <1>1, <1>2, TokenStays DEF ResetCore, LoginAsIs, held
  <2>. QED BY <2>1, <2>2, <2>3, <2>4, <2>5, <2>6, OtherMoves
<1>3. CASE At(c, "clear") /\ ClearLogin(c)
  <2>1. Rest(c) \in Ready
    BY <1>1, <1>3, AtOther
  <2>2. Moves(c, Rest(c))
    BY <1>1, <1>3, DoesMoves DEF ClearLogin
  <2>3. IsSession(session') /\ CoreIsCore
    BY <1>1, <1>3 DEF ClearLogin, SessionTypes, IsSession, CoreIsCore
  <2>. QED BY <1>3, <2>1, <2>2, <2>3, GivesUp DEF ClearLogin
<1>. QED BY <1>2, <1>3 DEF forceRelogin

LEMMA DropKeeps == ASSUME SessionInv, SessionAssumption, NEW c \in Callers, DropCore(c) PROVE SessionInv'
<1>1. "drop" \notin LoginSteps /\ SessionTypes /\ LockHolder
  BY DEF LoginSteps, SessionInv
<1>2. PICK s \in Ready : Moves(c, s)
  BY <1>1, ContinueReady DEF DropCore
<1>3. IsSession(session') /\ CoreIsCore
  BY <1>1 DEF DropCore, SessionTypes, IsSession, CoreIsCore
<1>. QED BY <1>2, <1>3, GivesUp DEF DropCore

(* The steps of the holder of the lock. *)
LEMMA DialKeeps == ASSUME SessionInv, SessionAssumption, NEW c \in Callers, Dial(c) PROVE SessionInv'
<1>1. "dial" \in LoginSteps /\ SessionTypes /\ LockHolder /\ At(c, "dial") /\ c \notin Relogins
  BY DEF LoginSteps, SessionInv, Dial, SessionAssumption
<1>2. c = loginLock /\ DialNext(job[c].todo) /\ ForTheCore(job[c])
  BY <1>1, AtLogin
<1>3. PICK s : s = Rest(c)
  OBVIOUS
<1>4. LoginNext(s) /\ s # <<>>
  BY <1>2, <1>3, DialThenLogin, LoginThenList DEF Rest
<1>5. Moves(c, s)
  BY <1>1, <1>3, DoesMoves DEF Dial, Continue, Goes
<1>6. PICK h, k : h = job[c].host /\ k = job[c].key
  OBVIOUS
<1>7. job'[c] = [todo |-> s, host |-> h, key |-> k]
  BY <1>1, <1>3, <1>4, <1>6 DEF Dial, Continue, Goes, Does, SessionTypes
<1>8. job'[c].todo = s /\ job'[c].host = h /\ job'[c].key = k
  BY <1>7
<1>9. UNCHANGED <<loginLock, jpyCore, currentKey, currentHost, core>>
  BY DEF Dial, held
<1>10. LoginAsIs /\ CoreIsCore
  BY <1>1, <1>9, CoreStays
<1>11. session' = [state |-> "open", noticed |-> FALSE, host |-> h, key |-> ""]
  BY <1>1, <1>6 DEF Dial
<1>12. IsSession(session') /\ session'.state # "none" /\ session'.host = h /\ session'.key = ""
  BY <1>11 DEF IsSession
<1>13. ForTheCore(job[c])' /\ Own'
  BY <1>2, <1>6, <1>8, <1>9, <1>12 DEF ForTheCore, Own
<1>14. SessionTypes'
  BY <1>1, <1>5, <1>9, <1>10, <1>12, MovesEffect DEF SessionTypes, CoreIsCore
<1>15. LockHolder'
  <2>. SUFFICES ASSUME NEW d \in Callers PROVE Progress(d)'
    BY DEF LockHolder
  <2>1. CASE d = c
    BY <1>2, <1>4, <1>8, <1>9, <1>12, <1>13, <2>1 DEF Progress, Connected
  <2>2. CASE d # c
    <3>1. job'[d] = job[d]
      BY <1>1, <1>5, <2>2, MovesEffect
    <3>2. job[d].todo \in Ready
      BY <1>1, <1>2, <2>2 DEF LockHolder, Progress
    <3>. QED BY <1>2, <1>9, <2>2, <3>1, <3>2 DEF Progress
  <2>. QED BY <2>1, <2>2
<1>16. SessionHeld'
  <2>1. loginLock' # Nobody
    BY <1>2, <1>9 DEF SessionAssumption, Nobody
  <2>. QED BY <2>1 DEF SessionHeld
<1>. QED BY <1>14, <1>15, <1>16 DEF SessionInv

(* What a login does to the session and the Core, whoever makes it. *)
LEMMA LoginEffect ==
  ASSUME SessionTypes, NEW p, Login(p)
  PROVE  /\ IsSession(session') /\ session'.state = "live" /\ session'.host = session.host
         /\ session'.key \in {"", core.apiKey}
         /\ CoreIsCore /\ core'.url = core.url /\ core'.apiKey = core.apiKey
<1>1. PICK st, n, h, k : session = [state |-> st, noticed |-> n, host |-> h, key |-> k]
  BY DEF SessionTypes, IsSession
<1>2. PICK u, a, t : core = [url |-> u, apiKey |-> a, token |-> t]
  BY DEF SessionTypes
<1>3. PICK key \in {"", core.apiKey} : session' = [session EXCEPT !.state = "live", !.noticed = TRUE, !.key = key]
  BY DEF Login
<1>4. session' = [state |-> "live", noticed |-> TRUE, host |-> h, key |-> key]
  BY <1>1, <1>3
<1>5. core' = [url |-> u, apiKey |-> a, token |-> TRUE]
  BY <1>2 DEF Login
<1>6. IsSession(session') /\ session'.state = "live" /\ session'.host = session.host /\ session'.key = key
  BY <1>1, <1>4 DEF IsSession
<1>7. CoreIsCore /\ core'.url = core.url /\ core'.apiKey = core.apiKey
  BY <1>2, <1>5 DEF CoreIsCore
<1>. QED BY <1>3, <1>6, <1>7

LEMMA LoginKeeps == ASSUME SessionInv, SessionAssumption, NEW c \in Callers, Login(c) PROVE SessionInv'
<1>1. "login" \in LoginSteps /\ SessionTypes /\ LockHolder /\ At(c, "login")
  BY DEF LoginSteps, SessionInv, Login
<1>2. c = loginLock /\ LoginNext(job[c].todo) /\ ForTheCore(job[c]) /\ Own
  BY <1>1, AtLogin DEF Connected
<1>3. PICK s : s = Rest(c)
  OBVIOUS
<1>4. ListNext(s)
  BY <1>2, <1>3, LoginThenList DEF Rest
<1>5. Moves(c, s)
  BY <1>1, <1>3, DoesMoves DEF Login, Continue, Goes
<1>6. c \notin Relogins /\ c # Nobody
  BY DEF SessionAssumption, Nobody
<1>7. /\ IsSession(session') /\ session'.state = "live" /\ session'.host = session.host
      /\ session'.key \in {"", core.apiKey}
      /\ CoreIsCore /\ core'.url = core.url /\ core'.apiKey = core.apiKey
  BY <1>1, LoginEffect
<1>8. currentKey' = job[c].key /\ currentHost' = job[c].host /\ UNCHANGED <<jpyCore, loginLock>>
  BY <1>6 DEF Login
<1>9. HeldForTheCore' /\ Own'
  BY <1>2, <1>7, <1>8 DEF HeldForTheCore, ForTheCore, Own
<1>10. SessionTypes'
  BY <1>1, <1>5, <1>7, <1>8, MovesEffect DEF SessionTypes, CoreIsCore
<1>11. LockHolder'
  <2>. SUFFICES ASSUME NEW d \in Callers PROVE Progress(d)'
    BY DEF LockHolder
  <2>1. CASE d = c
    <3>1. job'[d].todo = s
      BY <1>1, <1>5, <2>1, MovesEffect
    <3>2. Connected'
      BY <1>7, <1>9 DEF Connected
    <3>. QED BY <1>2, <1>4, <1>8, <1>9, <2>1, <3>1, <3>2 DEF Progress
  <2>2. CASE d # c
    <3>1. job'[d] = job[d]
      BY <1>1, <1>5, <2>2, MovesEffect
    <3>2. job[d].todo \in Ready
      BY <1>1, <1>2, <2>2 DEF LockHolder, Progress
    <3>. QED BY <1>2, <1>8, <2>2, <3>1, <3>2 DEF Progress
  <2>. QED BY <2>1, <2>2
<1>12. SessionHeld'
  <2>1. loginLock' # Nobody
    BY <1>2, <1>6, <1>8
  <2>. QED BY <2>1 DEF SessionHeld
<1>. QED BY <1>10, <1>11, <1>12 DEF SessionInv

(* The login was made, and nobody is about to clear it: it is whole. *)
LEMMA ListKeeps == ASSUME SessionInv, SessionAssumption, NEW c \in Callers, ListDevices(c) PROVE SessionInv'
<1>1. "list" \in LoginSteps /\ SessionTypes /\ LockHolder /\ At(c, "list")
  BY DEF LoginSteps, SessionInv, ListDevices
<1>2. c = loginLock /\ ListNext(job[c].todo) /\ HeldForTheCore /\ Connected
  BY <1>1, AtLogin
<1>3. PICK s : s = Rest(c)
  OBVIOUS
<1>4. s \in Ready
  BY <1>2, <1>3, ListThenRest DEF Rest
<1>5. Moves(c, s)
  BY <1>1, <1>3, DoesMoves DEF ListDevices, Continue, Goes
<1>6. UNCHANGED <<jpyCore, currentKey, currentHost, core, session>> /\ loginLock' = Nobody
  BY <1>2 DEF ListDevices, Unlock
<1>7. Nobody \notin Callers
  BY DEF SessionAssumption, Nobody
<1>8. SessionTypes'
  BY <1>1, <1>5, <1>6, MovesEffect DEF SessionTypes, IsSession
<1>9. LockHolder'
  <2>1. \A d \in Callers : job'[d].todo \in Ready
    <3>. SUFFICES ASSUME NEW d \in Callers PROVE job'[d].todo \in Ready
      OBVIOUS
    <3>1. CASE d = c
      BY <1>1, <1>4, <1>5, <3>1, MovesEffect
    <3>2. CASE d # c
      BY <1>1, <1>2, <1>5, <3>2, MovesEffect DEF LockHolder, Progress
    <3>. QED BY <3>1, <3>2
  <2>. QED BY <1>6, <1>7, <2>1 DEF LockHolder, Progress
<1>10. SessionHeld'
  <2>1. ~At(c, "clear")
    BY <1>1 DEF At
  <2>2. (\A d \in Callers : ~At(d, "clear")') => NobodyClears
    BY <1>1, <1>5, <2>1, MovesEffect DEF NobodyClears
  <2>. QED BY <1>2, <1>6, <2>2 DEF SessionHeld, HeldForTheCore, Connected, Own
<1>. QED BY <1>8, <1>9, <1>10 DEF SessionInv

LEMMA FailsKeeps ==
  ASSUME SessionInv, SessionAssumption, NEW c \in Callers, DialFails(c) \/ LoginRefused(c)
  PROVE  SessionInv'
<1>1. {"dial", "login"} \subseteq LoginSteps /\ SessionTypes /\ LockHolder /\ (At(c, "dial") \/ At(c, "login"))
  BY DEF LoginSteps, SessionInv, DialFails, LoginRefused
<1>2. c = loginLock /\ c \notin Relogins
  BY <1>1, AtLogin DEF SessionAssumption
<1>3. PICK s \in Ready : Moves(c, s)
  BY <1>1, EndsReady DEF DialFails, LoginRefused
<1>4. jpyCore' = FALSE /\ loginLock' = Nobody /\ UNCHANGED <<core, session>>
  BY <1>2 DEF DialFails, LoginRefused, Unlock
<1>5. IsSession(session') /\ CoreIsCore
  BY <1>1, <1>4 DEF SessionTypes, IsSession, CoreIsCore
<1>. QED BY <1>2, <1>3, <1>4, <1>5, GivesUp

(* Without a session somebody is about to clear the login, and still is when the lock is free. *)
LEMMA PanicKeeps == ASSUME SessionInv, SessionAssumption, NEW c \in Callers, LoginWithoutSession(c) PROVE SessionInv'
<1>1. "login" \in LoginSteps /\ SessionTypes /\ LockHolder /\ At(c, "login") /\ session.state = "none"
  BY DEF LoginSteps, SessionInv, LoginWithoutSession
<1>2. c = loginLock /\ (NobodyClears => session.state # "none")
  BY <1>1, AtLogin DEF Connected
<1>3. PICK s \in Ready : Moves(c, s)
  BY <1>1, EndsReady DEF LoginWithoutSession
<1>4. UNCHANGED <<jpyCore, currentKey, currentHost, core, session>> /\ loginLock' = Nobody
  BY <1>2 DEF LoginWithoutSession, Unlock
<1>5. Nobody \notin Callers
  BY DEF SessionAssumption, Nobody
<1>6. PICK d \in Callers : At(d, "clear")
  BY <1>1, <1>2 DEF NobodyClears
<1>7. d # c
  BY <1>1, <1>6 DEF At
<1>8. At(d, "clear")'
  BY <1>1, <1>3, <1>6, <1>7, MovesEffect
<1>9. SessionTypes'
  BY <1>1, <1>3, <1>4, MovesEffect DEF SessionTypes, IsSession
<1>10. LockHolder'
  <2>1. \A e \in Callers : job'[e].todo \in Ready
    <3>. SUFFICES ASSUME NEW e \in Callers PROVE job'[e].todo \in Ready
      OBVIOUS
    <3>1. CASE e = c
      BY <1>1, <1>3, <3>1, MovesEffect
    <3>2. CASE e # c
      BY <1>1, <1>2, <1>3, <3>2, MovesEffect DEF LockHolder, Progress
    <3>. QED BY <3>1, <3>2
  <2>. QED BY <1>4, <1>5, <2>1 DEF LockHolder, Progress
<1>11. SessionHeld'
  BY <1>8 DEF SessionHeld
<1>. QED BY <1>9, <1>10, <1>11 DEF SessionInv

------------------------------------------------------------------------------
(* The relogins in the background, which take no lock, and what comes from outside *)

LEMMA ReloginKeeps ==
  ASSUME SessionInv, SessionAssumption, NEW r \in Relogins, LoginStep(r) \/ Wake(r)
  PROVE  SessionInv'
<1>1. SessionTypes /\ loginLock # r
  BY DEF SessionInv, SessionTypes, SessionAssumption, Nobody
<1>2. \E s : Moves(r, s)
  <2>1. CASE Ends(r) \/ Panics(r)
    BY <1>1, <2>1, EndsReady
  <2>2. CASE Continue(r)
    BY <1>1, <2>2, DoesMoves DEF Continue, Goes
  <2>3. CASE Wake(r)
    BY <1>1, <2>3, DoesMoves DEF Wake
  <2>. QED BY <2>1, <2>2, <2>3 DEF LoginStep, Dial, DialFails, LoginWithoutSession, LoginRefused, Login, ListDevices
<1>3. ASSUME UNCHANGED <<loginLock, jpyCore, currentKey, currentHost, core, session>>
      PROVE  LoginAsIs /\ CoreIsCore /\ SessionGoesOn /\ (session'.state = "none" => session.state = "none")
  BY <1>1, <1>3, CoreStays, SessionStays
<1>4. LoginAsIs /\ CoreIsCore /\ SessionGoesOn /\ (session'.state = "none" => session.state = "none")
  <2>1. CASE Dial(r)
    <3>1. LoginAsIs /\ CoreIsCore
      BY <1>1, <2>1, CoreStays DEF Dial, held
    <3>2. session' = [state |-> "open", noticed |-> FALSE, host |-> "", key |-> ""]
      BY <2>1 DEF Dial
    <3>3. SessionGoesOn /\ session'.state # "none"
      BY <3>2 DEF SessionGoesOn, IsSession
    <3>. QED BY <3>1, <3>3
  <2>2. CASE DialFails(r)
    BY <1>1, <1>3, <2>2 DEF DialFails, Unlock, SessionTypes
  <2>3. CASE LoginWithoutSession(r)
    BY <1>1, <1>3, <2>3 DEF LoginWithoutSession, Unlock, SessionTypes
  <2>4. CASE LoginRefused(r)
    BY <1>1, <1>3, <2>4 DEF LoginRefused, Unlock, SessionTypes
  <2>5. CASE Login(r)
    <3>1. /\ IsSession(session') /\ session'.state = "live" /\ session'.host = session.host
          /\ session'.key \in {"", core.apiKey}
          /\ CoreIsCore /\ core'.url = core.url /\ core'.apiKey = core.apiKey
      BY <1>1, <2>5, LoginEffect
    <3>2. UNCHANGED <<loginLock, jpyCore, currentKey, currentHost>>
      BY <2>5 DEF Login
    <3>. QED BY <3>1, <3>2 DEF LoginAsIs, SessionGoesOn
  <2>6. CASE ListDevices(r)
    BY <1>1, <1>3, <2>6 DEF ListDevices, Unlock, SessionTypes
  <2>7. CASE Wake(r)
    BY <1>3, <2>7 DEF Wake, held
  <2>. QED BY <2>1, <2>2, <2>3, <2>4, <2>5, <2>6, <2>7 DEF LoginStep
<1>. QED BY <1>2, <1>4, ReloginMoves

LEMMA OutsideKeeps ==
  ASSUME SessionInv, Expire \/ ExpireLeaked \/ LinkDrops \/ UNCHANGED vars
  PROVE  SessionInv'
<1>1. SessionTypes /\ UNCHANGED job /\ UNCHANGED <<loginLock, jpyCore, currentKey, currentHost, core>>
  BY DEF SessionInv, Expire, ExpireLeaked, LinkDrops, vars, held
<1>2. SessionGoesOn /\ (session'.state = "none" => session.state = "none")
  <2>1. CASE Expire
    <3>1. PICK st, n, h, k : session = [state |-> st, noticed |-> n, host |-> h, key |-> k]
      BY <1>1 DEF SessionTypes, IsSession
    <3>2. session' = [state |-> "dead", noticed |-> FALSE, host |-> h, key |-> k]
      BY <2>1, <3>1 DEF Expire
    <3>3. IsSession(session') /\ session'.host = session.host /\ session'.key = session.key /\ session'.state = "dead"
      BY <3>1, <3>2 DEF IsSession
    <3>. QED BY <3>3 DEF SessionGoesOn
  <2>2. CASE UNCHANGED session
    BY <1>1, <2>2, SessionStays
  <2>. QED BY <2>1, <2>2 DEF ExpireLeaked, LinkDrops, vars
<1>3. job' = [p \in Callers \cup Relogins |-> job'[p]]
  BY <1>1 DEF SessionTypes
<1>. QED BY <1>1, <1>2, <1>3, CoreStays, NobodyMoves

------------------------------------------------------------------------------
LEMMA SessionInit == ASSUME SessionAssumption, Init PROVE SessionInv
<1>1. \A c \in Callers : job[c] = NoJob /\ job[c].todo = <<>>
  BY NothingLeft DEF Init
<1>2. SessionTypes
  BY <1>1 DEF Init, SessionTypes, NoSession, IsSession
<1>3. LockHolder
  BY <1>1, ShortReady DEF Init, LockHolder, Progress, SessionAssumption, Nobody
<1>. QED BY <1>2, <1>3 DEF Init, SessionInv, SessionHeld

LEMMA SessionKeeps == ASSUME SessionAssumption, SessionInv, [Next]_vars PROVE SessionInv'
<1>1. ASSUME NEW c \in Callers, LoginStep(c) PROVE SessionInv'
  BY <1>1, DialKeeps, FailsKeeps, PanicKeeps, LoginKeeps, ListKeeps DEF LoginStep
<1>2. ASSUME NEW c \in Callers, Ensures(c) PROVE SessionInv'
  BY <1>2, RefusesKeeps, EnsureKeeps, ForceKeeps, DropKeeps DEF Ensures
<1>3. ASSUME NEW c \in Callers, Request(c) \/ Works(c) PROVE SessionInv'
  BY <1>1, <1>2, <1>3, RequestKeeps, ServesKeeps DEF Works
<1>4. ASSUME NEW r \in Relogins, LoginStep(r) \/ Wake(r) PROVE SessionInv'
  BY <1>4, ReloginKeeps
<1>5. CASE Expire \/ ExpireLeaked \/ LinkDrops \/ UNCHANGED vars
  BY <1>5, OutsideKeeps
<1>. QED BY <1>3, <1>4, <1>5 DEF Next

(* What the rest of the state is: it comes back to nothing that SessionInv speaks of. *)
KnownTypes ==
  /\ devices \in BOOLEAN /\ cached \in BOOLEAN /\ linked \in BOOLEAN
  /\ leaked \in Nat /\ waking \in Nat

LEMMA KnownInit == ASSUME Init PROVE KnownTypes
  BY DEF Init, KnownTypes

LEMMA ResetKnown ==
  ASSUME KnownTypes, Reset \/ KeepCore
  PROVE  devices' \in BOOLEAN /\ waking' \in Nat
<1>1. CASE Reset
  <2>1. devices' = FALSE /\ waking' \in {waking, waking + 1}
    BY <1>1 DEF Reset
  <2>2. waking' \in Nat
    <3>1. waking \in Nat
      BY DEF KnownTypes
    <3>2. \A n \in Nat : n + 1 \in Nat
      OBVIOUS
    <3>. QED BY <2>1, <3>1, <3>2
  <2>. QED BY <2>1, <2>2
<1>2. CASE KeepCore
  BY <1>2 DEF KeepCore, KnownTypes
<1>. QED BY <1>1, <1>2

LEMMA ListKnown ==
  ASSUME KnownTypes, CenterGetDeviceList
  PROVE  devices' \in BOOLEAN /\ linked' \in BOOLEAN
<1>1. CASE session.state = "live"
  <2>1. devices' = TRUE /\ (linked' = linked \/ linked' = TRUE)
    BY <1>1 DEF CenterGetDeviceList
  <2>. QED BY <2>1 DEF KnownTypes
<1>2. CASE session.state # "live"
  BY <1>2 DEF CenterGetDeviceList, KnownTypes
<1>. QED BY <1>1, <1>2

LEMMA KnownKeeps == ASSUME KnownTypes, [Next]_vars PROVE KnownTypes'
<1>1. ASSUME UNCHANGED <<known, leaked, waking>> PROVE KnownTypes'
  BY <1>1 DEF known, KnownTypes
<1>2. ASSUME UNCHANGED known, leaked' \in Nat, waking' \in Nat PROVE KnownTypes'
  BY <1>2 DEF known, KnownTypes
<1>3. ASSUME NEW c \in Callers, Request(c) PROVE KnownTypes'
  <2>1. UNCHANGED <<leaked, waking, known>>
    BY <1>3 DEF Request, HandleUnifiedRequest, handleLogin, HandleHTTP, UpdateConfig, Begin
  <2>. QED BY <1>1, <2>1
<1>4. ASSUME NEW p, LoginStep(p) PROVE KnownTypes'
  <2>1. CASE Dial(p)
    <3>1. UNCHANGED <<known, waking>> /\ leaked' \in {leaked, leaked + 1}
      BY <2>1 DEF Dial
    <3>. QED BY <1>2, <3>1 DEF KnownTypes
  <2>2. CASE DialFails(p)
    <3>1. UNCHANGED <<known, leaked>> /\ waking' = waking + 1
      BY <2>2 DEF DialFails
    <3>. QED BY <1>2, <3>1 DEF KnownTypes
  <2>3. CASE LoginWithoutSession(p) \/ LoginRefused(p) \/ Login(p)
    BY <1>1, <2>3 DEF LoginWithoutSession, LoginRefused, Login
  <2>4. CASE ListDevices(p)
    <3>1. CenterGetDeviceList /\ UNCHANGED <<cached, leaked, waking>>
      BY <2>4 DEF ListDevices
    <3>. QED BY <3>1, ListKnown DEF KnownTypes
  <2>. QED BY <1>4, <2>1, <2>2, <2>3, <2>4 DEF LoginStep
<1>5. ASSUME NEW c \in Callers, Ensures(c) PROVE KnownTypes'
  <2>1. CASE EnsureRefuses(c) \/ EnsureReturns(c) \/ DropCore(c)
    BY <1>1, <2>1 DEF EnsureRefuses, EnsureReturns, DropCore
  <2>2. CASE EnsureLogin(c)
    <3>1. Reset \/ KeepCore
      BY <2>2 DEF EnsureLogin
    <3>2. UNCHANGED <<leaked, cached>>
      BY <2>2 DEF EnsureLogin
    <3>3. linked' = (linked /\ ~jpyCore /\ ~HostChanged(c))
      BY <2>2 DEF EnsureLogin
    <3>4. linked' \in BOOLEAN
      BY <3>3
    <3>. QED BY <3>1, <3>2, <3>4, ResetKnown DEF KnownTypes
  <2>3. CASE At(c, "reset") /\ ResetCore(c) /\ Continue(c)
    <3>1. (Reset \/ KeepCore) /\ linked' = FALSE /\ UNCHANGED <<leaked, cached>>
      BY <2>3 DEF ResetCore
    <3>. QED BY <3>1, ResetKnown DEF KnownTypes
  <2>4. CASE At(c, "clear") /\ ClearLogin(c)
    BY <1>1, <2>4 DEF ClearLogin
  <2>. QED BY <1>5, <2>1, <2>2, <2>3, <2>4 DEF Ensures, forceRelogin
<1>6. ASSUME NEW c \in Callers, Serves(c) PROVE KnownTypes'
  <2>1. CASE ensureGlobalApi(c) \/ Chosen(c) \/ CallApi(c) \/ findDeviceInfo(c) \/ TakeKey(c)
    BY <1>1, <2>1 DEF ensureGlobalApi, Chosen, CallApi, findDeviceInfo, TakeKey
  <2>2. CASE findDeviceInfoWithCache(c) \/ LookUp(c)
    <3>1. (cached' = cached \/ cached' = TRUE) /\ UNCHANGED <<devices, linked, leaked, waking>>
      BY <2>2 DEF findDeviceInfoWithCache, LookUp
    <3>. QED BY <3>1 DEF KnownTypes
  <2>3. CASE SendGenericCommandToDevice(c)
    <3>1. UNCHANGED <<devices, linked>> \/ CenterGetDeviceList
      BY <2>3 DEF SendGenericCommandToDevice
    <3>2. UNCHANGED <<cached, leaked, waking>>
      BY <2>3 DEF SendGenericCommandToDevice
    <3>. QED BY <3>1, <3>2, ListKnown DEF KnownTypes
  <2>4. CASE CreatMiddlewareRtc(c) \/ CreateAgain(c)
    <3>1. (linked' = linked \/ linked' \in BOOLEAN) /\ UNCHANGED <<devices, cached, leaked, waking>>
      BY <2>4 DEF CreatMiddlewareRtc, CreateAgain, Created
    <3>. QED BY <3>1 DEF KnownTypes
  <2>5. CASE ListAgain(c)
    <3>1. UNCHANGED <<devices, linked>> \/ CenterGetDeviceList
      BY <2>5 DEF ListAgain
    <3>2. UNCHANGED <<cached, leaked, waking>>
      BY <2>5 DEF ListAgain
    <3>. QED BY <3>1, <3>2, ListKnown DEF KnownTypes
  <2>. QED BY <1>6, <2>1, <2>2, <2>3, <2>4, <2>5 DEF Serves
<1>7. ASSUME NEW r, Wake(r) PROVE KnownTypes'
  <2>1. waking > 0 /\ waking' = waking - 1 /\ UNCHANGED <<known, leaked>>
    BY <1>7 DEF Wake
  <2>. QED BY <1>2, <2>1 DEF KnownTypes
<1>8. CASE Expire
  <2>1. waking' \in {waking, waking + 1} /\ UNCHANGED <<known, leaked>>
    BY <1>8 DEF Expire
  <2>. QED BY <1>2, <2>1 DEF KnownTypes
<1>9. CASE ExpireLeaked
  <2>1. leaked > 0 /\ leaked' = leaked - 1 /\ waking' = waking + 1 /\ UNCHANGED known
    BY <1>9 DEF ExpireLeaked
  <2>. QED BY <1>2, <2>1 DEF KnownTypes
<1>10. CASE LinkDrops
  BY <1>10 DEF LinkDrops, KnownTypes
<1>11. CASE UNCHANGED vars
  BY <1>1, <1>11 DEF vars
<1>. QED BY <1>3, <1>4, <1>5, <1>6, <1>7, <1>8, <1>9, <1>10, <1>11 DEF Next, Works

LEMMA InvHasTypes == ASSUME SessionInv, KnownTypes PROVE TypeOK
<1>1. loginLock \in Callers \cup {Nobody} /\ jpyCore \in BOOLEAN
  BY DEF SessionInv, SessionTypes
<1>2. session.state \in {"none", "open", "live", "dead"}
  BY DEF SessionInv, SessionTypes, IsSession
<1>. QED BY <1>1, <1>2 DEF KnownTypes, TypeOK

(* Whenever the lock of the login is free, a login that is held is whole, unless a relogin is about to clear
   it: its key and host are those of the Core, which has a session, and a session that a request dialled and
   that was logged in with a key is connected to that host and logged in with that key (EnsureLogin and
   forceRelogin of internal/service, Login and Reset of the Core). *)
THEOREM SessionWhole == SessionAssumption => (Spec => []SessionHeld)
<1>. SUFFICES ASSUME SessionAssumption PROVE Spec => []SessionHeld
  OBVIOUS
<1>1. Init => SessionInv
  BY SessionInit
<1>2. SessionInv /\ [Next]_vars => SessionInv'
  BY SessionKeeps
<1>3. SessionInv => SessionHeld
  BY DEF SessionInv
<1>. QED BY <1>1, <1>2, <1>3, PTL DEF Spec
==============================================================================
