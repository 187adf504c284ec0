------------------------- MODULE JobPollingProofs --------------------------
(***************************************************************************)
(* Theorems about JobPolling for any number of jobs, requests and timers.  *)
(* Until refreshes overlap there is one polling loop; until a request or a *)
(* timer strays it follows the active job, or the page tells of a failure. *)
(***************************************************************************)
EXTENDS JobPolling, TLAPS

Statuses == {"absent"} \cup Going \cup Over

CallType == [job : Jobs \cup {None}, pc : {"none", "status", "answer", "result"},
             saw : Statuses]

(* An outstanding request is for some job.                                 *)
CallsType ==
  { f \in [Calls -> CallType] : \A c \in Calls : f[c].pc # "none" => f[c].job \in Jobs }

(* What refreshJob does to the requests.                                   *)
LEMMA RefreshChanges ==
  ASSUME ClientType, NEW j \in Jobs, NEW left, Refresh(j, left)
  PROVE  /\ timers' = left /\ ref' = 0 /\ error' = FALSE
         /\ calls' \in CallsType
         /\ \E c \in Calls :
              /\ calls[c].pc = "none"
              /\ calls'[c].job = j /\ calls'[c].pc = "status"
              /\ \A d \in Calls : d # c => calls'[d] = calls[d]
<1> DEFINE asked == [NoCall EXCEPT !.job = j, !.pc = "status"]
<1>1. PICK c \in Calls : calls[c].pc = "none" /\ calls' = [calls EXCEPT ![c] = asked]
  BY DEF Refresh
<1>2. asked \in CallType /\ asked.job = j /\ asked.pc = "status"
  BY DEF NoCall, CallType, Statuses
<1>3. calls \in CallsType
  BY DEF ClientType, CallsType, CallType, Statuses
<1> HIDE DEF asked
<1> QED BY <1>1, <1>2, <1>3 DEF Refresh, CallsType

(* Clearing the timer of the reference clears the only one there is.       *)
LEMMA ClearedChanges ==
  ASSUME ClientType
  PROVE  /\ Cleared \in [Timers -> Jobs \cup {None}]
         /\ (\A t \in Pending : ref = t) => \A t \in Timers : Cleared[t] = None
BY DEF ClientType, Cleared, Pending, Timers

(* Making a job the active one leaves the requests of others alone.        *)
LEMMA ActivateChanges ==
  ASSUME ClientType, NEW j \in Jobs, Activate(j)
  PROVE  /\ active' = j
         /\ calls' \in CallsType
         /\ timers' \in [Timers -> Jobs \cup {None}]
         /\ ref' \in 0..MaxTimers
         /\ error' \in BOOLEAN
<1>0. 0 \in 0..MaxTimers
  BY PollingAssumption
<1>1. CASE j = active
  BY <1>1 DEF Activate, ClientType, CallsType, CallType, Statuses
<1>2. CASE j # active
  <2>1. active' = j /\ Refresh(j, Cleared)
    BY <1>2 DEF Activate
  <2>2. /\ timers' = Cleared /\ ref' = 0 /\ error' = FALSE
        /\ calls' \in CallsType
    BY <2>1, RefreshChanges
  <2> QED BY <2>1, <2>2, <1>0, ClearedChanges
<1> QED BY <1>1, <1>2

LEMMA ClickType ==
  ASSUME ClientType, Click
  PROVE  clicks' \in 0..MaxClicks
BY PollingAssumption DEF ClientType, Click

(* Type correctness, one step per callback.                                *)
LEMMA TypeStep ==
  ASSUME ClientType, [Next]_vars
  PROVE  ClientType'
<1> USE DEF CallsType, CallType, Statuses
<1>0. /\ calls \in CallsType
      /\ NoCall \in CallType /\ NoCall.pc = "none"
      /\ NoStatus \in [job : Jobs \cup {None}, status : Statuses]
  BY DEF ClientType, NoCall, NoStatus
<1>1. CASE UNCHANGED vars
  BY <1>1 DEF ClientType, vars
<1>2. CASE \E j \in Jobs : Select(j)
  BY <1>2, ActivateChanges, ClickType DEF Select, ClientType
<1>3. CASE \E j \in Jobs : RetryJob(j)
  <2>1. PICK j \in Jobs : RetryJob(j)
    BY <1>3
  <2>2. 0 \in 0..MaxTimers /\ retries + 1 \in Nat
    BY PollingAssumption DEF ClientType
  <2> QED BY <2>1, <2>2, ClearedChanges, ClickType DEF RetryJob, ClientType
<1>4. CASE RefreshButton
  <2>1. active \in Jobs /\ Refresh(active, Cleared)
    BY <1>4 DEF RefreshButton, ClientType
  <2>2. /\ timers' = Cleared /\ ref' = 0 /\ error' = FALSE
        /\ calls' \in CallsType
    BY <2>1, RefreshChanges
  <2>3. 0 \in 0..MaxTimers
    BY PollingAssumption
  <2> QED BY <1>4, <2>2, <2>3, ClearedChanges, ClickType DEF RefreshButton, ClientType
<1>5. CASE ResetJob
  <2>1. 0 \in 0..MaxTimers
    BY PollingAssumption
  <2> QED BY <1>5, <1>0, <2>1, ClearedChanges, ClickType DEF ResetJob, ClientType
<1>6. CASE SubmitUpload
  BY <1>6, ClickType DEF SubmitUpload, ClientType
<1>7. CASE \E j \in Jobs : Progress(j)
  BY <1>7 DEF Progress, ClientType, Going, Over
<1>8. ASSUME NEW j \in Jobs, Follow(j)
      PROVE  /\ server' \in [Jobs -> {"absent"} \cup Going \cup Over]
             /\ shown' \in [job : Jobs \cup {None},
                            status : {"absent"} \cup Going \cup Over]
             /\ UNCHANGED <<result, clicks>>
  BY <1>8 DEF Follow, ClientType, Going
<1>9. CASE \E j \in Jobs : Uploaded(j)
  BY <1>9, <1>8, ActivateChanges DEF Uploaded, Follow, ClientType
<1>10. CASE \E j \in Jobs : Retried(j)
  <2>1. retries > 0 => retries - 1 \in Nat
    BY DEF ClientType
  <2> QED BY <1>10, <1>8, <2>1, ActivateChanges DEF Retried, Follow, ClientType
<1>11. CASE PostFails
  <2>1. retries > 0 => retries - 1 \in Nat
    BY DEF ClientType
  <2> QED BY <1>11, <2>1 DEF PostFails, ClientType
<1>12. CASE \E c \in Calls : Answer(c)
  <2>1. PICK c \in Calls : Answer(c)
    BY <1>12
  <2>2. calls[c].job \in Jobs => server[calls[c].job] \in Statuses
    BY DEF ClientType
  <2>3. calls' \in CallsType
    <3>1. calls[c] \in CallType
      BY <1>0
    <3>2. calls[c].job \in Jobs
      BY <2>1, <1>0 DEF Answer
    <3> QED BY <2>1, <2>2, <3>1, <3>2, <1>0 DEF Answer
  <2> QED BY <2>1, <2>3 DEF Answer, ClientType
<1>13. CASE \E c \in Calls : ShowStatus(c)
  <2>1. PICK c \in Calls : ShowStatus(c)
    BY <1>13
  <2>2. calls' \in CallsType
    BY <2>1, <1>0 DEF ShowStatus
  <2>3. calls[c] \in CallType
    BY <1>0
  <2>4. \A t \in Timers : t \in 0..MaxTimers
    BY PollingAssumption DEF Timers
  <2>5. timers' \in [Timers -> Jobs \cup {None}] /\ ref' \in 0..MaxTimers
    BY <2>1, <2>3, <2>4 DEF ShowStatus, ClientType
  <2>6. /\ shown' \in [job : Jobs \cup {None}, status : Statuses]
        /\ result' \in Jobs \cup {None}
    BY <2>1, <2>3 DEF ShowStatus, ClientType
  <2> QED BY <2>1, <2>2, <2>5, <2>6 DEF ShowStatus, ClientType
<1>14. CASE \E c \in Calls : ShowResult(c) \/ CallFails(c)
  <2>1. PICK c \in Calls : ShowResult(c) \/ CallFails(c)
    BY <1>14
  <2>2. calls' \in CallsType
    BY <2>1, <1>0 DEF ShowResult, CallFails
  <2>3. result' \in Jobs \cup {None}
    BY <2>1 DEF ShowResult, CallFails, ClientType
  <2> QED BY <2>1, <2>2, <2>3 DEF ShowResult, CallFails, ClientType
<1>15. CASE \E t \in Timers : Fire(t)
  <2>1. PICK t \in Timers : Fire(t)
    BY <1>15
  <2>2. timers[t] \in Jobs
    BY <2>1 DEF Fire, ClientType
  <2>3. [Cleared EXCEPT ![t] = None] \in [Timers -> Jobs \cup {None}]
    BY ClearedChanges
  <2> DEFINE left == [Cleared EXCEPT ![t] = None]
  <2> HIDE DEF left
  <2>4. Refresh(timers[t], left)
    BY <2>1 DEF Fire, left
  <2>5. /\ timers' = left /\ ref' = 0 /\ error' = FALSE
        /\ calls' \in CallsType
    BY <2>2, <2>4, RefreshChanges
  <2>6. 0 \in 0..MaxTimers
    BY PollingAssumption
  <2>7. timers' \in [Timers -> Jobs \cup {None}]
    BY <2>3, <2>5 DEF left
  <2> QED BY <2>1, <2>5, <2>6, <2>7 DEF Fire, ClientType
<1> QED
  BY <1>1, <1>2, <1>3, <1>4, <1>5, <1>6, <1>7, <1>9, <1>10, <1>11, <1>12, <1>13,
     <1>14, <1>15 DEF Next, Step, User, Callback

(* The first state.                                                        *)
LEMMA TypeInit ==
  ASSUME Init
  PROVE  ClientType
<1>1. NoCall \in CallType /\ NoStatus \in [job : Jobs \cup {None}, status : Statuses]
  BY DEF NoCall, NoStatus, CallType, Statuses
<1>2. [NoCall EXCEPT !.job = active, !.pc = "status"] \in CallType
  BY DEF Init, NoCall, CallType, Statuses
<1>3. calls \in CallsType
  BY <1>1, <1>2 DEF Init, CallsType, NoCall
<1>4. server \in [Jobs -> {"absent"} \cup Going \cup Over]
  BY DEF Init, Going, Over
<1>5. 0 \in 0..MaxTimers /\ 0 \in 0..MaxClicks /\ 0 \in Nat
  BY PollingAssumption
<1> QED BY <1>1, <1>3, <1>4, <1>5 DEF Init, ClientType, CallsType, CallType, Statuses

(* Every state of the front end keeps its type, whatever the user, the     *)
(* network and the server do.                                              *)
THEOREM TypeCorrect == Spec => []TypeOK
<1>1. Init => TypeOK
  BY TypeInit DEF TypeOK, Init
<1>2. TypeOK /\ [Next]_vars => TypeOK'
  <2>1. TypeOK /\ Recorded => overlap' \in BOOLEAN /\ astray' \in BOOLEAN
    <3>1. TypeOK /\ Recorded /\ Asks => overlap' \in BOOLEAN
      BY DEF Recorded
    <3>2. TypeOK /\ Recorded /\ ~Asks => overlap' \in BOOLEAN
      BY DEF Recorded, TypeOK
    <3> QED BY <3>1, <3>2 DEF Recorded
  <2> QED BY <2>1, TypeStep DEF TypeOK, Next, vars
<1> QED BY <1>1, <1>2, PTL DEF Spec

-----------------------------------------------------------------------------
(* What begins a refreshJob, and what does not.                            *)

LEMMA RefreshAsks ==
  ASSUME ClientType, NEW j \in Jobs, NEW left, Refresh(j, left)
  PROVE  /\ Asks /\ timers' = left
         /\ Asking = {} => \E c \in Calls : Asking' = {c}
<1>1. PICK c \in Calls :
        /\ calls[c].pc = "none"
        /\ calls'[c].job = j /\ calls'[c].pc = "status"
        /\ \A d \in Calls : d # c => calls'[d] = calls[d]
  BY RefreshChanges
<1>2. timers' = left
  BY DEF Refresh
<1>3. Asking = {} => Asking' = {c}
  BY <1>1 DEF Asking
<1> QED BY <1>1, <1>2, <1>3 DEF Asks

(* Every step begins a refreshJob, with the button, for a new active job   *)
(* or by a timer, or is one of those that do not.                          *)
LEMMA StepKinds ==
  ASSUME ClientType, active # None => server[active] # "absent", Step
  PROVE  \/ \E j \in Jobs : Refresh(j, Cleared)
         \/ \E t \in Timers : Fire(t)
         \/ UNCHANGED <<active, server, shown, result, error, calls, timers, ref,
                        uploading, retrying, retries>>
         \/ \E j \in Jobs : RetryJob(j) \/ Progress(j)
         \/ ResetJob \/ SubmitUpload \/ PostFails
         \/ \E c \in Calls : Answer(c) \/ ShowStatus(c) \/ ShowResult(c) \/ CallFails(c)
<1>1. ASSUME NEW j \in Jobs, Select(j)
      PROVE  \/ Refresh(j, Cleared)
             \/ UNCHANGED <<active, server, shown, result, error, calls, timers, ref,
                            uploading, retrying, retries>>
  BY <1>1 DEF Select, Activate
<1>2. ASSUME NEW j \in Jobs, Follow(j)
      PROVE  Refresh(j, Cleared)
  BY <1>2, PollingAssumption DEF Follow, Activate
<1>3. CASE RefreshButton
  <2>1. active \in Jobs /\ Refresh(active, Cleared)
    BY <1>3 DEF RefreshButton, ClientType
  <2> QED BY <2>1
<1> QED
  BY <1>1, <1>2, <1>3 DEF Step, User, Callback, Uploaded, Retried

(* The active job exists.                                                  *)
LEMMA ActiveExists ==
  ASSUME ClientType, active # None => server[active] # "absent", Step
  PROVE  active' # None => server'[active'] # "absent"
<1>1. CASE \E j \in Jobs : Select(j)
  BY <1>1 DEF Select, Activate
<1>2. ASSUME NEW j \in Jobs, Follow(j)
      PROVE  active' = j /\ server'[j] = "queued"
  BY <1>2 DEF Follow, Activate, ClientType
<1>3. CASE \E j \in Jobs : Progress(j)
  BY <1>3 DEF Progress, Over, ClientType
<1>4. CASE ResetJob
  BY <1>4 DEF ResetJob
<1>5. CASE UNCHANGED <<active, server>>
  BY <1>5
<1> QED
  BY <1>1, <1>2, <1>3, <1>4, <1>5
     DEF Step, User, Callback, Uploaded, Retried, RefreshButton, SubmitUpload, RetryJob,
         PostFails, Answer, ShowStatus, ShowResult, CallFails, Fire

-----------------------------------------------------------------------------
(* One polling loop.                                                       *)

(* A refreshJob that begins alone leaves nothing else on its way.          *)
LEMMA BeginsAlone ==
  ASSUME ClientType, ~overlap => OneThingAtATime, NEW j \in Jobs, NEW left,
         Refresh(j, left), Recorded, ~overlap',
         OneThingAtATime => \A t \in Timers : left[t] = None
  PROVE  OneThingAtATime'
<1>1. Asks /\ timers' = left
  BY RefreshAsks
<1>2. Asking = {} /\ (~overlap \/ Pending' = {})
  BY <1>1 DEF Recorded
<1>3. Pending' = {}
  BY <1>1, <1>2 DEF Pending
<1>4. \E c \in Calls : Asking' = {c}
  BY <1>2, RefreshAsks
<1> QED BY <1>3, <1>4 DEF OneThingAtATime

(* What awaits an answer excludes a timer, and the other way round.        *)
LEMMA OneThingStep ==
  ASSUME ClientType, active # None => server[active] # "absent",
         ~overlap => OneThingAtATime, Step, Recorded, ~overlap'
  PROVE  OneThingAtATime'
<1>0. /\ Asking' = {c \in Calls : calls'[c].pc # "none"}
      /\ Pending' = {t \in Timers : timers'[t] # None}
      /\ calls \in CallsType /\ NoCall.pc = "none"
  BY DEF Asking, Pending, ClientType, CallsType, CallType, Statuses, NoCall
<1>1. CASE \E j \in Jobs : Refresh(j, Cleared)
  BY <1>1, BeginsAlone, ClearedChanges DEF OneThingAtATime
<1>2. CASE \E t \in Timers : Fire(t)
  <2>1. PICK t \in Timers : Fire(t)
    BY <1>2
  <2> DEFINE left == [Cleared EXCEPT ![t] = None]
  <2>2. timers[t] \in Jobs /\ Refresh(timers[t], left)
    BY <2>1 DEF Fire, ClientType
  <2>3. OneThingAtATime => \A u \in Timers : left[u] = None
    BY ClearedChanges DEF OneThingAtATime
  <2> HIDE DEF left
  <2> QED BY <2>2, <2>3, BeginsAlone
<1>3. CASE ~Asks /\ UNCHANGED <<calls, timers, ref>>
  <2>1. OneThingAtATime
    BY <1>3 DEF Recorded
  <2> QED BY <1>3, <2>1 DEF OneThingAtATime, Asking, Pending
<1>4. UNCHANGED calls => ~Asks
  BY DEF Asks
<1>5. CASE ResetJob \/ \E j \in Jobs : RetryJob(j)
  <2>1. timers' = Cleared /\ ref' = 0 /\ calls' = calls
    BY <1>5 DEF ResetJob, RetryJob
  <2>2. OneThingAtATime
    BY <2>1, <1>4 DEF Recorded, Asks
  <2>3. Asking' = Asking /\ Pending' = {}
    BY <2>1, <2>2, ClearedChanges DEF Asking, Pending, OneThingAtATime
  <2> QED BY <2>2, <2>3 DEF OneThingAtATime
<1>6. CASE \E c \in Calls : Answer(c) \/ ShowStatus(c) \/ ShowResult(c) \/ CallFails(c)
  <2>1. PICK c \in Calls : Answer(c) \/ ShowStatus(c) \/ ShowResult(c) \/ CallFails(c)
    BY <1>6
  <2>2. /\ c \in Asking
        /\ \A d \in Calls : d # c => calls'[d] = calls[d]
        /\ calls'[c].pc # "status"
    BY <2>1, <1>0
       DEF Answer, ShowStatus, ShowResult, CallFails, Asking, CallsType, CallType
  <2>3. ~Asks
    BY <2>2 DEF Asks
  <2>4. OneThingAtATime
    BY <2>3 DEF Recorded
  <2>5. Asking = {c} /\ Pending = {} /\ Asking' \subseteq {c}
    BY <2>2, <2>4, <1>0 DEF OneThingAtATime, Asking
  <2>6. CASE timers' = timers
    BY <2>5, <2>6 DEF OneThingAtATime, Pending
  <2>7. CASE timers' # timers
    <3>1. /\ ShowStatus(c) /\ calls' = [calls EXCEPT ![c] = NoCall]
          /\ \E t \in Timers : timers' = [timers EXCEPT ![t] = calls[c].job] /\ ref' = t
      BY <2>1, <2>7 DEF Answer, ShowStatus, ShowResult, CallFails
    <3>2. Asking' = {}
      BY <3>1, <2>5, <1>0 DEF CallsType
    <3>3. calls[c].job # None
      BY <2>2, PollingAssumption DEF ClientType, Asking
    <3>4. \E t \in Timers : Pending' = {t} /\ ref' = t
      BY <1>0, <2>5, <3>1, <3>3 DEF ClientType, Pending
    <3> QED BY <3>2, <3>4 DEF OneThingAtATime
  <2> QED BY <2>6, <2>7
<1> QED
  BY <1>1, <1>2, <1>3, <1>4, <1>5, <1>6, StepKinds
     DEF Progress, SubmitUpload, PostFails

-----------------------------------------------------------------------------
(* The panel and the active job.                                           *)

(* After a refreshJob has begun, what matters is asked for.  Otherwise the *)
(* step keeps or settles each claim about the panel.                       *)
LEMMA AllForActiveStep ==
  ASSUME ClientType, active # None => server[active] # "absent",
         ~astray => AllForActive, Step, Recorded, ~astray'
  PROVE  AllForActive'
<1>0. /\ ~Strays'
      /\ NoCall.pc = "none" /\ NoStatus.status = "absent"
      /\ calls \in CallsType
  BY DEF Recorded, NoCall, NoStatus, ClientType, CallsType, CallType, Statuses
<1>1. CASE Asks
  <2>1. Requesting' /\ Asking' # {}
    BY <1>1 DEF Asks, Requesting, Asking
  <2> QED BY <1>0, <2>1 DEF AllForActive
<1>2. CASE ~Asks
  <2>0. AllForActive
    BY <1>2 DEF Recorded
  <2>1. CASE UserKnows'
    BY <1>0, <2>1 DEF AllForActive
  <2>2. CASE UNCHANGED <<active, shown, result, error, calls, timers, uploading, retries>>
    BY <1>0, <2>0, <2>2
       DEF AllForActive, Requesting, UserKnows, Asking, Pending, EndShown
  <2>3. CASE ResetJob
    BY <1>0, <2>3 DEF ResetJob, AllForActive
  <2>4. CASE \E c \in Calls : Answer(c)
    <3>1. Requesting' /\ Asking' # {}
      BY <1>0, <2>4 DEF Answer, Requesting, Asking, CallsType, CallType
    <3> QED BY <1>0, <3>1 DEF AllForActive
  <2>5. CASE \E c \in Calls : ShowStatus(c)
    <3>1. PICK c \in Calls : ShowStatus(c)
      BY <2>5
    <3>2. /\ calls[c].job = active /\ active' = active /\ active \in Jobs
          /\ shown' = [job |-> active, status |-> calls[c].saw]
      BY <1>0, <2>0, <3>1 DEF ShowStatus, AllForActive, Strays, Asking, CallsType
    <3>3. CASE calls[c].saw = "completed"
      <4>1. calls'[c].pc = "result"
        BY <1>0, <3>1, <3>3 DEF ShowStatus, CallsType, CallType
      <4>2. Asking' # {} /\ EndShown' /\ shown'.job = active'
        BY <3>2, <3>3, <4>1 DEF Asking, EndShown, Over
      <4> QED BY <1>0, <4>2 DEF AllForActive
    <3>4. CASE calls[c].saw # "completed"
      <4>1. CASE IsTerminal(calls[c].saw)
        BY <1>0, <3>2, <3>4, <4>1 DEF AllForActive, EndShown, IsTerminal
      <4>2. CASE ~IsTerminal(calls[c].saw)
        <5>1. \E t \in Timers : timers' = [timers EXCEPT ![t] = active]
          BY <3>1, <3>2, <3>4, <4>2 DEF ShowStatus
        <5>2. Pending' # {}
          BY <3>2, <5>1, PollingAssumption DEF ClientType, Pending
        <5> QED BY <1>0, <3>2, <3>4, <5>2 DEF AllForActive
      <4> QED BY <4>1, <4>2
    <3> QED BY <3>3, <3>4
  <2>6. CASE \E c \in Calls : ShowResult(c)
    <3>1. PICK c \in Calls : ShowResult(c)
      BY <2>6
    <3>2. /\ calls[c].pc = "result" /\ calls' = [calls EXCEPT ![c] = NoCall]
          /\ calls[c].job = active /\ result' = active
          /\ UNCHANGED <<active, shown, timers, error, uploading, retries>>
      BY <1>0, <2>0, <3>1 DEF ShowResult, AllForActive, Strays, Asking
    <3>3. Requesting' = Requesting
      BY <1>0, <3>2 DEF Requesting, Asking, CallsType
    <3>4. Requesting' => Asking' # {}
      BY DEF Requesting
    <3> QED
      BY <1>0, <2>0, <3>2, <3>3, <3>4 DEF AllForActive, UserKnows, Pending, EndShown
  <2>7. CASE SubmitUpload \/ PostFails \/ \E c \in Calls : CallFails(c)
    BY <2>1, <2>7 DEF SubmitUpload, PostFails, CallFails, UserKnows
  <2>8. CASE \E j \in Jobs : RetryJob(j)
    <3>1. retries' > 0
      BY <2>8 DEF RetryJob, ClientType
    <3> QED BY <2>1, <3>1 DEF UserKnows
  <2>9. ASSUME NEW j \in Jobs, NEW left, Refresh(j, left)
        PROVE  FALSE
    BY <1>2, <2>9, RefreshAsks
  <2>10. CASE \E t \in Timers : Fire(t)
    BY <2>9, <2>10 DEF Fire, ClientType
  <2> QED
    BY <2>2, <2>3, <2>4, <2>5, <2>6, <2>7, <2>8, <2>9, <2>10, StepKinds DEF Progress
<1> QED BY <1>1, <1>2

LEMMA PollingStep ==
  ASSUME ClientType, PollingInv, [Next]_vars
  PROVE  PollingInv'
<1>1. CASE UNCHANGED vars
  BY <1>1
     DEF vars, PollingInv, OneThingAtATime, AllForActive, Strays, Requesting, UserKnows,
         Asking, Pending, EndShown
<1>2. CASE Next
  BY <1>2, ActiveExists, OneThingStep, AllForActiveStep DEF Next, PollingInv
<1> QED BY <1>1, <1>2

(* At the start the only request is for the job that is active.            *)
LEMMA PollingInit ==
  ASSUME Init
  PROVE  PollingInv
<1>1. Pending = {}
  BY DEF Init, Pending
<1>2. \A c \in Calls :
        /\ c = 1 /\ active # None => calls[c].pc = "status" /\ calls[c].job = active
        /\ ~(c = 1 /\ active # None) => calls[c].pc = "none"
  BY DEF Init, NoCall
<1>3. 1 \in Calls
  BY PollingAssumption DEF Calls
<1>4. OneThingAtATime
  BY <1>1, <1>2 DEF OneThingAtATime, Asking
<1>5. ~Strays /\ shown = NoStatus /\ shown.status # "completed"
  BY <1>1, <1>2 DEF Strays, Asking, Init, NoStatus
<1>6. active # None => Requesting
  BY <1>2, <1>3 DEF Requesting, Asking
<1>7. active # None => server[active] # "absent"
  BY PollingAssumption DEF Init
<1> QED BY <1>4, <1>5, <1>6, <1>7 DEF PollingInv, AllForActive

LEMMA PollingHolds == Spec => [](ClientType /\ PollingInv)
<1>1. Init => ClientType /\ PollingInv
  BY TypeInit, PollingInit
<1>2. ClientType /\ PollingInv /\ [Next]_vars => (ClientType /\ PollingInv)'
  BY TypeStep, PollingStep
<1> QED BY <1>1, <1>2, PTL DEF Spec

(* Until a refreshJob begins while another awaits its answer, requests and *)
(* timers never multiply, whatever fails and whatever the user does.       *)
THEOREM OneLoop == Spec => []OnePollingLoop
<1>1. PollingInv => OnePollingLoop
  BY DEF PollingInv, OneThingAtATime, OnePollingLoop
<1> QED BY <1>1, PollingHolds, PTL

(* For any user, and with failing requests: the active job is polled until *)
(* its end is shown, or the page knows that it is not, unless a request or *)
(* timer for another job has come in between.                              *)
THEOREM PollingGoesOn == Spec => []ActiveJobIsPolled
<1>1. PollingInv => ActiveJobIsPolled
  <2> SUFFICES ASSUME PollingInv, ~astray, active # None, ~EndShown, ~UserKnows
               PROVE  \/ \E c \in Calls : calls[c].job = active
                      \/ \E t \in Timers : timers[t] = active
    BY DEF ActiveJobIsPolled
  <2>1. ~Strays /\ (Requesting \/ Pending # {})
    BY DEF PollingInv, AllForActive
  <2> QED BY <2>1 DEF Strays, Requesting, Asking, Pending
<1> QED BY <1>1, PollingHolds, PTL

(* Whenever nothing is on its way the panel shows the active job, and its  *)
(* result if it says completed, in whatever order refreshes of the job     *)
(* were answered.                                                          *)
THEOREM PanelFollowsTheJob == Spec => []PanelShowsTheJob
<1>1. PollingInv => PanelShowsTheJob
  BY DEF PollingInv, AllForActive, PanelShowsTheJob, Requesting
<1> QED BY <1>1, PollingHolds, PTL
=============================================================================
