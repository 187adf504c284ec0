----------------------------- MODULE JobPolling -----------------------------
(***************************************************************************)
(* How the front end follows a transcription job.  refreshJob asks for the *)
(* status, shows it, and sets a timer to ask again while the job goes on;  *)
(* the user meanwhile selects, refreshes, clears, uploads and retries.     *)
(*                                                                         *)
(* JavaScript runs one callback at a time, and a step here is one callback *)
(* up to its next await: what it read before is stale after.  Nothing      *)
(* cancels a request, and one reference remembers the timer.  Two history  *)
(* variables say when overlapping calls have happened.                     *)
(***************************************************************************)
EXTENDS Integers

CONSTANTS
  Jobs,        (* the jobs of the history, and those still to be created    *)
  None,        (* no job                                                    *)
  MaxCalls,    (* bound: refreshJob invocations awaiting an answer          *)
  MaxTimers,   (* bound: pending poll timers                                *)
  MaxClicks    (* bound: what the user does                                 *)

ASSUME PollingAssumption ==
  /\ MaxCalls \in Nat \ {0} /\ MaxTimers \in Nat \ {0} /\ MaxClicks \in Nat
  /\ None \notin Jobs

VARIABLES
  server,     (* server[j]: the status of the job in the backend            *)
  active,     (* activeJobId                                                *)
  shown,      (* jobStatus: the job and the status that the panel shows     *)
  result,     (* the job whose result is shown                              *)
  error,      (* jobError: a message is shown                               *)
  calls,      (* calls[c]: a refreshJob that awaits an answer               *)
  timers,     (* timers[t]: the job that a pending timer will refresh       *)
  ref,        (* pollTimer.current, 0 when its timer has fired or is gone   *)
  uploading,  (* an upload awaits its answer                                *)
  retrying,   (* retryingJobId                                              *)
  retries,    (* retry requests awaiting their answer                       *)
  clicks,
  overlap,    (* a refreshJob began while another awaited an answer, and no *)
              (* later one has begun alone                                  *)
  astray      (* there has been a request or a timer for a job that is not  *)
              (* the active one, and no refreshJob has begun without it     *)

vars == <<server, active, shown, result, error, calls, timers, ref, uploading,
          retrying, retries, clicks, overlap, astray>>

Going == {"queued", "processing"}
Over == {"completed", "failed", "interrupted"}

(* Deviation: interrupted jobs are not recognised as terminal.             *)
IsTerminalOld(s) == s \in {"completed", "failed"}

IsTerminal(s) == s \in Over

Calls == 1..MaxCalls
Timers == 1..MaxTimers

NoStatus == [job |-> None, status |-> "absent"]
NoCall == [job |-> None, pc |-> "none", saw |-> "absent"]

ClientType ==
  /\ server \in [Jobs -> {"absent"} \cup Going \cup Over]
  /\ active \in Jobs \cup {None}
  /\ shown \in [job : Jobs \cup {None}, status : {"absent"} \cup Going \cup Over]
  /\ result \in Jobs \cup {None}
  /\ error \in BOOLEAN
  /\ calls \in [Calls -> [job : Jobs \cup {None},
                          pc : {"none", "status", "answer", "result"},
                          saw : {"absent"} \cup Going \cup Over]]
  /\ \A c \in Calls : calls[c].pc # "none" => calls[c].job \in Jobs
  /\ timers \in [Timers -> Jobs \cup {None}]
  /\ ref \in 0..MaxTimers
  /\ uploading \in BOOLEAN
  /\ retrying \in Jobs \cup {None}
  /\ retries \in Nat
  /\ clicks \in 0..MaxClicks

TypeOK == ClientType /\ overlap \in BOOLEAN /\ astray \in BOOLEAN

Asking == {c \in Calls : calls[c].pc # "none"}
Pending == {t \in Timers : timers[t] # None}

-----------------------------------------------------------------------------
(* Timers and requests.                                                    *)

(* window.clearTimeout(pollTimer.current)                                  *)
Cleared == IF ref = 0 THEN timers ELSE [timers EXCEPT ![ref] = None]

(* refreshJob up to its first await, with the timers that are left by then *)
Refresh(j, left) ==
  /\ \E c \in Calls :
       /\ calls[c].pc = "none"
       /\ \A d \in Calls : d < c => calls[d].pc # "none"
       /\ calls' = [calls EXCEPT ![c] = [NoCall EXCEPT !.job = j, !.pc = "status"]]
  /\ timers' = left
  /\ ref' = 0
  /\ error' = FALSE

Init ==
  /\ server \in [Jobs -> {"absent", "processing", "completed"}]
  /\ active \in {None} \cup {j \in Jobs : server[j] # "absent"}
  /\ shown = NoStatus /\ result = None /\ error = FALSE
  /\ calls = [c \in Calls |->
       IF c = 1 /\ active # None
       THEN [NoCall EXCEPT !.job = active, !.pc = "status"] ELSE NoCall]
  /\ timers = [t \in Timers |-> None] /\ ref = 0
  /\ uploading = FALSE /\ retrying = None /\ retries = 0
  /\ clicks = 0
  /\ overlap = FALSE /\ astray = FALSE

(* The backend, external here: a job goes on and ends.                     *)
Progress(j) ==
  /\ server[j] \in Going
  /\ \E s \in (IF server[j] = "queued" THEN {"processing"} ELSE Over) :
       server' = [server EXCEPT ![j] = s]
  /\ UNCHANGED <<active, shown, result, error, calls, timers, ref, uploading,
                 retrying, retries, clicks>>

(* The server answers with the status of that moment.                      *)
Answer(c) ==
  /\ calls[c].pc = "status"
  /\ calls' = [calls EXCEPT ![c].pc = "answer", ![c].saw = server[calls[c].job]]
  /\ UNCHANGED <<server, active, shown, result, error, timers, ref, uploading,
                 retrying, retries, clicks>>

(* The answer arrives.  Nothing asks whether its job is still the active   *)
(* one, nor whether the reference still names a pending timer.             *)
ShowStatus(c) ==
  LET j == calls[c].job  s == calls[c].saw IN
  /\ calls[c].pc = "answer"
  /\ shown' = [job |-> j, status |-> s]
  /\ IF s = "completed"
     THEN /\ calls' = [calls EXCEPT ![c].pc = "result"]
          /\ UNCHANGED <<result, timers, ref>>
     ELSE /\ calls' = [calls EXCEPT ![c] = NoCall]
          /\ result' = None
          /\ IF IsTerminal(s)
             THEN UNCHANGED <<timers, ref>>
             ELSE \E t \in Timers :
                    /\ timers[t] = None
                    /\ \A u \in Timers : u < t => timers[u] # None
                    /\ timers' = [timers EXCEPT ![t] = j]
                    /\ ref' = t
  /\ UNCHANGED <<server, active, error, uploading, retrying, retries, clicks>>

(* Deviation: a result is only taken when none is shown.                   *)
ShowResultFirst(c) ==
  /\ calls[c].pc = "result"
  /\ result' = IF result = None THEN calls[c].job ELSE result
  /\ calls' = [calls EXCEPT ![c] = NoCall]
  /\ UNCHANGED <<server, active, shown, error, timers, ref, uploading,
                 retrying, retries, clicks>>

ShowResult(c) ==
  /\ calls[c].pc = "result"
  /\ result' = calls[c].job
  /\ calls' = [calls EXCEPT ![c] = NoCall]
  /\ UNCHANGED <<server, active, shown, error, timers, ref, uploading,
                 retrying, retries, clicks>>

(* Deviation: the failure is not shown.                                    *)
CallFailsSilently(c) ==
  /\ calls[c].pc # "none"
  /\ calls' = [calls EXCEPT ![c] = NoCall]
  /\ UNCHANGED <<server, active, shown, result, error, timers, ref, uploading,
                 retrying, retries, clicks>>

(* The catch branch of refreshJob: the message is shown, no timer is set.  *)
CallFails(c) ==
  /\ calls[c].pc # "none"
  /\ calls' = [calls EXCEPT ![c] = NoCall]
  /\ error' = TRUE
  /\ UNCHANGED <<server, active, shown, result, timers, ref, uploading,
                 retrying, retries, clicks>>

(* Deviation: a poll that finds a request outstanding is skipped.          *)
FireSkipped(t) ==
  LET left == [timers EXCEPT ![t] = None] IN
  /\ timers[t] # None
  /\ IF Asking = {} THEN Refresh(timers[t], left)
     ELSE timers' = left /\ UNCHANGED <<calls, ref, error>>
  /\ UNCHANGED <<server, active, shown, result, uploading, retrying, retries, clicks>>

(* A timer fires; refreshJob then clears whatever timer the reference      *)
(* names, which may belong to another job.                                 *)
Fire(t) ==
  /\ timers[t] # None
  /\ Refresh(timers[t], [Cleared EXCEPT ![t] = None])
  /\ UNCHANGED <<server, active, shown, result, uploading, retrying, retries,
                 clicks>>

-----------------------------------------------------------------------------
(* The user.                                                               *)

Click == clicks < MaxClicks /\ clicks' = clicks + 1

(* setActiveJobId and the effect it triggers: the clean-up clears the      *)
(* timer, then the new job is refreshed.                                   *)
Activate(j) ==
  /\ active' = j
  /\ IF j = active THEN UNCHANGED <<calls, timers, ref, error>> ELSE Refresh(j, Cleared)

Select(j) ==
  /\ Click
  /\ server[j] # "absent"
  /\ Activate(j)
  /\ UNCHANGED <<server, shown, result, uploading, retrying, retries>>

(* Deviation: the pending timer is left alone.                             *)
RefreshBeside ==
  /\ Click
  /\ active # None
  /\ Refresh(active, timers)
  /\ UNCHANGED <<server, active, shown, result, uploading, retrying, retries>>

RefreshButton ==
  /\ Click
  /\ active # None
  /\ Refresh(active, Cleared)
  /\ UNCHANGED <<server, active, shown, result, uploading, retrying, retries>>

ResetJob ==
  /\ Click
  /\ active # None
  /\ active' = None /\ shown' = NoStatus /\ result' = None /\ error' = FALSE
  /\ timers' = Cleared /\ ref' = 0
  /\ UNCHANGED <<server, calls, uploading, retrying, retries>>

(* submitUpload leaves the timer of the active job alone: its polling goes *)
(* on while the file is sent.                                              *)
SubmitUpload ==
  /\ Click
  /\ ~uploading
  /\ uploading' = TRUE
  /\ result' = None /\ error' = FALSE
  /\ UNCHANGED <<server, active, shown, calls, timers, ref, retrying, retries>>

(* A row of the history offers a retry of a job that is over; only the     *)
(* button of the job that was retried last is disabled.                    *)
CanRetry(j) == server[j] \in Over /\ retrying # j

RetryJob(j) ==
  /\ Click
  /\ CanRetry(j)
  /\ timers' = Cleared /\ ref' = 0
  /\ retrying' = j
  /\ retries' = retries + 1
  /\ result' = None /\ error' = FALSE
  /\ UNCHANGED <<server, active, shown, calls, uploading>>

(* The server accepts an upload or a retry, and its answer makes the new   *)
(* job the active one, shown as queued.                                    *)
Follow(j) ==
  /\ server[j] = "absent"
  /\ server' = [server EXCEPT ![j] = "queued"]
  /\ Activate(j)
  /\ shown' = [job |-> j, status |-> "queued"]
  /\ UNCHANGED <<result, clicks>>

Uploaded(j) ==
  /\ uploading /\ uploading' = FALSE
  /\ Follow(j)
  /\ UNCHANGED <<retrying, retries>>

Retried(j) ==
  /\ retries > 0 /\ retries' = retries - 1
  /\ retrying' = None
  /\ Follow(j)
  /\ UNCHANGED uploading

(* The catch branches: a message, and nothing else changes back.           *)
PostFails ==
  /\ error' = TRUE
  /\ \/ uploading /\ uploading' = FALSE /\ UNCHANGED <<retrying, retries>>
     \/ retries > 0 /\ retries' = retries - 1 /\ retrying' = None /\ UNCHANGED uploading
  /\ UNCHANGED <<server, active, shown, result, calls, timers, ref, clicks>>

-----------------------------------------------------------------------------
User ==
  \/ \E j \in Jobs : Select(j) \/ RetryJob(j)
  \/ RefreshButton \/ ResetJob \/ SubmitUpload

Callback(c) == Answer(c) \/ ShowStatus(c) \/ ShowResult(c)

Step ==
  \/ User
  \/ \E j \in Jobs : Progress(j) \/ Uploaded(j) \/ Retried(j)
  \/ PostFails
  \/ \E c \in Calls : Callback(c) \/ CallFails(c)
  \/ \E t \in Timers : Fire(t)

(* The history.                                                            *)
Strays ==
  \/ \E c \in Asking : calls[c].job # active
  \/ \E t \in Pending : timers[t] # active

Asks == \E c \in Calls : calls[c].pc = "none" /\ calls'[c].pc = "status"

Recorded ==
  /\ overlap' = IF Asks THEN Asking # {} \/ (overlap /\ Pending' # {}) ELSE overlap
  /\ astray' = (Strays' \/ (astray /\ ~Asks))

Next == Step /\ Recorded

Spec == Init /\ [][Next]_vars

(* Requests are answered, timers fire, jobs end.                           *)
Fairness ==
  /\ \A j \in Jobs : WF_vars(Progress(j) /\ Recorded)
  /\ \A c \in Calls : WF_vars(Callback(c) /\ Recorded)
  /\ \A t \in Timers : WF_vars(Fire(t) /\ Recorded)

FairSpec == Spec /\ Fairness

-----------------------------------------------------------------------------
(* The chains of requests and timers never multiply, also when requests    *)
(* fail, unless a refreshJob began while another awaited its answer: then  *)
(* both set a timer, and the reference forgets the first.                  *)
OnePollingLoop ==
  ~overlap =>
    /\ \A c, d \in Asking : c = d
    /\ \A t, u \in Pending : t = u
    /\ Asking = {} \/ Pending = {}

EndShown == shown.job = active /\ shown.status \in Over

(* An upload or a retry that awaits its answer, or the message of a        *)
(* request that failed.                                                    *)
UserKnows == error \/ uploading \/ retries > 0

(* The active job has a request or a timer until its end is shown; polling *)
(* stops without the end only after a request failed or a retry took the   *)
(* timer, and then the page says so, or sends the user's next job.  An     *)
(* orphan can end it silently: a chain for another job clears its timer.   *)
ActiveJobIsPolled ==
  ~astray /\ active # None /\ ~EndShown =>
    \/ \E c \in Calls : calls[c].job = active
    \/ \E t \in Timers : timers[t] = active
    \/ UserKnows

(* Whenever nothing is on its way, the panel shows the active job, and the *)
(* result of that job if it says completed, in whatever order overlapping  *)
(* refreshes of this job were answered; or the page says that one failed.  *)
PanelShowsTheJob ==
  ~astray /\ Asking = {} /\ ~UserKnows =>
    /\ shown # NoStatus => shown.job = active
    /\ shown.status = "completed" => result = shown.job

(* Whatever the user did and however answers were reordered: when every    *)
(* job is over, polling stops.                                             *)
PollingStops ==
  (\A j \in Jobs : server[j] \in Over) ~> (Asking = {} /\ Pending = {})

(* The end of the active job and its result are shown, in whatever order   *)
(* overlapping refreshes are answered; or a message says that a request    *)
(* failed, or a request or timer for another job interferes.               *)
EndIsShown ==
  \A j \in Jobs :
    active = j /\ server[j] \in Over
      ~> \/ active # j \/ astray \/ UserKnows
         \/ /\ shown = [job |-> j, status |-> server[j]]
            /\ server[j] = "completed" => result = j

-----------------------------------------------------------------------------
(* What the proofs need beside TypeOK.                                     *)

(* Without overlap the reference names the timer that is pending.          *)
OneThingAtATime ==
  /\ \A c, d \in Asking : c = d
  /\ \A t, u \in Pending : t = u
  /\ Asking = {} \/ Pending = {}
  /\ \A t \in Pending : ref = t

(* The status of the active job is being asked for.                        *)
Requesting == \E c \in Asking : calls[c].pc \in {"status", "answer"}

(* Without strays the panel shows the active job, with its result, or has  *)
(* asked for them; and the job is polled.                                  *)
AllForActive ==
  /\ ~Strays
  /\ Requesting \/ UserKnows \/ shown = NoStatus \/ shown.job = active
  /\ Asking # {} \/ UserKnows \/ shown.status # "completed" \/ result = shown.job
  /\ Requesting \/ UserKnows \/ active = None \/ Pending # {} \/ EndShown

PollingInv ==
  /\ active # None => server[active] # "absent"
  /\ ~overlap => OneThingAtATime
  /\ ~astray => AllForActive

=============================================================================
