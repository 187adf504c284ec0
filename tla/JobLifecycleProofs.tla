------------------------- MODULE JobLifecycleProofs -------------------------
(***************************************************************************)
(* Theorems about JobLifecycle, for any number of jobs, server processes   *)
(* and artifacts and for every set of admitted faults; then about          *)
(* JobLifecycle with its history: what a job may suffer from; last, when   *)
(* server processes do not overlap, how a job ends and that the runtime    *)
(* implements JobContract.                                                 *)
(***************************************************************************)
EXTENDS LifecycleHistory, JobLifecycleInvariant, JobRefinement, FiniteSetTheorems, TLAPS

(* The four ways a row is rewritten keep it a row and set these columns.   *)
LEMMA RowUpdates ==
  \A r \in Row :
    /\ Processing(r) \in Row /\ Processing(r).status = "processing"
    /\ Interrupted(r) \in Row /\ Interrupted(r).status = "interrupted"
    /\ \A st \in Stages \cup {NoStage} :
         Failed(r, st) \in Row /\ Failed(r, st).status = "failed"
    /\ \A seen \in BOOLEAN :
         /\ Completed(r, seen) \in Row
         /\ Completed(r, seen).status = "completed"
         /\ Completed(r, seen).exports /\ Completed(r, seen).completedAt
<1> SUFFICES ASSUME NEW r \in Row
             PROVE  /\ Processing(r) \in Row /\ Processing(r).status = "processing"
                    /\ Interrupted(r) \in Row /\ Interrupted(r).status = "interrupted"
                    /\ \A st \in Stages \cup {NoStage} :
                         Failed(r, st) \in Row /\ Failed(r, st).status = "failed"
                    /\ \A seen \in BOOLEAN :
                         /\ Completed(r, seen) \in Row
                         /\ Completed(r, seen).status = "completed"
                         /\ Completed(r, seen).exports /\ Completed(r, seen).completedAt
  OBVIOUS
<1>1. Processing(r) \in Row /\ Processing(r).status = "processing"
  BY DEF Processing, Row, Statuses, Stages, NoStage
<1>2. Interrupted(r) \in Row /\ Interrupted(r).status = "interrupted"
  BY DEF Interrupted, Row, Statuses, Stages, Terminal
<1>3. ASSUME NEW st \in Stages \cup {NoStage}
      PROVE  Failed(r, st) \in Row /\ Failed(r, st).status = "failed"
  BY DEF Failed, Row, Statuses, Stages, Terminal
<1>4. ASSUME NEW seen \in BOOLEAN
      PROVE  /\ Completed(r, seen) \in Row
             /\ Completed(r, seen).status = "completed"
             /\ Completed(r, seen).exports /\ Completed(r, seen).completedAt
  BY DEF Completed, Row, Statuses, Stages, Terminal
<1> QED BY <1>1, <1>2, <1>3, <1>4

LEMMA NewRows ==
  ASSUME NEW st \in {"uploaded", "queued"}
  PROVE  NewRow(st) \in Row /\ NewRow(st).status = st
BY DEF NewRow, NoRow, Row, Statuses, Stages, NoStage

LEMMA NoRowIsRow == NoRow \in Row /\ NoRow.status = "absent"
BY DEF NoRow, Row, Statuses, Stages, NoStage

(* What the small steps of a request and of a worker change.               *)
LEMMA GotoChanges ==
  ASSUME TypeOK, NEW j \in Jobs, NEW to \in RequestPc, Goto(j, to)
  PROVE  /\ request' \in [Jobs -> Request]
         /\ request'[j].pc = to /\ request'[j].at = request[j].at
         /\ request'[j].err = request[j].err
         /\ \A k \in Jobs : k # j => request'[k] = request[k]
<1> DEFINE r == [request[j] EXCEPT !.pc = to]
<1>1. request' = [request EXCEPT ![j] = r]
  BY DEF Goto
<1>2. request[j] \in Request
  BY DEF TypeOK
<1>3. /\ r \in Request /\ r.pc = to /\ r.at = request[j].at
      /\ r.err = request[j].err
  BY <1>2 DEF Request
<1> HIDE DEF r
<1> QED BY <1>1, <1>3 DEF TypeOK

LEMMA HandlerFailsChanges ==
  ASSUME TypeOK, NEW j \in Jobs, NEW st \in {"uploaded", "queued"},
         HandlerFails(j, st)
  PROVE  /\ request' \in [Jobs -> Request]
         /\ request'[j].pc = "reject" /\ request'[j].at = request[j].at
         /\ request'[j].err = st
         /\ \A k \in Jobs : k # j => request'[k] = request[k]
<1> DEFINE r == [request[j] EXCEPT !.pc = "reject", !.err = st]
<1>1. request' = [request EXCEPT ![j] = r]
  BY DEF HandlerFails, TypeOK
<1>2. request[j] \in Request
  BY DEF TypeOK
<1>3. /\ r \in Request /\ r.pc = "reject" /\ r.at = request[j].at /\ r.err = st
  BY <1>2 DEF Request, RequestPc
<1> HIDE DEF r
<1> QED BY <1>1, <1>3 DEF TypeOK

LEMMA StepChanges ==
  ASSUME TypeOK, NEW s \in Servers, NEW to \in WorkerPc, Step(s, to)
  PROVE  /\ worker' \in [Servers -> Worker]
         /\ worker'[s].pc = to /\ worker'[s].job = worker[s].job
         /\ worker'[s].err = worker[s].err
         /\ \A t \in Servers : t # s => worker'[t] = worker[t]
<1> DEFINE w == [worker[s] EXCEPT !.pc = to]
<1>1. worker' = [worker EXCEPT ![s] = w]
  BY DEF Step
<1>2. worker[s] \in Worker
  BY DEF TypeOK
<1>3. /\ w \in Worker /\ w.pc = to /\ w.job = worker[s].job
      /\ w.err = worker[s].err
  BY <1>2 DEF Worker
<1> HIDE DEF w
<1> QED BY <1>1, <1>3 DEF TypeOK

LEMMA RaiseChanges ==
  ASSUME TypeOK, NEW s \in Servers, NEW st \in Stages \cup {NoStage, RowStage},
         Raise(s, st)
  PROVE  /\ worker' \in [Servers -> Worker]
         /\ worker'[s].pc = "failing" /\ worker'[s].job = worker[s].job
         /\ \A t \in Servers : t # s => worker'[t] = worker[t]
<1> DEFINE w == [worker[s] EXCEPT !.pc = "failing", !.err = st]
<1>1. worker' = [worker EXCEPT ![s] = w]
  BY DEF Raise, TypeOK
<1>2. worker[s] \in Worker
  BY DEF TypeOK
<1>3. /\ w \in Worker /\ w.pc = "failing" /\ w.job = worker[s].job
  BY <1>2 DEF Worker, WorkerPc
<1> HIDE DEF w
<1> QED BY <1>1, <1>3 DEF TypeOK

LEMMA IdleWorker == Idle \in Worker /\ Idle.pc = "idle" /\ Idle.job = NoJob
BY DEF Idle, Worker, WorkerPc

LEMMA ServersAreNumbers == Servers \subseteq 0..MaxServers /\ 0 \in 0..MaxServers
BY ConstantsAssumption DEF Servers

-----------------------------------------------------------------------------
(* Type correctness, with two facts about who holds what: a worker has a   *)
(* job exactly when it is not idle, and a request in flight has a server.  *)
Occupied ==
  /\ \A s \in Servers : worker[s].job = NoJob <=> worker[s].pc = "idle"
  /\ \A j \in Jobs : InFlight(j) => request[j].at \in Servers

TypeInv == TypeOK /\ Occupied

LEMMA InitTypes == Init => TypeInv
<1> SUFFICES ASSUME Init PROVE TypeInv
  OBVIOUS
<1>1. row \in [Jobs -> Row]
  BY NoRowIsRow DEF Init
<1>2. request \in [Jobs -> Request] /\ \A j \in Jobs : ~InFlight(j)
  BY ServersAreNumbers DEF Init, NoRequest, Request, RequestPc, InFlight
<1>3. worker \in [Servers -> Worker] /\ \A s \in Servers : worker[s] = Idle
  BY IdleWorker DEF Init
<1>4. phase \in [Servers -> Phase]
  BY DEF Init, Phase
<1>5. TypeOK
  BY <1>1, <1>2, <1>3, <1>4 DEF Init, TypeOK
<1> QED BY <1>2, <1>3, <1>5, IdleWorker DEF TypeInv, Occupied

LEMMA WorkerHasJob ==
  ASSUME TypeInv, NEW s \in Servers, worker[s].pc # "idle"
  PROVE  worker[s].job \in Jobs
<1>1. worker[s] \in Worker /\ worker[s].job # NoJob
  BY DEF TypeInv, TypeOK, Occupied
<1> QED BY <1>1 DEF Worker

LEMMA AppendedQueue ==
  ASSUME TypeOK, NEW s \in Servers, NEW j \in Jobs,
         queue' = [queue EXCEPT ![s] = Append(@, j)]
  PROVE  queue' \in [Servers -> Seq(Jobs)]
BY DEF TypeOK

LEMMA RequestTypes ==
  ASSUME TypeInv, NEW j \in Jobs, RequestStep(j)
  PROVE  TypeInv'
<1> USE DEF TypeInv
<1>1. CASE UploadStore(j)
  <2>1. \E left \in SUBSET Originals :
          files' = [files EXCEPT ![j] = @ \cup left]
    <3>1. {"original"} \in SUBSET Originals /\ {} \in SUBSET Originals
      BY DEF Originals
    <3>2. \A f \in Originals : {f} \in SUBSET Originals
      OBVIOUS
    <3>3. {{}} \cup {{f} : f \in Originals} \subseteq SUBSET Originals
      BY <3>1, <3>2
    <3> QED BY <1>1, <3>1, <3>3 DEF UploadStore
  <2>2. files' \in [Jobs -> SUBSET Files]
    BY <2>1 DEF TypeOK, Files
  <2>3. /\ request' \in [Jobs -> Request] /\ request'[j].at = request[j].at
        /\ \A k \in Jobs : k # j => request'[k] = request[k]
    BY <1>1, GotoChanges, HandlerFailsChanges DEF UploadStore, RequestPc
  <2> QED BY <1>1, <2>2, <2>3 DEF UploadStore, Handler, TypeOK, Occupied, InFlight
<1>2. CASE UploadAccept(j)
  <2>1. row[j] \in Row
    BY DEF TypeOK
  <2>2. [row[j] EXCEPT !.status = "queued", !.stage = "queued"] \in Row
    BY <2>1 DEF Row, Statuses, Stages
  <2>3. row' \in [Jobs -> Row]
    BY <1>2, <2>2 DEF UploadAccept, TypeOK
  <2>4. /\ request' \in [Jobs -> Request] /\ request'[j].at = request[j].at
        /\ \A k \in Jobs : k # j => request'[k] = request[k]
    BY <1>2, GotoChanges DEF UploadAccept, RequestPc
  <2> QED BY <1>2, <2>3, <2>4 DEF UploadAccept, Handler, TypeOK, Occupied, InFlight
<1>3. CASE Enqueue(j)
  <2>1. request[j].at \in Servers
    BY <1>3 DEF Enqueue, Handler, Occupied, InFlight
  <2>2. queue' \in [Servers -> Seq(Jobs)]
    BY <1>3, <2>1, AppendedQueue DEF Enqueue, Enqueued, TypeOK
  <2>3. /\ request' \in [Jobs -> Request] /\ request'[j].at = request[j].at
        /\ \A k \in Jobs : k # j => request'[k] = request[k]
    BY <1>3, GotoChanges, HandlerFailsChanges DEF Enqueue, RequestPc
  <2> QED BY <1>3, <2>2, <2>3 DEF Enqueue, Handler, TypeOK, Occupied, InFlight
<1>4. CASE Reject(j)
  <2>1. request[j] \in Request /\ row[j] \in Row
    BY DEF TypeOK
  <2>2. request[j].err \in Stages \cup {NoStage}
    BY <2>1 DEF Stages, Request
  <2>3. Failed(row[j], request[j].err) \in Row
    BY <2>1, <2>2, RowUpdates
  <2>4. row' \in [Jobs -> Row]
    BY <1>4, <2>3 DEF Reject, TypeOK
  <2>5. /\ request' \in [Jobs -> Request] /\ request'[j].at = request[j].at
        /\ \A k \in Jobs : k # j => request'[k] = request[k]
    BY <1>4, GotoChanges DEF Reject, RequestPc
  <2> QED BY <1>4, <2>4, <2>5 DEF Reject, Handler, TypeOK, Occupied, InFlight
<1> QED BY <1>1, <1>2, <1>3, <1>4 DEF RequestStep

LEMMA BeginTypes ==
  ASSUME TypeInv, NEW s \in Servers, NEW j \in Jobs,
         UploadBegin(s, j) \/ \E src \in Jobs : RetryBegin(s, src, j)
  PROVE  TypeInv'
<1> USE DEF TypeInv
<1>1. ASSUME NEW pc \in {"store", "enqueue"},
             request' = [request EXCEPT ![j] = [pc |-> pc, at |-> s, err |-> NoStage]]
      PROVE  /\ request' \in [Jobs -> Request] /\ request'[j].at = s
             /\ \A k \in Jobs : k # j => request'[k] = request[k]
  BY <1>1, ServersAreNumbers DEF TypeOK, Request, RequestPc
<1>2. CASE UploadBegin(s, j)
  BY <1>1, <1>2, NewRows DEF UploadBegin, TypeOK, Occupied, InFlight
<1>3. ASSUME NEW src \in Jobs, RetryBegin(s, src, j) PROVE TypeInv'
  BY <1>1, <1>3, NewRows DEF RetryBegin, TypeOK, Occupied, InFlight
<1> QED BY <1>2, <1>3

LEMMA WorkerTypes ==
  ASSUME TypeInv, NEW s \in Servers, WorkerStep(s)
  PROVE  TypeInv'
<1> USE DEF TypeInv
<1>1. ASSUME worker' \in [Servers -> Worker],
             worker'[s].job = NoJob <=> worker'[s].pc = "idle",
             \A t \in Servers : t # s => worker'[t] = worker[t],
             UNCHANGED request
      PROVE  Occupied'
  BY <1>1 DEF Occupied, InFlight
<1>2. CASE TakeJob(s)
  <2>1. Head(queue[s]) \in Jobs /\ Tail(queue[s]) \in Seq(Jobs)
    BY <1>2 DEF TakeJob, TypeOK
  <2>2. [Idle EXCEPT !.pc = "start", !.job = Head(queue[s])] \in Worker
    BY <2>1 DEF Idle, Worker, WorkerPc
  <2>3. /\ worker' \in [Servers -> Worker] /\ worker'[s].job = Head(queue[s])
        /\ worker'[s].pc = "start"
        /\ \A t \in Servers : t # s => worker'[t] = worker[t]
    BY <1>2, <2>2 DEF TakeJob, TypeOK, Idle
  <2>4. Head(queue[s]) # NoJob
    BY <2>1, ConstantsAssumption
  <2> QED BY <1>1, <1>2, <2>1, <2>3, <2>4 DEF TakeJob, TypeOK
<1>3. CASE StartRun(s)
  <2>1. worker[s].job \in Jobs
    BY <1>3, WorkerHasJob DEF StartRun, Working
  <2>2. row' \in [Jobs -> Row]
    BY <1>3, <2>1, RowUpdates DEF StartRun, TypeOK
  <2>3. /\ worker' \in [Servers -> Worker] /\ worker'[s].job = worker[s].job
        /\ worker'[s].pc # "idle"
        /\ \A t \in Servers : t # s => worker'[t] = worker[t]
    BY <1>3, StepChanges, RaiseChanges DEF StartRun, WorkerPc
  <2> QED BY <1>1, <1>3, <2>1, <2>2, <2>3, ConstantsAssumption DEF StartRun, TypeOK
<1>4. CASE Launch(s)
  <2>1. worker[s].job \in Jobs
    BY <1>4, WorkerHasJob DEF Launch, Working
  <2>2. worker[s] \in Worker /\ row[worker[s].job].failedAt \in BOOLEAN
    BY <2>1 DEF TypeOK, Row
  <2> DEFINE w == [worker[s] EXCEPT !.pc = "running",
                                    !.sawError = row[worker[s].job].failedAt]
  <2>3. w \in Worker /\ w.job = worker[s].job /\ w.pc # "idle"
    BY <2>2 DEF Worker, WorkerPc
  <2>4. worker' = [worker EXCEPT ![s] = w]
    BY <1>4 DEF Launch, TypeOK
  <2> HIDE DEF w
  <2>5. /\ worker' \in [Servers -> Worker] /\ worker'[s] = w
        /\ \A t \in Servers : t # s => worker'[t] = worker[t]
    BY <2>3, <2>4 DEF TypeOK
  <2> QED BY <1>1, <1>4, <2>1, <2>3, <2>5, ConstantsAssumption DEF Launch, TypeOK
<1>5. CASE PipelineExits(s)
  <2>1. worker[s].job \in Jobs
    BY <1>5, WorkerHasJob DEF PipelineExits, Working
  <2>2. ASSUME NEW st \in FailureStages,
               worker' = [worker EXCEPT ![s].pc = "exited", ![s].err = st]
        PROVE  /\ worker' \in [Servers -> Worker]
               /\ worker'[s].job = worker[s].job /\ worker'[s].pc # "idle"
               /\ \A t \in Servers : t # s => worker'[t] = worker[t]
    <3> DEFINE w == [worker[s] EXCEPT !.pc = "exited", !.err = st]
    <3>1. worker[s] \in Worker /\ st \in Stages
      BY ConstantsAssumption DEF TypeOK, Stages
    <3>2. w \in Worker /\ w.job = worker[s].job /\ w.pc # "idle"
      BY <3>1 DEF Worker, WorkerPc
    <3>3. worker' = [worker EXCEPT ![s] = w]
      BY <2>2 DEF TypeOK
    <3> HIDE DEF w
    <3> QED BY <3>2, <3>3 DEF TypeOK
  <2>3. /\ worker' \in [Servers -> Worker] /\ worker'[s].job = worker[s].job
        /\ worker'[s].pc # "idle"
        /\ \A t \in Servers : t # s => worker'[t] = worker[t]
    BY <1>5, <2>2, StepChanges DEF PipelineExits, WorkerPc
  <2> QED BY <1>1, <1>5, <2>1, <2>3, ConstantsAssumption DEF PipelineExits, TypeOK
<1>6. CASE StoreLog(s)
  <2>1. worker[s].job \in Jobs
    BY <1>6, WorkerHasJob DEF StoreLog, Working
  <2>2. files' \in [Jobs -> SUBSET Files]
    BY <1>6, <2>1 DEF StoreLog, TypeOK, Files
  <2>3. /\ worker' \in [Servers -> Worker] /\ worker'[s].job = worker[s].job
        /\ worker'[s].pc # "idle"
        /\ \A t \in Servers : t # s => worker'[t] = worker[t]
    BY <1>6, StepChanges, RaiseChanges DEF StoreLog, WorkerPc
  <2> QED BY <1>1, <1>6, <2>1, <2>2, <2>3, ConstantsAssumption DEF StoreLog, TypeOK
<1>7. ASSUME NEW a \in Artifacts, StoreArtifact(s, a) PROVE TypeInv'
  <2>1. worker[s].job \in Jobs
    BY <1>7, WorkerHasJob DEF StoreArtifact, Working
  <2>2. files' \in [Jobs -> SUBSET Files]
    BY <1>7, <2>1 DEF StoreArtifact, TypeOK, Files
  <2>3. /\ worker' \in [Servers -> Worker] /\ worker'[s].job = worker[s].job
        /\ worker'[s].pc # "idle"
        /\ \A t \in Servers : t # s => worker'[t] = worker[t]
    BY <1>7, StepChanges DEF StoreArtifact, WorkerPc
  <2> QED BY <1>1, <1>7, <2>1, <2>2, <2>3, ConstantsAssumption DEF StoreArtifact, TypeOK
<1>8. CASE StoreArtifactFails(s)
  <2>1. worker[s].job \in Jobs
    BY <1>8, WorkerHasJob DEF StoreArtifactFails, Working
  <2>2. /\ worker' \in [Servers -> Worker] /\ worker'[s].job = worker[s].job
        /\ worker'[s].pc # "idle"
        /\ \A t \in Servers : t # s => worker'[t] = worker[t]
    <3>1. FailureStages \subseteq Stages
      BY ConstantsAssumption DEF Stages
    <3> QED BY <1>8, <3>1, RaiseChanges DEF StoreArtifactFails
  <2> QED BY <1>1, <1>8, <2>1, <2>2, ConstantsAssumption DEF StoreArtifactFails, TypeOK
<1>9. CASE Publish(s)
  <2>1. worker[s].job \in Jobs /\ worker[s] \in Worker
    BY <1>9, WorkerHasJob DEF Publish, Working, TypeOK
  <2>2. Completed(row[worker[s].job], worker[s].sawError) \in Row
    BY <2>1, RowUpdates DEF TypeOK, Worker
  <2>3. row' \in [Jobs -> Row]
    BY <1>9, <2>2 DEF Publish, TypeOK
  <2>4. /\ worker' \in [Servers -> Worker]
        /\ worker'[s].job = NoJob <=> worker'[s].pc = "idle"
        /\ \A t \in Servers : t # s => worker'[t] = worker[t]
    <3>1. CASE worker' = [worker EXCEPT ![s] = Idle]
      BY <3>1, IdleWorker DEF TypeOK
    <3>2. CASE Raise(s, RowStage)
      BY <2>1, <3>2, RaiseChanges, ConstantsAssumption
    <3> QED BY <1>9, <3>1, <3>2 DEF Publish
  <2> QED BY <1>1, <1>9, <2>3, <2>4 DEF Publish, TypeOK
<1>10. CASE MarkFailed(s)
  <2>1. worker[s].job \in Jobs /\ worker[s] \in Worker
    BY <1>10, WorkerHasJob DEF MarkFailed, Working, TypeOK
  <2>2. ErrorStage(s) \in Stages \cup {NoStage}
    BY <2>1 DEF ErrorStage, TypeOK, Row, Worker
  <2>3. Failed(row[worker[s].job], ErrorStage(s)) \in Row
    BY <2>1, <2>2, RowUpdates DEF TypeOK
  <2>5. row' \in [Jobs -> Row]
    BY <1>10, <2>1, <2>3 DEF MarkFailed, TypeOK
  <2>4. /\ worker' \in [Servers -> Worker]
        /\ worker'[s].job = NoJob <=> worker'[s].pc = "idle"
        /\ \A t \in Servers : t # s => worker'[t] = worker[t]
    BY <1>10, IdleWorker DEF MarkFailed, TypeOK
  <2> QED BY <1>1, <1>10, <2>4, <2>5 DEF MarkFailed, TypeOK
<1> QED BY <1>2, <1>3, <1>4, <1>5, <1>6, <1>7, <1>8, <1>9, <1>10 DEF WorkerStep

LEMMA ServerTypes ==
  ASSUME TypeInv, NEW s \in Servers, ServerStep(s)
  PROVE  TypeInv'
<1> USE DEF TypeInv
<1>1. CASE StartServer(s)
  BY <1>1 DEF StartServer, TypeOK, Phase, Occupied, InFlight
<1>2. CASE Recover(s)
  BY <1>2, RowUpdates DEF Recover, TypeOK, Phase, Occupied, InFlight
<1>3. CASE Drain(s)
  BY <1>3 DEF Drain, TypeOK, Phase, Occupied, InFlight
<1>4. CASE DrainEnds(s)
  BY <1>4 DEF DrainEnds, TypeOK, Phase, Occupied, InFlight
<1>5. CASE Crash(s)
  <2>1. \A j \in Jobs : [request[j] EXCEPT !.pc = "done"] \in Request
    BY DEF TypeOK, Request, RequestPc
  <2>2. request' \in [Jobs -> Request]
    BY <1>5, <2>1 DEF Crash, TypeOK
  <2>3. \A j \in Jobs : request'[j] = request[j] \/ request'[j].pc = "done"
    BY <1>5 DEF Crash, TypeOK, Request
  <2>4. /\ worker' \in [Servers -> Worker] /\ worker'[s] = Idle
        /\ \A t \in Servers : t # s => worker'[t] = worker[t]
    BY <1>5, IdleWorker DEF Crash, TypeOK
  <2>5. Occupied'
    BY <2>3, <2>4, IdleWorker DEF Occupied, InFlight
  <2> QED BY <1>5, <2>2, <2>4, <2>5 DEF Crash, TypeOK, Phase
<1> QED BY <1>1, <1>2, <1>3, <1>4, <1>5 DEF ServerStep

LEMMA StepTypes == TypeInv /\ [Next]_vars => TypeInv'
<1> SUFFICES ASSUME TypeInv, [Next]_vars PROVE TypeInv'
  OBVIOUS
<1>1. ASSUME NEW j \in Jobs, OrphanExits(j) PROVE TypeInv'
  BY <1>1 DEF OrphanExits, TypeInv, TypeOK, Occupied, InFlight
<1>2. CASE UNCHANGED vars
  BY <1>2 DEF vars, TypeInv, TypeOK, Occupied, InFlight
<1> QED BY <1>1, <1>2, BeginTypes, RequestTypes, WorkerTypes, ServerTypes DEF Next

(* Every value the system computes has the type its table or record gives  *)
(* it; in particular error_stage is always a stage of the enumeration.     *)
THEOREM TypeCorrect == Spec => []TypeOK
<1>1. TypeInv => TypeOK
  BY DEF TypeInv
<1> QED BY <1>1, InitTypes, StepTypes, PTL DEF Spec

-----------------------------------------------------------------------------
(* The safety properties that hold under every fault.                      *)

LEMMA QueuedAreJobs ==
  ASSUME TypeOK, NEW s \in Servers
  PROVE  Elements(queue[s]) \subseteq Jobs
BY DEF TypeOK, Elements

LEMMA SafetyUploadBegin ==
  ASSUME TypeInv, TypeInv', SafetyInv,
         NEW s \in Servers, NEW j \in Jobs, UploadBegin(s, j)
  PROVE  SafetyInv'
<1>1. /\ Status(j) = "absent" /\ Status(j)' = "uploaded"
      /\ request[j].pc = "none" /\ request'[j].pc = "store"
      /\ files[j] = {} /\ source[j] = NoJob /\ audio[j] = j /\ Untaken(j)
      /\ \A k \in Jobs : k # j => row'[k] = row[k] /\ request'[k] = request[k]
      /\ UNCHANGED <<audio, source, files, phase, found, queue, worker>>
  BY NewRows DEF UploadBegin, TypeInv, TypeOK, SafetyInv, RequestInv, RetryInv, Status
<1>2. RequestInv'
  BY <1>1 DEF SafetyInv, RequestInv, Status, Untaken
<1>3. QueueInv'
  BY <1>1, QueuedAreJobs DEF SafetyInv, QueueInv, Status, Untaken, TypeInv
<1>4. RetryInv'
  BY <1>1 DEF SafetyInv, RetryInv, Status, Terminal, TypeInv, TypeOK
<1>5. TruncatedInv'
  BY <1>1 DEF SafetyInv, TruncatedInv, Status, Untaken
<1>6. \A k \in Jobs : AudioStored(k) => AudioStored(k)'
  BY <1>1 DEF AudioStored, Status, TypeInv, TypeOK
<1>7. WorkerInv'
  BY <1>1, <1>6, WorkerHasJob DEF SafetyInv, WorkerInv, Status, Untaken
<1>8. FoundInv'
  BY <1>1, <1>6 DEF SafetyInv, FoundInv, Status, Untaken, TypeInv, TypeOK
<1>9. AudioBeforeQueue'
  BY <1>1 DEF SafetyInv, AudioBeforeQueue, Status, TypeInv, TypeOK
<1>10. PublishedWhole'
  BY <1>1 DEF SafetyInv, PublishedWhole, Status, HasAudio
<1> QED BY <1>2, <1>3, <1>4, <1>5, <1>7, <1>8, <1>9, <1>10 DEF SafetyInv

LEMMA SafetyRetryBegin ==
  ASSUME TypeInv, TypeInv', SafetyInv,
         NEW s \in Servers, NEW src \in Jobs, NEW j \in Jobs, RetryBegin(s, src, j)
  PROVE  SafetyInv'
<1>1. /\ Status(j) = "absent" /\ Status(j)' = "queued"
      /\ request[j].pc = "none" /\ request'[j].pc = "enqueue"
      /\ files[j] = {} /\ source[j] = NoJob /\ audio[j] = j /\ Untaken(j)
      /\ audio'[j] = audio[src] /\ source'[j] = src
      /\ \A k \in Jobs : k # j => /\ row'[k] = row[k] /\ request'[k] = request[k]
                                  /\ audio'[k] = audio[k] /\ source'[k] = source[k]
      /\ UNCHANGED <<files, phase, found, queue, worker>>
  BY NewRows DEF RetryBegin, TypeInv, TypeOK, SafetyInv, RequestInv, RetryInv, Status
<1>2. src # j /\ src # NoJob /\ Status(src) \in Terminal /\ HasAudio(audio[src])
  BY <1>1, ConstantsAssumption DEF RetryBegin, Retryable, Status, Terminal
<1>3. /\ audio[src] \in Jobs /\ audio[src] # j
      /\ Status(audio[src]) \in Terminal /\ audio[audio[src]] = audio[src]
  BY <1>1, <1>2 DEF SafetyInv, RetryInv, Status, Terminal, TypeInv, TypeOK
<1>4. RequestInv'
  BY <1>1 DEF SafetyInv, RequestInv, Status, Untaken
<1>5. QueueInv'
  BY <1>1, QueuedAreJobs DEF SafetyInv, QueueInv, Status, Untaken, TypeInv
<1>6. RetryInv'
  <2>1. \A k \in Jobs : audio[k] # j \/ k = j
    BY <1>1 DEF SafetyInv, RetryInv, Status, Terminal
  <2>2. \A k \in Jobs : source[k] # j
    BY <1>1, ConstantsAssumption DEF SafetyInv, RetryInv, Status, Terminal
  <2>3. \A k \in Jobs : source[k] \in Jobs \cup {NoJob} /\ audio[k] \in Jobs
    BY DEF TypeInv, TypeOK
  <2> QED BY <1>1, <1>2, <1>3, <2>1, <2>2, <2>3 DEF SafetyInv, RetryInv, Status
<1>7. TruncatedInv'
  BY <1>1 DEF SafetyInv, TruncatedInv, Status, Untaken
<1>8. \A k \in Jobs : k # j /\ AudioStored(k) => AudioStored(k)'
  BY <1>1 DEF AudioStored, Status, TypeInv, TypeOK
<1>9. AudioStored(j)'
  BY <1>1, <1>2, <1>3 DEF AudioStored, HasAudio, Originals, SafetyInv,
     TruncatedInv, Status, Terminal
<1>10. WorkerInv'
  BY <1>1, <1>8, WorkerHasJob DEF SafetyInv, WorkerInv, Status, Untaken
<1>11. FoundInv'
  BY <1>1, <1>8 DEF SafetyInv, FoundInv, Status, Untaken, TypeInv, TypeOK
<1>12. AudioBeforeQueue'
  BY <1>1, <1>8, <1>9 DEF SafetyInv, AudioBeforeQueue, AudioStored, Status
<1>13. PublishedWhole'
  BY <1>1 DEF SafetyInv, PublishedWhole, Status, HasAudio
<1> QED BY <1>4, <1>5, <1>6, <1>7, <1>10, <1>11, <1>12, <1>13 DEF SafetyInv

(* A handler's later steps, but for a successful submission: they change   *)
(* nothing but the row, the files and the progress of their own job.       *)
LEMMA HandlerAdvances ==
  ASSUME TypeInv, TypeInv', SafetyInv, NEW j \in Jobs, InFlight(j),
         UNCHANGED <<audio, source, found, queue, worker>>,
         \A k \in Jobs : k # j => /\ row'[k] = row[k] /\ files'[k] = files[k]
                                  /\ request'[k] = request[k],
         files[j] \subseteq files'[j],
         Status(j)' \in {"uploaded", "queued", "failed"},
         \/ /\ request'[j].pc = "accept"
            /\ Status(j)' = "uploaded" /\ files'[j] = {"original"}
            /\ source[j] = NoJob
         \/ request'[j].pc = "enqueue" /\ Status(j)' = "queued"
         \/ request'[j].pc = "reject" /\ Status(j)' \in {"uploaded", "queued"}
         \/ request'[j].pc = "done",
         "truncated" \in files'[j] =>
           /\ Status(j)' \in {"uploaded", "failed"}
           /\ request'[j].pc \in {"reject", "done"},
         Status(j)' = "queued" => AudioStored(j)'
  PROVE  SafetyInv'
<1>1. Untaken(j) /\ Status(j) \in {"uploaded", "queued"}
  BY DEF SafetyInv, RequestInv, InFlight, TypeInv, TypeOK, Request, RequestPc
<1>2. \A k \in Jobs : /\ audio[k] \in Jobs /\ source[k] # j
                      /\ audio[k] = j => k = j
  BY <1>1, ConstantsAssumption DEF SafetyInv, RetryInv, Status, Terminal,
     TypeInv, TypeOK
<1>3. RequestInv'
  BY <1>1 DEF SafetyInv, RequestInv, Status, Untaken
<1>4. QueueInv'
  BY <1>1, QueuedAreJobs DEF SafetyInv, QueueInv, Status, Untaken, TypeInv
<1>5. RetryInv'
  <2>1. \A k \in Jobs : source[k] \in Jobs \cup {NoJob}
    BY DEF TypeInv, TypeOK
  <2> QED BY <1>1, <1>2, <2>1 DEF SafetyInv, RetryInv, Status
<1>6. TruncatedInv'
  BY <1>1 DEF SafetyInv, TruncatedInv, Status, Untaken
<1>7. \A k \in Jobs : k # j /\ AudioStored(k) => AudioStored(k)'
  BY <1>2 DEF AudioStored, Status
<1>8. WorkerInv'
  BY <1>1, <1>7, WorkerHasJob DEF SafetyInv, WorkerInv, Status, Untaken
<1>9. FoundInv'
  BY <1>1, <1>7 DEF SafetyInv, FoundInv, Status, Untaken, TypeInv, TypeOK
<1>10. AudioBeforeQueue'
  BY <1>7 DEF SafetyInv, AudioBeforeQueue, AudioStored, Status
<1>11. PublishedWhole'
  BY <1>2 DEF SafetyInv, PublishedWhole, Status, HasAudio
<1> QED BY <1>3, <1>4, <1>5, <1>6, <1>8, <1>9, <1>10, <1>11 DEF SafetyInv

(* A job that joins a queue is found there and nowhere else.               *)
LEMMA AppendedElements ==
  ASSUME NEW q \in Seq(Jobs), NEW j \in Jobs
  PROVE  /\ Elements(Append(q, j)) = Elements(q) \cup {j}
         /\ DOMAIN Append(q, j) = DOMAIN q \cup {Len(q) + 1}
         /\ \A i \in DOMAIN q : Append(q, j)[i] = q[i]
         /\ Append(q, j)[Len(q) + 1] = j
<1>1. /\ DOMAIN Append(q, j) = DOMAIN q \cup {Len(q) + 1}
      /\ \A i \in DOMAIN q : Append(q, j)[i] = q[i]
      /\ Append(q, j)[Len(q) + 1] = j
  OBVIOUS
<1> QED BY <1>1 DEF Elements

LEMMA TailElements ==
  ASSUME NEW q \in Seq(Jobs), q # <<>>
  PROVE  /\ 1 \in DOMAIN q /\ Head(q) = q[1]
         /\ \A i \in DOMAIN Tail(q) : i + 1 \in DOMAIN q /\ Tail(q)[i] = q[i + 1]
         /\ DOMAIN Tail(q) \subseteq Nat \ {0}
OBVIOUS

LEMMA SafetyEnqueue ==
  ASSUME TypeInv, TypeInv', SafetyInv, NEW j \in Jobs, Handler(j, "enqueue"),
         queue' = [queue EXCEPT ![request[j].at] = Enqueued(@, j)],
         Goto(j, "done"),
         UNCHANGED <<row, audio, source, files, phase, found, worker, pipelines>>
  PROVE  SafetyInv'
<1> DEFINE s == request[j].at
<1>1. s \in Servers /\ Untaken(j) /\ Status(j) = "queued"
  BY DEF Handler, TypeInv, Occupied, InFlight, SafetyInv, RequestInv
<1>2. /\ request'[j].pc = "done"
      /\ \A k \in Jobs : k # j => request'[k] = request[k]
  BY GotoChanges DEF TypeInv, RequestPc
<1>3. /\ queue'[s] = Append(queue[s], j) /\ queue[s] \in Seq(Jobs)
      /\ \A t \in Servers : t # s => queue'[t] = queue[t]
  BY <1>1 DEF TypeInv, TypeOK, Enqueued
<1> HIDE DEF s
<1>4. /\ Elements(queue'[s]) = Elements(queue[s]) \cup {j}
      /\ \A t \in Servers : t # s => Elements(queue'[t]) = Elements(queue[t])
  BY <1>3, AppendedElements
<1>5. RequestInv'
  BY <1>1, <1>2, <1>4 DEF SafetyInv, RequestInv, Status, Untaken
<1>6. QueueInv'
  <2> SUFFICES ASSUME NEW t \in Servers, NEW u \in Servers
               PROVE  /\ \A k \in Elements(queue'[t]) : Status(k)' = "queued"
                      /\ \A i \in DOMAIN queue'[t], k \in DOMAIN queue'[u] :
                           queue'[t][i] = queue'[u][k] => t = u /\ i = k
                      /\ worker'[u].job \notin Elements(queue'[t])
    BY DEF QueueInv
  <2>1. \A k \in Elements(queue'[t]) : Status(k)' = "queued"
    BY <1>1, <1>4 DEF SafetyInv, QueueInv, Status
  <2>2. worker'[u].job \notin Elements(queue'[t])
    BY <1>1, <1>4 DEF SafetyInv, QueueInv, Untaken
  <2>3. \A v \in Servers : \A i \in DOMAIN queue[v] : queue[v][i] # j
    BY <1>1 DEF Untaken, Elements
  <2>4. /\ DOMAIN queue'[s] = DOMAIN queue[s] \cup {Len(queue[s]) + 1}
        /\ \A i \in DOMAIN queue[s] : queue'[s][i] = queue[s][i]
        /\ queue'[s][Len(queue[s]) + 1] = j
    BY <1>3, AppendedElements
  <2>5. ASSUME NEW i \in DOMAIN queue'[t], NEW k \in DOMAIN queue'[u],
               queue'[t][i] = queue'[u][k]
        PROVE  t = u /\ i = k
    <3>0. ASSUME NEW v \in Servers, NEW n \in DOMAIN queue'[v]
          PROVE  \/ n \in DOMAIN queue[v] /\ queue'[v][n] = queue[v][n]
                 \/ v = s /\ n = Len(queue[s]) + 1 /\ queue'[v][n] = j
      <4>1. CASE v = s
        BY <2>4, <4>1
      <4>2. CASE v # s
        BY <1>3, <4>2
      <4> QED BY <4>1, <4>2
    <3>1. \/ i \in DOMAIN queue[t] /\ queue'[t][i] = queue[t][i]
          \/ t = s /\ i = Len(queue[s]) + 1 /\ queue'[t][i] = j
      BY <3>0
    <3>2. \/ k \in DOMAIN queue[u] /\ queue'[u][k] = queue[u][k]
          \/ u = s /\ k = Len(queue[s]) + 1 /\ queue'[u][k] = j
      BY <3>0
    <3> QED BY <2>3, <2>5, <3>1, <3>2 DEF SafetyInv, QueueInv
  <2> QED BY <2>1, <2>2, <2>5
<1>7. RetryInv' /\ AudioBeforeQueue' /\ PublishedWhole'
  BY DEF SafetyInv, RetryInv, AudioBeforeQueue, PublishedWhole, Status, HasAudio
<1>8. TruncatedInv'
  BY <1>1, <1>2, <1>4 DEF SafetyInv, TruncatedInv, Status, Untaken
<1>9. WorkerInv' /\ FoundInv'
  BY DEF SafetyInv, WorkerInv, FoundInv, Status, AudioStored
<1> QED BY <1>5, <1>6, <1>7, <1>8, <1>9 DEF SafetyInv

LEMMA SafetyRequest ==
  ASSUME TypeInv, TypeInv', SafetyInv, NEW j \in Jobs, RequestStep(j)
  PROVE  SafetyInv'
<1> USE DEF TypeInv
<1>1. CASE UploadStore(j)
  <2>1. /\ request[j].pc = "store" /\ InFlight(j) /\ Status(j) = "uploaded"
        /\ files[j] = {} /\ source[j] = NoJob
    BY <1>1 DEF UploadStore, Handler, InFlight, SafetyInv, RequestInv
  <2>2. \A k \in Jobs : k # j =>
          /\ row'[k] = row[k] /\ files'[k] = files[k] /\ request'[k] = request[k]
    BY <1>1, GotoChanges, HandlerFailsChanges
    DEF UploadStore, RequestPc, TypeOK
  <2>3. \/ request'[j].pc = "accept" /\ files'[j] = {"original"}
        \/ request'[j].pc = "reject"
    BY <1>1, <2>1, GotoChanges, HandlerFailsChanges
    DEF UploadStore, RequestPc, TypeOK
  <2>4. Status(j)' = "uploaded"
    BY <1>1, <2>1 DEF UploadStore, Status
  <2>5. UNCHANGED <<audio, source, found, queue, worker>>
    BY <1>1 DEF UploadStore
  <2> QED BY <2>1, <2>2, <2>3, <2>4, <2>5, HandlerAdvances
<1>2. CASE UploadAccept(j)
  <2>1. /\ InFlight(j) /\ Status(j) = "uploaded" /\ files[j] = {"original"}
        /\ audio[j] = j /\ source[j] = NoJob
    BY <1>2 DEF UploadAccept, Handler, InFlight, SafetyInv, RequestInv, RetryInv
  <2>2. \A k \in Jobs : k # j =>
          /\ row'[k] = row[k] /\ files'[k] = files[k] /\ request'[k] = request[k]
    BY <1>2, GotoChanges DEF UploadAccept, RequestPc, TypeOK
  <2>3. \/ request'[j].pc = "enqueue" /\ Status(j)' = "queued"
        \/ request'[j].pc = "done" /\ Status(j)' = "uploaded"
    BY <1>2, <2>1, GotoChanges DEF UploadAccept, RequestPc, TypeOK, Status, Row
  <2>4. files'[j] = files[j] /\ UNCHANGED <<audio, source, found, queue, worker>>
    BY <1>2 DEF UploadAccept
  <2> QED BY <2>1, <2>2, <2>3, <2>4, HandlerAdvances DEF AudioStored
<1>3. CASE Enqueue(j)
  <2>1. CASE HandlerFails(j, "queued") /\ UNCHANGED queue
    <3>1. /\ InFlight(j) /\ Status(j) = "queued" /\ AudioStored(j)
          /\ "truncated" \notin files[j]
      BY <1>3 DEF Enqueue, Handler, InFlight, SafetyInv, RequestInv,
         AudioBeforeQueue, AudioStored, TruncatedInv, Status
    <3>2. /\ UNCHANGED <<row, files, audio, source, found, queue, worker>>
      BY <1>3, <2>1 DEF Enqueue
    <3>3. /\ request'[j].pc = "reject"
          /\ \A k \in Jobs : k # j => request'[k] = request[k]
      BY <2>1, HandlerFailsChanges
    <3> QED BY <3>1, <3>2, <3>3, HandlerAdvances DEF AudioStored, Status
  <2> QED BY <1>3, <2>1, SafetyEnqueue DEF Enqueue
<1>4. CASE Reject(j)
  <2>1. /\ InFlight(j) /\ Status(j) \in {"uploaded", "queued"}
        /\ Status(j) = "queued" => AudioStored(j)
        /\ "truncated" \in files[j] => Status(j) = "uploaded"
    BY <1>4 DEF Reject, Handler, InFlight, SafetyInv, RequestInv,
       AudioBeforeQueue, AudioStored, TruncatedInv, Status
  <2>2. /\ request'[j].pc = "done"
        /\ \A k \in Jobs : k # j => request'[k] = request[k]
    BY <1>4, GotoChanges DEF Reject, RequestPc
  <2>3. request[j].err \in Stages \cup {NoStage} /\ row[j] \in Row
    BY DEF TypeOK, Request, Stages
  <2>4. /\ Status(j)' = "failed" \/ UNCHANGED row
        /\ \A k \in Jobs : k # j => row'[k] = row[k]
    <3>1. Failed(row[j], request[j].err).status = "failed"
      BY <2>3, RowUpdates
    <3> QED BY <1>4, <3>1 DEF Reject, TypeOK, Status
  <2>5. UNCHANGED <<files, audio, source, found, queue, worker>>
    BY <1>4 DEF Reject
  <2>6. Status(j)' = "queued" => AudioStored(j)'
    BY <2>1, <2>4, <2>5 DEF AudioStored, Status
  <2>7. /\ Status(j)' \in {"uploaded", "queued", "failed"}
        /\ "truncated" \in files'[j] => Status(j)' \in {"uploaded", "failed"}
    BY <2>1, <2>4, <2>5 DEF Status
  <2> QED BY <2>1, <2>2, <2>4, <2>5, <2>6, <2>7, HandlerAdvances
<1> QED BY <1>1, <1>2, <1>3, <1>4 DEF RequestStep

LEMMA SafetyTakeJob ==
  ASSUME TypeInv, TypeInv', SafetyInv, NEW s \in Servers, TakeJob(s)
  PROVE  SafetyInv'
<1>0. PICK j \in Jobs : j = Head(queue[s])
  BY DEF TakeJob, TypeInv, TypeOK
<1>1. /\ queue[s] \in Seq(Jobs) /\ queue[s] # <<>> /\ worker[s].job = NoJob
      /\ queue'[s] = Tail(queue[s])
      /\ \A t \in Servers : t # s => /\ queue'[t] = queue[t]
                                     /\ worker'[t] = worker[t]
      /\ UNCHANGED <<row, audio, source, files, phase, found, request, pipelines>>
  BY DEF TakeJob, Working, TypeInv, TypeOK, Occupied
<1>2. worker'[s].pc = "start" /\ worker'[s].job = j
  BY <1>0 DEF TakeJob, TypeInv, TypeOK, Idle
<1>3. /\ 1 \in DOMAIN queue[s] /\ j = queue[s][1]
      /\ \A i \in DOMAIN queue'[s] :
           i + 1 \in DOMAIN queue[s] /\ queue'[s][i] = queue[s][i + 1]
      /\ DOMAIN queue'[s] \subseteq Nat \ {0}
  BY <1>0, <1>1, TailElements
<1>4. /\ j \in Elements(queue[s])
      /\ \A t \in Servers : Elements(queue'[t]) \subseteq Elements(queue[t])
  <2>1. Elements(queue'[s]) \subseteq Elements(queue[s])
    BY <1>3 DEF Elements
  <2>2. j \in Elements(queue[s])
    BY <1>3 DEF Elements
  <2> QED BY <1>1, <2>1, <2>2
<1>5. Status(j) = "queued" /\ request[j].pc = "done" /\ AudioStored(j)
  BY <1>4 DEF SafetyInv, QueueInv, RequestInv, Untaken, Status,
     AudioBeforeQueue, AudioStored
<1>6. \A t \in Servers : worker[t].job # j /\ j \notin Elements(queue'[t])
  <2>1. ASSUME NEW t \in Servers, NEW i \in DOMAIN queue'[t], queue'[t][i] = j
        PROVE  FALSE
    <3>1. CASE t = s
      <4>1. i + 1 = 1
        BY <1>3, <2>1, <3>1 DEF SafetyInv, QueueInv
      <4> QED BY <1>3, <2>1, <3>1, <4>1
    <3>2. CASE t # s
      BY <1>1, <1>3, <2>1, <3>2 DEF SafetyInv, QueueInv
    <3> QED BY <3>1, <3>2
  <2> QED BY <1>4, <2>1 DEF Elements, SafetyInv, QueueInv
<1>7. RequestInv'
  BY <1>1, <1>2, <1>4, <1>5 DEF SafetyInv, RequestInv, Status, Untaken
<1>8. QueueInv'
  <2> SUFFICES ASSUME NEW t \in Servers, NEW u \in Servers
               PROVE  /\ \A k \in Elements(queue'[t]) : Status(k)' = "queued"
                      /\ \A i \in DOMAIN queue'[t], k \in DOMAIN queue'[u] :
                           queue'[t][i] = queue'[u][k] => t = u /\ i = k
                      /\ worker'[u].job \notin Elements(queue'[t])
    BY DEF QueueInv
  <2>1. \A k \in Elements(queue'[t]) : Status(k)' = "queued"
    BY <1>1, <1>4 DEF SafetyInv, QueueInv, Status
  <2>2. worker'[u].job \notin Elements(queue'[t])
    BY <1>1, <1>2, <1>4, <1>6 DEF SafetyInv, QueueInv
  <2>3. ASSUME NEW i \in DOMAIN queue'[t], NEW k \in DOMAIN queue'[u],
               queue'[t][i] = queue'[u][k]
        PROVE  t = u /\ i = k
    <3> DEFINE shift(v) == IF v = s THEN 1 ELSE 0
    <3>1. ASSUME NEW v \in Servers, NEW n \in DOMAIN queue'[v]
          PROVE  /\ n + shift(v) \in DOMAIN queue[v]
                 /\ queue'[v][n] = queue[v][n + shift(v)] /\ n \in Nat
      <4>1. CASE v = s
        BY <1>3, <4>1
      <4>2. CASE v # s
        <5>1. queue[v] \in Seq(Jobs) /\ queue'[v] = queue[v]
          BY <1>1, <4>2 DEF TypeInv, TypeOK
        <5> QED BY <4>2, <5>1
      <4> QED BY <4>1, <4>2
    <3>2. t = u /\ i + shift(t) = k + shift(u)
      BY <2>3, <3>1 DEF SafetyInv, QueueInv
    <3>3. i \in Nat /\ k \in Nat
      BY <3>1
    <3> QED BY <3>2, <3>3
  <2> QED BY <2>1, <2>2, <2>3
<1>9. RetryInv' /\ AudioBeforeQueue' /\ PublishedWhole'
  BY <1>1 DEF SafetyInv, RetryInv, AudioBeforeQueue, PublishedWhole, Status, HasAudio
<1>10. TruncatedInv'
  BY <1>1, <1>2, <1>4, <1>5 DEF SafetyInv, TruncatedInv, Status, Untaken
<1>11. FoundInv'
  BY <1>1 DEF SafetyInv, FoundInv, Status, AudioStored
<1>12. WorkerInv'
  <2>1. \A t \in Servers : t # s => worker'[t] = worker[t] /\ worker'[t].job # j
    BY <1>1, <1>6
  <2>2. \A k \in Jobs : AudioStored(k)' <=> AudioStored(k)
    BY <1>1 DEF AudioStored, Status
  <2>3. \A k \in Jobs : Status(k)' = Status(k)
    BY <1>1 DEF Status
  <2>4. AudioStored(j)' /\ Status(j)' = "queued"
    BY <1>4, <1>5, <2>2, <2>3
  <2>5. \A t \in Servers : worker[t].job = NoJob \/ worker[t].job \in Jobs
    BY DEF TypeInv, TypeOK, Worker
  <2>6. ASSUME NEW t \in Servers, t # s, worker[t].pc # "idle"
        PROVE  worker[t].job \in Jobs
    BY <2>6, WorkerHasJob
  <2> QED BY <1>1, <1>2, <2>1, <2>2, <2>3, <2>4, <2>6 DEF SafetyInv, WorkerInv
<1> QED BY <1>7, <1>8, <1>9, <1>10, <1>11, <1>12 DEF SafetyInv

(* A worker's later steps change nothing but the row, the files and the    *)
(* progress of the job it has.                                             *)
LEMMA WorkerAdvances ==
  ASSUME TypeInv, TypeInv', SafetyInv, NEW s \in Servers, NEW j \in Jobs,
         worker[s].job = j,
         UNCHANGED <<audio, source, found, queue, request>>,
         \A k \in Jobs : k # j => row'[k] = row[k] /\ files'[k] = files[k],
         \A t \in Servers : t # s => worker'[t] = worker[t],
         files[j] \subseteq files'[j],
         "truncated" \in files'[j] => "truncated" \in files[j],
         \/ row'[j] = row[j]
         \/ Status(j)' = "processing" /\ Status(j) = "queued"
         \/ Status(j)' = "failed"
         \/ /\ Status(j)' = "completed" /\ row'[j].exports /\ row'[j].completedAt
            /\ Artifacts \cup {"log"} \subseteq files'[j],
         \/ worker'[s].job = NoJob
         \/ /\ worker'[s].job = j /\ worker'[s].pc # "start"
            /\ worker'[s].pc # "failing" =>
                 Status(j)' \in {"processing"} \cup Terminal
            /\ worker'[s].pc \in {"storing", "publish"} => "log" \in files'[j]
            /\ worker'[s].pc = "publish" => Artifacts \subseteq files'[j]
  PROVE  SafetyInv'
<1>1. /\ Status(j) \in {"queued", "processing"} \cup Terminal /\ AudioStored(j)
      /\ "truncated" \notin files[j] /\ request[j].pc = "done"
      /\ \A t \in Servers : j \notin Elements(queue[t])
      /\ \A t \in Servers : t # s => worker[t].job # j
  <2>1. worker[s].pc \in WorkerPc \ {"idle"}
    BY ConstantsAssumption DEF TypeInv, TypeOK, Occupied, Worker
  <2>2. Status(j) \in {"queued", "processing"} \cup Terminal /\ AudioStored(j)
    BY <2>1 DEF WorkerPc, SafetyInv, WorkerInv
  <2>3. ~Untaken(j)
    BY DEF Untaken
  <2>4. "truncated" \notin files[j] /\ request[j].pc = "done"
    BY <2>3 DEF SafetyInv, TruncatedInv, RequestInv
  <2>5. /\ \A t \in Servers : j \notin Elements(queue[t])
        /\ \A t \in Servers : t # s => worker[t].job # j
    BY ConstantsAssumption DEF SafetyInv, QueueInv, WorkerInv
  <2> QED BY <2>2, <2>4, <2>5
<1>2. /\ Status(j)' \in {"queued", "processing"} \cup Terminal
      /\ Status(j) \in Terminal => Status(j)' \in Terminal
      /\ Status(j)' = "queued" => Status(j) = "queued"
  BY <1>1 DEF Terminal, Status
<1>3. RequestInv'
  BY <1>1, <1>2, ConstantsAssumption
  DEF SafetyInv, RequestInv, Status, Untaken, Terminal
<1>4. QueueInv'
  BY <1>1, QueuedAreJobs, ConstantsAssumption
  DEF SafetyInv, QueueInv, Status, TypeInv
<1>5. RetryInv'
  <2>1. \A k \in Jobs : Status(k) \in Terminal => Status(k)' \in Terminal
    BY <1>2 DEF Status
  <2>2. \A k \in Jobs : audio[k] \in Jobs /\ source[k] \in Jobs \cup {NoJob}
    BY DEF TypeInv, TypeOK
  <2> QED BY <2>1, <2>2 DEF SafetyInv, RetryInv
<1>6. TruncatedInv'
  BY <1>1, ConstantsAssumption DEF SafetyInv, TruncatedInv, Status, Untaken
<1>7. \A k \in Jobs : AudioStored(k) => AudioStored(k)'
  <2>1. \A k \in Jobs : audio[k] \in Jobs
    BY DEF TypeInv, TypeOK
  <2>2. \A k \in Jobs : files[k] \subseteq files'[k]
    OBVIOUS
  <2>3. \A k \in Jobs : "truncated" \in files[k] => row'[k] = row[k]
    BY <1>1
  <2> QED BY <2>1, <2>2, <2>3 DEF AudioStored, Status
<1>8. WorkerInv'
  <2>1. \A t \in Servers : t # s =>
          /\ worker'[t] = worker[t] /\ worker[t].job # j
          /\ worker[t].job = NoJob \/ worker[t].job \in Jobs
    BY <1>1 DEF TypeInv, TypeOK, Worker
  <2>2. worker'[s].job = NoJob <=> worker'[s].pc = "idle"
    BY DEF TypeInv, Occupied
  <2>3. \A t \in Servers : worker[t].job = NoJob <=> worker[t].pc = "idle"
    BY DEF TypeInv, Occupied
  <2>4. \A k \in Jobs : k # j => Status(k)' = Status(k)
    BY DEF Status
  <2>5. AudioStored(j)'
    BY <1>1, <1>7
  <2> QED BY <1>2, <1>7, <2>1, <2>2, <2>3, <2>4, <2>5 DEF SafetyInv, WorkerInv
<1>9. FoundInv'
  BY <1>1, <1>2, <1>7 DEF SafetyInv, FoundInv, Status, Terminal, TypeInv, TypeOK
<1>10. AudioBeforeQueue'
  BY <1>1, <1>7 DEF SafetyInv, AudioBeforeQueue, AudioStored, Status
<1>11. PublishedWhole'
  BY <1>1, <1>7, <1>10 DEF SafetyInv, PublishedWhole, Status, HasAudio,
     Originals, AudioBeforeQueue, TypeInv, TypeOK
<1> QED BY <1>3, <1>4, <1>5, <1>6, <1>8, <1>9, <1>10, <1>11 DEF SafetyInv

LEMMA SafetyWorker ==
  ASSUME TypeInv, TypeInv', SafetyInv, NEW s \in Servers, WorkerStep(s)
  PROVE  SafetyInv'
<1> USE DEF TypeInv
<1>1. CASE TakeJob(s)
  BY <1>1, SafetyTakeJob
<1>2. CASE worker[s].pc # "idle" /\ ~TakeJob(s)
  <2>1. PICK j \in Jobs : j = worker[s].job
    BY <1>2, WorkerHasJob
  <2>2. worker[s] \in Worker /\ row[j] \in Row
    BY DEF TypeOK
  <2>3. CASE StartRun(s)
    <3>1. Status(j) = "queued" /\ Processing(row[j]).status = "processing"
      BY <2>1, <2>2, <2>3, RowUpdates DEF StartRun, Working, SafetyInv, WorkerInv
    <3>2. /\ \A k \in Jobs : k # j => row'[k] = row[k]
          /\ \A t \in Servers : t # s => worker'[t] = worker[t]
          /\ worker'[s].job = j
          /\ \/ Status(j)' = "processing" /\ worker'[s].pc = "launch"
             \/ row'[j] = row[j] /\ worker'[s].pc = "failing"
      BY <2>1, <2>3, <3>1, StepChanges, RaiseChanges
      DEF StartRun, WorkerPc, TypeOK, Status
    <3>3. UNCHANGED <<audio, source, found, queue, request, files>>
      BY <2>3 DEF StartRun
    <3> QED BY <2>1, <3>1, <3>2, <3>3, WorkerAdvances
  <2>4. CASE Launch(s)
    <3>1. /\ \A t \in Servers : t # s => worker'[t] = worker[t]
          /\ worker'[s].job = j /\ worker'[s].pc = "running"
      BY <2>1, <2>2, <2>4 DEF Launch, TypeOK, Worker
    <3>2. Status(j) \in {"processing"} \cup Terminal
      BY <2>1, <2>4 DEF Launch, Working, SafetyInv, WorkerInv
    <3>3. UNCHANGED <<row, audio, source, found, queue, request, files>>
      BY <2>4 DEF Launch
    <3> QED BY <2>1, <3>1, <3>2, <3>3, WorkerAdvances DEF Status
  <2>5. CASE PipelineExits(s)
    <3>1. /\ \A t \in Servers : t # s => worker'[t] = worker[t]
          /\ worker'[s].job = j /\ worker'[s].pc = "exited"
      BY <2>1, <2>2, <2>5, StepChanges DEF PipelineExits, WorkerPc, TypeOK, Worker
    <3>2. Status(j) \in {"processing"} \cup Terminal
      BY <2>1, <2>5 DEF PipelineExits, Working, SafetyInv, WorkerInv
    <3>3. UNCHANGED <<row, audio, source, found, queue, request, files>>
      BY <2>5 DEF PipelineExits
    <3> QED BY <2>1, <3>1, <3>2, <3>3, WorkerAdvances DEF Status
  <2>6. CASE StoreLog(s)
    <3>1. /\ \A t \in Servers : t # s => worker'[t] = worker[t]
          /\ worker'[s].job = j
          /\ \/ worker'[s].pc \in {"storing", "failing"} /\ "log" \in files'[j]
             \/ worker'[s].pc = "failing"
      BY <2>1, <2>6, StepChanges, RaiseChanges DEF StoreLog, WorkerPc, TypeOK
    <3>2. Status(j) \in {"processing"} \cup Terminal
      BY <2>1, <2>6 DEF StoreLog, Working, SafetyInv, WorkerInv
    <3>3. /\ \A k \in Jobs : k # j => files'[k] = files[k]
          /\ files[j] \subseteq files'[j]
          /\ "truncated" \in files'[j] => "truncated" \in files[j]
      BY <2>1, <2>6 DEF StoreLog, TypeOK
    <3>4. UNCHANGED <<row, audio, source, found, queue, request>>
      BY <2>6 DEF StoreLog
    <3> QED BY <2>1, <3>1, <3>2, <3>3, <3>4, WorkerAdvances DEF Status
  <2>7. ASSUME NEW a \in Artifacts, StoreArtifact(s, a) PROVE SafetyInv'
    <3>1. /\ \A t \in Servers : t # s => worker'[t] = worker[t]
          /\ worker'[s].job = j
          /\ \/ worker'[s].pc = "storing"
             \/ worker'[s].pc = "publish" /\ Artifacts \ files[j] = {a}
      BY <2>1, <2>7, StepChanges
      DEF StoreArtifact, LastArtifact, Missing, WorkerPc
    <3>2. /\ Status(j) \in {"processing"} \cup Terminal /\ "log" \in files[j]
      BY <2>1, <2>7 DEF StoreArtifact, Working, SafetyInv, WorkerInv
    <3>3. /\ \A k \in Jobs : k # j => files'[k] = files[k]
          /\ files'[j] = files[j] \cup {a}
      BY <2>1, <2>7 DEF StoreArtifact, TypeOK
    <3>4. /\ a # "truncated" /\ files[j] \subseteq files'[j]
          /\ "truncated" \in files'[j] => "truncated" \in files[j]
          /\ worker'[s].pc = "publish" => Artifacts \subseteq files'[j]
      BY <3>1, <3>3, ConstantsAssumption
    <3>5. UNCHANGED <<row, audio, source, found, queue, request>>
      BY <2>7 DEF StoreArtifact
    <3> QED BY <2>1, <3>1, <3>2, <3>3, <3>4, <3>5, WorkerAdvances DEF Status
  <2>8. CASE StoreArtifactFails(s)
    <3>1. FailureStages \subseteq Stages
      BY ConstantsAssumption DEF Stages
    <3>2. /\ \A t \in Servers : t # s => worker'[t] = worker[t]
          /\ worker'[s].job = j /\ worker'[s].pc = "failing"
      BY <2>1, <2>8, <3>1, RaiseChanges DEF StoreArtifactFails
    <3>3. UNCHANGED <<row, audio, source, found, queue, request, files>>
      BY <2>8 DEF StoreArtifactFails
    <3> QED BY <2>1, <3>2, <3>3, WorkerAdvances DEF Status
  <2>9. CASE Publish(s)
    <3>1. Artifacts \cup {"log"} \subseteq files[j]
      BY <2>1, <2>9 DEF Publish, Working, SafetyInv, WorkerInv
    <3>2. /\ Completed(row[j], worker[s].sawError).status = "completed"
          /\ Completed(row[j], worker[s].sawError).exports
          /\ Completed(row[j], worker[s].sawError).completedAt
      BY <2>2, RowUpdates DEF Worker
    <3>3. /\ \A k \in Jobs : k # j => row'[k] = row[k]
          /\ \/ row'[j] = row[j]
             \/ row'[j] = Completed(row[j], worker[s].sawError)
      BY <2>1, <2>9 DEF Publish, TypeOK
    <3>4. /\ \A t \in Servers : t # s => worker'[t] = worker[t]
          /\ \/ worker'[s].job = NoJob
             \/ worker'[s].job = j /\ worker'[s].pc = "failing"
      BY <2>1, <2>9, RaiseChanges, IdleWorker DEF Publish, TypeOK
    <3>5. UNCHANGED <<audio, source, found, queue, request, files>>
      BY <2>9 DEF Publish
    <3> QED BY <2>1, <3>1, <3>2, <3>3, <3>4, <3>5, WorkerAdvances DEF Status
  <2>10. CASE MarkFailed(s)
    <3>1. ErrorStage(s) \in Stages \cup {NoStage}
      BY <2>1, <2>2 DEF ErrorStage, Row, Worker
    <3>2. Failed(row[j], ErrorStage(s)).status = "failed"
      BY <2>2, <3>1, RowUpdates
    <3>3. /\ \A k \in Jobs : k # j => row'[k] = row[k]
          /\ row'[j] = row[j] \/ Status(j)' = "failed"
      BY <2>1, <2>10, <3>2 DEF MarkFailed, TypeOK, Status
    <3>4. /\ \A t \in Servers : t # s => worker'[t] = worker[t]
          /\ worker'[s].job = NoJob
      BY <2>10, IdleWorker DEF MarkFailed, TypeOK
    <3>5. UNCHANGED <<audio, source, found, queue, request, files>>
      BY <2>10 DEF MarkFailed
    <3> QED BY <2>1, <3>3, <3>4, <3>5, WorkerAdvances
  <2> QED
    BY <1>2, <2>3, <2>4, <2>5, <2>6, <2>7, <2>8, <2>9, <2>10 DEF WorkerStep
<1>3. CASE worker[s].pc = "idle"
  BY <1>1, <1>3 DEF WorkerStep, Working, StartRun, Launch, PipelineExits,
     StoreLog, StoreArtifact, StoreArtifactFails, Publish, MarkFailed
<1> QED BY <1>1, <1>2, <1>3

LEMMA SafetyServer ==
  ASSUME TypeInv, TypeInv', SafetyInv, NEW s \in Servers, ServerStep(s)
  PROVE  SafetyInv'
<1> USE DEF TypeInv
<1>1. CASE StartServer(s)
  <2>1. /\ found'[s] = {j \in Jobs : Status(j) = "processing"}
        /\ \A t \in Servers : t # s => found'[t] = found[t]
        /\ UNCHANGED <<row, audio, source, files, request, queue, worker>>
    BY <1>1 DEF StartServer, Stale, TypeOK, Status
  <2>2. \A j \in found'[s] : j \in Jobs /\ Status(j) = "processing" /\ AudioStored(j)
    BY <2>1 DEF SafetyInv, AudioBeforeQueue, AudioStored, Status
  <2>3. RequestInv'
    <3>1. \A j \in Jobs : request[j].pc # "done" => j \notin found'[s]
      BY <2>2 DEF SafetyInv, RequestInv, TypeOK, Request, RequestPc
    <3> QED BY <2>1, <3>1 DEF SafetyInv, RequestInv, Status, Untaken
  <2>4. TruncatedInv'
    BY <2>1, <2>2 DEF SafetyInv, TruncatedInv, Status, Untaken
  <2>5. FoundInv'
    BY <2>1, <2>2 DEF SafetyInv, FoundInv, Status, AudioStored
  <2>6. QueueInv' /\ RetryInv' /\ WorkerInv'
    BY <2>1 DEF SafetyInv, QueueInv, RetryInv, WorkerInv, Status, AudioStored
  <2>7. AudioBeforeQueue' /\ PublishedWhole'
    BY <2>1 DEF SafetyInv, AudioBeforeQueue, PublishedWhole, Status, HasAudio
  <2> QED BY <2>3, <2>4, <2>5, <2>6, <2>7 DEF SafetyInv
<1>2. CASE Recover(s)
  <2>1. /\ found'[s] = {} /\ \A t \in Servers : t # s => found'[t] = found[t]
        /\ UNCHANGED <<audio, source, files, request, queue, worker>>
    BY <1>2 DEF Recover, TypeOK
  <2>2. \A j \in Jobs : \/ row'[j] = row[j]
                        \/ j \in found[s] /\ Status(j)' = "interrupted"
    <3>1. \A j \in Jobs : Interrupted(row[j]).status = "interrupted"
      BY RowUpdates DEF TypeOK
    <3>2. CASE UNCHANGED row
      BY <3>2
    <3>3. CASE row' = [j \in Jobs |->
                         IF j \in found[s] THEN Interrupted(row[j]) ELSE row[j]]
      BY <3>1, <3>3 DEF Status
    <3> QED BY <1>2, <3>2, <3>3 DEF Recover
  <2>3. \A j \in Jobs : row'[j] # row[j] =>
          /\ Status(j) \in {"processing"} \cup Terminal /\ Status(j)' \in Terminal
          /\ AudioStored(j) /\ ~Untaken(j)
    BY <2>2 DEF SafetyInv, FoundInv, Untaken, Terminal
  <2>4. RequestInv'
    BY <2>1, <2>3 DEF SafetyInv, RequestInv, Status, Untaken, Terminal
  <2>5. QueueInv'
    BY <2>1, <2>3, QueuedAreJobs DEF SafetyInv, QueueInv, Status, Terminal
  <2>6. \A j \in Jobs : audio[j] \in Jobs /\ source[j] \in Jobs \cup {NoJob}
    BY DEF TypeOK
  <2>7. RetryInv'
    BY <2>1, <2>3, <2>6 DEF SafetyInv, RetryInv, Status, Terminal
  <2>8. TruncatedInv'
    BY <2>1, <2>3 DEF SafetyInv, TruncatedInv, Status, Untaken
  <2>9. \A j \in Jobs : AudioStored(j) => AudioStored(j)'
    BY <2>1, <2>3, <2>6 DEF AudioStored, Status, SafetyInv, TruncatedInv
  <2>10. WorkerInv'
    <3>1. \A j \in Jobs : \/ Status(j)' = Status(j)
                          \/ /\ Status(j)' \in Terminal
                             /\ Status(j) \in {"processing"} \cup Terminal
      BY <2>3 DEF Status
    <3>2. ASSUME NEW t \in Servers, worker[t].pc # "idle"
          PROVE  worker[t].job \in Jobs
      BY <3>2, WorkerHasJob
    <3> QED BY <2>1, <2>9, <3>1, <3>2 DEF SafetyInv, WorkerInv, Terminal, TypeOK,
               Worker, WorkerPc
  <2>11. FoundInv'
    BY <2>1, <2>3, <2>9 DEF SafetyInv, FoundInv, Status, TypeOK
  <2>12. AudioBeforeQueue'
    BY <2>1, <2>3, <2>9 DEF SafetyInv, AudioBeforeQueue, AudioStored, Status
  <2>13. PublishedWhole'
    BY <2>1, <2>2 DEF SafetyInv, PublishedWhole, Status, HasAudio
  <2> QED BY <2>4, <2>5, <2>7, <2>8, <2>10, <2>11, <2>12, <2>13 DEF SafetyInv
<1>3. CASE Drain(s) \/ DrainEnds(s)
  <2>1. UNCHANGED <<row, audio, source, files, found, request, queue, worker>>
    BY <1>3 DEF Drain, DrainEnds
  <2> QED BY <2>1 DEF SafetyInv, RequestInv, QueueInv, RetryInv, TruncatedInv,
     WorkerInv, FoundInv, AudioBeforeQueue, PublishedWhole, Status, Untaken,
     AudioStored, HasAudio
<1>4. CASE Crash(s)
  <2>1. /\ found'[s] = {} /\ queue'[s] = <<>> /\ worker'[s] = Idle
        /\ \A t \in Servers : t # s => /\ found'[t] = found[t]
                                       /\ queue'[t] = queue[t]
                                       /\ worker'[t] = worker[t]
        /\ UNCHANGED <<row, audio, source, files>>
    BY <1>4 DEF Crash, TypeOK
  <2>2. \A j \in Jobs : \/ request'[j] = request[j]
                        \/ InFlight(j) /\ request'[j].pc = "done"
    BY <1>4 DEF Crash, TypeOK, Request
  <2>3. Elements(queue'[s]) = {} /\ DOMAIN queue'[s] = {}
    BY <2>1 DEF Elements
  <2>4. \A j \in Jobs : Untaken(j) => Untaken(j)'
    BY <2>1, <2>3, IdleWorker, ConstantsAssumption DEF Untaken
  <2>5. RequestInv'
    BY <2>1, <2>2, <2>4 DEF SafetyInv, RequestInv, Status, InFlight
  <2>6. QueueInv'
    BY <2>1, <2>3, IdleWorker, QueuedAreJobs, ConstantsAssumption
    DEF SafetyInv, QueueInv, Status
  <2>7. TruncatedInv'
    BY <2>1, <2>2, <2>4 DEF SafetyInv, TruncatedInv, Status
  <2>8. WorkerInv'
    BY <2>1, IdleWorker DEF SafetyInv, WorkerInv, Status, AudioStored
  <2>9. FoundInv'
    BY <2>1 DEF SafetyInv, FoundInv, Status, AudioStored
  <2>10. RetryInv' /\ AudioBeforeQueue' /\ PublishedWhole'
    BY <2>1 DEF SafetyInv, RetryInv, AudioBeforeQueue, PublishedWhole, Status,
       HasAudio
  <2> QED BY <2>5, <2>6, <2>7, <2>8, <2>9, <2>10 DEF SafetyInv
<1> QED BY <1>1, <1>2, <1>3, <1>4 DEF ServerStep

LEMMA SafetyInit == Init => SafetyInv
<1> SUFFICES ASSUME Init PROVE SafetyInv
  OBVIOUS
<1>1. /\ \A j \in Jobs : /\ Status(j) = "absent" /\ request[j].pc = "none"
                         /\ source[j] = NoJob /\ audio[j] = j /\ files[j] = {}
      /\ \A s \in Servers : /\ queue[s] = <<>> /\ found[s] = {}
                            /\ worker[s].pc = "idle" /\ worker[s].job = NoJob
  BY NoRowIsRow, IdleWorker DEF Init, Status, NoRequest
<1>2. \A s \in Servers : Elements(queue[s]) = {} /\ DOMAIN queue[s] = {}
  BY <1>1 DEF Elements
<1>3. RequestInv
  BY <1>1, <1>2, ConstantsAssumption DEF RequestInv, Untaken
<1>4. QueueInv /\ FoundInv
  BY <1>1, <1>2 DEF QueueInv, FoundInv
<1>5. RetryInv /\ TruncatedInv /\ WorkerInv
  BY <1>1 DEF RetryInv, TruncatedInv, WorkerInv
<1>6. AudioBeforeQueue /\ PublishedWhole
  BY <1>1 DEF AudioBeforeQueue, PublishedWhole, Status
<1> QED BY <1>3, <1>4, <1>5, <1>6 DEF SafetyInv

LEMMA SafetyStep == TypeInv /\ SafetyInv /\ [Next]_vars => SafetyInv'
<1> SUFFICES ASSUME TypeInv, TypeInv', SafetyInv, [Next]_vars PROVE SafetyInv'
  BY StepTypes
<1>1. ASSUME UNCHANGED <<row, audio, source, files, found, request, queue, worker>>
      PROVE  SafetyInv'
  BY <1>1 DEF SafetyInv, RequestInv, QueueInv, RetryInv, TruncatedInv,
     WorkerInv, FoundInv, AudioBeforeQueue, PublishedWhole, Status, Untaken,
     AudioStored, HasAudio
<1>2. ASSUME NEW j \in Jobs, OrphanExits(j) PROVE SafetyInv'
  BY <1>1, <1>2 DEF OrphanExits
<1>3. CASE UNCHANGED vars
  BY <1>1, <1>3 DEF vars
<1> QED BY <1>2, <1>3, SafetyUploadBegin, SafetyRetryBegin, SafetyRequest,
           SafetyWorker, SafetyServer DEF Next

(* The token argument: SafetyInv holds in every reachable state.           *)
THEOREM SafetyInvariant == Spec => [](TypeInv /\ SafetyInv)
BY InitTypes, StepTypes, SafetyInit, SafetyStep, PTL DEF Spec

(* A job that reads "completed" is published and has every file, whichever *)
(* writes and commits failed and whichever processes were killed.          *)
THEOREM PublishedIsWhole == Spec => []PublishedWhole
<1>1. SafetyInv => PublishedWhole
  BY DEF SafetyInv
<1> QED BY <1>1, SafetyInvariant, PTL

(* No job is queued before audio for it is stored; only the retry of a     *)
(* failed upload can run on a truncated original.                          *)
THEOREM AudioComesFirst == Spec => []AudioBeforeQueue
<1>1. SafetyInv => AudioBeforeQueue
  BY DEF SafetyInv
<1> QED BY <1>1, SafetyInvariant, PTL

(* A retry names a job that has ended and works from the same audio.       *)
THEOREM RetriesAreBesideTheirSource == Spec => []RetriesFollowFinishedJobs
<1>1. SafetyInv => RetriesFollowFinishedJobs
  BY DEF SafetyInv, RetryInv, RetriesFollowFinishedJobs, Status
<1> QED BY <1>1, SafetyInvariant, PTL

(* The only step that marks a row processing finds it queued.              *)
LEMMA StartsQueued ==
  ASSUME TypeInv, SafetyInv, [Next]_vars, NEW j \in Jobs,
         Status(j) # "processing", Status(j)' = "processing"
  PROVE  Status(j) = "queued"
<1> USE DEF TypeInv
<1>1. \A k \in Jobs : row[k] \in Row
  BY DEF TypeOK
<1>2. ASSUME NEW s \in Servers, NEW k \in Jobs,
             UploadBegin(s, k) \/ \E src \in Jobs : RetryBegin(s, src, k)
      PROVE  FALSE
  BY <1>2, NewRows DEF UploadBegin, RetryBegin, Status, TypeOK
<1>3. ASSUME NEW k \in Jobs, RequestStep(k) PROVE FALSE
  <2>1. CASE UploadAccept(k)
    <3> DEFINE r == [row[k] EXCEPT !.status = "queued", !.stage = "queued"]
    <3>1. row' = [row EXCEPT ![k] = r] \/ UNCHANGED row
      BY <2>1 DEF UploadAccept, TypeOK
    <3>2. r.status = "queued"
      BY <1>1 DEF Row
    <3> HIDE DEF r
    <3> QED BY <3>1, <3>2 DEF Status, TypeOK
  <2>2. CASE Reject(k)
    <3>1. request[k].err \in Stages \cup {NoStage}
      BY DEF TypeOK, Request, Stages
    <3>2. Failed(row[k], request[k].err).status = "failed"
      BY <1>1, <3>1, RowUpdates
    <3> QED BY <2>2, <3>2 DEF Reject, Status, TypeOK
  <2> QED BY <1>3, <2>1, <2>2 DEF RequestStep, UploadStore, Enqueue, Status
<1>4. ASSUME NEW s \in Servers, WorkerStep(s) PROVE Status(j) = "queued"
  <2>1. CASE StartRun(s)
    BY <2>1 DEF StartRun, Working, Status, TypeOK, SafetyInv, WorkerInv
  <2>2. CASE Publish(s)
    <3>1. worker[s].job \in Jobs /\ worker[s] \in Worker
      BY <2>2, WorkerHasJob DEF Publish, Working, TypeOK
    <3>2. Completed(row[worker[s].job], worker[s].sawError).status = "completed"
      BY <1>1, <3>1, RowUpdates DEF Worker
    <3> QED BY <2>2, <3>2 DEF Publish, Status, TypeOK
  <2>3. CASE MarkFailed(s)
    <3>1. worker[s].job \in Jobs /\ worker[s] \in Worker
      BY <2>3, WorkerHasJob DEF MarkFailed, Working, TypeOK
    <3>2. ErrorStage(s) \in Stages \cup {NoStage}
      BY <1>1, <3>1 DEF ErrorStage, Row, Worker
    <3>3. Failed(row[worker[s].job], ErrorStage(s)).status = "failed"
      BY <1>1, <3>1, <3>2, RowUpdates
    <3> QED BY <2>3, <3>3 DEF MarkFailed, Status, TypeOK
  <2> QED BY <1>4, <2>1, <2>2, <2>3 DEF WorkerStep, TakeJob, Launch,
             PipelineExits, StoreLog, StoreArtifact, StoreArtifactFails, Status
<1>5. ASSUME NEW s \in Servers, ServerStep(s) PROVE FALSE
  <2>1. \A k \in Jobs : Interrupted(row[k]).status = "interrupted"
    BY <1>1, RowUpdates
  <2> QED BY <1>5, <2>1 DEF ServerStep, StartServer, Recover, Drain, DrainEnds,
             Crash, Status
<1>6. ASSUME NEW k \in Jobs, OrphanExits(k) PROVE FALSE
  BY <1>6 DEF OrphanExits, Status
<1>7. CASE UNCHANGED vars
  BY <1>7 DEF vars, Status
<1> QED BY <1>2, <1>3, <1>4, <1>5, <1>6, <1>7 DEF Next

(* No job is ever run twice: "processing" is entered from "queued" alone.  *)
THEOREM NoJobRunsTwice == Spec => StartsOnlyFromQueued
<1>1. TypeInv /\ SafetyInv /\ [Next]_vars =>
        [\A j \in Jobs :
           row[j].status # "processing" /\ row'[j].status = "processing" =>
             row[j].status = "queued"]_vars
  BY StartsQueued DEF Status
<1> QED BY <1>1, SafetyInvariant, PTL DEF Spec, StartsOnlyFromQueued

-----------------------------------------------------------------------------
(* Who changes what.                                                       *)

(* The row of a job changes by its handler or its worker, while the job is *)
(* as yet in their hands, or by the recovery that has found it.            *)
LEMMA WhoChangesARow ==
  ASSUME TypeInv, SafetyInv, Next, NEW j \in Jobs, row'[j] # row[j]
  PROVE  \/ /\ request[j].pc # "done"
            /\ Status(j) \in {"absent", "uploaded", "queued"}
            /\ Status(j)' \in {"uploaded", "queued", "failed"}
         \/ \E s \in Servers :
              /\ Alive(s) /\ worker[s].job = j
              /\ \/ worker[s].pc = "start" /\ Status(j)' = "processing"
                    /\ worker'[s].pc = "launch" /\ worker'[s].job = j
                 \/ worker[s].pc = "publish" /\ Status(j)' = "completed" /\ worker'[s] = Idle
                 \/ worker[s].pc = "failing" /\ Status(j)' = "failed" /\ worker'[s] = Idle
         \/ \E s \in Servers :
              /\ phase[s] = "recovering" /\ j \in found[s]
              /\ Status(j)' = "interrupted"
<1> USE DEF TypeInv
<1> DEFINE Goal ==
      \/ /\ request[j].pc # "done"
         /\ Status(j) \in {"absent", "uploaded", "queued"}
         /\ Status(j)' \in {"uploaded", "queued", "failed"}
      \/ \E s \in Servers :
           /\ Alive(s) /\ worker[s].job = j
           /\ \/ worker[s].pc = "start" /\ Status(j)' = "processing"
                 /\ worker'[s].pc = "launch" /\ worker'[s].job = j
              \/ worker[s].pc = "publish" /\ Status(j)' = "completed" /\ worker'[s] = Idle
              \/ worker[s].pc = "failing" /\ Status(j)' = "failed" /\ worker'[s] = Idle
      \/ \E s \in Servers :
           /\ phase[s] = "recovering" /\ j \in found[s]
           /\ Status(j)' = "interrupted"
<1>1. row[j] \in Row
  BY DEF TypeOK
<1>2. CASE \E s \in Servers, k \in Jobs :
             UploadBegin(s, k) \/ \E src \in Jobs : RetryBegin(s, src, k)
  <2>1. Status(j) = "absent"
    BY <1>2 DEF UploadBegin, RetryBegin, Status, TypeOK
  <2>2. Status(j)' \in {"uploaded", "queued"}
    BY <1>2, NewRows DEF UploadBegin, RetryBegin, Status, TypeOK
  <2> QED BY <2>1, <2>2 DEF SafetyInv, RequestInv
<1>3. ASSUME NEW k \in Jobs, RequestStep(k) PROVE Goal
  <2>1. k = j /\ request[j].pc \in {"accept", "reject"}
    BY <1>3 DEF RequestStep, UploadStore, UploadAccept, Enqueue, Reject, Handler, TypeOK
  <2>2. Status(j)' \in {"queued", "failed"}
    <3>1. request[j].err \in Stages \cup {NoStage}
      BY DEF TypeOK, Request, Stages
    <3>2. CASE row' = [row EXCEPT ![j] = Failed(@, request[j].err)]
      BY <1>1, <3>1, <3>2, RowUpdates DEF Status, TypeOK
    <3> QED BY <1>1, <1>3, <2>1, <3>2 DEF RequestStep, UploadStore, UploadAccept, Enqueue, Reject,
                                     Handler, Status, TypeOK, Row
  <2> QED BY <2>1, <2>2 DEF SafetyInv, RequestInv
<1>4. ASSUME NEW s \in Servers, WorkerStep(s) PROVE Goal
  <2>1. StartRun(s) \/ Publish(s) \/ MarkFailed(s)
    BY <1>4 DEF WorkerStep, TakeJob, Launch, PipelineExits, StoreLog, StoreArtifact,
                StoreArtifactFails
  <2>2. worker[s].job = j /\ Alive(s)
    BY <2>1 DEF StartRun, Publish, MarkFailed, Working, TypeOK
  <2>3. CASE StartRun(s)
    <3>1. row'[j] = Processing(row[j]) /\ worker'[s].pc = "launch" /\ worker'[s].job = j
      BY <2>2, <2>3, StepChanges DEF StartRun, TypeOK, WorkerPc
    <3> QED BY <1>1, <2>2, <2>3, <3>1, RowUpdates DEF StartRun, Working, Status
  <2>4. CASE Publish(s)
    <3>1. row'[j] = Completed(row[j], worker[s].sawError) /\ worker'[s] = Idle
      BY <2>2, <2>4 DEF Publish, TypeOK
    <3>2. worker[s].sawError \in BOOLEAN
      BY DEF TypeOK, Worker
    <3>3. Status(j)' = "completed"
      BY <1>1, <3>1, <3>2, RowUpdates DEF Status
    <3> QED BY <2>2, <2>4, <3>1, <3>3 DEF Publish, Working
  <2>5. CASE MarkFailed(s)
    <3>1. row'[j] = Failed(row[j], ErrorStage(s)) /\ worker'[s] = Idle
      BY <2>2, <2>5 DEF MarkFailed, TypeOK
    <3>2. worker[s] \in Worker
      BY DEF TypeOK
    <3>3. ErrorStage(s) \in Stages \cup {NoStage}
      BY <1>1, <2>2, <3>2 DEF ErrorStage, Row, Worker
    <3>4. Status(j)' = "failed"
      BY <1>1, <3>1, <3>3, RowUpdates DEF Status
    <3> QED BY <2>2, <2>5, <3>1, <3>4 DEF MarkFailed, Working
  <2> QED BY <2>1, <2>3, <2>4, <2>5
<1>5. ASSUME NEW s \in Servers, ServerStep(s) PROVE Goal
  <2>1. /\ phase[s] = "recovering" /\ j \in found[s]
        /\ row'[j] = Interrupted(row[j])
    BY <1>5 DEF ServerStep, StartServer, Recover, Drain, DrainEnds, Crash
  <2> QED BY <1>1, <2>1, RowUpdates DEF Status
<1>6. ASSUME NEW k \in Jobs, OrphanExits(k) PROVE Goal
  BY <1>6 DEF OrphanExits
<1> QED BY <1>2, <1>3, <1>4, <1>5, <1>6 DEF Next

(* What becomes of a worker: the job it has it had before, or took from a  *)
(* queue.                                                                  *)
LEMMA WhoHasAJob ==
  ASSUME TypeInv, TypeInv', SafetyInv, Next, NEW s \in Servers, worker'[s].pc # "idle"
  PROVE  \/ worker[s].pc # "idle" /\ worker'[s].job = worker[s].job
         \/ /\ worker'[s].job \in Jobs /\ Status(worker'[s].job) = "queued"
            /\ row' = row
<1> USE DEF TypeInv
<1>1. CASE worker'[s] = worker[s]
  BY <1>1
<1>2. ASSUME NEW t \in Servers, WorkerStep(t), worker'[s] # worker[s]
      PROVE  \/ worker[s].pc # "idle" /\ worker'[s].job = worker[s].job
             \/ /\ worker'[s].job \in Jobs /\ Status(worker'[s].job) = "queued"
                /\ row' = row
  <2>1. \E w : worker' = [worker EXCEPT ![t] = w]
    BY <1>2 DEF WorkerStep, TakeJob, StartRun, Launch, PipelineExits, StoreLog, StoreArtifact,
           StoreArtifactFails, Publish, MarkFailed, Step, Raise, TypeOK
  <2>2. t = s
    BY <1>2, <2>1 DEF TypeOK
  <2>3. CASE TakeJob(s)
    <3>1. /\ queue[s] \in Seq(Jobs) /\ queue[s] # <<>> /\ row' = row
          /\ worker'[s].job = Head(queue[s])
      BY <2>3 DEF TakeJob, TypeOK, Idle
    <3>2. Head(queue[s]) \in Elements(queue[s]) /\ Head(queue[s]) \in Jobs
      BY <3>1, TailElements DEF Elements
    <3> QED BY <3>1, <3>2 DEF SafetyInv, QueueInv
  <2>4. CASE ~TakeJob(s)
    <3>1. worker[s].pc # "idle"
      BY <1>2, <2>2, <2>4 DEF WorkerStep, StartRun, Launch, PipelineExits, StoreLog, StoreArtifact,
           StoreArtifactFails, Publish, MarkFailed, Working
    <3>2. worker[s] \in Worker
      BY DEF TypeOK
    <3>3. worker'[s].job = worker[s].job \/ worker'[s] = Idle
      BY <1>2, <2>2, <2>4, <3>2 DEF WorkerStep, StartRun, Launch, PipelineExits, StoreLog,
           StoreArtifact, StoreArtifactFails, Publish, MarkFailed, Step, Raise, TypeOK, Worker
    <3> QED BY <3>1, <3>3, IdleWorker
  <2> QED BY <2>3, <2>4
<1>3. ASSUME NEW t \in Servers, ServerStep(t) PROVE worker'[s] = worker[s]
  BY <1>3, IdleWorker DEF ServerStep, StartServer, Recover, Drain, DrainEnds, Crash, TypeOK
<1>4. ASSUME ~\E t \in Servers : WorkerStep(t) \/ ServerStep(t)
      PROVE  worker' = worker
  BY <1>4 DEF Next, UploadBegin, RetryBegin, RequestStep, UploadStore, UploadAccept, Enqueue,
              Reject, OrphanExits
<1> QED BY <1>1, <1>2, <1>3, <1>4
-----------------------------------------------------------------------------
(* With the history.  A step of HNext is one of Next, so what is invariant *)
(* without the history is so with it.                                      *)
LEMMA HistoryStep == [HNext]_hvars => [Next]_vars
BY DEF HNext, hvars, vars

LEMMA HistorySafety == HSpec => [](TypeInv /\ SafetyInv)
<1>1. HInit => TypeInv /\ SafetyInv
  BY InitTypes, SafetyInit DEF HInit
<1>2. TypeInv /\ SafetyInv /\ [HNext]_hvars => (TypeInv /\ SafetyInv)'
  BY HistoryStep, StepTypes, SafetyStep
<1> QED BY <1>1, <1>2, PTL DEF HSpec

-----------------------------------------------------------------------------
(* A job is held exactly when a live process has it.                       *)
LEMMA HeldIsSomewhere ==
  ASSUME TypeInv, NEW j \in Jobs
  PROVE  Held(j) <=> \E s \in Servers : Alive(s) /\ HeldAt(s, j)
BY DEF Held, HeldByWorker, HeldAt, TypeInv, Occupied

(* Where every process lives on, nobody is killed.                         *)
LEMMA NobodyKilled ==
  ASSUME phase' = phase PROVE ~\E s \in Servers : Killed(s)
BY DEF Killed, Alive

(* A lost commit leaves its mark.                                          *)
LEMMA LostCommitStrikes ==
  ASSUME phase' = phase, NEW j \in Jobs, CommitLost(j)
  PROVE  Strikes(j) # {}
BY NobodyKilled DEF Strikes

(* So does the kill of the process that has a job.                         *)
LEMMA KillStrikes ==
  ASSUME NEW s \in Servers, NEW j \in Jobs, Alive(s), phase'[s] = "dead", HeldAt(s, j)
  PROVE  "kill" \in Strikes(j)
<1>1. CASE InFlight(j) /\ request[j].at = s
  BY <1>1 DEF Drained, NoRequestsAt, Strikes, Killed
<1>2. CASE Holds(s, j)
  BY <1>2 DEF Drained, Holds, Strikes, Killed
<1>3. CASE j \in Elements(queue[s])
  <2>1. queue[s] # <<>>
    BY <1>3 DEF Elements
  <2> QED BY <2>1 DEF Drained, Strikes, Killed
<1> QED BY <1>1, <1>2, <1>3 DEF HeldAt

(* What becomes of the hold on job j in one step.                          *)
Outcome(j) ==
  \/ Held(j)'
  \/ Strikes(j) # {}
  \/ Status(j)' \in Terminal
  \/ row'[j] = row[j] /\ ~Held(j)

(* Nothing that has to do with j changes.                                  *)
LEMMA HoldIsKept ==
  ASSUME TypeInv, TypeInv', NEW j \in Jobs, phase' = phase, row'[j] = row[j],
         \A s \in Servers : HeldAt(s, j) => HeldAt(s, j)'
  PROVE  Outcome(j)
<1>1. \A s \in Servers : Alive(s) = Alive(s)'
  BY DEF Alive
<1> QED BY <1>1, HeldIsSomewhere DEF Outcome, Held, HeldByWorker, HeldAt, TypeInv, Occupied

LEMMA BeginKeeps ==
  ASSUME TypeInv, TypeInv', NEW j \in Jobs, NEW s \in Servers, NEW k \in Jobs,
         UploadBegin(s, k) \/ \E src \in Jobs : RetryBegin(s, src, k)
  PROVE  Outcome(j)
<1>1. /\ phase[s] = "serving" /\ UNCHANGED <<phase, queue, worker>>
      /\ \E pc \in {"store", "enqueue"} :
           request' = [request EXCEPT ![k] = [pc |-> pc, at |-> s, err |-> NoStage]]
      /\ \A i \in Jobs : i # k => row'[i] = row[i]
  BY DEF UploadBegin, RetryBegin, TypeInv, TypeOK
<1>2. CASE j = k
  <2>1. request'[j].pc \in {"store", "enqueue"} /\ request'[j].at = s /\ phase'[s] = "serving"
    BY <1>1, <1>2 DEF TypeInv, TypeOK
  <2>2. InFlight(j)' /\ Alive(request[j].at)'
    BY <2>1 DEF InFlight, Alive
  <2> QED BY <2>2 DEF Outcome, Held
<1>3. CASE j # k
  <2>1. request'[j] = request[j] /\ row'[j] = row[j]
    BY <1>1, <1>3
  <2> QED BY <1>1, <2>1, HoldIsKept DEF HeldAt, InFlight, Holds
<1> QED BY <1>2, <1>3

LEMMA RequestKeeps ==
  ASSUME TypeInv, TypeInv', NEW j \in Jobs, NEW k \in Jobs, RequestStep(k)
  PROVE  Outcome(j)
<1> USE DEF TypeInv
<1>1. /\ phase' = phase /\ worker' = worker
      /\ \A i \in Jobs : i # k => row'[i] = row[i] /\ request'[i] = request[i]
  BY DEF RequestStep, UploadStore, UploadAccept, Enqueue, Reject, Goto, HandlerFails, TypeOK
<1>2. ASSUME queue' = [queue EXCEPT ![request[k].at] = Append(@, k)],
             request[k].at \in Servers
      PROVE  /\ Elements(queue'[request[k].at]) = Elements(queue[request[k].at]) \cup {k}
             /\ \A t \in Servers \ {request[k].at} : queue'[t] = queue[t]
  BY <1>2, AppendedElements DEF TypeOK
<1>5. \A s \in Servers : Elements(queue[s]) \subseteq Elements(queue'[s])
  <2>1. CASE Enqueue(k)
    BY <1>2, <2>1 DEF Enqueue, Enqueued, Handler, Occupied, InFlight
  <2> QED BY <2>1 DEF RequestStep, UploadStore, UploadAccept, Reject
<1>3. CASE j # k
  BY <1>1, <1>3, <1>5, HoldIsKept DEF HeldAt, InFlight, Holds
<1>4. CASE j = k
  <2>1. Alive(request[j].at)
    BY <1>4 DEF RequestStep, UploadStore, UploadAccept, Enqueue, Reject, Handler
  <2>2. ASSUME request'[j].pc \notin {"none", "done"}, request'[j].at = request[j].at
        PROVE  Outcome(j)
    BY <1>1, <2>1, <2>2 DEF Outcome, Held, InFlight, Alive
  <2>3. CASE UploadStore(k)
    BY <1>4, <2>2, <2>3, GotoChanges, HandlerFailsChanges DEF UploadStore, RequestPc
  <2>4. CASE UploadAccept(k)
    <3>1. CASE Goto(k, "enqueue")
      BY <1>4, <2>2, <3>1, GotoChanges DEF RequestPc
    <3>2. CASE Goto(k, "done") /\ UNCHANGED row
      <4>1. CommitLost(j)
        BY <1>4, <2>4, <3>2, GotoChanges DEF CommitLost, UploadAccept, Handler, RequestPc
      <4> QED BY <1>1, <4>1, LostCommitStrikes DEF Outcome
    <3> QED BY <2>4, <3>1, <3>2 DEF UploadAccept
  <2>5. CASE Enqueue(k)
    <3>1. CASE queue' = [queue EXCEPT ![request[k].at] = Append(@, k)]
      <4>1. request[k].at \in Servers
        BY <2>5 DEF Enqueue, Handler, Occupied, InFlight
      <4>2. k \in Elements(queue'[request[k].at])
        BY <1>2, <3>1, <4>1
      <4> QED BY <1>1, <1>4, <2>1, <4>1, <4>2 DEF Outcome, Held, Alive
    <3>2. CASE HandlerFails(k, "queued")
      BY <1>4, <2>2, <3>2, HandlerFailsChanges
    <3> QED BY <2>5, <3>1, <3>2 DEF Enqueue, Enqueued
  <2>6. CASE Reject(k)
    <3>1. CASE row' = [row EXCEPT ![k] = Failed(@, request[k].err)]
      <4>1. row[k] \in Row /\ request[k].err \in Stages \cup {NoStage}
        BY DEF TypeOK, Request, Stages
      <4> QED BY <1>4, <3>1, <4>1, RowUpdates DEF Outcome, Status, Terminal, TypeOK
    <3>2. CASE UNCHANGED row
      <4>1. CommitLost(j)
        BY <1>4, <2>6, <3>2, GotoChanges DEF CommitLost, Reject, Handler, RequestPc
      <4> QED BY <1>1, <4>1, LostCommitStrikes DEF Outcome
    <3> QED BY <2>6, <3>1, <3>2 DEF Reject
  <2> QED BY <2>3, <2>4, <2>5, <2>6 DEF RequestStep
<1> QED BY <1>3, <1>4

LEMMA WorkerKeeps ==
  ASSUME TypeInv, TypeInv', NEW j \in Jobs, NEW s \in Servers, WorkerStep(s)
  PROVE  Outcome(j)
<1> USE DEF TypeInv
<1>1. /\ phase' = phase /\ request' = request
      /\ \A t \in Servers : t # s => worker'[t] = worker[t]
  <2>1. phase' = phase /\ request' = request
    BY DEF WorkerStep, TakeJob, StartRun, Launch, PipelineExits, StoreLog, StoreArtifact,
           StoreArtifactFails, Publish, MarkFailed
  <2>2. \E w : worker' = [worker EXCEPT ![s] = w]
    BY DEF WorkerStep, TakeJob, StartRun, Launch, PipelineExits, StoreLog, StoreArtifact,
           StoreArtifactFails, Publish, MarkFailed, Step, Raise, TypeOK
  <2> QED BY <2>1, <2>2 DEF TypeOK
<1>2. CASE TakeJob(s)
  <2>1. /\ queue[s] \in Seq(Jobs) /\ queue[s] # <<>> /\ queue'[s] = Tail(queue[s])
        /\ \A t \in Servers : t # s => queue'[t] = queue[t]
        /\ worker[s].pc = "idle"
        /\ worker'[s].pc = "start" /\ worker'[s].job = Head(queue[s])
    BY <1>2 DEF TakeJob, Working, TypeOK, Idle
  <2>2. Elements(queue[s]) \subseteq {Head(queue[s])} \cup Elements(Tail(queue[s]))
    <3>1. \A i \in DOMAIN queue[s] :
            \/ queue[s][i] = Head(queue[s])
            \/ i - 1 \in DOMAIN Tail(queue[s]) /\ Tail(queue[s])[i - 1] = queue[s][i]
      BY <2>1
    <3> QED BY <3>1 DEF Elements
  <2>3. \A t \in Servers : HeldAt(t, j) => HeldAt(t, j)'
    BY <1>1, <2>1, <2>2 DEF HeldAt, InFlight, Holds
  <2> QED BY <1>1, <1>2, <2>3, HoldIsKept DEF TakeJob
<1>3. ASSUME UNCHANGED queue, worker'[s].pc # "idle", worker'[s].job = worker[s].job,
             worker[s].pc # "idle", worker[s].job = j \/ row'[j] = row[j]
      PROVE  Outcome(j)
  <2>1. \A t \in Servers : HeldAt(t, j) => HeldAt(t, j)'
    BY <1>1, <1>3 DEF HeldAt, InFlight, Holds
  <2>2. CASE row'[j] = row[j]
    BY <1>1, <1>3, <2>1, <2>2, HoldIsKept
  <2>3. CASE worker[s].job = j
    <3>1. Alive(s)'
      BY <1>1 DEF WorkerStep, TakeJob, StartRun, Launch, PipelineExits, StoreLog, StoreArtifact,
                  StoreArtifactFails, Publish, MarkFailed, Working, Alive
    <3> QED BY <1>3, <2>3, <3>1 DEF Outcome, Held, HeldByWorker, Holds
  <2> QED BY <1>3, <2>2, <2>3
<1>4. ASSUME UNCHANGED <<queue, row>>, worker[s].pc # "idle",
             \/ \E to \in WorkerPc \ {"idle"} : Step(s, to)
             \/ \E st \in Stages \cup {NoStage, RowStage} : Raise(s, st)
      PROVE  Outcome(j)
  BY <1>3, <1>4, StepChanges, RaiseChanges
<1>5. FailureStages \subseteq Stages
  BY ConstantsAssumption DEF Stages
<1>6. CASE StartRun(s)
  <2>1. CASE UNCHANGED row
    BY <1>4, <1>6, <2>1 DEF StartRun, Working, WorkerPc
  <2>2. CASE Step(s, "launch") /\ row' = [row EXCEPT ![worker[s].job] = Processing(@)]
    BY <1>3, <1>6, <2>2, StepChanges DEF StartRun, Working, WorkerPc, TypeOK
  <2> QED BY <1>6, <2>1, <2>2 DEF StartRun
<1>7. CASE Launch(s)
  <2>1. worker'[s].job = worker[s].job /\ worker'[s].pc = "running"
    BY <1>7 DEF Launch, TypeOK, Worker
  <2> QED BY <1>3, <1>7, <2>1 DEF Launch, Working
<1>8. CASE PipelineExits(s)
  <2>1. worker'[s].job = worker[s].job /\ worker'[s].pc = "exited"
    BY <1>8 DEF PipelineExits, Step, TypeOK, Worker
  <2> QED BY <1>3, <1>8, <2>1 DEF PipelineExits, Working
<1>9. CASE StoreLog(s)
  BY <1>4, <1>9 DEF StoreLog, Working, WorkerPc
<1>10. ASSUME NEW a \in Artifacts, StoreArtifact(s, a) PROVE Outcome(j)
  BY <1>4, <1>10 DEF StoreArtifact, Working, WorkerPc
<1>11. CASE StoreArtifactFails(s)
  BY <1>4, <1>5, <1>11 DEF StoreArtifactFails, Working
<1>12. ASSUME worker' = [worker EXCEPT ![s] = Idle], UNCHANGED queue, worker[s].job # j,
              row'[j] = row[j]
       PROVE  Outcome(j)
  <2>1. \A t \in Servers : HeldAt(t, j) => HeldAt(t, j)'
    BY <1>1, <1>12 DEF HeldAt, InFlight, Holds
  <2> QED BY <1>1, <1>12, <2>1, HoldIsKept
<1>13. CASE Publish(s)
  <2>1. CASE Raise(s, RowStage) /\ UNCHANGED row
    BY <1>4, <1>13, <2>1 DEF Publish, Working
  <2>2. CASE /\ row' = [row EXCEPT ![worker[s].job] = Completed(@, worker[s].sawError)]
             /\ worker' = [worker EXCEPT ![s] = Idle]
    <3>1. CASE worker[s].job = j
      <4>1. row[j] \in Row /\ worker[s].sawError \in BOOLEAN
        BY DEF TypeOK, Worker
      <4>2. Completed(row[j], worker[s].sawError).status = "completed"
        BY <4>1, RowUpdates
      <4>3. row'[j] = Completed(row[j], worker[s].sawError)
        BY <2>2, <3>1 DEF TypeOK
      <4> QED BY <4>2, <4>3 DEF Outcome, Status, Terminal
    <3>2. CASE worker[s].job # j
      BY <1>12, <1>13, <2>2, <3>2 DEF Publish, TypeOK
    <3> QED BY <3>1, <3>2
  <2> QED BY <1>13, <2>1, <2>2 DEF Publish
<1>14. CASE MarkFailed(s)
  <2>1. worker[s].pc = "failing" /\ worker' = [worker EXCEPT ![s] = Idle]
    BY <1>14 DEF MarkFailed, Working
  <2>2. CASE worker[s].job # j
    BY <1>12, <1>14, <2>1, <2>2 DEF MarkFailed, TypeOK
  <2>3. CASE worker[s].job = j /\ UNCHANGED row
    <3>1. worker'[s].pc = "idle"
      BY <2>1, IdleWorker DEF TypeOK
    <3>2. CommitLost(j)
      BY <2>1, <2>3, <3>1 DEF CommitLost
    <3> QED BY <1>1, <3>2, LostCommitStrikes DEF Outcome
  <2>4. CASE worker[s].job = j /\ row' = [row EXCEPT ![j] = Failed(@, ErrorStage(s))]
    <3>1. row[j] \in Row /\ ErrorStage(s) \in Stages \cup {NoStage}
      <4>1. worker[s] \in Worker /\ row[j] \in Row
        BY DEF TypeOK
      <4> QED BY <2>1, <2>4, <4>1 DEF ErrorStage, Row, Worker
    <3> QED BY <2>4, <3>1, RowUpdates DEF Outcome, Status, Terminal, TypeOK
  <2> QED BY <1>14, <2>2, <2>3, <2>4 DEF MarkFailed
<1> QED BY <1>2, <1>6, <1>7, <1>8, <1>9, <1>10, <1>11, <1>13, <1>14 DEF WorkerStep

(* Alive processes go on having their jobs while s starts or stops, unless *)
(* s is killed with the job.                                               *)
LEMMA ServerKeeps ==
  ASSUME TypeInv, TypeInv', NEW j \in Jobs, NEW s \in Servers, ServerStep(s)
  PROVE  Outcome(j)
<1> USE DEF TypeInv
<1>1. CASE row'[j] # row[j]
  <2>1. Recover(s) /\ row'[j] = Interrupted(row[j])
    BY <1>1 DEF ServerStep, StartServer, Recover, Drain, DrainEnds, Crash
  <2> QED BY <2>1, RowUpdates DEF Outcome, Status, Terminal, TypeOK
<1>2. CASE row'[j] = row[j] /\ ~Held(j)
  BY <1>2 DEF Outcome
<1>3. ASSUME NEW t \in Servers, Alive(t), HeldAt(t, j)
      PROVE  Outcome(j)
  <2>1. CASE t = s /\ phase'[s] = "dead"
    BY <1>3, <2>1, KillStrikes DEF Outcome
  <2>2. CASE t # s \/ phase'[s] # "dead"
    <3>1. phase'[t] \in {"serving", "draining"}
      BY <1>3, <2>2 DEF ServerStep, StartServer, Recover, Drain, DrainEnds, Crash, Alive, TypeOK
    <3>2. HeldAt(t, j)'
      <4>1. CASE Crash(s)
        BY <1>3, <2>2, <4>1 DEF Crash, HeldAt, InFlight, Holds, TypeOK
      <4>2. CASE ~Crash(s)
        BY <1>3, <4>2 DEF ServerStep, StartServer, Recover, Drain, DrainEnds, HeldAt, InFlight,
                          Holds
      <4> QED BY <4>1, <4>2
    <3> QED BY <3>1, <3>2, HeldIsSomewhere
         DEF Outcome, Held, HeldByWorker, HeldAt, Alive, Occupied
  <2> QED BY <2>1, <2>2
<1> QED BY <1>1, <1>2, <1>3, HeldIsSomewhere

LEMMA StepKeeps ==
  ASSUME TypeInv, TypeInv', Next, NEW j \in Jobs
  PROVE  Outcome(j)
<1>1. ASSUME NEW k \in Jobs, OrphanExits(k) PROVE Outcome(j)
  BY <1>1, HoldIsKept DEF OrphanExits, HeldAt, InFlight, Holds
<1> QED BY <1>1, BeginKeeps, RequestKeeps, WorkerKeeps, ServerKeeps DEF Next

(* No job is lost but by a kill of the process that had it or by a failed  *)
(* commit about it: neither by another job's failure, nor by a recovery    *)
(* that is skipped or late, nor by a graceful stop or an overlapping start.*)
THEOREM LossHasAReason == HSpec => []LossIsExplained
<1>1. HInit => LossIsExplained
  BY DEF HInit, Init, LossIsExplained, NoRow
<1>2. TypeInv /\ TypeInv' /\ LossIsExplained /\ [HNext]_hvars => LossIsExplained'
  <2> SUFFICES ASSUME TypeInv, TypeInv', LossIsExplained, [HNext]_hvars, NEW j \in Jobs,
                      row'[j].status \in {"uploaded", "queued", "processing"}
               PROVE  Held(j)' \/ hit'[j] # {}
    BY DEF LossIsExplained
  <2>1. CASE UNCHANGED hvars
    BY <2>1 DEF hvars, vars, LossIsExplained, Held, HeldByWorker, Holds, InFlight, Alive
  <2>2. CASE HNext
    <3>1. Next /\ hit'[j] = hit[j] \cup Strikes(j)
      BY <2>2 DEF HNext
    <3>2. Outcome(j)
      BY <3>1, StepKeeps
    <3> QED BY <3>1, <3>2 DEF Outcome, Status, Terminal, LossIsExplained
  <2> QED BY <2>1, <2>2
<1> QED BY <1>1, <1>2, HistorySafety, PTL DEF HSpec

-----------------------------------------------------------------------------
(* A pipeline runs under the worker that launched it, or is an orphan.     *)
RunBy(s, j) == Alive(s) /\ worker[s].pc = "running" /\ worker[s].job = j

PipelineInv ==
  \A j \in pipelines : "kill" \in hit[j] \/ \E s \in Servers : RunBy(s, j)

LEMMA WorkerRuns ==
  ASSUME TypeInv, NEW j \in Jobs, NEW s \in Servers, WorkerStep(s), j \in pipelines',
         j \in pipelines => "kill" \in hit[j] \/ \E t \in Servers : RunBy(t, j)
  PROVE  "kill" \in hit[j] \/ \E t \in Servers : RunBy(t, j)'
<1> USE DEF TypeInv
<1>1. phase' = phase /\ \E w : worker' = [worker EXCEPT ![s] = w]
  BY DEF WorkerStep, TakeJob, StartRun, Launch, PipelineExits, StoreLog, StoreArtifact,
         StoreArtifactFails, Publish, MarkFailed, Step, Raise, TypeOK
<1>2. ASSUME NEW t \in Servers, RunBy(t, j), t # s
      PROVE  RunBy(t, j)'
  BY <1>1, <1>2 DEF RunBy, Alive, TypeOK
<1>3. CASE Launch(s)
  <2>1. CASE j = worker[s].job
    <3>1. Alive(s) /\ worker'[s].pc = "running" /\ worker'[s].job = j
      BY <1>3, <2>1 DEF Launch, Working, TypeOK, Worker
    <3> QED BY <1>1, <3>1 DEF RunBy, Alive
  <2>2. CASE j # worker[s].job
    BY <1>2, <1>3, <2>2 DEF Launch, Working, RunBy
  <2> QED BY <2>1, <2>2
<1>4. CASE PipelineExits(s)
  BY <1>2, <1>4 DEF PipelineExits, RunBy
<1>5. CASE ~Launch(s) /\ ~PipelineExits(s)
  <2>1. pipelines' = pipelines /\ worker[s].pc # "running"
    BY <1>5 DEF WorkerStep, TakeJob, StartRun, StoreLog, StoreArtifact, StoreArtifactFails,
                Publish, MarkFailed, Working
  <2> QED BY <1>2, <2>1 DEF RunBy
<1> QED BY <1>3, <1>4, <1>5

LEMMA ServerRuns ==
  ASSUME TypeInv, NEW j \in Jobs, NEW s \in Servers, ServerStep(s),
         NEW t \in Servers, RunBy(t, j)
  PROVE  "kill" \in Strikes(j) \/ RunBy(t, j)'
<1> USE DEF TypeInv
<1>1. HeldAt(t, j)
  BY DEF RunBy, HeldAt, Holds
<1>2. CASE phase'[t] = "dead"
  BY <1>1, <1>2, KillStrikes DEF RunBy
<1>3. CASE phase'[t] # "dead"
  <2>1. phase'[t] \in {"serving", "draining"}
    BY <1>3 DEF ServerStep, StartServer, Recover, Drain, DrainEnds, Crash, RunBy, Alive, TypeOK
  <2>2. worker'[t] = worker[t]
    BY <1>3 DEF ServerStep, StartServer, Recover, Drain, DrainEnds, Crash, TypeOK
  <2> QED BY <2>1, <2>2 DEF RunBy, Alive
<1> QED BY <1>2, <1>3

LEMMA PipelineStep ==
  TypeInv /\ TypeInv' /\ PipelineInv /\ [HNext]_hvars => PipelineInv'
<1> SUFFICES ASSUME TypeInv, TypeInv', PipelineInv, [HNext]_hvars,
                    NEW j \in Jobs, j \in pipelines'
             PROVE  "kill" \in hit'[j] \/ \E s \in Servers : RunBy(s, j)'
  BY DEF PipelineInv, TypeInv, TypeOK
<1>1. CASE UNCHANGED hvars
  BY <1>1 DEF hvars, vars, PipelineInv, RunBy, Alive
<1>2. CASE HNext
  <2>1. Next /\ hit'[j] = hit[j] \cup Strikes(j)
    BY <1>2 DEF HNext
  <2>2. j \in pipelines => "kill" \in hit[j] \/ \E s \in Servers : RunBy(s, j)
    BY DEF PipelineInv
  <2>3. ASSUME NEW s \in Servers, WorkerStep(s)
        PROVE  "kill" \in hit'[j] \/ \E t \in Servers : RunBy(t, j)'
    BY <2>1, <2>2, <2>3, WorkerRuns
  <2>4. ASSUME NEW s \in Servers, ServerStep(s)
        PROVE  "kill" \in hit'[j] \/ \E t \in Servers : RunBy(t, j)'
    <3>1. j \in pipelines
      BY <2>4 DEF ServerStep, StartServer, Recover, Drain, DrainEnds, Crash
    <3> QED BY <2>1, <2>2, <2>4, <3>1, ServerRuns
  <2>5. ASSUME UNCHANGED <<phase, worker>>, pipelines' \subseteq pipelines
        PROVE  "kill" \in hit'[j] \/ \E t \in Servers : RunBy(t, j)'
    BY <2>1, <2>2, <2>5 DEF RunBy, Alive
  <2>6. ASSUME NEW s \in Servers, NEW k \in Jobs,
               UploadBegin(s, k) \/ \E src \in Jobs : RetryBegin(s, src, k)
        PROVE  UNCHANGED <<phase, worker, pipelines>>
    BY <2>6 DEF UploadBegin, RetryBegin
  <2>7. ASSUME NEW k \in Jobs, RequestStep(k) \/ OrphanExits(k)
        PROVE  UNCHANGED <<phase, worker>> /\ pipelines' \subseteq pipelines
    BY <2>7 DEF RequestStep, UploadStore, UploadAccept, Enqueue, Reject, OrphanExits
  <2> QED BY <2>1, <2>3, <2>4, <2>5, <2>6, <2>7 DEF Next
<1> QED BY <1>1, <1>2

(* Two pipelines run at once only beside the orphan of a killed process or *)
(* while two processes overlap.                                            *)
THEOREM OverlapNeedsAKill == HSpec => []PipelinesOverlapOnlyAfterKills
<1>1. HInit => PipelineInv
  BY DEF HInit, Init, PipelineInv
<1>2. PipelineInv => PipelinesOverlapOnlyAfterKills
  BY DEF PipelineInv, PipelinesOverlapOnlyAfterKills, RunBy
<1> QED BY <1>1, <1>2, HistorySafety, PipelineStep, PTL DEF HSpec

-----------------------------------------------------------------------------
(* A worker never has a job that has completed or failed.                  *)
HasUnended(s) ==
  worker[s].pc # "idle" => Status(worker[s].job) \notin {"completed", "failed"}

RunningInv == \A s \in Servers : HasUnended(s)

LEMMA RunningStep ==
  TypeInv /\ TypeInv' /\ SafetyInv /\ RunningInv /\ [Next]_vars => RunningInv'
<1> SUFFICES ASSUME TypeInv, TypeInv', SafetyInv, RunningInv, [Next]_vars,
                    NEW s \in Servers, worker'[s].pc # "idle"
             PROVE  Status(worker[s].job)' \notin {"completed", "failed"}
  BY DEF RunningInv, HasUnended
<1>1. CASE UNCHANGED vars
  BY <1>1 DEF vars, RunningInv, HasUnended, Status
<1>2. CASE Next /\ row' = row /\ Status(worker'[s].job) = "queued"
  BY <1>2 DEF Status
<1>3. CASE Next /\ worker[s].pc # "idle" /\ worker'[s].job = worker[s].job
  <2> DEFINE j == worker[s].job
  <2>1. j \in Jobs /\ Status(j) \notin {"completed", "failed"}
    BY <1>3, WorkerHasJob DEF RunningInv, HasUnended
  <2>2. CASE row'[j] = row[j]
    BY <1>3, <2>1, <2>2 DEF Status
  <2>3. CASE row'[j] # row[j]
    <3>1. request[j].pc = "done"
      BY <1>3, <2>1 DEF SafetyInv, RequestInv, Untaken
    <3>2. \A t \in Servers : worker[t].job = j => t = s
      BY <1>3, <2>1, ConstantsAssumption DEF SafetyInv, WorkerInv
    <3> QED BY <1>3, <2>1, <2>3, <3>1, <3>2, WhoChangesARow, IdleWorker
  <2> QED BY <2>2, <2>3
<1> QED BY <1>1, <1>2, <1>3, WhoHasAJob

(* The row of a job that has ended changes again only when a recovery      *)
(* writes what it read before the end, or when the worker of a draining    *)
(* process ends a run that a recovery has declared interrupted; the job    *)
(* never becomes active again.                                             *)
THEOREM EndIsAlmostFinal == HSpec => EndedRowsChangeOnlyByRecovery
<1>1. HInit => RunningInv
  BY DEF HInit, Init, RunningInv, HasUnended, Idle
<1>2. TypeInv /\ TypeInv' /\ SafetyInv /\ RunningInv /\ [HNext]_hvars => RunningInv'
  BY HistoryStep, RunningStep
<1>3. TypeInv /\ SafetyInv /\ RunningInv /\ [HNext]_hvars =>
        [\A j \in Jobs :
           row[j].status \in Terminal /\ row'[j] # row[j] =>
             \/ /\ row'[j].status = "interrupted"
                /\ \E s \in Servers : phase[s] = "recovering" /\ j \in found[s]
             \/ /\ row[j].status = "interrupted"
                /\ row'[j].status \in {"completed", "failed"}
                /\ HeldByWorker(j)]_hvars
  <2> SUFFICES ASSUME TypeInv, SafetyInv, RunningInv, HNext,
                      NEW j \in Jobs, row[j].status \in Terminal, row'[j] # row[j]
               PROVE  \/ /\ row'[j].status = "interrupted"
                         /\ \E s \in Servers : phase[s] = "recovering" /\ j \in found[s]
                      \/ /\ row[j].status = "interrupted"
                         /\ row'[j].status \in {"completed", "failed"}
                         /\ HeldByWorker(j)
    OBVIOUS
  <2>1. Next /\ Status(j) \in Terminal
    BY DEF HNext, Status
  <2>2. ASSUME NEW s \in Servers, Alive(s), worker[s].job = j,
               \/ worker[s].pc = "start" /\ Status(j)' = "processing"
               \/ worker[s].pc = "publish" /\ Status(j)' = "completed"
               \/ worker[s].pc = "failing" /\ Status(j)' = "failed"
        PROVE  /\ row[j].status = "interrupted"
               /\ row'[j].status \in {"completed", "failed"}
               /\ HeldByWorker(j)
    <3>1. HeldByWorker(j)
      BY <2>2 DEF HeldByWorker, Holds
    <3>2. Status(j) = "interrupted"
      BY <2>1, <2>2 DEF RunningInv, HasUnended, Terminal
    <3>3. worker[s].pc # "start"
      BY <2>2, <3>2 DEF SafetyInv, WorkerInv
    <3> QED BY <2>2, <3>1, <3>2, <3>3 DEF Status
  <2> QED BY <2>1, <2>2, WhoChangesARow DEF Status, Terminal
<1> QED BY <1>1, <1>2, <1>3, HistorySafety, PTL DEF HSpec, EndedRowsChangeOnlyByRecovery

-----------------------------------------------------------------------------
(***************************************************************************)
(* When server processes do not overlap: how a job ends, and that the      *)
(* runtime implements JobContract.                                         *)
(***************************************************************************)
(* One process at a time: the earlier ones are dead, only a live one has   *)
(* work, only a recovering one has a list, whose jobs are processing, and  *)
(* a run that goes on is processing.                                       *)
OneProcess ==
  \A s, t \in Servers : t < s /\ phase[s] # "off" => phase[t] = "dead"

WorkIsAlive == \A s \in Servers : worker[s].pc # "idle" => Alive(s)

ListIsFresh ==
  \A s \in Servers : \A j \in found[s] :
    phase[s] = "recovering" /\ Status(j) = "processing"

RunsOn(s) ==
  /\ worker[s].pc \in {"launch", "running", "exited", "storing", "publish"} =>
       Status(worker[s].job) = "processing"
  /\ worker[s].pc = "failing" => Status(worker[s].job) \in {"queued", "processing"}

SoloInv ==
  OneProcess /\ WorkIsAlive /\ ListIsFresh /\ \A s \in Servers : RunsOn(s)

Running(s) == phase[s] \in {"recovering", "serving", "draining"}

LEMMA OnlyOneRuns ==
  ASSUME OneProcess, NEW s \in Servers, NEW t \in Servers, Running(s), Running(t)
  PROVE  s = t
<1>1. s \in Int /\ t \in Int
  BY ConstantsAssumption DEF Servers
<1>2. ~(s < t) /\ ~(t < s)
  BY DEF OneProcess, Running
<1> QED BY <1>1, <1>2

LEMMA SoloInit == Init => SoloInv
BY DEF Init, SoloInv, OneProcess, WorkIsAlive, ListIsFresh, RunsOn, Idle

LEMMA PhaseSteps ==
  ASSUME TypeInv, Next, "overlap" \notin Faults, NEW s \in Servers
  PROVE  /\ phase'[s] = "off" <=> phase[s] = "off" /\ phase'[s] = phase[s]
         /\ phase[s] = "dead" => phase'[s] = "dead"
         /\ phase[s] = "off" /\ phase'[s] # "off" =>
              StartServer(s) /\ \A t \in Servers : t < s => phase[t] = "dead"
         /\ Alive(s) /\ ~Alive(s)' =>
              /\ worker'[s].pc = "idle"
              /\ phase'[s] = "dead"
         /\ phase[s] = "recovering" /\ phase'[s] # "recovering" => found'[s] = {}
<1> USE DEF TypeInv
<1>1. CASE phase'[s] = phase[s]
  BY <1>1 DEF Alive
<1>2. ASSUME NEW t \in Servers, ServerStep(t), phase'[s] # phase[s]
      PROVE  t = s
  BY <1>2 DEF ServerStep, StartServer, Recover, Drain, DrainEnds, Crash, TypeOK
<1>3. ASSUME ~\E t \in Servers : ServerStep(t)
      PROVE  phase' = phase
  <2>1. \A t \in Servers : WorkerStep(t) => phase' = phase
    BY DEF WorkerStep, TakeJob, StartRun, Launch, PipelineExits, StoreLog, StoreArtifact,
           StoreArtifactFails, Publish, MarkFailed
  <2>2. \A j \in Jobs : RequestStep(j) \/ OrphanExits(j) => phase' = phase
    BY DEF RequestStep, UploadStore, UploadAccept, Enqueue, Reject, OrphanExits
  <2> QED BY <1>3, <2>1, <2>2 DEF Next, UploadBegin, RetryBegin
<1>4. CASE StartServer(s)
  <2>1. \A t \in Servers : t < s => phase[t] = "dead"
    <3>1. \A t \in Servers : t < s => t \in 1..(s - 1)
      BY ConstantsAssumption DEF Servers
    <3> QED BY <1>4, <3>1 DEF StartServer, PredecessorGone
  <2> QED BY <1>4, <2>1 DEF StartServer, TypeOK, Alive
<1>5. CASE Recover(s)
  BY <1>5 DEF Recover, TypeOK, Alive
<1>6. CASE Drain(s)
  BY <1>6 DEF Drain, TypeOK, Alive
<1>7. CASE DrainEnds(s)
  BY <1>7 DEF DrainEnds, Drained, TypeOK, Alive
<1>8. CASE Crash(s)
  BY <1>8, IdleWorker DEF Crash, TypeOK, Alive
<1> QED BY <1>1, <1>2, <1>3, <1>4, <1>5, <1>6, <1>7, <1>8 DEF ServerStep

(* A worker moves on its own.                                              *)
LEMMA WhoMovesAWorker ==
  ASSUME TypeInv, Next, NEW s \in Servers
  PROVE  \/ worker'[s] = worker[s]
         \/ worker'[s] = Idle
         \/ WorkerStep(s)
<1> USE DEF TypeInv
<1>1. ASSUME NEW t \in Servers, WorkerStep(t)
      PROVE  worker'[s] = worker[s] \/ WorkerStep(s)
  <2>1. \E w : worker' = [worker EXCEPT ![t] = w]
    BY <1>1 DEF WorkerStep, TakeJob, StartRun, Launch, PipelineExits, StoreLog, StoreArtifact,
           StoreArtifactFails, Publish, MarkFailed, Step, Raise, TypeOK
  <2> QED BY <1>1, <2>1 DEF TypeOK
<1>2. ASSUME NEW t \in Servers, ServerStep(t)
      PROVE  worker'[s] = worker[s] \/ worker'[s] = Idle
  BY <1>2 DEF ServerStep, StartServer, Recover, Drain, DrainEnds, Crash, TypeOK
<1>3. ASSUME ~\E t \in Servers : WorkerStep(t) \/ ServerStep(t)
      PROVE  worker' = worker
  BY <1>3 DEF Next, UploadBegin, RetryBegin, RequestStep, UploadStore, UploadAccept, Enqueue,
              Reject, OrphanExits
<1> QED BY <1>1, <1>2, <1>3

LEMMA OwnSteps ==
  ASSUME TypeInv, SafetyInv, NEW s \in Servers, WorkerStep(s), RunsOn(s)
  PROVE  RunsOn(s)'
<1> USE DEF TypeInv
<1>2. worker[s] \in Worker 
  BY DEF TypeOK
<1>3. ASSUME UNCHANGED row, worker'[s].job = worker[s].job,
             Status(worker[s].job) = "processing"
      PROVE  RunsOn(s)'
  BY <1>3 DEF RunsOn, Status
<1>4. ASSUME UNCHANGED row, worker'[s].job = worker[s].job, worker'[s].pc = "failing",
             Status(worker[s].job) \in {"queued", "processing"}
      PROVE  RunsOn(s)'
  BY <1>4 DEF RunsOn, Status
<1>5. ASSUME worker'[s].pc \in {"idle", "start"}
      PROVE  RunsOn(s)'
  BY <1>5 DEF RunsOn
<1>6. CASE TakeJob(s)
  BY <1>5, <1>6 DEF TakeJob, TypeOK, Idle
<1>7. CASE StartRun(s)
  <2>1. worker[s].job \in Jobs
    BY <1>7, WorkerHasJob DEF StartRun, Working
  <2>2. CASE Step(s, "launch") /\ row' = [row EXCEPT ![worker[s].job] = Processing(@)]
    <3>1. Status(worker[s].job)' = "processing"
      <4>1. row'[worker[s].job] = Processing(row[worker[s].job]) /\ row[worker[s].job] \in Row
        BY <2>1, <2>2 DEF TypeOK
      <4>2. worker'[s].job = worker[s].job
        BY <2>2, StepChanges DEF WorkerPc
      <4> QED BY <4>1, <4>2, RowUpdates DEF Status
    <3> QED BY <2>2, <3>1, StepChanges DEF RunsOn, WorkerPc
  <2>3. CASE Raise(s, RowStage) /\ UNCHANGED row
    BY <1>4, <1>7, <2>3, RaiseChanges DEF StartRun, Working, SafetyInv, WorkerInv
  <2> QED BY <1>7, <2>2, <2>3 DEF StartRun
<1>8. CASE Launch(s)
  BY <1>2, <1>3, <1>8 DEF Launch, Working, RunsOn, TypeOK, Worker
<1>9. CASE PipelineExits(s)
  BY <1>2, <1>3, <1>9 DEF PipelineExits, Step, Working, RunsOn, TypeOK, Worker
<1>10. CASE StoreLog(s)
  BY <1>3, <1>10, StepChanges, RaiseChanges DEF StoreLog, Working, RunsOn, WorkerPc
<1>11. ASSUME NEW a \in Artifacts, StoreArtifact(s, a) PROVE RunsOn(s)'
  BY <1>3, <1>11, StepChanges DEF StoreArtifact, Working, RunsOn, WorkerPc
<1>12. CASE StoreArtifactFails(s)
  <2>1. FailureStages \subseteq Stages
    BY ConstantsAssumption DEF Stages
  <2> QED BY <1>3, <1>12, <2>1, RaiseChanges DEF StoreArtifactFails, Working, RunsOn
<1>13. CASE Publish(s)
  <2>1. CASE worker' = [worker EXCEPT ![s] = Idle]
    BY <1>5, <2>1, IdleWorker DEF TypeOK
  <2>2. CASE Raise(s, RowStage) /\ UNCHANGED row
    BY <1>3, <1>13, <2>2, RaiseChanges DEF Publish, Working, RunsOn
  <2> QED BY <1>13, <2>1, <2>2 DEF Publish
<1>14. CASE MarkFailed(s)
  BY <1>5, <1>14, IdleWorker DEF MarkFailed, TypeOK
<1> QED BY <1>6, <1>7, <1>8, <1>9, <1>10, <1>11, <1>12, <1>13, <1>14 DEF WorkerStep

(* The row of a worker's job changes by that worker only.                  *)
LEMMA JobsAreLeftAlone ==
  ASSUME TypeInv, SafetyInv, SoloInv, Next, NEW s \in Servers,
         worker[s].pc # "idle", worker'[s] = worker[s]
  PROVE  row'[worker[s].job] = row[worker[s].job]
<1> DEFINE j == worker[s].job
<1> SUFFICES ASSUME row'[j] # row[j] PROVE FALSE
  OBVIOUS
<1>1. j \in Jobs
  BY WorkerHasJob
<1>2. request[j].pc = "done"
  BY <1>1 DEF SafetyInv, RequestInv, Untaken
<1>3. \A t \in Servers : worker[t].job = j => t = s
  BY <1>1, ConstantsAssumption DEF SafetyInv, WorkerInv
<1>4. \A t \in Servers : ~(phase[t] = "recovering" /\ j \in found[t])
  <2>1. Running(s) /\ phase[s] # "recovering"
    BY DEF SoloInv, WorkIsAlive, Alive, Running
  <2> QED BY <2>1, OnlyOneRuns DEF SoloInv, Running
<1>5. worker'[s] # Idle
  BY IdleWorker
<1> QED BY <1>1, <1>2, <1>3, <1>4, <1>5, WhoChangesARow

LEMMA SoloStep ==
  TypeInv /\ TypeInv' /\ SafetyInv /\ SoloInv /\ [Next]_vars /\ "overlap" \notin Faults
    => SoloInv'
<1> SUFFICES ASSUME TypeInv, TypeInv', SafetyInv, SoloInv, Next, "overlap" \notin Faults
             PROVE  SoloInv'
  BY DEF vars, SoloInv, OneProcess, WorkIsAlive, ListIsFresh, RunsOn, Status, Alive
<1>1. OneProcess'
  BY PhaseSteps DEF SoloInv, OneProcess
<1>2. ASSUME NEW s \in Servers, worker'[s].pc # "idle"
      PROVE  Alive(s)'
  <2>1. CASE worker'[s] = worker[s]
    BY <1>2, <2>1, PhaseSteps DEF SoloInv, WorkIsAlive
  <2>2. CASE WorkerStep(s)
    BY <2>2 DEF WorkerStep, TakeJob, StartRun, Launch, PipelineExits, StoreLog, StoreArtifact,
           StoreArtifactFails, Publish, MarkFailed, Working, Alive
  <2> QED BY <1>2, <2>1, <2>2, WhoMovesAWorker, IdleWorker
<1>3. ASSUME NEW s \in Servers, NEW j \in found'[s]
      PROVE  phase'[s] = "recovering" /\ Status(j)' = "processing"
  <2>0. j \in Jobs
    BY DEF TypeInv, TypeOK
  <2>1. CASE StartServer(s)
    BY <1>3, <2>0, <2>1 DEF StartServer, Stale, Status, TypeInv, TypeOK
  <2>2. CASE ~StartServer(s)
    <3>1. j \in found[s]
      <4>1. \A t \in Servers : ServerStep(t) => found'[s] \subseteq found[s]
        BY <2>2 DEF ServerStep, StartServer, Recover, Drain, DrainEnds, Crash, TypeInv, TypeOK
      <4>2. \A t \in Servers : WorkerStep(t) => found' = found
        BY DEF WorkerStep, TakeJob, StartRun, Launch, PipelineExits, StoreLog, StoreArtifact,
               StoreArtifactFails, Publish, MarkFailed
      <4>3. \A k \in Jobs : RequestStep(k) \/ OrphanExits(k) => found' = found
        BY DEF RequestStep, UploadStore, UploadAccept, Enqueue, Reject, OrphanExits
      <4> QED BY <1>3, <4>1, <4>2, <4>3 DEF Next, UploadBegin, RetryBegin
    <3>2. phase[s] = "recovering" /\ Status(j) = "processing"
      BY <3>1 DEF SoloInv, ListIsFresh
    <3>3. phase'[s] = "recovering"
      BY <1>3, <3>2, PhaseSteps
    <3>4. ASSUME row'[j] # row[j] PROVE FALSE
      <4>1. \A t \in Servers : Alive(t) => FALSE
        BY <3>2, OnlyOneRuns DEF SoloInv, Alive, Running
      <4>2. PICK t \in Servers : phase[t] = "recovering" /\ Status(j)' = "interrupted"
        BY <2>0, <3>2, <3>4, <4>1, WhoChangesARow
      <4>3. Recover(t)
        <5>1. ASSUME NEW u \in Servers, ServerStep(u) PROVE Recover(u)
          BY <3>4, <5>1 DEF ServerStep, StartServer, Drain, DrainEnds, Crash
        <5>2. ASSUME NEW u \in Servers, Recover(u) PROVE u = t
          BY <4>2, <5>2, OnlyOneRuns DEF SoloInv, Recover, Running
        <5>3. \A u \in Servers : ~WorkerStep(u)
          BY <4>1 DEF WorkerStep, TakeJob, StartRun, Launch, PipelineExits, StoreLog,
                      StoreArtifact, StoreArtifactFails, Publish, MarkFailed, Working
        <5>4. \A u \in Servers, k \in Jobs :
                ~UploadBegin(u, k) /\ ~\E src \in Jobs : RetryBegin(u, src, k)
          BY <4>1 DEF UploadBegin, RetryBegin, Alive
        <5>5. \A k \in Jobs : RequestStep(k) \/ OrphanExits(k) => row' = row
          <6>1. ASSUME NEW k \in Jobs, RequestStep(k) PROVE FALSE
            <7>1. InFlight(k) /\ Alive(request[k].at)
              BY <6>1 DEF RequestStep, UploadStore, UploadAccept, Enqueue, Reject, Handler,
                          InFlight
            <7> QED BY <4>1, <7>1 DEF TypeInv, Occupied
          <6> QED BY <6>1 DEF OrphanExits
        <5> QED BY <3>4, <5>1, <5>2, <5>3, <5>4, <5>5 DEF Next
      <4>4. t = s
        BY <3>2, <4>2, OnlyOneRuns DEF SoloInv, Running
      <4> QED BY <3>3, <4>3, <4>4 DEF Recover, TypeInv, TypeOK
    <3> QED BY <3>2, <3>3, <3>4 DEF Status
  <2> QED BY <2>1, <2>2
<1>4. ASSUME NEW s \in Servers PROVE RunsOn(s)'
  <2>1. CASE WorkerStep(s)
    BY <2>1, OwnSteps DEF SoloInv
  <2>2. CASE worker'[s] = worker[s]
    BY <2>2, JobsAreLeftAlone DEF SoloInv, RunsOn, Status
  <2>3. CASE worker'[s] = Idle
    BY <2>3, IdleWorker DEF RunsOn
  <2> QED BY <2>1, <2>2, <2>3, WhoMovesAWorker
<1> QED BY <1>1, <1>2, <1>3, <1>4 DEF SoloInv, WorkIsAlive, ListIsFresh

LEMMA SoloInvariant ==
  ASSUME "overlap" \notin Faults
  PROVE  Spec => [](TypeInv /\ SafetyInv /\ SoloInv)
<1>1. Init => TypeInv /\ SafetyInv /\ SoloInv
  BY InitTypes, SafetyInit, SoloInit
<1>2. TypeInv /\ SafetyInv /\ SoloInv /\ [Next]_vars => (TypeInv /\ SafetyInv /\ SoloInv)'
  BY StepTypes, SafetyStep, SoloStep
<1> QED BY <1>1, <1>2, PTL DEF Spec

(* Nobody touches the row or the files of a job that has ended: when       *)
(* processes do not overlap, neither a late run nor a recovery comes back  *)
(* to it, whatever else fails.                                             *)
THEOREM JobsEndOnce ==
  ASSUME "overlap" \notin Faults
  PROVE  Spec => TerminalIsFinal
<1>1. TypeInv /\ SafetyInv /\ SoloInv /\ [Next]_vars =>
        [\A j \in Jobs : row[j].status \in Terminal =>
           row'[j] = row[j] /\ files'[j] = files[j]]_vars
  <2> SUFFICES ASSUME TypeInv, SafetyInv, SoloInv, Next,
                      NEW j \in Jobs, row[j].status \in Terminal
               PROVE  row'[j] = row[j] /\ files'[j] = files[j]
    OBVIOUS
  <2>1. \A s \in Servers : worker[s].job = j => worker[s].pc \in {"idle"} \/
          Status(j) \in {"queued", "processing"}
    BY DEF SafetyInv, WorkerInv, SoloInv, RunsOn, TypeInv, TypeOK, Worker, WorkerPc
  <2>2. \A s \in Servers : worker[s].job = j => worker[s].pc = "idle"
    BY <2>1 DEF Status, Terminal
  <2>3. row'[j] = row[j]
    BY <2>2, WhoChangesARow DEF SoloInv, ListIsFresh, Status, Terminal
  <2>4. files'[j] = files[j]
    <3>1. ASSUME NEW s \in Servers, WorkerStep(s) PROVE files'[j] = files[j]
      BY <2>2, <3>1 DEF WorkerStep, TakeJob, StartRun, Launch, PipelineExits, StoreLog,
           StoreArtifact, StoreArtifactFails, Publish, MarkFailed, Working, TypeInv, TypeOK
    <3>2. ASSUME NEW k \in Jobs, RequestStep(k) PROVE files'[j] = files[j]
      <4>1. request[j].pc # "store"
        BY DEF SafetyInv, RequestInv, Status, Terminal
      <4> QED BY <3>2, <4>1 DEF RequestStep, UploadStore, UploadAccept, Enqueue, Reject, Handler,
                                TypeInv, TypeOK
    <3>3. ASSUME NEW s \in Servers, ServerStep(s) PROVE files'[j] = files[j]
      BY <3>3 DEF ServerStep, StartServer, Recover, Drain, DrainEnds, Crash
    <3> QED BY <3>1, <3>2, <3>3 DEF Next, UploadBegin, RetryBegin, OrphanExits
  <2> QED BY <2>3, <2>4
<1> QED BY <1>1, SoloInvariant, PTL DEF Spec, TerminalIsFinal

-----------------------------------------------------------------------------
(* The error columns.  An error is known where it is raised; a row has one *)
(* exactly when it ended with one; the stage of a row that has not ended   *)
(* is one in which work is done.                                           *)
WorkStages == {"uploaded", "queued", "preprocessing"} \cup FailureStages

CleanRow(r) ==
  /\ r.errorStage # NoStage <=> r.status \in {"failed", "interrupted"}
  /\ r.failedAt <=> r.errorStage # NoStage
  /\ r.errorStage \notin {"failed", "completed"}
  /\ r.status \in {"uploaded", "queued"} => r.stage = r.status
  /\ r.status = "processing" => r.stage = "preprocessing"

ErrorKnown(s) ==
  /\ worker[s].err \in FailureStages \cup {RowStage, NoStage}
  /\ worker[s].pc = "failing" => worker[s].err # NoStage

ErrorInv ==
  /\ \A j \in Jobs : CleanRow(row[j])
  /\ \A j \in Jobs : request[j].pc = "reject" => request[j].err \in {"uploaded", "queued"}
  /\ \A s \in Servers : ErrorKnown(s)

LEMMA WorkStagesAreStages ==
  /\ WorkStages \subseteq Stages
  /\ {"failed", "completed", NoStage} \cap WorkStages = {}
  /\ NoStage \notin FailureStages /\ RowStage # NoStage /\ RowStage \notin FailureStages
BY ConstantsAssumption DEF WorkStages, Stages, NoStage, RowStage

LEMMA CleanUpdates ==
  ASSUME NEW r \in Row
  PROVE  /\ CleanRow(Processing(r)) /\ CleanRow(Interrupted(r))
         /\ \A st \in WorkStages : CleanRow(Failed(r, st))
         /\ CleanRow(r) /\ r.status = "processing" =>
              \A seen \in BOOLEAN : CleanRow(Completed(r, seen))
         /\ CleanRow(r) /\ r.status = "uploaded" =>
              CleanRow([r EXCEPT !.status = "queued", !.stage = "queued"])
         /\ \A st \in {"uploaded", "queued"} : CleanRow(NewRow(st))
<1>1. CleanRow(Processing(r)) /\ CleanRow(Interrupted(r))
  BY DEF CleanRow, Processing, Interrupted, Row, NoStage
<1>2. ASSUME NEW st \in WorkStages PROVE CleanRow(Failed(r, st))
  BY WorkStagesAreStages DEF CleanRow, Failed, Row
<1>3. ASSUME CleanRow(r), r.status = "processing", NEW seen \in BOOLEAN
      PROVE  CleanRow(Completed(r, seen))
  <2>1. r.errorStage = NoStage /\ ~r.failedAt
    BY <1>3 DEF CleanRow
  <2> QED BY <2>1 DEF CleanRow, Completed, Row, NoStage
<1>4. ASSUME CleanRow(r), r.status = "uploaded"
      PROVE  CleanRow([r EXCEPT !.status = "queued", !.stage = "queued"])
  BY <1>4 DEF CleanRow, Row, NoStage
<1>5. ASSUME NEW st \in {"uploaded", "queued"} PROVE CleanRow(NewRow(st))
  BY DEF CleanRow, NewRow, NoRow, NoStage
<1> QED BY <1>1, <1>2, <1>3, <1>4, <1>5

LEMMA ErrorWorker ==
  ASSUME TypeInv, NEW s \in Servers, WorkerStep(s), ErrorKnown(s)
  PROVE  ErrorKnown(s)'
<1> USE DEF TypeInv
<1>1. worker[s] \in Worker
  BY DEF TypeOK
<1>2. ASSUME NEW st \in FailureStages \cup {RowStage}, Raise(s, st) PROVE ErrorKnown(s)'
  BY <1>1, <1>2, WorkStagesAreStages DEF Raise, ErrorKnown, TypeOK, Worker
<1>3. ASSUME NEW to \in WorkerPc, Step(s, to), to = "failing" => worker[s].err # NoStage
      PROVE  ErrorKnown(s)'
  BY <1>3, StepChanges DEF ErrorKnown
<1>4. ASSUME worker'[s] = Idle PROVE ErrorKnown(s)'
  BY <1>4 DEF ErrorKnown, Idle
<1>5. CASE TakeJob(s)
  BY <1>5 DEF TakeJob, ErrorKnown, Idle, TypeOK
<1>6. CASE StartRun(s)
  BY <1>2, <1>3, <1>6 DEF StartRun, WorkerPc
<1>7. CASE Launch(s)
  BY <1>1, <1>7 DEF Launch, ErrorKnown, TypeOK, Worker
<1>8. CASE PipelineExits(s)
  <2>1. CASE Step(s, "exited")
    BY <1>3, <2>1 DEF WorkerPc
  <2>2. CASE \E st \in FailureStages :
               worker' = [worker EXCEPT ![s].pc = "exited", ![s].err = st]
    BY <1>1, <2>2 DEF ErrorKnown, TypeOK, Worker
  <2> QED BY <1>8, <2>1, <2>2 DEF PipelineExits
<1>9. CASE StoreLog(s)
  BY <1>2, <1>3, <1>9 DEF StoreLog, WorkerPc
<1>10. ASSUME NEW a \in Artifacts, StoreArtifact(s, a) PROVE ErrorKnown(s)'
  BY <1>3, <1>10 DEF StoreArtifact, WorkerPc
<1>11. CASE StoreArtifactFails(s)
  BY <1>2, <1>11 DEF StoreArtifactFails
<1>12. CASE Publish(s)
  BY <1>2, <1>4, <1>12 DEF Publish, TypeOK
<1>13. CASE MarkFailed(s)
  BY <1>4, <1>13 DEF MarkFailed, TypeOK
<1> QED BY <1>5, <1>6, <1>7, <1>8, <1>9, <1>10, <1>11, <1>12, <1>13 DEF WorkerStep

LEMMA ErrorRows ==
  ASSUME TypeInv, SafetyInv, SoloInv, ErrorInv, Next, NEW j \in Jobs
  PROVE  CleanRow(row'[j])
<1> USE DEF TypeInv
<1>1. row[j] \in Row /\ CleanRow(row[j])
  BY DEF TypeOK, ErrorInv
<1>2. CASE row'[j] = row[j]
  BY <1>1, <1>2
<1>3. ASSUME NEW s \in Servers, NEW k \in Jobs,
             UploadBegin(s, k) \/ \E src \in Jobs : RetryBegin(s, src, k)
      PROVE  CleanRow(row'[j])
  BY <1>1, <1>3, CleanUpdates DEF UploadBegin, RetryBegin, TypeOK
<1>4. ASSUME NEW k \in Jobs, RequestStep(k) PROVE CleanRow(row'[j])
  <2>1. CASE UploadAccept(k) /\ k = j
    <3>1. row[j].status = "uploaded"
      BY <2>1 DEF UploadAccept, Handler, SafetyInv, RequestInv, Status
    <3> QED BY <1>1, <2>1, <3>1, CleanUpdates DEF UploadAccept, TypeOK
  <2>2. CASE Reject(k) /\ k = j
    <3>1. request[j].err \in WorkStages
      BY <2>2 DEF Reject, Handler, ErrorInv, WorkStages
    <3>2. CleanRow(Failed(row[j], request[j].err))
      BY <1>1, <2>2, <3>1, CleanUpdates
    <3>3. row'[j] = row[j] \/ row'[j] = Failed(row[j], request[j].err)
      BY <2>2 DEF Reject, TypeOK
    <3> QED BY <1>1, <3>2, <3>3
  <2>3. CASE k # j \/ UploadStore(k) \/ Enqueue(k)
    BY <1>2, <1>4, <2>3 DEF RequestStep, UploadStore, UploadAccept, Enqueue, Reject, TypeOK
  <2> QED BY <1>4, <2>1, <2>2, <2>3 DEF RequestStep
<1>5. ASSUME NEW s \in Servers, WorkerStep(s) PROVE CleanRow(row'[j])
  <2>1. worker[s] \in Worker
    BY DEF TypeOK
  <2>2. CASE StartRun(s)
    <3>1. CleanRow(Processing(row[j]))
      BY <1>1, CleanUpdates
    <3>2. row'[j] = row[j] \/ row'[j] = Processing(row[j])
      BY <2>2 DEF StartRun, TypeOK
    <3> QED BY <1>1, <3>1, <3>2
  <2>3. CASE Publish(s)
    <3>1. CASE worker[s].job = j /\ row' = [row EXCEPT ![j] = Completed(@, worker[s].sawError)]
      <4>1. row[j].status = "processing" /\ worker[s].sawError \in BOOLEAN
        BY <2>1, <2>3, <3>1 DEF Publish, Working, SoloInv, RunsOn, Status, Worker
      <4>2. CleanRow(Completed(row[j], worker[s].sawError))
        BY <1>1, <4>1, CleanUpdates
      <4> QED BY <3>1, <4>2 DEF TypeOK
    <3> QED BY <1>2, <2>3, <3>1 DEF Publish, TypeOK
  <2>4. CASE MarkFailed(s)
    <3>1. CASE worker[s].job = j /\ row' = [row EXCEPT ![j] = Failed(@, ErrorStage(s))]
      <4>1. row[j].status \in {"queued", "processing"}
        BY <2>4, <3>1 DEF MarkFailed, Working, SoloInv, RunsOn, Status
      <4>2. row[j].stage \in WorkStages
        BY <1>1, <4>1 DEF CleanRow, WorkStages
      <4>3. worker[s].err \in FailureStages \cup {RowStage}
        BY <2>4 DEF MarkFailed, Working, ErrorInv, ErrorKnown
      <4>4. ErrorStage(s) \in WorkStages
        BY <3>1, <4>2, <4>3 DEF ErrorStage, WorkStages
      <4> QED BY <1>1, <3>1, <4>4, CleanUpdates DEF TypeOK
    <3> QED BY <1>2, <2>4, <3>1 DEF MarkFailed, TypeOK
  <2>5. CASE ~StartRun(s) /\ ~Publish(s) /\ ~MarkFailed(s)
    BY <1>2, <1>5, <2>5 DEF WorkerStep, TakeJob, Launch, PipelineExits, StoreLog, StoreArtifact,
                      StoreArtifactFails
  <2> QED BY <2>2, <2>3, <2>4, <2>5
<1>6. ASSUME NEW s \in Servers, ServerStep(s) PROVE CleanRow(row'[j])
  BY <1>1, <1>6, CleanUpdates DEF ServerStep, StartServer, Recover, Drain, DrainEnds, Crash
<1>7. ASSUME NEW k \in Jobs, OrphanExits(k) PROVE CleanRow(row'[j])
  BY <1>2, <1>7 DEF OrphanExits
<1> QED BY <1>3, <1>4, <1>5, <1>6, <1>7 DEF Next

LEMMA ErrorStep ==
  TypeInv /\ TypeInv' /\ SafetyInv /\ SoloInv /\ ErrorInv /\ [Next]_vars => ErrorInv'
<1> SUFFICES ASSUME TypeInv, TypeInv', SafetyInv, SoloInv, ErrorInv, [Next]_vars
             PROVE  ErrorInv'
  OBVIOUS
<1>1. CASE UNCHANGED vars
  BY <1>1 DEF vars, ErrorInv, ErrorKnown
<1>2. CASE Next
  <2>1. ASSUME NEW j \in Jobs, request'[j].pc = "reject"
        PROVE  request'[j].err \in {"uploaded", "queued"}
    <3>1. \/ request'[j] = request[j]
          \/ request'[j].err \in {"uploaded", "queued"}
          \/ request'[j].pc # "reject"
      <4>1. ASSUME NEW s \in Servers, NEW k \in Jobs,
                   UploadBegin(s, k) \/ \E src \in Jobs : RetryBegin(s, src, k)
            PROVE  request'[j] = request[j] \/ request'[j].pc # "reject"
        BY <4>1 DEF UploadBegin, RetryBegin, TypeInv, TypeOK
      <4>2. ASSUME NEW k \in Jobs, RequestStep(k)
            PROVE  \/ request'[j] = request[j]
                   \/ request'[j].err \in {"uploaded", "queued"}
                   \/ request'[j].pc # "reject"
        BY <4>2, GotoChanges, HandlerFailsChanges
           DEF RequestStep, UploadStore, UploadAccept, Enqueue, Reject, TypeInv, RequestPc
      <4>3. ASSUME NEW s \in Servers, ServerStep(s)
            PROVE  request'[j] = request[j] \/ request'[j].pc # "reject"
        BY <4>3 DEF ServerStep, StartServer, Recover, Drain, DrainEnds, Crash, TypeInv, TypeOK,
                    Request
      <4>4. ASSUME NEW s \in Servers, WorkerStep(s) PROVE request' = request
        BY <4>4 DEF WorkerStep, TakeJob, StartRun, Launch, PipelineExits, StoreLog, StoreArtifact,
           StoreArtifactFails, Publish, MarkFailed
      <4> QED BY <1>2, <4>1, <4>2, <4>3, <4>4 DEF Next, OrphanExits
    <3> QED BY <2>1, <3>1 DEF ErrorInv
  <2>2. ASSUME NEW s \in Servers PROVE ErrorKnown(s)'
    <3>1. CASE worker'[s] = worker[s]
      BY <3>1 DEF ErrorInv, ErrorKnown
    <3>2. CASE worker'[s] = Idle
      BY <3>2 DEF ErrorKnown, Idle
    <3>3. CASE WorkerStep(s)
      BY <3>3, ErrorWorker DEF ErrorInv
    <3> QED BY <1>2, <3>1, <3>2, <3>3, WhoMovesAWorker
  <2> QED BY <1>2, <2>1, <2>2, ErrorRows DEF ErrorInv
<1> QED BY <1>1, <1>2

(* The error columns are set on failed and interrupted jobs and on no      *)
(* other, and name a stage in which work was being done, whatever fails    *)
(* beside.                                                                 *)
THEOREM ErrorsNameOutcomes ==
  ASSUME "overlap" \notin Faults
  PROVE  Spec => []ErrorsMatchOutcome
<1>1. Init => ErrorInv
  BY DEF Init, ErrorInv, CleanRow, ErrorKnown, NoRow, NoRequest, Idle, NoStage
<1>2. ErrorInv => ErrorsMatchOutcome
  BY DEF ErrorInv, CleanRow, ErrorsMatchOutcome
<1> QED BY <1>1, <1>2, SoloInvariant, ErrorStep, PTL DEF Spec

-----------------------------------------------------------------------------
(* Nothing is left behind.  When the database takes every commit, a row    *)
(* that reads processing is run, is on the list of a recovery, or no       *)
(* process runs; and a row has exports when it is completed and only then. *)
WorkPc == {"launch", "running", "exited", "storing", "publish", "failing"}

IsRun(j) == \E s \in Servers : worker[s].job = j /\ worker[s].pc \in WorkPc

IsFound(j) == \E s \in Servers : phase[s] = "recovering" /\ j \in found[s]

ResolveInv ==
  /\ \A j \in Jobs : Status(j) = "processing" =>
       IsRun(j) \/ IsFound(j) \/ \A s \in Servers : ~Running(s)
  /\ \A j, k \in Jobs :
       Status(j) = "processing" /\ Status(k) = "processing" => j = k
  /\ \A j \in Jobs : row[j].exports <=> Status(j) = "completed"

NoLostCommit == Faults \cap {"overlap", "commit", "recovery"} = {}

(* A worker that stops without having run its job to an end was killed.    *)
LEMMA WhoStopsAWorker ==
  ASSUME TypeInv, Next, NEW s \in Servers, worker'[s] # worker[s], ~WorkerStep(s)
  PROVE  Crash(s)
<1> USE DEF TypeInv
<1>1. ASSUME NEW t \in Servers, WorkerStep(t) PROVE FALSE
  <2>1. \E w : worker' = [worker EXCEPT ![t] = w]
    BY <1>1 DEF WorkerStep, TakeJob, StartRun, Launch, PipelineExits, StoreLog, StoreArtifact,
           StoreArtifactFails, Publish, MarkFailed, Step, Raise, TypeOK
  <2> QED BY <1>1, <2>1 DEF TypeOK
<1>2. ASSUME NEW t \in Servers, ServerStep(t) PROVE Crash(s)
  <2>1. Crash(t)
    BY <1>2 DEF ServerStep, StartServer, Recover, Drain, DrainEnds
  <2> QED BY <2>1 DEF Crash, TypeOK
<1> QED BY <1>1, <1>2 DEF Next, UploadBegin, RetryBegin, RequestStep, UploadStore, UploadAccept,
                          Enqueue, Reject, OrphanExits

LEMMA RunGoesOn ==
  ASSUME TypeInv, NoLostCommit, NEW s \in Servers, WorkerStep(s), worker[s].pc \in WorkPc
  PROVE  \/ worker'[s].job = worker[s].job /\ worker'[s].pc \in WorkPc
         \/ row'[worker[s].job].status \in {"completed", "failed"}
<1> USE DEF TypeInv
<1> DEFINE j == worker[s].job
<1>1. worker[s] \in Worker /\ worker[s].pc \notin {"idle", "start"}
  BY DEF TypeOK, WorkPc
<1>2. j \in Jobs
  BY <1>1, WorkerHasJob
<1>3. row[j] \in Row
  BY <1>2 DEF TypeOK
<1>4. ~TakeJob(s) /\ ~StartRun(s)
  BY <1>1 DEF TakeJob, StartRun, Working
<1>5. CASE Launch(s)
  BY <1>1, <1>5 DEF Launch, WorkPc, TypeOK
<1>6. CASE PipelineExits(s)
  <2>1. CASE Step(s, "exited")
    BY <2>1, StepChanges DEF WorkPc, WorkerPc
  <2>2. CASE \E st \in FailureStages :
               worker' = [worker EXCEPT ![s].pc = "exited", ![s].err = st]
    BY <1>1, <2>2 DEF WorkPc, TypeOK, Worker
  <2> QED BY <1>6, <2>1, <2>2 DEF PipelineExits
<1>7. CASE StoreLog(s)
  BY <1>1, <1>7, StepChanges, RaiseChanges DEF StoreLog, WorkPc, WorkerPc
<1>8. ASSUME NEW a \in Artifacts, StoreArtifact(s, a)
      PROVE  worker'[s].job = j /\ worker'[s].pc \in WorkPc
  BY <1>1, <1>8, StepChanges DEF StoreArtifact, WorkPc, WorkerPc
<1>9. CASE StoreArtifactFails(s)
  <2>1. FailureStages \subseteq Stages
    BY ConstantsAssumption DEF Stages
  <2> QED BY <1>1, <1>9, <2>1, RaiseChanges DEF StoreArtifactFails, WorkPc
<1>10. CASE Publish(s)
  <2>1. CASE row' = [row EXCEPT ![j] = Completed(@, worker[s].sawError)]
    <3>1. worker[s].sawError \in BOOLEAN
      BY <1>1 DEF Worker
    <3>2. row'[j] = Completed(row[j], worker[s].sawError)
      BY <1>2, <2>1 DEF TypeOK
    <3>3. Completed(row[j], worker[s].sawError).status = "completed"
      BY <1>3, <3>1, RowUpdates
    <3> QED BY <3>2, <3>3
  <2>2. CASE Raise(s, RowStage)
    BY <1>1, <2>2, RaiseChanges DEF WorkPc
  <2> QED BY <1>10, <2>1, <2>2 DEF Publish
<1>11. CASE MarkFailed(s)
  <2>1. row'[j] = Failed(row[j], ErrorStage(s))
    BY <1>2, <1>11 DEF MarkFailed, NoLostCommit, TypeOK
  <2>2. ErrorStage(s) \in Stages \cup {NoStage}
    BY <1>1, <1>3, <1>11 DEF ErrorStage, Row, Worker
  <2> QED BY <1>3, <2>1, <2>2, RowUpdates
<1> QED BY <1>4, <1>5, <1>6, <1>7, <1>8, <1>9, <1>10, <1>11 DEF WorkerStep

(* While a process serves or drains, what is processing is run.            *)
LEMMA WhatIsRun ==
  ASSUME SoloInv, ResolveInv, NEW s \in Servers, Alive(s),
         NEW j \in Jobs, Status(j) = "processing"
  PROVE  worker[s].job = j /\ worker[s].pc \in WorkPc
<1>1. Running(s) /\ phase[s] # "recovering"
  BY DEF Running, Alive
<1>2. ~IsFound(j)
  BY <1>1, OnlyOneRuns DEF IsFound, SoloInv, Running
<1>3. PICK t \in Servers : worker[t].job = j /\ worker[t].pc \in WorkPc
  BY <1>1, <1>2 DEF ResolveInv, IsRun
<1>4. Running(t)
  BY <1>3 DEF SoloInv, WorkIsAlive, WorkPc, Alive, Running
<1> QED BY <1>1, <1>3, <1>4, OnlyOneRuns DEF SoloInv

LEMMA NothingLeft ==
  ASSUME TypeInv, TypeInv', SafetyInv, SoloInv, ResolveInv, Next, NoLostCommit,
         NEW j \in Jobs, Status(j)' = "processing"
  PROVE  IsRun(j)' \/ IsFound(j)' \/ \A s \in Servers : ~Running(s)'
<1> USE DEF TypeInv
<1>0. "overlap" \notin Faults
  BY DEF NoLostCommit
<1>1. CASE row'[j] # row[j]
  <2>1. PICK s \in Servers : worker'[s].pc = "launch" /\ worker'[s].job = j
    BY <1>1, WhoChangesARow
  <2> QED BY <2>1 DEF IsRun, WorkPc
<1>2. CASE row'[j] = row[j]
  <2>1. Status(j) = "processing"
    BY <1>2 DEF Status
  <2>2. ASSUME NEW s \in Servers, Running(s), Crash(s), NEW t \in Servers
        PROVE  ~Running(t)'
    <3>1. CASE t = s
      BY <2>2, <3>1 DEF Crash, TypeOK, Running
    <3>2. CASE t # s
      <4>1. ~Running(t)
        BY <2>2, <3>2, OnlyOneRuns DEF SoloInv
      <4> QED BY <2>2, <3>2, <4>1 DEF Crash, TypeOK, Running
    <3> QED BY <3>1, <3>2
  <2>3. CASE IsRun(j)
    <3>1. PICK s \in Servers : worker[s].job = j /\ worker[s].pc \in WorkPc
      BY <2>3 DEF IsRun
    <3>2. CASE worker'[s] = worker[s]
      BY <3>1, <3>2 DEF IsRun
    <3>3. CASE WorkerStep(s)
      <4>1. worker'[s].job = j /\ worker'[s].pc \in WorkPc
        BY <2>1, <1>2, <3>1, <3>3, RunGoesOn DEF Status
      <4> QED BY <4>1 DEF IsRun
    <3>4. CASE Crash(s)
      <4>1. Running(s)
        BY <3>1 DEF SoloInv, WorkIsAlive, WorkPc, Alive, Running
      <4> QED BY <2>2, <3>4, <4>1
    <3> QED BY <3>2, <3>3, <3>4, WhoStopsAWorker
  <2>4. CASE IsFound(j)
    <3>1. PICK s \in Servers : phase[s] = "recovering" /\ j \in found[s]
      BY <2>4 DEF IsFound
    <3>2. CASE phase'[s] = phase[s] /\ found'[s] = found[s]
      BY <3>1, <3>2 DEF IsFound
    <3>3. ASSUME ~\E t \in Servers : ServerStep(t)
          PROVE  phase' = phase /\ found' = found
      <4>1. \A t \in Servers : WorkerStep(t) => phase' = phase /\ found' = found
        BY DEF WorkerStep, TakeJob, StartRun, Launch, PipelineExits, StoreLog, StoreArtifact,
               StoreArtifactFails, Publish, MarkFailed
      <4>2. \A k \in Jobs : RequestStep(k) \/ OrphanExits(k) => phase' = phase /\ found' = found
        BY DEF RequestStep, UploadStore, UploadAccept, Enqueue, Reject, OrphanExits
      <4> QED BY <3>3, <4>1, <4>2 DEF Next, UploadBegin, RetryBegin
    <3>4. ASSUME NEW t \in Servers, ServerStep(t)
          PROVE  \/ phase'[s] = phase[s] /\ found'[s] = found[s]
                 \/ Recover(s) \/ Crash(s)
      BY <3>1, <3>4 DEF ServerStep, StartServer, Recover, Drain, DrainEnds, Crash, TypeOK
    <3>5. CASE Recover(s)
      <4>1. row'[j] = Interrupted(row[j]) /\ row[j] \in Row
        BY <3>1, <3>5 DEF Recover, NoLostCommit, TypeOK
      <4> QED BY <4>1, RowUpdates DEF Status
    <3>6. CASE Crash(s)
      BY <2>2, <3>1, <3>6 DEF Running
    <3> QED BY <3>2, <3>3, <3>4, <3>5, <3>6
  <2>5. CASE \A s \in Servers : ~Running(s)
    <3>1. CASE \E s \in Servers : StartServer(s)
      <4>1. PICK s \in Servers : StartServer(s)
        BY <3>1
      <4>2. phase'[s] = "recovering" /\ j \in found'[s]
        BY <2>1, <4>1 DEF StartServer, Stale, Status, TypeOK
      <4> QED BY <4>2 DEF IsFound
    <3>2. CASE ~\E s \in Servers : StartServer(s)
      <4>1. ASSUME NEW s \in Servers PROVE ~Running(s)'
        <5>1. phase[s] = "off" \/ phase[s] = "dead"
          BY <2>5 DEF TypeOK, Phase, Running
        <5>2. phase'[s] = "off" \/ phase'[s] = "dead"
          BY <1>0, <3>2, <5>1, PhaseSteps
        <5> QED BY <5>2 DEF Running
      <4> QED BY <4>1
    <3> QED BY <3>1, <3>2
  <2> QED BY <2>1, <2>3, <2>4, <2>5 DEF ResolveInv
<1> QED BY <1>1, <1>2

(* A step of the contract, written with rows: of one job, from one status  *)
(* to the next.                                                            *)
Moves(j, from, to) == Status(j) = from /\ row'[j].status = to

QuietMove(j) ==
  \/ Moves(j, "absent", "uploaded") \/ Moves(j, "uploaded", "queued")
  \/ Moves(j, "queued", "processing") /\ \A k \in Jobs : Status(k) # "processing"
  \/ \E from \in {"uploaded", "queued", "processing"} : Moves(j, from, "failed")
  \/ Moves(j, "processing", "interrupted")

ContractMove(j) ==
  /\ \A k \in Jobs : k # j => row'[k] = row[k]
  /\ \/ QuietMove(j) /\ source' = source /\ row'[j].exports = row[j].exports
     \/ Moves(j, "processing", "completed") /\ source' = source /\ row'[j].exports = TRUE
     \/ /\ Moves(j, "absent", "queued") /\ row'[j].exports = row[j].exports
        /\ \E src \in Jobs :
             Status(src) \in Terminal /\ source' = [source EXCEPT ![j] = src]

LEMMA UpdatesOfExports ==
  ASSUME NEW r \in Row
  PROVE  /\ Processing(r).exports = r.exports /\ Interrupted(r).exports = r.exports
         /\ \A st \in Stages \cup {NoStage} : Failed(r, st).exports = r.exports
         /\ \A seen \in BOOLEAN : Completed(r, seen).exports = TRUE
         /\ \A st \in {"uploaded", "queued"} : NewRow(st).exports = FALSE
         /\ r.exports \in BOOLEAN
<1>1. /\ Processing(r).exports = r.exports /\ Interrupted(r).exports = r.exports
      /\ r.exports \in BOOLEAN
  BY DEF Processing, Interrupted, Row
<1>2. ASSUME NEW st \in Stages \cup {NoStage} PROVE Failed(r, st).exports = r.exports
  BY DEF Failed, Row
<1>3. ASSUME NEW seen \in BOOLEAN PROVE Completed(r, seen).exports = TRUE
  BY DEF Completed, Row
<1>4. ASSUME NEW st \in {"uploaded", "queued"} PROVE NewRow(st).exports = FALSE
  BY DEF NewRow, NoRow
<1> QED BY <1>1, <1>2, <1>3, <1>4

LEMMA UpdatesOfCompleted ==
  ASSUME NEW r \in Row, NEW seen \in BOOLEAN
  PROVE  Completed(r, seen).status = "completed" /\ Completed(r, seen).exports = TRUE
<1>1. Completed(r, seen).status = "completed"
  BY RowUpdates
<1>2. Completed(r, seen).exports = TRUE
  BY UpdatesOfExports
<1> QED BY <1>1, <1>2

LEMMA MoveBegin ==
  ASSUME TypeInv, ResolveInv, NEW s \in Servers, NEW j \in Jobs,
         UploadBegin(s, j) \/ \E src \in Jobs : RetryBegin(s, src, j)
  PROVE  ContractMove(j)
<1> USE DEF TypeInv
<1>1. Status(j) = "absent" /\ row[j].exports = FALSE
  <2>1. Status(j) = "absent" /\ row[j] \in Row
    BY DEF UploadBegin, RetryBegin, Status, TypeOK
  <2> QED BY <2>1, UpdatesOfExports DEF ResolveInv
<1>2. ASSUME NEW st \in {"uploaded", "queued"}, row' = [row EXCEPT ![j] = NewRow(st)]
      PROVE  /\ \A k \in Jobs : k # j => row'[k] = row[k]
             /\ Moves(j, "absent", st) /\ row'[j].exports = row[j].exports
  <2>1. row'[j] = NewRow(st) /\ \A k \in Jobs : k # j => row'[k] = row[k]
    BY <1>2 DEF TypeOK
  <2>2. NewRow(st).status = st /\ NewRow(st).exports = FALSE
    BY NewRows, UpdatesOfExports, NoRowIsRow
  <2> QED BY <1>1, <2>1, <2>2 DEF Moves
<1>3. CASE UploadBegin(s, j)
  BY <1>2, <1>3 DEF UploadBegin, ContractMove, QuietMove
<1>4. ASSUME NEW src \in Jobs, RetryBegin(s, src, j) PROVE ContractMove(j)
  BY <1>2, <1>4 DEF RetryBegin, Retryable, ContractMove, Status
<1> QED BY <1>3, <1>4

LEMMA MoveRequest ==
  ASSUME TypeInv, SafetyInv, NEW j \in Jobs, RequestStep(j)
  PROVE  source' = source /\ (row' = row \/ ContractMove(j))
<1> USE DEF TypeInv
<1>1. row[j] \in Row
  BY DEF TypeOK
<1>2. CASE UploadStore(j) \/ Enqueue(j)
  BY <1>2 DEF UploadStore, Enqueue
<1>3. CASE UploadAccept(j)
  <2>1. Status(j) = "uploaded"
    BY <1>3 DEF UploadAccept, Handler, SafetyInv, RequestInv
  <2>2. CASE row' = [row EXCEPT ![j].status = "queued", ![j].stage = "queued"]
    <3>1. /\ \A k \in Jobs : k # j => row'[k] = row[k]
          /\ row'[j].status = "queued" /\ row'[j].exports = row[j].exports
      BY <1>1, <2>2 DEF TypeOK, Row
    <3> QED BY <1>3, <2>1, <3>1 DEF UploadAccept, ContractMove, QuietMove, Moves
  <2> QED BY <1>3, <2>2 DEF UploadAccept
<1>4. CASE Reject(j)
  <2>1. Status(j) \in {"uploaded", "queued"}
    BY <1>4 DEF Reject, Handler, SafetyInv, RequestInv
  <2>2. CASE row' = [row EXCEPT ![j] = Failed(@, request[j].err)]
    <3>1. request[j].err \in Stages \cup {NoStage}
      BY DEF TypeOK, Request, Stages
    <3>2. row'[j] = Failed(row[j], request[j].err) /\ \A k \in Jobs : k # j => row'[k] = row[k]
      BY <2>2 DEF TypeOK
    <3>3. Failed(row[j], request[j].err).status = "failed"
      BY <1>1, <3>1, RowUpdates
    <3>4. Failed(row[j], request[j].err).exports = row[j].exports
      BY <1>1, <3>1, UpdatesOfExports
    <3> QED BY <1>4, <2>1, <3>2, <3>3, <3>4 DEF Reject, ContractMove, QuietMove, Moves
  <2> QED BY <1>4, <2>2 DEF Reject
<1> QED BY <1>2, <1>3, <1>4 DEF RequestStep

LEMMA MoveWorker ==
  ASSUME TypeInv, SafetyInv, SoloInv, ResolveInv, NEW s \in Servers, WorkerStep(s)
  PROVE  source' = source /\ (row' = row \/ \E j \in Jobs : ContractMove(j))
<1> USE DEF TypeInv
<1> DEFINE j == worker[s].job
<1>1. CASE ~StartRun(s) /\ ~Publish(s) /\ ~MarkFailed(s)
  BY <1>1 DEF WorkerStep, TakeJob, Launch, PipelineExits, StoreLog, StoreArtifact,
              StoreArtifactFails
<1>2. CASE StartRun(s) \/ Publish(s) \/ MarkFailed(s)
  <2>1. /\ worker[s] \in Worker /\ Alive(s) /\ j \in Jobs /\ source' = source
        /\ worker[s].pc \in {"start", "publish", "failing"}
    BY <1>2, WorkerHasJob DEF StartRun, Publish, MarkFailed, Working, TypeOK
  <2>2. row[j] \in Row
    BY <2>1 DEF TypeOK
  <2> SUFFICES row' = row \/ ContractMove(j)
    BY <2>1
  <2>3. CASE StartRun(s)
    <3>1. Status(j) = "queued" /\ worker[s].pc = "start"
      BY <2>3 DEF StartRun, Working, SafetyInv, WorkerInv
    <3>2. \A k \in Jobs : Status(k) # "processing"
      BY <2>1, <3>1, WhatIsRun DEF WorkPc
    <3>3. CASE row' = [row EXCEPT ![j] = Processing(@)]
      <4>1. row'[j] = Processing(row[j]) /\ \A k \in Jobs : k # j => row'[k] = row[k]
        BY <2>1, <3>3 DEF TypeOK
      <4>2. Processing(row[j]).status = "processing" /\ Processing(row[j]).exports = row[j].exports
        BY <2>2, RowUpdates, UpdatesOfExports
      <4> QED BY <2>1, <3>1, <3>2, <4>1, <4>2 DEF ContractMove, QuietMove, Moves
    <3> QED BY <2>3, <3>3 DEF StartRun
  <2>4. CASE Publish(s)
    <3>1. Status(j) = "processing" /\ worker[s].sawError \in BOOLEAN
      BY <2>1, <2>4 DEF Publish, Working, SoloInv, RunsOn, Worker
    <3>2. CASE row' = [row EXCEPT ![j] = Completed(@, worker[s].sawError)]
      <4>1. /\ row'[j] = Completed(row[j], worker[s].sawError)
            /\ \A k \in Jobs : k # j => row'[k] = row[k]
        BY <2>1, <3>2 DEF TypeOK
      <4>2. /\ Completed(row[j], worker[s].sawError).status = "completed"
            /\ Completed(row[j], worker[s].sawError).exports = TRUE
        BY <2>2, <3>1, UpdatesOfCompleted
      <4> QED BY <2>1, <3>1, <4>1, <4>2 DEF ContractMove, Moves
    <3> QED BY <2>4, <3>2 DEF Publish
  <2>5. CASE MarkFailed(s)
    <3>1. Status(j) \in {"queued", "processing"}
      BY <2>5 DEF MarkFailed, Working, SoloInv, RunsOn
    <3>2. ErrorStage(s) \in Stages \cup {NoStage}
      BY <2>1, <2>2 DEF ErrorStage, Row, Worker
    <3>3. CASE row' = [row EXCEPT ![j] = Failed(@, ErrorStage(s))]
      <4>1. row'[j] = Failed(row[j], ErrorStage(s)) /\ \A k \in Jobs : k # j => row'[k] = row[k]
        BY <2>1, <3>3 DEF TypeOK
      <4>2. Failed(row[j], ErrorStage(s)).status = "failed"
        BY <2>2, <3>2, RowUpdates
      <4>3. Failed(row[j], ErrorStage(s)).exports = row[j].exports
        BY <2>2, <3>2, UpdatesOfExports
      <4> QED BY <2>1, <3>1, <4>1, <4>2, <4>3 DEF ContractMove, QuietMove, Moves
    <3> QED BY <2>5, <3>3 DEF MarkFailed
  <2> QED BY <1>2, <2>3, <2>4, <2>5
<1> QED BY <1>1, <1>2

LEMMA MoveServer ==
  ASSUME TypeInv, SoloInv, ResolveInv, NEW s \in Servers, ServerStep(s)
  PROVE  source' = source /\ (row' = row \/ \E j \in Jobs : ContractMove(j))
<1> USE DEF TypeInv
<1>1. CASE ~Recover(s)
  BY <1>1 DEF ServerStep, StartServer, Drain, DrainEnds, Crash
<1>2. CASE Recover(s)
  <2>1. found[s] \subseteq Jobs /\ source' = source
    BY <1>2 DEF Recover, TypeOK
  <2>2. CASE row' = [j \in Jobs |-> IF j \in found[s] THEN Interrupted(row[j]) ELSE row[j]]
    <3>1. CASE found[s] = {}
      <4>1. row \in [Jobs -> Row] /\ row' \in [Jobs -> Row]
        BY <2>2, <3>1 DEF TypeOK
      <4>2. \A k \in Jobs : row'[k] = row[k]
        BY <2>2, <3>1
      <4>3. row' = row
        BY <4>1, <4>2
      <4> QED BY <2>1, <4>3
    <3>2. ASSUME NEW j \in found[s] PROVE ContractMove(j)
      <4>1. j \in Jobs /\ Status(j) = "processing" /\ row[j] \in Row
        BY <2>1 DEF SoloInv, ListIsFresh, TypeOK
      <4>2. row'[j] = Interrupted(row[j])
        BY <2>2, <4>1
      <4>3. /\ Interrupted(row[j]).status = "interrupted"
            /\ Interrupted(row[j]).exports = row[j].exports
        BY <4>1, RowUpdates, UpdatesOfExports
      <4>4. \A k \in Jobs : k # j => row'[k] = row[k]
        BY <2>2, <4>1 DEF SoloInv, ListIsFresh, ResolveInv
      <4> QED BY <2>1, <4>1, <4>2, <4>3, <4>4 DEF ContractMove, QuietMove, Moves
    <3> QED BY <2>1, <3>1, <3>2
  <2> QED BY <1>2, <2>1, <2>2 DEF Recover
<1> QED BY <1>1, <1>2

LEMMA StepMoves ==
  ASSUME TypeInv, SafetyInv, SoloInv, ResolveInv, Next
  PROVE  \/ row' = row /\ source' = source
         \/ \E j \in Jobs : ContractMove(j)
<1>1. \A j \in Jobs : OrphanExits(j) => row' = row /\ source' = source
  BY DEF OrphanExits
<1> QED BY <1>1, MoveBegin, MoveRequest, MoveWorker, MoveServer DEF Next

LEMMA ResolveInit == Init => ResolveInv
<1> SUFFICES ASSUME Init PROVE ResolveInv
  OBVIOUS
<1>1. \A j \in Jobs : row[j] = NoRow
  BY DEF Init
<1>2. NoRow.status = "absent" /\ NoRow.exports = FALSE
  BY DEF NoRow
<1> QED BY <1>1, <1>2 DEF ResolveInv, Status

LEMMA ResolveStep ==
  /\ TypeInv /\ TypeInv' /\ SafetyInv /\ SoloInv /\ ResolveInv /\ [Next]_vars /\ NoLostCommit
  => ResolveInv'
<1> SUFFICES ASSUME TypeInv, TypeInv', SafetyInv, SoloInv, ResolveInv, [Next]_vars, NoLostCommit
             PROVE  ResolveInv'
  OBVIOUS
<1>1. CASE UNCHANGED vars
  BY <1>1 DEF vars, ResolveInv, Status, IsRun, IsFound, Running
<1>2. CASE Next
  <2>1. \A j \in Jobs : Status(j)' = "processing" =>
          IsRun(j)' \/ IsFound(j)' \/ \A s \in Servers : ~Running(s)'
    BY <1>2, NothingLeft
  <2>2. CASE row' = row
    BY <2>1, <2>2 DEF ResolveInv, Status
  <2>3. ASSUME NEW j \in Jobs, ContractMove(j)
        PROVE  /\ \A k, l \in Jobs :
                    Status(k)' = "processing" /\ Status(l)' = "processing" => k = l
               /\ \A k \in Jobs : row'[k].exports <=> Status(k)' = "completed"
    <3>1. \A k \in Jobs : k # j => row'[k] = row[k]
      BY <2>3 DEF ContractMove
    <3>2. Status(j)' = "processing" => \A k \in Jobs : Status(k) # "processing"
      BY <2>3 DEF ContractMove, QuietMove, Moves, Status
    <3>3. row'[j].exports <=> Status(j)' = "completed"
      BY <2>3 DEF ContractMove, QuietMove, Moves, Status, ResolveInv
    <3> QED BY <3>1, <3>2, <3>3 DEF Status, ResolveInv
  <2> QED BY <1>2, <2>1, <2>2, <2>3, StepMoves DEF ResolveInv
<1> QED BY <1>1, <1>2

LEMMA ResolveInvariant ==
  ASSUME NoLostCommit
  PROVE  Spec => [](TypeInv /\ SafetyInv /\ SoloInv /\ ResolveInv)
<1>1. "overlap" \notin Faults
  BY DEF NoLostCommit
<1>2. Init => TypeInv /\ SafetyInv /\ SoloInv /\ ResolveInv
  BY InitTypes, SafetyInit, SoloInit, ResolveInit
<1>3. TypeInv /\ SafetyInv /\ SoloInv /\ ResolveInv /\ [Next]_vars =>
        (TypeInv /\ SafetyInv /\ SoloInv /\ ResolveInv)'
  BY <1>1, StepTypes, SafetyStep, SoloStep, ResolveStep
<1> QED BY <1>2, <1>3, PTL DEF Spec

(* While the application serves, a job that reads "processing" is being    *)
(* worked on: the status page never shows work that nobody does.           *)
THEOREM ProcessingIsWorkedOn ==
  ASSUME NoLostCommit
  PROVE  Spec => []NoZombieProcessing
<1>1. SoloInv /\ ResolveInv => NoZombieProcessing
  <2> SUFFICES ASSUME SoloInv, ResolveInv,
                      NEW s \in Servers, phase[s] = "serving",
                      NEW j \in Jobs, Status(j) = "processing"
               PROVE  HeldByWorker(j)
    BY DEF NoZombieProcessing, Status
  <2>1. Alive(s)
    BY DEF Alive
  <2> QED BY <2>1, WhatIsRun DEF HeldByWorker, Holds, WorkPc
<1> QED BY <1>1, ResolveInvariant, PTL

(* The runtime does what the job contract promises, whichever handler,     *)
(* worker or process fails or is killed, when the database takes every     *)
(* commit and a process starts only after the one before it is gone.       *)
THEOREM RuntimeImplementsContract ==
  ASSUME NoLostCommit
  PROVE  Spec => ImplementsContract
<1> DEFINE status == [j \in Jobs |-> row[j].status]
           published == {j \in Jobs : row[j].exports}
<1>1. Init => Contract!ContractInit
  <2> SUFFICES ASSUME Init PROVE Contract!ContractInit
    OBVIOUS
  <2>1. NoRow.status = "absent" /\ NoRow.exports = FALSE
    BY DEF NoRow
  <2>2. \A j \in Jobs : row[j] = NoRow
    BY DEF Init
  <2> QED BY <2>1, <2>2 DEF Init, Contract!ContractInit
<1>2. ASSUME TypeInv, TypeInv', SafetyInv, SoloInv, ResolveInv, [Next]_vars
      PROVE  [Contract!ContractNext]_Contract!contractVars
  <2>1. CASE row' = row /\ source' = source
    BY <2>1 DEF Contract!contractVars
  <2>2. CASE UNCHANGED vars
    BY <2>1, <2>2 DEF vars
  <2>3. ASSUME NEW j \in Jobs, ContractMove(j) PROVE Contract!ContractNext
    <3>1. \A k \in Jobs : k # j => row'[k] = row[k]
      BY <2>3 DEF ContractMove
    <3>2. ASSUME NEW from, NEW to, Moves(j, from, to)
          PROVE  status[j] = from /\ status' = [status EXCEPT ![j] = to]
      BY <3>1, <3>2 DEF Moves, Status
    <3>3. row'[j].exports = row[j].exports => published' = published
      BY <3>1
    <3>4. row'[j].exports = TRUE => published' = published \cup {j}
      BY <3>1
    <3>5. CASE QuietMove(j) /\ source' = source /\ row'[j].exports = row[j].exports
      <4>1. Moves(j, "absent", "uploaded") => Contract!Upload(j)
        BY <3>2, <3>3, <3>5 DEF Contract!Upload, Contract!Become
      <4>2. Moves(j, "uploaded", "queued") => Contract!Accept(j)
        BY <3>2, <3>3, <3>5 DEF Contract!Accept, Contract!Become
      <4>3. ASSUME Moves(j, "queued", "processing"), \A k \in Jobs : Status(k) # "processing"
            PROVE  Contract!Run(j)
        <5>1. {k \in Jobs : status[k] = "processing"} = {}
          BY <4>3 DEF Status
        <5>2. Contract!Cardinality({}) = 0
          <6>1. Contract!Cardinality({}) = Cardinality({})
            BY DEF Cardinality, Contract!Cardinality
          <6> QED BY <6>1, FS_EmptySet
        <5>3. Contract!Cardinality({k \in Jobs : status[k] = "processing"}) < 1
          <6>1. Contract!Cardinality({k \in Jobs : status[k] = "processing"}) = 0
            BY <5>1, <5>2, Zenon
          <6> QED BY <6>1
        <5> QED BY <3>2, <3>3, <3>5, <4>3, <5>3 DEF Contract!Run, Contract!Become
      <4>4. ASSUME NEW from \in {"uploaded", "queued", "processing"}, Moves(j, from, "failed")
            PROVE  Contract!Fail(j)
        BY <3>2, <3>3, <3>5, <4>4 DEF Contract!Fail, Contract!Become
      <4>5. Moves(j, "processing", "interrupted") => Contract!Interrupt(j)
        BY <3>2, <3>3, <3>5 DEF Contract!Interrupt, Contract!Become
      <4> QED BY <3>5, <4>1, <4>2, <4>3, <4>4, <4>5 DEF QuietMove, Contract!ContractNext
    <3>6. CASE Moves(j, "processing", "completed") /\ source' = source /\ row'[j].exports = TRUE
      <4>1. Contract!Complete(j)
        BY <3>2, <3>4, <3>6 DEF Contract!Complete, Contract!Become
      <4> QED BY <4>1 DEF Contract!ContractNext
    <3>7. ASSUME NEW src \in Jobs, Moves(j, "absent", "queued"),
                 row'[j].exports = row[j].exports, Status(src) \in Terminal,
                 source' = [source EXCEPT ![j] = src]
          PROVE  Contract!ContractNext
      <4>1. status[src] \in Contract!Ended
        BY <3>7 DEF Status, Terminal, Contract!Ended
      <4>2. Contract!Retry(src, j)
        BY <3>2, <3>3, <3>7, <4>1 DEF Contract!Retry, Contract!Become
      <4> QED BY <4>2 DEF Contract!ContractNext
    <3> QED BY <2>3, <3>5, <3>6, <3>7 DEF ContractMove
  <2> QED BY <1>2, <2>1, <2>2, <2>3, StepMoves
<1> QED BY <1>1, <1>2, ResolveInvariant, PTL DEF Spec, ImplementsContract, Contract!ContractSpec
=============================================================================
