------------------------- MODULE CeleryWorkerProofs -------------------------
(***************************************************************************)
(* What holds of CeleryWorker, of its history of dead tasks and of what    *)
(* its runs leave behind, for every set of jobs and workers.               *)
(***************************************************************************)
EXTENDS CeleryArtifacts, CeleryRefinement, FiniteSetTheorems, TLAPS

(* A failed row is a row.                                                  *)
LEMMA FailedIsRow ==
  ASSUME NEW r \in Row, NEW code \in Codes, NEW s \in Stages
  PROVE  /\ Failed(r, code, s) \in Row
         /\ Failed(r, code, s).status = "failed"
         /\ Failed(r, code, s).published = r.published
BY DEF Failed, Row, Statuses, Stages

(* The error code of a stage is one of the known codes.                    *)
LEMMA StageErrorIsCode ==
  ASSUME NEW s
  PROVE  StageError(s) \in Codes
<1>1. CASE \E e \in StageErrors : e[1] = s
  <2> PICK e \in StageErrors : e = CHOOSE x \in StageErrors : x[1] = s
    BY <1>1
  <2> QED BY <1>1 DEF StageError, Codes
<1>2. CASE ~ \E e \in StageErrors : e[1] = s
  BY <1>2 DEF StageError, Codes
<1> QED BY <1>1, <1>2

LEMMA ErrorCodeIsCode ==
  ASSUME NEW t
  PROVE  ErrorCode(t) \in Codes
BY StageErrorIsCode DEF ErrorCode, Codes

(* Facts about single values that the steps below share.                   *)
LEMMA Values ==
  /\ NoRow \in Row /\ NoRow.status = "absent"
  /\ NewRow("uploaded") \in Row /\ NewRow("uploaded").status = "uploaded"
  /\ NewRow("queued") \in Row /\ NewRow("queued").status = "queued"
  /\ Idle \in Task /\ Idle.pc = "idle" /\ Idle.job = None /\ Idle.view = NoRow
  /\ PipelineStages \subseteq Stages
  /\ \A i \in 1..Len(PipelineOrder) : PipelineOrder[i] \in PipelineStages
  /\ Len(PipelineOrder) = 7
BY DEF NoRow, NewRow, Row, Statuses, Stages, Codes, NoError, Idle, Task,
       PipelineStages, PipelineOrder, Raised, InRun, InTransaction, InHandler

(* What a task does to itself: the fields that Goto and Raise leave alone. *)
LEMMA GotoChanges ==
  ASSUME TypeOK, NEW w \in Workers,
         NEW pc \in {"idle"} \cup InRun \cup InHandler, Goto(w, pc)
  PROVE  /\ task' \in [Workers -> Task]
         /\ \A v \in Workers : v # w => task'[v] = task[v]
         /\ task'[w].pc = pc
         /\ task'[w].job = task[w].job
         /\ task'[w].view = task[w].view
BY SMTT(30) DEF TypeOK, Goto, Task

LEMMA RaiseChanges ==
  ASSUME TypeOK, NEW w \in Workers, NEW err \in Raised, Raise(w, err)
  PROVE  /\ task' \in [Workers -> Task]
         /\ \A v \in Workers : v # w => task'[v] = task[v]
         /\ task'[w].pc = "handle"
         /\ task'[w].job = task[w].job
         /\ task'[w].view = task[w].view
<1>1. "handle" \in {"idle"} \cup InRun \cup InHandler
  BY DEF InHandler
<1> DEFINE t == [task[w] EXCEPT !.pc = "handle", !.err = err]
<1>2. task' = [task EXCEPT ![w] = t]
  BY DEF TypeOK, Raise
<1>3. task[w] \in Task
  BY DEF TypeOK
<1>4. t \in Task /\ t.pc = "handle" /\ t.job = task[w].job /\ t.view = task[w].view
  BY <1>1, <1>3 DEF Task
<1> HIDE DEF t
<1> QED BY <1>2, <1>4 DEF TypeOK

LEMMA DieChanges ==
  ASSUME TypeOK, NEW w \in Workers, Die(w)
  PROVE  /\ task' \in [Workers -> Task]
         /\ \A v \in Workers : v # w => task'[v] = task[v]
         /\ task'[w] = Idle
BY Values DEF TypeOK, Die

LEMMA UnlockedType ==
  ASSUME TypeOK, NEW w \in Workers
  PROVE  /\ Unlocked(w) \in [Jobs -> Workers \cup {None}]
         /\ \A j \in Jobs : Unlocked(w)[j] # w
         /\ \A j \in Jobs : lock[j] # w => Unlocked(w)[j] = lock[j]
BY WorkerAssumption DEF TypeOK, Unlocked

(* The other steps that a task takes.                                      *)
LEMMA StepChanges ==
  ASSUME TypeOK, WorkersHaveJobs, NEW w \in Workers,
         \/ Claim(w) \/ Stage(w) \/ Finish(w) \/ Handle(w) \/ Timeout(w)
         \/ \E j \in Jobs : Receive(w, j)
  PROVE  /\ task' \in [Workers -> Task]
         /\ \A v \in Workers : v # w => task'[v] = task[v]
<1>1. CASE Claim(w)
  <2> DEFINE j == task[w].job
             r == [row[j] EXCEPT !.status = "processing",
                                 !.stage = PipelineOrder[1]]
             t == [task[w] EXCEPT !.pc = "stage", !.claimed = TRUE, !.view = r]
  <2>1. task[w].pc # "idle" /\ j \in Jobs
    BY <1>1 DEF Claim, At, WorkersHaveJobs
  <2>2. r \in Row
    <3>1. row[j] \in Row
      BY <2>1 DEF TypeOK
    <3>2. PipelineOrder[1] \in Stages
      BY DEF PipelineOrder, Stages, PipelineStages
    <3> QED BY <3>1, <3>2 DEF Row, Statuses
  <2>3. task' = [task EXCEPT ![w] = t]
    BY <1>1 DEF Claim, TypeOK
  <2> HIDE DEF r
  <2>4. t \in Task
    BY <2>2 DEF TypeOK, Task, InRun, InTransaction
  <2> HIDE DEF t
  <2> QED BY <2>3, <2>4 DEF TypeOK
<1>2. CASE Stage(w)
  <2>1. PICK i \in 1..Len(PipelineOrder) :
          IF i = Len(PipelineOrder)
          THEN Goto(w, "finish")
          ELSE task' = [task EXCEPT ![w].view.stage = PipelineOrder[i + 1]]
    BY <1>2 DEF Stage
  <2>2. CASE i = Len(PipelineOrder)
    BY <2>1, <2>2, GotoChanges DEF InRun, InTransaction
  <2>3. CASE i # Len(PipelineOrder)
    <3> DEFINE r == [task[w].view EXCEPT !.stage = PipelineOrder[i + 1]]
               t == [task[w] EXCEPT !.view = r]
    <3>1. i + 1 \in 1..Len(PipelineOrder)
      BY <2>3, Values
    <3>2. PipelineOrder[i + 1] \in Stages
      BY <3>1, Values
    <3>3. task' = [task EXCEPT ![w] = t]
      BY <2>1, <2>3 DEF TypeOK
    <3>4. task[w].view \in Row
      BY DEF TypeOK, Task
    <3>5. r \in Row
      BY <3>2, <3>4 DEF Row
    <3> HIDE DEF r
    <3>6. t \in Task
      BY <3>5 DEF TypeOK, Task
    <3> HIDE DEF t
    <3> QED BY <3>3, <3>6 DEF TypeOK
  <2> QED BY <2>2, <2>3
<1>3. CASE Finish(w)
  <2> DEFINE r == [task[w].view EXCEPT !.status = "completed",
                     !.stage = "completed", !.error = NoError,
                     !.errorStage = "absent", !.published = TRUE]
             t == [task[w] EXCEPT !.pc = "commit", !.view = r]
  <2>1. r \in Row
    <3>1. task[w].view \in Row
      BY DEF TypeOK, Task
    <3>2. "completed" \in Stages /\ "absent" \in Stages /\ NoError \in Codes
      BY DEF Stages, Statuses, Codes
    <3> QED BY <3>1, <3>2 DEF Row, Statuses
  <2>2. task' = [task EXCEPT ![w] = t]
    BY <1>3 DEF Finish, TypeOK
  <2> HIDE DEF r
  <2>3. t \in Task
    BY <2>1 DEF TypeOK, Task, InRun, InTransaction
  <2> HIDE DEF t
  <2> QED BY <2>2, <2>3 DEF TypeOK
<1>4. CASE Handle(w)
  <2> DEFINE s == IF lock[task[w].job] = w THEN task[w].view.stage
                                           ELSE row[task[w].job].stage
             t == [task[w] EXCEPT !.pc = "read", !.view = NoRow, !.stage = s]
  <2>1. task[w].pc # "idle" /\ task[w].job \in Jobs
    BY <1>4 DEF Handle, At, WorkersHaveJobs
  <2>2. s \in Stages
    BY <2>1 DEF TypeOK, Task, Row
  <2>3. task' = [task EXCEPT ![w] = t]
    BY <1>4 DEF Handle, TypeOK
  <2> HIDE DEF s
  <2>4. t \in Task
    BY <2>2, Values DEF TypeOK, Task, InHandler
  <2> HIDE DEF t
  <2> QED BY <2>3, <2>4 DEF TypeOK
<1>5. CASE Timeout(w)
  <2>1. CASE Die(w)
    BY <2>1, DieChanges
  <2>2. ASSUME NEW raised \in {"timeout", "stage"},
               task' = [task EXCEPT ![w].pc = "handle", ![w].err = raised,
                                    ![w].late = TRUE]
        PROVE  task' \in [Workers -> Task]
    <3> DEFINE t == [task[w] EXCEPT !.pc = "handle", !.err = raised,
                                    !.late = TRUE]
    <3>1. task' = [task EXCEPT ![w] = t]
      BY <2>2 DEF TypeOK
    <3>2. t \in Task
      BY DEF TypeOK, Task, InHandler, Raised
    <3> HIDE DEF t
    <3> QED BY <3>1, <3>2 DEF TypeOK
  <2> QED BY <1>5, <2>1, <2>2 DEF Timeout
<1>6. CASE \E j \in Jobs : Receive(w, j)
  <2>1. PICK j \in Jobs : Receive(w, j)
    BY <1>6
  <2> DEFINE t == [Idle EXCEPT !.pc = "load", !.job = j]
  <2>2. task' = [task EXCEPT ![w] = t]
    BY <2>1 DEF Receive
  <2>3. t \in Task
    BY Values DEF Task, InRun
  <2> HIDE DEF t
  <2> QED BY <2>2, <2>3 DEF TypeOK
<1> QED BY <1>1, <1>2, <1>3, <1>4, <1>5, <1>6

-----------------------------------------------------------------------------
(* Every step keeps the types.                                             *)

LEMMA RowWrite ==
  ASSUME TypeOK, NEW j \in Jobs, NEW r \in Row
  PROVE  [row EXCEPT ![j] = r] \in [Jobs -> Row]
BY DEF TypeOK

LEMMA TypesOfApi ==
  ASSUME TypeOK, NEW j \in Jobs, ApiStep(j) \/ Redeliver(j)
  PROVE  TypeOK'
<1>1. CASE Upload(j)
  BY <1>1, Values, RowWrite DEF Upload, TypeOK
<1>2. CASE Accept(j)
  BY <1>2, Values, RowWrite DEF Accept, TypeOK
<1>3. CASE Send(j)
  BY <1>3 DEF Send, TypeOK
<1>4. CASE Reject(j)
  <2>1. row[j] \in Row
    BY DEF TypeOK
  <2>2. "QUEUE_ENQUEUE_FAILED" \in Codes /\ "queued" \in Stages
    BY DEF Codes, Stages, Statuses
  <2>3. Failed(row[j], "QUEUE_ENQUEUE_FAILED", "queued") \in Row
    BY <2>1, <2>2, FailedIsRow
  <2> QED BY <1>4, <2>3, RowWrite DEF Reject, TypeOK
<1>5. CASE Redeliver(j)
  BY <1>5 DEF Redeliver, TypeOK
<1> QED BY <1>1, <1>2, <1>3, <1>4, <1>5 DEF ApiStep

LEMMA TypesOfWorker ==
  ASSUME TypeOK, WorkersHaveJobs, NEW w \in Workers,
         \/ RunStep(w) \/ TaskFault(w)
         \/ \E j \in Jobs : Receive(w, j)
  PROVE  TypeOK'
<1> USE DEF At
<1>1. CASE Load(w)
  BY <1>1, GotoChanges, RaiseChanges, Values
     DEF Load, TypeOK, WorkersHaveJobs, Raised, InRun
<1>2. CASE Claim(w)
  BY <1>2, StepChanges DEF Claim, TypeOK
<1>3. CASE Stage(w)
  BY <1>3, StepChanges DEF Stage, TypeOK
<1>4. CASE Finish(w)
  BY <1>4, StepChanges DEF Finish, TypeOK, WorkersHaveJobs
<1>5. CASE Commit(w)
  <2>1. task[w].view \in Row /\ task[w].job \in Jobs
    BY <1>5 DEF Commit, TypeOK, Task, WorkersHaveJobs
  <2>2. row' \in [Jobs -> Row]
    BY <1>5, <2>1, RowWrite DEF Commit
  <2>3. task' \in [Workers -> Task]
    BY <1>5, GotoChanges DEF Commit, InRun
  <2> QED BY <1>5, <2>2, <2>3, UnlockedType DEF Commit, TypeOK
<1>6. CASE Report(w)
  BY <1>6, Values DEF Report, TypeOK
<1>7. CASE Handle(w)
  BY <1>7, StepChanges, UnlockedType DEF Handle, TypeOK, WorkersHaveJobs
<1>8. CASE Die(w)
  BY <1>8, DieChanges, UnlockedType DEF Die, TypeOK
<1>9. CASE MarkFailedRead(w)
  <2>1. CASE Die(w)
    BY <2>1, <1>8
  <2>2. CASE Goto(w, "write") /\ UNCHANGED <<row, lock, copies, api, logged>>
    BY <2>2, GotoChanges DEF TypeOK, InHandler
  <2> QED BY <1>9, <2>1, <2>2 DEF MarkFailedRead
<1>10. CASE MarkFailedWrite(w)
  <2>1. task[w].job \in Jobs /\ task[w].stage \in Stages
    BY <1>10 DEF MarkFailedWrite, TypeOK, Task, WorkersHaveJobs
  <2>2. Failed(row[task[w].job], ErrorCode(task[w]), task[w].stage) \in Row
    BY <2>1, ErrorCodeIsCode, FailedIsRow DEF TypeOK
  <2>3. row' \in [Jobs -> Row]
    BY <1>10, <2>1, <2>2, RowWrite DEF MarkFailedWrite
  <2> QED BY <1>10, <2>3, Values DEF MarkFailedWrite, TypeOK
<1>11. CASE StageFails(w)
  BY <1>11, RaiseChanges DEF StageFails, LogsOnError, TypeOK, Raised, WorkersHaveJobs
<1>12. CASE CommitFails(w)
  BY <1>8, <1>12 DEF CommitFails
<1>13. CASE Timeout(w)
  <2>1. CASE Die(w)
    BY <2>1, <1>8
  <2>2. CASE ~Die(w)
    <3>1. \E raised \in {"timeout", "stage"} :
            task' = [task EXCEPT ![w].pc = "handle", ![w].err = raised,
                                 ![w].late = TRUE]
      BY <1>13, <2>2 DEF Timeout
    <3>2. task' \in [Workers -> Task]
      BY <1>13, <3>1, StepChanges DEF TypeOK
    <3>3. UNCHANGED <<row, lock, copies, api>> /\ logged' \subseteq Jobs
      BY <1>13, <2>2
         DEF Timeout, LogsOnError, TypeOK, WorkersHaveJobs, InRun, InTransaction
    <3> QED BY <3>2, <3>3 DEF TypeOK
  <2> QED BY <2>1, <2>2
<1>14. CASE \E j \in Jobs : Receive(w, j)
  <2>1. PICK j \in Jobs : Receive(w, j)
    BY <1>14
  <2>2. copies' \in [Jobs -> Nat]
    <3>1. copies[j] - 1 \in Nat
      <4>1. copies[j] \in Nat
        BY DEF TypeOK
      <4>2. copies[j] > 0
        BY <2>1 DEF Receive
      <4> QED BY <4>1, <4>2
    <3> QED BY <2>1, <3>1 DEF Receive, TypeOK
  <2>3. task' \in [Workers -> Task]
    BY <1>14, StepChanges
  <2> QED BY <2>1, <2>2, <2>3 DEF Receive, TypeOK
<1>15. CASE LogFails(w) \/ Crash(w)
  BY <1>8, <1>15 DEF LogFails, Crash
<1> QED
  BY <1>1, <1>2, <1>3, <1>4, <1>5, <1>6, <1>7, <1>9, <1>10, <1>11, <1>12,
     <1>13, <1>14, <1>15 DEF RunStep, TaskFault

-----------------------------------------------------------------------------
(* Every step keeps LockInv.  The only steps that touch a lock are Claim,  *)
(* which takes a free one, and the ends of a transaction, which drop the   *)
(* worker's own.                                                           *)

Inductive == TypeOK /\ LockInv

LEMMA InductiveInit == Init => Inductive
BY Values, WorkerAssumption
   DEF Init, Inductive, TypeOK, LockInv, WorkersHaveJobs,
       TransactionsHoldLocks, CommitsPublish, InTransaction, At

(* What a step of worker w leaves of the locks of the others.              *)
LEMMA LocksOfOthers ==
  ASSUME Inductive, NEW w \in Workers,
         RunStep(w) \/ TaskFault(w) \/ \E j \in Jobs : Receive(w, j),
         NEW v \in Workers, v # w, task[v].pc \in InTransaction
  PROVE  lock'[task[v].job] = v
<1>1. task[v].job \in Jobs /\ lock[task[v].job] = v /\ v # None
  BY WorkerAssumption
     DEF Inductive, LockInv, WorkersHaveJobs, TransactionsHoldLocks, InTransaction
<1>2. CASE lock' = lock
  BY <1>1, <1>2
<1>3. CASE lock' = Unlocked(w)
  BY <1>1, <1>3 DEF Unlocked
<1>4. CASE Claim(w)
  BY <1>1, <1>4 DEF Claim, Inductive, TypeOK
<1> QED
  BY <1>2, <1>3, <1>4
     DEF RunStep, TaskFault, Load, Stage, Finish, Commit, Report, Handle,
         MarkFailedRead, MarkFailedWrite, StageFails, CommitFails, LogFails,
         Timeout, Crash, Die, Receive

(* What the step makes of the worker's own task.                           *)
LEMMA OwnTask ==
  ASSUME Inductive, NEW w \in Workers,
         RunStep(w) \/ TaskFault(w) \/ \E j \in Jobs : Receive(w, j)
  PROVE  /\ \A v \in Workers : v # w => task'[v] = task[v]
         /\ task'[w].pc # "idle" => task'[w].job \in Jobs
         /\ task'[w].pc \in InTransaction => lock'[task'[w].job] = w
         /\ task'[w].pc = "commit" =>
              task'[w].view.status = "completed" /\ task'[w].view.published
<1> USE DEF At
<1>0. /\ TypeOK /\ WorkersHaveJobs /\ TransactionsHoldLocks /\ CommitsPublish
      /\ Idle.pc = "idle"
  BY Values DEF Inductive, LockInv
<1>1. CASE Load(w)
  BY <1>0, <1>1, GotoChanges, RaiseChanges
     DEF Load, WorkersHaveJobs, CommitsPublish, Raised, InRun, InTransaction
<1>2. CASE Claim(w)
  <2> DEFINE j == task[w].job
  <2>1. j \in Jobs
    BY <1>0, <1>2 DEF Claim, WorkersHaveJobs
  <2>2. /\ task'[w].pc = "stage" /\ task'[w].job = j
        /\ \A v \in Workers : v # w => task'[v] = task[v]
    BY <1>0, <1>2 DEF Claim, TypeOK, Task
  <2>3. lock'[j] = w
    BY <1>0, <1>2, <2>1 DEF Claim, TypeOK
  <2> QED BY <2>1, <2>2, <2>3
<1>3. CASE Stage(w)
  <2>1. PICK i \in 1..Len(PipelineOrder) :
          IF i = Len(PipelineOrder)
          THEN Goto(w, "finish")
          ELSE task' = [task EXCEPT ![w].view.stage = PipelineOrder[i + 1]]
    BY <1>3 DEF Stage
  <2>2. CASE i = Len(PipelineOrder)
    BY <1>0, <1>3, <2>1, <2>2, GotoChanges
       DEF Stage, InRun, InTransaction, WorkersHaveJobs, TransactionsHoldLocks,
           CommitsPublish
  <2>3. CASE i # Len(PipelineOrder)
    <3>1. task[w] \in Task /\ task[w].view \in Row
      BY <1>0 DEF TypeOK, Task
    <3>2. /\ task'[w].pc = task[w].pc /\ task'[w].job = task[w].job
          /\ \A v \in Workers : v # w => task'[v] = task[v]
      BY <1>0, <2>1, <2>3, <3>1 DEF TypeOK, Task, Row
    <3> QED
      BY <1>0, <1>3, <3>2
         DEF Stage, WorkersHaveJobs, TransactionsHoldLocks, CommitsPublish
  <2> QED BY <2>2, <2>3
<1>4. CASE Finish(w)
  <2>1. task[w] \in Task /\ task[w].view \in Row
    BY <1>0 DEF TypeOK, Task
  <2>2. /\ task'[w].pc = "commit" /\ task'[w].job = task[w].job
        /\ task'[w].view.published /\ task'[w].view.status = "completed"
        /\ \A v \in Workers : v # w => task'[v] = task[v]
    BY <1>0, <1>4, <2>1 DEF Finish, TypeOK, Task, Row
  <2> QED
    BY <1>0, <1>4, <2>2
       DEF Finish, WorkersHaveJobs, TransactionsHoldLocks, InTransaction
<1>5. CASE Commit(w)
  BY <1>0, <1>5, GotoChanges
     DEF Commit, WorkersHaveJobs, CommitsPublish, InRun, InTransaction
<1>6. CASE task' = [task EXCEPT ![w] = Idle]
  BY <1>0, <1>6 DEF TypeOK, InTransaction
<1>7. CASE Handle(w)
  <2>1. /\ task'[w].pc = "read" /\ task'[w].job = task[w].job
        /\ \A v \in Workers : v # w => task'[v] = task[v]
    BY <1>0, <1>7 DEF Handle, TypeOK, Task
  <2> QED BY <1>0, <1>7, <2>1 DEF Handle, WorkersHaveJobs, InTransaction
<1>8. CASE MarkFailedRead(w)
  <2>1. CASE Die(w)
    BY <2>1, <1>6 DEF Die
  <2>2. CASE Goto(w, "write")
    BY <1>0, <1>8, <2>2, GotoChanges
       DEF MarkFailedRead, WorkersHaveJobs, CommitsPublish, InHandler, InTransaction
  <2> QED BY <1>8, <2>1, <2>2 DEF MarkFailedRead
<1>9. CASE \E err \in Raised : Raise(w, err) /\ task[w].pc # "idle"
  BY <1>0, <1>9, RaiseChanges DEF WorkersHaveJobs, CommitsPublish, InTransaction
<1>10. CASE StageFails(w)
  BY <1>9, <1>10 DEF StageFails, Raised
<1>11. CASE Timeout(w)
  <2>1. CASE Die(w)
    BY <2>1, <1>6 DEF Die
  <2>2. CASE ~Die(w)
    <3>1. /\ task'[w].pc = "handle" /\ task'[w].job = task[w].job
          /\ \A v \in Workers : v # w => task'[v] = task[v]
      BY <1>0, <1>11, <2>2 DEF Timeout, TypeOK, Task
    <3> QED
      BY <1>0, <1>11, <2>2, <3>1
         DEF Timeout, WorkersHaveJobs, CommitsPublish, InRun, InTransaction
  <2> QED BY <2>1, <2>2
<1>12. CASE \E j \in Jobs : Receive(w, j)
  <2>1. PICK j \in Jobs : Receive(w, j)
    BY <1>12
  <2>2. /\ task'[w].pc = "load" /\ task'[w].job = j
        /\ \A v \in Workers : v # w => task'[v] = task[v]
    BY <1>0, <2>1 DEF Receive, TypeOK, Idle
  <2> QED BY <1>0, <2>2 DEF InTransaction
<1> QED
  BY <1>1, <1>2, <1>3, <1>4, <1>5, <1>6, <1>7, <1>8, <1>10, <1>11, <1>12
     DEF RunStep, TaskFault, Report, MarkFailedWrite, CommitFails, LogFails, Crash, Die

LEMMA InductiveStep == Inductive /\ [Next]_vars => Inductive'
<1> SUFFICES ASSUME Inductive, [Next]_vars PROVE Inductive'
  OBVIOUS
<1>0. TypeOK /\ WorkersHaveJobs /\ TransactionsHoldLocks /\ CommitsPublish
  BY DEF Inductive, LockInv
<1>1. ASSUME NEW j \in Jobs, ApiStep(j) \/ Redeliver(j)
      PROVE  Inductive'
  <2>1. TypeOK'
    BY <1>0, <1>1, TypesOfApi
  <2>2. UNCHANGED <<lock, task>>
    BY <1>1 DEF ApiStep, Upload, Accept, Send, Reject, Redeliver
  <2> QED
    BY <1>0, <2>1, <2>2
       DEF Inductive, LockInv, WorkersHaveJobs, TransactionsHoldLocks,
           CommitsPublish, At
<1>2. ASSUME NEW w \in Workers,
             RunStep(w) \/ TaskFault(w) \/ \E j \in Jobs : Receive(w, j)
      PROVE  Inductive'
  <2>1. TypeOK'
    BY <1>0, <1>2, TypesOfWorker
  <2>2. WorkersHaveJobs' /\ CommitsPublish'
    BY <1>0, <1>2, OwnTask DEF WorkersHaveJobs, CommitsPublish, At
  <2>3. TransactionsHoldLocks'
    BY <1>0, <1>2, OwnTask, LocksOfOthers DEF TransactionsHoldLocks
  <2> QED BY <2>1, <2>2, <2>3 DEF Inductive, LockInv
<1>3. CASE UNCHANGED vars
  BY <1>0, <1>3
     DEF vars, Inductive, TypeOK, LockInv, WorkersHaveJobs,
         TransactionsHoldLocks, CommitsPublish, At
<1> QED BY <1>1, <1>2, <1>3 DEF Next

-----------------------------------------------------------------------------
(* The theorems that hold under any faults.                                *)

LEMMA InductiveHolds == Spec => []Inductive
BY InductiveInit, InductiveStep, PTL DEF Spec

(* Every variable keeps its type, whatever fails.                          *)
THEOREM TypeCorrect == Spec => []TypeOK
<1>1. Inductive => TypeOK
  BY DEF Inductive
<1> QED BY <1>1, InductiveHolds, PTL

(* Two deliveries of one message never run the pipeline of their job at    *)
(* the same time past its claim, although neither re-checks the status     *)
(* when it claims: the row lock is what serialises them.                   *)
THEOREM OneRunAtATime == Spec => []OneRunPerJob
<1>1. Inductive => OneRunPerJob
  BY DEF Inductive, LockInv, TransactionsHoldLocks, OneRunPerJob
<1> QED BY <1>1, InductiveHolds, PTL

LEMMA PublicationStep ==
  ASSUME Inductive, CompletedIsPublished, [Next]_vars
  PROVE  CompletedIsPublished'
<1>0. TypeOK /\ WorkersHaveJobs /\ CommitsPublish
  BY DEF Inductive, LockInv
<1>1. ASSUME NEW j \in Jobs, Upload(j) \/ Accept(j) \/ Reject(j)
      PROVE  CompletedIsPublished'
  <2>1. /\ \A k \in Jobs : k # j => row'[k] = row[k]
        /\ row'[j].status # "completed"
    <3>1. CASE Upload(j) \/ Accept(j)
      BY <1>0, <3>1, Values DEF Upload, Accept, TypeOK
    <3>2. CASE Reject(j)
      <4> DEFINE r == Failed(row[j], "QUEUE_ENQUEUE_FAILED", "queued")
      <4>1. r.status = "failed"
        BY <1>0 DEF TypeOK, Failed, Row
      <4>2. row' = [row EXCEPT ![j] = r]
        BY <3>2 DEF Reject
      <4> HIDE DEF r
      <4> QED BY <1>0, <4>1, <4>2 DEF TypeOK
    <3> QED BY <1>1, <3>1, <3>2
  <2> QED BY <2>1 DEF CompletedIsPublished
<1>2. ASSUME NEW w \in Workers, Commit(w)
      PROVE  CompletedIsPublished'
  BY <1>0, <1>2 DEF Commit, At, TypeOK, CommitsPublish, CompletedIsPublished
<1>3. ASSUME NEW w \in Workers, MarkFailedWrite(w)
      PROVE  CompletedIsPublished'
  <2>1. /\ \A k \in Jobs : k # task[w].job => row'[k] = row[k]
        /\ task[w].job \in Jobs => row'[task[w].job].status # "completed"
    BY <1>0, <1>3 DEF MarkFailedWrite, TypeOK, Failed, Row
  <2> QED BY <2>1 DEF CompletedIsPublished
<1>4. CASE row' = row
  BY <1>4 DEF CompletedIsPublished
<1> QED
  BY <1>1, <1>2, <1>3, <1>4
     DEF Next, vars, ApiStep, Send, Redeliver, Receive, RunStep, TaskFault,
         Load, Claim, Stage, Finish, Report, Handle, MarkFailedRead, StageFails,
         CommitFails, LogFails, Timeout, Crash, Die

(* A completed job has its exports, whatever is delivered twice, cut off   *)
(* or killed: they are committed in the transaction that completes it.     *)
THEOREM CompletedJobsArePublished == Spec => []CompletedIsPublished
<1>1. Init => CompletedIsPublished
  BY Values DEF Init, CompletedIsPublished
<1>2. Inductive /\ CompletedIsPublished /\ [Next]_vars => CompletedIsPublished'
  BY PublicationStep
<1> QED BY <1>1, <1>2, InductiveHolds, PTL DEF Spec

-----------------------------------------------------------------------------
(* With exactly-once delivery a job has one place at a time.               *)

(* A worker's step keeps its job or leaves it, and moves no message.       *)
LEMMA TaskKeepsJob ==
  ASSUME Inductive, NEW w \in Workers, RunStep(w) \/ TaskFault(w)
  PROVE  /\ UNCHANGED <<copies, api>>
         /\ task[w].pc # "idle"
         /\ task'[w].pc # "idle" => task'[w].job = task[w].job
<1> USE DEF At
<1>0. TypeOK
  BY DEF Inductive
<1>1. CASE Load(w) \/ Commit(w) \/ MarkFailedRead(w) \/ StageFails(w)
  BY <1>0, <1>1, GotoChanges, RaiseChanges, DieChanges, Values
     DEF Load, Commit, MarkFailedRead, Die, StageFails, LogsOnError,
         InRun, InTransaction, InHandler, Raised
<1>2. CASE Claim(w) \/ Finish(w) \/ Handle(w)
  BY <1>0, <1>2 DEF Claim, Finish, Handle, TypeOK, Task
<1>3. CASE Stage(w)
  <2>1. PICK i \in 1..Len(PipelineOrder) :
          IF i = Len(PipelineOrder)
          THEN Goto(w, "finish")
          ELSE task' = [task EXCEPT ![w].view.stage = PipelineOrder[i + 1]]
    BY <1>3 DEF Stage
  <2>2. task'[w].job = task[w].job
    BY <1>0, <2>1, GotoChanges DEF TypeOK, Task, InRun, InTransaction
  <2> QED BY <1>3, <2>2 DEF Stage
<1>4. CASE Report(w) \/ MarkFailedWrite(w) \/ CommitFails(w) \/ LogFails(w) \/ Crash(w)
  BY <1>0, <1>4, Values
     DEF Report, MarkFailedWrite, CommitFails, LogFails, Crash, Die, TypeOK, InRun,
         InTransaction
<1>5. CASE Timeout(w)
  BY <1>0, <1>5, Values
     DEF Timeout, Die, TypeOK, Task, InRun, InTransaction, InHandler
<1> QED BY <1>1, <1>2, <1>3, <1>4, <1>5 DEF RunStep, TaskFault

LEMMA OnePlaceStep ==
  ASSUME ExactlyOnce, Inductive, OnePlace, [Next]_vars
  PROVE  OnePlace'
<1> USE DEF TaskOf
<1>0. TypeOK
  BY DEF Inductive
<1>1. ASSUME NEW j \in Jobs, ApiStep(j) \/ Redeliver(j)
      PROVE  OnePlace'
  <2>1. task' = task
    BY <1>1 DEF ApiStep, Upload, Accept, Send, Reject, Redeliver
  <2>2. /\ \A k \in Jobs : k # j => copies'[k] = copies[k] /\ api'[k] = api[k]
        /\ \/ copies'[j] = copies[j] /\ api[j] \in {"none", "store"}
              /\ api'[j] \in {"store", "send"}
           \/ api[j] = "send" /\ api'[j] = "done" /\ copies'[j] = copies[j] + 1
    BY <1>0, <1>1
       DEF ApiStep, Upload, Accept, Send, Reject, Redeliver, TypeOK, OnePlace,
           ExactlyOnce
  <2> QED BY <2>1, <2>2 DEF OnePlace
<1>2. ASSUME NEW w \in Workers, NEW j \in Jobs, Receive(w, j)
      PROVE  OnePlace'
  <2>1. /\ task'[w].job = j
        /\ \A v \in Workers : v # w => task'[v] = task[v]
    BY <1>0, <1>2 DEF Receive, TypeOK, Idle
  <2>2. copies[j] = 1 /\ api[j] = "done"
    BY <1>0, <1>2 DEF Receive, OnePlace
  <2>3. /\ copies'[j] = 0 /\ api' = api
        /\ \A k \in Jobs : k # j => copies'[k] = copies[k]
    BY <1>0, <1>2, <2>2 DEF Receive, TypeOK
  <2>4. \A k \in Jobs, v \in Workers :
          TaskOf(v, k)' => TaskOf(v, k) \/ (v = w /\ k = j)
    BY <2>1
  <2>5. \A v \in Workers : ~TaskOf(v, j)
    BY <2>2 DEF OnePlace
  <2> QED BY <2>2, <2>3, <2>4, <2>5 DEF OnePlace
<1>3. ASSUME NEW w \in Workers, RunStep(w) \/ TaskFault(w)
      PROVE  OnePlace'
  <2>1. UNCHANGED <<copies, api>>
    BY <1>3, TaskKeepsJob
  <2>2. \A k \in Jobs, v \in Workers : TaskOf(v, k)' => TaskOf(v, k)
    BY <1>3, TaskKeepsJob, OwnTask
  <2> QED BY <2>1, <2>2 DEF OnePlace
<1>4. CASE UNCHANGED vars
  BY <1>4 DEF vars, OnePlace
<1> QED BY <1>1, <1>2, <1>3, <1>4 DEF Next

(* A task whose job has ended writes nothing and is on its way out.        *)
LEMMA RestingTask ==
  ASSUME Inductive, EndedAtRest, NEW w \in Workers, RunStep(w) \/ TaskFault(w),
         NEW j \in Jobs, row[j].status \in Ended, TaskOf(w, j)
  PROVE  /\ row' = row
         /\ task'[w].pc \in {"idle", "handle", "read"}
<1> USE DEF At
<1>0. TypeOK
  BY DEF Inductive
<1>1. /\ task[w].pc \in {"report", "handle", "read"} /\ task[w].job = j
      /\ row[j].status = "completed"
  BY DEF EndedAtRest, TaskOf
<1>2. CASE Report(w) \/ CommitFails(w) \/ LogFails(w) \/ Crash(w) \/ MarkFailedRead(w)
  BY <1>0, <1>1, <1>2, Values
     DEF Report, CommitFails, LogFails, Crash, MarkFailedRead, Die, TypeOK
<1>3. CASE Handle(w)
  BY <1>0, <1>3 DEF Handle, TypeOK
<1>4. CASE Timeout(w)
  <2>1. CASE Die(w)
    BY <1>0, <2>1, Values DEF Die, TypeOK
  <2>2. CASE ~Die(w)
    BY <1>0, <1>4, <2>2 DEF Timeout, TypeOK, Task
  <2> QED BY <2>1, <2>2
<1>5. CASE StageFails(w)
  BY <1>1, <1>5 DEF StageFails
<1> QED
  BY <1>1, <1>2, <1>3, <1>4, <1>5
     DEF RunStep, TaskFault, Load, Claim, Stage, Finish, Commit, MarkFailedWrite

(* The steps of a worker that write a row.                                 *)
LEMMA WorkerWrites ==
  ASSUME Inductive, NEW w \in Workers, RunStep(w) \/ TaskFault(w)
  PROVE  \/ row' = row
         \/ /\ task[w].job \in Jobs /\ TaskOf(w, task[w].job)
            /\ \A k \in Jobs : k # task[w].job => row'[k] = row[k]
            /\ \/ task'[w].pc = "report" /\ row'[task[w].job].status = "completed"
               \/ task'[w].pc = "idle"
<1> USE DEF At, TaskOf
<1>0. TypeOK /\ WorkersHaveJobs /\ CommitsPublish
  BY DEF Inductive, LockInv
<1>1. CASE Commit(w)
  BY <1>0, <1>1, GotoChanges
     DEF Commit, TypeOK, WorkersHaveJobs, CommitsPublish, InRun, InTransaction
<1>2. CASE MarkFailedWrite(w)
  BY <1>0, <1>2, Values DEF MarkFailedWrite, TypeOK, WorkersHaveJobs
<1>3. CASE ~Commit(w) /\ ~MarkFailedWrite(w)
  BY <1>3
     DEF RunStep, TaskFault, Load, Claim, Stage, Finish, Report, Handle,
         MarkFailedRead, StageFails, CommitFails, LogFails, Timeout, Crash, Die
<1> QED BY <1>1, <1>2, <1>3

(* No step changes the row of a job that has ended.                        *)
LEMMA EndedRowsStay ==
  ASSUME ExactlyOnce, Inductive, OnePlace, EndedAtRest, [Next]_vars,
         NEW j \in Jobs, row[j].status \in Ended
  PROVE  row'[j] = row[j]
<1>1. ASSUME NEW k \in Jobs, ApiStep(k) \/ Redeliver(k)
      PROVE  row'[j] = row[j]
  <2>1. api[k] # "done" => j # k
    BY DEF EndedAtRest
  <2> QED
    BY <1>1, <2>1
       DEF ApiStep, Upload, Accept, Send, Reject, Redeliver, Inductive, TypeOK
<1>2. ASSUME NEW w \in Workers, RunStep(w) \/ TaskFault(w)
      PROVE  row'[j] = row[j]
  <2>1. CASE TaskOf(w, j)
    BY <1>2, <2>1, RestingTask
  <2>2. CASE ~TaskOf(w, j)
    BY <1>2, <2>2, WorkerWrites
  <2> QED BY <2>1, <2>2
<1>3. CASE \E w \in Workers, k \in Jobs : Receive(w, k)
  BY <1>3 DEF Receive
<1>4. CASE UNCHANGED vars
  BY <1>4 DEF vars
<1> QED BY <1>1, <1>2, <1>3, <1>4 DEF Next

LEMMA EndedAtRestStep ==
  ASSUME ExactlyOnce, Inductive, OnePlace, EndedAtRest, [Next]_vars
  PROVE  EndedAtRest'
<1>0. TypeOK
  BY DEF Inductive
<1>1. ASSUME NEW j \in Jobs, ApiStep(j) \/ Redeliver(j)
      PROVE  EndedAtRest'
  <2>1. /\ task' = task
        /\ \A k \in Jobs : k # j => /\ row'[k] = row[k] /\ api'[k] = api[k]
                                   /\ copies'[k] = copies[k]
    BY <1>0, <1>1
       DEF ApiStep, Upload, Accept, Send, Reject, Redeliver, TypeOK
  <2>2. api[j] # "done" /\ row'[j].status \notin Ended
    BY <1>0, <1>1, Values
       DEF ApiStep, Upload, Accept, Send, Reject, Redeliver, TypeOK, OnePlace,
           ExactlyOnce, EndedAtRest, Ended
  <2> QED BY <2>1, <2>2 DEF EndedAtRest, TaskOf
<1>2. ASSUME NEW w \in Workers, NEW j \in Jobs, Receive(w, j)
      PROVE  EndedAtRest'
  <2>1. copies[j] # 0 /\ row' = row /\ api' = api
    BY <1>0, <1>2 DEF Receive, TypeOK
  <2>2. \A k \in Jobs : k # j => copies'[k] = copies[k]
    BY <1>0, <1>2 DEF Receive, TypeOK
  <2>3. task'[w].job = j /\ \A v \in Workers : v # w => task'[v] = task[v]
    BY <1>0, <1>2 DEF Receive, TypeOK, Idle
  <2>4. \A k \in Jobs, v \in Workers :
          k # j /\ TaskOf(v, k)' => TaskOf(v, k) /\ task'[v] = task[v]
    BY <2>3 DEF TaskOf
  <2> QED BY <2>1, <2>2, <2>4 DEF EndedAtRest
<1>3. ASSUME NEW w \in Workers, RunStep(w) \/ TaskFault(w)
      PROVE  EndedAtRest'
  <2>1. UNCHANGED <<copies, api>>
    BY <1>3, TaskKeepsJob
  <2>2. \A v \in Workers : v # w => task'[v] = task[v]
    BY <1>3, OwnTask
  <2>3. \A k \in Jobs, v \in Workers : TaskOf(v, k)' => TaskOf(v, k)
    BY <1>3, <2>2, TaskKeepsJob DEF TaskOf
  <2> SUFFICES ASSUME NEW j \in Jobs, row'[j].status \in Ended
               PROVE  /\ api[j] = "done" /\ copies[j] = 0
                      /\ \A v \in Workers : TaskOf(v, j)' =>
                           /\ row'[j].status = "completed"
                           /\ task'[v].pc \in {"report", "handle", "read"}
    BY <2>1 DEF EndedAtRest
  <2>4. CASE row[j].status \in Ended
    <3>1. row'[j] = row[j]
      BY <2>4, EndedRowsStay
    <3>2. TaskOf(w, j)' => task'[w].pc \in {"report", "handle", "read"}
      BY <1>3, <2>3, <2>4, RestingTask DEF TaskOf
    <3> QED BY <2>2, <2>3, <2>4, <3>1, <3>2 DEF EndedAtRest, TaskOf
  <2>5. CASE row[j].status \notin Ended
    <3>1. /\ task[w].job = j /\ TaskOf(w, j)
          /\ \/ task'[w].pc = "report" /\ row'[j].status = "completed"
             \/ task'[w].pc = "idle"
      BY <1>3, <2>5, WorkerWrites
    <3>2. /\ api[j] = "done" /\ copies[j] = 0
          /\ \A v \in Workers : TaskOf(v, j) => v = w
      BY <3>1 DEF OnePlace
    <3> QED BY <2>3, <3>1, <3>2 DEF TaskOf
  <2> QED BY <2>4, <2>5
<1>4. CASE UNCHANGED vars
  BY <1>4 DEF vars, EndedAtRest, TaskOf
<1> QED BY <1>1, <1>2, <1>3, <1>4 DEF Next

LEMMA OnceHolds == ExactlyOnce /\ Spec => []OnceInv
<1>1. Init => OnceInv
  BY Values DEF Init, OnceInv, OnePlace, EndedAtRest, TaskOf, Ended
<1>2. ExactlyOnce /\ Inductive /\ OnceInv /\ [Next]_vars => OnceInv'
  BY OnePlaceStep, EndedAtRestStep DEF OnceInv
<1> QED
  <2>1. CASE ExactlyOnce
    BY <1>1, <1>2, <2>1, InductiveHolds, PTL DEF Spec
  <2> QED BY <2>1

(* With exactly-once delivery nothing the API, a worker, a time limit or a *)
(* kill does changes a job that has ended.                                 *)
THEOREM EndedJobsAreFinal == ExactlyOnce /\ Spec => EndedIsFinal
<1>1. ExactlyOnce /\ Inductive /\ OnceInv /\ [Next]_vars =>
        [\A j \in Jobs : row[j].status \in Ended => row'[j] = row[j]]_vars
  BY EndedRowsStay DEF OnceInv
<1> QED
  <2>1. CASE ExactlyOnce
    BY <1>1, <2>1, InductiveHolds, OnceHolds, PTL DEF Spec, EndedIsFinal
  <2> QED BY <2>1
-----------------------------------------------------------------------------
(* Under any faults no queued job is lost, except with a task that died.   *)

(* Before its upload has sent a job, nobody else has it.                   *)
BeforeSend ==
  \A j \in Jobs : api[j] \in {"none", "store"} =>
    /\ copies[j] = 0 /\ \A w \in Workers : ~TaskOf(w, j)
    /\ row[j].status \notin Ended

(* A task reports only what it has committed.                              *)
ReportsEnded ==
  \A w \in Workers : At(w, "report") => row[task[w].job].status \in Ended

HistoryInv == BeforeSend /\ ReportsEnded /\ QueuedJobsAreSomewhere

(* What a worker writes is final, and it forgets a task as a whole.        *)
LEMMA WorkerEnds ==
  ASSUME Inductive, NEW w \in Workers, RunStep(w) \/ TaskFault(w)
  PROVE  /\ \A j \in Jobs : row'[j] = row[j] \/ row'[j].status \in Ended
         /\ task'[w].pc = "report" => row'[task'[w].job].status \in Ended
                                      \/ (At(w, "report") /\ UNCHANGED row)
         /\ task'[w].pc = "idle" => task'[w] = Idle
<1> USE DEF At
<1>0. TypeOK /\ WorkersHaveJobs /\ CommitsPublish
  BY DEF Inductive, LockInv
<1>1. CASE Commit(w)
  <2>1. /\ task'[w].pc = "report" /\ task'[w].job = task[w].job
        /\ task[w].job \in Jobs /\ task[w].view.status = "completed"
    BY <1>0, <1>1, GotoChanges DEF Commit, WorkersHaveJobs, CommitsPublish, InRun
  <2>2. row' = [row EXCEPT ![task[w].job] = task[w].view]
    BY <1>1 DEF Commit
  <2> QED BY <1>0, <2>1, <2>2 DEF TypeOK, Ended
<1>2. CASE MarkFailedWrite(w)
  <2>1. task[w].job \in Jobs
    BY <1>0, <1>2 DEF MarkFailedWrite, WorkersHaveJobs
  <2> DEFINE r == Failed(row[task[w].job], ErrorCode(task[w]), task[w].stage)
  <2>2. r.status = "failed"
    BY <1>0, <2>1 DEF TypeOK, Row, Failed
  <2>3. row' = [row EXCEPT ![task[w].job] = r]
    BY <1>2 DEF MarkFailedWrite
  <2>4. task'[w] = Idle
    BY <1>0, <1>2 DEF MarkFailedWrite, TypeOK
  <2> HIDE DEF r
  <2> QED BY <1>0, <2>1, <2>2, <2>3, <2>4, Values DEF TypeOK, Ended
<1>3. CASE ~Commit(w) /\ ~MarkFailedWrite(w)
  <2>1. row' = row
    BY <1>3
       DEF RunStep, TaskFault, Load, Claim, Stage, Finish, Report, Handle,
           MarkFailedRead, StageFails, CommitFails, LogFails, Timeout, Crash, Die
  <2>2. /\ task'[w].pc # "report"
        /\ task'[w].pc = "idle" => task'[w] = Idle
    <3>1. CASE task' = [task EXCEPT ![w] = Idle]
      BY <1>0, <3>1, Values DEF TypeOK
    <3>2. CASE \E pc \in {"claim", "finish", "write"} : Goto(w, pc)
      BY <1>0, <3>2, GotoChanges DEF InRun, InTransaction, InHandler
    <3>3. CASE \E err \in Raised : Raise(w, err)
      BY <1>0, <3>3, RaiseChanges
    <3>4. CASE Claim(w) \/ Finish(w) \/ Handle(w)
      BY <1>0, <3>4 DEF Claim, Finish, Handle, TypeOK, Task
    <3>5. CASE Stage(w)
      <4>1. PICK i \in 1..Len(PipelineOrder) :
              IF i = Len(PipelineOrder)
              THEN Goto(w, "finish")
              ELSE task' = [task EXCEPT ![w].view.stage = PipelineOrder[i + 1]]
        BY <3>5 DEF Stage
      <4>2. CASE i # Len(PipelineOrder)
        BY <1>0, <3>5, <4>1, <4>2 DEF Stage, TypeOK, Task
      <4> QED BY <3>2, <4>1, <4>2
    <3>6. CASE Timeout(w) /\ ~Die(w)
      BY <1>0, <3>6 DEF Timeout, TypeOK, Task
    <3> QED
      BY <1>3, <3>1, <3>2, <3>3, <3>4, <3>5, <3>6
         DEF RunStep, TaskFault, Load, Report, MarkFailedRead, StageFails,
             CommitFails, LogFails, Timeout, Crash, Die, Raised
  <2> QED BY <2>1, <2>2
<1> QED BY <1>1, <1>2, <1>3

LEMMA BeforeSendStep ==
  ASSUME Inductive, BeforeSend, [Next]_vars
  PROVE  BeforeSend'
<1> USE DEF TaskOf
<1>0. TypeOK
  BY DEF Inductive
<1>1. ASSUME NEW j \in Jobs, ApiStep(j) \/ Redeliver(j)
      PROVE  BeforeSend'
  <2>1. /\ task' = task
        /\ \A k \in Jobs : k # j => /\ row'[k] = row[k] /\ api'[k] = api[k]
                                   /\ copies'[k] = copies[k]
    BY <1>0, <1>1
       DEF ApiStep, Upload, Accept, Send, Reject, Redeliver, TypeOK
  <2>2. \/ api'[j] \notin {"none", "store"}
        \/ api[j] = "none" /\ copies'[j] = copies[j] /\ row'[j].status = "uploaded"
    BY <1>0, <1>1, Values
       DEF ApiStep, Upload, Accept, Send, Reject, Redeliver, TypeOK, BeforeSend
  <2> QED BY <2>1, <2>2 DEF BeforeSend, Ended
<1>2. ASSUME NEW w \in Workers, NEW j \in Jobs, Receive(w, j)
      PROVE  BeforeSend'
  <2>1. copies[j] # 0 /\ row' = row /\ api' = api
    BY <1>0, <1>2 DEF Receive, TypeOK
  <2>2. \A k \in Jobs : k # j => copies'[k] = copies[k]
    BY <1>0, <1>2 DEF Receive, TypeOK
  <2>3. task'[w].job = j /\ \A v \in Workers : v # w => task'[v] = task[v]
    BY <1>0, <1>2 DEF Receive, TypeOK, Idle
  <2> QED BY <2>1, <2>2, <2>3 DEF BeforeSend
<1>3. ASSUME NEW w \in Workers, RunStep(w) \/ TaskFault(w)
      PROVE  BeforeSend'
  <2>1. UNCHANGED <<copies, api>>
    BY <1>3, TaskKeepsJob
  <2>2. \A v \in Workers, j \in Jobs : TaskOf(v, j)' => TaskOf(v, j)
    BY <1>3, TaskKeepsJob, OwnTask
  <2>3. \A j \in Jobs : row'[j] = row[j] \/ TaskOf(w, j)
    BY <1>3, WorkerWrites
  <2> QED BY <2>1, <2>2, <2>3 DEF BeforeSend
<1>4. CASE UNCHANGED vars
  BY <1>4 DEF vars, BeforeSend
<1> QED BY <1>1, <1>2, <1>3, <1>4 DEF Next

LEMMA ReportsEndedStep ==
  ASSUME Inductive, BeforeSend, ReportsEnded, [Next]_vars
  PROVE  ReportsEnded'
<1> USE DEF At
<1>0. TypeOK /\ WorkersHaveJobs
  BY DEF Inductive, LockInv
<1>1. ASSUME NEW j \in Jobs, ApiStep(j) \/ Redeliver(j)
      PROVE  ReportsEnded'
  <2>1. task' = task
    BY <1>1 DEF ApiStep, Upload, Accept, Send, Reject, Redeliver
  <2>2. CASE Upload(j) \/ Accept(j)
    <3>1. /\ \A w \in Workers : ~TaskOf(w, j)
          /\ \A k \in Jobs : k # j => row'[k] = row[k]
      BY <1>0, <2>2 DEF Upload, Accept, BeforeSend, TypeOK
    <3> QED BY <1>0, <2>1, <3>1 DEF ReportsEnded, WorkersHaveJobs, TaskOf
  <2>3. CASE Reject(j)
    <3>1. /\ \A k \in Jobs : k # j => row'[k] = row[k]
          /\ row'[j].status = "failed"
      BY <1>0, <2>3 DEF Reject, Failed, TypeOK, Row
    <3> QED BY <1>0, <2>1, <3>1 DEF ReportsEnded, WorkersHaveJobs, Ended
  <2>4. CASE UNCHANGED row
    BY <2>1, <2>4 DEF ReportsEnded
  <2> QED BY <1>1, <2>2, <2>3, <2>4 DEF ApiStep, Send, Redeliver
<1>2. ASSUME NEW w \in Workers, NEW j \in Jobs, Receive(w, j)
      PROVE  ReportsEnded'
  <2>1. /\ row' = row /\ task'[w].pc = "load"
        /\ \A v \in Workers : v # w => task'[v] = task[v]
    BY <1>0, <1>2 DEF Receive, TypeOK, Idle
  <2> QED BY <2>1 DEF ReportsEnded
<1>3. ASSUME NEW w \in Workers, RunStep(w) \/ TaskFault(w)
      PROVE  ReportsEnded'
  <2>1. \A j \in Jobs : row'[j] = row[j] \/ row'[j].status \in Ended
    BY <1>3, WorkerEnds
  <2>2. \A v \in Workers : v # w => task'[v] = task[v]
    BY <1>3, OwnTask
  <2>3. task'[w].pc = "report" =>
          row'[task'[w].job].status \in Ended
    BY <1>3, WorkerEnds, TaskKeepsJob DEF ReportsEnded
  <2>4. ASSUME NEW v \in Workers, v # w, task[v].pc = "report"
        PROVE  row'[task[v].job].status \in Ended
    BY <1>0, <2>1, <2>4 DEF ReportsEnded, WorkersHaveJobs
  <2> QED BY <2>2, <2>3, <2>4 DEF ReportsEnded
<1>4. CASE UNCHANGED vars
  BY <1>4 DEF vars, ReportsEnded
<1> QED BY <1>1, <1>2, <1>3, <1>4 DEF Next

(* A queued job that loses its last place loses it with a task that dies.  *)
LEMMA SomewhereStep ==
  ASSUME Inductive, HistoryInv, [HNext]_hvars
  PROVE  QueuedJobsAreSomewhere'
<1> USE DEF HistoryInv
<1>0. TypeOK
  BY DEF Inductive
<1>d. died \subseteq died'
  BY DEF HNext, hvars
<1>1. ASSUME NEW j \in Jobs, ApiStep(j) \/ Redeliver(j)
      PROVE  QueuedJobsAreSomewhere'
  <2>1. /\ task' = task
        /\ \A k \in Jobs : k # j => /\ row'[k] = row[k] /\ api'[k] = api[k]
                                   /\ copies'[k] = copies[k]
    BY <1>0, <1>1
       DEF ApiStep, Upload, Accept, Send, Reject, Redeliver, TypeOK
  <2>2. \/ row'[j].status # "queued"
        \/ api'[j] \in {"send", "reject"}
        \/ copies'[j] > 0
    <3>1. CASE Upload(j) \/ Accept(j)
      BY <1>0, <3>1, Values DEF Upload, Accept, TypeOK
    <3>2. CASE Send(j) \/ Redeliver(j)
      BY <1>0, <3>2 DEF Send, Redeliver, TypeOK
    <3>3. CASE Reject(j)
      BY <1>0, <3>3 DEF Reject, Failed, TypeOK, Row
    <3> QED BY <1>1, <3>1, <3>2, <3>3 DEF ApiStep
  <2> QED BY <1>d, <2>1, <2>2 DEF QueuedJobsAreSomewhere, TaskOf
<1>2. ASSUME NEW w \in Workers, NEW j \in Jobs, Receive(w, j)
      PROVE  QueuedJobsAreSomewhere'
  <2>1. /\ row' = row /\ api' = api
        /\ \A k \in Jobs : k # j => copies'[k] = copies[k]
    BY <1>0, <1>2 DEF Receive, TypeOK
  <2>2. /\ task'[w].job = j /\ task'[w].pc = "load" /\ task[w].pc = "idle"
        /\ \A v \in Workers : v # w => task'[v] = task[v]
    BY <1>0, <1>2 DEF Receive, TypeOK, Idle
  <2>3. TaskOf(w, j)'
    BY <2>2 DEF TaskOf
  <2>4. \A v \in Workers, k \in Jobs : TaskOf(v, k) => TaskOf(v, k)'
    BY <2>2 DEF TaskOf
  <2> QED BY <1>d, <2>1, <2>3, <2>4 DEF QueuedJobsAreSomewhere
<1>3. ASSUME NEW w \in Workers, RunStep(w) \/ TaskFault(w), HNext
      PROVE  QueuedJobsAreSomewhere'
  <2>1. UNCHANGED <<copies, api>>
    BY <1>3, TaskKeepsJob
  <2>2. \A v \in Workers : v # w => task'[v] = task[v]
    BY <1>3, OwnTask
  <2> SUFFICES ASSUME NEW j \in Jobs, row'[j].status = "queued",
                      NEW v \in Workers, TaskOf(v, j)
               PROVE  TaskOf(v, j)' \/ j \in died'
    <3>1. \A j \in Jobs : row'[j].status = "queued" => row[j].status = "queued"
      BY <1>3, WorkerEnds DEF Ended
    <3> QED BY <1>d, <2>1, <3>1 DEF QueuedJobsAreSomewhere
  <2>3. CASE v # w \/ task'[v].pc # "idle"
    BY <1>3, <2>2, <2>3, TaskKeepsJob DEF TaskOf
  <2>4. CASE v = w /\ task'[w].pc = "idle"
    <3>1. task'[w] = Idle
      BY <1>3, <2>4, WorkerEnds
    <3>2. task[w].pc # "report"
      <4>1. row[j].status = "queued"
        BY <1>3, WorkerEnds DEF Ended
      <4> QED BY <2>4, <4>1 DEF ReportsEnded, At, TaskOf, Ended
    <3>3. DiesNow(j)
      BY <2>4, <3>1, <3>2 DEF DiesNow
    <3> QED BY <1>3, <3>3 DEF HNext
  <2> QED BY <2>3, <2>4
<1>4. CASE UNCHANGED hvars
  BY <1>4 DEF hvars, vars, QueuedJobsAreSomewhere, TaskOf
<1> QED BY <1>1, <1>2, <1>3, <1>4 DEF HNext, Next

(* Every fault.  A queued job has its handler, its message or a task,      *)
(* unless a task of it died, although the broker forgets a message as soon *)
(* as its task starts and an interrupted run leaves its row queued.        *)
THEOREM NoQueuedJobIsLost == HSpec => []QueuedJobsAreSomewhere
<1>1. HInit => Inductive /\ HistoryInv
  <2> SUFFICES ASSUME HInit PROVE Inductive /\ HistoryInv
    OBVIOUS
  <2>1. Inductive
    BY InductiveInit DEF HInit
  <2>2. HistoryInv
    BY Values
       DEF HInit, Init, HistoryInv, BeforeSend, ReportsEnded, QueuedJobsAreSomewhere,
           TaskOf, At, Ended
  <2> QED BY <2>1, <2>2
<1>2. Inductive /\ HistoryInv /\ [HNext]_hvars => (Inductive /\ HistoryInv)'
  <2> SUFFICES ASSUME Inductive, HistoryInv, [HNext]_hvars
               PROVE  (Inductive /\ HistoryInv)'
    OBVIOUS
  <2>1. [Next]_vars
    BY DEF HNext, hvars
  <2> QED
    BY <2>1, InductiveStep, BeforeSendStep, ReportsEndedStep, SomewhereStep
       DEF HistoryInv
<1>3. HistoryInv => QueuedJobsAreSomewhere
  BY DEF HistoryInv
<1> QED BY <1>1, <1>2, <1>3, PTL DEF HSpec
-----------------------------------------------------------------------------
(* With exactly-once delivery failures name their stage.                   *)

(* A lock is that of a transaction, or of one the boundary will roll back. *)
LocksHaveTasks ==
  \A w \in Workers, j \in Jobs : lock[j] = w =>
    task[w].job = j /\ task[w].pc \in InTransaction \cup {"handle"}

(* A row and its stage agree, and a message waits for a queued row.        *)
RowsAgree ==
  \A j \in Jobs :
    /\ row[j].stage = row[j].status
    /\ api[j] = "send" \/ copies[j] = 1 => row[j].status = "queued"

(* An exception and the stage that the boundary finds for it.              *)
Blames(err, stage) ==
  \/ err = "stage" /\ stage \in PipelineStages
  \/ err = "timeout" /\ stage \in PipelineStages \cup {"queued", "completed"}

TaskTells(w) ==
  LET t == task[w]
      s == row[t.job].status
  IN /\ t.pc \in {"load", "claim"} \cup InTransaction => s = "queued"
     /\ t.pc = "report" => s = "completed"
     /\ t.pc \in InHandler => s \in {"queued", "completed"}
     /\ t.pc \in {"stage", "finish"} => t.view.stage \in PipelineStages
     /\ t.pc = "commit" => t.view.stage = "completed"
     /\ t.pc = "handle" => Blames(t.err, IF lock[t.job] = w THEN t.view.stage ELSE s)
     /\ t.pc \in {"read", "write"} => Blames(t.err, t.stage)

TasksTell == \A w \in Workers : TaskTells(w)

BlameInv == LocksHaveTasks /\ RowsAgree /\ TasksTell /\ FailureNamesItsStage

(* What the steps do to a task, in the fields that tell.                   *)
LEMMA TaskChanges ==
  ASSUME Inductive, NEW w \in Workers, RunStep(w) \/ TaskFault(w)
  PROVE  LET t == task[w]  u == task'[w]  j == t.job IN
         \/ /\ u.pc = "idle" /\ (lock' = Unlocked(w) \/ UNCHANGED lock)
            /\ \/ UNCHANGED row /\ (t.pc = "report" \/ lock' = Unlocked(w))
               \/ /\ t.pc = "write" /\ UNCHANGED lock
                  /\ lock[j] = None
                  /\ row' = [row EXCEPT ![j] = Failed(@, ErrorCode(t), t.stage)]
         \/ /\ u.job = j /\ UNCHANGED <<row, lock>>
            /\ \/ t.pc = "load" /\ u.pc = "claim" /\ u.view = t.view
                    /\ row[j].status = "queued"
               \/ t.pc = "load" /\ u.pc = "handle" /\ u.err = "transition"
                    /\ row[j].status # "queued"
               \/ t.pc = "stage" /\ u.pc \in {"stage", "finish"}
                    /\ t.view.stage \in PipelineStages /\ u.view.stage \in PipelineStages
               \/ t.pc = "finish" /\ u.pc = "commit" /\ u.view.stage = "completed"
               \/ t.pc \in {"stage", "finish"} /\ u.pc = "handle" /\ u.err = "stage"
                    /\ u.view = t.view
               \/ t.pc \in InRun /\ u.pc = "handle" /\ u.err = "timeout" /\ u.view = t.view
               \/ t.pc = "read" /\ u.pc = "write" /\ u.err = t.err /\ u.stage = t.stage
                    /\ row[j].status # "completed"
         \/ /\ u.job = j /\ UNCHANGED row
            /\ t.pc = "claim" /\ u.pc = "stage" /\ lock[j] = None
            /\ lock' = [lock EXCEPT ![j] = w] /\ u.view.stage \in PipelineStages
         \/ /\ u.job = j /\ t.pc = "commit" /\ lock' = Unlocked(w)
            /\ u.pc = "report" /\ row' = [row EXCEPT ![j] = t.view]
         \/ /\ u.job = j /\ UNCHANGED row /\ lock' = Unlocked(w)
            /\ t.pc = "handle" /\ u.pc = "read" /\ u.err = t.err
            /\ u.stage = IF lock[j] = w THEN t.view.stage ELSE row[j].stage
<1> USE DEF At
<1>0. TypeOK /\ task[w] \in Task /\ task[w].view \in Row
  BY DEF Inductive, TypeOK, Task
<1>1. CASE Load(w)
  BY <1>0, <1>1, Z3T(30) DEF Load, Goto, Raise, TypeOK, Task
<1>2. CASE Claim(w)
  <2>1. /\ task'[w].job = task[w].job /\ task'[w].pc = "stage"
        /\ task'[w].view.stage = PipelineOrder[1]
    <3>1. task[w].job \in Jobs
      BY <1>2 DEF Claim, Inductive, LockInv, WorkersHaveJobs
    <3>2. row[task[w].job] \in Row
      BY <1>0, <3>1 DEF TypeOK
    <3> QED BY <1>0, <1>2, <3>2 DEF Claim, TypeOK, Task, Row
  <2> QED BY <1>2, <2>1, Values DEF Claim
<1>3. CASE Stage(w)
  <2>1. PICK i \in 1..Len(PipelineOrder) :
          /\ task[w].view.stage = PipelineOrder[i]
          /\ IF i = Len(PipelineOrder)
             THEN Goto(w, "finish")
             ELSE task' = [task EXCEPT ![w].view.stage = PipelineOrder[i + 1]]
    BY <1>3 DEF Stage
  <2>2. CASE i = Len(PipelineOrder)
    BY <1>0, <1>3, <2>1, <2>2, GotoChanges, Values DEF Stage, InRun, InTransaction
  <2>3. CASE i # Len(PipelineOrder)
    <3>1. /\ task'[w].job = task[w].job /\ task'[w].pc = "stage"
          /\ task'[w].view.stage = PipelineOrder[i + 1]
      BY <1>0, <1>3, <2>1, <2>3 DEF Stage, TypeOK, Task, Row
    <3> QED BY <1>3, <2>1, <2>3, <3>1, Values DEF Stage
  <2> QED BY <2>2, <2>3
<1>4. CASE Finish(w)
  <2>1. /\ task'[w].job = task[w].job /\ task'[w].pc = "commit"
        /\ task'[w].view.stage = "completed"
    BY <1>0, <1>4 DEF Finish, TypeOK, Task, Row
  <2> QED BY <1>4, <2>1 DEF Finish
<1>5. CASE Commit(w)
  BY <1>0, <1>5, GotoChanges DEF Commit, InRun
<1>6. CASE Report(w)
  BY <1>0, <1>6, Values DEF Report, TypeOK
<1>7. CASE Handle(w)
  BY <1>0, <1>7 DEF Handle, TypeOK, Task
<1>8. CASE Die(w)
  BY <1>0, <1>8, Values DEF Die, TypeOK
<1>9. CASE MarkFailedRead(w)
  BY <1>0, <1>8, <1>9 DEF MarkFailedRead, Goto, TypeOK, Task
<1>10. CASE MarkFailedWrite(w)
  BY <1>0, <1>10, Values DEF MarkFailedWrite, TypeOK
<1>11. CASE StageFails(w)
  BY <1>0, <1>11 DEF StageFails, Raise, TypeOK, Task
<1>12. CASE Timeout(w) /\ ~Die(w)
  <2>1. PICK raised \in {"timeout", "stage"} :
          /\ task' = [task EXCEPT ![w].pc = "handle", ![w].err = raised,
                                  ![w].late = TRUE]
          /\ raised = "timeout" \/ task[w].pc \in {"stage", "finish"}
          /\ task[w].pc \in InRun
          /\ UNCHANGED <<row, lock>>
    BY <1>12 DEF Timeout
  <2>2. /\ task'[w].job = task[w].job /\ task'[w].pc = "handle"
        /\ task'[w].err = raised /\ task'[w].view = task[w].view
    BY <1>0, <2>1 DEF TypeOK, Task
  <2> QED BY <2>1, <2>2
<1> QED
  BY <1>1, <1>2, <1>3, <1>4, <1>5, <1>6, <1>7, <1>8, <1>9, <1>10, <1>11,
     <1>12 DEF RunStep, TaskFault, CommitFails, LogFails, Crash

(* No stage has the code of the time limit.                                *)
LEMMA StageErrorIsNotTimeout ==
  ASSUME NEW s
  PROVE  StageError(s) # "WORKER_TIMEOUT"
<1>1. CASE \E e \in StageErrors : e[1] = s
  <2> PICK e \in StageErrors : e = CHOOSE x \in StageErrors : x[1] = s
    BY <1>1
  <2> QED BY <1>1 DEF StageError, StageErrors
<1>2. CASE ~ \E e \in StageErrors : e[1] = s
  BY <1>2 DEF StageError
<1> QED BY <1>1, <1>2

LEMMA BlameApi ==
  ASSUME ExactlyOnce, Inductive, OnceInv, BlameInv, NEW j \in Jobs,
         ApiStep(j) \/ Redeliver(j)
  PROVE  BlameInv'
<1>0. TypeOK /\ WorkersHaveJobs
  BY DEF Inductive, LockInv
<1>1. /\ task' = task /\ lock' = lock
      /\ \A k \in Jobs : k # j => /\ row'[k] = row[k] /\ api'[k] = api[k]
                                 /\ copies'[k] = copies[k]
  BY <1>0 DEF ApiStep, Upload, Accept, Send, Reject, Redeliver, TypeOK
<1>2. /\ row'[j].status # "failed" \/ row'[j] = row[j]
      /\ row'[j] = row[j] \/ \A w \in Workers : ~TaskOf(w, j)
      /\ row'[j].stage = row'[j].status
      /\ api'[j] = "send" \/ copies'[j] = 1 => row'[j].status = "queued"
  <2>1. CASE Upload(j)
    BY <1>0, <2>1 DEF Upload, TypeOK, OnceInv, OnePlace, NewRow
  <2>2. CASE Accept(j)
    BY <1>0, <2>2 DEF Accept, TypeOK, OnceInv, OnePlace, NewRow
  <2>3. CASE Send(j)
    BY <1>0, <2>3 DEF Send, TypeOK, ExactlyOnce, BlameInv, RowsAgree
  <2> QED
    BY <2>1, <2>2, <2>3
       DEF ApiStep, Reject, Redeliver, ExactlyOnce, OnceInv, OnePlace
<1>3. LocksHaveTasks'
  BY <1>1 DEF BlameInv, LocksHaveTasks
<1>4. RowsAgree'
  BY <1>1, <1>2 DEF BlameInv, RowsAgree
<1>5. TasksTell'
  <2> SUFFICES ASSUME NEW w \in Workers PROVE TaskTells(w)'
    BY DEF TasksTell
  <2>1. task[w].pc # "idle" => row'[task[w].job] = row[task[w].job]
    BY <1>0, <1>1, <1>2 DEF WorkersHaveJobs, TaskOf
  <2>2. TaskTells(w)
    BY DEF BlameInv, TasksTell
  <2>3. CASE task[w].pc = "idle"
    BY <1>1, <2>3 DEF TaskTells, InTransaction, InHandler
  <2>4. CASE task[w].pc # "idle"
    BY <1>1, <2>1, <2>2, <2>4 DEF TaskTells
  <2> QED BY <2>3, <2>4
<1>6. FailureNamesItsStage'
  BY <1>1, <1>2 DEF BlameInv, FailureNamesItsStage
<1> QED BY <1>3, <1>4, <1>5, <1>6 DEF BlameInv

LEMMA BlameReceive ==
  ASSUME ExactlyOnce, Inductive, OnceInv, BlameInv, NEW w \in Workers, NEW j \in Jobs,
         Receive(w, j)
  PROVE  BlameInv'
<1>0. TypeOK
  BY DEF Inductive
<1>1. UNCHANGED <<row, lock, api>>
  BY DEF Receive
<1>2. /\ task[w].pc = "idle" /\ task'[w].pc = "load" /\ task'[w].job = j
      /\ \A v \in Workers : v # w => task'[v] = task[v]
  BY <1>0 DEF Receive, TypeOK, Idle
<1>3. copies[j] = 1 /\ row[j].status = "queued"
  BY <1>0 DEF Receive, OnceInv, OnePlace, BlameInv, RowsAgree
<1>4. copies'[j] = 0 /\ \A k \in Jobs : k # j => copies'[k] = copies[k]
  BY <1>0, <1>3 DEF Receive, TypeOK
<1>5. LocksHaveTasks'
  BY <1>1, <1>2 DEF BlameInv, LocksHaveTasks, InTransaction
<1>6. RowsAgree'
  BY <1>1, <1>4, <1>3 DEF BlameInv, RowsAgree
<1>7. TasksTell'
  BY <1>1, <1>2, <1>3 DEF BlameInv, TasksTell, TaskTells, InTransaction, InHandler
<1>8. FailureNamesItsStage'
  BY <1>1 DEF BlameInv, FailureNamesItsStage
<1> QED BY <1>5, <1>6, <1>7, <1>8 DEF BlameInv

LEMMA BlameWorker ==
  ASSUME ExactlyOnce, Inductive, OnceInv, BlameInv, NEW w \in Workers,
         RunStep(w) \/ TaskFault(w)
  PROVE  BlameInv'
<1> DEFINE t == task[w]
           u == task'[w]
           j == t.job
<1>0. /\ TypeOK /\ WorkersHaveJobs /\ CommitsPublish /\ OnePlace /\ ExactlyOnce
      /\ LocksHaveTasks /\ RowsAgree /\ TasksTell /\ FailureNamesItsStage
      /\ w # None
  BY WorkerAssumption DEF Inductive, LockInv, OnceInv, BlameInv
<1>1. /\ UNCHANGED <<copies, api>> /\ t.pc # "idle" /\ j \in Jobs
      /\ \A v \in Workers : v # w => task'[v] = task[v]
  BY <1>0, TaskKeepsJob, OwnTask DEF WorkersHaveJobs
<1>2. TaskTells(w) /\ row[j].stage = row[j].status
  BY <1>0, <1>1 DEF TasksTell, RowsAgree
<1>3. ASSUME NEW v \in Workers, v # w, task[v].pc # "idle"
      PROVE  task[v].job \in Jobs /\ task[v].job # j
  BY <1>0, <1>1, <1>3 DEF OnePlace, TaskOf, WorkersHaveJobs
<1>4. api[j] = "done" /\ copies[j] # 1
  BY <1>0, <1>1 DEF OnePlace, TaskOf
<1>5. (* The row that is written.                                          *)
      /\ \A k \in Jobs : k # j => row'[k] = row[k]
      /\ \/ row'[j] = row[j]
         \/ /\ t.pc = "write" /\ row'[j].status = "failed" /\ row'[j].stage = "failed"
            /\ row'[j].error = ErrorCode(t) /\ row'[j].errorStage = t.stage
            /\ u.pc = "idle"
         \/ t.pc = "commit" /\ row'[j] = t.view /\ u.pc = "report" /\ u.job = j
  <2>1. \/ row' = row
        \/ /\ t.pc = "write" /\ u.pc = "idle"
           /\ row' = [row EXCEPT ![j] = Failed(@, ErrorCode(t), t.stage)]
        \/ t.pc = "commit" /\ row' = [row EXCEPT ![j] = t.view] /\ u.pc = "report"
           /\ u.job = j
    BY TaskChanges
  <2>2. row[j] \in Row
    BY <1>0, <1>1 DEF TypeOK
  <2> HIDE DEF t, u, j
  <2>3. row[j] \in Row => LET r == Failed(row[j], ErrorCode(t), t.stage) IN
          /\ r.status = "failed" /\ r.stage = "failed" /\ r.error = ErrorCode(t)
          /\ r.errorStage = t.stage
    BY DEF Failed, Row
  <2> QED BY <1>0, <1>1, <2>1, <2>2, <2>3 DEF TypeOK, j
<1>6. LocksHaveTasks'
  <2> SUFFICES ASSUME NEW v \in Workers, NEW k \in Jobs, lock'[k] = v
               PROVE  task'[v].job = k /\ task'[v].pc \in InTransaction \cup {"handle"}
    BY DEF LocksHaveTasks
  <2>1. CASE v # w
    <3>1. lock[k] = v
      <4>1. \/ lock' = lock \/ lock' = Unlocked(w) \/ lock' = [lock EXCEPT ![j] = w]
        BY TaskChanges
      <4> QED BY <1>0, <1>1, <2>1, <4>1, WorkerAssumption DEF Unlocked, TypeOK
    <3> QED BY <1>0, <1>1, <2>1, <3>1 DEF LocksHaveTasks
  <2>2. CASE v = w
    <3>1. lock' # Unlocked(w)
      BY <1>0, <2>2, UnlockedType
    <3>2. \/ /\ t.pc = "claim" /\ u.pc = "stage" /\ lock' = [lock EXCEPT ![j] = w]
             /\ u.job = j
          \/ /\ lock' = lock /\ u.job = j
             /\ u.pc \in InTransaction \cup {"handle"} \/ t.pc \in {"load", "read"}
          \/ lock' = lock /\ t.pc \in {"report", "write"}
      BY <3>1, TaskChanges DEF InTransaction
    <3>3. lock[k] = w => k = j /\ t.pc \in InTransaction \cup {"handle"}
      BY <1>0 DEF LocksHaveTasks
    <3> HIDE DEF t, u, j
    <3> QED BY <1>0, <2>2, <3>2, <3>3 DEF TypeOK, u, InTransaction
  <2> QED BY <2>1, <2>2
<1>7. RowsAgree'
  <2>1. row'[j].stage = row'[j].status
    <3>1. t.pc = "commit" => t.view.stage = "completed" /\ t.view.status = "completed"
      BY <1>0, <1>2 DEF TaskTells, CommitsPublish, At
    <3> QED BY <1>2, <1>5, <3>1
  <2> QED BY <1>0, <1>1, <1>4, <1>5, <2>1 DEF RowsAgree
<1>8. TasksTell'
  <2>1. ASSUME NEW v \in Workers, v # w
        PROVE  TaskTells(v)'
    <3>1. CASE task[v].pc = "idle"
      BY <1>1, <2>1, <3>1 DEF TaskTells, InTransaction, InHandler
    <3>2. CASE task[v].pc # "idle"
      <4>1. row'[task[v].job] = row[task[v].job]
        BY <1>3, <1>5, <2>1, <3>2
      <4>2. lock'[task[v].job] = v <=> lock[task[v].job] = v
        <5>1. \/ lock' = lock \/ lock' = Unlocked(w) \/ lock' = [lock EXCEPT ![j] = w]
          BY TaskChanges
        <5> QED BY <1>0, <1>3, <2>1, <3>2, <5>1, WorkerAssumption DEF Unlocked, TypeOK
      <4>3. TaskTells(v) /\ task'[v] = task[v]
        BY <1>0, <1>1, <2>1 DEF TasksTell
      <4> QED BY <4>1, <4>2, <4>3 DEF TaskTells
    <3> QED BY <3>1, <3>2
  <2>2. TaskTells(w)'
    <3>0. /\ lock[j] = w => t.pc \in InTransaction \cup {"handle"}
          /\ t.pc \in InTransaction => lock[j] = w
      BY <1>0, <1>1 DEF LocksHaveTasks, Inductive, LockInv, TransactionsHoldLocks
    <3>1. CASE u.pc = "idle"
      BY <3>1 DEF TaskTells, InTransaction, InHandler
    <3>2. CASE u.pc = "stage" /\ t.pc = "claim" /\ UNCHANGED row /\ u.job = j
               /\ u.view.stage \in PipelineStages
      BY <1>2, <3>2 DEF TaskTells, InTransaction, InHandler
    <3>3. CASE t.pc = "commit" /\ u.pc = "report" /\ u.job = j
      <4>1. row'[j].status = "completed"
        <5>1. row' = [row EXCEPT ![j] = t.view]
          BY <3>3, TaskChanges
        <5> QED BY <1>0, <1>1, <3>3, <5>1 DEF CommitsPublish, At, TypeOK
      <4> QED BY <3>3, <4>1 DEF TaskTells, InTransaction, InHandler
    <3>4. CASE /\ t.pc = "handle" /\ u.pc = "read" /\ u.job = j /\ UNCHANGED row
               /\ u.err = t.err
               /\ u.stage = IF lock[j] = w THEN t.view.stage ELSE row[j].stage
      BY <1>2, <3>4 DEF TaskTells, InTransaction, InHandler
    <3>5. CASE UNCHANGED <<row, lock>> /\ u.job = j
      <4>1. CASE t.pc = "load" /\ u.pc = "claim" /\ row[j].status = "queued"
        BY <3>5, <4>1 DEF TaskTells, InTransaction, InHandler
      <4>2. t.pc = "load" => row[j].status = "queued"
        BY <1>2 DEF TaskTells
      <4>3. CASE t.pc = "stage" /\ u.pc \in {"stage", "finish"}
                 /\ u.view.stage \in PipelineStages
        BY <1>2, <3>5, <4>3 DEF TaskTells, InTransaction, InHandler
      <4>4. CASE t.pc = "finish" /\ u.pc = "commit" /\ u.view.stage = "completed"
        BY <1>2, <3>5, <4>4 DEF TaskTells, InTransaction, InHandler
      <4>5. CASE t.pc \in {"stage", "finish"} /\ u.pc = "handle" /\ u.err = "stage"
                 /\ u.view = t.view
        BY <1>2, <3>0, <3>5, <4>5 DEF TaskTells, Blames, InTransaction, InHandler
      <4>6. CASE t.pc \in InRun /\ u.pc = "handle" /\ u.err = "timeout" /\ u.view = t.view
        BY <1>2, <3>0, <3>5, <4>6 DEF TaskTells, Blames, InRun, InTransaction, InHandler
      <4>7. CASE t.pc = "read" /\ u.pc = "write" /\ u.err = t.err /\ u.stage = t.stage
        BY <1>2, <3>5, <4>7 DEF TaskTells, InTransaction, InHandler
      <4> QED
        BY <1>0, <3>1, <3>2, <3>3, <3>4, <3>5, <4>1, <4>2, <4>3, <4>4, <4>5, <4>6,
           <4>7, TaskChanges
    <3> QED BY <1>0, <3>1, <3>2, <3>3, <3>4, <3>5, TaskChanges
  <2> QED BY <2>1, <2>2 DEF TasksTell
<1>9. FailureNamesItsStage'
  <2>1. CASE t.pc = "write" /\ row'[j].error = ErrorCode(t) /\ row'[j].errorStage = t.stage
    <3>1. Blames(t.err, t.stage)
      BY <1>2, <2>1 DEF TaskTells
    <3>2. CASE t.err = "stage"
      <4>1. ErrorCode(t) = StageError(t.stage)
        BY <3>2 DEF ErrorCode
      <4>2. StageError(t.stage) # "WORKER_TIMEOUT"
        BY StageErrorIsNotTimeout
      <4> QED
        BY <1>0, <1>5, <2>1, <3>1, <3>2, <4>1, <4>2 DEF Blames, FailureNamesItsStage
    <3>3. CASE t.err = "timeout"
      <4>1. ErrorCode(t) = "WORKER_TIMEOUT"
        BY <3>3 DEF ErrorCode
      <4> QED BY <1>0, <1>5, <2>1, <3>1, <3>3, <4>1 DEF Blames, FailureNamesItsStage
    <3> QED BY <3>1, <3>2, <3>3 DEF Blames
  <2>2. CASE row'[j] = row[j]
    BY <1>0, <1>5, <2>2 DEF FailureNamesItsStage
  <2>3. CASE t.pc = "commit" /\ row'[j] = t.view
    <3>1. t.view.status = "completed"
      BY <1>0, <2>3 DEF CommitsPublish, At
    <3> QED BY <1>0, <1>5, <2>3, <3>1 DEF FailureNamesItsStage
  <2> QED BY <1>5, <2>1, <2>2, <2>3
<1> QED BY <1>6, <1>7, <1>8, <1>9 DEF BlameInv

(* One message per job: a failed row names the stage that failed with the  *)
(* code of that stage, although the rollback has erased it from the row,   *)
(* and a time limit is called one.                                         *)
THEOREM FailuresNameTheirStage == ExactlyOnce /\ Spec => []FailureNamesItsStage
<1>1. Init => BlameInv
  <2> SUFFICES ASSUME Init PROVE BlameInv
    OBVIOUS
  <2>1. \A w \in Workers : task[w].pc = "idle"
    BY Values DEF Init
  <2>2. LocksHaveTasks
    BY WorkerAssumption DEF Init, LocksHaveTasks
  <2>3. RowsAgree /\ FailureNamesItsStage
    BY DEF Init, RowsAgree, FailureNamesItsStage, NoRow, NewRow
  <2>4. TasksTell
    BY <2>1 DEF TasksTell, TaskTells, InTransaction, InHandler
  <2> QED BY <2>2, <2>3, <2>4 DEF BlameInv
<1>2. ExactlyOnce /\ Inductive /\ OnceInv /\ BlameInv /\ [Next]_vars => BlameInv'
  <2> SUFFICES ASSUME ExactlyOnce, Inductive, OnceInv, BlameInv, [Next]_vars
               PROVE  BlameInv'
    OBVIOUS
  <2>1. CASE UNCHANGED vars
    BY <2>1
       DEF vars, BlameInv, LocksHaveTasks, RowsAgree, TasksTell, TaskTells,
           FailureNamesItsStage
  <2> QED BY <2>1, BlameApi, BlameReceive, BlameWorker DEF Next
<1>3. BlameInv => FailureNamesItsStage
  BY DEF BlameInv
<1> QED
  <2>1. CASE ExactlyOnce
    BY <1>1, <1>2, <1>3, <2>1, InductiveHolds, OnceHolds, PTL DEF Spec
  <2> QED BY <2>1
-----------------------------------------------------------------------------
(* With exactly-once delivery the workers implement the job contract.      *)

(* Which tasks have claimed their job.                                     *)
TasksClaim ==
  \A w \in Workers :
    /\ task[w].pc \in {"idle", "load", "claim"} => ~task[w].claimed
    /\ task[w].pc \in InTransaction \cup {"report"} => task[w].claimed

(* A committed row is as far as its upload, and later as its task.         *)
RowsFollowApi ==
  \A j \in Jobs :
    /\ api[j] = "none" => row[j].status = "absent"
    /\ api[j] = "store" => row[j].status = "uploaded"
    /\ api[j] = "send" => row[j].status = "queued"
    /\ api[j] = "done" => row[j].status \in {"queued", "completed", "failed"}
    /\ row[j].status \in {"absent", "uploaded", "queued"} => ~row[j].published

(* Nobody takes up a job whose task died after the claim.                  *)
CutAtRest ==
  /\ cut \subseteq Jobs
  /\ \A j \in cut : api[j] = "done" /\ copies[j] = 0 /\ \A w \in Workers : ~TaskOf(w, j)

ClaimInv == TasksClaim /\ RowsFollowApi /\ CutAtRest

(* What a step does to the claim of a task, and to its row.                *)
LEMMA ClaimChanges ==
  ASSUME Inductive, NEW w \in Workers, RunStep(w) \/ TaskFault(w)
  PROVE  \/ task'[w] = Idle
         \/ /\ task[w].pc = "claim" /\ task'[w].pc = "stage" /\ task'[w].claimed
            /\ row' = row
         \/ /\ task'[w].claimed = task[w].claimed /\ task'[w].pc \notin {"idle", "load"}
            /\ task'[w].pc = "claim" => task[w].pc = "load"
            /\ task'[w].pc \in InTransaction \cup {"report"} => task[w].pc \in InTransaction
<1> USE DEF At
<1>0. TypeOK /\ task[w] \in Task /\ task[w].view \in Row
  BY DEF Inductive, TypeOK, Task
<1>1. CASE Load(w)
  BY <1>0, <1>1 DEF Load, Goto, Raise, TypeOK, Task, InTransaction
<1>2. CASE Claim(w)
  BY <1>0, <1>2 DEF Claim, TypeOK, Task
<1>3. CASE Stage(w)
  BY <1>0, <1>3 DEF Stage, Goto, TypeOK, Task, InTransaction
<1>4. CASE Finish(w)
  BY <1>0, <1>4 DEF Finish, TypeOK, Task, InTransaction
<1>5. CASE Commit(w)
  BY <1>0, <1>5 DEF Commit, Goto, TypeOK, Task, InTransaction
<1>6. CASE Report(w) \/ MarkFailedWrite(w)
  BY <1>0, <1>6 DEF Report, MarkFailedWrite, TypeOK
<1>7. CASE Handle(w)
  BY <1>0, <1>7 DEF Handle, TypeOK, Task, InTransaction
<1>8. CASE Die(w)
  BY <1>0, <1>8 DEF Die, TypeOK
<1>9. CASE MarkFailedRead(w)
  BY <1>0, <1>8, <1>9 DEF MarkFailedRead, Goto, TypeOK, Task, InTransaction
<1>10. CASE StageFails(w)
  BY <1>0, <1>10 DEF StageFails, Raise, TypeOK, Task, InTransaction
<1>11. CASE Timeout(w) /\ ~Die(w)
  BY <1>0, <1>11 DEF Timeout, TypeOK, Task, InTransaction
<1> QED
  BY <1>1, <1>2, <1>3, <1>4, <1>5, <1>6, <1>7, <1>8, <1>9, <1>10, <1>11
     DEF RunStep, TaskFault, CommitFails, LogFails, Crash

LEMMA TasksClaimStep ==
  ASSUME Inductive, TasksClaim, [Next]_vars
  PROVE  TasksClaim'
<1>0. TypeOK /\ ~Idle.claimed
  BY DEF Inductive, Idle
<1>1. CASE UNCHANGED task
  BY <1>1 DEF TasksClaim
<1>2. ASSUME NEW j \in Jobs, ApiStep(j) \/ Redeliver(j) PROVE TasksClaim'
  BY <1>1, <1>2 DEF ApiStep, Upload, Accept, Send, Reject, Redeliver
<1>3. ASSUME NEW w \in Workers, NEW j \in Jobs, Receive(w, j) PROVE TasksClaim'
  <2>1. /\ ~task'[w].claimed /\ task'[w].pc = "load"
        /\ \A v \in Workers : v # w => task'[v] = task[v]
    BY <1>0, <1>3 DEF Receive, TypeOK, Idle
  <2> QED BY <2>1 DEF TasksClaim, InTransaction
<1>4. ASSUME NEW w \in Workers, RunStep(w) \/ TaskFault(w) PROVE TasksClaim'
  <2>1. \A v \in Workers : v # w => task'[v] = task[v]
    BY <1>4, OwnTask
  <2>2. /\ task'[w].pc \in {"idle", "load", "claim"} => ~task'[w].claimed
        /\ task'[w].pc \in InTransaction \cup {"report"} => task'[w].claimed
    BY <1>0, <1>4, ClaimChanges, Values DEF TasksClaim, InTransaction
  <2> QED BY <2>1, <2>2 DEF TasksClaim
<1> QED BY <1>1, <1>2, <1>3, <1>4 DEF Next, vars

(* The job of a task has been sent, and its row is queued until it ends.   *)
LEMMA RowOfTask ==
  ASSUME Inductive, OnceInv, RowsFollowApi, NEW w \in Workers, task[w].pc # "idle"
  PROVE  LET j == task[w].job IN
         /\ j \in Jobs /\ TaskOf(w, j) /\ api[j] = "done" /\ copies[j] = 0
         /\ task[w].pc \notin {"report", "handle", "read"} => row[j].status = "queued"
<1>1. task[w].job \in Jobs /\ TaskOf(w, task[w].job)
  BY DEF Inductive, LockInv, WorkersHaveJobs, TaskOf
<1> QED BY <1>1 DEF OnceInv, OnePlace, EndedAtRest, RowsFollowApi, Ended

(* How a step of a worker changes the committed row of its job.            *)
LEMMA RowChanges ==
  ASSUME Inductive, OnceInv, RowsFollowApi, NEW w \in Workers, RunStep(w) \/ TaskFault(w)
  PROVE  LET j == task[w].job IN
         \/ row' = row
         \/ /\ \A k \in Jobs : k # j => row'[k] = row[k]
            /\ j \in Jobs /\ row[j].status = "queued"
            /\ \/ /\ task[w].pc = "commit" /\ task'[w].pc = "report"
                  /\ row'[j].status = "completed" /\ row'[j].published
               \/ /\ task'[w] = Idle
                  /\ row'[j].status = "failed" /\ row'[j].published = row[j].published
<1> USE DEF At
<1>0. TypeOK /\ CommitsPublish
  BY DEF Inductive, LockInv
<1>1. CASE Commit(w)
  <2>1. task[w].job \in Jobs /\ row[task[w].job].status = "queued"
    BY <1>1, RowOfTask DEF Commit
  <2>2. task[w].view.status = "completed" /\ task[w].view.published
    BY <1>0, <1>1 DEF Commit, CommitsPublish
  <2>3. task[w].pc = "commit" /\ task'[w].pc = "report"
    BY <1>0, <1>1, GotoChanges DEF Commit, InRun
  <2> QED BY <1>0, <1>1, <2>1, <2>2, <2>3 DEF Commit, TypeOK
<1>2. CASE MarkFailedWrite(w)
  <2> DEFINE r == Failed(row[task[w].job], ErrorCode(task[w]), task[w].stage)
  <2>1. task[w].job \in Jobs /\ row[task[w].job].status = "queued"
    BY <1>2, RowOfTask DEF MarkFailedWrite
  <2>2. task[w].stage \in Stages /\ row[task[w].job] \in Row
    BY <1>0, <2>1 DEF TypeOK, Task
  <2>3. r.status = "failed" /\ r.published = row[task[w].job].published
    BY <2>2, ErrorCodeIsCode, FailedIsRow
  <2>4. task'[w] = Idle /\ row' = [row EXCEPT ![task[w].job] = r]
    BY <1>0, <1>2 DEF MarkFailedWrite, TypeOK
  <2> HIDE DEF r
  <2> QED BY <1>0, <2>1, <2>3, <2>4 DEF TypeOK
<1>3. CASE ~Commit(w) /\ ~MarkFailedWrite(w)
  BY <1>3
     DEF RunStep, TaskFault, Load, Claim, Stage, Finish, Report, Handle,
         MarkFailedRead, StageFails, CommitFails, LogFails, Timeout, Crash, Die
<1> QED BY <1>1, <1>2, <1>3

LEMMA RowsFollowApiStep ==
  ASSUME ExactlyOnce, Inductive, OnceInv, RowsFollowApi, [Next]_vars
  PROVE  RowsFollowApi'
<1>0. TypeOK
  BY DEF Inductive
<1>1. CASE UNCHANGED <<row, api>>
  BY <1>1 DEF RowsFollowApi
<1>2. ASSUME NEW j \in Jobs, ApiStep(j) \/ Redeliver(j) PROVE RowsFollowApi'
  <2>1. CASE Upload(j)
    BY <1>0, <2>1 DEF Upload, RowsFollowApi, TypeOK, NewRow
  <2>2. CASE Accept(j)
    BY <1>0, <2>2 DEF Accept, RowsFollowApi, TypeOK, NewRow
  <2>3. CASE Send(j)
    BY <1>0, <2>3 DEF Send, RowsFollowApi, TypeOK, ExactlyOnce
  <2>4. CASE Redeliver(j)
    BY <1>1, <2>4 DEF Redeliver
  <2>5. ~Reject(j)
    BY DEF Reject, OnceInv, OnePlace
  <2> QED BY <1>2, <2>1, <2>2, <2>3, <2>4, <2>5 DEF ApiStep
<1>3. ASSUME NEW w \in Workers, NEW j \in Jobs, Receive(w, j) PROVE RowsFollowApi'
  BY <1>1, <1>3 DEF Receive
<1>4. ASSUME NEW w \in Workers, RunStep(w) \/ TaskFault(w) PROVE RowsFollowApi'
  <2>1. api' = api /\ task[w].pc # "idle"
    BY <1>4, TaskKeepsJob
  <2>2. task[w].job \in Jobs /\ api[task[w].job] = "done"
    BY <2>1, RowOfTask
  <2> QED BY <1>4, <2>1, <2>2, RowChanges DEF RowsFollowApi
<1> QED BY <1>1, <1>2, <1>3, <1>4 DEF Next, vars
(* A worker's step leaves the claims on the jobs of the others; its own    *)
(* task is the only one that can claim its job.                            *)
LEMMA ClaimsOfWorker ==
  ASSUME Inductive, OnceInv, NEW w \in Workers, RunStep(w) \/ TaskFault(w),
         NEW j \in Jobs, j = task[w].job
  PROVE  /\ \A k \in Jobs : k # j => (Claimed(k)' <=> Claimed(k))
         /\ Claimed(j) <=> task[w].claimed
         /\ Claimed(j)' <=> (task'[w].pc # "idle" /\ task'[w].claimed)
<1>1. /\ task[w].pc # "idle"
      /\ task'[w].pc # "idle" => task'[w].job = j
      /\ \A v \in Workers : v # w => task'[v] = task[v]
  BY TaskKeepsJob, OwnTask
<1>2. \A v \in Workers : TaskOf(v, j) => v = w
  BY <1>1 DEF OnceInv, OnePlace, TaskOf
<1>3. \A v \in Workers, k \in Jobs : v # w => (TaskOf(v, k)' <=> TaskOf(v, k))
  BY <1>1 DEF TaskOf
<1>4. \A k \in Jobs : TaskOf(w, k) <=> k = j
  BY <1>1 DEF TaskOf
<1>5. \A k \in Jobs : TaskOf(w, k)' <=> (task'[w].pc # "idle" /\ k = j)
  BY <1>1 DEF TaskOf
<1>6. \A k \in Jobs : k # j => (Claimed(k)' <=> Claimed(k))
  <2> SUFFICES ASSUME NEW k \in Jobs, k # j PROVE Claimed(k)' <=> Claimed(k)
    OBVIOUS
  <2>1. \A v \in Workers : TaskOf(v, k)' /\ task'[v].claimed <=> TaskOf(v, k) /\ task[v].claimed
    BY <1>1, <1>3, <1>4, <1>5
  <2> QED BY <2>1 DEF Claimed
<1>7. Claimed(j) <=> task[w].claimed
  <2>1. TaskOf(w, j)
    BY <1>4
  <2>2. ASSUME NEW v \in Workers, TaskOf(v, j), task[v].claimed
        PROVE  task[w].claimed
    BY <1>2, <2>2
  <2> QED BY <2>1, <2>2 DEF Claimed
<1>8. Claimed(j)' <=> (task'[w].pc # "idle" /\ task'[w].claimed)
  <2>1. \A v \in Workers : TaskOf(v, j)' <=> v = w /\ task'[w].pc # "idle"
    BY <1>2, <1>3, <1>5
  <2>2. ASSUME NEW v \in Workers, TaskOf(v, j)', task'[v].claimed
        PROVE  task'[w].pc # "idle" /\ task'[w].claimed
    BY <2>1, <2>2
  <2>3. ASSUME task'[w].pc # "idle", task'[w].claimed
        PROVE  TaskOf(w, j)'
    BY <2>1, <2>3
  <2> QED BY <2>2, <2>3 DEF Claimed
<1> QED BY <1>6, <1>7, <1>8

(* No other step changes a claim.                                          *)
LEMMA ClaimsStay ==
  ASSUME Inductive, TasksClaim,
         \/ \E j \in Jobs : ApiStep(j) \/ Redeliver(j)
         \/ \E w \in Workers, j \in Jobs : Receive(w, j)
         \/ UNCHANGED vars
  PROVE  \A k \in Jobs : Claimed(k)' <=> Claimed(k)
<1>1. CASE UNCHANGED task
  BY <1>1 DEF Claimed, TaskOf
<1>2. ASSUME NEW w \in Workers, NEW j \in Jobs, Receive(w, j)
      PROVE  \A k \in Jobs : Claimed(k)' <=> Claimed(k)
  <2>1. /\ ~task[w].claimed /\ ~task'[w].claimed
        /\ \A v \in Workers : v # w => task'[v] = task[v]
    BY <1>2 DEF Receive, Inductive, TypeOK, TasksClaim, Idle
  <2> SUFFICES ASSUME NEW k \in Jobs PROVE Claimed(k)' <=> Claimed(k)
    OBVIOUS
  <2>2. \A v \in Workers : TaskOf(v, k)' /\ task'[v].claimed <=> TaskOf(v, k) /\ task[v].claimed
    BY <2>1 DEF TaskOf
  <2> QED BY <2>2 DEF Claimed
<1> QED BY <1>1, <1>2 DEF ApiStep, Upload, Accept, Send, Reject, Redeliver, vars

LEMMA CutAtRestStep ==
  ASSUME ExactlyOnce, Inductive, OnceInv, ClaimInv, [RNext]_rvars
  PROVE  CutAtRest'
<1>0. TypeOK
  BY DEF Inductive
<1>1. CASE UNCHANGED rvars
  BY <1>1 DEF rvars, vars, ClaimInv, CutAtRest, TaskOf
<1> DEFINE New == {j \in Jobs : Claimed(j) /\ ~Claimed(j)' /\ row'[j].status = "queued"}
<1>2. CASE RNext
  <2>1. cut' = cut \cup New /\ Next
    BY <1>2 DEF RNext
  <2>2. ASSUME NEW j \in Jobs, ApiStep(j) \/ Redeliver(j) PROVE CutAtRest'
    <3>1. New = {}
      BY <2>2, ClaimsStay DEF ClaimInv
    <3>2. api[j] # "done" \/ copies[j] # 0
      BY <1>0, <2>2 DEF ApiStep, Upload, Accept, Send, Reject, Redeliver, TypeOK
    <3>3. /\ task' = task
          /\ \A k \in Jobs : k # j => api'[k] = api[k] /\ copies'[k] = copies[k]
      BY <1>0, <2>2 DEF ApiStep, Upload, Accept, Send, Reject, Redeliver, TypeOK
    <3>4. j \notin cut
      BY <3>2 DEF ClaimInv, CutAtRest
    <3>5. \A k \in cut : api'[k] = api[k] /\ copies'[k] = copies[k]
      BY <3>3, <3>4 DEF ClaimInv, CutAtRest
    <3> QED BY <2>1, <3>1, <3>3, <3>5 DEF ClaimInv, CutAtRest, TaskOf
  <2>3. ASSUME NEW w \in Workers, NEW j \in Jobs, Receive(w, j) PROVE CutAtRest'
    <3>1. New = {}
      BY <2>3, ClaimsStay DEF ClaimInv
    <3>2. copies[j] # 0
      BY <1>0, <2>3 DEF Receive, TypeOK
    <3>3. /\ task'[w].job = j /\ api' = api
          /\ \A v \in Workers : v # w => task'[v] = task[v]
          /\ \A k \in Jobs : k # j => copies'[k] = copies[k]
      BY <1>0, <2>3 DEF Receive, TypeOK, Idle
    <3>4. j \notin cut
      BY <3>2 DEF ClaimInv, CutAtRest
    <3> QED BY <2>1, <3>1, <3>3, <3>4 DEF ClaimInv, CutAtRest, TaskOf
  <2>4. ASSUME NEW w \in Workers, RunStep(w) \/ TaskFault(w) PROVE CutAtRest'
    <3>1. UNCHANGED <<copies, api>> /\ task[w].pc # "idle"
      BY <2>4, TaskKeepsJob
    <3>2. /\ task[w].job \in Jobs /\ api[task[w].job] = "done" /\ copies[task[w].job] = 0
          /\ \A v \in Workers : TaskOf(v, task[w].job) => v = w
      BY <3>1, RowOfTask DEF ClaimInv, OnceInv, OnePlace
    <3>3. \A k \in Jobs, v \in Workers : TaskOf(v, k)' => TaskOf(v, k)
      BY <2>4, TaskKeepsJob, OwnTask DEF TaskOf
    <3>4. ASSUME NEW k \in New
          PROVE  /\ k = task[w].job /\ task[w].claimed
                 /\ ~(task'[w].pc # "idle" /\ task'[w].claimed)
      <4>1. k \in Jobs /\ Claimed(k) /\ ~Claimed(k)'
        OBVIOUS
      <4>2. k = task[w].job
        BY <2>4, <3>2, <4>1, ClaimsOfWorker
      <4> QED BY <2>4, <4>1, <4>2, ClaimsOfWorker
    <3>5. task[w].claimed /\ task'[w].pc # "idle" => task'[w].claimed
      BY <2>4, ClaimChanges, Values DEF ClaimInv, TasksClaim
    <3> HIDE DEF New
    <3>6. \A k \in New : \A v \in Workers : ~TaskOf(v, k)'
      BY <3>2, <3>3, <3>4, <3>5 DEF TaskOf
    <3>7. \A k \in New : k = task[w].job
      BY <3>4
    <3> QED BY <2>1, <3>1, <3>2, <3>3, <3>6, <3>7 DEF ClaimInv, CutAtRest
  <2> QED BY <2>1, <2>2, <2>3, <2>4 DEF Next
<1> QED BY <1>1, <1>2
(* What the contract sees of a job, before and after a step.               *)
LEMMA ShownIs ==
  ASSUME NEW j
  PROVE  /\ row[j].status # "queued" => Shown(j) = row[j].status
         /\ row[j].status = "queued" /\ Claimed(j) => Shown(j) = "processing"
         /\ row[j].status = "queued" /\ ~Claimed(j) =>
              Shown(j) = IF j \in cut THEN "interrupted" ELSE "queued"
         /\ row'[j].status # "queued" => Shown(j)' = row'[j].status
         /\ row'[j].status = "queued" /\ Claimed(j)' => Shown(j)' = "processing"
         /\ row'[j].status = "queued" /\ ~Claimed(j)' =>
              Shown(j)' = IF j \in cut' THEN "interrupted" ELSE "queued"
BY DEF Shown

(* A step changes what the contract sees of one job, or of none.           *)
OthersStay(j) ==
  \A k \in Jobs : k # j => Shown(k)' = Shown(k) /\ row'[k].published = row[k].published

Becomes(j, from, to) == OthersStay(j) /\ Shown(j) = from /\ Shown(j)' = to

Quiet(j) == row'[j].published = row[j].published

NothingShows ==
  \A k \in Jobs : Shown(k)' = Shown(k) /\ row'[k].published = row[k].published

Moves(j) ==
  \/ /\ Quiet(j)
     /\ \/ Becomes(j, "absent", "uploaded") \/ Becomes(j, "uploaded", "queued")
        \/ Becomes(j, "processing", "interrupted")
        \/ \E from \in {"queued", "processing"} : Becomes(j, from, "failed")
        \/ /\ Becomes(j, "queued", "processing")
           /\ \E w \in Workers : task[w].job = j /\ ~task[w].claimed
  \/ Becomes(j, "processing", "completed") /\ row'[j].published

CutNow == {j \in Jobs : Claimed(j) /\ ~Claimed(j)' /\ row'[j].status = "queued"}

LEMMA ApiMoves ==
  ASSUME ExactlyOnce, Inductive, OnceInv, ClaimInv, cut' = cut \cup CutNow,
         \/ \E j \in Jobs : ApiStep(j) \/ Redeliver(j)
         \/ \E w \in Workers, j \in Jobs : Receive(w, j)
         \/ UNCHANGED vars
  PROVE  NothingShows \/ \E j \in Jobs : Moves(j)
<1>0. TypeOK
  BY DEF Inductive
<1>1. (\A k \in Jobs : Claimed(k)' <=> Claimed(k)) /\ cut' = cut
  <2>1. \A k \in Jobs : Claimed(k)' <=> Claimed(k)
    BY ClaimsStay DEF ClaimInv
  <2> QED BY <2>1 DEF CutNow
<1>2. ASSUME NEW k \in Jobs, row'[k] = row[k]
      PROVE  Shown(k)' = Shown(k) /\ row'[k].published = row[k].published
  BY <1>1, <1>2, ShownIs
<1>3. CASE UNCHANGED row
  BY <1>2, <1>3 DEF NothingShows
<1>4. ASSUME NEW j \in Jobs, Upload(j) \/ Accept(j) PROVE Moves(j)
  <2>1. \A k \in Jobs : k # j => row'[k] = row[k]
    BY <1>0, <1>4 DEF Upload, Accept, TypeOK
  <2>2. OthersStay(j)
    BY <1>2, <2>1 DEF OthersStay
  <2>3. ~Claimed(j) /\ j \notin cut
    BY <1>4 DEF Upload, Accept, Claimed, OnceInv, OnePlace, ClaimInv, CutAtRest
  <2>4. CASE Upload(j)
    <3>1. row[j].status = "absent" /\ ~row[j].published
      BY <2>4 DEF Upload, ClaimInv, RowsFollowApi
    <3>2. row'[j].status = "uploaded" /\ ~row'[j].published
      BY <1>0, <2>4 DEF Upload, TypeOK, NewRow
    <3>3. Shown(j) = "absent" /\ Shown(j)' = "uploaded"
      BY <3>1, <3>2, ShownIs
    <3>4. row'[j].published = row[j].published
      BY <1>0, <2>4, <3>1 DEF Upload, TypeOK, NewRow, Row
    <3> QED BY <2>2, <3>3, <3>4 DEF Moves, Becomes, Quiet
  <2>5. CASE Accept(j)
    <3>1. row[j].status = "uploaded" /\ ~row[j].published
      BY <2>5 DEF Accept, ClaimInv, RowsFollowApi
    <3>2. row'[j].status = "queued" /\ ~row'[j].published
      BY <1>0, <2>5 DEF Accept, TypeOK, NewRow
    <3>3. Shown(j) = "uploaded" /\ Shown(j)' = "queued"
      BY <1>1, <2>3, <3>1, <3>2, ShownIs
    <3>4. row'[j].published = row[j].published
      BY <1>0, <2>5, <3>1 DEF Accept, TypeOK, NewRow, Row
    <3> QED BY <2>2, <3>3, <3>4 DEF Moves, Becomes, Quiet
  <2> QED BY <1>4, <2>4, <2>5
<1>5. \A j \in Jobs : ~Reject(j)
  BY DEF Reject, OnceInv, OnePlace
<1> QED BY <1>3, <1>4, <1>5 DEF ApiStep, Send, Redeliver, Receive, vars

LEMMA WorkerMoves ==
  ASSUME Inductive, OnceInv, ClaimInv, cut' = cut \cup CutNow,
         NEW w \in Workers, RunStep(w) \/ TaskFault(w)
  PROVE  NothingShows \/ \E j \in Jobs : Moves(j)
<1>1. task[w].pc # "idle"
  BY TaskKeepsJob
<1>2. PICK j \in Jobs : j = task[w].job
  BY <1>1, RowOfTask DEF ClaimInv
<1>3. /\ \A k \in Jobs : k # j => (Claimed(k)' <=> Claimed(k))
      /\ Claimed(j) <=> task[w].claimed
      /\ Claimed(j)' <=> (task'[w].pc # "idle" /\ task'[w].claimed)
  BY <1>2, ClaimsOfWorker
<1>4. j \notin cut
  BY <1>1, <1>2, RowOfTask DEF ClaimInv, CutAtRest
<1>5. \A k \in Jobs : k \in cut' <=>
        k \in cut \/ (k = j /\ Claimed(k) /\ ~Claimed(k)' /\ row'[k].status = "queued")
  BY <1>3 DEF CutNow
<1>6. \A k \in Jobs : k # j => row'[k] = row[k]
  BY <1>2, RowChanges DEF ClaimInv
<1>7. OthersStay(j)
  <2> SUFFICES ASSUME NEW k \in Jobs, k # j
               PROVE  Shown(k)' = Shown(k) /\ row'[k].published = row[k].published
    BY DEF OthersStay
  <2>1. (Claimed(k)' <=> Claimed(k)) /\ row'[k] = row[k] /\ (k \in cut' <=> k \in cut)
    BY <1>3, <1>5, <1>6
  <2> QED BY <2>1, ShownIs
<1>8. Shown(j)' = Shown(j) /\ row'[j].published = row[j].published => NothingShows
  BY <1>7 DEF OthersStay, NothingShows
<1>9. CASE row'[j] = row[j] /\ row[j].status # "queued"
  BY <1>8, <1>9, ShownIs
<1>10. CASE row'[j] = row[j] /\ row[j].status = "queued"
  <2>1. CASE Claimed(j) <=> Claimed(j)'
    BY <1>4, <1>5, <1>8, <1>10, <2>1, ShownIs
  <2>2. CASE Claimed(j) /\ ~Claimed(j)'
    <3>1. Shown(j) = "processing" /\ Shown(j)' = "interrupted"
      BY <1>5, <1>10, <2>2, ShownIs
    <3> QED BY <1>7, <1>10, <3>1 DEF Moves, Becomes, Quiet
  <2>3. CASE ~Claimed(j) /\ Claimed(j)'
    <3>1. Shown(j) = "queued" /\ Shown(j)' = "processing"
      BY <1>4, <1>10, <2>3, ShownIs
    <3> QED BY <1>2, <1>3, <1>7, <1>10, <2>3, <3>1 DEF Moves, Becomes, Quiet
  <2> QED BY <2>1, <2>2, <2>3
<1>11. CASE row[j].status = "queued" /\ row'[j].status = "completed" /\ row'[j].published
            /\ task[w].pc = "commit"
  <2>1. Claimed(j)
    BY <1>3, <1>11 DEF ClaimInv, TasksClaim, InTransaction
  <2>2. Shown(j) = "processing" /\ Shown(j)' = "completed"
    BY <1>11, <2>1, ShownIs
  <2> QED BY <1>7, <1>11, <2>2 DEF Moves, Becomes
<1>12. CASE row[j].status = "queued" /\ row'[j].status = "failed"
            /\ row'[j].published = row[j].published
  <2>1. Shown(j) \in {"queued", "processing"} /\ Shown(j)' = "failed"
    BY <1>4, <1>12, ShownIs
  <2> QED BY <1>7, <1>12, <2>1 DEF Moves, Becomes, Quiet
<1> QED BY <1>2, <1>9, <1>10, <1>11, <1>12, RowChanges DEF ClaimInv

(* A worker that takes up a job was not running one.                       *)
LEMMA RoomForOne ==
  ASSUME Inductive, OnceInv, ClaimInv, IsFiniteSet(Workers),
         NEW w \in Workers, ~task[w].claimed
  PROVE  Cardinality({k \in Jobs : Shown(k) = "processing"}) < Cardinality(Workers)
<1> DEFINE S == {k \in Jobs : Shown(k) = "processing"}
           f == [k \in S |-> CHOOSE v \in Workers : TaskOf(v, k) /\ task[v].claimed]
<1>1. ASSUME NEW k \in S PROVE f[k] \in Workers \ {w} /\ TaskOf(f[k], k)
  <2>1. row[k].status # "processing"
    <3>1. api[k] \in {"none", "store", "send", "done"}
      BY DEF Inductive, TypeOK, OnceInv, OnePlace
    <3> QED BY <3>1 DEF ClaimInv, RowsFollowApi
  <2>2. Claimed(k)
    BY <2>1, ShownIs
  <2>3. PICK v \in Workers : v = f[k] /\ TaskOf(v, k) /\ task[v].claimed
    BY <2>2 DEF Claimed
  <2> QED BY <2>3
<1>2. f \in Injection(S, Workers \ {w})
  <2>1. f \in [S -> Workers \ {w}]
    BY <1>1
  <2>2. ASSUME NEW k \in S, NEW l \in S, f[k] = f[l] PROVE k = l
    BY <1>1, <2>2 DEF TaskOf
  <2> HIDE DEF f
  <2> QED BY <2>1, <2>2 DEF Injection, IsInjective
<1>3. /\ IsFiniteSet(Workers \ {w})
      /\ Cardinality(Workers \ {w}) = Cardinality(Workers) - 1
  BY FS_RemoveElement
<1>4. Cardinality(S) <= Cardinality(Workers \ {w})
  BY <1>2, <1>3, FS_Injection, Zenon
<1>5. Cardinality(Workers) \in Nat /\ Cardinality(S) \in Nat
  BY <1>2, <1>3, FS_Injection, FS_CardinalityType
<1> QED BY <1>3, <1>4, <1>5
LEMMA StepMoves ==
  ASSUME ExactlyOnce, Inductive, OnceInv, ClaimInv, [RNext]_rvars
  PROVE  NothingShows \/ \E j \in Jobs : Moves(j)
<1>1. CASE UNCHANGED rvars
  BY <1>1 DEF rvars, vars, NothingShows, Shown, Claimed, TaskOf
<1>2. CASE RNext
  <2>1. Next /\ cut' = cut \cup CutNow
    BY <1>2 DEF RNext, CutNow
  <2> QED BY <2>1, ApiMoves, WorkerMoves DEF Next
<1> QED BY <1>1, <1>2

RefinementInv == Inductive /\ OnceInv /\ ClaimInv

LEMMA RefinementInvariant ==
  ASSUME ExactlyOnce
  PROVE  RSpec => []RefinementInv
<1>1. RInit => RefinementInv
  <2> SUFFICES ASSUME RInit PROVE RefinementInv
    OBVIOUS
  <2>1. Inductive
    BY InductiveInit DEF RInit
  <2>2. OnceInv
    BY DEF RInit, Init, OnceInv, OnePlace, EndedAtRest, TaskOf, NoRow, NewRow, Idle, Ended
  <2>3. TasksClaim /\ CutAtRest
    BY DEF RInit, Init, TasksClaim, CutAtRest, Idle, InTransaction
  <2>4. RowsFollowApi
    BY DEF RInit, Init, RowsFollowApi, NoRow, NewRow
  <2> QED BY <2>1, <2>2, <2>3, <2>4 DEF RefinementInv, ClaimInv
<1>2. RefinementInv /\ [RNext]_rvars => RefinementInv'
  <2> SUFFICES ASSUME RefinementInv, [RNext]_rvars PROVE RefinementInv'
    OBVIOUS
  <2>1. [Next]_vars
    BY DEF RNext, rvars
  <2>2. Inductive'
    BY <2>1, InductiveStep DEF RefinementInv
  <2>3. OnceInv'
    BY <2>1, OnePlaceStep, EndedAtRestStep DEF RefinementInv, OnceInv
  <2>4. ClaimInv'
    BY <2>1, TasksClaimStep, RowsFollowApiStep, CutAtRestStep DEF RefinementInv, ClaimInv
  <2> QED BY <2>2, <2>3, <2>4 DEF RefinementInv
<1> QED BY <1>1, <1>2, PTL DEF RSpec

(* Workers that get every message once do what the job contract promises,  *)
(* whichever stage, commit, log, time limit or process fails: the rows and *)
(* the claims of the tasks, together, move as the contract lets a job      *)
(* move, with no more jobs running than there are workers.                 *)
THEOREM WorkersImplementContract ==
  ASSUME ExactlyOnce, IsFiniteSet(Workers)
  PROVE  RSpec => ImplementsContract
<1> DEFINE status == [j \in Jobs |-> Shown(j)]
           published == {j \in Jobs : row[j].published}
<1>1. RInit => Contract!ContractInit
  <2> SUFFICES ASSUME RInit PROVE Contract!ContractInit
    OBVIOUS
  <2>1. NoRow.status = "absent" /\ NoRow.published = FALSE
    BY DEF NoRow, NewRow
  <2>2. \A j \in Jobs : row[j] = NoRow
    BY DEF RInit, Init
  <2>3. \A j \in Jobs : Shown(j) = "absent"
    BY <2>1, <2>2, ShownIs
  <2> QED BY <2>1, <2>2, <2>3 DEF Contract!ContractInit
<1>2. ASSUME RefinementInv, [RNext]_rvars
      PROVE  [Contract!ContractNext]_Contract!contractVars
  <2>1. CASE NothingShows
    BY <2>1 DEF NothingShows, Contract!contractVars
  <2>2. ASSUME NEW j \in Jobs, Moves(j) PROVE Contract!ContractNext
    <3>1. OthersStay(j)
      BY <2>2 DEF Moves, Becomes
    <3>2. ASSUME NEW from, NEW to, Becomes(j, from, to)
          PROVE  status[j] = from /\ status' = [status EXCEPT ![j] = to]
      BY <3>2 DEF Becomes, OthersStay
    <3>3. Quiet(j) => published' = published
      BY <3>1 DEF Quiet, OthersStay
    <3>4. row'[j].published => published' = published \cup {j}
      BY <3>1 DEF OthersStay
    <3>5. CASE Quiet(j) /\ Becomes(j, "absent", "uploaded")
      BY <3>2, <3>3, <3>5 DEF Contract!Upload, Contract!Become, Contract!ContractNext
    <3>6. CASE Quiet(j) /\ Becomes(j, "uploaded", "queued")
      BY <3>2, <3>3, <3>6 DEF Contract!Accept, Contract!Become, Contract!ContractNext
    <3>7. CASE Quiet(j) /\ Becomes(j, "processing", "interrupted")
      BY <3>2, <3>3, <3>7 DEF Contract!Interrupt, Contract!Become, Contract!ContractNext
    <3>8. ASSUME Quiet(j), NEW from \in {"queued", "processing"}, Becomes(j, from, "failed")
          PROVE  Contract!ContractNext
      <4>1. Contract!Fail(j)
        BY <3>2, <3>3, <3>8 DEF Contract!Fail, Contract!Become
      <4> QED BY <4>1 DEF Contract!ContractNext
    <3>9. ASSUME Quiet(j), Becomes(j, "queued", "processing"), NEW w \in Workers, ~task[w].claimed
          PROVE  Contract!ContractNext
      <4> DEFINE S == {k \in Jobs : Shown(k) = "processing"}
      <4>1. Cardinality(S) < Cardinality(Workers)
        BY <1>2, <3>9, RoomForOne DEF RefinementInv
      <4>2. {k \in Jobs : status[k] = "processing"} = S
        OBVIOUS
      <4>3. Contract!Cardinality(S) = Cardinality(S)
        BY DEF Cardinality, Contract!Cardinality
      <4>4. Contract!Run(j)
        BY <3>2, <3>3, <3>9, <4>1, <4>2, <4>3 DEF Contract!Run, Contract!Become
      <4> QED BY <4>4 DEF Contract!ContractNext
    <3>10. CASE Becomes(j, "processing", "completed") /\ row'[j].published
      BY <3>2, <3>4, <3>10 DEF Contract!Complete, Contract!Become, Contract!ContractNext
    <3> QED BY <2>2, <3>5, <3>6, <3>7, <3>8, <3>9, <3>10 DEF Moves
  <2> QED BY <1>2, <2>1, <2>2, StepMoves DEF RefinementInv
<1> QED BY <1>1, <1>2, RefinementInvariant, PTL DEF RSpec, ImplementsContract, Contract!ContractSpec
-----------------------------------------------------------------------------
(* Under any faults a job is published once.  Where a run is tells what it *)
(* has stored; its transaction inserts exactly what is missing, since the  *)
(* row lock keeps every other run of the job out until it ends.            *)

WrittenBefore ==
  [preprocessing        |-> {},
   source_separation    |-> {"normalized_audio"},
   stem_validation      |-> {"normalized_audio", "drums_stem"},
   drum_transcription   |-> {"normalized_audio", "drums_stem"},
   midi_post_processing |-> Artifacts \ {"processed_midi", "musicxml", "pdf"},
   notation_generation  |-> Artifacts \ {"musicxml", "pdf"},
   pdf_export           |-> Artifacts \ {"pdf"}]

RunIsStored(w) ==
  /\ At(w, "stage") =>
       /\ task[w].view.stage \in PipelineStages
       /\ WrittenBefore[task[w].view.stage] \cap Followed \subseteq whole[task[w].job]
  /\ task[w].pc \in {"finish", "commit"} => Followed \subseteq whole[task[w].job]

InsertsWhatIsMissing(w) ==
  At(w, "commit") => inserted[w] = MissingKinds(task[w].job)

RowsTogether ==
  \A j \in Jobs : \E n \in {0, 1} :
    /\ \A k \in Kinds : rows[j][k] = n
    /\ row[j].published => n = 1
    /\ n = 1 /\ j \notin cutLater => Followed \subseteq whole[j]

ArtifactInv ==
  /\ ATypeOK
  /\ RowsTogether
  /\ \A w \in Workers : RunIsStored(w) /\ InsertsWhatIsMissing(w)

LEMMA ArtifactStepIsStep == [ANext]_allVars => [HNext]_hvars /\ [Next]_vars
BY DEF ANext, HNext, Next, ARunStep, ATaskFault, RunStep, TaskFault, allVars, hvars, vars

(* The steps after which the task is not in its transaction.               *)
LEMMA LeavesTransaction ==
  ASSUME Inductive, NEW w \in Workers,
         \/ Load(w) \/ Commit(w) \/ Report(w) \/ Handle(w)
         \/ MarkFailedRead(w) \/ MarkFailedWrite(w) \/ TaskFault(w)
         \/ \E j \in Jobs : Receive(w, j)
  PROVE  task'[w].pc \notin InTransaction
<1>0. TypeOK
  BY DEF Inductive
<1>1. CASE Load(w) \/ Commit(w) \/ MarkFailedRead(w) \/ StageFails(w)
  BY <1>0, <1>1, GotoChanges, RaiseChanges, DieChanges, Values
     DEF Load, Commit, MarkFailedRead, Die, StageFails, LogsOnError,
         InRun, InTransaction, InHandler, Raised
<1>2. CASE Handle(w)
  BY <1>0, <1>2 DEF Handle, TypeOK, Task, InTransaction
<1>3. CASE Report(w) \/ MarkFailedWrite(w) \/ CommitFails(w) \/ LogFails(w) \/ Crash(w)
  BY <1>0, <1>3, Values
     DEF Report, MarkFailedWrite, CommitFails, LogFails, Crash, Die, TypeOK, InTransaction
<1>4. CASE Timeout(w)
  BY <1>0, <1>4, Values
     DEF Timeout, Die, TypeOK, Task, InRun, InTransaction, InHandler
<1>5. CASE \E j \in Jobs : Receive(w, j)
  <2>1. PICK j \in Jobs : Receive(w, j)
    BY <1>5
  <2>2. task'[w].pc = "load"
    BY <1>0, <2>1 DEF Receive, TypeOK, Idle
  <2> QED BY <2>2 DEF InTransaction
<1> QED BY <1>1, <1>2, <1>3, <1>4, <1>5 DEF TaskFault

(* What the steps that stay in the transaction make of the task.           *)
LEMMA ClaimedTask ==
  ASSUME TypeOK, WorkersHaveJobs, NEW w \in Workers, Claim(w)
  PROVE  /\ task'[w].pc = "stage" /\ task'[w].job = task[w].job
         /\ task'[w].view.stage = "preprocessing"
<1> DEFINE r == [row[task[w].job] EXCEPT !.status = "processing", !.stage = PipelineOrder[1]]
<1>1. row[task[w].job] \in Row
  BY DEF TypeOK, WorkersHaveJobs, Claim, At
<1>2. r.stage = "preprocessing"
  BY <1>1 DEF Row, PipelineOrder
<1>3. task'[w].pc = "stage" /\ task'[w].job = task[w].job /\ task'[w].view = r
  <2> HIDE DEF r
  <2>1. task' = [task EXCEPT ![w].pc = "stage", ![w].claimed = TRUE, ![w].view = r]
    BY DEF Claim, r
  <2> QED BY <2>1 DEF TypeOK, Task
<1> QED BY <1>2, <1>3

LEMMA FinishedTask ==
  ASSUME TypeOK, NEW w \in Workers, Finish(w)
  PROVE  task'[w].pc = "commit" /\ task'[w].job = task[w].job
BY DEF Finish, TypeOK, Task

LEMMA StagedTask ==
  ASSUME TypeOK, NEW w \in Workers, Stage(w)
  PROVE  \E i \in 1..7 :
           /\ task[w].view.stage = PipelineOrder[i]
           /\ task'[w].job = task[w].job
           /\ \/ i = 7 /\ task'[w].pc = "finish"
              \/ /\ i \in 1..6 /\ task'[w].pc = "stage"
                 /\ task'[w].view.stage = PipelineOrder[i + 1]
<1>1. PICK i \in 1..7 :
        /\ task[w].view.stage = PipelineOrder[i]
        /\ IF i = 7 THEN Goto(w, "finish")
                    ELSE task' = [task EXCEPT ![w].view.stage = PipelineOrder[i + 1]]
  BY Values DEF Stage
<1>2. CASE i = 7
  BY <1>1, <1>2, GotoChanges DEF InRun, InTransaction
<1>3. CASE i # 7
  <2>1. task[w] \in Task /\ task[w].view \in Row /\ task[w].pc = "stage"
    BY DEF TypeOK, Task, Stage, At
  <2>2. /\ task'[w].job = task[w].job /\ task'[w].pc = "stage"
        /\ task'[w].view.stage = PipelineOrder[i + 1]
    BY <1>1, <1>3, <2>1 DEF TypeOK, Task, Row
  <2> QED BY <1>1, <1>3, <2>2
<1> QED BY <1>2, <1>3

(* After its last file a stage has stored what the next one finds.         *)
LEMMA StageStores ==
  ASSUME NEW w \in Workers, At(w, "stage"), NEW i \in 1..7,
         task[w].view.stage = PipelineOrder[i]
  PROVE  IF i = 7 THEN Artifacts \subseteq WrittenBefore[PipelineOrder[i]] \cup Output(w)
         ELSE WrittenBefore[PipelineOrder[i + 1]]
                \subseteq WrittenBefore[PipelineOrder[i]] \cup Output(w)
<1>0. Writes(w) = StageWrites[PipelineOrder[i]]
  BY DEF Writes, At
<1>1. CASE i = 1
  BY <1>0, <1>1 DEF Output, StageWrites, PipelineOrder, WrittenBefore, Artifacts
<1>2. CASE i = 2
  BY <1>0, <1>2 DEF Output, StageWrites, PipelineOrder, WrittenBefore, Artifacts
<1>3. CASE i = 3
  BY <1>0, <1>3 DEF Output, StageWrites, PipelineOrder, WrittenBefore, Artifacts
<1>4. CASE i = 4
  BY <1>0, <1>4 DEF Output, StageWrites, PipelineOrder, WrittenBefore, Artifacts
<1>5. CASE i = 5
  BY <1>0, <1>5 DEF Output, StageWrites, PipelineOrder, WrittenBefore, Artifacts
<1>6. CASE i = 6
  BY <1>0, <1>6 DEF Output, StageWrites, PipelineOrder, WrittenBefore, Artifacts
<1>7. CASE i = 7
  BY <1>0, <1>7 DEF Output, StageWrites, PipelineOrder, WrittenBefore, Artifacts
<1> QED BY <1>1, <1>2, <1>3, <1>4, <1>5, <1>6, <1>7

LEMMA StoreAllStores ==
  ASSUME ATypeOK, NEW w \in Workers, task[w].job \in Jobs, StoreAll(w)
  PROVE  /\ whole' \in [Jobs -> SUBSET Followed]
         /\ \A j \in Jobs : whole[j] \subseteq whole'[j]
         /\ \A j \in Jobs : j # task[w].job => whole'[j] = whole[j]
         /\ Followed \cap Output(w) \subseteq whole'[task[w].job]
BY DEF ATypeOK, StoreAll, Stored, Output

(* A run that is cut off touches the files of its own job only, and loses  *)
(* none if it was writing none.                                            *)
LEMMA CutOffStores ==
  ASSUME ATypeOK, NEW w \in Workers, task[w].job \in Jobs, CutOff(w)
  PROVE  /\ whole' \in [Jobs -> SUBSET Followed] /\ cutLater' \subseteq Jobs /\ cutLater \subseteq cutLater'
         /\ \A j \in Jobs : j # task[w].job => whole'[j] = whole[j]
         /\ Output(w) = {} => whole[task[w].job] \subseteq whole'[task[w].job]
         /\ Output(w) # {} /\ MissingKinds(task[w].job) # Kinds => task[w].job \in cutLater'
<1> DEFINE j == task[w].job
<1>1. cutLater' \subseteq Jobs /\ cutLater \subseteq cutLater'
  BY DEF ATypeOK, CutOff
<1>2. Output(w) # {} /\ MissingKinds(j) # Kinds => j \in cutLater'
  BY DEF CutOff
<1>3. CASE StoreAll(w)
  BY <1>1, <1>2, <1>3, StoreAllStores
<1>4. CASE ~StoreAll(w)
  <2>1. PICK n \in 1..Len(Writes(w)) : \E torn \in {{}, Writes(w)[n]} :
          whole' = [whole EXCEPT ![j] = Stored(w, n - 1) \ torn]
    BY <1>4 DEF CutOff
  <2>2. PICK torn \in {{}, Writes(w)[n]} :
          whole' = [whole EXCEPT ![j] = Stored(w, n - 1) \ torn]
    BY <2>1
  <2>3. torn \subseteq Output(w)
    BY <2>1, <2>2 DEF Output
  <2>4. whole[j] \subseteq Stored(w, n - 1) /\ Stored(w, n - 1) \subseteq Followed
    BY DEF Stored, ATypeOK
  <2> HIDE DEF j
  <2>5. whole'[j] = Stored(w, n - 1) \ torn
    BY <2>2 DEF ATypeOK, j
  <2> QED BY <1>1, <1>2, <2>2, <2>3, <2>4, <2>5 DEF ATypeOK, j
<1> QED BY <1>3, <1>4


(* Only the commit of a run marks a row as published.                      *)
LEMMA PublishedMark ==
  ASSUME Inductive, NEW j \in Jobs, row'[j].published,
         \/ \E k \in Jobs : ApiStep(k) \/ Redeliver(k)
         \/ \E w \in Workers :
              \/ Load(w) \/ Claim(w) \/ Stage(w) \/ Finish(w) \/ Report(w) \/ Handle(w)
              \/ MarkFailedRead(w) \/ MarkFailedWrite(w) \/ TaskFault(w)
              \/ \E k \in Jobs : Receive(w, k)
  PROVE  row[j].published
<1>0. TypeOK /\ WorkersHaveJobs
  BY DEF Inductive, LockInv
<1>1. ASSUME NEW k \in Jobs, Upload(k) \/ Accept(k) \/ Reject(k)
      PROVE  row[j].published
  <2>1. CASE Upload(k) \/ Accept(k)
    BY <1>0, <2>1 DEF Upload, Accept, TypeOK, NewRow
  <2>2. CASE Reject(k)
    <3>1. row[k] \in Row
      BY <1>0 DEF TypeOK
    <3>2. Failed(row[k], "QUEUE_ENQUEUE_FAILED", "queued").published = row[k].published
      BY <3>1 DEF Failed, Row
    <3> QED BY <1>0, <2>2, <3>2 DEF Reject, TypeOK
  <2> QED BY <1>1, <2>1, <2>2
<1>2. ASSUME NEW w \in Workers, MarkFailedWrite(w)
      PROVE  row[j].published
  <2>1. task[w].job \in Jobs
    BY <1>0, <1>2 DEF MarkFailedWrite, At, WorkersHaveJobs
  <2>2. row[task[w].job] \in Row
    BY <1>0, <2>1 DEF TypeOK
  <2>3. Failed(row[task[w].job], ErrorCode(task[w]), task[w].stage).published
          = row[task[w].job].published
    BY <2>2 DEF Failed, Row
  <2> QED BY <1>0, <1>2, <2>3 DEF MarkFailedWrite, TypeOK
<1>3. CASE row' = row
  BY <1>3
<1> QED
  BY <1>1, <1>2, <1>3
     DEF ApiStep, Send, Redeliver, Receive, TaskFault,
         Load, Claim, Stage, Finish, Report, Handle, MarkFailedRead, StageFails,
         CommitFails, LogFails, Timeout, Crash, Die

(* A step that inserts no row and loses no file of a job with rows, unless *)
(* it says so.                                                             *)
LEMMA RowsTogetherKept ==
  ASSUME RowsTogether, rows' = rows, NEW j \in Jobs,
         row'[j].published => row[j].published,
         \/ whole[j] \subseteq whole'[j] /\ cutLater \subseteq cutLater'
         \/ MissingKinds(j) # Kinds => j \in cutLater'
  PROVE  \E n \in {0, 1} :
           /\ \A k \in Kinds : rows'[j][k] = n
           /\ row'[j].published => n = 1
           /\ n = 1 /\ j \notin cutLater' => Followed \subseteq whole'[j]
<1>1. PICK n \in {0, 1} :
        /\ \A k \in Kinds : rows[j][k] = n
        /\ row[j].published => n = 1
        /\ n = 1 /\ j \notin cutLater => Followed \subseteq whole[j]
  BY DEF RowsTogether
<1>2. n = 1 => MissingKinds(j) # Kinds
  BY <1>1 DEF MissingKinds, Kinds
<1> QED BY <1>1, <1>2

LEMMA RunsAreStored ==
  ASSUME Inductive, ArtifactInv, NEW w \in Workers, ARunStep(w) \/ ATaskFault(w)
  PROVE  \A v \in Workers : RunIsStored(v)' /\ InsertsWhatIsMissing(v)'
<1> USE DEF At
<1>0. /\ TypeOK /\ WorkersHaveJobs /\ TransactionsHoldLocks /\ ATypeOK
      /\ FollowedAssumption
  BY FollowedAssumption DEF Inductive, LockInv, ArtifactInv
<1>1. RunStep(w) \/ TaskFault(w)
  BY DEF ARunStep, ATaskFault, RunStep, TaskFault
<1>2. task[w].pc # "idle" /\ task[w].job \in Jobs
  BY <1>0, <1>1, TaskKeepsJob DEF WorkersHaveJobs
<1>3. ASSUME NEW v \in Workers, v # w
      PROVE  RunIsStored(v)' /\ InsertsWhatIsMissing(v)'
  <2>1. task'[v] = task[v]
    BY <1>1, <1>3, OwnTask
  <2> SUFFICES ASSUME task[v].pc \in InTransaction
               PROVE  RunIsStored(v)' /\ InsertsWhatIsMissing(v)'
    BY <2>1 DEF RunIsStored, InsertsWhatIsMissing, InTransaction
  <2>2. lock[task[v].job] = v /\ lock'[task[v].job] = v /\ task[v].job \in Jobs
    BY <1>0, <1>1, <1>3, LocksOfOthers DEF TransactionsHoldLocks, WorkersHaveJobs, InTransaction
  <2>3. CASE task[w].pc \in InTransaction
    <3>1. task[w].job # task[v].job
      BY <1>0, <1>3, <2>2, <2>3 DEF TransactionsHoldLocks
    <3>2. whole'[task[v].job] = whole[task[v].job] /\ rows'[task[v].job] = rows[task[v].job]
      BY <1>0, <1>2, <2>2, <3>1, StoreAllStores, CutOffStores
         DEF ARunStep, ATaskFault, WriteMetadata, CommitRows, Elsewhere, ATypeOK
    <3>3. inserted'[v] = inserted[v]
      BY <1>0, <1>3, <2>2
         DEF ARunStep, ATaskFault, WriteMetadata, CommitRows, Elsewhere, OfOpenTransactions, ATypeOK
    <3> QED
      BY <2>1, <3>2, <3>3
         DEF ArtifactInv, RunIsStored, InsertsWhatIsMissing, MissingKinds
  <2>4. CASE task[w].pc \notin InTransaction
    <3>1. Output(w) = {} /\ ~Stage(w) /\ ~Finish(w) /\ ~Commit(w)
      BY <2>4 DEF Output, Writes, InTransaction, Stage, Finish, Commit
    <3>2. whole[task[v].job] \subseteq whole'[task[v].job] /\ rows' = rows
      BY <1>0, <1>2, <2>2, <3>1, CutOffStores DEF ARunStep, ATaskFault, Elsewhere
    <3>3. inserted'[v] = inserted[v]
      BY <1>0, <2>2, <3>1 DEF ARunStep, ATaskFault, Elsewhere, OfOpenTransactions
    <3> QED
      BY <2>1, <3>2, <3>3
         DEF ArtifactInv, RunIsStored, InsertsWhatIsMissing, MissingKinds
  <2> QED BY <2>3, <2>4
<1>5. ASSUME \/ Load(w) \/ Commit(w) \/ Report(w) \/ Handle(w)
             \/ MarkFailedRead(w) \/ MarkFailedWrite(w) \/ TaskFault(w)
      PROVE  task'[w].pc \notin InTransaction
  BY <1>5, LeavesTransaction
<1>4. RunIsStored(w)' /\ InsertsWhatIsMissing(w)'
  <2>1. CASE Claim(w)
    <3>1. /\ task'[w].pc = "stage" /\ task'[w].view.stage = "preprocessing"
      BY <1>0, <2>1, ClaimedTask
    <3> QED
      BY <3>1 DEF RunIsStored, InsertsWhatIsMissing, WrittenBefore, PipelineStages, PipelineOrder
  <2>2. CASE Stage(w)
    <3>1. PICK i \in 1..7 :
           /\ task[w].view.stage = PipelineOrder[i]
           /\ task'[w].job = task[w].job
           /\ \/ i = 7 /\ task'[w].pc = "finish"
              \/ /\ i \in 1..6 /\ task'[w].pc = "stage"
                 /\ task'[w].view.stage = PipelineOrder[i + 1]
      BY <1>0, <2>2, StagedTask
    <3>2. StoreAll(w) /\ task[w].pc = "stage"
      BY <1>5, <2>2, <3>1 DEF ARunStep, ATaskFault, TaskFault, Stage, Finish, Claim, InTransaction
    <3>3. /\ whole[task[w].job] \subseteq whole'[task[w].job]
          /\ Followed \cap Output(w) \subseteq whole'[task[w].job]
      BY <1>0, <1>2, <3>2, StoreAllStores
    <3>4. WrittenBefore[task[w].view.stage] \cap Followed \subseteq whole[task[w].job]
      BY <3>2 DEF ArtifactInv, RunIsStored
    <3>5. CASE i = 7
      <4>1. Artifacts \subseteq WrittenBefore[PipelineOrder[i]] \cup Output(w)
        BY <3>1, <3>2, <3>5, StageStores
      <4>2. Followed \subseteq whole'[task[w].job]
        BY <1>0, <3>1, <3>3, <3>4, <4>1 DEF FollowedAssumption
      <4> QED BY <3>1, <3>5, <4>2 DEF RunIsStored, InsertsWhatIsMissing
    <3>6. CASE i \in 1..6
      <4>1. WrittenBefore[PipelineOrder[i + 1]] \subseteq WrittenBefore[PipelineOrder[i]] \cup Output(w)
        BY <3>1, <3>2, <3>6, StageStores
      <4>2. PipelineOrder[i + 1] \in PipelineStages
        BY <3>6, Values
      <4>3. WrittenBefore[PipelineOrder[i + 1]] \cap Followed \subseteq whole'[task[w].job]
        BY <3>1, <3>3, <3>4, <4>1
      <4> QED BY <3>1, <3>6, <4>2, <4>3 DEF RunIsStored, InsertsWhatIsMissing
    <3> QED BY <3>5, <3>6
  <2>3. CASE Finish(w)
    <3>1. task'[w].pc = "commit" /\ task'[w].job = task[w].job
      BY <1>0, <2>3, FinishedTask
    <3>2. WriteMetadata(w) /\ task[w].pc = "finish"
      BY <1>5, <2>3, <3>1 DEF ARunStep, ATaskFault, TaskFault, Stage, Finish, Claim, InTransaction
    <3>3. whole[task[w].job] \subseteq whole'[task[w].job] /\ rows' = rows
      BY <1>0, <1>2, <3>2, StoreAllStores DEF WriteMetadata
    <3>4. inserted'[w] = MissingKinds(task[w].job)
      BY <1>0, <3>2 DEF WriteMetadata, ATypeOK
    <3>5. Followed \subseteq whole[task[w].job]
      BY <3>2 DEF ArtifactInv, RunIsStored
    <3> QED BY <3>1, <3>3, <3>4, <3>5 DEF RunIsStored, InsertsWhatIsMissing, MissingKinds
  <2>4. CASE ~Claim(w) /\ ~Stage(w) /\ ~Finish(w)
    BY <1>1, <1>5, <2>4 DEF RunStep, RunIsStored, InsertsWhatIsMissing, InTransaction
  <2> QED BY <2>1, <2>2, <2>3, <2>4
<1> QED BY <1>3, <1>4

LEMMA CommitKeepsTogether ==
  ASSUME Inductive, ArtifactInv, NEW w \in Workers, Commit(w), CommitRows(w)
  PROVE  RowsTogether'
<1> USE DEF At
<1>0. /\ TypeOK /\ WorkersHaveJobs /\ ATypeOK /\ task[w].pc = "commit"
      /\ RowsTogether /\ task[w].job \in Jobs
  BY DEF Inductive, LockInv, ArtifactInv, Commit, WorkersHaveJobs
<1> DEFINE j == task[w].job
<1>1. inserted[w] = MissingKinds(j) /\ Followed \subseteq whole[j]
  BY <1>0 DEF ArtifactInv, InsertsWhatIsMissing, RunIsStored
<1>2. PICK n \in {0, 1} : \A k \in Kinds : rows[j][k] = n
  BY <1>0 DEF RowsTogether
<1>3. \A k \in Kinds : rows'[j][k] = 1
  BY <1>0, <1>1, <1>2 DEF CommitRows, MissingKinds, ATypeOK
<1>4. whole' = whole /\ cutLater' = cutLater
  BY DEF CommitRows
<1>5. \A i \in Jobs : i # j => row'[i] = row[i] /\ rows'[i] = rows[i]
  BY <1>0 DEF Commit, CommitRows, TypeOK, ATypeOK
<1> QED
  <2> SUFFICES ASSUME NEW i \in Jobs
               PROVE  \E m \in {0, 1} :
                        /\ \A k \in Kinds : rows'[i][k] = m
                        /\ row'[i].published => m = 1
                        /\ m = 1 /\ i \notin cutLater' => Followed \subseteq whole'[i]
    BY DEF RowsTogether
  <2>1. CASE i = j
    <3> WITNESS 1 \in {0, 1}
    <3> QED BY <1>1, <1>3, <1>4, <2>1
  <2>2. CASE i # j
    BY <1>0, <1>4, <1>5, <2>2 DEF RowsTogether
  <2> QED BY <2>1, <2>2

LEMMA ArtifactInvStep ==
  ASSUME Inductive, ArtifactInv, [ANext]_allVars
  PROVE  ArtifactInv'
<1>0. /\ TypeOK /\ WorkersHaveJobs /\ TransactionsHoldLocks /\ ATypeOK /\ RowsTogether
      /\ \A w \in Workers : RunIsStored(w) /\ InsertsWhatIsMissing(w)
  BY DEF Inductive, LockInv, ArtifactInv
<1>1. ASSUME Elsewhere, NEW w \in Workers, task'[w] = task[w],
             task[w].pc \in InTransaction => lock'[task[w].job] = w
      PROVE  RunIsStored(w)' /\ InsertsWhatIsMissing(w)'
  <2>1. whole' = whole /\ rows' = rows
    BY <1>1 DEF Elsewhere
  <2>2. At(w, "commit") => inserted'[w] = inserted[w]
    BY <1>0, <1>1 DEF Elsewhere, OfOpenTransactions, At, InTransaction, WorkersHaveJobs
  <2> QED
    BY <1>0, <1>1, <2>1, <2>2 DEF RunIsStored, InsertsWhatIsMissing, MissingKinds, At
<1>2. ASSUME Elsewhere
      PROVE  ATypeOK'
  BY <1>0, <1>2 DEF Elsewhere, OfOpenTransactions, ATypeOK
<1>3. ASSUME NEW j \in Jobs, ApiStep(j) \/ Redeliver(j), Elsewhere
      PROVE  ArtifactInv'
  <2>1. task' = task /\ lock' = lock
    BY <1>3 DEF ApiStep, Upload, Accept, Send, Reject, Redeliver
  <2>2. \A w \in Workers : RunIsStored(w)' /\ InsertsWhatIsMissing(w)'
    BY <1>0, <1>1, <1>3, <2>1 DEF TransactionsHoldLocks
  <2>3. \A i \in Jobs : row'[i].published => row[i].published
    BY <1>3, PublishedMark
  <2>4. RowsTogether'
    BY <1>0, <1>3, <2>3, RowsTogetherKept DEF RowsTogether, Elsewhere
  <2> QED BY <1>2, <1>3, <2>2, <2>4 DEF ArtifactInv
<1>4. ASSUME NEW w \in Workers, NEW j \in Jobs, Receive(w, j), Elsewhere
      PROVE  ArtifactInv'
  <2>1. lock' = lock /\ \A v \in Workers : v # w => task'[v] = task[v]
    BY <1>4, OwnTask DEF Receive
  <2>2. task'[w].pc \notin InTransaction
    BY <1>4, LeavesTransaction
  <2>3. \A v \in Workers : RunIsStored(v)' /\ InsertsWhatIsMissing(v)'
    <3>1. ASSUME NEW v \in Workers, v # w
          PROVE  RunIsStored(v)' /\ InsertsWhatIsMissing(v)'
      BY <1>0, <1>1, <1>4, <2>1, <3>1 DEF TransactionsHoldLocks
    <3> QED BY <2>2, <3>1 DEF RunIsStored, InsertsWhatIsMissing, At, InTransaction
  <2>4. \A i \in Jobs : row'[i].published => row[i].published
    BY <1>4, PublishedMark
  <2>5. RowsTogether'
    BY <1>0, <1>4, <2>4, RowsTogetherKept DEF RowsTogether, Elsewhere
  <2> QED BY <1>2, <1>4, <2>3, <2>5 DEF ArtifactInv
<1>5. ASSUME NEW w \in Workers, ARunStep(w) \/ ATaskFault(w)
      PROVE  ArtifactInv'
  <2>0. task[w].job \in Jobs
    BY <1>0, <1>5, TaskKeepsJob
       DEF WorkersHaveJobs, ARunStep, ATaskFault, RunStep, TaskFault
  <2>1. \A v \in Workers : RunIsStored(v)' /\ InsertsWhatIsMissing(v)'
    BY <1>5, RunsAreStored
  <2>2. ATypeOK'
    <3>1. CASE CommitRows(w)
      <4> DEFINE f == [k \in Kinds |-> IF k \in inserted[w] THEN rows[task[w].job][k] + 1
                                      ELSE rows[task[w].job][k]]
      <4>2. f \in [Kinds -> Nat]
        BY <1>0, <2>0 DEF ATypeOK
      <4>3. rows' = [rows EXCEPT ![task[w].job] = f]
        BY <3>1 DEF CommitRows
      <4> HIDE DEF f
      <4>1. rows' \in [Jobs -> [Kinds -> Nat]]
        BY <1>0, <4>2, <4>3 DEF ATypeOK
      <4> QED BY <1>0, <3>1, <4>1 DEF CommitRows, OfOpenTransactions, ATypeOK
    <3>2. CASE WriteMetadata(w)
      <4>1. MissingKinds(task[w].job) \subseteq Kinds
        BY DEF MissingKinds
      <4> QED BY <1>0, <2>0, <3>2, <4>1, StoreAllStores DEF WriteMetadata, ATypeOK
    <3>3. CASE StoreAll(w) /\ UNCHANGED <<rows, inserted, cutLater>>
      BY <1>0, <2>0, <3>3, StoreAllStores DEF ATypeOK
    <3>4. CASE CutOff(w) /\ inserted' = OfOpenTransactions /\ UNCHANGED rows
      BY <1>0, <2>0, <3>4, CutOffStores DEF ATypeOK, OfOpenTransactions
    <3> QED BY <1>2, <1>5, <3>1, <3>2, <3>3, <3>4 DEF ARunStep, ATaskFault
  <2>3. RowsTogether'
    <3>1. CASE Commit(w) /\ CommitRows(w)
      BY <3>1, CommitKeepsTogether
    <3>2. CASE ~(Commit(w) /\ CommitRows(w))
      <4>1. \A i \in Jobs : row'[i].published => row[i].published
        BY <1>5, <3>2, PublishedMark DEF ARunStep, ATaskFault, TaskFault
      <4>2. rows' = rows
        BY <1>5, <3>2 DEF ARunStep, ATaskFault, WriteMetadata, Elsewhere
      <4>3. \A i \in Jobs : \/ whole[i] \subseteq whole'[i] /\ cutLater \subseteq cutLater'
                            \/ MissingKinds(i) # Kinds => i \in cutLater'
        BY <1>0, <1>5, <2>0, <3>2, StoreAllStores, CutOffStores
           DEF ARunStep, ATaskFault, WriteMetadata, Elsewhere
      <4> QED BY <1>0, <4>1, <4>2, <4>3, RowsTogetherKept DEF RowsTogether
    <3> QED BY <3>1, <3>2
  <2> QED BY <2>1, <2>2, <2>3 DEF ArtifactInv
<1>6. CASE UNCHANGED allVars
  BY <1>0, <1>6
     DEF allVars, avars, hvars, vars, ArtifactInv, ATypeOK, RowsTogether, RunIsStored,
         InsertsWhatIsMissing, MissingKinds, At
<1> QED BY <1>3, <1>4, <1>5, <1>6 DEF ANext

LEMMA ArtifactInvHolds == ASpec => [](Inductive /\ CompletedIsPublished /\ ArtifactInv)
<1>1. AInit => Inductive /\ CompletedIsPublished /\ ArtifactInv
  BY InductiveInit, Values
     DEF AInit, HInit, Init, CompletedIsPublished, ArtifactInv, ATypeOK, RowsTogether,
         RunIsStored, InsertsWhatIsMissing, At, NoRow, NewRow
<1>2. Inductive /\ CompletedIsPublished /\ ArtifactInv /\ [ANext]_allVars
        => (Inductive /\ CompletedIsPublished /\ ArtifactInv)'
  BY ArtifactStepIsStep, InductiveStep, PublicationStep, ArtifactInvStep
<1> QED BY <1>1, <1>2, PTL DEF ASpec

(* Under any faults, for any set of followed artifacts: a job has at most  *)
(* one drum track and one export of each type, a completed job has them,   *)
(* and what they name is stored whole unless a repeated run was cut off.   *)
THEOREM JobsArePublishedOnce == ASpec => []PublishedOnce
<1>1. CompletedIsPublished /\ ArtifactInv => PublishedOnce
  <2> SUFFICES ASSUME CompletedIsPublished, ArtifactInv, NEW j \in Jobs, NEW k \in Kinds
               PROVE  /\ rows[j][k] \in {0, 1}
                      /\ row[j].status = "completed" =>
                           /\ rows[j][k] = 1
                           /\ j \notin cutLater => Named[k] \cap Followed \subseteq whole[j]
    BY DEF PublishedOnce
  <2> QED BY DEF ArtifactInv, RowsTogether, CompletedIsPublished
<1> QED BY <1>1, ArtifactInvHolds, PTL

RowsAreOfEnded ==
  \A j \in Jobs : MissingKinds(j) # Kinds => row[j].status \in Ended

LEMMA NotWrittenAgainStep ==
  ASSUME ExactlyOnce, Inductive, OnceInv, ArtifactInv, RowsAreOfEnded, cutLater = {},
         [ANext]_allVars
  PROVE  RowsAreOfEnded' /\ cutLater' = {}
<1>0. /\ TypeOK /\ WorkersHaveJobs /\ CommitsPublish /\ ATypeOK /\ OnePlace /\ EndedAtRest
      /\ [Next]_vars
  BY ArtifactStepIsStep DEF Inductive, LockInv, ArtifactInv, OnceInv
<1>1. \A j \in Jobs : row[j].status \in Ended => row'[j] = row[j]
  BY <1>0, EndedRowsStay
<1>2. ASSUME rows' = rows
      PROVE  RowsAreOfEnded'
  BY <1>1, <1>2 DEF RowsAreOfEnded, MissingKinds
<1>3. ASSUME NEW w \in Workers, Commit(w), CommitRows(w)
      PROVE  RowsAreOfEnded' /\ cutLater' = {}
  <2>1. task[w].job \in Jobs /\ row'[task[w].job].status \in Ended
    BY <1>0, <1>3 DEF Commit, At, TypeOK, WorkersHaveJobs, CommitsPublish, Ended
  <2>2. \A j \in Jobs : j # task[w].job => rows'[j] = rows[j]
    BY <1>0, <1>3 DEF CommitRows, ATypeOK
  <2> QED BY <1>1, <1>3, <2>1, <2>2 DEF RowsAreOfEnded, MissingKinds, CommitRows
<1>4. ASSUME NEW w \in Workers, StageFails(w) \/ Timeout(w) \/ Crash(w), CutOff(w)
      PROVE  cutLater' = {}
  <2>1. CASE task[w].pc \in {"stage", "finish"}
    <3>1. task[w].job \in Jobs /\ TaskOf(w, task[w].job)
      BY <1>0, <2>1 DEF WorkersHaveJobs, TaskOf
    <3>2. MissingKinds(task[w].job) = Kinds
      BY <1>0, <2>1, <3>1 DEF EndedAtRest, RowsAreOfEnded
    <3> QED BY <1>4, <3>2 DEF CutOff
  <2>2. CASE task[w].pc \notin {"stage", "finish"}
    <3>1. Output(w) = {}
      BY <2>2 DEF Output, Writes, At
    <3> QED BY <1>4, <3>1 DEF CutOff
  <2> QED BY <2>1, <2>2
<1>5. CASE UNCHANGED allVars
  BY <1>2, <1>5 DEF allVars, avars
<1> QED
  BY <1>2, <1>3, <1>4, <1>5
     DEF ANext, ARunStep, ATaskFault, WriteMetadata, Elsewhere

(* With exactly-once delivery no run is cut off over published files: what *)
(* a completed job's rows name is whole from then on.                      *)
THEOREM PublishedFilesStayWhole == ExactlyOnce /\ ASpec => [](cutLater = {})
<1>1. AInit => Init /\ RowsAreOfEnded /\ cutLater = {}
  BY DEF AInit, HInit, RowsAreOfEnded, MissingKinds
<1>2. [ANext]_allVars => [Next]_vars
  BY ArtifactStepIsStep
<1>3. ASpec => Spec
  BY <1>1, <1>2, PTL DEF ASpec, Spec
<1>4. ExactlyOnce /\ Inductive /\ OnceInv /\ ArtifactInv /\ RowsAreOfEnded /\ cutLater = {}
        /\ [ANext]_allVars => (RowsAreOfEnded /\ cutLater = {})'
  BY NotWrittenAgainStep
<1> QED
  <2>1. CASE ExactlyOnce
    BY <1>1, <1>3, <1>4, <2>1, ArtifactInvHolds, OnceHolds, PTL DEF ASpec
  <2> QED BY <2>1
=============================================================================
