----------------------- MODULE JobLifecycleInvariant ------------------------
(***************************************************************************)
(* Why the safety properties of JobLifecycle hold under every fault: a     *)
(* job is a token that moves from its handler to one place in one queue,   *)
(* from there to one worker and never back.  The conjunction SafetyInv is  *)
(* inductive (proved in JobLifecycleProofs).                               *)
(***************************************************************************)
EXTENDS JobLifecycle

Status(j) == row[j].status

Untaken(j) ==
  \A s \in Servers :
    j \notin Elements(queue[s]) /\ worker[s].job # j /\ j \notin found[s]

(* What a handler has done for its job so far, and that it still has it.   *)
RequestInv ==
  \A j \in Jobs : LET pc == request[j].pc IN
    /\ pc = "none" <=> Status(j) = "absent"
    /\ pc \in {"none", "store", "accept"} => source[j] = NoJob
    /\ pc = "none" => files[j] = {}
    /\ pc = "store" => Status(j) = "uploaded" /\ files[j] = {}
    /\ pc = "accept" => Status(j) = "uploaded" /\ files[j] = {"original"}
    /\ pc = "enqueue" => Status(j) = "queued"
    /\ pc = "reject" => Status(j) \in {"uploaded", "queued"}
    /\ pc # "done" => Untaken(j)

(* Queued jobs are in one place of one queue and no worker has them.       *)
QueueInv ==
  \A s, t \in Servers :
    /\ \A j \in Elements(queue[s]) : Status(j) = "queued"
    /\ \A i \in DOMAIN queue[s], k \in DOMAIN queue[t] :
         queue[s][i] = queue[t][k] => s = t /\ i = k
    /\ worker[t].job \notin Elements(queue[s])

(* The retries of an upload work from its file; all but the last of a      *)
(* chain of retries have ended.                                            *)
RetryInv ==
  \A j \in Jobs :
    /\ source[j] = NoJob => audio[j] = j
    /\ source[j] # NoJob =>
         /\ Status(source[j]) \in Terminal
         /\ audio[j] = audio[source[j]]
    /\ audio[j] # j => Status(audio[j]) \in Terminal
    /\ audio[audio[j]] = audio[j]

(* A truncated original belongs to an upload that failed or will.          *)
TruncatedInv ==
  \A j \in Jobs : "truncated" \in files[j] =>
    /\ Status(j) \in {"uploaded", "failed"}
    /\ request[j].pc \in {"reject", "done"}
    /\ Untaken(j)

AudioStored(j) ==
  \/ "original" \in files[audio[j]]
  \/ /\ "truncated" \in files[audio[j]]
     /\ source[j] # NoJob /\ Status(audio[j]) = "failed"

(* What a worker has done for its job so far, which no other worker has.   *)
WorkerInv ==
  \A s \in Servers : LET j == worker[s].job
                         pc == worker[s].pc IN
    /\ \A t \in Servers : worker[t].job = j => s = t \/ j = NoJob
    /\ pc # "idle" => AudioStored(j)
    /\ pc = "start" => Status(j) = "queued"
    /\ pc \in {"launch", "running", "exited", "storing", "publish"} =>
         Status(j) \in {"processing"} \cup Terminal
    /\ pc = "failing" => Status(j) \in {"queued", "processing"} \cup Terminal
    /\ pc \in {"storing", "publish"} => "log" \in files[j]
    /\ pc = "publish" => Artifacts \subseteq files[j]

(* The jobs recovery is about to interrupt have started.                   *)
FoundInv ==
  \A s \in Servers : \A j \in found[s] :
    AudioStored(j) /\ Status(j) \in {"processing"} \cup Terminal

SafetyInv ==
  /\ RequestInv /\ QueueInv /\ RetryInv /\ TruncatedInv /\ WorkerInv
  /\ FoundInv /\ AudioBeforeQueue /\ PublishedWhole
=============================================================================
