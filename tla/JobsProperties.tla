--------------------------- MODULE JobsProperties ---------------------------
(***************************************************************************)
(* What the JobManager of module Jobs must keep true, and what its clients *)
(* may conclude from its answers.                                          *)
(***************************************************************************)
EXTENDS Jobs

Active(j) == launch[j] # "none"
Launches == {j \in Job : Active(j)}
Live(j) == proc[j] \in {"alive", "orphan"}
Acked(j) == {call[c].ack : c \in {c \in Cancel : call[c].job = j
                                              /\ call[c].step = "acked"}}

(* Never more children of this generation than policy.maxConcurrent run at *)
(* once, and the counter that drain() consults is the number of launches.  *)
ConcurrencyBound ==
  /\ running = Cardinality(Launches)
  /\ running <= MaxConcurrent

(* Every queued job is somewhere: waiting in the queue, being launched, or *)
(* still being admitted. None is left for a scheduler that forgot it.      *)
QueuedIsScheduled ==
  Up => \A j \in Job : state[j] = "queued" =>
          Contains(queue, j) \/ Active(j) \/ admission.job = j

(* No slot stays idle while a job waits: every path that frees a slot or   *)
(* fills the queue drains it.                                              *)
NoIdleSlot ==
  Up /\ ~Closing /\ running < MaxConcurrent => queue = <<>>

(* One identity spawns at most one child, over resubmissions, cancels and  *)
(* restarts of the daemon.                                                 *)
SpawnedAtMostOnce == \A j \in Job : spawns[j] <= 1

(* A child never exists without a record that survives a crash.            *)
SpawnIsRecorded == \A j \in Job : spawns[j] > 0 => disk[j] # None

(* A crash at any point leaves no invented outcome: while the child of a   *)
(* job lives, its record is not one of the four outcomes.                  *)
NoInventedOutcome ==
  \A j \in Job : Live(j) /\ disk[j] # None => disk[j].state \notin Outcome

(* A client told that its cancellation was accepted never sees that job    *)
(* succeed, in this generation or after a restart.                         *)
AckedCancelNeverSucceeds ==
  \A j \in Job :
    Acked(j) \cap {"queued", "running", "cancelled"} # {} =>
      "succeeded" \notin {state[j], announced[j]}

(* Once close() has returned, no child of this manager lives, every job it *)
(* holds is terminal and the last event of each told its terminal state.   *)
ClosedIsQuiet ==
  close.step = "closed" => \A j \in Job :
    /\ ~Live(j) \/ state[j] = "unknown"
    /\ state[j] \in Terminal \cup {"absent"}
    /\ announced[j] \in {state[j], "none"}

(* No child is spawned once a cancellation of its job has been accepted or *)
(* once the manager is closing, however the calls interleave with launch.  *)
NoSpawnAfterStop ==
  [][\A j \in Job : spawns'[j] > spawns[j] =>
        ~Closing /\ Acked(j) \subseteq {"queued"} /\ cancelId[j] = None]_vars

(* An announced terminal state stands for the rest of the generation.      *)
AnnouncedIsFinal ==
  [][\A j \in Job : announced[j] \in Terminal /\ state[j] = announced[j] =>
        state'[j] \in {state[j], "absent"}]_vars

(* What the cancel caller was told is on disk for as long as the daemon    *)
(* holds the job: the identity of an accepted cancellation is not lost.    *)
AckedCancelIsDurable ==
  \A j \in Job : Up /\ Acked(j) # {} /\ cancelId[j] # None =>
                   disk[j] # None /\ disk[j].id # None

(* Every admitted job ends: the run timeout bounds a child that never      *)
(* exits, and no wait of launch() is on something that cannot happen. Two  *)
(* failures may leave it without an end, the save of a withdrawal (it is   *)
(* then queued and in no queue) and the one that close() rejects with.     *)
EveryJobEnds ==
  \A j \in Job :
    state[j] = "queued" ~>
      \/ state[j] \in Terminal \cup {"absent"}
      \/ close.step = "failed"
      \/ \E c \in Cancel : call[c].step = "refused" /\ call[c].job = j

(* A graceful shutdown interrupts the admitted work: once close() has      *)
(* ended, by returning or by rejecting, each job it leaves unfinished has  *)
(* been told to stop.                                                      *)
ShutdownInterrupts ==
  close.step \in {"closed", "failed"} =>
    \A j \in Nonterminal : intent[j] # "none"

(* close() returns, or the process is gone first: nothing it waits for     *)
(* waits for it, whatever submissions, cancel callers and launches it      *)
(* meets. It rejects only if the record of a launching job is not written. *)
CloseCompletes == Closing ~> close.step \in {"closed", "failed", "open"}

-----------------------------------------------------------------------------
(* Why ConcurrencyBound holds. The counter follows the set of launches only *)
(* if no job is launched twice, so the queue never repeats a job nor holds *)
(* one that is being launched or has left the map; and that rests on who   *)
(* may still hold a job across an await: the submission being persisted,   *)
(* the cancel callers, the persists in flight and close().                 *)

AdmissionInv ==
  /\ admission.step # "idle" => admission.job \in Job /\ Up
  /\ admission.step \in {"checking", "removing"} => state[admission.job] = "absent"
  /\ admission.step = "saving" =>
       /\ state[admission.job] \notin {"absent", "running"}
       /\ launch[admission.job] = "none"
       /\ ~Recording(admission.job)
       /\ admission.job \notin Range(queue)

QueueInv ==
  /\ \A j \in Range(queue) : state[j] # "absent" /\ launch[j] = "none"
  /\ IsInjective(queue)

LaunchInv ==
  \A j \in Job : IF Active(j) THEN state[j] # "absent" ELSE save[j] = NoSave

CallInv ==
  /\ \A c \in Cancel :
       /\ call[c].step \in {"withdraw", "detached", "record"} => call[c].job \in Job
       /\ call[c].step = "record" => state[call[c].job] # "absent"
       /\ call[c].step = "withdraw" =>
            /\ state[call[c].job] = "cancelled"
            /\ launch[call[c].job] = "none"
            /\ call[c].slot > 0 /\ admission.step = "saving" =>
                 admission.job # call[c].job
  /\ \A c, d \in Cancel :
       /\ call[c].step \in {"withdraw", "record"}
       /\ call[d].step \in {"withdraw", "record"}
       /\ call[c].job = call[d].job
       => c = d

CloseInv ==
  /\ close.step \notin {"open", "admission"} => admission.step = "idle"
  /\ close.step \notin {"open", "admission", "cancels"} =>
       \A c \in Cancel : call[c].step \notin {"withdraw", "record"}
  /\ close.step \in {"saving", "publish", "republish"} =>
       close.job \in Job /\ state[close.job] # "absent"

SaveInv ==
  /\ \A p \in Savers : save[p].phase # "idle" => save[p].job \in Job
  /\ \A j \in Job : save[j].phase # "idle" => save[j].job = j
  /\ \A c \in Cancel : save[c].phase = "begun" =>
       call[c].step = "record" /\ save[c].job = call[c].job
  /\ save["submit"].phase # "idle" =>
       admission.step = "saving" /\ save["submit"].job = admission.job
  /\ save["close"].phase # "idle" =>
       /\ close.step \in {"saving", "publish", "republish"}
       /\ save["close"].job = close.job

(* In every state each handler that waits holds a job of the map, and the  *)
(* queue holds each waiting job once.                                      *)
HolderInv ==
  AdmissionInv /\ QueueInv /\ LaunchInv /\ CallInv /\ CloseInv /\ SaveInv

(* The inductive invariant of the scheduler.                               *)
SchedulerInv == TypeOK /\ HolderInv /\ ConcurrencyBound
=============================================================================
