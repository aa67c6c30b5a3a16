-------------------------------- MODULE Jobs --------------------------------
(***************************************************************************)
(* The JobManager of the box daemon (src/src/daemon/jobs.ts): admission,   *)
(* the FIFO queue, launch, the child process and its escalation, cancel,   *)
(* graceful close, and the load that follows a restart.                    *)
(*                                                                         *)
(* The manager is single-threaded: a step here is the code between two     *)
(* awaits. Every persist() of a state.json is three steps (the snapshot,   *)
(* the rename, the return), since nothing orders the persists of one job.  *)
(*                                                                         *)
(* Bounds: MaxBoots daemon generations, one use of each cancel identity.   *)
(* History pruning needs 256 terminal jobs or 24 hours and job output is   *)
(* not followed, so neither is a step here.                                *)
(***************************************************************************)
EXTENDS Naturals, FiniteSets, SequencesExt

CONSTANTS
  Job,            \* client-chosen job identities, each with one fingerprint
  Cancel,         \* client-chosen cancel operation identities
  None,           \* no job, no identity, no record
  MaxConcurrent,  \* policy.maxConcurrent
  MaxQueued,      \* policy.maxQueued
  MaxBoots,       \* bound on daemon generations
  FailingSaves,   \* which callers of persist() may see it reject
  HoldsPipe       \* jobs whose descendants may hold captured output open

Savers == Job \cup Cancel \cup {"submit", "close"}
SaveKinds == {"submit", "start", "terminal", "withdraw", "record", "close", "load"}

ASSUME ConstantsAssumption ==
  /\ IsFiniteSet(Job)
  /\ Job \cap Cancel = {}
  /\ None \notin Savers
  /\ {"submit", "close"} \cap (Job \cup Cancel) = {}
  /\ MaxConcurrent \in Nat \ {0}
  /\ MaxQueued \in Nat
  /\ MaxBoots \in Nat \ {0}
  /\ FailingSaves \subseteq SaveKinds
  /\ HoldsPipe \subseteq Job

VARIABLES
  daemon,     \* the host: "loading", "up" or "down"
  boots,      \* generations started so far
  state,      \* job.state, or "absent" when the jobs map lacks the job
  intent,     \* job.terminalIntent
  cancelId,   \* job.cancelOperationId
  queue,      \* the FIFO of job identities
  running,    \* the count of launches in progress
  launch,     \* where launch(job) stands, "none" outside it
  proc,       \* the child: alive, its leader gone but a pipe held, or closed
  timer,      \* the run timeout is armed
  escalating, \* job.escalation is set
  spawns,     \* children ever spawned under this identity
  admission,  \* the submission that holds the admission chain
  call,       \* the cancel callers
  close,      \* where close() stands
  save,       \* the persists in flight
  disk,       \* state.json of each job
  announced   \* the last lifecycle event of each job in this generation

hostVars  == <<daemon, boots>>
jobVars   == <<state, intent, cancelId>>
queueVars == <<queue, running, launch>>
childVars == <<proc, timer, escalating, spawns>>
diskVars  == <<save, disk>>
vars == <<hostVars, jobVars, queueVars, childVars, admission, call, close,
          diskVars, announced>>

Outcome == {"succeeded", "failed", "cancelled", "interrupted"}
Terminal == Outcome \cup {"unknown"}
JobState == {"queued", "running"} \cup Terminal
Intent == {"none", "cancelled", "interrupted", "timeout"}
LaunchStep == {"none", "check", "preparing", "spawning", "starting", "running",
               "closed", "flushing", "settling", "abandoning", "publish",
               "republish"}
Record == [state : JobState, id : Cancel \cup {None}]
ASSUME RecordAssumption == None \notin Record
SavePhase == {"idle", "begun", "written", "renamed"}

\* What the submission, a cancel caller, close() and a persist() hold on to
\* across their awaits.
Admission == [step : {"idle", "checking", "saving", "removing"},
              job : Job \cup {None}]
Caller == [step : {"idle", "withdraw", "detached", "record", "acked", "refused"},
           job : Job \cup {None}, granted : BOOLEAN, slot : Nat,
           ack : JobState \cup {"none"}]
Closer == [step : {"open", "admission", "cancels", "sweep", "saving", "publish",
                   "republish", "draining", "closed", "failed"},
           todo : SUBSET Job, job : Job \cup {None}]
Persist == [phase : SavePhase, job : Job \cup {None}, record : Record \cup {None}]

Stopped(p) == p \in {"exit0", "exit1"}

TypeOK ==
  /\ daemon \in {"loading", "up", "down"}
  /\ boots \in 0..MaxBoots
  /\ state \in [Job -> JobState \cup {"absent"}]
  /\ intent \in [Job -> Intent]
  /\ cancelId \in [Job -> Cancel \cup {None}]
  /\ queue \in Seq(Job)
  /\ running \in Nat
  /\ launch \in [Job -> LaunchStep]
  /\ proc \in [Job -> {"none", "alive", "orphan", "exit0", "exit1"}]
  /\ timer \in [Job -> BOOLEAN]
  /\ escalating \in [Job -> BOOLEAN]
  /\ spawns \in [Job -> Nat]
  /\ admission \in Admission
  /\ call \in [Cancel -> Caller]
  /\ close \in Closer
  /\ save \in [Savers -> Persist]
  /\ disk \in [Job -> Record \cup {None}]
  /\ announced \in [Job -> JobState \cup {"none"}]

-----------------------------------------------------------------------------
(* persist(): the projection is taken after the directory is made and      *)
(* synced, then written to a temporary file and renamed. The rename takes  *)
(* effect before the call returns, and the call may still reject after it. *)

NoSave == [phase |-> "idle", job |-> None, record |-> None]
Saving(j) == [phase |-> "begun", job |-> j, record |-> None]

Snapshot(p) ==
  /\ save[p].phase = "begun"
  /\ save' = [save EXCEPT
                ![p].phase = "written",
                ![p].record = [state |-> state[save[p].job],
                               id |-> cancelId[save[p].job]]]
  /\ UNCHANGED <<hostVars, jobVars, queueVars, childVars, admission, call,
                 close, disk, announced>>

Rename(p) ==
  /\ save[p].phase = "written"
  /\ save' = [save EXCEPT ![p].phase = "renamed"]
  /\ disk' = [disk EXCEPT ![save[p].job] = save[p].record]
  /\ UNCHANGED <<hostVars, jobVars, queueVars, childVars, admission, call,
                 close, announced>>

NotAwaited(p) == save[p].phase # "idle"          \* mutant: no await
Saved(p) == save[p].phase = "renamed"
SaveFails(p, kind) == kind \in FailingSaves /\ save[p].phase # "idle"

-----------------------------------------------------------------------------
Up == daemon = "up"
Closing == close.step # "open"
Nonterminal == {j \in Job : state[j] \in {"queued", "running"}}
Recording(j) == \E c \in Cancel : call[c].step = "record" /\ call[c].job = j
Cancelling(j) == \E c \in Cancel :
                   call[c].step \in {"withdraw", "record"} /\ call[c].job = j

OneTooMany(busy) == busy <= MaxConcurrent         \* mutant: off by one
SlotFree(busy) == busy < MaxConcurrent
HasRoom == Cardinality(Nonterminal) < MaxConcurrent + MaxQueued

\* A queued job that launch() does not own yet.
NotLaunching(j) == launch[j] = "none"             \* mutant: any state
OnlyQueued(j) == state[j] = "queued"              \* mutant: launching too
Waiting(j) == state[j] = "queued" /\ launch[j] = "none"

\* Mutant: the slot is not counted.
LaunchUncounted(q, first, busy, at) ==
  /\ queue' = SubSeq(q, first + 1, Len(q))
  /\ running' = busy
  /\ launch' = [at EXCEPT ![q[first]] = "check"]
LaunchAt(q, first, busy, at) ==
  /\ queue' = SubSeq(q, first + 1, Len(q))
  /\ running' = busy + 1
  /\ launch' = [at EXCEPT ![q[first]] = "check"]

(* drain(): discard what is no longer queued, launch the first that is. A  *)
(* slot frees or a job arrives one at a time, so one launch fills the slots. *)
Ready(q, st) == {i \in DOMAIN q : st[q[i]] = "queued"}
Drain(q, st, busy, at) ==
  LET ready == Ready(q, st)
      first == Min(ready)
  IN IF Closing \/ ~SlotFree(busy)
     THEN queue' = q /\ running' = busy /\ launch' = at
     ELSE IF ready = {}
     THEN queue' = <<>> /\ running' = busy /\ launch' = at
     ELSE LaunchAt(q, first, busy, at)

\* The finally of drain(): the slot is free and the queue is drained again.
FreeOnly(j) ==                                    \* mutant: no drain
  running' = running - 1 /\ launch' = [launch EXCEPT ![j] = "none"] /\ queue' = queue
ShiftAgain(j) ==                                  \* mutant: the head is lost
  Drain(SubSeq(queue, 2, Len(queue)), state, running - 1, [launch EXCEPT ![j] = "none"])
FreeSlot(j) == Drain(queue, state, running - 1, [launch EXCEPT ![j] = "none"])

(* terminateGroup(): nothing while an escalation is in progress. The group *)
(* is signalled only if its members were read while the leader, identified *)
(* after the spawn, was there (a caller may have read them earlier), and   *)
(* one of them still is. An unverifiable group is left alone.              *)
Verifiable(j) == proc[j] = "alive" /\ launch[j] \notin {"none", "spawning"}
NotVerified(j, members) == members /\ ~Stopped(proc[j]) \* mutant: no check now
Terminates(j, members) == (members \/ Verifiable(j)) /\ ~Stopped(proc[j])

(* submit(): callers hold the admission chain in turn. A submission of a   *)
(* known identity, or while closing, only reads.                           *)
SubmitBegin(j) ==
  /\ Up /\ ~Closing
  /\ admission.step = "idle"
  /\ state[j] = "absent"
  /\ admission' = [step |-> "checking", job |-> j]
  /\ UNCHANGED <<hostVars, jobVars, queueVars, childVars, call, close, diskVars,
                 announced>>

\* Mutant: the chain is not released when the manager is closing.
RefusedUnreleased ==
  /\ admission.step = "checking" /\ ~Closing
  /\ admission' = [step |-> "idle", job |-> None]
  /\ UNCHANGED <<hostVars, jobVars, queueVars, childVars, call, close, diskVars,
                 announced>>
SubmitRefused ==
  /\ admission.step = "checking"
  /\ admission' = [step |-> "idle", job |-> None]
  /\ UNCHANGED <<hostVars, jobVars, queueVars, childVars, call, close, diskVars,
                 announced>>

SubmitAdmit ==
  LET j == admission.job IN
  /\ admission.step = "checking"
  /\ ~Closing
  /\ HasRoom
  /\ state' = [state EXCEPT ![j] = "queued"]
  /\ intent' = [intent EXCEPT ![j] = "none"]
  /\ cancelId' = [cancelId EXCEPT ![j] = None]
  /\ admission' = [admission EXCEPT !.step = "saving"]
  /\ save' = [save EXCEPT !["submit"] = Saving(j)]
  /\ UNCHANGED <<hostVars, queueVars, childVars, call, close, disk, announced>>

SubmitSaved ==
  LET j == admission.job IN
  /\ admission.step = "saving"
  /\ Saved("submit")
  /\ save' = [save EXCEPT !["submit"] = NoSave]
  /\ admission' = [step |-> "idle", job |-> None]
  /\ announced' = [announced EXCEPT ![j] = state[j]]
  /\ Drain(Append(queue, j), state, running, launch)
  /\ UNCHANGED <<hostVars, jobVars, childVars, call, close, disk>>

\* The job leaves the map; a cancel caller keeps its own reference to it.
SubmitSaveFails ==
  LET j == admission.job IN
  /\ admission.step = "saving"
  /\ SaveFails("submit", "submit")
  /\ save' = [save EXCEPT !["submit"] = NoSave]
  /\ admission' = [admission EXCEPT !.step = "removing"]
  /\ state' = [state EXCEPT ![j] = "absent"]
  /\ call' = [c \in Cancel |->
                IF call[c].step = "withdraw" /\ call[c].job = j
                THEN [call[c] EXCEPT !.step = "detached"] ELSE call[c]]
  /\ UNCHANGED <<hostVars, intent, cancelId, queueVars, childVars, close, disk,
                 announced>>

SubmitRemoved ==
  /\ admission.step = "removing"
  /\ \/ disk' = [disk EXCEPT ![admission.job] = None]
     \/ disk' = disk                          \* the rm failed, and is ignored
  /\ admission' = [step |-> "idle", job |-> None]
  /\ UNCHANGED <<hostVars, jobVars, queueVars, childVars, call, close, save,
                 announced>>

-----------------------------------------------------------------------------
(* launch(): stopBeforeSpawn() waits for a cancellation being recorded and *)
(* then looks at the intent, before and after the preparation (executable, *)
(* executionDirectory and verify are one step here) and so before spawn(). *)

RecordingIgnored(j) == intent[j] = "none" /\ ~Closing   \* mutant: no await
MayProceed(j) == ~Recording(j) /\ intent[j] = "none" /\ ~Closing

LaunchStop(j) ==
  /\ launch[j] \in {"check", "preparing"}
  /\ ~Recording(j)
  /\ intent[j] # "none" \/ Closing
  /\ intent' = [intent EXCEPT ![j] = IF @ = "none" THEN "interrupted" ELSE @]
  /\ state' = [state EXCEPT ![j] = IF intent[j] = "cancelled"
                                   THEN "cancelled" ELSE "interrupted"]
  /\ launch' = [launch EXCEPT ![j] = "publish"]
  /\ save' = [save EXCEPT ![j] = Saving(j)]
  /\ UNCHANGED <<hostVars, cancelId, queue, running, childVars, admission, call,
                 close, disk, announced>>

LaunchPrepare(j) ==
  /\ launch[j] = "check"
  /\ MayProceed(j)
  /\ launch' = [launch EXCEPT ![j] = "preparing"]
  /\ UNCHANGED <<hostVars, jobVars, queue, running, childVars, admission, call,
                 close, diskVars, announced>>

\* The preparation is done. The child may fail to start at all.
LaunchSpawn(j) ==
  /\ launch[j] = "preparing"
  /\ MayProceed(j)
  /\ launch' = [launch EXCEPT ![j] = "spawning"]
  /\ \/ /\ proc' = [proc EXCEPT ![j] = "alive"]
        /\ spawns' = [spawns EXCEPT ![j] = @ + 1]
     \/ UNCHANGED <<proc, spawns>>
  /\ UNCHANGED <<hostVars, jobVars, queue, running, timer, escalating,
                 admission, call, close, diskVars, announced>>

\* The state an error before or after the spawn leaves the job in.
ErrorState(j, spawned) ==
  IF intent[j] = "cancelled" THEN "cancelled"
  ELSE IF Closing \/ intent[j] = "interrupted" THEN "interrupted"
  ELSE IF intent[j] = "none" /\ spawned THEN "unknown" ELSE "failed"

\* A preparation call throws, or the child reports that it did not start.
LaunchFails(j) ==
  /\ \/ launch[j] = "preparing"
     \/ launch[j] = "spawning" /\ proc[j] = "none"
  /\ state' = [state EXCEPT ![j] = ErrorState(j, FALSE)]
  /\ launch' = [launch EXCEPT ![j] = "publish"]
  /\ save' = [save EXCEPT ![j] = Saving(j)]
  /\ UNCHANGED <<hostVars, intent, cancelId, queue, running, childVars,
                 admission, call, close, disk, announced>>

\* The leader's start time can be read only while the leader is there.
LaunchStarted(j) ==
  /\ launch[j] = "spawning" /\ proc[j] # "none"
  /\ timer' = [timer EXCEPT ![j] = TRUE]
  /\ intent' = [intent EXCEPT ![j] = IF @ = "none" /\ Closing
                                     THEN "interrupted" ELSE @]
  /\ state' = [state EXCEPT ![j] = "running"]
  /\ escalating' = [escalating EXCEPT ![j] =
                      @ \/ (intent'[j] # "none" /\ proc[j] = "alive")]
  /\ launch' = [launch EXCEPT ![j] = "starting"]
  /\ save' = [save EXCEPT ![j] = Saving(j)]
  /\ UNCHANGED <<hostVars, cancelId, queue, running, proc, spawns, admission,
                 call, close, disk, announced>>

LaunchStartSaved(j) ==
  /\ launch[j] = "starting"
  /\ Saved(j)
  /\ save' = [save EXCEPT ![j] = NoSave]
  /\ announced' = [announced EXCEPT ![j] = state[j]]
  /\ launch' = [launch EXCEPT ![j] = "running"]
  /\ UNCHANGED <<hostVars, jobVars, queue, running, childVars, admission, call,
                 close, disk>>

\* The catch of a spawned job stops the group and waits for it.
LaunchStartSaveFails(j) ==
  /\ launch[j] = "starting"
  /\ SaveFails(j, "start")
  /\ save' = [save EXCEPT ![j] = NoSave]
  /\ intent' = [intent EXCEPT ![j] = IF @ = "none" /\ Closing
                                     THEN "interrupted" ELSE @]
  /\ escalating' = [escalating EXCEPT ![j] = @ \/ Terminates(j, FALSE)]
  /\ launch' = [launch EXCEPT ![j] = "abandoning"]
  /\ UNCHANGED <<hostVars, state, cancelId, queue, running, proc, timer, spawns,
                 admission, call, close, disk, announced>>

LaunchAbandoned(j) ==
  /\ launch[j] = "abandoning"
  /\ Stopped(proc[j])
  /\ ~escalating[j]
  /\ timer' = [timer EXCEPT ![j] = FALSE]
  /\ state' = [state EXCEPT ![j] = ErrorState(j, TRUE)]
  /\ launch' = [launch EXCEPT ![j] = "publish"]
  /\ save' = [save EXCEPT ![j] = Saving(j)]
  /\ UNCHANGED <<hostVars, intent, cancelId, queue, running, proc, escalating,
                 spawns, admission, call, close, disk, announced>>

\* The close event, the cancellation then being recorded, the log queue.
LaunchClosed(j) ==
  /\ \/ launch[j] = "running" /\ Stopped(proc[j])
        /\ launch' = [launch EXCEPT ![j] = "closed"]
     \/ launch[j] = "closed" /\ ~Recording(j)
        /\ launch' = [launch EXCEPT ![j] = "flushing"]
  /\ UNCHANGED <<hostVars, jobVars, queue, running, childVars, admission, call,
                 close, diskVars, announced>>

\* Mutant: the exit code is looked at before the intent.
CodeFirst(j) == IF proc[j] = "exit0" THEN "succeeded"
                ELSE IF intent[j] = "cancelled" THEN "cancelled" ELSE "failed"
EndState(j) ==
  CASE intent[j] \in {"cancelled", "interrupted"} -> intent[j]
    [] intent[j] = "timeout" -> "failed"
    [] OTHER -> IF proc[j] = "exit0" THEN "succeeded" ELSE "failed"

Finish(j) ==
  /\ state' = [state EXCEPT ![j] = EndState(j)]
  /\ launch' = [launch EXCEPT ![j] = "publish"]
  /\ save' = [save EXCEPT ![j] = Saving(j)]

\* The timer is disarmed; a job being terminated waits for its escalation.
LaunchFlushed(j) ==
  /\ launch[j] = "flushing"
  /\ timer' = [timer EXCEPT ![j] = FALSE]
  /\ IF intent[j] # "none" /\ escalating[j]
     THEN launch' = [launch EXCEPT ![j] = "settling"] /\ UNCHANGED <<state, save>>
     ELSE Finish(j)
  /\ UNCHANGED <<hostVars, intent, cancelId, queue, running, proc, escalating,
                 spawns, admission, call, close, disk, announced>>

LaunchSettled(j) ==
  /\ launch[j] = "settling"
  /\ ~escalating[j]
  /\ Finish(j)
  /\ UNCHANGED <<hostVars, intent, cancelId, queue, running, childVars,
                 admission, call, close, disk, announced>>

\* publishTerminal() returns, and the finally of drain() frees the slot.
LaunchPublished(j) ==
  /\ \/ launch[j] = "publish" /\ Saved(j)
     \/ launch[j] = "republish" /\ (Saved(j) \/ SaveFails(j, "terminal"))
  /\ save' = [save EXCEPT ![j] = NoSave]
  /\ announced' = [announced EXCEPT ![j] = state[j]]
  /\ FreeSlot(j)
  /\ UNCHANGED <<hostVars, jobVars, childVars, admission, call, close, disk>>

LaunchPublishFails(j) ==
  /\ launch[j] = "publish"
  /\ SaveFails(j, "terminal")
  /\ state' = [state EXCEPT ![j] = "unknown"]
  /\ launch' = [launch EXCEPT ![j] = "republish"]
  /\ save' = [save EXCEPT ![j] = Saving(j)]
  /\ UNCHANGED <<hostVars, intent, cancelId, queue, running, childVars,
                 admission, call, close, disk, announced>>

-----------------------------------------------------------------------------
(* The child, the run timeout and the escalation.                          *)

\* A leader may exit and leave a descendant that holds the captured output.
ChildExits(j) ==
  /\ \/ /\ proc[j] \in {"alive", "orphan"}
        /\ \E end \in {"exit0", "exit1"} : proc' = [proc EXCEPT ![j] = end]
     \/ /\ proc[j] = "alive" /\ j \in HoldsPipe
        /\ proc' = [proc EXCEPT ![j] = "orphan"]
  /\ UNCHANGED <<hostVars, jobVars, queueVars, timer, escalating, spawns,
                 admission, call, close, diskVars, announced>>

TimerFires(j) ==
  /\ timer[j]
  /\ timer' = [timer EXCEPT ![j] = FALSE]
  /\ intent' = [intent EXCEPT ![j] = "timeout"]
  /\ escalating' = [escalating EXCEPT ![j] = @ \/ Terminates(j, FALSE)]
  /\ UNCHANGED <<hostVars, state, cancelId, queueVars, proc, spawns, admission,
                 call, close, diskVars, announced>>

\* Five seconds after TERM the group is killed if a member of it remains.
EscalationKills(j) ==
  /\ escalating[j]
  /\ escalating' = [escalating EXCEPT ![j] = FALSE]
  /\ proc' = [proc EXCEPT ![j] = IF Stopped(@) THEN @ ELSE "exit1"]
  /\ UNCHANGED <<hostVars, jobVars, queueVars, timer, spawns, admission,
                 call, close, diskVars, announced>>

-----------------------------------------------------------------------------
(* cancel(): the callers of one job form a FIFO, and a caller that finds   *)
(* the manager closing is refused without any change.                      *)

CancelBegin(c, j) ==
  /\ Up /\ ~Closing
  /\ call[c].step = "idle"
  /\ state[j] # "absent"
  /\ ~Cancelling(j)

Answer(c, j, step, ack) ==
  [call EXCEPT ![c] = [step |-> step, job |-> j, granted |-> FALSE, slot |-> 0,
                       ack |-> ack]]

\* Terminal already, or cancelled by an earlier caller: the projection.
CancelAnswered(c, j) ==
  /\ CancelBegin(c, j)
  /\ cancelId[j] # None \/ state[j] \in Terminal
  /\ call' = Answer(c, j, "acked", state[j])
  /\ UNCHANGED <<hostVars, jobVars, queueVars, childVars, admission, close,
                 diskVars, announced>>

(* A job still waiting is taken out of the queue and marked cancelled, and *)
(* put back where it was if that cannot be persisted.                      *)
Withdraw(c, j) ==
  LET slots == {i \in DOMAIN queue : queue[i] = j}
      slot  == IF slots = {} THEN 0 ELSE CHOOSE i \in slots : TRUE
  IN
  /\ CancelBegin(c, j)
  /\ cancelId[j] = None /\ Waiting(j)
  /\ queue' = IF slot = 0 THEN queue ELSE RemoveAt(queue, slot)
  /\ state' = [state EXCEPT ![j] = "cancelled"]
  /\ intent' = [intent EXCEPT ![j] = "cancelled"]
  /\ cancelId' = [cancelId EXCEPT ![j] = c]
  /\ call' = [call EXCEPT ![c].step = "withdraw", ![c].job = j, ![c].slot = slot]
  /\ save' = [save EXCEPT ![c] = [phase |-> "written", job |-> j,
                                  record |-> [state |-> "cancelled", id |-> c]]]
  /\ UNCHANGED <<hostVars, running, launch, childVars, admission, close, disk,
                 announced>>

WithdrawSaved(c) ==
  /\ call[c].step \in {"withdraw", "detached"}
  /\ Saved(c)
  /\ save' = [save EXCEPT ![c] = NoSave]
  /\ call' = Answer(c, call[c].job, "acked", "cancelled")
  /\ announced' = [announced EXCEPT ![call[c].job] = "cancelled"]
  /\ UNCHANGED <<hostVars, jobVars, queueVars, childVars, admission, close, disk>>

WithdrawFails(c) ==
  LET j == call[c].job
      slot == call[c].slot
      at == IF slot <= Len(queue) THEN slot ELSE Len(queue) + 1
  IN
  /\ call[c].step \in {"withdraw", "detached"}
  /\ SaveFails(c, "withdraw")
  /\ save' = [save EXCEPT ![c] = NoSave]
  /\ call' = Answer(c, j, "refused", "none")
  /\ IF call[c].step = "detached"
     THEN UNCHANGED <<jobVars, queueVars>>
     ELSE /\ state' = [state EXCEPT ![j] = "queued"]
          /\ intent' = [intent EXCEPT ![j] = "none"]
          /\ cancelId' = [cancelId EXCEPT ![j] = None]
          /\ IF slot > 0 /\ ~Contains(queue, j)
             THEN Drain(InsertAt(queue, at, j), state', running, launch)
             ELSE UNCHANGED queueVars
  /\ UNCHANGED <<hostVars, childVars, admission, close, disk, announced>>

\* recordCancellation(): the identity now, the intent once it is persisted.
RecordBegin(c, j) ==
  /\ CancelBegin(c, j)
  /\ cancelId[j] = None
  /\ state[j] = "running" \/ (state[j] = "queued" /\ launch[j] # "none")
  /\ cancelId' = [cancelId EXCEPT ![j] = c]
  /\ call' = [call EXCEPT ![c].step = "record", ![c].job = j,
                          ![c].granted = Verifiable(j)]
  /\ save' = [save EXCEPT ![c] = Saving(j)]
  /\ UNCHANGED <<hostVars, state, intent, queueVars, childVars, admission, close,
                 disk, announced>>

RecordSaved(c) ==
  LET j == call[c].job IN
  /\ call[c].step = "record"
  /\ Saved(c)
  /\ save' = [save EXCEPT ![c] = NoSave]
  /\ call' = Answer(c, j, "acked", state[j])
  /\ intent' = [intent EXCEPT ![j] = IF @ = "none" THEN "cancelled" ELSE @]
  /\ escalating' = [escalating EXCEPT ![j] = @ \/ Terminates(j, call[c].granted)]
  /\ UNCHANGED <<hostVars, state, cancelId, queueVars, proc, timer, spawns,
                 admission, close, disk, announced>>

RecordFails(c) ==
  /\ call[c].step = "record"
  /\ SaveFails(c, "record")
  /\ save' = [save EXCEPT ![c] = NoSave]
  /\ call' = Answer(c, call[c].job, "refused", "none")
  /\ cancelId' = [cancelId EXCEPT ![call[c].job] = None]
  /\ UNCHANGED <<hostVars, state, intent, queueVars, childVars, admission, close,
                 disk, announced>>

-----------------------------------------------------------------------------
(* close(): no more admissions, then the cancel callers, then each job is  *)
(* visited, then every launch and escalation is awaited.                   *)

CloseBegin ==
  /\ Up /\ ~Closing
  /\ close' = [close EXCEPT !.step = "admission"]
  /\ UNCHANGED <<hostVars, jobVars, queueVars, childVars, admission, call,
                 diskVars, announced>>

EscalationsEnded == \A j \in Job : ~escalating[j]   \* mutant: launches go on
Drained == \A j \in Job : launch[j] = "none" /\ ~escalating[j]

CloseWaits ==
  /\ \/ /\ close.step = "admission" /\ admission.step = "idle"
        /\ close' = [close EXCEPT !.step = "cancels"]
     \/ /\ close.step = "cancels" /\ \A j \in Job : ~Cancelling(j)
        /\ close' = [close EXCEPT !.step = "sweep",
                                  !.todo = {j \in Job : state[j] # "absent"}]
     \/ /\ close.step = "sweep" /\ close.todo = {}
        /\ close' = [close EXCEPT !.step = "draining"]
     \/ /\ close.step = "draining" /\ Drained
        /\ close' = [close EXCEPT !.step = "closed"]
  /\ UNCHANGED <<hostVars, jobVars, queueVars, childVars, admission, call,
                 diskVars, announced>>

CloseVisit(j) ==
  LET waiting == Waiting(j)
      starting == state[j] = "queued" /\ ~waiting
      live == state[j] \in {"queued", "running"}
  IN
  /\ close.step = "sweep" /\ j \in close.todo
  /\ close' = [step |-> IF waiting THEN "publish"
                        ELSE IF starting THEN "saving" ELSE "sweep",
               todo |-> close.todo \ {j},
               job |-> IF waiting \/ starting THEN j ELSE None]
  /\ intent' = [intent EXCEPT ![j] = IF live THEN "interrupted" ELSE @]
  /\ state' = [state EXCEPT ![j] = IF waiting THEN "interrupted" ELSE @]
  /\ escalating' = [escalating EXCEPT ![j] = @ \/ (live /\ Terminates(j, FALSE))]
  /\ save' = [save EXCEPT !["close"] = IF waiting \/ starting
                                       THEN Saving(j) ELSE NoSave]
  /\ UNCHANGED <<hostVars, cancelId, queueVars, proc, timer, spawns, admission,
                 call, disk, announced>>

CloseSaved ==
  /\ \/ close.step \in {"saving", "publish", "republish"} /\ Saved("close")
     \/ close.step = "republish" /\ SaveFails("close", "terminal")
  /\ save' = [save EXCEPT !["close"] = NoSave]
  /\ close' = [close EXCEPT !.step = "sweep", !.job = None]
  /\ announced' = IF close.step = "saving" THEN announced
                  ELSE [announced EXCEPT ![close.job] = state[close.job]]
  /\ UNCHANGED <<hostVars, jobVars, queueVars, childVars, admission, call, disk>>

\* The persist of a launching job is not guarded: close() itself rejects.
CloseSaveFails ==
  LET j == close.job IN
  /\ \/ /\ close.step = "saving" /\ SaveFails("close", "close")
        /\ close' = [close EXCEPT !.step = "failed"]
        /\ save' = [save EXCEPT !["close"] = NoSave]
        /\ UNCHANGED state
     \/ /\ close.step = "publish" /\ SaveFails("close", "terminal")
        /\ close' = [close EXCEPT !.step = "republish"]
        /\ save' = [save EXCEPT !["close"] = Saving(j)]
        /\ state' = [state EXCEPT ![j] = "unknown"]
  /\ UNCHANGED <<hostVars, intent, cancelId, queueVars, childVars, admission,
                 call, disk, announced>>

-----------------------------------------------------------------------------
(* The end of a daemon generation, by a crash or after close(): the memory *)
(* is gone, the files and the detached children remain. Then load().       *)

Stop ==
  /\ daemon # "down"
  /\ daemon' = "down"
  /\ state' = [j \in Job |-> "absent"]
  /\ intent' = [j \in Job |-> "none"]
  /\ cancelId' = [j \in Job |-> None]
  /\ queue' = <<>>
  /\ running' = 0
  /\ launch' = [j \in Job |-> "none"]
  /\ timer' = [j \in Job |-> FALSE]
  /\ escalating' = [j \in Job |-> FALSE]
  /\ admission' = [step |-> "idle", job |-> None]
  /\ call' = [c \in Cancel |->
                IF call[c].step \in {"withdraw", "detached", "record"}
                THEN [call[c] EXCEPT !.step = "refused", !.granted = FALSE,
                                     !.slot = 0] ELSE call[c]]
  /\ close' = [step |-> "open", todo |-> {}, job |-> None]
  /\ save' = [p \in Savers |-> NoSave]
  /\ announced' = [j \in Job |-> "none"]
  /\ UNCHANGED <<boots, proc, spawns, disk>>

\* The bound keeps the last generation from crashing.
Crash == boots < MaxBoots /\ Stop
Exit == close.step \in {"closed", "failed"} /\ boots < MaxBoots /\ Stop

Start ==
  /\ daemon = "down" /\ boots < MaxBoots
  /\ daemon' = "loading"
  /\ boots' = boots + 1
  /\ UNCHANGED <<jobVars, queueVars, childVars, admission, call, close, diskVars,
                 announced>>

\* A record that cannot be persisted again is quarantined, whatever it says.
LoadJob(j) ==
  /\ daemon = "loading"
  /\ disk[j] # None /\ state[j] = "absent"
  /\ \E readable \in BOOLEAN :
       LET shown == IF readable /\ disk[j].state \in Terminal
                    THEN disk[j].state ELSE "unknown"
           id == IF readable THEN disk[j].id ELSE None
       IN /\ readable \/ "load" \in FailingSaves
          /\ state' = [state EXCEPT ![j] = shown]
          /\ cancelId' = [cancelId EXCEPT ![j] = id]
          /\ disk' = [disk EXCEPT ![j] = [state |-> shown, id |-> id]]
          /\ announced' = [announced EXCEPT ![j] =
               IF readable /\ disk[j].state \in Terminal THEN @ ELSE "unknown"]
  /\ UNCHANGED <<hostVars, intent, queueVars, childVars, admission, call, close,
                 save>>

TerminalLoaded ==                                 \* mutant: the rest is skipped
  \A j \in Job : disk[j] # None /\ disk[j].state \in Terminal => state[j] # "absent"
AllLoaded == \A j \in Job : disk[j] # None => state[j] # "absent"

Loaded ==
  /\ daemon = "loading"
  /\ AllLoaded
  /\ daemon' = "up"
  /\ UNCHANGED <<boots, jobVars, queueVars, childVars, admission, call, close,
                 diskVars, announced>>

-----------------------------------------------------------------------------
\* A new box, whose cancel callers are as given.
StartsWith(callers) ==
  /\ daemon = "down"
  /\ boots = 0
  /\ state = [j \in Job |-> "absent"]
  /\ intent = [j \in Job |-> "none"]
  /\ cancelId = [j \in Job |-> None]
  /\ queue = <<>>
  /\ running = 0
  /\ launch = [j \in Job |-> "none"]
  /\ proc = [j \in Job |-> "none"]
  /\ timer = [j \in Job |-> FALSE]
  /\ escalating = [j \in Job |-> FALSE]
  /\ spawns = [j \in Job |-> 0]
  /\ admission = [step |-> "idle", job |-> None]
  /\ call = callers
  /\ close = [step |-> "open", todo |-> {}, job |-> None]
  /\ save = [p \in Savers |-> NoSave]
  /\ disk = [j \in Job |-> None]
  /\ announced = [j \in Job |-> "none"]

Init ==
  StartsWith([c \in Cancel |-> [step |-> "idle", job |-> None,
                                granted |-> FALSE, slot |-> 0, ack |-> "none"]])

Persists(p) == Snapshot(p) \/ Rename(p)
Persisting == \E p \in Savers : Persists(p)

Submitting ==
  \/ \E j \in Job : SubmitBegin(j)
  \/ SubmitRefused \/ SubmitAdmit \/ SubmitSaved \/ SubmitSaveFails
  \/ SubmitRemoved

Launching(j) ==
  \/ LaunchStop(j) \/ LaunchPrepare(j) \/ LaunchSpawn(j)
  \/ LaunchFails(j) \/ LaunchStarted(j) \/ LaunchStartSaved(j)
  \/ LaunchStartSaveFails(j) \/ LaunchAbandoned(j) \/ LaunchClosed(j)
  \/ LaunchFlushed(j) \/ LaunchSettled(j) \/ LaunchPublished(j)
  \/ LaunchPublishFails(j)

Terminating(j) ==
  \/ ChildExits(j) \/ TimerFires(j) \/ EscalationKills(j)

Calling(c) ==
  \/ \E j \in Job : CancelAnswered(c, j) \/ Withdraw(c, j) \/ RecordBegin(c, j)
  \/ WithdrawSaved(c) \/ WithdrawFails(c) \/ RecordSaved(c) \/ RecordFails(c)

Shutting ==
  \/ CloseBegin \/ CloseWaits \/ CloseSaved \/ CloseSaveFails
  \/ \E j \in Job : CloseVisit(j)

Booting == Crash \/ Exit \/ Start \/ Loaded \/ \E j \in Job : LoadJob(j)

Next ==
  \/ Persisting
  \/ Submitting
  \/ \E j \in Job : Launching(j) \/ Terminating(j)
  \/ \E c \in Cancel : Calling(c)
  \/ Shutting
  \/ Booting

Spec == Init /\ [][Next]_vars

(* The event loop goes on while a continuation is ready, and no submission *)
(* starves the rest; timers fire and the kernel kills. No client is bound  *)
(* to call, no child to exit and no daemon to be stopped.                  *)
Fairness ==
  /\ WF_vars(\/ Persists("submit") \/ SubmitRefused \/ SubmitAdmit
             \/ SubmitSaved \/ SubmitSaveFails \/ SubmitRemoved)
  /\ WF_vars(\/ \E p \in Savers \ {"submit"} : Persists(p)
             \/ \E j \in Job : Launching(j) \/ CloseVisit(j)
             \/ \E c \in Cancel : \/ WithdrawSaved(c) \/ WithdrawFails(c)
                                  \/ RecordSaved(c) \/ RecordFails(c)
             \/ CloseWaits \/ CloseSaved \/ CloseSaveFails)
  /\ WF_vars(\E j \in Job : TimerFires(j) \/ EscalationKills(j))

FairSpec == Spec /\ Fairness
=============================================================================
