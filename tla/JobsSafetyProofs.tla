--------------------------- MODULE JobsSafetyProofs ---------------------------
(***************************************************************************)
(* What the JobManager does to one job, for every set of jobs, callers and *)
(* policies. The invariants build on each other, on the scheduler's (module *)
(* JobsProofs), and each theorem assumes as few of the persists to succeed *)
(* as it can:                                                              *)
(*   any of them may fail       SpawnsOnce, SpawnsRecorded, NeverIdle      *)
(*   no withdrawal's fails      QueuedJobsScheduled                        *)
(*   no submission's fails      NothingSpawnsAfterStop,                    *)
(*                              CancelledNeverSucceeds                     *)
(*   neither of the two fails   OutcomesNotInvented, QuietOnceClosed,      *)
(*                              AnnouncedStays                             *)
(***************************************************************************)
EXTENDS JobsProofs

USE DEF hostVars, jobVars, queueVars, childVars, diskVars

\* The variables are functions, and more is seldom needed of their types.
LEMMA Shapes ==
  SchedulerInv =>
    /\ state = [j \in Job |-> state[j]] /\ intent = [j \in Job |-> intent[j]]
    /\ cancelId = [j \in Job |-> cancelId[j]]
    /\ launch = [j \in Job |-> launch[j]] /\ proc = [j \in Job |-> proc[j]]
    /\ timer = [j \in Job |-> timer[j]] /\ spawns = [j \in Job |-> spawns[j]]
    /\ escalating = [j \in Job |-> escalating[j]]
    /\ call = [c \in Cancel |-> call[c]] /\ save = [p \in Savers |-> save[p]]
    /\ disk = [j \in Job |-> disk[j]]
    /\ announced = [j \in Job |-> announced[j]]
BY DEF SchedulerInv, TypeOK

\* A snapshot replaces one of the persists in flight by a record.
LEMMA SnapshotTaken ==
  ASSUME SchedulerInv, NEW p \in Savers, Snapshot(p)
  PROVE  /\ \A r \in Savers \ {p} : save'[r] = save[r]
         /\ save'[p].phase = "written" /\ save'[p].record # None
         /\ save'[p].record.state = state[save[p].job]
         /\ save'[p].job = save[p].job /\ save[p].job \in Job
         /\ state[save[p].job] # "absent"
<1>1. PICK r : r = [state |-> state[save[p].job], id |-> cancelId[save[p].job]]
  OBVIOUS
<1>2. /\ r \in Record /\ save[p].job \in Job /\ state[save[p].job] # "absent"
      /\ save'[p] = [phase |-> "written", job |-> save[p].job, record |-> r]
      /\ \A q \in Savers \ {p} : save'[q] = save[q]
  BY <1>1, SnapshotIsRecord
<1>3. r # None
  BY <1>2, RecordAssumption DEF RecordAssumption
<1> QED
  BY <1>1, <1>2, <1>3

\* load() takes a job from its record and persists what it takes.
LEMMA JobLoaded ==
  ASSUME SchedulerInv, NEW j \in Job, LoadJob(j)
  PROVE  /\ daemon = "loading" /\ disk[j] # None /\ state[j] = "absent"
         /\ state'[j] \in Terminal /\ state'[j] \in {disk[j].state, "unknown"}
         /\ disk'[j] # None /\ disk'[j].state = state'[j]
         /\ announced'[j] \in {announced[j], state'[j]}
         /\ \A k \in Job \ {j} :
              /\ state'[k] = state[k] /\ cancelId'[k] = cancelId[k]
              /\ disk'[k] = disk[k] /\ announced'[k] = announced[k]
         /\ UNCHANGED <<hostVars, intent, queueVars, childVars, admission, call,
                        close, save>>
<1>1. disk[j] # None /\ disk[j] \in Record /\ daemon = "loading"
      /\ state[j] = "absent"
  BY DEF LoadJob, SchedulerInv, TypeOK
<1>2. PICK shown, id :
        /\ shown \in Terminal /\ shown \in {disk[j].state, "unknown"}
        /\ id \in Cancel \cup {None}
        /\ state' = [state EXCEPT ![j] = shown]
        /\ cancelId' = [cancelId EXCEPT ![j] = id]
        /\ disk' = [disk EXCEPT ![j] = [state |-> shown, id |-> id]]
        /\ announced' \in {announced, [announced EXCEPT ![j] = shown]}
  BY ZenonT(90), <1>1, Shapes DEF LoadJob, Record, Terminal, Outcome
<1>3. [state |-> shown, id |-> id] # None
  BY <1>2, RecordAssumption DEF RecordAssumption, Record, JobState
<1>4. UNCHANGED <<hostVars, intent, queueVars, childVars, admission, call, close,
                  save>>
  BY DEF LoadJob
<1> QED
  BY <1>1, <1>2, <1>3, <1>4, Shapes

\* The end of a generation leaves no cancel caller waiting.
LEMMA StopCalls ==
  ASSUME SchedulerInv, Stop, NEW c \in Cancel
  PROVE  /\ call'[c].step \in {"idle", "acked", "refused"}
         /\ call'[c].step = "acked" => call'[c] = call[c]
<1>1. call[c] \in Caller
  BY DEF SchedulerInv, TypeOK
<1>2. call' = [d \in Cancel |->
                 IF call[d].step \in {"withdraw", "detached", "record"}
                 THEN [call[d] EXCEPT !.step = "refused", !.granted = FALSE,
                                      !.slot = 0] ELSE call[d]]
  BY DEF Stop
<1>3. CASE call[c].step \in {"withdraw", "detached", "record"}
  BY <1>1, <1>2, <1>3 DEF Caller
<1>4. CASE call[c].step \notin {"withdraw", "detached", "record"}
  BY <1>1, <1>2, <1>4 DEF Caller
<1> QED
  BY <1>3, <1>4

\* The savers are told apart by their names.
LEMMA SaverNames ==
  /\ {"submit", "close"} \subseteq Savers
  /\ \A j \in Job : j \in Savers /\ j # "submit" /\ j # "close" /\ j \notin Cancel
  /\ \A c \in Cancel : c \in Savers /\ c # "submit" /\ c # "close"
BY ConstantsAssumption DEF ConstantsAssumption, Savers

\* A job that launch() owns is in the map.
LEMMA LaunchedIsKnown ==
  SchedulerInv => \A j \in Job : launch[j] # "none" => state[j] # "absent"
BY DEF SchedulerInv, HolderInv, LaunchInv, Active

\* Where launch() stands tells the state of the job it holds.
PhaseInv ==
  \A j \in Job :
    /\ launch[j] = "none" => state[j] # "running"
    /\ launch[j] \in {"check", "preparing", "spawning"} => state[j] = "queued"
    /\ launch[j] \in {"starting", "running", "closed", "flushing", "settling",
                      "abandoning"} => state[j] = "running"
    /\ launch[j] \in {"publish", "republish"} => state[j] \in Terminal
    /\ close.step \in {"publish", "republish"} /\ close.job = j =>
         launch[j] = "none" /\ state[j] \in Terminal

\* drain() only puts queued jobs that were not being launched into launch().
Relaunched(st, at) ==
  \A k \in Job :
    \/ launch'[k] = at[k]
    \/ at[k] = "none" /\ launch'[k] = "check" /\ st[k] = "queued"

\* The three handlers that drain the queue.
LEMMA DrainingSteps ==
  ASSUME SchedulerInv
  PROVE  /\ SubmitSaved => Relaunched(state, launch)
         /\ \A j \in Job : LaunchPublished(j) =>
              Relaunched(state, [launch EXCEPT ![j] = "none"])
         /\ \A c \in Cancel : WithdrawFails(c) => Relaunched(state', launch)
<1>1. ASSUME SubmitSaved PROVE Relaunched(state, launch)
  BY <1>1, SubmitSavedSettles DEF Settled, Relaunched
<1>2. ASSUME NEW j \in Job, LaunchPublished(j)
      PROVE  Relaunched(state, [launch EXCEPT ![j] = "none"])
  BY <1>2, FreedSlotSettles DEF Settled, Relaunched
<1>3. ASSUME NEW c \in Cancel, WithdrawFails(c)
      PROVE  Relaunched(state', launch)
  <2>1. CASE call[c].step = "withdraw" /\ call[c].slot > 0
             /\ ~Contains(queue, call[c].job)
    BY <1>3, <2>1, RollbackSettles DEF Settled, Relaunched
  <2>2. CASE ~(call[c].step = "withdraw" /\ call[c].slot > 0
               /\ ~Contains(queue, call[c].job))
    BY <1>3, <2>2 DEF WithdrawFails, Relaunched
  <2> QED
    BY <2>1, <2>2
<1> QED
  BY <1>1, <1>2, <1>3

\* Every step keeps the phases of the launches.
LEMMA PhaseKept ==
  ASSUME SchedulerInv, PhaseInv, [Next]_vars
  PROVE  PhaseInv'
<1> USE DEF PhaseInv, SchedulerInv, TypeOK
<1>1. CASE UNCHANGED <<state, launch, close>>
  BY <1>1
<1>2. CASE Submitting
  <2>1. CASE SubmitSaved
    BY <2>1, DrainingSteps DEF Relaunched, SubmitSaved, Terminal, Outcome
  <2>2. CASE SubmitAdmit
    BY <2>2 DEF SubmitAdmit, HolderInv, AdmissionInv, LaunchInv, Active, Closing
  <2>3. CASE SubmitSaveFails
    BY <2>3 DEF SubmitSaveFails, HolderInv, AdmissionInv, CloseInv
  <2> QED
    BY <1>1, <1>2, <2>1, <2>2, <2>3 DEF Submitting, SubmitBegin, SubmitRefused,
       SubmitRemoved
<1>3. ASSUME NEW j \in Job, Launching(j)
      PROVE  PhaseInv'
  <2>1. CASE LaunchStop(j)
    BY <2>1 DEF LaunchStop, Terminal, Outcome
  <2>2. CASE LaunchPrepare(j)
    BY <2>2 DEF LaunchPrepare
  <2>3. CASE LaunchSpawn(j)
    BY <2>3 DEF LaunchSpawn
  <2>4. CASE LaunchFails(j)
    BY <2>4 DEF LaunchFails, ErrorState, Terminal, Outcome
  <2>5. CASE LaunchStarted(j)
    BY <2>5 DEF LaunchStarted
  <2>6. CASE LaunchStartSaved(j)
    BY <2>6 DEF LaunchStartSaved
  <2>7. CASE LaunchStartSaveFails(j)
    BY <2>7 DEF LaunchStartSaveFails
  <2>8. CASE LaunchAbandoned(j)
    BY <2>8 DEF LaunchAbandoned, ErrorState, Terminal, Outcome
  <2>9. CASE LaunchClosed(j)
    BY <2>9 DEF LaunchClosed
  <2>10. CASE LaunchFlushed(j)
    BY <2>10 DEF LaunchFlushed, Finish, EndState, Terminal, Outcome
  <2>11. CASE LaunchSettled(j)
    BY <2>11 DEF LaunchSettled, Finish, EndState, Terminal, Outcome
  <2>12. CASE LaunchPublished(j)
    <3>1. Relaunched(state, [launch EXCEPT ![j] = "none"])
      BY <2>12, DrainingSteps
    <3>2. UNCHANGED <<state, close>> /\ launch[j] \in {"publish", "republish"}
      BY <2>12 DEF LaunchPublished
    <3> QED
      BY <3>1, <3>2 DEF Relaunched, Terminal, Outcome
  <2>13. CASE LaunchPublishFails(j)
    BY <2>13 DEF LaunchPublishFails, Terminal, Outcome
  <2> QED
    BY <1>3, <2>1, <2>2, <2>3, <2>4, <2>5, <2>6, <2>7, <2>8, <2>9, <2>10,
       <2>11, <2>12, <2>13 DEF Launching
<1>4. ASSUME NEW c \in Cancel, Calling(c)
      PROVE  PhaseInv'
  <2>1. CASE WithdrawFails(c)
    <3>1. Relaunched(state', launch) /\ close' = close
      BY <2>1, DrainingSteps DEF WithdrawFails
    <3>2. \/ state' = state
          \/ /\ call[c].job \in Job /\ launch[call[c].job] = "none"
             /\ close.step \in {"open", "admission", "cancels"}
             /\ state' = [state EXCEPT ![call[c].job] = "queued"]
      BY <2>1 DEF WithdrawFails, HolderInv, CallInv, CloseInv, Closer
    <3> QED
      BY <3>1, <3>2 DEF Relaunched, Terminal, Outcome
  <2>2. ASSUME NEW j \in Job, Withdraw(c, j)
        PROVE  PhaseInv'
    BY <2>2 DEF Withdraw, Waiting, CancelBegin, Closing
  <2> QED
    BY <1>1, <1>4, <2>1, <2>2 DEF Calling, CancelAnswered, RecordBegin,
       WithdrawSaved, RecordSaved, RecordFails
<1>5. CASE Shutting
  <2>1. CASE CloseSaveFails
    BY <2>1 DEF CloseSaveFails, Closer, HolderInv, CloseInv, Terminal, Outcome
  <2>2. ASSUME NEW j \in Job, CloseVisit(j)
        PROVE  PhaseInv'
    BY <2>2 DEF CloseVisit, Waiting, Terminal, Outcome
  <2>3. CASE CloseBegin \/ CloseWaits
    <3>1. close'.step \notin {"publish", "republish"}
      BY <2>3 DEF CloseBegin, CloseWaits, Closer
    <3> QED
      BY <2>3, <3>1 DEF CloseBegin, CloseWaits
  <2>4. CASE CloseSaved
    BY <2>4 DEF CloseSaved, Closer
  <2> QED
    BY <1>5, <2>1, <2>2, <2>3, <2>4 DEF Shutting
<1>6. CASE Booting
  <2>1. CASE Stop
    BY <2>1 DEF Stop
  <2>2. ASSUME NEW j \in Job, LoadJob(j)
        PROVE  PhaseInv'
    BY <2>2 DEF LoadJob, HolderInv, LaunchInv, CloseInv, Active, Terminal, Outcome
  <2> QED
    BY <1>1, <1>6, <2>1, <2>2 DEF Booting, Crash, Exit, Start, Loaded
<1> QED
  BY <1>1, <1>2, <1>3, <1>4, <1>5, <1>6 DEF Next, Persisting, Persists,
     Snapshot, Rename, Terminating, ChildExits, TimerFires, EscalationKills, vars

-----------------------------------------------------------------------------
(* A job that waits in the queue has not been told to end: neither an      *)
(* intent nor a cancel identity, and no cancellation is being recorded. Its *)
(* run timeout is armed only while a child is awaited.                     *)
WaitInv ==
  /\ \A j \in Job :
       /\ Waiting(j) => intent[j] = "none" /\ cancelId[j] = None
       /\ timer[j] => launch[j] \in {"starting", "running", "closed",
                                     "flushing", "abandoning"}
  /\ \A c \in Cancel, j \in Job :
       call[c].step = "record" /\ call[c].job = j => ~Waiting(j)

\* Every step keeps what the callers of cancel() wait for.
LEMMA WaitKept ==
  ASSUME SchedulerInv, PhaseInv, WaitInv, [Next]_vars
  PROVE  WaitInv'
<1> USE Shapes DEF WaitInv, PhaseInv, Waiting
<1>1. CASE UNCHANGED <<state, intent, cancelId, launch, timer, call>>
  BY <1>1
<1>2. CASE Submitting
  <2>1. CASE SubmitSaved
    <3>1. Relaunched(state, launch)
      BY <2>1, DrainingSteps
    <3> QED
      BY <2>1, <3>1 DEF Relaunched, SubmitSaved
  <2>2. CASE SubmitAdmit
    BY <2>2 DEF SubmitAdmit, SchedulerInv, HolderInv, AdmissionInv, CallInv
  <2>3. CASE SubmitSaveFails
    BY <2>3 DEF SubmitSaveFails, SchedulerInv, HolderInv, AdmissionInv, Caller
  <2> QED
    BY <1>1, <1>2, <2>1, <2>2, <2>3 DEF Submitting, SubmitBegin, SubmitRefused,
       SubmitRemoved
<1>3. ASSUME NEW j \in Job, Launching(j)
      PROVE  WaitInv'
  <2>1. CASE LaunchStop(j)
    BY <2>1 DEF LaunchStop
  <2>2. CASE LaunchPrepare(j) \/ LaunchSpawn(j) \/ LaunchClosed(j)
             \/ LaunchStartSaved(j)
    BY <2>2 DEF LaunchPrepare, LaunchSpawn, LaunchClosed, LaunchStartSaved
  <2>3. CASE LaunchFails(j) \/ LaunchPublishFails(j)
    BY <2>3 DEF LaunchFails, LaunchPublishFails, ErrorState
  <2>4. CASE LaunchStarted(j)
    BY <2>4 DEF LaunchStarted
  <2>5. CASE LaunchStartSaveFails(j)
    BY <2>5 DEF LaunchStartSaveFails
  <2>6. CASE LaunchAbandoned(j)
    BY <2>6 DEF LaunchAbandoned, ErrorState
  <2>7. CASE LaunchFlushed(j)
    BY <2>7 DEF LaunchFlushed, Finish, EndState
  <2>8. CASE LaunchSettled(j)
    BY <2>8 DEF LaunchSettled, Finish, EndState
  <2>9. CASE LaunchPublished(j)
    <3>1. Relaunched(state, [launch EXCEPT ![j] = "none"])
      BY <2>9, DrainingSteps
    <3>2. /\ UNCHANGED <<state, intent, cancelId, timer, call>>
          /\ launch[j] \in {"publish", "republish"}
      BY <2>9 DEF LaunchPublished
    <3> QED
      BY <3>1, <3>2 DEF Relaunched, Terminal, Outcome
  <2> QED
    BY <1>3, <2>1, <2>2, <2>3, <2>4, <2>5, <2>6, <2>7, <2>8, <2>9 DEF Launching
<1>4. ASSUME NEW c \in Cancel, Calling(c)
      PROVE  WaitInv'
  <2>1. CASE WithdrawFails(c)
    <3>1. Relaunched(state', launch)
      BY <2>1, DrainingSteps
    <3>2. /\ UNCHANGED timer
          /\ \A d \in Cancel \ {c} : call'[d] = call[d]
          /\ call'[c].step = "refused"
          /\ \/ UNCHANGED <<state, intent, cancelId>>
             \/ /\ call[c].job \in Job /\ launch[call[c].job] = "none"
                /\ call[c].step = "withdraw"
                /\ state' = [state EXCEPT ![call[c].job] = "queued"]
                /\ intent' = [intent EXCEPT ![call[c].job] = "none"]
                /\ cancelId' = [cancelId EXCEPT ![call[c].job] = None]
      BY <2>1 DEF WithdrawFails, SchedulerInv, HolderInv, CallInv, Caller, Answer
    <3> QED
      BY <3>1, <3>2 DEF Relaunched, SchedulerInv, HolderInv, CallInv
  <2>2. ASSUME NEW j \in Job, Withdraw(c, j)
        PROVE  WaitInv'
    BY <2>2 DEF Withdraw, CancelBegin
  <2>3. ASSUME NEW j \in Job, RecordBegin(c, j)
        PROVE  WaitInv'
    BY <2>3 DEF RecordBegin, CancelBegin
  <2>4. CASE RecordSaved(c) \/ RecordFails(c)
    BY <2>4 DEF RecordSaved, RecordFails, Answer, SchedulerInv, HolderInv, CallInv
  <2>5. CASE WithdrawSaved(c) \/ \E j \in Job : CancelAnswered(c, j)
    BY <2>5 DEF WithdrawSaved, CancelAnswered, CancelBegin, Answer
  <2> QED
    BY <1>4, <2>1, <2>2, <2>3, <2>4, <2>5 DEF Calling
<1>5. CASE Shutting
  <2>1. CASE CloseSaveFails
    BY <2>1 DEF CloseSaveFails, SchedulerInv, HolderInv, CloseInv
  <2>2. ASSUME NEW j \in Job, CloseVisit(j)
        PROVE  WaitInv'
    BY <2>2 DEF CloseVisit
  <2> QED
    BY <1>1, <1>5, <2>1, <2>2 DEF Shutting, CloseBegin, CloseWaits, CloseSaved
<1>6. CASE Booting
  <2>1. CASE Stop
    BY <2>1 DEF Stop
  <2>2. ASSUME NEW j \in Job, LoadJob(j)
        PROVE  WaitInv'
    BY <2>2 DEF LoadJob, Terminal, Outcome
  <2> QED
    BY <1>1, <1>6, <2>1, <2>2 DEF Booting, Crash, Exit, Start, Loaded
<1>7. ASSUME NEW j \in Job, Terminating(j)
      PROVE  WaitInv'
  <2>1. CASE TimerFires(j)
    BY <2>1 DEF TimerFires
  <2> QED
    BY <1>1, <1>7, <2>1 DEF Terminating, ChildExits, EscalationKills
<1> QED
  BY <1>1, <1>2, <1>3, <1>4, <1>5, <1>6, <1>7 DEF Next, Persisting, Persists,
     Snapshot, Rename, vars

(* Every job of the map has a record, except the one whose first persist   *)
(* has not been renamed yet; what a persist renames is a record.           *)
RecordedInv ==
  /\ \A j \in Job : state[j] # "absent" =>
       \/ disk[j] # None
       \/ /\ admission.step = "saving" /\ admission.job = j
          /\ save["submit"].phase # "renamed"
  /\ \A p \in Savers : save[p].phase = "written" => save[p].record # None

\* Every step keeps what the job files say of the launches.
LEMMA RecordedKept ==
  ASSUME SchedulerInv, RecordedInv, [Next]_vars
  PROVE  RecordedInv'
<1> USE Shapes, RecordAssumption DEF RecordAssumption, RecordedInv, NoSave, Saving
<1>1. CASE UNCHANGED <<state, admission, save, disk>>
  BY <1>1
<1>2. CASE Submitting
  <2>1. CASE SubmitSaved
    BY <2>1 DEF SubmitSaved, Saved
  <2>2. CASE SubmitAdmit
    BY <2>2 DEF SubmitAdmit, Savers
  <2>3. CASE SubmitSaveFails
    BY <2>3 DEF SubmitSaveFails
  <2>4. CASE SubmitRemoved
    BY <2>4 DEF SubmitRemoved, SchedulerInv, HolderInv, AdmissionInv
  <2>5. CASE SubmitRefused \/ \E j \in Job : SubmitBegin(j)
    BY <2>5 DEF SubmitRefused, SubmitBegin
  <2> QED
    BY <1>2, <2>1, <2>2, <2>3, <2>4, <2>5 DEF Submitting
<1>3. ASSUME NEW j \in Job, Launching(j)
      PROVE  RecordedInv'
  <2> USE SaverNames, LaunchedIsKnown
  <2>1. CASE LaunchStop(j)
    BY <2>1 DEF LaunchStop
  <2>2. CASE LaunchFails(j)
    BY <2>2 DEF LaunchFails, ErrorState
  <2>3. CASE LaunchStarted(j)
    BY <2>3 DEF LaunchStarted
  <2>4. CASE LaunchStartSaved(j)
    BY <2>4 DEF LaunchStartSaved
  <2>10. CASE LaunchStartSaveFails(j)
    BY <2>10 DEF LaunchStartSaveFails
  <2>5. CASE LaunchAbandoned(j)
    BY <2>5 DEF LaunchAbandoned, ErrorState
  <2>9. CASE LaunchPublished(j)
    BY <2>9 DEF LaunchPublished
  <2>8. CASE LaunchPublishFails(j)
    BY <2>8 DEF LaunchPublishFails
  <2>6. CASE LaunchFlushed(j)
    BY <2>6 DEF LaunchFlushed, Finish, EndState
  <2>7. CASE LaunchSettled(j)
    BY <2>7 DEF LaunchSettled, Finish, EndState
  <2> QED
    BY <1>1, <1>3, <2>1, <2>2, <2>3, <2>4, <2>5, <2>6, <2>7, <2>8, <2>9,
       <2>10 DEF Launching, LaunchPrepare, LaunchSpawn, LaunchClosed
<1>4. ASSUME NEW c \in Cancel, Calling(c)
      PROVE  RecordedInv'
  <2> USE SaverNames DEF SchedulerInv, HolderInv, CallInv
  <2>1. CASE WithdrawFails(c)
    BY <2>1 DEF WithdrawFails
  <2>2. ASSUME NEW j \in Job, Withdraw(c, j)
        PROVE  RecordedInv'
    BY <2>2 DEF Withdraw, CancelBegin, Record, JobState, Terminal, Outcome
  <2>3. ASSUME NEW j \in Job, RecordBegin(c, j)
        PROVE  RecordedInv'
    BY <2>3 DEF RecordBegin, CancelBegin
  <2>4. CASE RecordSaved(c) \/ RecordFails(c) \/ WithdrawSaved(c)
    BY <2>4 DEF RecordSaved, RecordFails, WithdrawSaved
  <2> QED
    BY <1>1, <1>4, <2>1, <2>2, <2>3, <2>4 DEF Calling, CancelAnswered
<1>5. CASE Shutting
  <2>1. CASE CloseSaveFails
    BY <2>1, SaverNames DEF CloseSaveFails, SchedulerInv, HolderInv, CloseInv
  <2>2. ASSUME NEW j \in Job, CloseVisit(j)
        PROVE  RecordedInv'
    BY <2>2, SaverNames DEF CloseVisit, Waiting
  <2>3. CASE CloseSaved
    BY <2>3, SaverNames DEF CloseSaved
  <2> QED
    BY <1>1, <1>5, <2>1, <2>2, <2>3 DEF Shutting, CloseBegin, CloseWaits
<1>6. CASE Booting
  <2>1. CASE Stop
    BY <2>1 DEF Stop
  <2>2. ASSUME NEW j \in Job, LoadJob(j)
        PROVE  RecordedInv'
    BY <2>2, JobLoaded
  <2> QED
    BY <1>1, <1>6, <2>1, <2>2 DEF Booting, Crash, Exit, Start, Loaded
<1>7. ASSUME NEW p \in Savers, Persists(p)
      PROVE  RecordedInv'
  <2>1. CASE Snapshot(p)
    BY <2>1, SnapshotTaken, SaverNames DEF Snapshot
  <2>2. CASE Rename(p)
    BY <2>2, SaverNames DEF Rename, SchedulerInv, TypeOK, Persist, HolderInv,
       SaveInv
  <2> QED
    BY <1>7, <2>1, <2>2 DEF Persists
<1> QED
  BY <1>1, <1>2, <1>3, <1>4, <1>5, <1>6, <1>7 DEF Next, Persisting, vars,
     Terminating, ChildExits, TimerFires, EscalationKills

(* An identity that has spawned is out of reach of everything that could   *)
(* spawn again: it stays in the map while the daemon is up, no submission  *)
(* and no withdrawal holds it, and it is queued only behind its child.     *)
SpawnInv ==
  \A j \in Job : spawns[j] # 0 =>
    /\ spawns[j] = 1
    /\ disk[j] # None
    /\ Up => state[j] # "absent"
    /\ launch[j] \notin {"check", "preparing"}
    /\ state[j] = "queued" => launch[j] = "spawning"
    /\ admission.step = "saving" => admission.job # j
    /\ \A c \in Cancel : call[c].step = "withdraw" => call[c].job # j

\* Every step keeps the count of the spawns.
LEMMA SpawnKept ==
  ASSUME SchedulerInv, PhaseInv, RecordedInv, SpawnInv, [Next]_vars
  PROVE  SpawnInv'
<1> USE Shapes DEF SpawnInv, PhaseInv, Up
<1>1. CASE UNCHANGED <<daemon, state, launch, spawns, admission, call, disk>>
  BY <1>1
<1>2. CASE Submitting
  <2>1. CASE SubmitSaved
    <3>1. Relaunched(state, launch)
      BY <2>1, DrainingSteps
    <3> QED
      BY <2>1, <3>1 DEF Relaunched, SubmitSaved
  <2>2. CASE SubmitAdmit
    BY <2>2 DEF SubmitAdmit, SchedulerInv, HolderInv, AdmissionInv
  <2>3. CASE SubmitSaveFails
    BY <2>3 DEF SubmitSaveFails
  <2>4. CASE SubmitRemoved
    BY <2>4 DEF SubmitRemoved, SchedulerInv, HolderInv, AdmissionInv
  <2>5. CASE SubmitRefused \/ \E j \in Job : SubmitBegin(j)
    BY <2>5 DEF SubmitRefused, SubmitBegin
  <2> QED
    BY <1>2, <2>1, <2>2, <2>3, <2>4, <2>5 DEF Submitting
<1>3. ASSUME NEW j \in Job, Launching(j)
      PROVE  SpawnInv'
  <2>1. CASE LaunchStop(j)
    BY <2>1 DEF LaunchStop
  <2>2. CASE LaunchPrepare(j)
    BY <2>2 DEF LaunchPrepare
  <2>3. CASE LaunchSpawn(j)
    <3>1. /\ spawns[j] = 0 /\ spawns'[j] \in {0, 1} /\ disk[j] # None
          /\ \A c \in Cancel : call[c].step = "withdraw" => call[c].job # j
          /\ admission.step = "saving" => admission.job # j
      BY <2>3 DEF LaunchSpawn, RecordedInv, SchedulerInv, HolderInv,
         AdmissionInv, CallInv, TypeOK
    <3> QED
      BY <2>3, <3>1 DEF LaunchSpawn
  <2>4. CASE LaunchFails(j)
    BY <2>4 DEF LaunchFails, ErrorState
  <2>5. CASE LaunchStarted(j)
    BY <2>5 DEF LaunchStarted
  <2>6. CASE LaunchStartSaved(j)
    BY <2>6 DEF LaunchStartSaved
  <2>7. CASE LaunchStartSaveFails(j)
    BY <2>7 DEF LaunchStartSaveFails
  <2>8. CASE LaunchAbandoned(j)
    BY <2>8 DEF LaunchAbandoned, ErrorState
  <2>9. CASE LaunchClosed(j)
    BY <2>9 DEF LaunchClosed
  <2>10. CASE LaunchFlushed(j)
    BY <2>10 DEF LaunchFlushed, Finish, EndState
  <2>11. CASE LaunchSettled(j)
    BY <2>11 DEF LaunchSettled, Finish, EndState
  <2>12. CASE LaunchPublished(j)
    <3>1. Relaunched(state, [launch EXCEPT ![j] = "none"])
      BY <2>12, DrainingSteps
    <3>2. /\ UNCHANGED <<daemon, state, spawns, admission, call, disk>>
          /\ launch[j] \in {"publish", "republish"}
      BY <2>12 DEF LaunchPublished
    <3> QED
      BY <3>1, <3>2 DEF Relaunched, Terminal, Outcome
  <2>13. CASE LaunchPublishFails(j)
    BY <2>13 DEF LaunchPublishFails
  <2> QED
    BY <1>3, <2>1, <2>2, <2>3, <2>4, <2>5, <2>6, <2>7, <2>8, <2>9, <2>10,
       <2>11, <2>12, <2>13 DEF Launching
<1>4. ASSUME NEW c \in Cancel, Calling(c)
      PROVE  SpawnInv'
  <2>1. CASE WithdrawFails(c)
    <3>1. Relaunched(state', launch)
      BY <2>1, DrainingSteps
    <3>2. /\ UNCHANGED <<daemon, spawns, admission, disk>>
          /\ \A d \in Cancel \ {c} : call'[d] = call[d]
          /\ call'[c].step = "refused"
          /\ \/ state' = state
             \/ /\ call[c].job \in Job /\ call[c].step = "withdraw"
                /\ state' = [state EXCEPT ![call[c].job] = "queued"]
      BY <2>1 DEF WithdrawFails, Answer, SchedulerInv, HolderInv, CallInv
    <3> QED
      BY <3>1, <3>2 DEF Relaunched
  <2>2. ASSUME NEW j \in Job, Withdraw(c, j)
        PROVE  SpawnInv'
    <3>1. /\ state[j] = "queued" /\ launch[j] = "none"
          /\ UNCHANGED <<daemon, launch, spawns, admission, disk>>
          /\ state' = [state EXCEPT ![j] = "cancelled"]
          /\ \A d \in Cancel \ {c} : call'[d] = call[d]
          /\ call'[c].job = j
      BY <2>2 DEF Withdraw, Waiting, SchedulerInv, TypeOK, Caller
    <3> QED
      BY <3>1
  <2>3. ASSUME NEW j \in Job, RecordBegin(c, j)
        PROVE  SpawnInv'
    BY <2>3 DEF RecordBegin, SchedulerInv, TypeOK, Caller
  <2>4. CASE \/ RecordSaved(c) \/ RecordFails(c) \/ WithdrawSaved(c)
             \/ \E j \in Job : CancelAnswered(c, j)
    BY <2>4 DEF RecordSaved, RecordFails, WithdrawSaved, CancelAnswered, Answer
  <2> QED
    BY <1>4, <2>1, <2>2, <2>3, <2>4 DEF Calling
<1>5. CASE Shutting
  <2>1. CASE CloseSaveFails
    BY <2>1 DEF CloseSaveFails
  <2>2. ASSUME NEW j \in Job, CloseVisit(j)
        PROVE  SpawnInv'
    BY <2>2 DEF CloseVisit, Waiting
  <2> QED
    BY <1>1, <1>5, <2>1, <2>2 DEF Shutting, CloseBegin, CloseWaits, CloseSaved
<1>6. CASE Booting
  <2>1. CASE Stop
    BY <2>1, StopCalls DEF Stop
  <2>2. ASSUME NEW j \in Job, LoadJob(j)
        PROVE  SpawnInv'
    BY <2>2, JobLoaded DEF Terminal, Outcome
  <2>3. CASE Loaded
    BY <2>3 DEF Loaded, AllLoaded
  <2>4. CASE Start
    BY <2>4 DEF Start
  <2> QED
    BY <1>6, <2>1, <2>2, <2>3, <2>4 DEF Booting, Crash, Exit
<1>7. ASSUME NEW p \in Savers, Persists(p)
      PROVE  SpawnInv'
  <2>1. CASE Rename(p)
    BY <2>1 DEF Rename, RecordedInv, SchedulerInv, HolderInv, SaveInv
  <2> QED
    BY <1>1, <1>7, <2>1 DEF Persists, Snapshot
<1> QED
  BY <1>1, <1>2, <1>3, <1>4, <1>5, <1>6, <1>7 DEF Next, Persisting, vars,
     Terminating, ChildExits, TimerFires, EscalationKills

(* One identity never spawns a second child, whatever is resubmitted,      *)
(* cancelled, lost or restarted, and a child is never without a record.    *)
LifeInv ==
  SchedulerInv /\ PhaseInv /\ WaitInv /\ RecordedInv /\ SpawnInv

\* It holds in the first state.
LEMMA InitLife == Init => LifeInv
<1> SUFFICES ASSUME Init PROVE LifeInv
  OBVIOUS
<1>1. SchedulerInv
  BY InitHolds
<1>2. PhaseInv /\ WaitInv /\ RecordedInv /\ SpawnInv
  BY DEF Init, StartsWith, PhaseInv, WaitInv, Waiting, RecordedInv, SpawnInv, NoSave
<1> QED
  BY <1>1, <1>2 DEF LifeInv

\* The life of a job is kept, whichever persist fails.
THEOREM LifeCorrect == Spec => []LifeInv
<1>1. ASSUME LifeInv, [Next]_vars
      PROVE  LifeInv'
  <2>1. SchedulerInv'
    BY <1>1, SchedulerKept DEF LifeInv
  <2>2. PhaseInv' /\ WaitInv' /\ RecordedInv' /\ SpawnInv'
    BY <1>1, PhaseKept, WaitKept, RecordedKept, SpawnKept DEF LifeInv
  <2> QED
    BY <2>1, <2>2 DEF LifeInv
<1> QED
  BY InitLife, <1>1, PTL DEF Spec

\* SpawnedAtMostOnce: the strengthening is SpawnInv.
THEOREM SpawnsOnce == Spec => []SpawnedAtMostOnce
<1>1. LifeInv => SpawnedAtMostOnce
  BY DEF LifeInv, SpawnInv, SpawnedAtMostOnce
<1> QED
  BY <1>1, LifeCorrect, PTL

\* SpawnIsRecorded: the record precedes the child and is never removed.
THEOREM SpawnsRecorded == Spec => []SpawnIsRecorded
<1>1. LifeInv => SpawnIsRecorded
  BY DEF LifeInv, SpawnInv, SpawnIsRecorded
<1> QED
  BY <1>1, LifeCorrect, PTL

-----------------------------------------------------------------------------
(* Without a daemon that is up nobody waits: the queue is empty, nothing is *)
(* launched or persisted, no caller is answered and no job is live.        *)
DownInv ==
  ~Up =>
    /\ queue = <<>> /\ close.step = "open"
    /\ \A j \in Job : launch[j] = "none" /\ state[j] \notin {"queued", "running"}
    /\ \A c \in Cancel : call[c].step \notin {"withdraw", "detached", "record"}
    /\ \A p \in Savers : save[p].phase = "idle"

\* Only the end and the start of a generation change what DownInv is about.
LEMMA DownSteps ==
  ASSUME SchedulerInv, DownInv, [Next]_vars, ~Booting, ~Up
  PROVE  UNCHANGED <<daemon, state, launch, queue, running, call, close, save,
                     disk, announced, admission>>
<1> USE Shapes, SaverNames DEF DownInv
<1>1. admission.step = "idle"
  BY DEF SchedulerInv, HolderInv, AdmissionInv
<1>2. CASE Submitting
  BY <1>1, <1>2 DEF Submitting, SubmitBegin, SubmitRefused, SubmitAdmit,
     SubmitSaved, SubmitSaveFails, SubmitRemoved
<1>3. ASSUME NEW j \in Job, Launching(j)
      PROVE  FALSE
  BY <1>3 DEF Launching, LaunchStop, LaunchPrepare, LaunchSpawn, LaunchFails,
     LaunchStarted, LaunchStartSaved, LaunchStartSaveFails, LaunchAbandoned,
     LaunchClosed, LaunchFlushed, LaunchSettled, LaunchPublished,
     LaunchPublishFails
<1>4. ASSUME NEW c \in Cancel, Calling(c)
      PROVE  FALSE
  BY <1>4 DEF Calling, CancelAnswered, Withdraw, RecordBegin, CancelBegin,
     WithdrawSaved, WithdrawFails, RecordSaved, RecordFails
<1>5. CASE Shutting
  BY <1>5 DEF Shutting, CloseBegin, CloseWaits, CloseSaved, CloseSaveFails,
     CloseVisit
<1>6. CASE Persisting
  BY <1>6 DEF Persisting, Persists, Snapshot, Rename
<1>7. ASSUME NEW j \in Job, Terminating(j)
      PROVE  UNCHANGED <<daemon, state, launch, queue, running, call, close,
                         save, disk, announced, admission>>
  BY <1>7 DEF Terminating, ChildExits, TimerFires, EscalationKills
<1> QED
  BY <1>2, <1>3, <1>4, <1>5, <1>6, <1>7 DEF Next, vars

\* The daemon goes up, down or on only in the steps of Booting.
LEMMA DaemonSteps ==
  ASSUME [Next]_vars, ~Booting
  PROVE  daemon' = daemon
<1>1. CASE Submitting \/ Persisting
  BY <1>1 DEF Submitting, SubmitBegin, SubmitRefused, SubmitAdmit, SubmitSaved,
     SubmitSaveFails, SubmitRemoved, Persisting, Persists, Snapshot, Rename
<1>2. ASSUME NEW j \in Job, Launching(j)
      PROVE  daemon' = daemon
  BY <1>2 DEF Launching, LaunchStop, LaunchPrepare, LaunchSpawn, LaunchFails,
     LaunchStarted, LaunchStartSaved, LaunchStartSaveFails, LaunchAbandoned,
     LaunchClosed, LaunchFlushed, LaunchSettled, LaunchPublished,
     LaunchPublishFails
<1>3. ASSUME NEW c \in Cancel, Calling(c)
      PROVE  daemon' = daemon
  BY <1>3 DEF Calling, CancelAnswered, Withdraw, RecordBegin, WithdrawSaved,
     WithdrawFails, RecordSaved, RecordFails
<1>4. CASE Shutting
  BY <1>4 DEF Shutting, CloseBegin, CloseWaits, CloseSaved, CloseSaveFails,
     CloseVisit
<1>5. ASSUME NEW j \in Job, Terminating(j)
      PROVE  daemon' = daemon
  BY <1>5 DEF Terminating, ChildExits, TimerFires, EscalationKills
<1> QED
  BY <1>1, <1>2, <1>3, <1>4, <1>5 DEF Next, vars

\* Every step keeps what is true of a host that is down or closing.
LEMMA DownKept ==
  ASSUME SchedulerInv, DownInv, [Next]_vars
  PROVE  DownInv'
<1>1. CASE ~Booting /\ Up
  BY <1>1, DaemonSteps DEF DownInv, Up
<1>2. CASE ~Booting /\ ~Up
  BY <1>2, DownSteps DEF DownInv, Up
<1>3. CASE Stop
  BY <1>3, StopCalls DEF Stop, DownInv, NoSave
<1>4. ASSUME NEW j \in Job, LoadJob(j)
      PROVE  DownInv'
  BY <1>4, JobLoaded DEF DownInv, Up, Terminal, Outcome
<1>5. CASE Start \/ Loaded
  BY <1>5 DEF Start, Loaded, DownInv, Up
<1> QED
  BY <1>1, <1>2, <1>3, <1>4, <1>5 DEF Booting, Crash, Exit

-----------------------------------------------------------------------------
(* No slot is idle while a job waits. Every handler that frees a slot or   *)
(* lengthens the queue drains it, and drain() launches one job, which is   *)
(* enough because the queue was empty whenever another slot was free.      *)
\* The three handlers that drain leave no idle slot.
LEMMA DrainedIdle ==
  ASSUME SchedulerInv, NoIdleSlot, Up, ~Closing,
         \/ SubmitSaved
         \/ \E j \in Job : LaunchPublished(j)
         \/ \E c \in Cancel : WithdrawFails(c)
  PROVE  running' < MaxConcurrent => queue' = <<>>
<1> USE ConstantsAssumption, ScheduleFacts DEF ConstantsAssumption
<1>1. queue = <<>> => Len(queue) = 0
  BY EmptySeq
<1>2. running < MaxConcurrent => queue = <<>>
  BY DEF NoIdleSlot
<1>3. CASE SubmitSaved
  <2>1. admission.job \in Job
    BY <1>3 DEF SubmitSaved, SchedulerInv, HolderInv, AdmissionInv
  <2>2. Len(Append(queue, admission.job)) = Len(queue) + 1
    BY <2>1, AppendProperties
  <2>3. Append(queue, admission.job) \in Seq(Job)
        /\ Drain(Append(queue, admission.job), state, running, launch)
    BY <1>3, SubmitSavedSettles DEF SubmitSaved
  <2>4. running + 1 < MaxConcurrent => Len(Append(queue, admission.job)) <= 1
    BY <1>1, <1>2, <2>2
  <2> QED
    BY <2>3, <2>4, DrainFills
<1>4. ASSUME NEW j \in Job, LaunchPublished(j)
      PROVE  running' < MaxConcurrent => queue' = <<>>
  <2>1. /\ running - 1 \in Nat
        /\ Drain(queue, state, running - 1, [launch EXCEPT ![j] = "none"])
    BY <1>4, FreedSlotSettles DEF LaunchPublished, FreeSlot
  <2>2. [launch EXCEPT ![j] = "none"] \in [Job -> LaunchStep]
    BY DEF LaunchStep
  <2>3. (running - 1) + 1 < MaxConcurrent => Len(queue) <= 1
    BY <1>1, <1>2
  <2> QED
    BY <2>1, <2>2, <2>3, DrainFills
<1>5. ASSUME NEW c \in Cancel, WithdrawFails(c)
      PROVE  running' < MaxConcurrent => queue' = <<>>
  <2>1. CASE call[c].step = "withdraw" /\ call[c].slot > 0
             /\ ~Contains(queue, call[c].job)
    <3>1. PICK q \in Seq(Job) : /\ Len(q) = Len(queue) + 1
                                /\ Drain(q, state', running, launch)
      BY <1>5, <2>1, RollbackSettles
    <3>2. running + 1 < MaxConcurrent => Len(q) <= 1
      BY <1>1, <1>2, <3>1
    <3> QED
      BY <3>1, <3>2, DrainFills
  <2>2. CASE ~(call[c].step = "withdraw" /\ call[c].slot > 0
               /\ ~Contains(queue, call[c].job))
    BY <1>2, <1>5, <2>2 DEF WithdrawFails
  <2> QED
    BY <2>1, <2>2
<1> QED
  BY <1>3, <1>4, <1>5

\* Every step leaves no slot idle.
LEMMA IdleKept ==
  ASSUME SchedulerInv, DownInv, NoIdleSlot, [Next]_vars
  PROVE  NoIdleSlot'
<1> USE DEF NoIdleSlot, Up, Closing
<1>1. CASE UNCHANGED <<daemon, close, queue, running>>
  BY <1>1
<1>2. CASE \/ SubmitSaved
           \/ \E j \in Job : LaunchPublished(j)
           \/ \E c \in Cancel : WithdrawFails(c)
  <2>1. UNCHANGED <<daemon, close>>
    BY <1>2 DEF SubmitSaved, LaunchPublished, WithdrawFails
  <2> QED
    BY <1>2, <2>1, DrainedIdle
<1>3. ASSUME NEW c \in Cancel, NEW j \in Job, Withdraw(c, j)
      PROVE  NoIdleSlot'
  <2>1. CASE queue = <<>>
    BY <1>3, <2>1, EmptySeq DEF Withdraw
  <2>2. CASE queue # <<>>
    BY <1>3, <2>2 DEF Withdraw, CancelBegin
  <2> QED
    BY <2>1, <2>2
<1>4. CASE Shutting
  <2>1. close'.step # "open"
    <3>1. close \in Closer
      BY DEF SchedulerInv, TypeOK
    <3>2. CASE CloseBegin \/ CloseWaits
      BY <3>1, <3>2 DEF CloseBegin, CloseWaits, Closer
    <3>3. CASE CloseSaved \/ CloseSaveFails
      BY <3>1, <3>3 DEF CloseSaved, CloseSaveFails, Closer
    <3>4. CASE \E j \in Job : CloseVisit(j)
      BY <3>4 DEF CloseVisit
    <3> QED
      BY <1>4, <3>2, <3>3, <3>4 DEF Shutting
  <2> QED
    BY <2>1
<1>5. CASE Booting
  BY <1>5 DEF Booting, Crash, Exit, Stop, Start, LoadJob, Loaded, DownInv
<1>6. ASSUME ~Shutting, ~Booting,
             ~(\/ SubmitSaved
               \/ \E j \in Job : LaunchPublished(j)
               \/ \E c \in Cancel : WithdrawFails(c)),
             \A c \in Cancel, j \in Job : ~Withdraw(c, j)
      PROVE  UNCHANGED <<daemon, close, queue, running>>
  BY ZenonT(30), <1>6
  DEF Next, vars, Persisting, Persists, Snapshot, Rename, Submitting,
     SubmitBegin, SubmitRefused, SubmitAdmit, SubmitSaveFails, SubmitRemoved,
     Launching, LaunchStop, LaunchPrepare, LaunchSpawn, LaunchFails,
     LaunchStarted, LaunchStartSaved, LaunchStartSaveFails, LaunchAbandoned,
     LaunchClosed, LaunchFlushed, LaunchSettled, LaunchPublishFails,
     Terminating, ChildExits, TimerFires, EscalationKills, Calling,
     CancelAnswered, RecordBegin, WithdrawSaved, RecordSaved, RecordFails
<1> QED
  BY <1>1, <1>2, <1>3, <1>4, <1>5, <1>6

\* NoIdleSlot: with what holds while no daemon is up it is inductive.
THEOREM NeverIdle == Spec => []NoIdleSlot
<1>1. Init => SchedulerInv /\ DownInv /\ NoIdleSlot
  BY InitHolds DEF Init, StartsWith, DownInv, NoIdleSlot, NoSave, Up
<1>2. ASSUME SchedulerInv, DownInv, NoIdleSlot, [Next]_vars
      PROVE  (SchedulerInv /\ DownInv /\ NoIdleSlot)'
  BY <1>2, SchedulerKept, DownKept, IdleKept
<1> QED
  BY <1>1, <1>2, PTL DEF Spec

-----------------------------------------------------------------------------
(* A queued job is in the queue, in launch() or still being admitted, if   *)
(* no withdrawal has to be rolled back: the rollback of a withdrawal that  *)
(* overtook the admission does not put the job into the queue.             *)
QueuedInv ==
  \A j \in Job : state[j] = "queued" =>
    \/ j \in Range(queue)
    \/ launch[j] # "none"
    \/ admission.step = "saving" /\ admission.job = j

\* A handler that drains leaves every queued job it found in the queue there,
\* or launches it.
LEMMA DrainedForgetsNone ==
  ASSUME SchedulerInv, NEW k \in Job, state[k] = "queued"
  PROVE  /\ SubmitSaved /\ (k \in Range(queue) \/ k = admission.job) =>
              k \in Range(queue') \/ launch'[k] # "none"
         /\ \A j \in Job : LaunchPublished(j) /\ k \in Range(queue) =>
              k \in Range(queue') \/ launch'[k] # "none"
<1>1. ASSUME SubmitSaved, k \in Range(queue) \/ k = admission.job
      PROVE  k \in Range(queue') \/ launch'[k] # "none"
  <2>1. PICK q \in Seq(Job) : /\ Range(q) = Range(queue) \cup {admission.job}
                              /\ Drain(q, state, running, launch)
    BY <1>1, SubmitSavedSettles DEF SubmitSaved
  <2>2. \A i \in Range(q) : state[i] = "queued" =>
          i \in Range(queue') \/ launch'[i] # "none"
    BY <2>1, DrainForgetsNone, ScheduleFacts
  <2> QED
    BY <1>1, <2>1, <2>2
<1>2. ASSUME NEW j \in Job, LaunchPublished(j), k \in Range(queue)
      PROVE  k \in Range(queue') \/ launch'[k] # "none"
  <2>1. PICK at \in [Job -> LaunchStep], busy \in Nat :
          Drain(queue, state, busy, at)
    <3>1. [launch EXCEPT ![j] = "none"] \in [Job -> LaunchStep]
      BY ScheduleFacts DEF LaunchStep
    <3> QED
      BY <1>2, <3>1, FreedSlotSettles DEF LaunchPublished, FreeSlot
  <2>2. \A i \in Range(queue) : state[i] = "queued" =>
          i \in Range(queue') \/ launch'[i] # "none"
    BY <2>1, DrainForgetsNone, ScheduleFacts
  <2> QED
    BY <1>2, <2>2
<1> QED
  BY <1>1, <1>2

\* Every step keeps the queued jobs in the queue or on their way.
LEMMA QueuedKept ==
  ASSUME "withdraw" \notin FailingSaves,
         SchedulerInv, PhaseInv, DownInv, QueuedInv, [Next]_vars
  PROVE  QueuedInv'
<1> USE Shapes DEF QueuedInv, PhaseInv
<1>1. CASE UNCHANGED <<state, launch, queue, admission>>
  BY <1>1
<1>2. CASE Submitting
  <2>1. CASE SubmitSaved
    <3>1. Relaunched(state, launch) /\ UNCHANGED state
          /\ admission'.step = "idle"
      BY <2>1, DrainingSteps DEF SubmitSaved
    <3> QED
      BY <2>1, <3>1, DrainedForgetsNone DEF Relaunched
  <2>2. CASE SubmitAdmit
    BY <2>2 DEF SubmitAdmit, SchedulerInv, TypeOK, Admission
  <2>3. CASE SubmitSaveFails
    BY <2>3 DEF SubmitSaveFails
  <2>4. CASE SubmitRemoved \/ SubmitRefused \/ \E j \in Job : SubmitBegin(j)
    BY <2>4 DEF SubmitRemoved, SubmitRefused, SubmitBegin
  <2> QED
    BY <1>2, <2>1, <2>2, <2>3, <2>4 DEF Submitting
<1>3. ASSUME NEW j \in Job, Launching(j)
      PROVE  QueuedInv'
  <2>1. CASE LaunchPublished(j)
    <3>1. /\ Relaunched(state, [launch EXCEPT ![j] = "none"])
          /\ UNCHANGED <<state, admission>> /\ launch[j] \in {"publish", "republish"}
      BY <2>1, DrainingSteps DEF LaunchPublished
    <3> QED
      BY <2>1, <3>1, DrainedForgetsNone DEF Relaunched, Terminal, Outcome
  <2>2. CASE LaunchStop(j)
    BY <2>2 DEF LaunchStop
  <2>3. CASE LaunchPrepare(j) \/ LaunchSpawn(j)
    BY <2>3 DEF LaunchPrepare, LaunchSpawn
  <2>4. CASE LaunchFails(j)
    BY <2>4 DEF LaunchFails, ErrorState
  <2>5. CASE LaunchStarted(j)
    BY <2>5 DEF LaunchStarted
  <2>6. CASE LaunchStartSaved(j) \/ LaunchStartSaveFails(j)
    BY <2>6 DEF LaunchStartSaved, LaunchStartSaveFails
  <2>7. CASE LaunchAbandoned(j)
    BY <2>7 DEF LaunchAbandoned, ErrorState
  <2>8. CASE LaunchClosed(j)
    BY <2>8 DEF LaunchClosed
  <2>9. CASE LaunchFlushed(j)
    BY <2>9 DEF LaunchFlushed, Finish, EndState
  <2>10. CASE LaunchSettled(j)
    BY <2>10 DEF LaunchSettled, Finish, EndState
  <2>11. CASE LaunchPublishFails(j)
    BY <2>11 DEF LaunchPublishFails
  <2> QED
    BY <1>3, <2>1, <2>2, <2>3, <2>4, <2>5, <2>6, <2>7, <2>8, <2>9, <2>10,
       <2>11 DEF Launching
<1>4. ASSUME NEW c \in Cancel, Calling(c)
      PROVE  QueuedInv'
  <2>1. ~WithdrawFails(c)
    BY DEF WithdrawFails, SaveFails
  <2>2. ASSUME NEW j \in Job, Withdraw(c, j)
        PROVE  QueuedInv'
    <3>1. Range(queue') = Range(queue) \ {j}
      BY <2>2, WithdrawTakes
    <3>2. UNCHANGED <<launch, admission>> /\ state' = [state EXCEPT ![j] = "cancelled"]
      BY <2>2 DEF Withdraw
    <3> QED
      BY <3>1, <3>2
  <2> QED
    BY <1>1, <1>4, <2>1, <2>2 DEF Calling, CancelAnswered, RecordBegin,
       WithdrawSaved, RecordSaved, RecordFails
<1>5. CASE Shutting
  <2>1. CASE CloseSaveFails
    BY <2>1 DEF CloseSaveFails
  <2>2. ASSUME NEW j \in Job, CloseVisit(j)
        PROVE  QueuedInv'
    BY <2>2 DEF CloseVisit
  <2> QED
    BY <1>1, <1>5, <2>1, <2>2 DEF Shutting, CloseBegin, CloseWaits, CloseSaved
<1>6. CASE Booting
  <2>1. CASE Stop
    BY <2>1 DEF Stop
  <2>2. ASSUME NEW j \in Job, LoadJob(j)
        PROVE  QueuedInv'
    BY <2>2, JobLoaded DEF Terminal, Outcome
  <2> QED
    BY <1>1, <1>6, <2>1, <2>2 DEF Booting, Crash, Exit, Start, Loaded
<1> QED
  BY <1>1, <1>2, <1>3, <1>4, <1>5, <1>6 DEF Next, Persisting, Persists,
     Snapshot, Rename, Terminating, ChildExits, TimerFires, EscalationKills, vars

\* QueuedIsScheduled, where no withdrawal is rolled back.
THEOREM QueuedJobsScheduled ==
  ASSUME "withdraw" \notin FailingSaves
  PROVE  Spec => []QueuedIsScheduled
<1> DEFINE Inv == SchedulerInv /\ PhaseInv /\ DownInv /\ QueuedInv
<1>1. Init => Inv
  BY InitHolds, InitLife DEF Init, StartsWith, LifeInv, DownInv, QueuedInv, NoSave, Up
<1>2. ASSUME Inv, [Next]_vars
      PROVE  Inv'
  BY <1>2, SchedulerKept, PhaseKept, DownKept, QueuedKept
<1>3. ASSUME Inv PROVE QueuedIsScheduled
  <2>1. \A j \in Range(queue) : Contains(queue, j)
    BY <1>3, ScheduleFacts DEF Range, Contains
  <2> QED
    BY <1>3, <2>1 DEF QueuedInv, QueuedIsScheduled, Active
<1> QED
  BY <1>1, <1>2, <1>3, PTL DEF Spec

(* The cancel identity of a live job is never set without the intent that  *)
(* stops it, or without the caller that is about to set the intent.        *)
CancelInv ==
  \A j \in Job : cancelId[j] # None /\ state[j] \in {"queued", "running"} =>
    \/ intent[j] # "none"
    \/ \E c \in Cancel : call[c].step = "record" /\ call[c].job = j

\* Every step keeps the cancellations in progress.
LEMMA CancelKept ==
  ASSUME SchedulerInv, PhaseInv, CancelInv, [Next]_vars
  PROVE  CancelInv'
<1> USE Shapes, LaunchedIsKnown DEF CancelInv
<1>1. CASE UNCHANGED <<state, intent, cancelId, call>>
  BY <1>1
<1>2. CASE Submitting
  <2>1. CASE SubmitAdmit
    BY <2>1 DEF SubmitAdmit
  <2>2. CASE SubmitSaveFails
    <3>1. \A c \in Cancel : call[c].step = "record" => call'[c] = call[c]
      BY <2>2 DEF SubmitSaveFails
    <3> QED
      BY <2>2, <3>1 DEF SubmitSaveFails
  <2> QED
    BY <1>1, <1>2, <2>1, <2>2 DEF Submitting, SubmitBegin, SubmitRefused,
       SubmitRemoved, SubmitSaved
<1>3. ASSUME NEW j \in Job, Launching(j)
      PROVE  CancelInv'
  <2>1. CASE LaunchStop(j)
    BY <2>1 DEF LaunchStop
  <2>2. CASE LaunchFails(j)
    BY <2>2 DEF LaunchFails, ErrorState
  <2>3. CASE LaunchStarted(j)
    BY <2>3 DEF LaunchStarted, PhaseInv
  <2>4. CASE LaunchStartSaveFails(j)
    BY <2>4 DEF LaunchStartSaveFails
  <2>5. CASE LaunchAbandoned(j)
    BY <2>5 DEF LaunchAbandoned, ErrorState
  <2>6. CASE LaunchFlushed(j)
    BY <2>6 DEF LaunchFlushed, Finish, EndState
  <2>7. CASE LaunchSettled(j)
    BY <2>7 DEF LaunchSettled, Finish, EndState
  <2>8. CASE LaunchPublishFails(j)
    BY <2>8 DEF LaunchPublishFails
  <2> QED
    BY <1>1, <1>3, <2>1, <2>2, <2>3, <2>4, <2>5, <2>6, <2>7, <2>8 DEF Launching,
       LaunchPrepare, LaunchSpawn, LaunchStartSaved, LaunchClosed, LaunchPublished
<1>4. ASSUME NEW c \in Cancel, Calling(c)
      PROVE  CancelInv'
  <2>1. CASE WithdrawFails(c)
    <3>1. /\ \A d \in Cancel \ {c} : call'[d] = call[d]
          /\ call[c].step # "record"
          /\ \/ UNCHANGED <<state, intent, cancelId>>
             \/ /\ state' = [state EXCEPT ![call[c].job] = "queued"]
                /\ intent' = [intent EXCEPT ![call[c].job] = "none"]
                /\ cancelId' = [cancelId EXCEPT ![call[c].job] = None]
      BY <2>1 DEF WithdrawFails, Answer
    <3> QED
      BY <3>1
  <2>2. ASSUME NEW j \in Job, Withdraw(c, j)
        PROVE  CancelInv'
    <3>1. /\ \A d \in Cancel \ {c} : call'[d] = call[d]
          /\ call[c].step = "idle"
          /\ state' = [state EXCEPT ![j] = "cancelled"]
          /\ intent' = [intent EXCEPT ![j] = "cancelled"]
          /\ cancelId' = [cancelId EXCEPT ![j] = c]
      BY <2>2 DEF Withdraw, CancelBegin
    <3> QED
      BY <3>1
  <2>3. ASSUME NEW j \in Job, RecordBegin(c, j)
        PROVE  CancelInv'
    <3>1. call'[c].step = "record" /\ call'[c].job = j
      BY <2>3 DEF RecordBegin, SchedulerInv, TypeOK, Caller
    <3> QED
      BY <2>3, <3>1 DEF RecordBegin, CancelBegin
  <2>4. CASE RecordSaved(c)
    BY <2>4 DEF RecordSaved, Answer
  <2>5. CASE RecordFails(c)
    BY <2>5 DEF RecordFails, Answer
  <2>6. CASE WithdrawSaved(c) \/ \E j \in Job : CancelAnswered(c, j)
    BY <2>6 DEF WithdrawSaved, CancelAnswered, CancelBegin, Answer
  <2> QED
    BY <1>4, <2>1, <2>2, <2>3, <2>4, <2>5, <2>6 DEF Calling
<1>5. CASE Shutting
  <2>1. CASE CloseSaveFails
    BY <2>1 DEF CloseSaveFails
  <2>2. ASSUME NEW j \in Job, CloseVisit(j)
        PROVE  CancelInv'
    BY <2>2 DEF CloseVisit, Waiting
  <2> QED
    BY <1>1, <1>5, <2>1, <2>2 DEF Shutting, CloseBegin, CloseWaits, CloseSaved
<1>6. CASE Booting
  <2>1. CASE Stop
    BY <2>1 DEF Stop
  <2>2. ASSUME NEW j \in Job, LoadJob(j)
        PROVE  CancelInv'
    BY <2>2, JobLoaded DEF Terminal, Outcome
  <2> QED
    BY <1>1, <1>6, <2>1, <2>2 DEF Booting, Crash, Exit, Start, Loaded
<1>7. ASSUME NEW j \in Job, Terminating(j)
      PROVE  CancelInv'
  <2>1. CASE TimerFires(j)
    BY <2>1 DEF TimerFires
  <2> QED
    BY <1>1, <1>7, <2>1 DEF Terminating, ChildExits, EscalationKills
<1> QED
  BY <1>1, <1>2, <1>3, <1>4, <1>5, <1>6, <1>7 DEF Next, Persisting, Persists,
     Snapshot, Rename, vars

-----------------------------------------------------------------------------
(* What a step of launch() and of close() does to the jobs, said once for  *)
(* the invariants that follow.                                             *)

\* A launch touches its own job only, and ends it by a terminal state: as
\* succeeded only if nothing stopped it.
LaunchEffect(j) ==
  /\ launch[j] # "none" /\ state[j] \in JobState /\ state'[j] \in JobState
  /\ \/ state'[j] = state[j]
     \/ launch[j] = "spawning" /\ state'[j] = "running" /\ launch'[j] = "starting"
     \/ /\ launch[j] \in {"check", "preparing", "spawning", "abandoning",
                          "flushing", "settling"}
        /\ state'[j] \in Terminal /\ launch'[j] = "publish"
        /\ intent[j] # "none" => state'[j] # "succeeded"
     \/ launch[j] = "publish" /\ state'[j] = "unknown" /\ launch'[j] = "republish"
  /\ intent[j] # "none" => intent'[j] # "none"
  /\ \/ launch'[j] = launch[j] \/ launch'[j] # "none"
     \/ launch[j] \in {"publish", "republish"}
  /\ launch'[j] = "none" => announced'[j] = state'[j]
  /\ \/ announced'[j] = announced[j]
     \/ /\ announced'[j] = state[j] /\ state'[j] = state[j]
        /\ \/ launch[j] = "starting" /\ launch'[j] = "running"
           \/ launch[j] \in {"publish", "republish"}
              /\ (state[j] # "queued" => launch'[j] = "none")
  /\ save'[j] \in {save[j], NoSave, Saving(j)}
  /\ \A p \in Savers \ {j} : save'[p] = save[p]
  /\ \A k \in Job \ {j} :
       /\ state'[k] = state[k] /\ intent'[k] = intent[k]
       /\ announced'[k] = announced[k] /\ proc'[k] = proc[k]
       /\ spawns'[k] = spawns[k]
       /\ \/ launch'[k] = launch[k]
          \/ launch[k] = "none" /\ launch'[k] = "check" /\ state[k] = "queued"
             /\ ~Closing
  /\ \/ proc'[j] = proc[j] /\ spawns'[j] = spawns[j]
     \/ /\ launch[j] = "preparing" /\ launch'[j] = "spawning" /\ MayProceed(j)
        /\ proc'[j] = "alive" /\ state'[j] = state[j] /\ save'[j] = save[j]
        /\ spawns'[j] = spawns[j] + 1
  /\ UNCHANGED <<hostVars, cancelId, admission, call, close, disk>>

\* What launch() does to its job and its record.
LEMMA LaunchEffects ==
  ASSUME SchedulerInv, PhaseInv, NEW j \in Job, Launching(j)
  PROVE  LaunchEffect(j)
<1>0. state[j] \in JobState \cup {"absent"} /\ intent[j] \in Intent
  BY DEF SchedulerInv, TypeOK
<1> USE Shapes, LaunchedIsKnown, SaverNames, <1>0 DEF LaunchEffect
<1>1. CASE LaunchStop(j)
  BY <1>1 DEF LaunchStop, Terminal, Outcome, JobState
<1>2. CASE LaunchPrepare(j)
  BY <1>2 DEF LaunchPrepare
<1>3. CASE LaunchSpawn(j)
  BY <1>3 DEF LaunchSpawn
<1>4. CASE LaunchFails(j)
  BY <1>4 DEF LaunchFails, ErrorState, Terminal, Outcome, JobState
<1>5. CASE LaunchStarted(j)
  BY <1>5 DEF LaunchStarted, JobState
<1>6. CASE LaunchStartSaved(j)
  BY <1>6 DEF LaunchStartSaved
<1>7. CASE LaunchStartSaveFails(j)
  BY <1>7 DEF LaunchStartSaveFails
<1>8. CASE LaunchAbandoned(j)
  BY <1>8 DEF LaunchAbandoned, ErrorState, Terminal, Outcome, JobState
<1>9. CASE LaunchClosed(j)
  BY <1>9 DEF LaunchClosed
<1>10. CASE LaunchFlushed(j)
  BY <1>10 DEF LaunchFlushed, Finish, EndState, Terminal, Outcome, JobState,
     Intent
<1>11. CASE LaunchSettled(j)
  BY <1>11 DEF LaunchSettled, Finish, EndState, Terminal, Outcome, JobState,
     Intent
<1>12. CASE LaunchPublished(j)
  <2>1. /\ Relaunched(state, [launch EXCEPT ![j] = "none"])
        /\ Closing => launch' = [launch EXCEPT ![j] = "none"]
    BY <1>12, DrainingSteps DEF LaunchPublished, FreeSlot, Drain
  <2>2. /\ save' = [save EXCEPT ![j] = NoSave]
        /\ announced' = [announced EXCEPT ![j] = state[j]]
        /\ UNCHANGED <<hostVars, jobVars, childVars, admission, call, close, disk>>
        /\ launch[j] \in {"publish", "republish"}
    BY <1>12 DEF LaunchPublished
  <2> QED
    BY <2>1, <2>2 DEF Relaunched, PhaseInv, Terminal, Outcome
<1>13. CASE LaunchPublishFails(j)
  BY <1>13 DEF LaunchPublishFails, Terminal, Outcome, JobState
<1> QED
  BY <1>1, <1>2, <1>3, <1>4, <1>5, <1>6, <1>7, <1>8, <1>9, <1>10, <1>11, <1>12,
     <1>13 DEF Launching

\* close() ends jobs that wait, and tells the state it left them in.
CloseEffect ==
  /\ close'.step # "open"
  /\ \A k \in Job :
       /\ \/ state'[k] = state[k]
          \/ /\ Waiting(k) /\ state'[k] = "interrupted"
             /\ close.step = "sweep" /\ close'.step = "publish" /\ close'.job = k
          \/ /\ close.step = "publish" /\ close.job = k /\ state'[k] = "unknown"
             /\ close'.step = "republish" /\ close'.job = k
       /\ \/ announced'[k] = announced[k]
          \/ /\ close.step \in {"publish", "republish"} /\ close.job = k
             /\ announced'[k] = state[k] /\ close'.step = "sweep"
       /\ intent[k] # "none" => intent'[k] # "none"
       /\ close.step \in {"publish", "republish"} /\ close.job = k =>
            \/ announced'[k] = state'[k]
            \/ close'.step \in {"publish", "republish"} /\ close'.job = k
  /\ \A p \in Savers \ {"close"} : save'[p] = save[p]
  /\ \/ save'["close"] \in {save["close"], NoSave}
     \/ \E k \in Job : /\ state[k] # "absent"
                       /\ save'["close"].phase = "begun" /\ save'["close"].job = k
  /\ UNCHANGED <<hostVars, cancelId, queueVars, proc, timer, spawns, admission,
                 call, disk>>

\* What close() does to the jobs.
LEMMA CloseEffects ==
  ASSUME SchedulerInv, Shutting
  PROVE  CloseEffect
<1>1. close \in Closer
  BY DEF SchedulerInv, TypeOK
<1> USE Shapes, SaverNames, <1>1 DEF CloseEffect, Saving
<1>2. CASE CloseBegin
  BY <1>2 DEF CloseBegin, Closer, Closing
<1>3. CASE CloseWaits
  BY <1>3 DEF CloseWaits, Closer
<1>4. CASE CloseSaved
  BY <1>4 DEF CloseSaved, Closer
<1>5. CASE CloseSaveFails
  BY <1>5 DEF CloseSaveFails, Closer, SchedulerInv, HolderInv, CloseInv
<1>6. ASSUME NEW j \in Job, CloseVisit(j)
      PROVE  CloseEffect
  BY <1>6 DEF CloseVisit, Waiting
<1> QED
  BY <1>2, <1>3, <1>4, <1>5, <1>6 DEF Shutting

\* A withdrawal and its rollback, while the submission is not rolled back.
LEMMA WithdrawEffects ==
  ASSUME SchedulerInv, NEW c \in Cancel, NEW j \in Job, Withdraw(c, j)
  PROVE  /\ Up /\ ~Closing /\ call[c].step = "idle" /\ Waiting(j)
         /\ cancelId[j] = None /\ ~Cancelling(j)
         /\ state' = [state EXCEPT ![j] = "cancelled"]
         /\ intent' = [intent EXCEPT ![j] = "cancelled"]
         /\ cancelId' = [cancelId EXCEPT ![j] = c]
         /\ call'[c].step = "withdraw" /\ call'[c].job = j
         /\ \A d \in Cancel \ {c} : call'[d] = call[d]
         /\ save'[c].phase = "written" /\ save'[c].job = j
         /\ save'[c].record.state = "cancelled" /\ save'[c].record # None
         /\ \A p \in Savers \ {c} : save'[p] = save[p]
         /\ UNCHANGED <<hostVars, running, launch, childVars, admission, close,
                        disk, announced>>
<1>1. call[c] \in Caller
  BY DEF SchedulerInv, TypeOK
<1>2. [state |-> "cancelled", id |-> c] # None
  BY RecordAssumption DEF RecordAssumption, Record, JobState, Terminal, Outcome
<1> QED
  BY <1>1, <1>2, Shapes, SaverNames DEF Withdraw, CancelBegin, Caller

\* What a failed withdrawal of a queued job puts back.
LEMMA RollbackEffects ==
  ASSUME SchedulerInv, NEW c \in Cancel, WithdrawFails(c),
         call[c].step # "detached"
  PROVE  LET j == call[c].job IN
         /\ "withdraw" \in FailingSaves /\ call[c].step = "withdraw"
         /\ j \in Job /\ state[j] = "cancelled" /\ launch[j] = "none"
         /\ Relaunched(state', launch)
         /\ state' = [state EXCEPT ![j] = "queued"]
         /\ intent' = [intent EXCEPT ![j] = "none"]
         /\ cancelId' = [cancelId EXCEPT ![j] = None]
         /\ call'[c].step = "refused" /\ call'[c].job = j
         /\ \A d \in Cancel \ {c} : call'[d] = call[d]
         /\ save'[c] = NoSave /\ \A p \in Savers \ {c} : save'[p] = save[p]
         /\ UNCHANGED <<hostVars, childVars, admission, close, disk, announced>>
<1>1. Relaunched(state', launch)
  BY DrainingSteps
<1>2. /\ call[c].step = "withdraw" /\ "withdraw" \in FailingSaves
      /\ save' = [save EXCEPT ![c] = NoSave]
      /\ call' = Answer(c, call[c].job, "refused", "none")
      /\ state' = [state EXCEPT ![call[c].job] = "queued"]
      /\ intent' = [intent EXCEPT ![call[c].job] = "none"]
      /\ cancelId' = [cancelId EXCEPT ![call[c].job] = None]
      /\ UNCHANGED <<hostVars, childVars, admission, close, disk, announced>>
  BY DEF WithdrawFails, SaveFails
<1>3. call[c].job \in Job /\ state[call[c].job] = "cancelled"
      /\ launch[call[c].job] = "none"
  BY <1>2 DEF SchedulerInv, HolderInv, CallInv
<1> QED
  BY <1>1, <1>2, <1>3, Shapes, SaverNames DEF Answer

-----------------------------------------------------------------------------
(* If the first persist of a submission never fails, an identity that has  *)
(* been admitted stays: no caller is detached from its job, and nothing is *)
(* known of a job that is not in the map, on disk or in flight.            *)
MemoryInv ==
  /\ admission.step # "removing"
  /\ \A c \in Cancel : call[c].step # "detached"
  /\ \A j \in Job : state[j] = "absent" =>
       /\ announced[j] = "none"
       /\ Up => disk[j] = None
       /\ \A p \in Savers : save[p].phase # "idle" => save[p].job # j

\* Every step keeps what memory says within what the files may say.
LEMMA MemoryKept ==
  ASSUME "submit" \notin FailingSaves,
         SchedulerInv, PhaseInv, DownInv, MemoryInv, [Next]_vars
  PROVE  MemoryInv'
<1> USE Shapes, SaverNames DEF MemoryInv, NoSave, Saving
<1>1. CASE UNCHANGED <<daemon, state, admission, call, save, disk, announced>>
  BY <1>1 DEF Up
<1>2. CASE Submitting
  <2>1. ~SubmitSaveFails
    BY DEF SubmitSaveFails, SaveFails
  <2>2. CASE SubmitSaved
    BY <2>2 DEF SubmitSaved, SchedulerInv, HolderInv, AdmissionInv, Up
  <2>3. CASE SubmitAdmit
    BY <2>3 DEF SubmitAdmit, SchedulerInv, TypeOK, Admission, Up
  <2>4. CASE SubmitRemoved
    BY <2>4 DEF SubmitRemoved
  <2>5. CASE SubmitRefused
    BY <2>5 DEF SubmitRefused, Up
  <2>6. ASSUME NEW j \in Job, SubmitBegin(j)
        PROVE  MemoryInv'
    BY <2>6 DEF SubmitBegin, Up
  <2> QED
    BY <1>2, <2>1, <2>2, <2>3, <2>4, <2>5, <2>6 DEF Submitting
<1>3. ASSUME NEW j \in Job, Launching(j)
      PROVE  MemoryInv'
  <2>1. /\ \A k \in Job : state'[k] = "absent" => state[k] = "absent" /\ k # j
                                                  /\ announced'[k] = announced[k]
        /\ \A p \in Savers : save'[p].phase # "idle" =>
             save'[p].job = j \/ save'[p] = save[p]
        /\ UNCHANGED <<daemon, admission, call, disk>>
    BY <1>3, LaunchEffects, LaunchedIsKnown DEF LaunchEffect, JobState, Terminal,
       Outcome
  <2> QED
    BY <2>1 DEF Up
<1>4. ASSUME NEW c \in Cancel, Calling(c)
      PROVE  MemoryInv'
  <2>1. CASE WithdrawFails(c)
    BY <2>1, RollbackEffects DEF Up
  <2>2. ASSUME NEW j \in Job, Withdraw(c, j)
        PROVE  MemoryInv'
    <3>1. /\ state[j] = "queued" /\ state' = [state EXCEPT ![j] = "cancelled"]
          /\ \A d \in Cancel : call'[d] = call[d] \/ call'[d].step = "withdraw"
          /\ \A p \in Savers : save'[p] = save[p] \/ save'[p].job = j
          /\ UNCHANGED <<daemon, admission, disk, announced>>
      BY <2>2, WithdrawEffects DEF Waiting
    <3> QED
      BY <3>1 DEF Up
  <2>3. ASSUME NEW j \in Job, RecordBegin(c, j)
        PROVE  MemoryInv'
    <3>1. call'[c].step = "record"
      BY <2>3 DEF RecordBegin, SchedulerInv, TypeOK, Caller
    <3> QED
      BY <2>3, <3>1 DEF RecordBegin, CancelBegin, Up
  <2>4. CASE WithdrawSaved(c)
    BY <2>4 DEF WithdrawSaved, Answer, SchedulerInv, HolderInv, CallInv, Up
  <2>5. CASE RecordSaved(c) \/ RecordFails(c)
    BY SMTT(20), <2>5 DEF RecordSaved, RecordFails, Answer, Up
  <2>6. ASSUME NEW j \in Job, CancelAnswered(c, j)
        PROVE  MemoryInv'
    BY <2>6 DEF CancelAnswered, Answer, Up
  <2> QED
    BY <1>4, <2>1, <2>2, <2>3, <2>4, <2>5, <2>6 DEF Calling
<1>5. CASE Shutting
  <2>1. close.step \in {"publish", "republish"} =>
          close.job \in Job /\ state[close.job] # "absent"
    BY DEF SchedulerInv, HolderInv, CloseInv
  <2>2. \A k \in Job : state'[k] = "absent" =>
          state[k] = "absent" /\ announced'[k] = announced[k]
    BY <1>5, <2>1, CloseEffects DEF CloseEffect, Waiting
  <2>4. /\ \A p \in Savers : save'[p].phase # "idle" =>
             save'[p] = save[p] \/ state[save'[p].job] # "absent"
        /\ UNCHANGED <<daemon, admission, call, disk>>
    BY <1>5, CloseEffects DEF CloseEffect
  <2>3. \A k \in Job : state[k] # "absent" => state'[k] # "absent"
    BY <1>5, CloseEffects DEF CloseEffect
  <2> QED
    BY <2>2, <2>3, <2>4 DEF Up
<1>6. CASE Booting
  <2>1. CASE Stop
    BY <2>1, StopCalls DEF Stop, Up
  <2>2. ASSUME NEW j \in Job, LoadJob(j)
        PROVE  MemoryInv'
    BY <2>2, JobLoaded DEF Up, Terminal, Outcome
  <2>3. CASE Loaded
    BY <2>3 DEF Loaded, AllLoaded
  <2>4. CASE Start
    BY <2>4 DEF Start, Up
  <2> QED
    BY <1>6, <2>1, <2>2, <2>3, <2>4 DEF Booting, Crash, Exit
<1>7. ASSUME NEW p \in Savers, Persists(p)
      PROVE  MemoryInv'
  <2>1. CASE Snapshot(p)
    <3>1. /\ \A r \in Savers :
               \/ save'[r] = save[r]
               \/ save[r].phase # "idle" /\ save'[r].job = save[r].job
          /\ UNCHANGED <<daemon, state, admission, call, disk, announced>>
      BY <2>1, SnapshotTaken DEF Snapshot
    <3> QED
      BY <3>1 DEF Up
  <2>2. CASE Rename(p)
    <3>1. save'[p].job = save[p].job /\ \A r \in Savers \ {p} : save'[r] = save[r]
      BY <2>2 DEF Rename, SchedulerInv, TypeOK, Persist
    <3> QED
      BY <2>2, <3>1 DEF Rename, Up
  <2> QED
    BY <1>7, <2>1, <2>2 DEF Persists
<1> QED
  BY <1>1, <1>2, <1>3, <1>4, <1>5, <1>6, <1>7 DEF Next, Persisting, Terminating,
     ChildExits, TimerFires, EscalationKills, vars
(* A cancel caller waits for a persist of its own job, a persist that has  *)
(* returned left a record, and a job without a record is either as it was  *)
(* admitted or being withdrawn.                                            *)
RenamedInv ==
  /\ \A c \in Cancel, j \in Job :
       call[c].step \in {"withdraw", "record"} /\ call[c].job = j =>
         save[c].phase # "idle" /\ save[c].job = j
  /\ \A p \in Savers, j \in Job :
       save[p].phase = "renamed" /\ save[p].job = j => disk[j] # None
  /\ \A j \in Job : disk[j] = None /\ state[j] # "absent" =>
       \/ state[j] = "queued" /\ cancelId[j] = None
       \/ \E c \in Cancel : call[c].step = "withdraw" /\ call[c].job = j

\* Whatever launch() or close() holds has its record.
LEMMA HeldIsRecorded ==
  ASSUME SchedulerInv, RecordedInv, NEW j \in Job, disk[j] = None,
         state[j] # "absent"
  PROVE  /\ launch[j] = "none" /\ state[j] # "running"
         /\ close.step \in {"open", "admission"}
  BY DEF SchedulerInv, TypeOK, Closer, HolderInv, AdmissionInv, CloseInv,
     RecordedInv

\* Every step keeps what is known of a cancel record renamed into place.
LEMMA RenamedKept ==
  ASSUME "submit" \notin FailingSaves, SchedulerInv, PhaseInv, RecordedInv,
         MemoryInv, RenamedInv, [Next]_vars
  PROVE  RenamedInv'
<1> USE Shapes, SaverNames DEF RenamedInv, NoSave, Saving
<1>1. CASE UNCHANGED <<state, cancelId, call, save, disk>>
  BY <1>1
<1>2. CASE Submitting
  <2>1. ~SubmitSaveFails /\ ~SubmitRemoved
    BY DEF SubmitSaveFails, SaveFails, SubmitRemoved, MemoryInv
  <2>2. CASE SubmitSaved
    BY <2>2 DEF SubmitSaved
  <2>3. CASE SubmitAdmit
    <3>1. /\ state' = [state EXCEPT ![admission.job] = "queued"]
          /\ cancelId' = [cancelId EXCEPT ![admission.job] = None]
          /\ save' = [save EXCEPT !["submit"] = Saving(admission.job)]
          /\ UNCHANGED <<call, disk>>
      BY <2>3 DEF SubmitAdmit
    <3> QED
      BY <3>1
  <2> QED
    BY <1>1, <1>2, <2>1, <2>2, <2>3 DEF Submitting, SubmitRefused, SubmitBegin
<1>3. ASSUME NEW j \in Job, Launching(j)
      PROVE  RenamedInv'
  <2>1. launch[j] # "none" /\ state[j] # "absent" /\ disk[j] # None
    BY <1>3, LaunchEffects, LaunchedIsKnown, HeldIsRecorded DEF LaunchEffect
  <2>2. /\ \A k \in Job \ {j} : state'[k] = state[k]
        /\ save'[j] \in {save[j], NoSave, Saving(j)}
        /\ \A p \in Savers \ {j} : save'[p] = save[p]
        /\ UNCHANGED <<cancelId, call, disk>>
    BY <1>3, LaunchEffects DEF LaunchEffect
  <2>3. /\ \A p \in Savers : save'[p].phase = "renamed" => save'[p] = save[p]
        /\ \A c \in Cancel : save'[c] = save[c]
    BY <2>2
  <2> QED
    BY <2>1, <2>2, <2>3
<1>4. ASSUME NEW c \in Cancel, Calling(c)
      PROVE  RenamedInv'
  <2>1. CASE WithdrawFails(c)
    <3>1. /\ state' = [state EXCEPT ![call[c].job] = "queued"]
          /\ cancelId' = [cancelId EXCEPT ![call[c].job] = None]
          /\ call'[c].step = "refused"
          /\ \A d \in Cancel \ {c} : call'[d] = call[d]
          /\ save' = [save EXCEPT ![c] = NoSave]
          /\ UNCHANGED disk
      BY <2>1 DEF WithdrawFails, MemoryInv, Answer
    <3> QED
      BY <3>1
  <2>2. ASSUME NEW j \in Job, Withdraw(c, j)
        PROVE  RenamedInv'
    <3>1. /\ \A k \in Job \ {j} : state'[k] = state[k] /\ cancelId'[k] = cancelId[k]
          /\ call[c].step = "idle"
          /\ call'[c].step = "withdraw" /\ call'[c].job = j
          /\ \A d \in Cancel \ {c} : call'[d] = call[d]
          /\ save'[c].phase = "written" /\ save'[c].job = j
          /\ \A p \in Savers \ {c} : save'[p] = save[p]
          /\ UNCHANGED disk
      BY <2>2, WithdrawEffects
    <3> QED
      BY <3>1
  <2>3. ASSUME NEW j \in Job, RecordBegin(c, j)
        PROVE  RenamedInv'
    <3>1. /\ call'[c].step = "record" /\ call'[c].job = j
          /\ \A d \in Cancel \ {c} : call'[d] = call[d]
          /\ call[c].step = "idle"
      BY <2>3 DEF RecordBegin, CancelBegin, SchedulerInv, TypeOK, Caller
    <3>2. disk[j] # None
      BY <2>3, HeldIsRecorded, LaunchedIsKnown DEF RecordBegin, CancelBegin
    <3> QED
      BY <2>3, <3>1, <3>2 DEF RecordBegin
  <2>4. CASE WithdrawSaved(c) \/ RecordSaved(c) \/ RecordFails(c)
    <3>1. /\ call[c].step \in {"withdraw", "record"}
          /\ call'[c].step \in {"acked", "refused"}
          /\ \A d \in Cancel \ {c} : call'[d] = call[d]
          /\ save' = [save EXCEPT ![c] = NoSave]
          /\ UNCHANGED <<state, disk>>
      BY <2>4 DEF WithdrawSaved, RecordSaved, RecordFails, Answer, MemoryInv
    <3>2. call[c].step = "withdraw" => disk[call[c].job] # None
      BY <2>4 DEF WithdrawSaved, RecordSaved, RecordFails, Saved, SchedulerInv,
         HolderInv, CallInv
    <3>3. cancelId' = cancelId \/ cancelId' = [cancelId EXCEPT ![call[c].job] = None]
      BY <2>4 DEF WithdrawSaved, RecordSaved, RecordFails
    <3> QED
      BY SMTT(20), <3>1, <3>2, <3>3
  <2>5. ASSUME NEW j \in Job, CancelAnswered(c, j)
        PROVE  RenamedInv'
    BY <2>5 DEF CancelAnswered, CancelBegin, Answer
  <2> QED
    BY <1>4, <2>1, <2>2, <2>3, <2>4, <2>5 DEF Calling
<1>5. CASE Shutting
  <2>1. /\ \A k \in Job : state'[k] # state[k] => disk[k] # None
        /\ \A k \in Job : state'[k] # "absent" => state[k] # "absent"
    <3>1. CASE close.step \in {"open", "admission"}
      BY <1>5, <3>1, CloseEffects DEF CloseEffect
    <3>2. CASE close.step \notin {"open", "admission"}
      BY <1>5, <3>2, CloseEffects, HeldIsRecorded DEF CloseEffect, Waiting,
         SchedulerInv, HolderInv, CloseInv
    <3> QED
      BY <3>1, <3>2
  <2>2. /\ \A p \in Savers : save'[p].phase = "renamed" => save'[p] = save[p]
        /\ \A c \in Cancel : save'[c] = save[c]
        /\ UNCHANGED <<cancelId, call, disk>>
    BY <1>5, CloseEffects DEF CloseEffect
  <2> QED
    BY <2>1, <2>2
<1>6. CASE Booting
  <2>1. CASE Stop
    BY <2>1, StopCalls DEF Stop
  <2>2. ASSUME NEW j \in Job, LoadJob(j)
        PROVE  RenamedInv'
    BY <2>2, JobLoaded
  <2> QED
    BY <1>1, <1>6, <2>1, <2>2 DEF Booting, Crash, Exit, Start, Loaded
<1>7. ASSUME NEW p \in Savers, Persists(p)
      PROVE  RenamedInv'
  <2>1. CASE Snapshot(p)
    <3>1. /\ \A r \in Savers :
               \/ save'[r] = save[r]
               \/ /\ save[r].phase # "idle" /\ save'[r].phase = "written"
                  /\ save'[r].job = save[r].job
          /\ UNCHANGED <<state, cancelId, call, disk>>
      BY <2>1, SnapshotTaken DEF Snapshot
    <3> QED
      BY <3>1
  <2>2. CASE Rename(p)
    <3>1. /\ \A r \in Savers \ {p} : save'[r] = save[r]
          /\ save'[p].phase = "renamed" /\ save'[p].job = save[p].job
          /\ save[p].phase = "written" /\ save[p].record # None
          /\ disk' = [disk EXCEPT ![save[p].job] = save[p].record]
          /\ UNCHANGED <<state, cancelId, call>>
      BY <2>2 DEF Rename, SchedulerInv, TypeOK, Persist, RecordedInv
    <3> QED
      BY <3>1
  <2> QED
    BY <1>7, <2>1, <2>2 DEF Persists
<1> QED
  BY <1>1, <1>2, <1>3, <1>4, <1>5, <1>6, <1>7 DEF Next, Persisting, Terminating,
     ChildExits, TimerFires, EscalationKills, vars
-----------------------------------------------------------------------------
(* What an accepted cancellation stands for: its job has a record, is in   *)
(* the map of a daemon that is up, and is stopped by its intent if it has  *)
(* not ended. Nobody can withdraw it any more, so nothing undoes that.     *)
AckInv ==
  \A c \in Cancel : call[c].step = "acked" =>
    /\ call[c].job \in Job
    /\ \A j \in Job : call[c].job = j =>
         /\ disk[j] # None
         /\ Up => state[j] # "absent"
         /\ state[j] \in {"queued", "running"} => intent[j] # "none"
         /\ \A d \in Cancel : call[d].step = "withdraw" => call[d].job # j

\* Every step keeps what an acknowledged cancellation rests on.
LEMMA AckKept ==
  ASSUME "submit" \notin FailingSaves, SchedulerInv, PhaseInv, WaitInv,
         RecordedInv, MemoryInv, RenamedInv, CancelInv, AckInv, [Next]_vars
  PROVE  AckInv'
<1> USE Shapes, SaverNames DEF AckInv
<1>1. CASE UNCHANGED <<daemon, state, intent, call, disk>>
  BY <1>1 DEF Up
<1>2. CASE Submitting
  <2>1. ~SubmitSaveFails /\ ~SubmitRemoved
    BY DEF SubmitSaveFails, SaveFails, SubmitRemoved, MemoryInv
  <2>2. CASE SubmitAdmit
    <3>1. /\ Up /\ state[admission.job] = "absent"
          /\ state' = [state EXCEPT ![admission.job] = "queued"]
          /\ intent' = [intent EXCEPT ![admission.job] = "none"]
          /\ UNCHANGED <<daemon, call, disk>>
      BY <2>2 DEF SubmitAdmit, SchedulerInv, HolderInv, AdmissionInv
    <3> QED
      BY <3>1 DEF Up
  <2> QED
    BY <1>1, <1>2, <2>1, <2>2 DEF Submitting, SubmitRefused, SubmitBegin,
       SubmitSaved
<1>3. ASSUME NEW j \in Job, Launching(j)
      PROVE  AckInv'
  <2>1. /\ \A k \in Job \ {j} : state'[k] = state[k] /\ intent'[k] = intent[k]
        /\ intent[j] # "none" => intent'[j] # "none"
        /\ state'[j] \in {"queued", "running"} => state[j] \in {"queued", "running"}
        /\ state'[j] # "absent"
        /\ UNCHANGED <<daemon, call, disk>>
    BY <1>3, LaunchEffects DEF LaunchEffect, PhaseInv, JobState, Terminal, Outcome
  <2> QED
    BY <2>1 DEF Up
<1>4. ASSUME NEW c \in Cancel, Calling(c)
      PROVE  AckInv'
  <2>1. CASE WithdrawFails(c)
    <3>1. /\ call[c].step = "withdraw" /\ call'[c].step = "refused"
          /\ \A d \in Cancel \ {c} : call'[d] = call[d]
          /\ state' = [state EXCEPT ![call[c].job] = "queued"]
          /\ intent' = [intent EXCEPT ![call[c].job] = "none"]
          /\ UNCHANGED <<daemon, disk>>
      BY <2>1 DEF WithdrawFails, MemoryInv, Answer
    <3> QED
      BY <3>1 DEF Up
  <2>2. ASSUME NEW j \in Job, Withdraw(c, j)
        PROVE  AckInv'
    <3>1. /\ state[j] = "queued" /\ intent[j] = "none"
          /\ state' = [state EXCEPT ![j] = "cancelled"]
          /\ intent' = [intent EXCEPT ![j] = "cancelled"]
          /\ call'[c].step = "withdraw" /\ call'[c].job = j
          /\ \A d \in Cancel \ {c} : call'[d] = call[d]
          /\ UNCHANGED <<daemon, disk>>
      BY <2>2, WithdrawEffects DEF Waiting, WaitInv
    <3> QED
      BY <3>1 DEF Up
  <2>3. ASSUME NEW j \in Job, RecordBegin(c, j)
        PROVE  AckInv'
    <3>1. /\ call'[c].step = "record"
          /\ \A d \in Cancel \ {c} : call'[d] = call[d]
      BY <2>3 DEF RecordBegin, SchedulerInv, TypeOK, Caller
    <3> QED
      BY <2>3, <3>1 DEF RecordBegin, Up
  <2>4. CASE WithdrawSaved(c)
    <3> DEFINE j == call[c].job
    <3>1. /\ call[c].step = "withdraw" /\ j \in Job /\ state[j] = "cancelled"
          /\ call'[c].step = "acked" /\ call'[c].job = j
          /\ \A d \in Cancel \ {c} : call'[d] = call[d]
          /\ \A d \in Cancel \ {c} : call[d].step = "withdraw" => call[d].job # j
          /\ UNCHANGED <<daemon, state, intent, disk>>
      BY <2>4 DEF WithdrawSaved, Answer, MemoryInv, SchedulerInv, HolderInv,
         CallInv
    <3>2. disk[j] # None
      BY <2>4, <3>1 DEF WithdrawSaved, Saved, RenamedInv
    <3> QED
      BY <3>1, <3>2 DEF Up
  <2>5. CASE RecordSaved(c)
    <3> DEFINE j == call[c].job
    <3>1. /\ call[c].step = "record" /\ j \in Job /\ state[j] # "absent"
          /\ call'[c].step = "acked" /\ call'[c].job = j
          /\ \A d \in Cancel \ {c} : call'[d] = call[d]
          /\ \A d \in Cancel \ {c} : call[d].step = "withdraw" => call[d].job # j
          /\ intent' = [intent EXCEPT ![j] = IF @ = "none" THEN "cancelled"
                                             ELSE @]
          /\ UNCHANGED <<daemon, state, disk>>
      BY <2>5 DEF RecordSaved, Answer, SchedulerInv, HolderInv, CallInv
    <3>2. disk[j] # None
      BY <2>5, <3>1 DEF RecordSaved, Saved, RenamedInv
    <3> QED
      BY <3>1, <3>2 DEF Up
  <2>6. CASE RecordFails(c)
    BY <2>6 DEF RecordFails, Answer, Up
  <2>7. ASSUME NEW j \in Job, CancelAnswered(c, j)
        PROVE  AckInv'
    <3>1. /\ state[j] # "absent" /\ (cancelId[j] # None \/ state[j] \in Terminal)
          /\ \A d \in Cancel : call[d].step \in {"withdraw", "record"} =>
               call[d].job # j
          /\ call[c].step = "idle" /\ call'[c].step = "acked" /\ call'[c].job = j
          /\ \A d \in Cancel \ {c} : call'[d] = call[d]
          /\ UNCHANGED <<daemon, state, intent, disk>>
      BY <2>7 DEF CancelAnswered, CancelBegin, Cancelling, Answer
    <3>2. disk[j] # None
      BY <3>1 DEF RenamedInv, Terminal, Outcome
    <3>3. state[j] \in {"queued", "running"} => intent[j] # "none"
      BY <3>1 DEF CancelInv, Terminal, Outcome
    <3> QED
      BY <3>1, <3>2, <3>3 DEF Up
  <2> QED
    BY <1>4, <2>1, <2>2, <2>3, <2>4, <2>5, <2>6, <2>7 DEF Calling
<1>5. CASE Shutting
  <2>1. /\ \A k \in Job :
             /\ state[k] # "absent" => state'[k] # "absent"
             /\ state'[k] \in {"queued", "running"} => state'[k] = state[k]
             /\ intent[k] # "none" => intent'[k] # "none"
        /\ UNCHANGED <<daemon, call, disk>>
    BY <1>5, CloseEffects DEF CloseEffect
  <2> QED
    BY <2>1 DEF Up
<1>6. CASE Booting
  <2>1. CASE Stop
    BY <2>1, StopCalls DEF Stop, Up
  <2>2. ASSUME NEW j \in Job, LoadJob(j)
        PROVE  AckInv'
    BY <2>2, JobLoaded DEF Up, Terminal, Outcome
  <2>3. CASE Loaded
    BY <2>3 DEF Loaded, AllLoaded
  <2>4. CASE Start
    BY <2>4 DEF Start, Up
  <2> QED
    BY <1>6, <2>1, <2>2, <2>3, <2>4 DEF Booting, Crash, Exit
<1>7. ASSUME NEW p \in Savers, Persists(p)
      PROVE  AckInv'
  <2>1. CASE Rename(p)
    BY <2>1 DEF Rename, RecordedInv, Up
  <2> QED
    BY <1>1, <1>7, <2>1 DEF Persists, Snapshot
<1>8. ASSUME NEW j \in Job, Terminating(j)
      PROVE  AckInv'
  <2>1. CASE TimerFires(j)
    BY <2>1 DEF TimerFires, Up
  <2> QED
    BY <1>1, <1>8, <2>1 DEF Terminating, ChildExits, EscalationKills
<1> QED
  BY <1>1, <1>2, <1>3, <1>4, <1>5, <1>6, <1>7, <1>8 DEF Next, Persisting, vars
(* What holds of every daemon whose first persist of a submission does not *)
(* fail, whatever the other persists do.                                   *)
AdmittedInv ==
  /\ LifeInv /\ DownInv /\ CancelInv
  /\ MemoryInv /\ RenamedInv /\ AckInv

\* They hold in the first state.
LEMMA InitAdmitted == Init => AdmittedInv
<1> SUFFICES ASSUME Init PROVE AdmittedInv
  OBVIOUS
<1>1. DownInv /\ CancelInv /\ MemoryInv /\ RenamedInv /\ AckInv
  BY DEF Init, StartsWith, DownInv, CancelInv, MemoryInv, RenamedInv, AckInv, NoSave, Up
<1> QED
  BY <1>1, InitLife DEF AdmittedInv

\* Every step keeps them.
LEMMA AdmittedKept ==
  ASSUME "submit" \notin FailingSaves, AdmittedInv, [Next]_vars
  PROVE  AdmittedInv'
<1>1. LifeInv'
  BY SchedulerKept, PhaseKept, WaitKept, RecordedKept, SpawnKept
     DEF LifeInv, AdmittedInv
<1>2. DownInv' /\ CancelInv' /\ MemoryInv'
  BY DownKept, CancelKept, MemoryKept DEF LifeInv, AdmittedInv
<1>3. RenamedInv' /\ AckInv'
  BY RenamedKept, AckKept DEF LifeInv, AdmittedInv
<1> QED
  BY <1>1, <1>2, <1>3 DEF AdmittedInv

\* Where no submission fails to be saved, the invariants of the
\* acknowledged cancellations hold.
THEOREM AdmittedCorrect ==
  ASSUME "submit" \notin FailingSaves
  PROVE  Spec => []AdmittedInv
BY InitAdmitted, AdmittedKept, PTL DEF Spec

\* Only launch() spawns.
LEMMA OnlyLaunchSpawns ==
  ASSUME [Next]_vars, \A j \in Job : ~Launching(j)
  PROVE  UNCHANGED spawns
<1>1. CASE Submitting \/ Persisting
  BY <1>1 DEF Submitting, SubmitBegin, SubmitRefused, SubmitAdmit, SubmitSaved,
     SubmitSaveFails, SubmitRemoved, Persisting, Persists, Snapshot, Rename
<1>2. ASSUME NEW j \in Job, Terminating(j)
      PROVE  UNCHANGED spawns
  BY <1>2 DEF Terminating, ChildExits, TimerFires, EscalationKills
<1>3. ASSUME NEW c \in Cancel, Calling(c)
      PROVE  UNCHANGED spawns
  BY <1>3 DEF Calling, CancelAnswered, Withdraw, RecordBegin, WithdrawSaved,
     WithdrawFails, RecordSaved, RecordFails
<1>4. CASE Shutting
  BY <1>4 DEF Shutting, CloseBegin, CloseWaits, CloseSaved, CloseSaveFails,
     CloseVisit
<1>5. CASE Booting
  BY <1>5 DEF Booting, Crash, Exit, Stop, Start, Loaded, LoadJob
<1> QED
  BY <1>1, <1>2, <1>3, <1>4, <1>5 DEF Next, vars

(* NoSpawnAfterStop: stopBeforeSpawn() looks at the intent and at the      *)
(* cancellations being recorded, and every accepted cancellation of a job  *)
(* that has not ended has left its intent there.                           *)
THEOREM NothingSpawnsAfterStop ==
  ASSUME "submit" \notin FailingSaves
  PROVE  Spec => NoSpawnAfterStop
<1>1. ASSUME AdmittedInv, [Next]_vars, NEW j \in Job, spawns'[j] > spawns[j]
      PROVE  ~Closing /\ Acked(j) \subseteq {"queued"} /\ cancelId[j] = None
  <2>1. spawns'[j] # spawns[j]
    <3>1. spawns[j] \in Nat
      BY <1>1 DEF AdmittedInv, LifeInv, SchedulerInv, TypeOK
    <3> QED
      BY <1>1, <3>1
  <2>2. PICK k \in Job : Launching(k)
    BY <1>1, <2>1, OnlyLaunchSpawns
  <2>3. LaunchEffect(k)
    BY <1>1, <2>2, LaunchEffects DEF AdmittedInv, LifeInv
  <2>4. k = j /\ launch[j] = "preparing" /\ MayProceed(j)
    BY <2>1, <2>3 DEF LaunchEffect
  <2>5. state[j] = "queued" /\ intent[j] = "none" /\ ~Recording(j) /\ ~Closing
    BY <1>1, <2>4 DEF AdmittedInv, LifeInv, PhaseInv, MayProceed
  <2>6. cancelId[j] = None
    BY <1>1, <2>5 DEF AdmittedInv, CancelInv, Recording
  <2>7. \A c \in Cancel : ~(call[c].job = j /\ call[c].step = "acked")
    BY <1>1, <2>5 DEF AdmittedInv, AckInv
  <2> QED
    BY <2>5, <2>6, <2>7 DEF Acked
<1>2. ASSUME AdmittedInv, [Next]_vars
      PROVE  [\A j \in Job : spawns'[j] > spawns[j] =>
                ~Closing /\ Acked(j) \subseteq {"queued"} /\ cancelId[j] = None]_vars
  BY <1>1, <1>2
<1> QED
  BY <1>2, AdmittedCorrect, PTL DEF Spec, NoSpawnAfterStop
-----------------------------------------------------------------------------
\* A record of j with one of these states is on disk or about to be renamed.
Written(j, S) ==
  \/ disk[j] # None /\ disk[j].state \in S
  \/ \E p \in Savers : /\ save[p].phase = "written" /\ save[p].job = j
                       /\ save[p].record.state \in S

\* A persist that begins or ends writes nothing.
LEMMA NothingWritten ==
  ASSUME NEW j \in Job, NEW S, disk'[j] = disk[j],
         \A p \in Savers :
           save'[p] = save[p] \/ save'[p].phase # "written" \/ save'[p].job # j
  PROVE  Written(j, S)' => Written(j, S)
BY DEF Written

\* A step of a persist writes the state of its job, or what was written.
LEMMA PersistWrites ==
  ASSUME SchedulerInv, NEW p \in Savers, Persists(p), NEW j \in Job, NEW S
  PROVE  /\ Written(j, S)' =>
              Written(j, S) \/ (state[j] # "absent" /\ state[j] \in S)
         /\ UNCHANGED <<daemon, state, launch, call, announced>>
<1>1. CASE Snapshot(p)
  <2>1. /\ \A r \in Savers \ {p} : save'[r] = save[r]
        /\ save'[p].record.state = state[save[p].job]
        /\ save'[p].job = save[p].job /\ state[save[p].job] # "absent"
        /\ UNCHANGED <<daemon, state, launch, call, disk, announced>>
    BY <1>1, SnapshotTaken DEF Snapshot
  <2> QED
    BY <2>1 DEF Written
<1>2. CASE Rename(p)
  <2>0. save[p] \in Persist
    BY DEF SchedulerInv, TypeOK
  <2>1. /\ \A r \in Savers \ {p} : save'[r] = save[r]
        /\ save'[p].phase = "renamed" /\ save[p].phase = "written"
        /\ disk'[j] = IF j = save[p].job THEN save[p].record ELSE disk[j]
    BY <1>2, <2>0, Shapes DEF Rename, Persist
  <2>2. Written(j, S)' => Written(j, S)
    BY <2>1 DEF Written
  <2> QED
    BY <1>2, <2>2 DEF Rename
<1> QED
  BY <1>1, <1>2 DEF Persists

\* A step of launch() or of close() writes nothing: it only begins persists.
LEMMA HandlersWriteNothing ==
  ASSUME SchedulerInv, PhaseInv, NEW j \in Job, NEW S,
         Shutting \/ \E k \in Job : Launching(k)
  PROVE  Written(j, S)' => Written(j, S)
<1>1. CASE Shutting
  <2>1. disk'[j] = disk[j] /\ \A p \in Savers \ {"close"} : save'[p] = save[p]
    BY <1>1, CloseEffects DEF CloseEffect
  <2>2. save'["close"] = save["close"] \/ save'["close"].phase # "written"
    BY <1>1, CloseEffects DEF CloseEffect, NoSave
  <2> QED
    BY <2>1, <2>2, NothingWritten
<1>2. ASSUME NEW k \in Job, Launching(k)
      PROVE  Written(j, S)' => Written(j, S)
  <2>1. /\ disk'[j] = disk[j] /\ \A p \in Savers \ {k} : save'[p] = save[p]
        /\ save'[k] \in {save[k], NoSave, Saving(k)}
    BY <1>2, LaunchEffects DEF LaunchEffect
  <2>2. save'[k] = save[k] \/ save'[k].phase # "written"
    BY <2>1 DEF NoSave, Saving
  <2> QED
    BY <2>1, <2>2, NothingWritten
<1> QED
  BY <1>1, <1>2

(* Nothing outlives the outcome of a job: once it was recorded or told as  *)
(* succeeded it stays that or becomes unknown, and if no withdrawal is     *)
(* rolled back a job with a recorded outcome does not go on.               *)
EndedInv ==
  \A j \in Job : state[j] # "absent" =>
    /\ Written(j, {"succeeded"}) \/ announced[j] = "succeeded" =>
         state[j] \in {"succeeded", "unknown"}
    /\ "withdraw" \notin FailingSaves /\ Written(j, Outcome) =>
         state[j] \in Terminal

\* Every step keeps what is true of the jobs that have ended.
LEMMA EndedKept ==
  ASSUME "submit" \notin FailingSaves, SchedulerInv, PhaseInv, DownInv,
         MemoryInv, EndedInv, [Next]_vars
  PROVE  EndedInv'
<1> USE Shapes, SaverNames DEF EndedInv
<1>1. CASE UNCHANGED <<state, save, disk, announced>>
  BY <1>1 DEF Written
<1>2. CASE Submitting
  <2>1. ~SubmitSaveFails /\ ~SubmitRemoved
    BY DEF SubmitSaveFails, SaveFails, SubmitRemoved, MemoryInv
  <2>2. CASE SubmitSaved
    <3>1. /\ \A j \in Job : Written(j, {"succeeded"})' => Written(j, {"succeeded"})
          /\ \A j \in Job : Written(j, Outcome)' => Written(j, Outcome)
      BY <2>2, NothingWritten DEF SubmitSaved, NoSave
    <3> QED
      BY <2>2, <3>1 DEF SubmitSaved
  <2>3. CASE SubmitAdmit
    <3> DEFINE k == admission.job
    <3>1. /\ k \in Job /\ Up /\ state[k] = "absent"
          /\ state' = [state EXCEPT ![k] = "queued"]
          /\ save' = [save EXCEPT !["submit"] = Saving(k)]
          /\ UNCHANGED <<disk, announced>>
      BY <2>3 DEF SubmitAdmit, SchedulerInv, HolderInv, AdmissionInv
    <3>2. /\ \A j \in Job : Written(j, {"succeeded"})' => Written(j, {"succeeded"})
          /\ \A j \in Job : Written(j, Outcome)' => Written(j, Outcome)
      BY <3>1, NothingWritten DEF Saving
    <3>3. ~Written(k, {"succeeded"}) /\ ~Written(k, Outcome)
          /\ announced[k] = "none"
      BY <3>1 DEF MemoryInv, Written
    <3> QED
      BY <3>1, <3>2, <3>3
  <2> QED
    BY <1>1, <1>2, <2>1, <2>2, <2>3 DEF Submitting, SubmitRefused, SubmitBegin
<1>3. ASSUME NEW j \in Job, Launching(j)
      PROVE  EndedInv'
  <2>1. /\ \A k \in Job : Written(k, {"succeeded"})' => Written(k, {"succeeded"})
        /\ \A k \in Job : Written(k, Outcome)' => Written(k, Outcome)
    BY <1>3, HandlersWriteNothing
  <2>2. /\ \A k \in Job \ {j} : state'[k] = state[k] /\ announced'[k] = announced[k]
        /\ state[j] # "absent"
        /\ \/ state'[j] = state[j] /\ announced'[j] \in {announced[j], state[j]}
           \/ /\ announced'[j] = announced[j]
              /\ state[j] \in {"queued", "running"} \/ state'[j] = "unknown"
    BY <1>3, LaunchEffects, LaunchedIsKnown DEF LaunchEffect, PhaseInv
  <2> QED
    BY <2>1, <2>2 DEF Terminal, Outcome
<1>4. ASSUME NEW c \in Cancel, Calling(c)
      PROVE  EndedInv'
  <2>1. CASE \/ WithdrawFails(c) \/ WithdrawSaved(c) \/ RecordSaved(c)
             \/ RecordFails(c) \/ \E j \in Job : RecordBegin(c, j)
    <3>1. /\ \A j \in Job : Written(j, {"succeeded"})' => Written(j, {"succeeded"})
          /\ \A j \in Job : Written(j, Outcome)' => Written(j, Outcome)
      <4>1. PICK end \in {NoSave} \cup {Saving(j) : j \in Job} :
              save' = [save EXCEPT ![c] = end]
        BY ZenonT(30), <2>1
        DEF WithdrawFails, WithdrawSaved, RecordSaved, RecordFails,
           RecordBegin
      <4>2. end.phase # "written"
        BY DEF NoSave, Saving
      <4>3. disk' = disk
        BY <2>1 DEF WithdrawFails, WithdrawSaved, RecordSaved, RecordFails,
           RecordBegin
      <4> QED
        BY <4>1, <4>2, <4>3, NothingWritten
    <3>2. CASE WithdrawFails(c)
      BY <3>1, <3>2 DEF WithdrawFails, SaveFails, SchedulerInv, HolderInv,
         CallInv
    <3>3. CASE ~WithdrawFails(c)
      BY <2>1, <3>1, <3>3 DEF WithdrawSaved, RecordSaved, RecordFails,
         RecordBegin
    <3> QED
      BY <3>2, <3>3
  <2>2. ASSUME NEW j \in Job, Withdraw(c, j)
        PROVE  EndedInv'
    <3>1. /\ state[j] = "queued" /\ state' = [state EXCEPT ![j] = "cancelled"]
          /\ UNCHANGED <<disk, announced>>
          /\ save'[c].job = j /\ save'[c].record.state = "cancelled"
          /\ \A p \in Savers \ {c} : save'[p] = save[p]
      BY <2>2, WithdrawEffects DEF Waiting
    <3>2. \A k \in Job \ {j} :
            /\ Written(k, {"succeeded"})' => Written(k, {"succeeded"})
            /\ Written(k, Outcome)' => Written(k, Outcome)
      BY <3>1, NothingWritten
    <3>3. Written(j, {"succeeded"})' => Written(j, {"succeeded"})
      BY <3>1 DEF Written
    <3> QED
      BY <3>1, <3>2, <3>3 DEF Terminal, Outcome
  <2> QED
    BY <1>1, <1>4, <2>1, <2>2 DEF Calling, CancelAnswered
<1>5. CASE Shutting
  <2>1. /\ \A k \in Job : Written(k, {"succeeded"})' => Written(k, {"succeeded"})
        /\ \A k \in Job : Written(k, Outcome)' => Written(k, Outcome)
    BY <1>5, HandlersWriteNothing
  <2>2. \A k \in Job :
          \/ state'[k] = state[k] /\ announced'[k] \in {announced[k], state[k]}
          \/ announced'[k] = announced[k] /\ state[k] = "queued"
             /\ state'[k] = "interrupted"
          \/ announced'[k] = announced[k] /\ state'[k] = "unknown"
             /\ state[k] # "absent"
    BY <1>5, CloseEffects DEF CloseEffect, Waiting, SchedulerInv, HolderInv,
       CloseInv
  <2> QED
    BY <2>1, <2>2 DEF Terminal, Outcome
<1>6. CASE Booting
  <2>1. CASE Stop
    BY <2>1 DEF Stop
  <2>2. ASSUME NEW j \in Job, LoadJob(j)
        PROVE  EndedInv'
    <3>1. /\ state'[j] \in Terminal /\ disk'[j].state = state'[j]
          /\ announced'[j] \in {"none", state'[j]}
          /\ \A k \in Job \ {j} : /\ state'[k] = state[k] /\ disk'[k] = disk[k]
                                  /\ announced'[k] = announced[k]
          /\ save' = save
      BY <2>2, JobLoaded DEF MemoryInv
    <3>2. \A p \in Savers : save[p].phase = "idle"
      BY <2>2 DEF LoadJob, DownInv, Up
    <3>3. \A k \in Job \ {j} :
            /\ Written(k, {"succeeded"})' => Written(k, {"succeeded"})
            /\ Written(k, Outcome)' => Written(k, Outcome)
      BY <3>1 DEF Written
    <3>4. Written(j, {"succeeded"})' => state'[j] = "succeeded"
      BY <3>1, <3>2 DEF Written
    <3> QED
      BY <3>1, <3>3, <3>4 DEF Terminal, Outcome
  <2> QED
    BY <1>1, <1>6, <2>1, <2>2 DEF Booting, Crash, Exit, Start, Loaded
<1>7. ASSUME NEW p \in Savers, Persists(p)
      PROVE  EndedInv'
  <2>1. \A j \in Job :
          /\ Written(j, {"succeeded"})' =>
               Written(j, {"succeeded"}) \/ state[j] \in {"succeeded"}
          /\ Written(j, Outcome)' => Written(j, Outcome) \/ state[j] \in Outcome
    BY <1>7, PersistWrites
  <2>2. UNCHANGED <<state, announced>>
    BY <1>7 DEF Persists, Snapshot, Rename
  <2> QED
    BY <2>1, <2>2 DEF Terminal
<1> QED
  BY <1>1, <1>2, <1>3, <1>4, <1>5, <1>6, <1>7 DEF Next, Persisting, Terminating,
     ChildExits, TimerFires, EscalationKills, vars
(* A job whose cancellation was accepted while it had not succeeded never  *)
(* does: not in the map, not in an event, and not in a record, on disk or  *)
(* still to be renamed, that a later generation would load.                *)
Unended == {"queued", "running", "cancelled"}
NeverInv ==
  \A c \in Cancel, j \in Job :
    call[c].step = "acked" /\ call[c].ack \in Unended /\ call[c].job = j =>
      /\ ~Written(j, {"succeeded"})
      /\ state[j] # "succeeded" /\ announced[j] # "succeeded"

\* A job that has not ended as succeeded or unknown never was succeeded.
LEMMA NotSucceeded ==
  ASSUME EndedInv, NEW j \in Job, state[j] \notin {"absent", "succeeded", "unknown"}
  PROVE  ~Written(j, {"succeeded"}) /\ announced[j] # "succeeded"
BY DEF EndedInv

\* Every step keeps the jobs that shall never succeed.
LEMMA NeverKept ==
  ASSUME "submit" \notin FailingSaves, SchedulerInv, PhaseInv, DownInv,
         MemoryInv, AckInv, EndedInv, NeverInv, [Next]_vars
  PROVE  NeverInv'
<1> USE Shapes, SaverNames DEF NeverInv
<1>1. CASE UNCHANGED <<state, call, save, disk, announced>>
  BY <1>1 DEF Written
<1>2. CASE Submitting
  <2>1. ~SubmitSaveFails /\ ~SubmitRemoved
    BY DEF SubmitSaveFails, SaveFails, SubmitRemoved, MemoryInv
  <2>2. CASE SubmitSaved \/ SubmitAdmit
    <3>1. disk' = disk /\ save'["submit"].phase # "written"
          /\ \A p \in Savers \ {"submit"} : save'[p] = save[p]
      BY <2>2 DEF SubmitSaved, SubmitAdmit, NoSave, Saving
    <3>2. \A j \in Job : Written(j, {"succeeded"})' => Written(j, {"succeeded"})
      BY <3>1, NothingWritten
    <3> QED
      BY <2>2, <3>2 DEF SubmitSaved, SubmitAdmit
  <2> QED
    BY <1>1, <1>2, <2>1, <2>2 DEF Submitting, SubmitRefused, SubmitBegin
<1>3. ASSUME NEW j \in Job, Launching(j)
      PROVE  NeverInv'
  <2>1. \A k \in Job : Written(k, {"succeeded"})' => Written(k, {"succeeded"})
    BY <1>3, HandlersWriteNothing
  <2>2. /\ \A k \in Job \ {j} : state'[k] = state[k] /\ announced'[k] = announced[k]
        /\ announced'[j] \in {announced[j], state[j]}
        /\ \/ state'[j] = state[j] \/ state'[j] \in {"running", "unknown"}
           \/ /\ state[j] \in {"queued", "running"}
              /\ intent[j] # "none" => state'[j] # "succeeded"
        /\ call' = call
    BY <1>3, LaunchEffects DEF LaunchEffect, PhaseInv
  <2>3. \A c \in Cancel :
          call[c].step = "acked" /\ call[c].job = j
          /\ state[j] \in {"queued", "running"} => intent[j] # "none"
    BY DEF AckInv
  <2> QED
    BY <2>1, <2>2, <2>3
<1>4. ASSUME NEW c \in Cancel, Calling(c)
      PROVE  NeverInv'
  <2>1. ASSUME NEW j \in Job, Withdraw(c, j)
        PROVE  NeverInv'
    <3>1. /\ state' = [state EXCEPT ![j] = "cancelled"]
          /\ UNCHANGED <<disk, announced>>
          /\ call'[c].step = "withdraw"
          /\ \A d \in Cancel \ {c} : call'[d] = call[d]
          /\ save'[c].job = j /\ save'[c].record.state = "cancelled"
          /\ \A p \in Savers \ {c} : save'[p] = save[p]
      BY <2>1, WithdrawEffects
    <3>2. \A k \in Job : Written(k, {"succeeded"})' => Written(k, {"succeeded"})
      BY <3>1 DEF Written
    <3> QED
      BY <3>1, <3>2
  <2>2. ASSUME NEW j \in Job, CancelAnswered(c, j)
        PROVE  NeverInv'
    <3>1. /\ state[j] # "absent"
          /\ UNCHANGED <<state, save, disk, announced>>
          /\ call'[c].ack = state[j] /\ call'[c].job = j
          /\ \A d \in Cancel \ {c} : call'[d] = call[d]
      BY <2>2 DEF CancelAnswered, CancelBegin, Answer
    <3>2. state[j] \in Unended =>
            ~Written(j, {"succeeded"}) /\ announced[j] # "succeeded"
      BY NotSucceeded DEF Unended
    <3>3. \A k \in Job : Written(k, {"succeeded"})' => Written(k, {"succeeded"})
      BY <3>1 DEF Written
    <3> QED
      BY <3>1, <3>2, <3>3 DEF Unended
  <2>3. CASE \/ WithdrawFails(c) \/ WithdrawSaved(c) \/ RecordSaved(c)
             \/ RecordFails(c) \/ \E j \in Job : RecordBegin(c, j)
    <3>1. \A j \in Job : Written(j, {"succeeded"})' => Written(j, {"succeeded"})
      <4>1. PICK end \in {NoSave} \cup {Saving(j) : j \in Job} :
              save' = [save EXCEPT ![c] = end]
        BY ZenonT(30), <2>3
        DEF WithdrawFails, WithdrawSaved, RecordSaved, RecordFails,
           RecordBegin
      <4>2. end.phase # "written"
        BY DEF NoSave, Saving
      <4>3. disk' = disk
        BY <2>3 DEF WithdrawFails, WithdrawSaved, RecordSaved, RecordFails,
           RecordBegin
      <4> QED
        BY <4>1, <4>2, <4>3, NothingWritten
    <3>2. CASE WithdrawFails(c)
      <4>1. /\ \A d \in Cancel \ {c} : call'[d] = call[d]
            /\ call'[c].step = "refused" /\ announced' = announced
            /\ state' = [state EXCEPT ![call[c].job] = "queued"]
        BY <3>2 DEF WithdrawFails, Answer, MemoryInv
      <4> QED
        BY <3>1, <4>1
    <3>3. CASE WithdrawSaved(c)
      <4>1. /\ \A d \in Cancel \ {c} : call'[d] = call[d]
            /\ call'[c].job = call[c].job /\ state[call[c].job] = "cancelled"
            /\ call[c].job \in Job
            /\ announced' = [announced EXCEPT ![call[c].job] = "cancelled"]
            /\ state' = state
        BY <3>3 DEF WithdrawSaved, Answer, MemoryInv, SchedulerInv, HolderInv,
           CallInv
      <4>2. ~Written(call[c].job, {"succeeded"})
        BY <4>1, NotSucceeded
      <4> QED
        BY <3>1, <4>1, <4>2
    <3>4. CASE RecordSaved(c)
      <4>1. /\ \A d \in Cancel \ {c} : call'[d] = call[d]
            /\ call'[c].job = call[c].job /\ call'[c].ack = state[call[c].job]
            /\ call[c].job \in Job /\ state[call[c].job] # "absent"
            /\ UNCHANGED <<state, announced>>
        BY <3>4 DEF RecordSaved, Answer, SchedulerInv, HolderInv, CallInv
      <4>2. state[call[c].job] \in Unended =>
              /\ ~Written(call[c].job, {"succeeded"})
              /\ announced[call[c].job] # "succeeded"
        BY <4>1, NotSucceeded DEF Unended
      <4> QED
        BY <3>1, <4>1, <4>2 DEF Unended
    <3>5. CASE RecordFails(c)
      BY <3>1, <3>5 DEF RecordFails, Answer
    <3>6. ASSUME NEW j \in Job, RecordBegin(c, j)
          PROVE  NeverInv'
      <4>1. call'[c].step = "record"
        BY <3>6 DEF RecordBegin, SchedulerInv, TypeOK, Caller
      <4> QED
        BY <3>1, <3>6, <4>1 DEF RecordBegin
    <3> QED
      BY <2>3, <3>2, <3>3, <3>4, <3>5, <3>6
  <2> QED
    BY <1>4, <2>1, <2>2, <2>3 DEF Calling
<1>5. CASE Shutting
  <2>1. \A k \in Job : Written(k, {"succeeded"})' => Written(k, {"succeeded"})
    BY <1>5, HandlersWriteNothing
  <2>2. /\ \A k \in Job : /\ state'[k] \in {state[k], "interrupted", "unknown"}
                          /\ announced'[k] \in {announced[k], state[k]}
        /\ call' = call
    BY <1>5, CloseEffects DEF CloseEffect
  <2> QED
    BY <2>1, <2>2
<1>6. CASE Booting
  <2>1. CASE Stop
    <3>1. \A k \in Job : Written(k, {"succeeded"})' => Written(k, {"succeeded"})
      BY <2>1 DEF Stop, Written, NoSave
    <3> QED
      BY <2>1, <3>1, StopCalls DEF Stop
  <2>2. ASSUME NEW j \in Job, LoadJob(j)
        PROVE  NeverInv'
    <3>1. /\ disk[j] # None /\ state'[j] \in {disk[j].state, "unknown"}
          /\ disk'[j].state = state'[j]
          /\ announced'[j] \in {announced[j], state'[j]}
          /\ \A k \in Job \ {j} : /\ state'[k] = state[k] /\ disk'[k] = disk[k]
                                  /\ announced'[k] = announced[k]
          /\ UNCHANGED <<save, call>>
      BY <2>2, JobLoaded
    <3>2. \A k \in Job \ {j} : Written(k, {"succeeded"})' => Written(k, {"succeeded"})
      BY <3>1 DEF Written
    <3>3. ~Written(j, {"succeeded"}) =>
            ~Written(j, {"succeeded"})' /\ state'[j] # "succeeded"
      BY <3>1 DEF Written
    <3> QED
      BY <3>1, <3>2, <3>3
  <2> QED
    BY <1>1, <1>6, <2>1, <2>2 DEF Booting, Crash, Exit, Start, Loaded
<1>7. ASSUME NEW p \in Savers, Persists(p)
      PROVE  NeverInv'
  <2>1. \A j \in Job : Written(j, {"succeeded"})' =>
          Written(j, {"succeeded"}) \/ state[j] \in {"succeeded"}
    BY <1>7, PersistWrites
  <2>2. UNCHANGED <<state, call, announced>>
    BY <1>7 DEF Persists, Snapshot, Rename
  <2> QED
    BY <2>1, <2>2
<1> QED
  BY <1>1, <1>2, <1>3, <1>4, <1>5, <1>6, <1>7 DEF Next, Persisting, Terminating,
     ChildExits, TimerFires, EscalationKills, vars
\* AckedCancelNeverSucceeds, while no submission is rolled back.
OutcomeInv == AdmittedInv /\ EndedInv /\ NeverInv

\* The invariants of the outcomes hold first and are kept by every step.
LEMMA OutcomeKept ==
  ASSUME "submit" \notin FailingSaves
  PROVE  /\ Init => OutcomeInv
         /\ OutcomeInv /\ [Next]_vars => OutcomeInv'
<1>1. ASSUME Init PROVE OutcomeInv
  BY <1>1, InitAdmitted DEF Init, StartsWith, OutcomeInv, EndedInv, NeverInv
<1>2. ASSUME OutcomeInv, [Next]_vars PROVE OutcomeInv'
  <2>1. AdmittedInv'
    BY <1>2, AdmittedKept DEF OutcomeInv
  <2>2. EndedInv' /\ NeverInv'
    BY <1>2, EndedKept, NeverKept DEF OutcomeInv, AdmittedInv, LifeInv
  <2> QED
    BY <2>1, <2>2 DEF OutcomeInv
<1> QED
  BY <1>1, <1>2

\* A cancellation that cancel() acknowledged as durable holds: the job never
\* succeeds, over crashes and restarts, where no submission fails to be saved.
THEOREM CancelledNeverSucceeds ==
  ASSUME "submit" \notin FailingSaves
  PROVE  Spec => []AckedCancelNeverSucceeds
<1>1. ASSUME OutcomeInv PROVE AckedCancelNeverSucceeds
  <2> SUFFICES ASSUME NEW j \in Job, Acked(j) \cap Unended # {}
               PROVE  "succeeded" \notin {state[j], announced[j]}
    BY DEF AckedCancelNeverSucceeds, Unended
  <2>1. PICK c \in Cancel : /\ call[c].job = j /\ call[c].step = "acked"
                            /\ call[c].ack \in Unended
    BY DEF Acked
  <2> QED
    BY <1>1, <2>1 DEF OutcomeInv, NeverInv
<1> QED
  BY <1>1, OutcomeKept, PTL DEF Spec
-----------------------------------------------------------------------------
(* A child lives only where launch() waits for it, or after the generation *)
(* that spawned it. Then its job is unknown to the next one, or nothing is *)
(* known of it, and no outcome of it is on disk or on its way there.       *)
LiveInv ==
  \A j \in Job :
    /\ Live(j) => spawns[j] # 0
    /\ Live(j) => launch[j] \in {"none", "spawning", "starting", "running",
                                 "abandoning"}
    /\ Live(j) /\ launch[j] = "none" => state[j] \in {"absent", "unknown"}
    /\ Live(j) => ~Written(j, Outcome)

\* While the child of a job lives, its launch goes on.
LEMMA LiveLaunch ==
  ASSUME SchedulerInv, PhaseInv, LiveInv, NEW j \in Job, Launching(j),
         launch[j] # "preparing", Live(j)
  PROVE  /\ launch[j] # "none" /\ state[j] \in {"queued", "running"}
         /\ launch'[j] \in {"spawning", "starting", "running", "abandoning"}
<1> USE Shapes DEF Live, Stopped
<1>1. launch[j] \in {"spawning", "starting", "running", "abandoning"}
      /\ state[j] \in {"queued", "running"}
  BY LaunchEffects DEF LiveInv, LaunchEffect, PhaseInv
<1>2. CASE \/ LaunchStop(j) \/ LaunchPrepare(j) \/ LaunchSpawn(j)
           \/ LaunchFlushed(j) \/ LaunchSettled(j) \/ LaunchPublished(j)
           \/ LaunchPublishFails(j)
  BY <1>1, <1>2 DEF LaunchStop, LaunchPrepare, LaunchSpawn, LaunchFlushed,
     LaunchSettled, LaunchPublished, LaunchPublishFails
<1>3. CASE \/ LaunchFails(j) \/ LaunchStarted(j) \/ LaunchStartSaved(j)
           \/ LaunchStartSaveFails(j)
  BY <1>1, <1>3 DEF LaunchFails, LaunchStarted, LaunchStartSaved,
     LaunchStartSaveFails
<1>4. CASE LaunchAbandoned(j) \/ LaunchClosed(j)
  BY <1>1, <1>4 DEF LaunchAbandoned, LaunchClosed
<1> QED
  BY <1>1, <1>2, <1>3, <1>4 DEF Launching

\* Every step keeps what is known of the living children.
LEMMA LiveKept ==
  ASSUME "submit" \notin FailingSaves, "withdraw" \notin FailingSaves,
         SchedulerInv, PhaseInv, SpawnInv, SpawnInv', DownInv, MemoryInv,
         EndedInv, LiveInv, [Next]_vars
  PROVE  LiveInv'
<1> USE Shapes, SaverNames DEF LiveInv, Live
<1>1. CASE UNCHANGED <<state, launch, proc, spawns, save, disk>>
  BY <1>1 DEF Written
<1>2. ASSUME UNCHANGED <<proc, spawns, launch>>,
             \A j \in Job : Live(j) =>
               /\ state'[j] = state[j] \/ state'[j] \in {"absent", "unknown"}
               /\ Written(j, Outcome)' => Written(j, Outcome)
      PROVE  LiveInv'
  BY <1>2
<1>3. \A j \in Job : Live(j) => spawns[j] # 0 /\ (state[j] = "queued" =>
                                                    launch[j] = "spawning")
  BY DEF SpawnInv
<1>4. CASE Submitting
  <2>1. ~SubmitSaveFails /\ ~SubmitRemoved
    BY DEF SubmitSaveFails, SaveFails, SubmitRemoved, MemoryInv
  <2>2. CASE SubmitSaved \/ SubmitAdmit
    <3>1. disk' = disk /\ save'["submit"].phase # "written"
          /\ \A p \in Savers \ {"submit"} : save'[p] = save[p]
      BY <2>2 DEF SubmitSaved, SubmitAdmit, NoSave, Saving
    <3>2. \A j \in Job : Written(j, Outcome)' => Written(j, Outcome)
      BY <3>1, NothingWritten
    <3>3. CASE SubmitSaved
      <4>1. Relaunched(state, launch) /\ UNCHANGED <<state, proc, spawns>>
        BY <3>3, DrainingSteps DEF SubmitSaved
      <4> QED
        BY <1>3, <3>2, <4>1 DEF Relaunched
    <3>4. CASE SubmitAdmit
      <4>1. /\ \A j \in Job \ {admission.job} : state'[j] = state[j]
            /\ UNCHANGED <<proc, spawns, launch>>
            /\ admission.job \in Job => spawns[admission.job] = 0
        BY <3>4 DEF SubmitAdmit, SchedulerInv, HolderInv, AdmissionInv, SpawnInv
      <4> QED
        BY <1>2, <1>3, <3>2, <4>1
    <3> QED
      BY <2>2, <3>3, <3>4
  <2> QED
    BY <1>1, <1>4, <2>1, <2>2 DEF Submitting, SubmitRefused, SubmitBegin
<1>5. ASSUME NEW j \in Job, Launching(j)
      PROVE  LiveInv'
  <2>1. \A k \in Job : Written(k, Outcome)' => Written(k, Outcome)
    BY <1>5, HandlersWriteNothing
  <2>2. LaunchEffect(j)
    BY <1>5, LaunchEffects
  <2>3. \A k \in Job \ {j} :
          /\ state'[k] = state[k] /\ proc'[k] = proc[k] /\ spawns'[k] = spawns[k]
          /\ \/ launch'[k] = launch[k]
             \/ launch[k] = "none" /\ state[k] = "queued"
    BY <2>2 DEF LaunchEffect
  <2>4. CASE launch[j] = "preparing"
    <3>1. state[j] = "queued" /\ spawns[j] \in Nat
      BY <2>4 DEF PhaseInv, SchedulerInv, TypeOK
    <3>2. ~Live(j) /\ ~Written(j, Outcome)
      BY <2>4, <3>1 DEF EndedInv, Terminal, Outcome
    <3>3. \/ proc'[j] = proc[j] /\ spawns'[j] = spawns[j]
          \/ /\ launch'[j] = "spawning" /\ proc'[j] = "alive"
             /\ spawns'[j] = spawns[j] + 1
      BY <2>2 DEF LaunchEffect
    <3> QED
      BY <1>3, <2>1, <2>3, <3>1, <3>2, <3>3
  <2>5. CASE launch[j] # "preparing"
    <3>1. proc'[j] = proc[j] /\ spawns'[j] = spawns[j]
      BY <2>2, <2>5 DEF LaunchEffect
    <3>2. Live(j) =>
            launch'[j] \in {"spawning", "starting", "running", "abandoning"}
      BY <1>5, <2>5, LiveLaunch
    <3> QED
      BY <1>3, <2>1, <2>3, <3>1, <3>2
  <2> QED
    BY <2>4, <2>5
<1>6. ASSUME NEW c \in Cancel, Calling(c)
      PROVE  LiveInv'
  <2>1. ~WithdrawFails(c)
    BY DEF WithdrawFails, SaveFails
  <2>2. ASSUME NEW j \in Job, Withdraw(c, j)
        PROVE  LiveInv'
    <3>1. /\ state[j] = "queued" /\ launch[j] = "none"
          /\ state' = [state EXCEPT ![j] = "cancelled"]
          /\ UNCHANGED <<launch, proc, spawns, disk>>
          /\ save'[c].job = j
          /\ \A p \in Savers \ {c} : save'[p] = save[p]
      BY <2>2, WithdrawEffects DEF Waiting
    <3>2. \A k \in Job \ {j} : Written(k, Outcome)' => Written(k, Outcome)
      BY <3>1, NothingWritten
    <3> QED
      BY <1>2, <1>3, <3>1, <3>2
  <2>3. CASE \/ WithdrawSaved(c) \/ RecordSaved(c)
             \/ RecordFails(c) \/ \E j \in Job : RecordBegin(c, j)
    <3>1. PICK end \in {NoSave} \cup {Saving(j) : j \in Job} :
            save' = [save EXCEPT ![c] = end]
      BY ZenonT(30), <2>3
      DEF WithdrawSaved, RecordSaved, RecordFails, RecordBegin
    <3>2. end.phase # "written"
      BY DEF NoSave, Saving
    <3>3. UNCHANGED <<state, launch, proc, spawns, disk>>
      BY <2>3 DEF WithdrawSaved, RecordSaved, RecordFails, RecordBegin
    <3>4. \A j \in Job : Written(j, Outcome)' => Written(j, Outcome)
      BY <3>1, <3>2, <3>3, NothingWritten
    <3> QED
      BY <1>2, <3>3, <3>4
  <2> QED
    BY <1>1, <1>6, <2>1, <2>2, <2>3 DEF Calling, CancelAnswered
<1>7. CASE Shutting
  <2>1. \A k \in Job : Written(k, Outcome)' => Written(k, Outcome)
    BY <1>7, HandlersWriteNothing
  <2>2. /\ \A k \in Job : \/ state'[k] \in {state[k], "unknown"}
                          \/ state[k] = "queued" /\ launch[k] = "none"
        /\ UNCHANGED <<launch, proc, spawns>>
    BY <1>7, CloseEffects DEF CloseEffect, Waiting
  <2> QED
    BY <1>2, <1>3, <2>1, <2>2
<1>8. CASE Booting
  <2>1. CASE Stop
    <3>1. \A k \in Job : Written(k, Outcome)' => Written(k, Outcome)
      BY <2>1 DEF Stop, Written, NoSave
    <3> QED
      BY <2>1, <3>1 DEF Stop
  <2>2. ASSUME NEW j \in Job, LoadJob(j)
        PROVE  LiveInv'
    <3>1. /\ disk[j] # None /\ state'[j] \in {disk[j].state, "unknown"}
          /\ state'[j] \in Terminal /\ disk'[j].state = state'[j]
          /\ \A k \in Job \ {j} : state'[k] = state[k] /\ disk'[k] = disk[k]
          /\ UNCHANGED <<save, launch, proc, spawns>>
      BY <2>2, JobLoaded
    <3>2. \A k \in Job \ {j} : Written(k, Outcome)' => Written(k, Outcome)
      BY <3>1 DEF Written
    <3>3. ~Written(j, Outcome) => ~Written(j, Outcome)' /\ state'[j] = "unknown"
      BY <3>1 DEF Written, Terminal, Outcome
    <3> QED
      BY <1>2, <3>1, <3>2, <3>3
  <2> QED
    BY <1>1, <1>8, <2>1, <2>2 DEF Booting, Crash, Exit, Start, Loaded
<1>9. ASSUME NEW p \in Savers, Persists(p)
      PROVE  LiveInv'
  <2>1. \A j \in Job : Written(j, Outcome)' =>
          Written(j, Outcome) \/ state[j] \in Outcome
    BY <1>9, PersistWrites
  <2>2. \A j \in Job : Live(j) => state[j] \notin Outcome
    BY DEF PhaseInv, Outcome
  <2>3. UNCHANGED <<state, launch, proc, spawns>>
    BY <1>9 DEF Persists, Snapshot, Rename
  <2> QED
    BY <1>2, <2>1, <2>2, <2>3
<1>10. ASSUME NEW j \in Job, Terminating(j)
       PROVE  LiveInv'
  <2>1. /\ \A k \in Job \ {j} : proc'[k] = proc[k]
        /\ \/ proc'[j] = proc[j]
           \/ proc[j] \in {"alive", "orphan"}
           \/ proc'[j] \notin {"alive", "orphan"}
        /\ UNCHANGED <<state, launch, spawns, save, disk>>
    BY <1>10 DEF Terminating, ChildExits, TimerFires, EscalationKills, Stopped
  <2> QED
    BY <2>1 DEF Written
<1> QED
  BY <1>1, <1>4, <1>5, <1>6, <1>7, <1>8, <1>9, <1>10 DEF Next, Persisting, vars
-----------------------------------------------------------------------------
(* close() visits every job that waits. Once it has, none is left for the  *)
(* launches it awaits, and no new one can start.                           *)
Swept == {"sweep", "saving", "publish", "republish", "draining", "closed"}
SweepInv ==
  /\ close.step \in Swept =>
       \A j \in Job : state[j] = "queued" /\ launch[j] = "none" => j \in close.todo
  /\ close.step \in {"draining", "closed"} => close.todo = {}
  /\ close.step = "closed" => \A j \in Job : launch[j] = "none"

\* Every step keeps the sweep of close().
LEMMA SweepKept ==
  ASSUME SchedulerInv, PhaseInv, DownInv, SweepInv, [Next]_vars
  PROVE  SweepInv'
<1> USE Shapes DEF SweepInv, Swept, Closing
<1>0. close \in Closer
  BY DEF SchedulerInv, TypeOK
<1>1. CASE UNCHANGED <<state, launch, close>>
  BY <1>1
<1>2. CASE Submitting
  <2>1. admission.step # "idle" => close.step \notin Swept
    BY DEF SchedulerInv, HolderInv, CloseInv
  <2>2. CASE \/ SubmitSaved \/ SubmitAdmit \/ SubmitSaveFails
    BY <2>1, <2>2 DEF SubmitSaved, SubmitAdmit, SubmitSaveFails
  <2> QED
    BY <1>1, <1>2, <2>2 DEF Submitting, SubmitRefused, SubmitBegin, SubmitRemoved
<1>3. ASSUME NEW j \in Job, Launching(j)
      PROVE  SweepInv'
  <2>1. /\ close' = close /\ launch[j] # "none"
        /\ launch'[j] = "none" => state'[j] # "queued"
        /\ \A k \in Job \ {j} :
             /\ state'[k] = state[k]
             /\ launch'[k] \in {launch[k], "check"}
    BY <1>3, LaunchEffects DEF LaunchEffect, PhaseInv, Terminal, Outcome
  <2> QED
    BY <2>1
<1>4. ASSUME NEW c \in Cancel, Calling(c)
      PROVE  SweepInv'
  <2>1. call[c].step = "withdraw" => close.step \notin Swept
    BY DEF SchedulerInv, HolderInv, CloseInv
  <2>2. CASE WithdrawFails(c)
    BY <1>1, <2>1, <2>2 DEF WithdrawFails
  <2>3. ASSUME NEW j \in Job, Withdraw(c, j)
        PROVE  SweepInv'
    BY <2>3 DEF Withdraw, CancelBegin
  <2> QED
    BY <1>1, <1>4, <2>2, <2>3 DEF Calling, CancelAnswered, RecordBegin,
       WithdrawSaved, RecordSaved, RecordFails
<1>5. CASE Shutting
  <2>1. CASE CloseBegin
    BY <1>0, <2>1 DEF CloseBegin, Closer
  <2>2. CASE CloseWaits
    BY <1>0, <2>2 DEF CloseWaits, Closer, Drained
  <2>3. CASE CloseSaved
    BY <1>0, <2>3 DEF CloseSaved, Closer
  <2>4. CASE CloseSaveFails
    BY <1>0, <2>4 DEF CloseSaveFails, Closer
  <2>5. ASSUME NEW j \in Job, CloseVisit(j)
        PROVE  SweepInv'
    BY <1>0, <2>5 DEF CloseVisit, Closer, Waiting
  <2> QED
    BY <1>5, <2>1, <2>2, <2>3, <2>4, <2>5 DEF Shutting
<1>6. CASE Booting
  <2>1. CASE Stop
    BY <2>1 DEF Stop
  <2>2. ASSUME NEW j \in Job, LoadJob(j)
        PROVE  SweepInv'
    <3>1. close.step = "open" /\ close' = close
      BY <2>2 DEF LoadJob, DownInv, Up
    <3> QED
      BY <3>1
  <2> QED
    BY <1>1, <1>6, <2>1, <2>2 DEF Booting, Crash, Exit, Start, Loaded
<1> QED
  BY <1>1, <1>2, <1>3, <1>4, <1>5, <1>6 DEF Next, Persisting, Persists,
     Snapshot, Rename, Terminating, ChildExits, TimerFires, EscalationKills, vars

(* A terminal state is told when its handler is done with the job: until   *)
(* then a withdrawal, close() or the admission still holds it.             *)
ToBeTold(j) ==
  \/ launch[j] # "none"
  \/ \E c \in Cancel : call[c].step = "withdraw" /\ call[c].job = j
  \/ close.step \in {"publish", "republish"} /\ close.job = j
  \/ admission.step = "saving" /\ admission.job = j

ToldInv ==
  \A j \in Job : state[j] \in Terminal =>
    ToBeTold(j) \/ announced[j] \in {state[j], "none"}

\* Every step keeps what was announced of each job.
LEMMA ToldKept ==
  ASSUME "submit" \notin FailingSaves, SchedulerInv, PhaseInv, MemoryInv,
         ToldInv, [Next]_vars
  PROVE  ToldInv'
<1> USE Shapes DEF ToldInv, ToBeTold
<1>1. CASE UNCHANGED <<state, launch, admission, call, close, announced>>
  BY <1>1
<1>2. CASE Submitting
  <2>1. ~SubmitSaveFails /\ ~SubmitRemoved
    BY DEF SubmitSaveFails, SaveFails, SubmitRemoved, MemoryInv
  <2>2. CASE SubmitSaved
    <3>1. Relaunched(state, launch)
      BY <2>2, DrainingSteps
    <3>2. /\ announced' = [announced EXCEPT ![admission.job] = state[admission.job]]
          /\ UNCHANGED <<state, call, close>>
      BY <2>2 DEF SubmitSaved
    <3> QED
      BY <3>1, <3>2 DEF Relaunched
  <2>3. CASE SubmitAdmit
    <3>1. /\ state' = [state EXCEPT ![admission.job] = "queued"]
          /\ admission.step = "checking"
          /\ UNCHANGED <<launch, call, close, announced>>
      BY <2>3 DEF SubmitAdmit
    <3> QED
      BY <3>1 DEF Terminal, Outcome
  <2>4. CASE SubmitRefused \/ \E j \in Job : SubmitBegin(j)
    BY <2>4 DEF SubmitRefused, SubmitBegin
  <2> QED
    BY <1>2, <2>1, <2>2, <2>3, <2>4 DEF Submitting
<1>3. ASSUME NEW j \in Job, Launching(j)
      PROVE  ToldInv'
  <2>1. /\ launch'[j] = "none" => announced'[j] = state'[j]
        /\ \A k \in Job \ {j} :
             /\ state'[k] = state[k] /\ announced'[k] = announced[k]
             /\ launch'[k] = launch[k] \/ launch'[k] # "none"
        /\ UNCHANGED <<admission, call, close>>
    BY <1>3, LaunchEffects DEF LaunchEffect
  <2> QED
    BY <2>1
<1>4. ASSUME NEW c \in Cancel, Calling(c)
      PROVE  ToldInv'
  <2>1. CASE WithdrawFails(c)
    <3>1. /\ \A d \in Cancel \ {c} : call'[d] = call[d]
          /\ state' = [state EXCEPT ![call[c].job] = "queued"]
          /\ UNCHANGED <<admission, close, announced>>
      BY <2>1 DEF WithdrawFails, MemoryInv, Answer
    <3>2. Relaunched(state', launch)
      BY <2>1, DrainingSteps
    <3> QED
      BY <3>1, <3>2 DEF Relaunched, Terminal, Outcome
  <2>2. CASE WithdrawSaved(c)
    <3>1. /\ \A d \in Cancel \ {c} : call'[d] = call[d]
          /\ state[call[c].job] = "cancelled"
          /\ announced' = [announced EXCEPT ![call[c].job] = "cancelled"]
          /\ UNCHANGED <<state, launch, admission, close>>
      BY <2>2 DEF WithdrawSaved, Answer, MemoryInv, SchedulerInv, HolderInv,
         CallInv
    <3> QED
      BY <3>1
  <2>3. ASSUME NEW j \in Job, Withdraw(c, j)
        PROVE  ToldInv'
    <3>1. /\ \A d \in Cancel \ {c} : call'[d] = call[d]
          /\ call[c].step = "idle" /\ call'[c].step = "withdraw"
          /\ call'[c].job = j /\ \A k \in Job \ {j} : state'[k] = state[k]
          /\ UNCHANGED <<launch, admission, close, announced>>
      BY <2>3, WithdrawEffects
    <3> QED
      BY <3>1
  <2>4. CASE \/ RecordSaved(c) \/ RecordFails(c)
             \/ \E j \in Job : RecordBegin(c, j) \/ CancelAnswered(c, j)
    <3>1. /\ \A d \in Cancel \ {c} : call'[d] = call[d]
          /\ call[c].step # "withdraw"
          /\ UNCHANGED <<state, launch, admission, close, announced>>
      BY <2>4 DEF RecordSaved, RecordFails, RecordBegin, CancelAnswered,
         CancelBegin, Answer
    <3> QED
      BY <3>1
  <2> QED
    BY <1>4, <2>1, <2>2, <2>3, <2>4 DEF Calling
<1>5. CASE Shutting
  <2>1. /\ \A k \in Job :
             /\ \/ state'[k] = state[k]
                \/ close'.step \in {"publish", "republish"} /\ close'.job = k
             /\ \/ announced'[k] = announced[k]
                \/ close.step \in {"publish", "republish"} /\ close.job = k
             /\ close.step \in {"publish", "republish"} /\ close.job = k =>
                  \/ announced'[k] = state'[k]
                  \/ close'.step \in {"publish", "republish"} /\ close'.job = k
        /\ UNCHANGED <<launch, admission, call>>
    BY <1>5, CloseEffects DEF CloseEffect
  <2> QED
    BY <2>1
<1>6. CASE Booting
  <2>1. CASE Stop
    BY <2>1 DEF Stop, Terminal, Outcome
  <2>2. ASSUME NEW j \in Job, LoadJob(j)
        PROVE  ToldInv'
    <3>1. announced'[j] \in {"none", state'[j]}
      BY <2>2, JobLoaded DEF MemoryInv
    <3> QED
      BY <2>2, <3>1, JobLoaded
  <2> QED
    BY <1>1, <1>6, <2>1, <2>2 DEF Booting, Crash, Exit, Start, Loaded
<1> QED
  BY <1>1, <1>2, <1>3, <1>4, <1>5, <1>6 DEF Next, Persisting, Persists,
     Snapshot, Rename, Terminating, ChildExits, TimerFires, EscalationKills, vars

(* What was told as terminal is: no handler is left that would change it.  *)
FinalInv ==
  \A j \in Job : announced[j] \in Terminal =>
    /\ state[j] \in Terminal /\ launch[j] = "none"
    /\ ~(close.step \in {"publish", "republish"} /\ close.job = j)

\* Every step keeps the announced ends in memory or on disk.
LEMMA FinalKept ==
  ASSUME "submit" \notin FailingSaves, "withdraw" \notin FailingSaves,
         SchedulerInv, PhaseInv, DownInv, MemoryInv, FinalInv, [Next]_vars
  PROVE  FinalInv'
<1> USE Shapes DEF FinalInv
<1>0. {"queued", "running", "absent", "none"} \cap Terminal = {}
      /\ {"cancelled", "interrupted", "unknown"} \subseteq Terminal
  BY DEF Terminal, Outcome
<1>1. CASE UNCHANGED <<state, launch, close, announced>>
  BY <1>1
<1>2. CASE Submitting
  <2>1. ~SubmitSaveFails /\ ~SubmitRemoved
    BY DEF SubmitSaveFails, SaveFails, SubmitRemoved, MemoryInv
  <2>2. CASE SubmitSaved
    <3>1. Relaunched(state, launch)
      BY <2>2, DrainingSteps
    <3>2. /\ announced' = [announced EXCEPT ![admission.job] = state[admission.job]]
          /\ launch[admission.job] = "none" /\ admission.job \in Job
          /\ close.step \notin {"publish", "republish"}
          /\ UNCHANGED <<state, close>>
      BY <2>2 DEF SubmitSaved, SchedulerInv, HolderInv, AdmissionInv, CloseInv
    <3> QED
      BY <1>0, <3>1, <3>2 DEF Relaunched
  <2>3. CASE SubmitAdmit
    <3>1. /\ state' = [state EXCEPT ![admission.job] = "queued"]
          /\ admission.job \in Job => announced[admission.job] = "none"
          /\ UNCHANGED <<launch, close, announced>>
      BY <2>3 DEF SubmitAdmit, SchedulerInv, HolderInv, AdmissionInv, MemoryInv
    <3> QED
      BY <1>0, <3>1
  <2> QED
    BY <1>1, <1>2, <2>1, <2>2, <2>3 DEF Submitting, SubmitRefused, SubmitBegin
<1>3. ASSUME NEW j \in Job, Launching(j)
      PROVE  FinalInv'
  <2>1. LaunchEffect(j)
    BY <1>3, LaunchEffects
  <2>2. /\ close' = close /\ launch[j] # "none"
        /\ \A k \in Job \ {j} :
             /\ state'[k] = state[k] /\ announced'[k] = announced[k]
             /\ launch'[k] = launch[k] \/ state[k] = "queued"
    BY <2>1 DEF LaunchEffect
  <2>3. announced'[j] \in Terminal =>
          /\ state'[j] \in Terminal /\ launch'[j] = "none"
          /\ ~(close.step \in {"publish", "republish"} /\ close.job = j)
    BY <1>0, <2>1 DEF LaunchEffect, PhaseInv
  <2> QED
    BY <1>0, <2>2, <2>3
<1>4. ASSUME NEW c \in Cancel, Calling(c)
      PROVE  FinalInv'
  <2>1. ~WithdrawFails(c)
    BY DEF WithdrawFails, SaveFails
  <2>2. CASE WithdrawSaved(c)
    <3>1. /\ announced' = [announced EXCEPT ![call[c].job] = "cancelled"]
          /\ state[call[c].job] = "cancelled" /\ launch[call[c].job] = "none"
          /\ close.step \notin {"publish", "republish"}
          /\ UNCHANGED <<state, launch, close>>
      BY <2>2 DEF WithdrawSaved, MemoryInv, SchedulerInv, HolderInv, CallInv,
         CloseInv
    <3> QED
      BY <1>0, <3>1
  <2>3. ASSUME NEW j \in Job, Withdraw(c, j)
        PROVE  FinalInv'
    BY <1>0, <2>3, WithdrawEffects
  <2> QED
    BY <1>1, <1>4, <2>1, <2>2, <2>3 DEF Calling, RecordSaved, RecordFails,
       RecordBegin, CancelAnswered
<1>5. CASE Shutting
  <2>1. CASE CloseSaved
    <3>1. /\ close.step \in {"saving", "publish", "republish"}
          /\ close'.step = "sweep" /\ UNCHANGED <<state, launch>>
          /\ \/ announced' = announced
             \/ /\ close.step \in {"publish", "republish"}
                /\ announced' = [announced EXCEPT ![close.job] = state[close.job]]
      BY <2>1 DEF CloseSaved, SchedulerInv, TypeOK, Closer
    <3> QED
      BY <3>1 DEF PhaseInv
  <2>2. CASE CloseSaveFails
    BY <1>0, <2>2 DEF CloseSaveFails, SchedulerInv, TypeOK, Closer
  <2>3. CASE CloseBegin \/ CloseWaits
    <3>0. close \in Closer
      BY DEF SchedulerInv, TypeOK
    <3>1. close'.step \notin {"publish", "republish"}
      BY <2>3, <3>0 DEF CloseBegin, CloseWaits, Closer
    <3> QED
      BY <2>3, <3>1 DEF CloseBegin, CloseWaits
  <2>4. ASSUME NEW j \in Job, CloseVisit(j)
        PROVE  FinalInv'
    BY <1>0, <2>4 DEF CloseVisit, Waiting
  <2> QED
    BY <1>5, <2>1, <2>2, <2>3, <2>4 DEF Shutting
<1>6. CASE Booting
  <2>1. CASE Stop
    BY <1>0, <2>1 DEF Stop
  <2>2. ASSUME NEW j \in Job, LoadJob(j)
        PROVE  FinalInv'
    <3>1. launch[j] = "none" /\ close.step = "open"
      BY <2>2 DEF LoadJob, DownInv, Up
    <3> QED
      BY <1>0, <2>2, <3>1, JobLoaded
  <2> QED
    BY <1>1, <1>6, <2>1, <2>2 DEF Booting, Crash, Exit, Start, Loaded
<1> QED
  BY <1>1, <1>2, <1>3, <1>4, <1>5, <1>6 DEF Next, Persisting, Persists,
     Snapshot, Rename, Terminating, ChildExits, TimerFires, EscalationKills, vars
-----------------------------------------------------------------------------
(* What holds where neither a submission nor a withdrawal is rolled back,  *)
(* whatever the persists of launch(), of close(), of load() and of a       *)
(* recorded cancellation do.                                               *)
KeptInv == OutcomeInv /\ LiveInv /\ SweepInv /\ ToldInv /\ FinalInv

\* Where neither a submission nor a withdrawal fails to be saved, what the
\* invariants say of the outcomes is kept.
THEOREM KeptCorrect ==
  ASSUME "submit" \notin FailingSaves, "withdraw" \notin FailingSaves
  PROVE  Spec => []KeptInv
<1>1. ASSUME Init PROVE KeptInv
  BY <1>1, OutcomeKept DEF Init, StartsWith, KeptInv, LiveInv, SweepInv, ToldInv, FinalInv,
     Live, Swept, Terminal, Outcome
<1>2. ASSUME KeptInv, [Next]_vars PROVE KeptInv'
  <2> USE <1>2 DEF KeptInv, OutcomeInv, AdmittedInv, LifeInv
  <2>1. OutcomeInv'
    BY OutcomeKept
  <2>2. LiveInv'
    BY <2>1, LiveKept
  <2>3. SweepInv' /\ ToldInv' /\ FinalInv'
    BY SweepKept, ToldKept, FinalKept
  <2> QED
    BY <2>1, <2>2, <2>3
<1> QED
  BY <1>1, <1>2, PTL DEF Spec

\* NoInventedOutcome: the record of a living child is not an outcome, nor is
\* any that a persist in flight could still put in its place.
THEOREM OutcomesNotInvented ==
  ASSUME "submit" \notin FailingSaves, "withdraw" \notin FailingSaves
  PROVE  Spec => []NoInventedOutcome
<1>1. KeptInv => NoInventedOutcome
  BY DEF KeptInv, LiveInv, NoInventedOutcome, Written
<1> QED
  BY <1>1, KeptCorrect, PTL

\* ClosedIsQuiet: what close() has waited for when it returns.
THEOREM QuietOnceClosed ==
  ASSUME "submit" \notin FailingSaves, "withdraw" \notin FailingSaves
  PROVE  Spec => []ClosedIsQuiet
<1>1. ASSUME KeptInv, close.step = "closed", NEW j \in Job
      PROVE  /\ ~Live(j) \/ state[j] = "unknown"
             /\ state[j] \in Terminal \cup {"absent"}
             /\ announced[j] \in {state[j], "none"}
  <2> USE <1>1 DEF KeptInv, OutcomeInv, AdmittedInv, LifeInv
  <2>1. Up
    BY DEF DownInv
  <2>2. launch[j] = "none" /\ state[j] \notin {"queued", "running"}
    BY DEF SweepInv, PhaseInv, Swept
  <2>3. state[j] \in Terminal \cup {"absent"}
    BY <2>2 DEF SchedulerInv, TypeOK, JobState
  <2>4. state[j] = "absent" => ~Live(j) /\ announced[j] = "none"
    BY <2>1 DEF LiveInv, SpawnInv, MemoryInv
  <2>5. ~ToBeTold(j)
    BY <2>2 DEF ToBeTold, SchedulerInv, HolderInv, CloseInv
  <2>6. state[j] \in Terminal => announced[j] \in {state[j], "none"}
    BY <2>5 DEF ToldInv
  <2> QED
    BY <2>2, <2>3, <2>4, <2>6 DEF LiveInv
<1>2. KeptInv => ClosedIsQuiet
  BY <1>1 DEF ClosedIsQuiet
<1> QED
  BY <1>2, KeptCorrect, PTL

\* AnnouncedIsFinal: the state an event told is the one the job keeps.
THEOREM AnnouncedStays ==
  ASSUME "submit" \notin FailingSaves, "withdraw" \notin FailingSaves
  PROVE  Spec => AnnouncedIsFinal
<1>1. ASSUME KeptInv, [Next]_vars, NEW j \in Job,
             announced[j] \in Terminal, state[j] = announced[j]
      PROVE  state'[j] \in {state[j], "absent"}
  <2> USE <1>1, Shapes DEF KeptInv, OutcomeInv, AdmittedInv, LifeInv
  <2>0. /\ launch[j] = "none" /\ state[j] \notin {"queued", "absent"}
        /\ ~(close.step \in {"publish", "republish"} /\ close.job = j)
    BY DEF FinalInv, Terminal, Outcome
  <2>1. CASE Submitting
    BY <2>0, <2>1 DEF Submitting, SubmitBegin, SubmitRefused, SubmitAdmit,
       SubmitSaved, SubmitSaveFails, SubmitRemoved, SchedulerInv, HolderInv,
       AdmissionInv
  <2>2. ASSUME NEW k \in Job, Launching(k)
        PROVE  state'[j] = state[j]
    BY <2>0, <2>2, LaunchEffects DEF LaunchEffect
  <2>3. ASSUME NEW c \in Cancel, Calling(c)
        PROVE  state'[j] = state[j]
    <3>1. ~WithdrawFails(c)
      BY DEF WithdrawFails, SaveFails
    <3> QED
      BY <2>0, <2>3, <3>1 DEF Calling, CancelAnswered, Withdraw, Waiting,
         RecordBegin, WithdrawSaved, RecordSaved, RecordFails
  <2>4. CASE Shutting
    BY <2>0, <2>4, CloseEffects DEF CloseEffect, Waiting
  <2>5. CASE Booting
    <3>1. ASSUME NEW k \in Job, LoadJob(k)
          PROVE  state'[j] = state[j]
      BY <2>0, <3>1, JobLoaded
    <3> QED
      BY ZenonT(30), <2>5, <3>1 DEF Booting, Crash, Exit, Stop, Start, Loaded
  <2>6. CASE Persisting \/ (\E k \in Job : Terminating(k)) \/ UNCHANGED vars
    BY <2>6 DEF Persisting, Persists, Snapshot, Rename, Terminating, ChildExits,
       TimerFires, EscalationKills, vars
  <2> QED
    BY <2>1, <2>2, <2>3, <2>4, <2>5, <2>6 DEF Next
<1>2. ASSUME KeptInv, [Next]_vars
      PROVE  [\A j \in Job : announced[j] \in Terminal /\ state[j] = announced[j] =>
                state'[j] \in {state[j], "absent"}]_vars
  BY <1>1, <1>2
<1> QED
  BY <1>2, KeptCorrect, PTL DEF Spec, AnnouncedIsFinal
=============================================================================
