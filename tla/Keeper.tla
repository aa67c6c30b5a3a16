------------------------------- MODULE Keeper -------------------------------
(***************************************************************************)
(* `grokbox box keepalive run` (src/src/commands/box.ts): several foreground *)
(* keepers of one Profile, the lock file that shall leave one of them, the *)
(* loop of ticks over the sandbox client (src/src/sandbox/cursor.ts), the  *)
(* state file, and the way out.                                            *)
(*                                                                         *)
(* A lock file is named by the process that created it; it has a record    *)
(* once that process has written it. Each process runs once. Old is one of *)
(* an earlier time whose lock file may have been left behind.              *)
(***************************************************************************)
EXTENDS Naturals, Sequences, FiniteSets

CONSTANTS
  Proc,          \* the keeper processes
  Old,           \* a process that is gone
  None,          \* no lock file, no state file
  Attempts,      \* MAX_TICK_ATTEMPTS
  FailingPersist \* BOOLEAN: may a persist of the state file fail

ASSUME KeeperAssumption ==
  /\ IsFiniteSet(Proc)
  /\ Old \notin Proc /\ None \notin Proc \cup {Old}
  /\ Attempts \in Nat \ {0}
  /\ FailingPersist \in BOOLEAN

VARIABLES
  stage,    \* where each process stands
  attempt,  \* of acquireKeeperLock
  result,   \* how its run ended
  aborted,  \* its signal
  lock,     \* the lock file
  written,  \* the lock files with a record, wherever they are now
  status,   \* the state file: who wrote it, and whether it says running
  tick,     \* the tick in progress: attempt and whether it is the second try
  noops,    \* what the no-ops of the current identity came to
  barred,   \* the last answer in this tick forbids another request
  robbed    \* processes whose lock file somebody else removed

lockVars == <<lock, written, robbed>>
tickVars == <<tick, noops, barred>>
runVars == <<stage, result>>
vars == <<stage, attempt, result, aborted, lock, written, status, tick, noops,
          barred, robbed>>

Keeping == {"starting", "ensuring", "executing", "backoff", "reporting",
            "waiting", "stopping"}
Stage == Keeping \cup {"off", "opening", "writing", "reading", "taking",
                       "releasing", "unlinking", "ended", "dead"}
Reply == {"ok", "unauthorized", "rate_limited", "transient", "permanent"}
Outcome == Reply \cup {"unknown"}

TypeOK ==
  /\ stage \in [Proc -> Stage]
  /\ attempt \in [Proc -> 0..1]
  /\ result \in [Proc -> {"none", "kept", "running", "unavailable", "failed"}]
  /\ aborted \in [Proc -> BOOLEAN]
  /\ lock \in Proc \cup {Old, None}
  /\ written \subseteq Proc \cup {Old}
  /\ status \in [by : Proc \cup {None}, running : BOOLEAN]
  /\ tick \in [Proc -> [try : 1..Attempts, again : BOOLEAN]]
  /\ noops \in [Proc -> Seq(Outcome)]
  /\ barred \in [Proc -> BOOLEAN]
  /\ robbed \subseteq Proc

FirstTry == [try |-> 1, again |-> FALSE]

-----------------------------------------------------------------------------
Goto(p, s) == stage' = [stage EXCEPT ![p] = s]

NeverDead(q) == q # None                         \* mutant: the owner is trusted
Alive(q) == q \in Proc /\ stage[q] \notin {"off", "ended", "dead"}

\* What a tick remembers is gone when it is over, or its process is.
Forget(p) ==
  /\ tick' = [tick EXCEPT ![p] = FirstTry]
  /\ noops' = [noops EXCEPT ![p] = <<>>]
  /\ barred' = [barred EXCEPT ![p] = FALSE]

NotTold(p) == FALSE                              \* mutant: no signal handed on
Told(p) == aborted[p]

QuitInside(p, how) ==                            \* mutant: acquired in the try
  /\ Goto(p, "stopping")
  /\ result' = [result EXCEPT ![p] = how]
Quit(p, how) ==
  /\ Goto(p, "ended")
  /\ result' = [result EXCEPT ![p] = how]

Begin(p) ==
  /\ stage[p] = "off"
  /\ Goto(p, "opening")
  /\ UNCHANGED <<attempt, result, aborted, lockVars, status, tickVars>>

(* acquireKeeperLock: open(wx), then the record, each a step of its own.   *)
Overwrite(p) == TRUE                             \* mutant: open without wx
Creates(p) == lock = None

Create(p) ==
  /\ stage[p] = "opening"
  /\ IF Creates(p) THEN lock' = p /\ Goto(p, "writing")
                   ELSE lock' = lock /\ Goto(p, "reading")
  /\ UNCHANGED <<attempt, result, aborted, written, status, tickVars, robbed>>

Write(p) ==
  /\ stage[p] = "writing"
  /\ written' = written \cup {p}
  /\ Goto(p, "starting")
  /\ result' = [result EXCEPT ![p] = "kept"]
  /\ attempt' = [attempt EXCEPT ![p] = 0]
  /\ UNCHANGED <<aborted, lock, status, tickVars, robbed>>

\* An open or a write that fails ends the run, and may leave an empty file.
AcquireFails(p) ==
  /\ stage[p] \in {"opening", "writing", "taking"}
  /\ Quit(p, "failed")
  /\ UNCHANGED <<attempt, aborted, lockVars, status, tickVars>>

\* The owner is alive; or it is not, or cannot be read: stale, but only once.
ReadLock(p) ==
  /\ stage[p] = "reading"
  /\ IF lock \in written /\ Alive(lock) THEN Quit(p, "running")
     ELSE IF attempt[p] > 0 THEN Quit(p, "unavailable")
     ELSE Goto(p, "taking") /\ UNCHANGED result
  /\ UNCHANGED <<attempt, aborted, lockVars, status, tickVars>>

\* The file of that name, whichever it is by now, is renamed and removed; it
\* is out of the way even where the removal fails.
Take(p) ==
  /\ stage[p] = "taking"
  /\ lock' = None
  /\ robbed' = robbed \cup ({lock} \cap {q \in Proc : Alive(q)})
  /\ \/ /\ attempt' = [attempt EXCEPT ![p] = 1]
        /\ Goto(p, "opening") /\ UNCHANGED result
     \/ lock # None /\ Quit(p, "failed") /\ UNCHANGED attempt
  /\ UNCHANGED <<aborted, written, status, tickVars>>

-----------------------------------------------------------------------------
(* persistKeeperState: a file replaced by rename, which may fail before it *)
(* or after it.                                                            *)
Persist(p, running) == status' = [by |-> p, running |-> running]

\* A failed persist leaves the loop for the finally of runBoxKeepalive.
NoFinally == "ended"                             \* mutant: return at once
AfterFailure == "stopping"

Start(p) ==
  /\ stage[p] = "starting"
  /\ Persist(p, TRUE)
  /\ Goto(p, IF Told(p) THEN "stopping" ELSE "ensuring")
  /\ UNCHANGED <<attempt, result, aborted, lockVars, tickVars>>

PersistFails(p) ==
  /\ FailingPersist
  /\ stage[p] \in {"starting", "reporting"}
  /\ status' = status \/ Persist(p, TRUE)
  /\ Goto(p, AfterFailure)
  /\ Forget(p)
  /\ UNCHANGED <<attempt, result, aborted, lockVars>>

(* performKeeperTick over CursorSandboxClient.tick: what an error means.   *)
UnknownToo(kind) == kind \in {"transient", "unknown"} \* mutant: tried again
Retryable(kind) == kind = "transient"

OneAttemptMore(p) == tick[p].try <= Attempts     \* mutant: off by one
HasAttempts(p) == tick[p].try < Attempts

Fails(p, kind) ==
  /\ barred' = [barred EXCEPT ![p] = kind \in {"rate_limited", "unknown"}]
  /\ Goto(p, IF Told(p) THEN "stopping"
             ELSE IF Retryable(kind) /\ HasAttempts(p) THEN "backoff"
             ELSE "reporting")
  /\ UNCHANGED tick

Ensure(p, reply) ==
  /\ stage[p] = "ensuring"
  /\ IF reply = "ok" THEN Goto(p, "executing") /\ UNCHANGED <<tick, barred>>
                     ELSE Fails(p, reply)
  /\ UNCHANGED <<attempt, result, aborted, lockVars, status, noops>>

\* A no-op refused as unauthorized is sent once more, under a new descriptor
\* and its old identity; refused again, nobody knows what became of it.
ReplayAny(p, outcome) ==                         \* mutant: any passing failure
  outcome \in {"unauthorized", "transient"} /\ ~tick[p].again
Replays(p, outcome) == outcome = "unauthorized" /\ ~tick[p].again

Exec(p, outcome) ==
  /\ stage[p] = "executing"
  /\ noops' = [noops EXCEPT ![p] = Append(@, outcome)]
  /\ \/ /\ outcome = "ok"
        /\ Goto(p, "reporting") /\ UNCHANGED <<tick, barred>>
     \/ /\ Replays(p, outcome)
        /\ tick' = [tick EXCEPT ![p].again = TRUE]
        /\ Goto(p, "ensuring") /\ UNCHANGED barred
     \/ /\ outcome # "ok" /\ ~Replays(p, outcome)
        /\ Fails(p, IF outcome = "unauthorized" THEN "unknown" ELSE outcome)
  /\ UNCHANGED <<attempt, result, aborted, lockVars, status>>

\* The access token is resolved before each attempt, and may not be there.
CredentialFails(p) ==
  /\ stage[p] = "ensuring" /\ ~tick[p].again
  /\ Goto(p, IF Told(p) THEN "stopping" ELSE "reporting")
  /\ UNCHANGED <<attempt, result, aborted, lockVars, status, tickVars>>

Cancelled(p) ==
  /\ stage[p] \in {"ensuring", "executing", "backoff", "waiting"} /\ Told(p)
  /\ Goto(p, "stopping")
  /\ Forget(p)
  /\ UNCHANGED <<attempt, result, aborted, lockVars, status>>

NextAttempt(p) ==
  /\ stage[p] = "backoff" /\ ~Told(p)
  /\ tick' = [tick EXCEPT ![p] = [try |-> @.try + 1, again |-> FALSE]]
  /\ noops' = [noops EXCEPT ![p] = <<>>]
  /\ Goto(p, "ensuring")
  /\ UNCHANGED <<attempt, result, aborted, lockVars, status, barred>>

Report(p) ==
  /\ stage[p] = "reporting"
  /\ Persist(p, TRUE)
  /\ Goto(p, IF Told(p) THEN "stopping" ELSE "waiting")
  /\ Forget(p)
  /\ UNCHANGED <<attempt, result, aborted, lockVars>>

NextTick(p) ==
  /\ stage[p] = "waiting" /\ ~Told(p)
  /\ Goto(p, "ensuring")
  /\ UNCHANGED <<attempt, result, aborted, lockVars, status, tickVars>>

-----------------------------------------------------------------------------
(* The finally: the last state, then the lock, if its record is one's own. *)
(* A lock that cannot be read or removed stays: such a run has failed too. *)
SayStopped(p) ==
  /\ stage[p] = "stopping"
  /\ Persist(p, FALSE) \/ (FailingPersist /\ status' = status)
  /\ Goto(p, "releasing")
  /\ Forget(p)
  /\ UNCHANGED <<attempt, result, aborted, lockVars>>

ReadOwn(p) ==
  /\ stage[p] = "releasing"
  /\ \/ Goto(p, IF lock = p THEN "unlinking" ELSE "ended") /\ UNCHANGED result
     \/ lock = p /\ Quit(p, "failed")
  /\ UNCHANGED <<attempt, aborted, lockVars, status, tickVars>>

Unlink(p) ==
  /\ stage[p] = "unlinking"
  /\ \/ /\ lock' = None
        /\ robbed' = robbed \cup ({lock} \cap {q \in Proc \ {p} : Alive(q)})
        /\ Goto(p, "ended") /\ UNCHANGED result
     \/ Quit(p, "failed") /\ UNCHANGED <<lock, robbed>>
  /\ UNCHANGED <<attempt, aborted, written, status, tickVars>>

Abort(p) ==
  /\ Alive(p) /\ ~aborted[p]
  /\ aborted' = [aborted EXCEPT ![p] = TRUE]
  /\ UNCHANGED <<attempt, runVars, lockVars, status, tickVars>>

Crash(p) ==
  /\ Alive(p)
  /\ Goto(p, "dead")
  /\ Forget(p)
  /\ attempt' = [attempt EXCEPT ![p] = 0]
  /\ aborted' = [aborted EXCEPT ![p] = FALSE]
  /\ UNCHANGED <<result, lockVars, status>>

-----------------------------------------------------------------------------
Init ==
  /\ stage = [p \in Proc |-> "off"]
  /\ attempt = [p \in Proc |-> 0]
  /\ result = [p \in Proc |-> "none"]
  /\ aborted = [p \in Proc |-> FALSE]
  /\ lock \in {None, Old} /\ written \in SUBSET {Old}
  /\ status = [by |-> None, running |-> FALSE]
  /\ tick = [p \in Proc |-> FirstTry]
  /\ noops = [p \in Proc |-> <<>>]
  /\ barred = [p \in Proc |-> FALSE]
  /\ robbed = {}

Acquiring(p) == Create(p) \/ Write(p) \/ AcquireFails(p) \/ ReadLock(p) \/ Take(p)
Ticking(p) ==
  \/ \E reply \in Reply : Ensure(p, reply)
  \/ \E outcome \in Outcome : Exec(p, outcome)
  \/ CredentialFails(p) \/ NextAttempt(p) \/ NextTick(p)
Stopping(p) == Cancelled(p) \/ SayStopped(p) \/ ReadOwn(p) \/ Unlink(p)
Step(p) ==
  \/ Acquiring(p) \/ Start(p) \/ PersistFails(p) \/ Ticking(p) \/ Report(p)
  \/ Stopping(p)

Next == \E p \in Proc : Begin(p) \/ Step(p) \/ Abort(p) \/ Crash(p)

Spec == Init /\ [][Next]_vars

\* A process that runs goes on: its requests and waits end by their timers
\* or by its signal. Nobody has to start, stop or kill it.
FairSpec == Spec /\ \A p \in Proc : WF_vars(Step(p))

-----------------------------------------------------------------------------
Keeps(p) == stage[p] \in Keeping

\* The single-instance lock: no two keepers of one Profile at once.
OneKeeper == \A p, q \in Proc : Keeps(p) /\ Keeps(q) => p = q

\* They overlap only where a lock file was removed from under its live
\* owner, between the look and the rename or before the record was there.
OneKeeperUnlessRobbed == robbed = {} => OneKeeper

AllDone == \A p \in Proc : stage[p] \in {"off", "ended"} /\ result[p] # "failed"

\* Keepers that start together do not all refuse for each other, nor for
\* a lock file left behind: if nothing failed, one of them has kept.
NotAllRefused ==
  AllDone /\ (\E p \in Proc : stage[p] = "ended")
    => \E p \in Proc : result[p] = "kept"

\* However keepers overlap and whatever state fails to persist, keepers that
\* ended by themselves and could read and remove theirs leave no lock behind.
NoLockLeft == AllDone /\ (\E p \in Proc : result[p] = "kept") => lock = None

\* The state file speaks of the keeper: what an earlier one writes last and
\* what a refused one would write never covers it.
StatusIsTheKeepers ==
  robbed = {} =>
    \A p \in Proc : Keeps(p) /\ stage[p] \notin {"starting", "stopping"}
      => status = [by |-> p, running |-> TRUE]

\* One identity is sent at most twice, the second time only after a refusal.
ReplayOnlyRefused ==
  \A p \in Proc : Len(noops[p]) <= 2
    /\ (Len(noops[p]) = 2 => noops[p][1] = "unauthorized")

\* In one tick nothing is sent after a limit was told, and no no-op after one
\* of which nobody knows what became of it.
NothingAfterBar ==
  [][\A p \in Proc :
       barred[p] => stage'[p] \notin {"ensuring", "executing"}]_vars

\* A keeper that is told to stop gets through its finally.
StopCompletes == \A p \in Proc : aborted[p] ~> stage[p] \in {"ended", "dead"}
=============================================================================
