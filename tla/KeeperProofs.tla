---------------------------- MODULE KeeperProofs ----------------------------
(***************************************************************************)
(* What is proved of the keepers, for any set of them.                     *)
(***************************************************************************)
EXTENDS Keeper, SequenceTheorems, TLAPS

\* Who created the lock file and is on the way to keep, or keeps, has it.
LockInv ==
  robbed = {} =>
    \A p \in Proc : stage[p] \in Keeping \cup {"writing"} => lock = p

-----------------------------------------------------------------------------
\* The types of what concerns the process and the files.
RunTypeOK ==
  /\ stage \in [Proc -> Stage]
  /\ attempt \in [Proc -> 0..1]
  /\ result \in [Proc -> {"none", "kept", "running", "unavailable", "failed"}]
  /\ aborted \in [Proc -> BOOLEAN]
  /\ lock \in Proc \cup {Old, None}
  /\ written \subseteq Proc \cup {Old}
  /\ status \in [by : Proc \cup {None}, running : BOOLEAN]
  /\ robbed \subseteq Proc

Tick == [try : 1..Attempts, again : BOOLEAN]

\* The types of what concerns the tick.
TickTypeOK ==
  /\ tick \in [Proc -> Tick]
  /\ noops \in [Proc -> Seq(Outcome)]
  /\ barred \in [Proc -> BOOLEAN]

\* Who waits for another attempt has one.
BackoffInv == \A p \in Proc : stage[p] = "backoff" => tick[p].try < Attempts

\* The stages by name.
LEMMA Stages ==
  /\ {"off", "opening", "writing", "reading", "taking", "starting", "ensuring",
      "executing", "backoff", "reporting", "waiting", "stopping", "releasing",
      "unlinking", "ended", "dead"} = Stage
BY DEF Stage, Keeping

\* Going to a stage keeps the type.
LEMMA GotoType ==
  \A p \in Proc, s \in Stage :
    stage \in [Proc -> Stage] /\ Goto(p, s) => stage' \in [Proc -> Stage]
BY DEF Goto

\* A persist writes a state.
LEMMA PersistType ==
  \A p \in Proc, b \in BOOLEAN :
    Persist(p, b) => status' \in [by : Proc \cup {None}, running : BOOLEAN]
<1> SUFFICES ASSUME NEW p \in Proc, NEW b \in BOOLEAN, Persist(p, b)
             PROVE status' \in [by : Proc \cup {None}, running : BOOLEAN]
  OBVIOUS
<1>1. status' = [by |-> p, running |-> b]
  BY DEF Persist
<1>2. p \in Proc \cup {None}
  OBVIOUS
<1> QED
  BY <1>1, <1>2

\* An answer keeps the type of barred, and replaces the tick only in a replay.
LEMMA AnswerType ==
  \A p \in Proc, kind \in Outcome :
    /\ barred \in [Proc -> BOOLEAN] /\ Fails(p, kind)
         => barred' \in [Proc -> BOOLEAN] /\ tick' = tick
<1> SUFFICES ASSUME NEW p \in Proc, NEW kind \in Outcome,
                    barred \in [Proc -> BOOLEAN], Fails(p, kind)
             PROVE barred' \in [Proc -> BOOLEAN] /\ tick' = tick
  OBVIOUS
<1>1. \E b \in BOOLEAN : barred' = [barred EXCEPT ![p] = b]
  <2> DEFINE b == kind \in {"rate_limited", "unknown"}
  <2>1. b \in BOOLEAN
    OBVIOUS
  <2>2. barred' = [barred EXCEPT ![p] = b]
    BY Zenon DEF Fails
  <2> HIDE DEF b
  <2> QED
    BY <2>1, <2>2
<1>2. barred' \in [Proc -> BOOLEAN]
  BY <1>1
<1> QED
  BY <1>2 DEF Fails

\* Forgetting a tick, or leaving it alone, keeps its types.
LEMMA ForgetType ==
  \A p \in Proc : TickTypeOK /\ (Forget(p) \/ UNCHANGED tickVars) => TickTypeOK'
<1> SUFFICES ASSUME NEW p \in Proc, TickTypeOK,
                    Forget(p) \/ UNCHANGED tickVars
             PROVE TickTypeOK'
  OBVIOUS
<1>1. FirstTry \in Tick
  BY KeeperAssumption DEF FirstTry, Tick
<1>2. <<>> \in Seq(Outcome)
  OBVIOUS
<1>3. CASE Forget(p)
  BY <1>1, <1>2, <1>3 DEF Forget, TickTypeOK
<1>4. CASE UNCHANGED tickVars
  BY <1>4 DEF tickVars, TickTypeOK
<1> QED
  BY <1>3, <1>4

\* Every step keeps the types of the process and the files.
LEMMA RunTypeKept == RunTypeOK /\ [Next]_vars => RunTypeOK'
<1> SUFFICES ASSUME RunTypeOK, [Next]_vars PROVE RunTypeOK'
  OBVIOUS
<1> USE DEF RunTypeOK, lockVars, runVars
<1>1. ASSUME NEW p \in Proc, Begin(p) \/ AcquireFails(p) PROVE RunTypeOK'
  BY <1>1 DEF Begin, AcquireFails, Quit, Goto, Stage, Keeping
<1>2. ASSUME NEW p \in Proc, Create(p) \/ Write(p) PROVE RunTypeOK'
  BY <1>2 DEF Create, Write, Goto, Stage, Keeping
<1>3. ASSUME NEW p \in Proc, ReadLock(p) PROVE RunTypeOK'
  BY <1>3, GotoType, Stages DEF ReadLock, Quit
<1>4. ASSUME NEW p \in Proc, Take(p) \/ Unlink(p) PROVE RunTypeOK'
  BY <1>4, GotoType, Stages DEF Take, Unlink, Quit
<1>5. ASSUME NEW p \in Proc, Start(p) \/ Report(p) PROVE RunTypeOK'
  BY <1>5, GotoType, PersistType, Stages DEF Start, Report
<1>6. ASSUME NEW p \in Proc, PersistFails(p) PROVE RunTypeOK'
  BY <1>6, GotoType, PersistType, Stages DEF PersistFails, AfterFailure
<1>7. ASSUME NEW p \in Proc, NEW reply \in Reply, Ensure(p, reply)
      PROVE RunTypeOK'
  BY <1>7 DEF Ensure, Fails, Goto, Stage, Keeping
<1>8. ASSUME NEW p \in Proc, NEW outcome \in Outcome, Exec(p, outcome)
      PROVE RunTypeOK'
  BY <1>8, GotoType, Stages DEF Exec, Fails
<1>9. ASSUME NEW p \in Proc, CredentialFails(p) \/ NextTick(p) \/ NextAttempt(p)
      PROVE RunTypeOK'
  BY <1>9, GotoType, Stages DEF CredentialFails, NextTick, NextAttempt
<1>10. ASSUME NEW p \in Proc, Cancelled(p) \/ ReadOwn(p) PROVE RunTypeOK'
  BY <1>10, GotoType, Stages DEF Cancelled, ReadOwn, Quit
<1>11. ASSUME NEW p \in Proc, SayStopped(p) PROVE RunTypeOK'
  BY <1>11, GotoType, PersistType, Stages DEF SayStopped
<1>12. ASSUME NEW p \in Proc, Abort(p) \/ Crash(p) PROVE RunTypeOK'
  <2>1. stage' \in [Proc -> Stage]
    BY <1>12, GotoType, Stages DEF Abort, Crash
  <2>2. aborted' \in [Proc -> BOOLEAN]
    BY <1>12 DEF Abort, Crash
  <2>3. attempt' \in [Proc -> 0..1]
    BY <1>12 DEF Abort, Crash
  <2> QED
    BY <1>12, <2>1, <2>2, <2>3 DEF Abort, Crash
<1>13. CASE UNCHANGED vars
  BY <1>13 DEF vars
<1> QED
  BY <1>1, <1>2, <1>3, <1>4, <1>5, <1>6, <1>7, <1>8, <1>9, <1>10, <1>11,
     <1>12, <1>13
  DEF Next, Step, Acquiring, Ticking, Stopping

\* Every step keeps the types of the tick.
LEMMA TickTypeKept == TickTypeOK /\ BackoffInv /\ [Next]_vars => TickTypeOK'
<1> SUFFICES ASSUME TickTypeOK, BackoffInv, [Next]_vars PROVE TickTypeOK'
  OBVIOUS
<1>1. ASSUME NEW p \in Proc,
             Begin(p) \/ Acquiring(p) \/ Start(p) \/ PersistFails(p) \/ Report(p)
      PROVE TickTypeOK'
  BY <1>1, ForgetType
  DEF Begin, Acquiring, Create, Write, AcquireFails, ReadLock, Take, Start,
      PersistFails, Report
<1>2. ASSUME NEW p \in Proc, Stopping(p) \/ Abort(p) \/ Crash(p)
      PROVE TickTypeOK'
  BY <1>2, ForgetType
  DEF Stopping, Cancelled, SayStopped, ReadOwn, Unlink, Quit, Abort, Crash
<1>3. ASSUME NEW p \in Proc, NEW reply \in Reply, Ensure(p, reply)
      PROVE TickTypeOK'
  <2>1. UNCHANGED <<tick, barred>> \/ Fails(p, reply)
    BY <1>3 DEF Ensure
  <2>2. noops' = noops
    BY <1>3 DEF Ensure
  <2> QED
    BY <2>1, <2>2, AnswerType DEF TickTypeOK, Outcome
<1>4. ASSUME NEW p \in Proc, NEW outcome \in Outcome, Exec(p, outcome)
      PROVE TickTypeOK'
  <2>1. noops' \in [Proc -> Seq(Outcome)]
    BY <1>4 DEF Exec, TickTypeOK
  <2>2. tick' \in [Proc -> Tick]
    <3>1. tick' = tick \/ tick' = [tick EXCEPT ![p] = [@ EXCEPT !.again = TRUE]]
      BY <1>4 DEF Exec, Fails
    <3>2. [tick[p] EXCEPT !.again = TRUE] \in Tick
      BY DEF TickTypeOK, Tick
    <3> QED
      BY <3>1, <3>2 DEF TickTypeOK
  <2>3. barred' \in [Proc -> BOOLEAN]
    <3>1. barred' = barred \/ \E kind \in Outcome : Fails(p, kind)
      BY <1>4 DEF Exec, Outcome
    <3> QED
      BY <3>1, AnswerType DEF TickTypeOK
  <2> QED
    BY <2>1, <2>2, <2>3 DEF TickTypeOK
<1>5. ASSUME NEW p \in Proc, CredentialFails(p) \/ NextTick(p) PROVE TickTypeOK'
  BY <1>5 DEF CredentialFails, NextTick, TickTypeOK, tickVars
<1>6. ASSUME NEW p \in Proc, NextAttempt(p) PROVE TickTypeOK'
  <2>1. tick[p].try < Attempts
    BY <1>6 DEF NextAttempt, BackoffInv
  <2>2. [try |-> tick[p].try + 1, again |-> FALSE] \in Tick
    BY <2>1, KeeperAssumption DEF TickTypeOK, Tick
  <2> QED
    BY <1>6, <2>2 DEF NextAttempt, TickTypeOK
<1>7. CASE UNCHANGED vars
  BY <1>7 DEF vars, TickTypeOK
<1> QED
  BY <1>1, <1>2, <1>3, <1>4, <1>5, <1>6, <1>7 DEF Next, Step, Ticking

\* No step makes a keeper wait for an attempt that it does not have.
LEMMA BackoffKept ==
  RunTypeOK /\ TickTypeOK /\ BackoffInv /\ [Next]_vars => BackoffInv'
<1> SUFFICES ASSUME RunTypeOK, TickTypeOK, BackoffInv, [Next]_vars
             PROVE BackoffInv'
  OBVIOUS
<1> USE DEF RunTypeOK, TickTypeOK, BackoffInv, Goto
<1>1. ASSUME NEW p \in Proc,
             Begin(p) \/ Acquiring(p) \/ Start(p) \/ Report(p) \/ PersistFails(p)
      PROVE BackoffInv'
  BY <1>1 DEF Begin, Acquiring, Create, Write, AcquireFails, ReadLock, Take,
              Start, Report, PersistFails, AfterFailure, Quit, Forget, tickVars
<1>2. ASSUME NEW p \in Proc, Stopping(p) \/ Abort(p) \/ Crash(p)
      PROVE BackoffInv'
  BY <1>2 DEF Stopping, Cancelled, SayStopped, ReadOwn, Unlink, Quit, Abort,
              Crash, Forget, tickVars, runVars
<1>3. ASSUME NEW p \in Proc, NEW reply \in Reply, Ensure(p, reply)
      PROVE BackoffInv'
  BY <1>3 DEF Ensure, Fails, HasAttempts
<1>4. ASSUME NEW p \in Proc, NEW outcome \in Outcome, Exec(p, outcome)
      PROVE BackoffInv'
  <2>1. CASE stage'[p] # "backoff"
    <3>1. \A q \in Proc \ {p} : stage'[q] = stage[q] /\ tick'[q] = tick[q]
      BY <1>4 DEF Exec, Fails
    <3> QED
      BY <2>1, <3>1
  <2>2. CASE stage'[p] = "backoff"
    <3>1. HasAttempts(p) /\ tick' = tick
      BY <1>4, <2>2 DEF Exec, Fails
    <3>2. \A q \in Proc \ {p} : stage'[q] = stage[q]
      BY <1>4 DEF Exec, Fails
    <3> QED
      BY <2>2, <3>1, <3>2 DEF HasAttempts
  <2> QED
    BY <2>1, <2>2
<1>5. ASSUME NEW p \in Proc, CredentialFails(p) \/ NextTick(p) \/ NextAttempt(p)
      PROVE BackoffInv'
  BY <1>5 DEF CredentialFails, NextTick, NextAttempt, tickVars
<1>6. CASE UNCHANGED vars
  BY <1>6 DEF vars
<1> QED
  BY <1>1, <1>2, <1>3, <1>4, <1>5, <1>6 DEF Next, Step, Ticking

\* Every variable of the keepers keeps its type.
THEOREM KeeperTypeCorrect == Spec => []TypeOK
<1>1. Init => RunTypeOK /\ TickTypeOK /\ BackoffInv
  BY KeeperAssumption, Stages
  DEF Init, RunTypeOK, TickTypeOK, BackoffInv, Tick, FirstTry
<1>2. RunTypeOK /\ TickTypeOK /\ BackoffInv /\ [Next]_vars
        => RunTypeOK' /\ TickTypeOK' /\ BackoffInv'
  BY RunTypeKept, TickTypeKept, BackoffKept
<1>3. RunTypeOK /\ TickTypeOK => TypeOK
  BY DEF RunTypeOK, TickTypeOK, TypeOK, Tick
<1> QED
  BY <1>1, <1>2, <1>3, PTL DEF Spec

\* While nobody lost its lock file, the lock file is of the one that keeps.
THEOREM LockCorrect == Spec => []LockInv
<1>1. Init => LockInv
  BY DEF Init, LockInv, Keeping
<1>2. TypeOK /\ LockInv /\ [Next]_vars => LockInv'
  <2> SUFFICES ASSUME TypeOK, LockInv, [Next]_vars PROVE LockInv'
    OBVIOUS
  <2> USE DEF LockInv, TypeOK, Stage, Keeping, lockVars, tickVars, Goto
  <2>1. ASSUME NEW p \in Proc, Create(p) PROVE LockInv'
    BY <2>1, KeeperAssumption DEF Create, Creates
  <2>2. ASSUME NEW p \in Proc, Write(p) PROVE LockInv'
    BY <2>2 DEF Write
  <2>3. ASSUME NEW p \in Proc, Begin(p) \/ AcquireFails(p) \/ ReadLock(p)
        PROVE LockInv'
    BY <2>3 DEF Begin, AcquireFails, ReadLock, Quit
  <2>4. ASSUME NEW p \in Proc, Take(p) \/ Unlink(p) PROVE LockInv'
    <3>1. SUFFICES ASSUME robbed' = {}, NEW q \in Proc,
                          stage'[q] \in Keeping \cup {"writing"}
                   PROVE lock' = q
      OBVIOUS
    <3>2. q # p /\ stage'[q] = stage[q]
      BY <2>4, <3>1 DEF Take, Unlink, Quit
    <3>3. robbed = {} /\ lock = q
      BY <2>4, <3>1, <3>2 DEF Take, Unlink
    <3>4. Alive(q)
      BY <3>1, <3>2 DEF Alive
    <3>5. CASE lock' = None
      <4>1. q \in robbed'
        BY <2>4, <3>2, <3>3, <3>4, <3>5, KeeperAssumption DEF Take, Unlink
      <4> QED
        BY <3>1, <4>1
    <3> QED
      BY <2>4, <3>3, <3>5 DEF Take, Unlink
  <2>5. ASSUME NEW p \in Proc, Start(p) \/ PersistFails(p) \/ Report(p)
        PROVE LockInv'
    BY <2>5 DEF Start, PersistFails, Report, AfterFailure
  <2>6. ASSUME NEW p \in Proc, Ticking(p) PROVE LockInv'
    <3>1. stage[p] \in Keeping /\ lock' = lock /\ robbed' = robbed
      BY <2>6 DEF Ticking, Ensure, Exec, CredentialFails, NextAttempt, NextTick
    <3>2. \A q \in Proc \ {p} : stage'[q] = stage[q]
      BY <2>6 DEF Ticking, Ensure, Exec, Fails, CredentialFails, NextAttempt,
                  NextTick
    <3> QED
      BY <3>1, <3>2
  <2>7. ASSUME NEW p \in Proc, Cancelled(p) \/ SayStopped(p) \/ ReadOwn(p)
        PROVE LockInv'
    BY ZenonT(30), <2>7 DEF Cancelled, SayStopped, ReadOwn, Quit
  <2>8. ASSUME NEW p \in Proc, Abort(p) \/ Crash(p) PROVE LockInv'
    BY <2>8 DEF Abort, Crash, runVars
  <2>9. CASE UNCHANGED vars
    BY <2>9 DEF vars
  <2> QED
    BY <2>1, <2>2, <2>3, <2>4, <2>5, <2>6, <2>7, <2>8, <2>9
    DEF Next, Step, Acquiring, Stopping
<1> QED
  BY <1>1, <1>2, KeeperTypeCorrect, PTL DEF Spec

\* Two keepers overlap only if a live owner lost its lock file.
THEOREM ExclusiveUnlessRobbed == Spec => []OneKeeperUnlessRobbed
<1>1. LockInv => OneKeeperUnlessRobbed
  BY DEF LockInv, OneKeeperUnlessRobbed, OneKeeper, Keeps
<1> QED
  BY <1>1, LockCorrect, PTL

-----------------------------------------------------------------------------
\* A process has created a lock file, or is dead and may have.
Created(q) ==
  stage[q] \in {"writing", "dead"} \/ result[q] \in {"kept", "failed"}

\* Whoever created the lock file has yet to release it, or cannot.
OwnerInv ==
  lock \in Proc =>
    \/ stage[lock] \in Keeping \cup {"writing", "releasing", "unlinking", "dead"}
    \/ stage[lock] = "ended" /\ result[lock] = "failed"

\* While the lock file of the earlier time is there nobody has replaced it.
OldInv ==
  lock = Old => \A p \in Proc :
    /\ attempt[p] = 0 /\ stage[p] # "writing" /\ result[p] # "kept"

\* A record is there only of a process that keeps or kept, and a process is
\* refused only where another has created a lock file.
RefusedInv ==
  /\ \A p \in Proc :
       stage[p] \in {"off", "opening", "writing", "reading", "taking"}
         => result[p] = "none"
  /\ \A p \in Proc : stage[p] = "ended" => result[p] # "none"
  /\ \A p \in Proc :
       stage[p] \in Keeping \cup {"releasing", "unlinking"} => result[p] = "kept"
  /\ \A q \in written \cap Proc : result[q] \in {"kept", "failed"}
  /\ \A p \in Proc :
       \/ result[p] \in {"running", "unavailable"}
       \/ stage[p] = "reading" /\ attempt[p] = 1
       => \E q \in Proc : Created(q)

\* The steps of one that keeps, the way out until the lock is let go included.
KeepingStep(p) ==
  \/ Start(p) \/ PersistFails(p) \/ Report(p) \/ Ticking(p)
  \/ Cancelled(p) \/ SayStopped(p)

\* One that keeps goes on in its stages and leaves the lock file alone.
LEMMA KeepingSteps ==
  \A p \in Proc :
    stage \in [Proc -> Stage] /\ KeepingStep(p) =>
      /\ stage[p] \in Keeping
      /\ stage'[p] \in Keeping \cup {"releasing"}
      /\ \A q \in Proc \ {p} : stage'[q] = stage[q]
      /\ UNCHANGED <<attempt, result, aborted, lockVars>>
<1> SUFFICES ASSUME NEW p \in Proc, stage \in [Proc -> Stage], KeepingStep(p)
             PROVE /\ stage[p] \in Keeping
                   /\ stage'[p] \in Keeping \cup {"releasing"}
                   /\ \A q \in Proc \ {p} : stage'[q] = stage[q]
                   /\ UNCHANGED <<attempt, result, aborted, lockVars>>
  OBVIOUS
<1> USE DEF Goto, Keeping
<1>1. CASE Start(p)
  BY <1>1 DEF Start
<1>2. CASE PersistFails(p)
  BY <1>2 DEF PersistFails, AfterFailure
<1>3. CASE Report(p)
  BY <1>3 DEF Report
<1>4. CASE Ticking(p)
  BY <1>4 DEF Ticking, Ensure, Exec, Fails, CredentialFails, NextAttempt, NextTick
<1>5. CASE Cancelled(p) \/ SayStopped(p)
  BY <1>5 DEF Cancelled, SayStopped
<1> QED
  BY <1>1, <1>2, <1>3, <1>4, <1>5 DEF KeepingStep

\* What a step is.
LEMMA NextSteps ==
  [Next]_vars =>
    \/ \E p \in Proc :
         \/ Begin(p) \/ Create(p) \/ Write(p) \/ AcquireFails(p)
         \/ ReadLock(p) \/ Take(p) \/ KeepingStep(p)
         \/ ReadOwn(p) \/ Unlink(p) \/ Abort(p) \/ Crash(p)
    \/ UNCHANGED vars
BY DEF Next, Step, Acquiring, Stopping, KeepingStep

\* What a process has created stays created.
LEMMA CreatedStays ==
  RunTypeOK /\ RefusedInv /\ [Next]_vars
    => \A q \in Proc : Created(q) => Created(q)'
<1> SUFFICES ASSUME RunTypeOK, RefusedInv, [Next]_vars,
                    NEW q \in Proc, Created(q)
             PROVE Created(q)'
  OBVIOUS
<1> USE DEF RunTypeOK, RefusedInv, Created, Goto, Keeping
<1>1. ASSUME NEW p \in Proc, Begin(p) \/ Create(p) \/ Take(p) PROVE Created(q)'
  BY <1>1 DEF Begin, Create, Take, Quit
<1>2. ASSUME NEW p \in Proc, Write(p) PROVE Created(q)'
  BY <1>2 DEF Write
<1>3. ASSUME NEW p \in Proc, AcquireFails(p) PROVE Created(q)'
  BY <1>3 DEF AcquireFails, Quit
<1>4. ASSUME NEW p \in Proc, ReadLock(p) PROVE Created(q)'
  <2>1. p # q
    BY <1>4 DEF ReadLock
  <2> QED
    BY <1>4, <2>1 DEF ReadLock, Quit
<1>5. ASSUME NEW p \in Proc, KeepingStep(p) PROVE Created(q)'
  <2>1. stage[p] \in Keeping /\ result' = result
    BY <1>5, KeepingSteps DEF RunTypeOK
  <2>2. q # p => stage'[q] = stage[q]
    BY <1>5, KeepingSteps DEF RunTypeOK
  <2> QED
    BY <2>1, <2>2
<1>6. ASSUME NEW p \in Proc, ReadOwn(p) \/ Unlink(p) PROVE Created(q)'
  BY <1>6 DEF ReadOwn, Unlink, Quit
<1>7. ASSUME NEW p \in Proc, Abort(p) \/ Crash(p) PROVE Created(q)'
  BY <1>7 DEF Abort, Crash, runVars
<1>8. CASE UNCHANGED vars
  BY <1>8 DEF vars
<1> QED
  BY <1>1, <1>2, <1>3, <1>4, <1>5, <1>6, <1>7, <1>8, NextSteps

\* Every step keeps the owner of the lock file on its way.
LEMMA OwnerKept == RunTypeOK /\ RefusedInv /\ OwnerInv /\ [Next]_vars => OwnerInv'
<1> SUFFICES ASSUME RunTypeOK, RefusedInv, OwnerInv, [Next]_vars PROVE OwnerInv'
  OBVIOUS
<1> USE KeeperAssumption DEF RunTypeOK, OwnerInv, RefusedInv, Goto, Keeping
<1>1. ASSUME NEW p \in Proc, Begin(p) \/ Create(p) \/ Take(p) PROVE OwnerInv'
  BY <1>1 DEF Begin, Create, Creates, Take, lockVars
<1>2. ASSUME NEW p \in Proc, Write(p) PROVE OwnerInv'
  BY <1>2 DEF Write
<1>3. ASSUME NEW p \in Proc, AcquireFails(p) PROVE OwnerInv'
  BY <1>3 DEF AcquireFails, Quit, lockVars
<1>4. ASSUME NEW p \in Proc, ReadLock(p) PROVE OwnerInv'
  BY <1>4 DEF ReadLock, Quit, lockVars
<1>5. ASSUME NEW p \in Proc, KeepingStep(p) PROVE OwnerInv'
  <2>1. stage[p] \in Keeping /\ stage'[p] \in Keeping \cup {"releasing"}
    BY <1>5, KeepingSteps
  <2>2. \A q \in Proc \ {p} : stage'[q] = stage[q]
    BY <1>5, KeepingSteps
  <2>3. UNCHANGED <<attempt, result, lock>>
    BY <1>5, KeepingSteps DEF lockVars
  <2> QED
    BY <2>1, <2>2, <2>3
<1>6. ASSUME NEW p \in Proc, ReadOwn(p) PROVE OwnerInv'
  BY <1>6 DEF ReadOwn, Quit, lockVars
<1>7. ASSUME NEW p \in Proc, Unlink(p) PROVE OwnerInv'
  BY <1>7 DEF Unlink, Quit
<1>8. ASSUME NEW p \in Proc, Abort(p) \/ Crash(p) PROVE OwnerInv'
  BY <1>8 DEF Abort, Crash, runVars, lockVars
<1>9. CASE UNCHANGED vars
  BY <1>9 DEF vars
<1> QED
  BY <1>1, <1>2, <1>3, <1>4, <1>5, <1>6, <1>7, <1>8, <1>9, NextSteps

\* Every step keeps a lock file of the earlier time first, or removes it.
LEMMA OldKept == RunTypeOK /\ RefusedInv /\ OldInv /\ [Next]_vars => OldInv'
<1> SUFFICES ASSUME RunTypeOK, RefusedInv, OldInv, [Next]_vars PROVE OldInv'
  OBVIOUS
<1> USE KeeperAssumption DEF RunTypeOK, OldInv, RefusedInv, Goto, Keeping
<1>1. ASSUME NEW p \in Proc, Begin(p) \/ Create(p) \/ Take(p) PROVE OldInv'
  BY <1>1 DEF Begin, Create, Creates, Take, lockVars
<1>2. ASSUME NEW p \in Proc, Write(p) PROVE OldInv'
  BY <1>2 DEF Write
<1>3. ASSUME NEW p \in Proc, AcquireFails(p) PROVE OldInv'
  BY <1>3 DEF AcquireFails, Quit, lockVars
<1>4. ASSUME NEW p \in Proc, ReadLock(p) PROVE OldInv'
  BY <1>4 DEF ReadLock, Quit, lockVars
<1>5. ASSUME NEW p \in Proc, KeepingStep(p) PROVE OldInv'
  <2>1. stage[p] \in Keeping /\ stage'[p] \in Keeping \cup {"releasing"}
    BY <1>5, KeepingSteps
  <2>2. \A q \in Proc \ {p} : stage'[q] = stage[q]
    BY <1>5, KeepingSteps
  <2>3. UNCHANGED <<attempt, result, lock>>
    BY <1>5, KeepingSteps DEF lockVars
  <2> QED
    BY <2>1, <2>2, <2>3
<1>6. ASSUME NEW p \in Proc, ReadOwn(p) PROVE OldInv'
  BY <1>6 DEF ReadOwn, lockVars
<1>7. ASSUME NEW p \in Proc, Unlink(p) PROVE OldInv'
  BY <1>7 DEF Unlink
<1>8. ASSUME NEW p \in Proc, Abort(p) \/ Crash(p) PROVE OldInv'
  BY <1>8 DEF Abort, Crash, runVars, lockVars
<1>9. CASE UNCHANGED vars
  BY <1>9 DEF vars
<1> QED
  BY <1>1, <1>2, <1>3, <1>4, <1>5, <1>6, <1>7, <1>8, <1>9, NextSteps

\* Every step keeps the reasons of what was refused.
LEMMA RefusedKept ==
  RunTypeOK /\ OwnerInv /\ OldInv /\ RefusedInv /\ [Next]_vars => RefusedInv'
<1> SUFFICES ASSUME RunTypeOK, OwnerInv, OldInv, RefusedInv, [Next]_vars
             PROVE RefusedInv'
  OBVIOUS
<1>0. \A q \in Proc : Created(q) => Created(q)'
  BY CreatedStays
<1> USE KeeperAssumption DEF RunTypeOK, Goto, Keeping
<1>1. ASSUME NEW p \in Proc, Begin(p) \/ Take(p) PROVE RefusedInv'
  BY <1>0, <1>1 DEF RefusedInv, Begin, Take, Quit, lockVars
<1>2. ASSUME NEW p \in Proc, Create(p) PROVE RefusedInv'
  <2>1. attempt[p] = 1 /\ lock # None => lock \in Proc
    BY DEF OldInv
  <2>2. lock \in Proc => Created(lock)
    BY DEF OwnerInv, RefusedInv, Created
  <2>3. (stage'[p] = "reading" /\ attempt'[p] = 1) => \E q \in Proc : Created(q)
    BY <1>2, <2>1, <2>2 DEF Create, Creates
  <2> QED
    BY <1>0, <1>2, <2>3 DEF RefusedInv, Create
<1>3. ASSUME NEW p \in Proc, Write(p) PROVE RefusedInv'
  BY <1>0, <1>3 DEF RefusedInv, Write
<1>4. ASSUME NEW p \in Proc, AcquireFails(p) PROVE RefusedInv'
  <2>1. p \notin written
    BY <1>4 DEF RefusedInv, AcquireFails
  <2> QED
    BY <1>0, <1>4, <2>1 DEF RefusedInv, AcquireFails, Quit, lockVars
<1>5. ASSUME NEW p \in Proc, ReadLock(p) PROVE RefusedInv'
  <2>1. lock \in written /\ Alive(lock) => Created(lock) /\ lock \in Proc
    BY DEF RefusedInv, Created, Alive
  <2>2. attempt[p] > 0 => attempt[p] = 1
    OBVIOUS
  <2>3. result'[p] \in {"running", "unavailable"} => \E q \in Proc : Created(q)
    BY <1>5, <2>1, <2>2 DEF ReadLock, Quit, RefusedInv
  <2>4. stage'[p] # "reading"
    BY <1>5 DEF ReadLock, Quit
  <2>5. p \notin written
    BY <1>5 DEF RefusedInv, ReadLock
  <2> QED
    BY <1>0, <1>5, <2>3, <2>4, <2>5 DEF RefusedInv, ReadLock, Quit, lockVars
<1>6. ASSUME NEW p \in Proc, KeepingStep(p) PROVE RefusedInv'
  <2>1. stage[p] \in Keeping /\ stage'[p] \in Keeping \cup {"releasing"}
    BY <1>6, KeepingSteps
  <2>2. \A q \in Proc \ {p} : stage'[q] = stage[q]
    BY <1>6, KeepingSteps
  <2>3. UNCHANGED <<attempt, result, written>>
    BY <1>6, KeepingSteps DEF lockVars
  <2> QED
    BY <1>0, <2>1, <2>2, <2>3 DEF RefusedInv
<1>7. ASSUME NEW p \in Proc, ReadOwn(p) \/ Unlink(p) PROVE RefusedInv'
  BY <1>0, <1>7 DEF RefusedInv, ReadOwn, Unlink, Quit, lockVars
<1>8. ASSUME NEW p \in Proc, Abort(p) \/ Crash(p) PROVE RefusedInv'
  BY <1>0, <1>8 DEF RefusedInv, Abort, Crash, runVars, lockVars
<1>9. CASE UNCHANGED vars
  BY <1>0, <1>9 DEF RefusedInv, vars
<1> QED
  BY <1>1, <1>2, <1>3, <1>4, <1>5, <1>6, <1>7, <1>8, <1>9, NextSteps

\* What is known of the lock file and of those it has refused.
ReleaseInv == OwnerInv /\ OldInv /\ RefusedInv

\* Who created the lock file, and why others were refused, is kept.
THEOREM ReleaseCorrect == Spec => []ReleaseInv
<1>1. Init => ReleaseInv
  BY KeeperAssumption
  DEF Init, ReleaseInv, OwnerInv, OldInv, RefusedInv, Keeping
<1>2. TypeOK /\ ReleaseInv /\ [Next]_vars => ReleaseInv'
  <2> SUFFICES ASSUME TypeOK, ReleaseInv, [Next]_vars PROVE ReleaseInv'
    OBVIOUS
  <2>1. RunTypeOK
    BY DEF TypeOK, RunTypeOK
  <2> QED
    BY <2>1, OwnerKept, OldKept, RefusedKept DEF ReleaseInv
<1> QED
  BY <1>1, <1>2, KeeperTypeCorrect, PTL DEF Spec

\* acquireKeeperLock(): keepers that start together, over a lock file left
\* behind or none, do not all refuse for each other.
THEOREM OneIsAdmitted == Spec => []NotAllRefused
<1>1. TypeOK /\ ReleaseInv => NotAllRefused
  <2> SUFFICES ASSUME TypeOK, ReleaseInv, AllDone,
                      NEW p \in Proc, stage[p] = "ended"
               PROVE \E q \in Proc : result[q] = "kept"
    BY DEF NotAllRefused
  <2>1. result[p] \in {"kept", "running", "unavailable"}
    BY DEF TypeOK, ReleaseInv, RefusedInv, AllDone
  <2>2. CASE result[p] = "kept"
    BY <2>2
  <2>3. CASE result[p] \in {"running", "unavailable"}
    <3>1. PICK q \in Proc : Created(q)
      BY <2>3 DEF ReleaseInv, RefusedInv
    <3> QED
      BY <3>1 DEF Created, AllDone
  <2> QED
    BY <2>1, <2>2, <2>3
<1> QED
  BY <1>1, KeeperTypeCorrect, ReleaseCorrect, PTL

\* The way out of runBoxKeepalive(): keepers that end by themselves, one of
\* them having kept, leave no lock file behind.
THEOREM LockIsReleased == Spec => []NoLockLeft
<1>1. TypeOK /\ ReleaseInv => NoLockLeft
  <2> SUFFICES ASSUME TypeOK, ReleaseInv, AllDone,
                      NEW p \in Proc, result[p] = "kept"
               PROVE lock = None
    BY DEF NoLockLeft
  <2>1. lock # Old
    BY DEF ReleaseInv, OldInv
  <2>2. lock \notin Proc
    BY DEF ReleaseInv, OwnerInv, AllDone, Keeping
  <2> QED
    BY <2>1, <2>2 DEF TypeOK
<1> QED
  BY <1>1, KeeperTypeCorrect, ReleaseCorrect, PTL

-----------------------------------------------------------------------------
\* While nobody lost its lock file, the state file is the keeper's.
StatusInv ==
  robbed = {} =>
    \A p \in Proc : stage[p] \in Keeping \ {"starting", "stopping"}
      => status = [by |-> p, running |-> TRUE]

\* persistKeeperState(): the state file speaks of the one that keeps, since
\* it alone writes and each writes its last state before it lets the lock go.
THEOREM StatusIsKept == Spec => []StatusIsTheKeepers
<1>1. Init => StatusInv
  BY DEF Init, StatusInv, Keeping
<1>2. TypeOK /\ LockInv /\ StatusInv /\ [Next]_vars => StatusInv'
  <2> SUFFICES ASSUME TypeOK, LockInv, StatusInv, [Next]_vars PROVE StatusInv'
    OBVIOUS
  <2> USE DEF TypeOK, StatusInv, Stage, Keeping, Goto
  <2>1. ASSUME NEW p \in Proc, Begin(p) \/ Acquiring(p) PROVE StatusInv'
    BY ZenonT(90), <2>1
    DEF Begin, Acquiring, Create, Write, AcquireFails, ReadLock, Take,
                Quit, lockVars
  <2>2. ASSUME NEW p \in Proc, Start(p) \/ PersistFails(p) \/ Report(p)
                               \/ SayStopped(p)
        PROVE StatusInv'
    <3> SUFFICES ASSUME robbed' = {}, NEW q \in Proc,
                        stage'[q] \in Keeping \ {"starting", "stopping"}
                 PROVE status' = [by |-> q, running |-> TRUE]
      OBVIOUS
    <3>1. robbed = {} /\ stage[p] \in Keeping
      BY <2>2 DEF Start, PersistFails, Report, SayStopped, lockVars
    <3>2. q # p => stage[q] \in Keeping
      BY <2>2 DEF Start, PersistFails, Report, SayStopped
    <3>3. q = p
      BY <3>1, <3>2 DEF LockInv
    <3> QED
      BY <2>2, <3>3 DEF Start, PersistFails, Report, SayStopped, Persist,
                        AfterFailure
  <2>3. ASSUME NEW p \in Proc, Ticking(p) PROVE StatusInv'
    BY ZenonT(30), <2>3
    DEF Ticking, Ensure, Exec, Fails, CredentialFails, NextAttempt,
                NextTick, lockVars
  <2>4. ASSUME NEW p \in Proc, Cancelled(p) \/ ReadOwn(p) \/ Unlink(p)
        PROVE StatusInv'
    BY ZenonT(30), <2>4 DEF Cancelled, ReadOwn, Unlink, Quit, lockVars
  <2>5. ASSUME NEW p \in Proc, Abort(p) \/ Crash(p) PROVE StatusInv'
    BY <2>5 DEF Abort, Crash, runVars, lockVars
  <2>6. CASE UNCHANGED vars
    BY <2>6 DEF vars
  <2> QED
    BY <2>1, <2>2, <2>3, <2>4, <2>5, <2>6 DEF Next, Step, Stopping
<1>3. StatusInv => StatusIsTheKeepers
  BY DEF StatusInv, StatusIsTheKeepers, Keeps
<1> QED
  BY <1>1, <1>2, <1>3, LockCorrect, KeeperTypeCorrect, PTL DEF Spec

-----------------------------------------------------------------------------
Over == {"backoff", "reporting", "stopping"}

\* Sent twice at most, the second time after a refusal.
Replayed(sent) ==
  Len(sent) <= 2 /\ (Len(sent) = 2 => sent[1] = "unauthorized")

\* Not sent yet, or refused and to be sent again.
Refusable(sent, again) ==
  IF again THEN sent = <<"unauthorized">> ELSE sent = <<>>

\* While a tick goes on its identity was refused or not sent; when it is over
\* the identity was sent twice at most, and before the next it is forgotten.
NoopInv ==
  \A p \in Proc : IF stage[p] \in Over THEN Replayed(noops[p])
                   ELSE Refusable(noops[p], tick[p].again)

\* What may be sent is sent for the second time at most after a refusal.
LEMMA RefusableReplayed ==
  ASSUME NEW sent, NEW again \in BOOLEAN, Refusable(sent, again),
         NEW outcome \in Outcome
  PROVE /\ Replayed(sent) /\ Replayed(Append(sent, outcome))
        /\ ~again => Append(sent, outcome) = <<outcome>>
<1>1. CASE again
  <2>1. sent = <<"unauthorized">>
    BY <1>1 DEF Refusable
  <2>2. sent \in Seq(Outcome)
    BY <2>1 DEF Outcome, Reply
  <2>3. Len(sent) = 1 /\ sent[1] = "unauthorized"
    BY <2>1
  <2>4. /\ Len(Append(sent, outcome)) = Len(sent) + 1
        /\ \A i \in 1..Len(sent) : Append(sent, outcome)[i] = sent[i]
    BY <2>2, AppendProperties
  <2>5. Len(Append(sent, outcome)) = 2
    BY <2>3, <2>4
  <2>6. Append(sent, outcome)[1] = "unauthorized"
    BY <2>3, <2>4
  <2> QED
    BY <1>1, <2>3, <2>5, <2>6 DEF Replayed
<1>2. CASE ~again
  <2>1. sent = <<>>
    BY <1>2 DEF Refusable
  <2>2. Append(sent, outcome) = <<outcome>>
    BY <2>1
  <2>3. Replayed(<<>>)
    BY DEF Replayed
  <2>4. Replayed(<<outcome>>)
    BY DEF Replayed
  <2> QED
    BY <1>2, <2>1, <2>2, <2>3, <2>4
<1> QED
  BY <1>1, <1>2

\* An answer that forbids another request ends the tick.
BarInv == \A p \in Proc : barred[p] => stage[p] \in {"reporting", "stopping"}

\* performKeeperTick() over the client's tick(): an identity is sent twice at
\* most, the second time only after it was refused as unauthorized.
THEOREM ReplayAfterRefusal == Spec => []ReplayOnlyRefused
<1>1. Init => NoopInv
  BY DEF Init, NoopInv, Over, FirstTry, Refusable
<1>2. TypeOK /\ NoopInv /\ [Next]_vars => NoopInv'
  <2> SUFFICES ASSUME TypeOK, NoopInv, [Next]_vars PROVE NoopInv'
    OBVIOUS
  <2>0. \A p \in Proc : tick[p].again \in BOOLEAN /\ stage[p] \in Stage
    BY DEF TypeOK
  <2> DEFINE Same(p) == \A q \in Proc \ {p} :
                 /\ stage'[q] = stage[q] /\ noops'[q] = noops[q]
                 /\ tick'[q] = tick[q]
             Good(p) == IF stage'[p] \in Over THEN Replayed(noops'[p])
                        ELSE Refusable(noops'[p], tick'[p].again)
             Fresh(p) == noops'[p] = <<>> /\ tick'[p].again = FALSE
  <2>1. ASSUME NEW p \in Proc, Same(p), Good(p) PROVE NoopInv'
    BY <2>1 DEF NoopInv
  <2>2. Replayed(<<>>) /\ Refusable(<<>>, FALSE)
    BY DEF Replayed, Refusable
  <2>3. ASSUME NEW p \in Proc, Fresh(p) PROVE Good(p)
    BY <2>2, <2>3
  <2>4. ASSUME NEW p \in Proc, stage[p] \notin Over
        PROVE /\ Refusable(noops[p], tick[p].again) /\ Replayed(noops[p])
              /\ UNCHANGED <<noops, tick>> => Good(p)
    <3>1. Refusable(noops[p], tick[p].again)
      BY <2>4 DEF NoopInv
    <3>2. Replayed(noops[p])
      BY <2>0, <3>1, RefusableReplayed DEF Outcome
    <3> QED
      BY <3>1, <3>2
  <2> HIDE DEF Good
  <2>5. ASSUME NEW p \in Proc, Forget(p) PROVE Fresh(p)
    <3>1. noops'[p] = <<>> /\ tick'[p] = FirstTry
      BY <2>5 DEF Forget, TypeOK
    <3> QED
      BY <3>1 DEF FirstTry
  <2>6. ASSUME NEW p \in Proc, Begin(p) \/ Acquiring(p) PROVE NoopInv'
    <3>1. stage[p] \notin Over /\ UNCHANGED <<noops, tick>>
      BY <2>6 DEF Begin, Acquiring, Create, Write, AcquireFails, ReadLock, Take,
                  tickVars, Over
    <3>2. Same(p)
      BY <2>6, <3>1 DEF Begin, Acquiring, Create, Write, AcquireFails, ReadLock,
                        Take, Quit, Goto, TypeOK
    <3> QED
      BY <2>1, <2>4, <3>1, <3>2
  <2>7. ASSUME NEW p \in Proc, PersistFails(p) \/ Report(p) \/ SayStopped(p)
                               \/ Cancelled(p) \/ Crash(p)
        PROVE NoopInv'
    <3>1. Forget(p) /\ \E s \in Stage : Goto(p, s)
      BY <2>7, Stages
      DEF PersistFails, Report, SayStopped, Cancelled, Crash, AfterFailure
    <3>2. Same(p)
      BY <3>1 DEF Forget, Goto, TypeOK
    <3> QED
      BY <2>1, <2>3, <2>5, <3>1, <3>2
  <2>8. ASSUME NEW p \in Proc,
               \/ Start(p) \/ CredentialFails(p) \/ NextTick(p)
               \/ \E reply \in Reply : Ensure(p, reply)
        PROVE NoopInv'
    <3>1. stage[p] \notin Over /\ UNCHANGED <<noops, tick>>
      BY <2>8 DEF Start, CredentialFails, NextTick, Ensure, Fails, tickVars, Over
    <3>2. Same(p)
      BY <2>8, <3>1 DEF Start, CredentialFails, NextTick, Ensure, Fails, Goto,
                        TypeOK
    <3> QED
      BY <2>1, <2>4, <3>1, <3>2
  <2>9. ASSUME NEW p \in Proc, NEW outcome \in Outcome, Exec(p, outcome)
        PROVE NoopInv'
    <3>1. noops'[p] = Append(noops[p], outcome)
      BY <2>9 DEF Exec, TypeOK
    <3>2. stage[p] \notin Over
      BY <2>9 DEF Exec, Over
    <3>3. Same(p)
      BY <2>9 DEF Exec, Fails, Goto, TypeOK
    <3>4. /\ Replayed(Append(noops[p], outcome))
          /\ ~tick[p].again => Append(noops[p], outcome) = <<outcome>>
      BY <2>0, <2>4, <3>2, RefusableReplayed
    <3>5. CASE Replays(p, outcome)
      <4>1. tick'[p].again = TRUE /\ stage'[p] \notin Over
        BY <2>9, <3>5 DEF Exec, Replays, TypeOK, Goto, Over
      <4>2. noops'[p] = <<"unauthorized">>
        BY <3>1, <3>4, <3>5 DEF Replays
      <4> QED
        BY <2>1, <3>3, <4>1, <4>2 DEF Good, Refusable
    <3>6. CASE ~Replays(p, outcome)
      <4>1. stage'[p] \in Over
        BY <2>9, <3>6 DEF Exec, Fails, Goto, TypeOK, Over
      <4> QED
        BY <2>1, <3>1, <3>3, <3>4, <4>1 DEF Good
    <3> QED
      BY <3>5, <3>6
  <2>10. ASSUME NEW p \in Proc, NextAttempt(p) PROVE NoopInv'
    <3>1. Fresh(p) /\ Same(p)
      BY <2>10 DEF NextAttempt, Goto, TypeOK
    <3> QED
      BY <2>1, <2>3, <3>1
  <2>11. ASSUME NEW p \in Proc, ReadOwn(p) \/ Unlink(p) PROVE NoopInv'
    <3>1. stage[p] \notin Over /\ UNCHANGED <<noops, tick>>
      BY <2>11 DEF ReadOwn, Unlink, tickVars, Over
    <3>2. Same(p)
      BY <2>11, <3>1 DEF ReadOwn, Unlink, Quit, Goto, TypeOK
    <3> QED
      BY <2>1, <2>4, <3>1, <3>2
  <2>12. ASSUME NEW p \in Proc, Abort(p) PROVE NoopInv'
    BY <2>12 DEF Abort, NoopInv, runVars, tickVars
  <2>13. CASE UNCHANGED vars
    BY <2>13 DEF vars, NoopInv
  <2> QED
    BY <2>6, <2>7, <2>8, <2>9, <2>10, <2>11, <2>12, <2>13
    DEF Next, Step, Ticking, Stopping
<1>3. TypeOK /\ NoopInv => ReplayOnlyRefused
  <2> SUFFICES ASSUME TypeOK, NoopInv, NEW p \in Proc
               PROVE Replayed(noops[p])
    BY DEF ReplayOnlyRefused, Replayed
  <2>1. tick[p].again \in BOOLEAN
    BY DEF TypeOK
  <2> QED
    BY <2>1, RefusableReplayed DEF NoopInv, Outcome
<1> QED
  BY <1>1, <1>2, <1>3, KeeperTypeCorrect, PTL DEF Spec

\* A bar holds to the end of its tick.
LEMMA BarKept == TypeOK /\ BarInv /\ [Next]_vars => BarInv'
<1> SUFFICES ASSUME TypeOK, BarInv, [Next]_vars PROVE BarInv'
  OBVIOUS
<1> USE DEF TypeOK, BarInv, Goto
<1>1. ASSUME NEW p \in Proc, Begin(p) \/ Acquiring(p) PROVE BarInv'
  BY <1>1 DEF Begin, Acquiring, Create, Write, AcquireFails, ReadLock, Take, Quit,
              tickVars
<1>2. ASSUME NEW p \in Proc, Start(p) \/ PersistFails(p) \/ Report(p)
                             \/ SayStopped(p)
      PROVE BarInv'
  BY <1>2 DEF Start, PersistFails, Report, SayStopped, Forget, AfterFailure,
              tickVars
<1>3. ASSUME NEW p \in Proc, NEW reply \in Reply, Ensure(p, reply) PROVE BarInv'
  BY <1>3 DEF Ensure, Fails, Retryable
<1>4. ASSUME NEW p \in Proc, NEW outcome \in Outcome, Exec(p, outcome)
      PROVE BarInv'
  BY <1>4 DEF Exec, Fails, Retryable
<1>5. ASSUME NEW p \in Proc, CredentialFails(p) \/ NextAttempt(p) \/ NextTick(p)
      PROVE BarInv'
  BY <1>5 DEF CredentialFails, NextAttempt, NextTick, tickVars
<1>6. ASSUME NEW p \in Proc, Cancelled(p) \/ ReadOwn(p) \/ Unlink(p)
      PROVE BarInv'
  BY <1>6 DEF Cancelled, ReadOwn, Unlink, Quit, Forget, tickVars
<1>7. ASSUME NEW p \in Proc, Abort(p) \/ Crash(p) PROVE BarInv'
  BY <1>7 DEF Abort, Crash, Forget, runVars, tickVars
<1>8. CASE UNCHANGED vars
  BY <1>8 DEF vars
<1> QED
  BY <1>1, <1>2, <1>3, <1>4, <1>5, <1>6, <1>7, <1>8
  DEF Next, Step, Ticking, Stopping

\* After a limit was told, or a no-op of which nobody knows the outcome, the
\* tick of performKeeperTick() sends nothing more.
THEOREM NothingSentAfterBar == Spec => NothingAfterBar
<1>1. Init => BarInv
  BY DEF Init, BarInv
<1>2. TypeOK /\ BarInv /\ [Next]_vars
        => [\A p \in Proc :
              barred[p] => stage'[p] \notin {"ensuring", "executing"}]_vars
  <2> SUFFICES ASSUME TypeOK, BarInv, Next, NEW p \in Proc, barred[p]
               PROVE stage'[p] \notin {"ensuring", "executing"}
    OBVIOUS
  <2>1. stage[p] \in {"reporting", "stopping"}
    BY DEF BarInv
  <2> USE DEF TypeOK, Goto
  <2>2. ASSUME NEW q \in Proc, Begin(q) \/ Acquiring(q)
        PROVE stage'[p] \notin {"ensuring", "executing"}
    BY <2>1, <2>2 DEF Begin, Acquiring, Create, Write, AcquireFails, ReadLock,
                      Take, Quit
  <2>3. ASSUME NEW q \in Proc, Start(q) \/ PersistFails(q) \/ Report(q)
        PROVE stage'[p] \notin {"ensuring", "executing"}
    BY <2>1, <2>3 DEF Start, PersistFails, Report, AfterFailure
  <2>4. ASSUME NEW q \in Proc, Ticking(q)
        PROVE stage'[p] \notin {"ensuring", "executing"}
    BY <2>1, <2>4 DEF Ticking, Ensure, Exec, Fails, CredentialFails, NextAttempt,
                      NextTick
  <2>5. ASSUME NEW q \in Proc, Stopping(q) \/ Abort(q) \/ Crash(q)
        PROVE stage'[p] \notin {"ensuring", "executing"}
    BY <2>1, <2>5 DEF Stopping, Cancelled, SayStopped, ReadOwn, Unlink, Quit,
                      Abort, Crash, runVars
  <2> QED
    BY <2>2, <2>3, <2>4, <2>5 DEF Next, Step
<1> QED
  BY <1>1, <1>2, BarKept, KeeperTypeCorrect, PTL DEF Spec, NothingAfterBar
=============================================================================
