------------------------------ MODULE Uploads -------------------------------
(***************************************************************************)
(* The uploads of GovernedFilesystem: opens pass one admission chain, an   *)
(* open upload reserves its destination, chunks extend it, a commit ends   *)
(* it with the rename, and a cancel, the timer or the daemon's close give  *)
(* it up. A cancel that overtakes its open leaves a tombstone.             *)
(***************************************************************************)
EXTENDS Filesystem

LeaveAdmission == admission' = Tail(admission)
AtLock(c) == \E i \in DOMAIN locks[At(c.op)] : locks[At(c.op)][i] = c

\* An open that ends, whatever it answers.
EndOpen(t, r) ==
  /\ Answer(Holder(t), r)
  /\ Release(t)
  /\ LeaveAdmission

ArriveOpen(c) ==
  /\ c \in wire /\ c.verb = "open" /\ ~closing
  /\ wire' = wire \ {c}
  /\ admission' = Append(admission, c)
  /\ UNCHANGED <<diskVars, ledgerVars, uploadVars, cancelVars, locks, stage,
                 seen, lifeVars, awaits, reply>>

Full == Cardinality(live) >= plan.uploads

\* The answer of an open that goes no further than the admission.
Inadmissible(op) ==
  IF closing THEN "unreachable"
  ELSE IF saturated \/ op \in tombs THEN "invalid"
  ELSE IF Known(op) THEN IF op \in live THEN "ok" ELSE Replay(op)
  ELSE IF Full THEN "conflict"
  ELSE "none"

Admit ==
  /\ admission # <<>> /\ Head(admission) # Barrier
  /\ ~AtLock(Head(admission))
  /\ LET c == Head(admission)
         no == Inadmissible(c.op)
     IN  \/ /\ no # "none"
            /\ Answer(c, no) /\ LeaveAdmission
            /\ UNCHANGED <<ledgerVars, locks>>
         \/ \E kept \in Cleanups :
            /\ no = "none"
            /\ Retain(kept)
            /\ \/ /\ Cardinality(kept) >= plan.ledger
                  /\ Answer(c, "conflict") /\ LeaveAdmission
                  /\ UNCHANGED <<state, locks>>
               \/ /\ Cardinality(kept) < plan.ledger
                  /\ Queue(c)
                  /\ UNCHANGED <<state, admission, reply>>
  /\ UNCHANGED <<diskVars, uploadVars, cancelVars, stage, seen, lifeVars, wire,
                 awaits>>

\* With the lock: look at the ledger and the reservation again, take the
\* baseline, create the temporary file.
OpenTemporary(t) ==
  /\ Holds(t, "open", "wait")
  /\ LET op == Holder(t).op
         no == IF Barred(t) THEN "conflict"
               ELSE IF Known(op)
                 THEN IF op \in live THEN "ok" ELSE Replay(op)
               ELSE IF reserved[t] # Nobody THEN "conflict"
               ELSE IF Directory(file[t]) \/ op \in tombs THEN "invalid"
               ELSE IF plan.ask[op].fenced /\ file[t] # "old" THEN "conflict"
               ELSE "none"
     IN  \/ /\ no # "none"
            /\ EndOpen(t, no)
            /\ UNCHANGED <<temps, seen>>
         \/ /\ no = "none"
            /\ seen' = [seen EXCEPT ![op] = file[t]]
            /\ temps' = temps \cup {op}
            /\ Advance(t, "based")
            /\ UNCHANGED <<raced, admission, reply>>
  /\ UNCHANGED <<plan, file, applied, ledgerVars, uploadVars,
                 cancelVars, lifeVars, wire, awaits>>

WantedAnyway(op) == closing  \* mutant: the last look at the tombstones is missing
Unwanted(op) == closing \/ op \in tombs

NoTimer(op) == UNCHANGED armed  \* mutant: setTimeout is forgotten
ArmUpload(op) == armed' = armed \cup {op}

\* The last checks and the publication, without an await between them.
PublishUpload(t) ==
  /\ Holds(t, "open", "based")
  /\ LET op == Holder(t).op IN
     \/ /\ Unwanted(op)
        /\ EndOpen(t, IF closing THEN "unreachable" ELSE "invalid")
        /\ temps' = temps \ {op}
        /\ UNCHANGED <<ledgerVars, uploadVars>>
     \/ /\ ~Unwanted(op)
        /\ live' = live \cup {op} /\ ArmUpload(op)
        /\ got' = [got EXCEPT ![op] = 0]
        /\ reserved' = [reserved EXCEPT ![t] = op]
        /\ Enter(op, DOMAIN entries \ {op})
        /\ EndOpen(t, "ok")
        /\ UNCHANGED temps
  /\ UNCHANGED <<plan, file, applied, cancelVars, seen,
                 lifeVars, wire, awaits>>

FailOpen(t) ==
  /\ locks[t] # <<>> /\ Holder(t).verb = "open"
  /\ EndOpen(t, "invalid")
  /\ temps' = temps \ {Holder(t).op}
  /\ UNCHANGED <<plan, file, applied, ledgerVars, uploadVars,
                 cancelVars, seen, lifeVars, wire, awaits>>

\* Chunks and commits queue for the destination of a live upload.
ArriveTransfer(c) ==
  /\ c \in wire /\ c.verb \in {"chunk", "commit"} /\ ~closing
  /\ wire' = wire \ {c}
  /\ \/ c.op \in live /\ Queue(c) /\ UNCHANGED reply
     \/ /\ c.op \notin live
        /\ Answer(c, IF c.verb = "chunk" THEN "invalid" ELSE Replay(c.op))
        /\ UNCHANGED locks
  /\ UNCHANGED <<diskVars, ledgerVars, uploadVars, cancelVars, admission, stage,
                 seen, lifeVars, awaits>>

ResendIsNext(c) == c.n  \* mutant: a chunk that is sent again is a new one
\* The chunk of the call: c.n counts the sends, two for every chunk.
Index(c) == (c.n + 1) \div 2

TakeChunk(t) ==
  /\ Holds(t, "chunk", "wait")
  /\ LET c == Holder(t) IN
     \/ /\ ~Barred(t) /\ c.op \in live /\ Index(c) <= got[c.op]
        /\ Answer(c, "ok")
        /\ UNCHANGED <<got, armed>>
     \/ /\ ~Barred(t) /\ c.op \in live /\ Index(c) = got[c.op] + 1
        /\ got' = [got EXCEPT ![c.op] = @ + 1]
        /\ ArmUpload(c.op)
        /\ Answer(c, "ok")
     \/ \* refused, or the bytes cannot be written
        /\ Answer(c, IF Barred(t) THEN "conflict" ELSE "invalid")
        /\ UNCHANGED <<got, armed>>
  /\ Release(t)
  /\ UNCHANGED <<plan, file, temps, applied, ledgerVars, live,
                 reserved, cancelVars, admission, seen, lifeVars, wire, awaits>>

StillReserved(op) ==  \* mutant: the reservation stays
  /\ live' = live \ {op} /\ armed' = armed \ {op}
  /\ UNCHANGED <<reserved, got>>
\* The upload, its reservation and its timer go together.
Drop(op) ==
  /\ live' = live \ {op} /\ armed' = armed \ {op}
  /\ reserved' = [t \in Target |->
                    IF reserved[t] = op THEN Nobody ELSE reserved[t]]
  /\ UNCHANGED got

FailedCommit(t, outcome) ==
  LET op == Holder(t).op IN
  /\ Record(op, outcome)
  /\ Drop(op)
  /\ temps' = temps \ {op}
  /\ Answer(Holder(t), outcome)
  /\ Release(t)
  /\ UNCHANGED <<file, applied>>

CheckCommit(t) ==
  /\ Holds(t, "commit", "wait")
  /\ LET op == Holder(t).op IN
     \/ /\ Barred(t) \/ op \notin live
        /\ Answer(Holder(t), IF Barred(t) THEN "conflict" ELSE Replay(op))
        /\ Release(t)
        /\ UNCHANGED <<file, temps, applied, ledgerVars, uploadVars>>
     \/ /\ ~Barred(t) /\ op \in live
        /\ \/ FailedCommit(t, "not_committed")  \* incomplete, or an error
           \/ got[op] = plan.chunks /\ file[t] # seen[op]
              /\ FailedCommit(t, "conflict")
           \/ /\ got[op] = plan.chunks /\ file[t] = seen[op]
              /\ Advance(t, "sure")
              /\ UNCHANGED <<file, temps, applied, raced, ledgerVars,
                             uploadVars, reply>>
  /\ UNCHANGED <<plan, cancelVars, admission, seen, lifeVars,
                 wire, awaits>>

CommitUpload(t) ==
  /\ Holds(t, "commit", "sure")
  /\ LET op == Holder(t).op IN
     \/ FailedCommit(t, "not_committed")
     \/ /\ file' = [file EXCEPT ![t] = op]
        /\ applied' = [applied EXCEPT ![op] = @ + 1]
        /\ temps' = temps \ {op}
        /\ Record(op, "committed")
        /\ Drop(op)
        /\ Answer(Holder(t), "committed")
        /\ Release(t)
  /\ UNCHANGED <<plan, cancelVars, admission, seen, lifeVars,
                 wire, awaits>>

-----------------------------------------------------------------------------
(* Cancellation: by the caller, by the timer, by close().                  *)

LeaveTombstone(op) ==
  IF Cardinality(tombs) >= TombMax
  THEN saturated' = TRUE /\ UNCHANGED tombs
  ELSE tombs' = tombs \cup {op} /\ UNCHANGED saturated

NothingToCancel(op) == \/ Known(op) /\ UNCHANGED cancelVars
                       \/ ~Known(op) /\ LeaveTombstone(op)

ArriveCancel(c) ==
  /\ c \in wire /\ c.verb = "cancel" /\ ~closing
  /\ wire' = wire \ {c}
  /\ \/ c.op \in live /\ Queue(c) /\ UNCHANGED <<cancelVars, reply>>
     \/ /\ c.op \notin live
        /\ NothingToCancel(c.op)
        /\ Answer(c, "cancelled")
        /\ UNCHANGED locks
  /\ UNCHANGED <<diskVars, ledgerVars, uploadVars, admission, stage, seen,
                 lifeVars, awaits>>

\* The upload has been quiet for TRANSFER_TTL_MS.
Expire(op) ==
  /\ op \in armed
  /\ armed' = armed \ {op}
  /\ Queue([op |-> op, verb |-> "expire", n |-> 0])
  /\ UNCHANGED <<diskVars, ledgerVars, live, got, reserved, cancelVars,
                 admission, stage, seen, lifeVars, callVars>>

CancelUpload(t) ==
  /\ locks[t] # <<>> /\ Holder(t).verb \in {"cancel", "expire"}
  /\ Holder(t).verb = "cancel" \/ ~Barred(t)
  /\ LET op == Holder(t).op IN
     \/ /\ Barred(t)
        /\ Answer(Holder(t), "conflict")
        /\ UNCHANGED <<temps, ledgerVars, uploadVars, cancelVars>>
     \/ /\ ~Barred(t) /\ op \notin live
        /\ NothingToCancel(op)
        /\ Answer(Holder(t), "cancelled")
        /\ UNCHANGED <<temps, ledgerVars, uploadVars>>
     \/ /\ ~Barred(t) /\ op \in live
        /\ Drop(op)
        /\ temps' = temps \ {op}
        /\ Record(op, IF state[op] = "pending" THEN "not_committed"
                      ELSE state[op])
        /\ Answer(Holder(t), "cancelled")
        /\ UNCHANGED cancelVars
  /\ Release(t)
  /\ UNCHANGED <<plan, file, applied, admission, seen,
                 lifeVars, wire, awaits>>

\* The timer's cancel finds the destination reserved for another upload: its
\* promise is rejected, nobody handles that, and the process ends.
ExpiryKills(t) ==
  /\ Holds(t, "expire", "wait") /\ Barred(t)
  /\ LoseMemory
  /\ UNCHANGED faults

\* A tombstone or the saturation is over after TRANSFER_TTL_MS.
ForgetTombstone(op) ==
  /\ op \in tombs
  /\ tombs' = tombs \ {op}
  /\ UNCHANGED <<diskVars, ledgerVars, uploadVars, saturated, queueVars,
                 lifeVars, callVars>>

EndSaturation ==
  /\ saturated
  /\ saturated' = FALSE
  /\ UNCHANGED <<diskVars, ledgerVars, uploadVars, tombs, queueVars, lifeVars,
                 callVars>>

\* close(): the barrier waits in the admission chain behind the opens.
Close ==
  /\ ~closing /\ faults < plan.faults
  /\ closing' = TRUE /\ faults' = faults + 1
  /\ admission' = Append(admission, Barrier)
  /\ UNCHANGED <<diskVars, ledgerVars, uploadVars, cancelVars, locks, stage,
                 seen, callVars>>

PassBarrier ==
  /\ admission # <<>> /\ Head(admission) = Barrier
  /\ LeaveAdmission
  /\ tombs' = {} /\ saturated' = FALSE
  /\ locks' = [t \in Target |->
                 locks[t] \o SetToSeq({[op |-> o, verb |-> "expire", n |-> 0] :
                                         o \in {o \in live : At(o) = t}})]
  /\ UNCHANGED <<diskVars, ledgerVars, uploadVars, stage, seen, lifeVars,
                 callVars>>

\* Every request was answered and every upload given up: the process ends
\* and another one starts.
Exit ==
  /\ closing /\ admission = <<>> /\ live = {}
  /\ \A t \in Target : locks[t] = <<>>
  /\ LoseMemory
  /\ UNCHANGED faults

DaemonLock(t) ==
  \/ TakeBaseline(t) \/ LookAgain(t) \/ TakeEffect(t)
  \/ OpenTemporary(t) \/ PublishUpload(t) \/ TakeChunk(t)
  \/ CheckCommit(t) \/ CommitUpload(t) \/ CancelUpload(t) \/ ExpiryKills(t)

DaemonNext ==
  \/ \E c \in wire : \/ ArriveMutation(c) \/ ArriveStatus(c) \/ ArriveOpen(c)
                     \/ ArriveTransfer(c) \/ ArriveCancel(c)
  \/ \E t \in Target : \/ DaemonLock(t) \/ FailMutation(t) \/ FailOpen(t)
                        \/ AlienWrite(t)
  \/ \E o \in Op : Expire(o) \/ ForgetTombstone(o)
  \/ Admit \/ EndSaturation \/ Close \/ PassBarrier \/ Exit \/ Crash
=============================================================================
