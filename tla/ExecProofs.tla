----------------------------- MODULE ExecProofs -----------------------------
(***************************************************************************)
(* `exec run` is honest for any number of restarts of the daemon and of    *)
(* evictions from its history.                                             *)
(***************************************************************************)
EXTENDS Exec, TLAPS

Submission == {"submit", "again"}

ExecTypeOK ==
  /\ generation \in Nat /\ expected \in Nat
  /\ record \in {"none", "active", "ended"}
  /\ admissions \in Nat /\ evicted \in Nat /\ admitters \subseteq Nat
  /\ requests \subseteq Submission /\ served \subseteq Submission
  /\ step \in {"handshake", "recheck", "show", "told"} \cup Submission
  /\ reply \in {"none", "unknown", "refused", "job"}
  /\ outcome \in {"none", "job", "failed", "error", "unknown"}

\* Before the handshake nothing is on its way and nothing was admitted.
FreshInv ==
  step = "handshake" =>
    requests = {} /\ served = {} /\ record = "none" /\ admissions = 0
      /\ admitters = {}

\* An identity without a record may be admitted once more for every eviction.
HistoryInv == admissions <= evicted + (IF record = "none" THEN 0 ELSE 1)

\* Only an admitted job has a record, callers that wait, and an answer.
ShownInv ==
  record # "none" \/ served # {} \/ reply = "job" \/ outcome = "job"
    => admissions > 0

\* The first submission is the only one until it is known to be unanswered, so
\* its refusal is final.
FirstInv ==
  step = "submit" =>
    /\ requests \subseteq {"submit"}
    /\ requests # {} => admissions = 0 /\ reply # "refused"
    /\ reply = "refused" => admissions = 0

ToldInv ==
  /\ outcome # "none" => step = "told"
  /\ outcome = "failed" => admissions = 0 /\ requests = {}

ExecInv ==
  /\ ExecTypeOK /\ FreshInv /\ HistoryInv /\ admitters \subseteq {expected}
  /\ ShownInv /\ FirstInv /\ ToldInv

-----------------------------------------------------------------------------
LEMMA ExecInitially == ExecInit => ExecInv
BY DEF ExecInit, ExecInv, ExecTypeOK, FreshInv, HistoryInv, ShownInv,
       FirstInv, ToldInv, Submission

\* A submission arrives, and is refused, answered later or admitted.
LEMMA ArrivalKeeps ==
  \A n \in Submission : ExecInv /\ SubmissionArrives(n) => ExecInv'
<1> SUFFICES ASSUME NEW n \in Submission, ExecInv, SubmissionArrives(n)
             PROVE ExecInv'
  OBVIOUS
<1> USE DEF ExecInv, ExecTypeOK, FreshInv, HistoryInv, ShownInv, FirstInv,
            ToldInv, Submission
<1>1. /\ n \in requests /\ step # "handshake"
      /\ requests' = requests \ {n}
      /\ UNCHANGED <<generation, evicted, step, expected, outcome>>
  BY DEF SubmissionArrives
<1>2. CASE Deliver(n, "unknown") /\ UNCHANGED <<admitVars, served>>
  BY <1>1, <1>2 DEF Deliver, admitVars
<1>3. CASE /\ served' = served \cup {n} /\ Recorded
           /\ UNCHANGED <<admitVars, reply>>
  BY <1>1, <1>3 DEF Recorded, admitVars
<1>4. CASE expected = generation /\ ~Recorded /\ Admit(n)
  <2>1. /\ record = "none" /\ record' = "active"
        /\ admissions' = admissions + 1
        /\ admitters' = admitters \cup {expected}
        /\ served' = served \cup {n} /\ reply' = reply
    BY <1>4 DEF Recorded, Admit
  <2>2. ExecTypeOK' /\ FreshInv' /\ admitters' \subseteq {expected'}
    BY <1>1, <2>1
  <2>3. HistoryInv' /\ ShownInv'
    BY <1>1, <2>1
  <2>4. FirstInv' /\ ToldInv'
    BY <1>1, <2>1
  <2> QED
    BY <2>2, <2>3, <2>4
<1>5. CASE Deliver(n, "refused") /\ UNCHANGED <<admitVars, served>>
  BY <1>1, <1>5 DEF Deliver, admitVars
<1> QED
  BY <1>2, <1>3, <1>4, <1>5 DEF SubmissionArrives

\* An answer or a loss on the way of a submission.
LEMMA TransportKeeps ==
  \A n \in Submission :
    ExecInv /\ (SubmissionAnswered(n) \/ SubmissionDropped(n) \/ LoseResponse)
      => ExecInv'
<1> SUFFICES ASSUME NEW n \in Submission, ExecInv,
                    \/ SubmissionAnswered(n) \/ SubmissionDropped(n)
                    \/ LoseResponse
             PROVE ExecInv'
  OBVIOUS
<1> USE DEF ExecInv, ExecTypeOK, FreshInv, HistoryInv, ShownInv, FirstInv,
            ToldInv, Submission, jobVars, admitVars, callVars
<1>1. CASE SubmissionAnswered(n)
  BY <1>1 DEF SubmissionAnswered, Deliver
<1>2. CASE SubmissionDropped(n)
  BY <1>2 DEF SubmissionDropped
<1>3. CASE LoseResponse
  BY <1>3 DEF LoseResponse
<1> QED
  BY <1>1, <1>2, <1>3

\* The daemon's own steps: only an eviction makes room for an admission.
LEMMA DaemonKeeps ==
  ExecInv /\ (JobEnds \/ EvictHistory \/ DaemonRestarted) => ExecInv'
<1> SUFFICES ASSUME ExecInv, JobEnds \/ EvictHistory \/ DaemonRestarted
             PROVE ExecInv'
  OBVIOUS
<1> USE DEF ExecInv, ExecTypeOK, FreshInv, HistoryInv, ShownInv, FirstInv,
            ToldInv, Submission
<1>1. CASE JobEnds
  BY <1>1 DEF JobEnds, callVars
<1>2. CASE EvictHistory
  BY <1>2 DEF EvictHistory, callVars
<1>3. CASE DaemonRestarted
  BY <1>3 DEF DaemonRestarted
<1> QED
  BY <1>1, <1>2, <1>3

\* The steps of the command.
LEMMA CommandKeeps ==
  ExecInv /\ (\/ Handshake \/ HandshakeAgain
              \/ HearSubmission \/ HearAgain \/ ShowJob) => ExecInv'
<1> SUFFICES ASSUME ExecInv, Handshake \/ HandshakeAgain \/ HearSubmission
                                \/ HearAgain \/ ShowJob
             PROVE ExecInv'
  OBVIOUS
<1> USE DEF ExecInv, ExecTypeOK, FreshInv, HistoryInv, ShownInv, FirstInv,
            ToldInv, Submission, jobVars, admitVars, callVars, Tell, Submit
<1>1. CASE Handshake
  BY <1>1 DEF Handshake
<1>2. CASE HandshakeAgain
  BY <1>2 DEF HandshakeAgain
<1>3. CASE HearSubmission
  BY <1>3 DEF HearSubmission
<1>4. CASE HearAgain
  BY <1>4 DEF HearAgain
<1>5. CASE ShowJob
  BY <1>5 DEF ShowJob, Recorded
<1> QED
  BY <1>1, <1>2, <1>3, <1>4, <1>5

LEMMA ExecKeeps == ExecInv /\ [ExecNext]_execVars => ExecInv'
<1>1. CASE UNCHANGED execVars
  BY <1>1 DEF execVars, jobVars, admitVars, callVars, ExecInv, ExecTypeOK,
              FreshInv, HistoryInv, ShownInv, FirstInv, ToldInv, Submission
<1>2. CASE ExecNext
  BY <1>2, ArrivalKeeps, TransportKeeps, DaemonKeeps, CommandKeeps
     DEF ExecNext, Submission
<1> QED
  BY <1>1, <1>2

\* Every variable of exec run keeps its type.
THEOREM ExecTypeCorrect == ExecSpec => []ExecTypeOK
<1>1. ExecInv => ExecTypeOK
  BY DEF ExecInv
<1> QED
  BY ExecInitially, ExecKeeps, <1>1, PTL DEF ExecSpec

\* A job is admitted at most once per record, only by the generation the
\* command shook hands with, and what the command tells of it is true
\* (src/src/commands/exec.ts:22).
THEOREM ExecIsHonest == ExecSpec => []ExecHonest
<1>1. ExecInv => ExecHonest
  BY DEF ExecHonest, ExecInv, ExecTypeOK, FreshInv, HistoryInv, ShownInv,
         FirstInv, ToldInv, Submission
<1> QED
  BY ExecInitially, ExecKeeps, <1>1, PTL DEF ExecSpec
=============================================================================
