-------------------------------- MODULE Exec --------------------------------
(***************************************************************************)
(* `grokbox exec run` (src/src/commands/exec.ts) over a daemon client that *)
(* may lose a request or its answer (src/src/daemon/client.ts): the job id *)
(* is the caller's, so that an unanswered submission can be sent again to  *)
(* the same generation of the daemon, and looked up when it cannot.        *)
(* What the daemon does with an admitted job is module Jobs.               *)
(***************************************************************************)
EXTENDS Naturals

CONSTANTS
  DaemonRestarts,  \* restarts of the daemon (bound)
  Evictions        \* times the job's record leaves the history (bound)

ASSUME ExecAssumption == {DaemonRestarts, Evictions} \subseteq Nat

VARIABLES
  generation,  \* of the daemon, which changes with every start
  record,      \* what the JobManager holds under the job id
  admissions,  \* times the job was admitted
  admitters,   \* the generations that did
  evicted,     \* times the record left the history
  requests,    \* submissions on their way
  served,      \* submissions whose caller waits for the job
  step,        \* how far the command is
  reply,       \* the answer to its call
  expected,    \* expectedDaemonGeneration
  outcome      \* what the command told

admitVars == <<record, admissions, admitters>>
jobVars == <<generation, admitVars, evicted>>
callVars == <<requests, served>>
execVars == <<jobVars, callVars, step, reply, expected, outcome>>

ExecInit ==
  /\ generation = 1 /\ record = "none" /\ admissions = 0
  /\ admitters = {} /\ evicted = 0
  /\ requests = {} /\ served = {}
  /\ step = "handshake" /\ reply = "none" /\ expected = 0 /\ outcome = "none"

Tell(result) == outcome' = result /\ step' = "told"
Submit(n) ==              \* the call of jobs.submit that makes step n
  /\ step' = n /\ requests' = requests \cup {n} /\ reply' = "none"
Deliver(n, result) == reply' = IF step = n THEN result ELSE reply

-----------------------------------------------------------------------------
(* The daemon.                                                             *)

StillActive == record = "active"   \* mutant: a finished job's id is new
Recorded == record # "none"

Admit(n) ==
  /\ record' = "active"
  /\ admissions' = admissions + 1
  /\ admitters' = admitters \cup {generation}
  /\ served' = served \cup {n}
  /\ UNCHANGED reply

\* Job admission: the generation, then the record under this id, then
\* everything that may be refused.
SubmissionArrives(n) ==
  /\ n \in requests
  /\ requests' = requests \ {n}
  /\ \/ /\ expected # generation
        /\ Deliver(n, "unknown") /\ UNCHANGED <<admitVars, served>>
     \/ /\ expected = generation /\ Recorded
        /\ served' = served \cup {n} /\ UNCHANGED <<admitVars, reply>>
     \/ /\ expected = generation /\ ~Recorded
        /\ \/ Admit(n)
           \/ /\ Deliver(n, "refused")
              /\ UNCHANGED <<admitVars, served>>
  /\ UNCHANGED <<generation, evicted, step, expected, outcome>>

\* At once, at the end of the job, or when waitMs have passed.
SubmissionAnswered(n) ==
  /\ n \in served
  /\ served' = served \ {n} /\ Deliver(n, "job")
  /\ UNCHANGED <<jobVars, requests, step, expected, outcome>>

JobEnds ==
  /\ record = "active" /\ record' = "ended"
  /\ UNCHANGED <<generation, admissions, admitters, evicted, callVars, step,
                 reply, expected, outcome>>

EvictHistory ==
  /\ record = "ended" /\ evicted < Evictions
  /\ record' = "none" /\ evicted' = evicted + 1
  /\ UNCHANGED <<generation, admissions, admitters, callVars, step, reply,
                 expected, outcome>>

\* A job that was not finished is loaded as interrupted or unknown.
DaemonRestarted ==
  /\ generation <= DaemonRestarts
  /\ generation' = generation + 1
  /\ record' = IF record = "active" THEN "ended" ELSE record
  /\ served' = {}
  /\ UNCHANGED <<admissions, admitters, evicted, requests, step, reply,
                 expected, outcome>>

-----------------------------------------------------------------------------
(* The command and its daemon client.                                      *)

SubmissionDropped(n) ==
  /\ n \in requests /\ requests' = requests \ {n}
  /\ UNCHANGED <<jobVars, served, step, reply, expected, outcome>>

\* A timeout, a broken connection, an answer that is no envelope.
LoseResponse ==
  /\ step \in {"submit", "again"} /\ reply = "none"
  /\ reply' = "unknown"
  /\ UNCHANGED <<jobVars, callVars, step, expected, outcome>>

Handshake ==
  /\ step = "handshake"
  /\ \/ expected' = generation /\ Submit("submit") /\ UNCHANGED outcome
     \/ Tell("failed") /\ UNCHANGED <<requests, reply, expected>>
  /\ UNCHANGED <<jobVars, served>>

\* "lost" is daemon_unreachable; any other failure ends the command.
HandshakeAgain ==
  /\ step = "recheck"
  /\ \/ generation = expected /\ Submit("again") /\ UNCHANGED outcome
     \/ step' = "show" /\ UNCHANGED <<requests, reply, outcome>>
     \/ Tell("error") /\ UNCHANGED <<requests, reply>>
  /\ UNCHANGED <<jobVars, served, expected>>

HearSubmission ==
  /\ step = "submit" /\ reply # "none"
  /\ CASE reply = "job" -> Tell("job")
       [] reply = "refused" -> Tell("failed")
       [] reply = "unknown" -> step' = "recheck" /\ UNCHANGED outcome
  /\ UNCHANGED <<jobVars, callVars, reply, expected>>

HearAgain ==
  /\ step = "again" /\ reply # "none"
  /\ CASE reply = "job" -> Tell("job")
       [] reply = "refused" -> Tell("error")
       [] reply = "unknown" -> step' = "show" /\ UNCHANGED outcome
  /\ UNCHANGED <<jobVars, callVars, reply, expected>>

ShowJob ==
  /\ step = "show"
  /\ \/ Recorded /\ Tell("job")
     \/ Tell("unknown")
  /\ UNCHANGED <<jobVars, callVars, reply, expected>>

ExecNext ==
  \/ Handshake \/ HandshakeAgain \/ HearSubmission \/ HearAgain \/ ShowJob
  \/ LoseResponse \/ JobEnds \/ EvictHistory \/ DaemonRestarted
  \/ \E n \in {"submit", "again"} :
       SubmissionArrives(n) \/ SubmissionAnswered(n) \/ SubmissionDropped(n)

ExecSpec == ExecInit /\ [][ExecNext]_execVars

\* However often it is sent, the job is admitted once for every time its
\* record was still there to be found, and only by the generation the command
\* shook hands with. A job that is shown was admitted, and a submission that
\* was refused outright leaves nothing that is admitted later.
ExecHonest ==
  /\ admissions <= 1 + evicted
  /\ admitters \subseteq {expected}
  /\ outcome = "job" => admissions > 0
  /\ outcome = "failed" => admissions = 0 /\ requests = {}
=============================================================================
