-------------------------- MODULE FilesystemClient --------------------------
(***************************************************************************)
(* `grokbox fs write|mkdir|remove|upload` (src/src/commands/fs.ts): one    *)
(* operation id per command, one call at a time, any of which may stay     *)
(* without an answer. A mutation without an answer is never sent again:    *)
(* its caller asks once for its status. Only a chunk is sent twice. An     *)
(* upload that was begun is always cancelled at the end.                   *)
(***************************************************************************)
EXTENDS Uploads

VARIABLES verdict,  \* what each command told its user
          begun,    \* commands that have started
          timeouts

clientVars == <<verdict, begun, timeouts>>
allVars == <<vars, clientVars>>

Verdict == Outcome \cup {"none", "unknown", "failed"}

Init == /\ FilesystemInit
        /\ verdict = [o \in Op |-> "none"]
        /\ begun = {} /\ timeouts = 0

Send(op, verb, n) ==
  LET c == [op |-> op, verb |-> verb, n |-> n] IN
  /\ wire' = wire \cup {c}
  /\ awaits' = [awaits EXCEPT ![op] = c]
  /\ reply' = [reply EXCEPT ![op] = "none"]

\* The command is decided; an upload still sends a cancel whose answer does
\* not matter.
Decide(op, v) ==
  /\ verdict' = [verdict EXCEPT ![op] = v]
  /\ awaits' = [awaits EXCEPT ![op] = NoCall]
  /\ reply' = [reply EXCEPT ![op] = "none"]
  /\ IF plan.ask[op].verb = "upload"
     THEN wire' = wire \cup {[op |-> op, verb |-> "cancel", n |-> 0]}
     ELSE UNCHANGED wire

Begin(op) ==
  /\ op \notin begun /\ plan.ask[op].verb # "skip"
  /\ begun' = begun \cup {op}
  /\ Send(op, IF plan.ask[op].verb = "upload" THEN "open" ELSE "mutate", 0)
  /\ UNCHANGED <<verdict, timeouts>>

\* The caller's timeout, an aborted request or a lost answer.
GiveUpWaiting(op) ==
  /\ awaits[op] # NoCall /\ reply[op] = "none"
  /\ timeouts < plan.timeouts
  /\ timeouts' = timeouts + 1
  /\ reply' = [reply EXCEPT ![op] = "lost"]
  /\ UNCHANGED <<wire, awaits, verdict, begun>>

Heard(op, verb) == awaits[op].verb = verb /\ reply[op] # "none"

\* mutationCall: an unknown outcome is reconciled through fsMutationStatus.
HearMutation(op) ==
  /\ Heard(op, "mutate") \/ Heard(op, "commit")
  /\ \/ reply[op] \in Outcome /\ Decide(op, reply[op])
     \/ /\ reply[op] \notin Outcome
        /\ Send(op, "status", 0) /\ UNCHANGED verdict
  /\ UNCHANGED <<begun, timeouts>>

HearStatus(op) ==
  /\ Heard(op, "status")
  /\ Decide(op, IF reply[op] \in Outcome THEN reply[op] ELSE "unknown")
  /\ UNCHANGED <<begun, timeouts>>

HearOpen(op) ==
  /\ Heard(op, "open")
  /\ \/ /\ reply[op] = "ok"
        /\ IF plan.chunks = 0 THEN Send(op, "commit", 0) ELSE Send(op, "chunk", 1)
        /\ UNCHANGED verdict
     \/ reply[op] # "ok" /\ Decide(op, "failed")
  /\ UNCHANGED <<begun, timeouts>>

HearChunk(op) ==
  /\ Heard(op, "chunk")
  /\ LET n == awaits[op].n
         lost == reply[op] \in {"lost", "unreachable"}
     IN  \/ /\ reply[op] = "ok"
            /\ IF Index(awaits[op]) < plan.chunks
               THEN Send(op, "chunk", 2 * Index(awaits[op]) + 1)
               ELSE Send(op, "commit", 0)
            /\ UNCHANGED verdict
         \/ /\ lost /\ n % 2 = 1
            /\ Send(op, "chunk", n + 1) /\ UNCHANGED verdict
         \/ /\ reply[op] # "ok" /\ ~(lost /\ n % 2 = 1)
            /\ Decide(op, "failed")
  /\ UNCHANGED <<begun, timeouts>>

ClientStep(op) ==
  \/ Begin(op) \/ HearMutation(op) \/ HearStatus(op) \/ HearOpen(op)
  \/ HearChunk(op) \/ GiveUpWaiting(op)

ClientNext == \E op \in Op :
  /\ ClientStep(op)
  /\ UNCHANGED <<diskVars, ledgerVars, uploadVars, cancelVars, queueVars,
                 lifeVars>>

Next == ClientNext \/ (DaemonNext /\ UNCHANGED clientVars)

\* Whoever has a lock or its turn goes on, timers fire, close() is finished;
\* nothing is asked of the callers, the network or the order of the steps.
Progress == /\ \/ \E t \in Target : DaemonLock(t)
               \/ \E o \in Op : Expire(o)
               \/ Admit \/ PassBarrier \/ Exit
            /\ UNCHANGED clientVars
Fairness == WF_allVars(Progress)

Spec == Init /\ [][Next]_allVars
FairSpec == Spec /\ Fairness

-----------------------------------------------------------------------------
(* Properties.                                                             *)

TypeOK ==
  /\ plan \in Plans
  /\ file \in [Target -> Version]
  /\ temps \subseteq Op
  /\ applied \in [Op -> 0..2]
  /\ state \in [Op -> Outcome \cup {"pending"}]
  /\ DOMAIN entries \subseteq Op
  /\ entries \in [DOMAIN entries -> SUBSET DOMAIN entries]
  /\ live \subseteq Op /\ armed \subseteq Op
  /\ got \in [Op -> 0..plan.chunks]
  /\ reserved \in [Target -> Op \cup {Nobody}]
  /\ seen \in [Op -> Version]
  /\ tombs \subseteq Op /\ saturated \in BOOLEAN
  /\ admission \in Seq(Call \cup {Barrier})
  /\ locks \in [Target -> Seq(Call)]
  /\ stage \in [Target -> {"wait", "based", "sure"}]
  /\ closing \in BOOLEAN /\ faults \in 0..plan.faults
  /\ wire \subseteq Call
  /\ awaits \in [Op -> Call \cup {NoCall}]
  /\ reply \in [Op -> Reply]
  /\ raced \subseteq Target
  /\ verdict \in [Op -> Verdict]
  /\ begun \subseteq Op /\ timeouts \in 0..plan.timeouts

\* What a command told its user is so, and stays so: "committed" means that
\* the effect happened exactly once, an error that it never did and never
\* will, although calls were lost, late or overtaken and the daemon's memory
\* was lost. Only "unknown" says nothing.
VerdictsAreTrue ==
  \A op \in Op :
    /\ verdict[op] = "committed" => applied[op] = 1
    /\ verdict[op] \in {"conflict", "not_committed", "failed"}
         => applied[op] = 0

\* A cancelled upload is not opened by a late open while its tombstone stands,
\* wherever the open was when the cancel overtook it.
TombstoneHolds == tombs \cap live = {}

\* Nothing is left lying about: a temporary file belongs to an open upload or
\* to a call that still runs, a reservation belongs to an open upload, and an
\* open upload has a timer or somebody who is about to end it. There are never
\* more than UPLOAD_MAX, although an open counts them long before it publishes.
EverythingOwned ==
  LET Running == UNION {{c.op : c \in ToSet(locks[t])} : t \in Target} IN
  /\ Cardinality(live) <= plan.uploads
  /\ temps \subseteq live \cup Running
  /\ \A t \in Target : reserved[t] # Nobody
       => reserved[t] \in live /\ At(reserved[t]) = t
  /\ \A op \in live :
       /\ reserved[At(op)] = op
       /\ \/ op \in armed
          \/ \E c \in ToSet(locks[At(op)]) : c.op = op /\ c.verb = "expire"

\* Governed mutations never lose each other's work: an effect replaces what
\* its operation saw as the baseline, except for a write of an ungoverned
\* program between the last look and the rename.
NoLostUpdate ==
  [][\A op \in Op : applied'[op] > applied[op] /\ plan.ask[op].verb # "mkdir"
       => file[At(op)] = seen[op] \/ At(op) \in raced]_allVars

\* The timer of an upload that has ended does no harm.
ExpiryIsHarmless == \A t \in Target : ~(Holds(t, "expire", "wait") /\ Barred(t))

\* Locks, admission and uploads are never held for ever.
EventuallyQuiet ==
  <>[](live = {} /\ admission = <<>> /\ \A t \in Target : locks[t] = <<>>)
=============================================================================
