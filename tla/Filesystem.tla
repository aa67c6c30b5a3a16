----------------------------- MODULE Filesystem -----------------------------
(***************************************************************************)
(* GovernedFilesystem (src/src/daemon/filesystem.ts): the mutations of the *)
(* box's files that the daemon carries out for its callers. One lock per   *)
(* destination orders them, a ledger of bounded size and age remembers how *)
(* each ended, and an upload is a mutation that stays open over several    *)
(* calls: it reserves its destination from open to commit or cancel, and a *)
(* timer gives it up.                                                      *)
(*                                                                         *)
(* A call waits in the admission chain (opens only) and then in the lock   *)
(* queue of its destination; the head of a queue holds the lock, and       *)
(* stage[t] says how far it came between two awaits. The content of a file *)
(* is named by the operation that wrote it.                                *)
(***************************************************************************)
EXTENDS Naturals, FiniteSets, SequencesExt

CONSTANTS
  Op,          \* operation ids
  Target,      \* destinations: parent dev:ino and name
  Nobody,      \* no operation
  Plans,       \* what may be asked for, with its bounds
  TombMax      \* CANCELLED_TRANSFER_MAX

Verb == {"write", "mkdir", "remove", "upload", "skip"}
Request == [verb : Verb, at : Target, fenced : BOOLEAN]
\* A plan also says what is there at first, sets the chunks of an upload,
\* MUTATION_MAX and UPLOAD_MAX, and bounds the calls whose callers stop waiting
\* and, together, the ends of the daemon and the writes of a program that is
\* not governed.
Plan == [ask : [Op -> Request], files : [Target -> {"old", "absent"}],
         chunks : Nat, ledger : Nat, uploads : Nat, timeouts : Nat,
         faults : Nat]

ASSUME FilesystemAssumption ==
  /\ IsFiniteSet(Op) /\ IsFiniteSet(Target)
  /\ Nobody \notin Op
  /\ Plans \subseteq Plan
  /\ TombMax \in Nat

VARIABLES
  plan,      \* the plan of this run
  file,      \* destination -> what is there
  temps,     \* operations with a temporary file or a trash reservation
  applied,   \* operation -> how often its effect happened
  entries,   \* the ledger: each operation in it, with those entered before
  state,     \* and the state of each record
  live,      \* open uploads
  got,       \* chunks each of them has
  armed,     \* those whose timer runs
  reserved,  \* destination -> the upload that reserved it
  seen,      \* operation -> the destination when it took its baseline
  tombs,     \* cancelledUploads
  saturated, \* cancelledUploadsSaturatedUntil lies ahead
  admission, \* the upload admission chain
  locks,     \* destination -> its lock queue
  stage,     \* destination -> progress of the holder
  closing,
  wire,      \* calls sent and not yet arrived
  awaits,    \* operation -> the call whose answer its caller waits for
  reply,     \* and that answer
  raced,     \* the file changed between the holder's last look and its rename
  faults

diskVars == <<plan, file, temps, applied, raced>>
ledgerVars == <<entries, state>>
uploadVars == <<live, got, armed, reserved>>
cancelVars == <<tombs, saturated>>
queueVars == <<admission, locks, stage, seen>>
lifeVars == <<closing, faults>>
callVars == <<wire, awaits, reply>>
vars == <<diskVars, ledgerVars, uploadVars, cancelVars, queueVars, lifeVars,
          callVars>>

Version == Op \cup {"absent", "old", "alien"}
Outcome == {"committed", "conflict", "not_committed"}
Reply == Outcome \cup {"none", "ok", "invalid", "unreachable", "unknown",
                       "cancelled", "lost"}
Call == [op : Op, verb : {"mutate", "open", "chunk", "commit", "cancel",
                          "status", "expire"}, n : Nat]
NoCall == [op |-> Nobody, verb |-> "none", n |-> 0]
Barrier == [op |-> Nobody, verb |-> "barrier", n |-> 0]

At(op) == plan.ask[op].at
Directory(v) == v \in Op /\ plan.ask[v].verb = "mkdir"
Known(op) == op \in DOMAIN entries

Unentered == [o \in {} |-> {}]

Memory ==  \* what a daemon starts with
  /\ entries = Unentered /\ state = [o \in Op |-> "pending"]
  /\ live = {} /\ got = [o \in Op |-> 0] /\ armed = {}
  /\ reserved = [t \in Target |-> Nobody]
  /\ tombs = {} /\ saturated = FALSE
  /\ admission = <<>> /\ locks = [t \in Target |-> <<>>]
  /\ stage = [t \in Target |-> "wait"] /\ seen = [o \in Op |-> "absent"]
  /\ closing = FALSE

FilesystemInit ==
  /\ plan \in Plans
  /\ file = plan.files
  /\ temps = {} /\ raced = {} /\ faults = 0
  /\ applied = [o \in Op |-> 0]
  /\ Memory
  /\ wire = {} /\ awaits = [o \in Op |-> NoCall]
  /\ reply = [o \in Op |-> "none"]

-----------------------------------------------------------------------------
(* Ledger and answers.                                                     *)

Answer(c, r) ==
  reply' = IF c.op \in Op /\ awaits[c.op] = c
           THEN [reply EXCEPT ![c.op] = r] ELSE reply

NoRecordNoEffect(op) ==  \* mutant: what is not known was not committed
  IF ~Known(op) THEN "not_committed"
  ELSE IF state[op] = "pending" THEN "unknown" ELSE state[op]
Replay(op) == IF ~Known(op) \/ state[op] = "pending" THEN "unknown"
              ELSE state[op]

\* What cleanupMutations leaves of the ledger: the outcomes that are old by
\* now go, and of the others the oldest while the ledger is full. A pending
\* record always stays.
FinalBefore(young, op) == {o \in young \cap entries[op] : state[o] # "pending"}
Kept(old) ==
  LET young == {o \in DOMAIN entries : state[o] = "pending" \/ o \notin old}
  IN  {o \in young :
        \/ state[o] = "pending"
        \/ Cardinality(young) - Cardinality(FinalBefore(young, o)) < plan.ledger}
Cleanups == {Kept(old) : old \in SUBSET DOMAIN entries}

Retain(kept) == entries' = [o \in kept |-> entries[o] \cap kept]

Enter(op, kept) ==
  /\ entries' = [o \in kept \cup {op} |->
                   IF o = op THEN kept ELSE entries[o] \cap kept]
  /\ state' = [state EXCEPT ![op] = "pending"]

Record(op, outcome) ==
  /\ state' = [state EXCEPT ![op] = outcome]
  /\ UNCHANGED entries

-----------------------------------------------------------------------------
(* The lock queues.                                                        *)

Queue(c) == locks' = [locks EXCEPT ![At(c.op)] = Append(@, c)]
Holder(t) == Head(locks[t])
Holds(t, verb, s) == /\ locks[t] # <<>>
                     /\ Holder(t).verb = verb
                     /\ stage[t] = s
Release(t) == /\ locks' = [locks EXCEPT ![t] = Tail(@)]
              /\ stage' = [stage EXCEPT ![t] = "wait"]
              /\ raced' = raced \ {t}
Advance(t, s) == stage' = [stage EXCEPT ![t] = s] /\ UNCHANGED locks
Barred(t) == reserved[t] \notin {Nobody, Holder(t).op}

\* A mutation that ends without effect: its record, its answer, its name.
GiveUp(t, outcome) ==
  LET op == Holder(t).op IN
  /\ Record(op, outcome)
  /\ Answer(Holder(t), outcome)
  /\ temps' = temps \ {op}
  /\ Release(t)
  /\ UNCHANGED <<plan, file, applied, uploadVars, cancelVars,
                 admission, seen, lifeVars, wire, awaits>>

\* The arrival of write, mkdir and remove up to the lock.
ArriveMutation(c) ==
  /\ c \in wire /\ c.verb = "mutate" /\ ~closing
  /\ wire' = wire \ {c}
  /\ \E kept \in IF Known(c.op) THEN {DOMAIN entries} ELSE Cleanups :
     \/ /\ Known(c.op) \/ Cardinality(kept) >= plan.ledger
        /\ Retain(kept)
        /\ Answer(c, IF Known(c.op) THEN Replay(c.op) ELSE "conflict")
        /\ UNCHANGED <<state, locks>>
     \/ /\ ~Known(c.op) /\ Cardinality(kept) < plan.ledger
        /\ Enter(c.op, kept)
        /\ Queue(c)
        /\ UNCHANGED reply
  /\ UNCHANGED <<diskVars, uploadVars, cancelVars, admission, stage, seen,
                 lifeVars, awaits>>

\* With the lock: the reservation, then the baseline and the preparations.
TakeBaseline(t) ==
  /\ Holds(t, "mutate", "wait")
  /\ LET op == Holder(t).op
         verb == plan.ask[op].verb
         refused == \/ Barred(t)
                    \/ verb = "write" /\ plan.ask[op].fenced /\ file[t] # "old"
         wrong == \/ verb = "write" /\ Directory(file[t])
                  \/ verb = "remove" /\ file[t] = "absent"
     IN  \/ refused /\ GiveUp(t, "conflict")
         \/ ~refused /\ wrong /\ GiveUp(t, "not_committed")
         \/ /\ ~refused /\ ~wrong
            /\ seen' = [seen EXCEPT ![op] = file[t]]
            /\ temps' = IF verb = "mkdir" THEN temps ELSE temps \cup {op}
            /\ Advance(t, IF verb = "mkdir" THEN "sure" ELSE "based")
            /\ UNCHANGED <<plan, file, applied, raced,
                           ledgerVars, uploadVars, cancelVars, admission,
                           lifeVars, callVars>>

LookAway(t) ==  \* mutant: the baseline is not compared
  /\ Holds(t, "mutate", "based")
  /\ Advance(t, "sure")
  /\ UNCHANGED <<diskVars, ledgerVars, uploadVars, cancelVars, admission, seen,
                 lifeVars, callVars>>

\* The last look at the destination before the rename.
LookAgain(t) ==
  /\ Holds(t, "mutate", "based")
  /\ LET op == Holder(t).op IN
     \/ /\ file[t] = seen[op]
        /\ Advance(t, "sure")
        /\ UNCHANGED <<diskVars, ledgerVars, uploadVars, cancelVars, admission,
                       seen, lifeVars, callVars>>
     \/ file[t] # seen[op] /\ GiveUp(t, "conflict")

\* The rename or mkdir, and what follows it up to the answer.
TakeEffect(t) ==
  /\ Holds(t, "mutate", "sure")
  /\ LET op == Holder(t).op
         verb == plan.ask[op].verb
     IN  \/ /\ verb = "mkdir" /\ file[t] # "absent"
            /\ GiveUp(t, "conflict")
         \/ /\ verb = "mkdir" => file[t] = "absent"
            /\ file' = [file EXCEPT ![t] =
                          IF verb = "remove" THEN "absent" ELSE op]
            /\ applied' = [applied EXCEPT ![op] = @ + 1]
            /\ temps' = temps \ {op}
            /\ Record(op, "committed")
            /\ Answer(Holder(t), "committed")
            /\ Release(t)
            /\ UNCHANGED <<plan, uploadVars, cancelVars,
                           admission, seen, lifeVars, wire, awaits>>

\* An input or output error, or a directory that is no longer authorised.
FailMutation(t) ==
  /\ locks[t] # <<>> /\ Holder(t).verb = "mutate"
  /\ GiveUp(t, "not_committed")

\* mutationStatus reads one record.
ArriveStatus(c) ==
  /\ c \in wire /\ c.verb = "status" /\ ~closing
  /\ wire' = wire \ {c}
  /\ Answer(c, Replay(c.op))
  /\ UNCHANGED <<diskVars, ledgerVars, uploadVars, cancelVars, queueVars,
                 lifeVars, awaits>>

-----------------------------------------------------------------------------
(* What happens around the mutations.                                      *)

\* Another program of the box writes a destination.
AlienWrite(t) ==
  /\ faults < plan.faults
  /\ faults' = faults + 1
  /\ ~Directory(file[t]) /\ file[t] # "alien"
  /\ file' = [file EXCEPT ![t] = "alien"]
  /\ raced' = IF stage[t] = "sure" THEN raced \cup {t} ELSE raced
  /\ UNCHANGED <<plan, temps, applied, ledgerVars, uploadVars,
                 cancelVars, queueVars, closing, callVars>>

\* The daemon's memory is gone. What it was about to unlink stays on the disk
\* under a name nobody uses again.
LoseMemory ==
  /\ entries' = Unentered /\ state' = [o \in Op |-> "pending"]
  /\ live' = {} /\ got' = [o \in Op |-> 0] /\ armed' = {}
  /\ reserved' = [t \in Target |-> Nobody]
  /\ tombs' = {} /\ saturated' = FALSE
  /\ admission' = <<>> /\ locks' = [t \in Target |-> <<>>]
  /\ stage' = [t \in Target |-> "wait"] /\ seen' = [o \in Op |-> "absent"]
  /\ closing' = FALSE
  /\ temps' = {} /\ raced' = {}
  /\ UNCHANGED <<plan, file, applied, callVars>>

Crash == faults < plan.faults /\ faults' = faults + 1 /\ LoseMemory
=============================================================================
