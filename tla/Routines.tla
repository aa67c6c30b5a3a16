------------------------------ MODULE Routines ------------------------------
(***************************************************************************)
(* One `grokbox agents routines` mutation (src/src/commands/routines.ts):  *)
(* it resolves the agent, reads the routines, checks what the user expects *)
(* of them, sends one write to the same generation of the Gateway and      *)
(* reads them again. The Gateway has no compare-and-swap: other writers    *)
(* come in between. How a write reaches the Gateway, and that it reaches   *)
(* it at most once, is module Gateway. The codes of errors are those of    *)
(* the code, the same before and after the write; "failed" is any other.   *)
(***************************************************************************)
EXTENDS Naturals, FiniteSets

CONSTANTS
  Routine,        \* ids; the Gateway chooses the one of a new routine
  Window,         \* routines the native window returns
  Others,         \* writes of others (bound)
  Generations     \* generations of the Gateway (bound)

ASSUME RoutinesAssumption ==
  {Window, Others, Generations} \subseteq Nat /\ IsFiniteSet(Routine)

VARIABLES
  epoch,     \* the generation its discovery tells of
  routines,  \* the routines of the agent
  plan,      \* the command: its action, routine, expected revision, and
             \* whether its answers tell the generation (a static token's do
             \* not: they are all 0:0)
  phase,     \* how far it is
  pin,       \* the generation the agent was resolved from
  before,    \* the routines when they were read first
  written,   \* what the write met and the routine it changed
  acked,     \* what was heard of the write
  others,    \* writes of others so far
  receipt    \* what the command told, and of which routine

planVars == <<plan, phase, pin, before, acked, receipt>>
routinesVars == <<epoch, routines, planVars, written, others>>

NoRoutine == [text |-> "none", on |-> FALSE]
Revision == [text : {"old", "new"}, on : BOOLEAN]  \* "new" is what we ask for
Present(snapshot) == {r \in Routine : snapshot[r] # NoRoutine}
Action == {"create", "update", "enable", "disable", "delete"}
Untold == [state |-> "none", id |-> "none"]

RoutinesInit ==
  /\ epoch = 1
  /\ routines \in [Routine -> {NoRoutine} \cup Revision]
  /\ plan \in [action : Action, id : Routine, expect : Revision,
               pinned : BOOLEAN]
  /\ plan.action = "create" => plan.expect = [text |-> "old", on |-> FALSE]
  /\ phase = "agent" /\ pin = 0
  /\ before = [r \in Routine |-> NoRoutine]
  /\ written = {} /\ acked = "none" /\ others = 0
  /\ receipt = Untold

Desired(revision) ==
  CASE plan.action = "update" -> [revision EXCEPT !.text = "new"]
    [] plan.action = "enable" -> [revision EXCEPT !.on = TRUE]
    [] plan.action = "disable" -> [revision EXCEPT !.on = FALSE]
    [] plan.action = "delete" -> NoRoutine
    [] plan.action = "create" -> [text |-> "new", on |-> FALSE]

Report(state, id) ==
  receipt' = [state |-> state, id |-> id] /\ phase' = "done"
Fail(code) == Report(code, "none")

-----------------------------------------------------------------------------
(* The command.                                                            *)

SameGeneration == plan.pinned => epoch = pin

\* resolveAgent and, for a Temporal Bot, resolveRoutineAuthority.
ResolveAgent ==
  /\ phase = "agent"
  /\ \/ pin' = epoch /\ phase' = "before" /\ UNCHANGED receipt
     \/ Fail("failed") /\ UNCHANGED pin
  /\ UNCHANGED <<epoch, routines, plan, before, acked, written, others>>

\* The first read. A create looks at the window, all others at the routine.
ReadBefore ==
  /\ phase = "before"
  /\ before' = IF SameGeneration THEN routines ELSE before
  /\ \/ ~SameGeneration /\ Fail("gateway_conflict")
     \/ Fail("failed")
     \/ /\ SameGeneration /\ plan.action = "create"
        /\ IF Cardinality(Present(routines)) >= Window
           THEN Fail("capability_unavailable")
           ELSE phase' = "write" /\ UNCHANGED receipt
     \/ /\ SameGeneration /\ plan.action # "create"
        /\ routines[plan.id] # plan.expect
        /\ Fail(IF routines[plan.id] = NoRoutine THEN "target_not_found"
                ELSE "gateway_conflict")
     \/ /\ SameGeneration /\ plan.action # "create"
        /\ routines[plan.id] = plan.expect
        /\ IF Desired(plan.expect) = plan.expect
           THEN Report("unchanged", plan.id)
           ELSE phase' = "write" /\ UNCHANGED receipt
  /\ UNCHANGED <<epoch, routines, plan, pin, acked, written, others>>

\* The Gateway carries the write out on whatever routine it finds.
PerformsWrite(id) ==
  /\ routines' = [routines EXCEPT ![id] = Desired(@)]
  /\ written' = written \cup {[id |-> id, met |-> routines[id]]}

\* The generation is compared before the request leaves; a restart while it
\* is on its way is one after it. A write that was carried out may still be
\* answered with a 5xx, or not at all.
Write ==
  /\ phase = "write" /\ acked = "none"
  /\ \/ ~SameGeneration /\ acked' = "gateway_conflict"
        /\ UNCHANGED <<routines, written>>
     \/ /\ SameGeneration
        /\ \E id \in Routine :
             /\ IF plan.action = "create" THEN id \notin Present(routines)
                ELSE id = plan.id /\ id \in Present(routines)
             /\ PerformsWrite(id)
        /\ acked' \in {"ok", "lost", "gateway_internal"}
     \/ /\ acked' \in {"lost", "gateway_internal", "failed"}
        /\ UNCHANGED <<routines, written>>
  /\ UNCHANGED <<epoch, plan, phase, pin, before, others, receipt>>

LostIsDone == acked \in {"ok", "lost"}  \* mutant: the readback will tell
Acknowledged == acked = "ok"

HearWrite ==
  /\ phase = "write" /\ acked # "none"
  /\ IF Acknowledged THEN phase' = "after" /\ UNCHANGED receipt
     ELSE Fail(IF acked = "lost" THEN "unknown" ELSE acked)
  /\ UNCHANGED <<epoch, routines, plan, pin, before, acked, written, others>>

\* The routines a receipt of this command may name.
Observed(after) ==
  IF plan.action = "create"
  THEN {r \in Present(after) \ Present(before) : after[r] = Desired(NoRoutine)}
  ELSE {r \in {plan.id} : after[r] = Desired(before[r])}
Gone(after) == plan.action \in {"update", "enable", "disable"}
               /\ after[plan.id] = NoRoutine
Unseen(after) ==
  \/ Cardinality(Observed(after)) # 1
  \/ plan.action = "delete" /\ Cardinality(Present(after)) >= Window

\* A failed second read is told as the failure it is: it does not say that
\* the write was carried out.
ReadAfter ==
  /\ phase = "after"
  /\ \/ ~SameGeneration /\ Fail("gateway_conflict")
     \/ Fail("failed")
     \/ SameGeneration /\ Gone(routines) /\ Fail("target_not_found")
     \/ /\ SameGeneration /\ ~Gone(routines) /\ Unseen(routines)
        /\ Fail("unknown")
     \/ /\ SameGeneration /\ ~Gone(routines) /\ ~Unseen(routines)
        /\ \E r \in Observed(routines) : Report("observed", r)
  /\ UNCHANGED <<epoch, routines, plan, pin, before, acked, written, others>>

-----------------------------------------------------------------------------
(* Everybody else.                                                         *)

OtherWrite ==
  /\ phase # "done" /\ others < Others
  /\ others' = others + 1
  /\ \E r \in Routine, v \in {NoRoutine} \cup Revision :
       v # routines[r] /\ routines' = [routines EXCEPT ![r] = v]
  /\ UNCHANGED <<epoch, planVars, written>>

RoutineGatewayRestarts ==
  /\ phase # "done" /\ epoch < Generations
  /\ epoch' = epoch + 1
  /\ UNCHANGED <<routines, planVars, written, others>>

RoutinesNext ==
  \/ ResolveAgent \/ ReadBefore \/ Write \/ HearWrite \/ ReadAfter
  \/ OtherWrite \/ RoutineGatewayRestarts

RoutinesSpec == RoutinesInit /\ [][RoutinesNext]_routinesVars

\* "observed" is only told of a write the Gateway carried out: on the routine
\* the receipt names and, to enable or disable one, on the definition the
\* user had reviewed, if no two writes of others made it look so; and, where
\* generations are told, by a command that saw only one of them. "unchanged"
\* is only told if nothing was written, and a write whose answer was lost is
\* told as unknown. (The other errors say nothing of the write: each of them
\* is told before it and after it.)
ReceiptIsTrue ==
  /\ receipt.state = "observed" =>
       /\ SameGeneration
       /\ \E w \in written :
            others < 2 /\ plan.action \in {"create", "enable", "disable"} =>
              /\ w.id = receipt.id
              /\ plan.action # "create" => w.met.text = plan.expect.text
  /\ receipt.state = "unchanged" => written = {}
  /\ acked = "lost" => receipt.state \in {"none", "unknown"}
=============================================================================
