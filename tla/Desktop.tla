------------------------------ MODULE Desktop -------------------------------
(***************************************************************************)
(* The daemon's DesktopManager (src/src/daemon/desktop.ts): which agents'  *)
(* desktops are kept, the prune that stops idle ones, by command or by its *)
(* tick, and the section of the daemon's configuration file that makes the *)
(* choice outlive the daemon. A prune awaits a look at the world before    *)
(* every decision, and commands change the policy in between. What a look  *)
(* sees is left open: any agents may be seated at a lit display that shows *)
(* no activity.                                                            *)
(***************************************************************************)
EXTENDS Naturals, FiniteSets

CONSTANTS
  Agent,           \* agents seated at forks, never at MAIN_DISPLAY
  Command          \* commands that change the manager

ASSUME DesktopAssumption ==
  /\ IsFiniteSet(Agent) /\ IsFiniteSet(Command)
  /\ 0 \notin Command         \* it stands for no command

VARIABLES
  floor,    \* floorAgentIds
  keep,     \* keepAgentIds
  enabled,  \* pruneEnabled
  tick,     \* the interval runs
  prune,    \* the prune that holds `locked'
  change,   \* how far each command is
  stored,   \* keep and enabled in the configuration file
  pledged,  \* kept when the prune took its last look, and since
  recent,   \* what the file held, and memory since, when a save began that
            \* met no other
  alone,    \* the save that no other overlapped
  settled   \* what that save was for; "no" once anything changed since

pruneVars == <<prune, pledged>>
saveVars == <<change, stored, recent, alone, settled>>
desktopVars == <<floor, keep, enabled, tick, pruneVars, saveVars>>

Nobody == "nobody"
Unlocked == [stage |-> "off", rows |-> {}, row |-> Nobody, seen |-> {}]
NewCommand == [kind |-> "none", phase |-> "new", text |-> <<>>]

DesktopInit ==
  /\ floor \in {f \in SUBSET Agent : Cardinality(f) < 2}
  /\ keep = {} /\ enabled \in BOOLEAN /\ tick = enabled
  /\ prune = Unlocked /\ pledged = {}
  /\ change = [c \in Command |-> NewCommand]
  /\ stored = <<keep, enabled>> /\ recent = {stored}
  /\ alone = 0 /\ settled = "start"

-----------------------------------------------------------------------------
(* classifyDesktop and pruneLocked.                                        *)

Look == SUBSET Agent       \* whom a look at the world may show idle
Protected(a) == a \in keep \cup floor
IdleRows(seen) == {a \in seen : ~Protected(a)}

\* desktopPrune, or the tick; a prune under way refuses another.
BeginPrune ==
  /\ prune.stage = "off"
  /\ \E seen \in Look :
       prune' = [Unlocked EXCEPT !.stage = "first", !.seen = seen]
  /\ UNCHANGED <<floor, keep, enabled, tick, saveVars, pledged>>

Classify ==
  /\ prune.stage = "first"
  /\ prune' = [Unlocked EXCEPT !.stage = "rows",
                               !.rows = IdleRows(prune.seen)]
  /\ UNCHANGED <<floor, keep, enabled, tick, saveVars, pledged>>

LookAgainAt ==
  /\ prune.stage = "rows"
  /\ IF prune.rows = {} THEN prune' = Unlocked /\ pledged' = {}
     ELSE \E a \in prune.rows, seen \in Look :
            /\ prune' = [stage |-> "second", rows |-> prune.rows \ {a},
                         row |-> a, seen |-> seen]
            /\ pledged' = keep \cup floor
  /\ UNCHANGED <<floor, keep, enabled, tick, saveVars>>

StaleRows(seen) == seen     \* mutant: the policy of the first look
SecondIdle(seen) == IdleRows(seen)

ClassifyAgain ==
  /\ prune.stage = "second"
  /\ prune' = IF prune.row \in SecondIdle(prune.seen)
              THEN [prune EXCEPT !.stage = "stop", !.seen = {}]
              ELSE [prune EXCEPT !.stage = "rows", !.seen = {}, !.row = Nobody]
  /\ UNCHANGED <<floor, keep, enabled, tick, saveVars, pledged>>

\* The executable is pinned once more, then runs; a failure ends the prune.
StopWindow ==
  /\ prune.stage = "stop"
  /\ prune' \in {[prune EXCEPT !.stage = "rows", !.row = Nobody], Unlocked}
  /\ UNCHANGED <<floor, keep, enabled, tick, saveVars, pledged>>

-----------------------------------------------------------------------------
(* keepAdd, keepRemove, setEnabled and persist.                            *)

Phase(c, p) == change[c].phase = p
Saving == {c \in Command : change[c].phase \in {"reading", "writing"}}
Move(c, p) == change' = [change EXCEPT ![c] = [NewCommand EXCEPT !.phase = p]]

\* The change is in memory at once; the save of it begins.
BeginSave(c, kind) ==
  /\ Phase(c, "new")
  /\ change' = [change EXCEPT ![c] =
       [kind |-> kind, phase |-> "reading", text |-> <<>>]]
  /\ alone' = IF Saving = {} THEN c ELSE 0
  /\ recent' = (IF Saving = {} THEN {stored} ELSE recent)
                \cup {<<keep', enabled'>>}
  /\ settled' = "no"
  /\ UNCHANGED <<floor, tick, prune, stored>>

KeepAdd(c, a) ==
  /\ ~Protected(a) /\ keep' = keep \cup {a}
  /\ UNCHANGED <<enabled, pledged>> /\ BeginSave(c, "add")

KeepRemove(c, a) ==
  /\ a \notin floor /\ keep' = keep \ {a} /\ pledged' = pledged \ {a}
  /\ UNCHANGED enabled /\ BeginSave(c, "remove")

SetEnabled(c, on) ==
  /\ enabled' = on /\ UNCHANGED <<keep, pledged>>
  /\ BeginSave(c, IF on THEN "enable" ELSE "disable")

\* What is written is what memory holds once the file has been read.
WriteTemporary(c) ==
  /\ Phase(c, "reading")
  /\ change' = [change EXCEPT ![c].phase = "writing",
                              ![c].text = <<keep, enabled>>]
  /\ UNCHANGED <<floor, keep, enabled, tick, pruneVars, stored, recent,
                 alone, settled>>

RenameOver(c) ==
  /\ Phase(c, "writing")
  /\ stored' = change[c].text
  /\ Move(c, "told")
  /\ settled' = IF alone = c THEN change[c].kind ELSE "no"
  /\ tick' = CASE change[c].kind = "enable" -> TRUE
               [] change[c].kind = "disable" -> FALSE
               [] OTHER -> tick
  /\ UNCHANGED <<floor, keep, enabled, pruneVars, recent, alone>>

SaveFails(c) ==
  /\ c \in Saving /\ Move(c, "failed")
  /\ stored' \in {stored, change[c].text} \ {<<>>}
  /\ UNCHANGED <<floor, keep, enabled, tick, pruneVars, recent, alone,
                 settled>>

\* The daemon ends and another one is created from the file.
DaemonEnds ==
  /\ keep' = stored[1] /\ enabled' = stored[2] /\ tick' = stored[2]
  /\ prune' = Unlocked /\ pledged' = {}
  /\ change' = [c \in Command |-> IF c \in Saving
                    THEN [NewCommand EXCEPT !.phase = "lost"] ELSE change[c]]
  /\ alone' = 0 /\ settled' = "start" /\ recent' = {stored}
  /\ UNCHANGED <<floor, stored>>

DesktopNext ==
  \/ BeginPrune \/ Classify \/ LookAgainAt \/ ClassifyAgain \/ StopWindow
  \/ DaemonEnds
  \/ \E c \in Command :
       \/ \E a \in Agent : KeepAdd(c, a) \/ KeepRemove(c, a)
       \/ \E on \in BOOLEAN : SetEnabled(c, on)
       \/ WriteTemporary(c) \/ RenameOver(c) \/ SaveFails(c)

DesktopSpec == DesktopInit /\ [][DesktopNext]_desktopVars

\* No window is stopped that belonged to an agent on the floor or to one that
\* was kept when the prune took its last look and has been kept since. A save
\* that no other overlapped leaves in the file what the daemon goes by, so
\* that the next daemon goes by it too, and the tick as it was set. Saves that
\* overlap may undo each other in the file, though each of them was told as
\* done, but none that had ended before them: the file holds what it held
\* when the first of them began, or what the daemon went by since.
DesktopKept ==
  /\ prune.stage = "stop" => prune.row \notin pledged
  /\ settled # "no" => stored = <<keep, enabled>>
  /\ settled \in {"enable", "disable", "start"} => tick = enabled
  /\ stored \in recent
=============================================================================
