--------------------------- MODULE ServicesProofs ---------------------------
(***************************************************************************)
(* The safety invariants of five services that share no state, for every   *)
(* value of their constants: the downloads and who owns their descriptors, *)
(* the desktops that are kept, the receipt of a routine's mutation, the    *)
(* verdict on a request to the Gateway, and the bootstrap with its         *)
(* rollback. Each has an inductive invariant that contains the one the     *)
(* runs check; each of its parts says why it is needed.                    *)
(***************************************************************************)
EXTENDS Downloads, Desktop, Routines, Gateway, Bootstrap, FiniteSetTheorems,
        TLAPS

(***************************************************************************)
(* Downloads.                                                              *)
(***************************************************************************)

\* A cancelled id is not even about to be opened: CancelArrives aborts what
\* is pending, and OpenArrives refuses an id with a tombstone.
DownloadsInv ==
  /\ transfer \in [Transfer -> {"none", "pending", "aborted", "open"}]
  /\ command \in [Transfer -> {"new", "waiting", "received", "ended"}]
  /\ \A x \in gone : transfer[x] \notin {"pending", "open"}
  /\ handles \subseteq Transfer /\ gone \subseteq Transfer
  /\ temporary \subseteq Transfer
  /\ DownloadsOwned

\* What a step of the daemon may do to the transfers keeps the invariant if
\* the commands stand still.
LEMMA DaemonKeepsDownloads ==
  ASSUME DownloadsInv, NEW x \in Transfer,
         \/ OpenArrives(x) \/ OpenHandle(x) \/ PublishTransfer(x)
         \/ ChunkArrives(x) \/ ChunkRead(x) \/ CancelArrives(x)
         \/ TransferExpires(x)
  PROVE  DownloadsInv'
<1> USE DEF DownloadsInv, DownloadsOwned, Active, CloseTransfer, commandVars
<1>1. CASE OpenArrives(x)
  BY <1>1 DEF OpenArrives
<1>2. CASE OpenHandle(x)
  BY <1>2 DEF OpenHandle
<1>3. CASE PublishTransfer(x)
  BY <1>3 DEF PublishTransfer, Withdrawn
<1>4. CASE ChunkArrives(x)
  BY <1>4 DEF ChunkArrives
<1>5. CASE ChunkRead(x)
  BY <1>5 DEF ChunkRead
<1>6. CASE CancelArrives(x)
  BY <1>6 DEF CancelArrives
<1>7. CASE TransferExpires(x)
  BY <1>7 DEF TransferExpires
<1> QED
  BY <1>1, <1>2, <1>3, <1>4, <1>5, <1>6, <1>7

\* So do the steps of the commands, which leave the daemon alone.
LEMMA CommandKeepsDownloads ==
  ASSUME DownloadsInv, NEW x \in Transfer,
         \/ StartDownload(x) \/ HearTransfer(x) \/ DownloadFails(x)
         \/ LinkDestination(x) \/ OtherCreates(x)
  PROVE  DownloadsInv'
<1> USE DEF DownloadsInv, DownloadsOwned, Active, daemonVars, EndCommand, Say
<1>1. CASE StartDownload(x)
  BY <1>1 DEF StartDownload
<1>2. CASE HearTransfer(x)
  BY <1>2 DEF HearTransfer
<1>3. CASE DownloadFails(x)
  BY <1>3 DEF DownloadFails
<1>4. CASE LinkDestination(x)
  BY <1>4 DEF LinkDestination
<1>5. CASE OtherCreates(x)
  BY <1>5 DEF OtherCreates
<1> QED
  BY <1>1, <1>2, <1>3, <1>4, <1>5

\* Every step of the downloads keeps their invariant.
LEMMA DownloadsKeep ==
  DownloadsInv /\ [DownloadsNext]_downloadVars => DownloadsInv'
<1> SUFFICES ASSUME DownloadsInv, [DownloadsNext]_downloadVars
             PROVE  DownloadsInv'
  OBVIOUS
<1>1. ASSUME NEW x \in Transfer,
             \/ OpenArrives(x) \/ OpenHandle(x) \/ PublishTransfer(x)
             \/ ChunkArrives(x) \/ ChunkRead(x) \/ CancelArrives(x)
             \/ TransferExpires(x)
      PROVE  DownloadsInv'
  BY <1>1, DaemonKeepsDownloads
<1>2. ASSUME NEW x \in Transfer,
             \/ StartDownload(x) \/ HearTransfer(x) \/ DownloadFails(x)
             \/ LinkDestination(x) \/ OtherCreates(x)
      PROVE  DownloadsInv'
  BY <1>2, CommandKeepsDownloads
<1>3. CASE TombstonesExpire
  BY <1>3 DEF TombstonesExpire, DownloadsInv, DownloadsOwned, Active,
              commandVars
<1>4. CASE EndTransfers
  BY <1>4 DEF EndTransfers, DownloadsInv, DownloadsOwned, Active, commandVars
<1>5. CASE FileChanges \/ UNCHANGED downloadVars
  BY <1>5 DEF FileChanges, DownloadsInv, DownloadsOwned, Active, commandVars,
              downloadVars, daemonVars
<1> QED
  BY <1>1, <1>2, <1>3, <1>4, <1>5 DEF DownloadsNext

\* For any number of transfers, of changes of the file and of tombstones: a
\* cancel wins against its open, however late it comes, and no descriptor,
\* timer or temporary file of a download (src/src/daemon/filesystem.ts,
\* src/src/commands/fs.ts) outlives its owner.
THEOREM DownloadsAreOwned == DownloadsSpec => []DownloadsOwned
<1>1. DownloadsInit => DownloadsInv
  BY DEF DownloadsInit, DownloadsInv, DownloadsOwned, Active
<1>2. DownloadsInv => DownloadsOwned
  BY DEF DownloadsInv
<1> QED
  BY <1>1, <1>2, DownloadsKeep, PTL DEF DownloadsSpec

(***************************************************************************)
(* Desktop.                                                                *)
(***************************************************************************)

Policies == (SUBSET Agent) \X BOOLEAN

\* What was kept when the prune looked and still counts is kept now. A save
\* that is alone is the only one under way and has written what memory holds;
\* nothing is under way once it is settled. What a save under way will leave
\* in the file, or has, is recent.
DesktopInv ==
  /\ keep \subseteq Agent /\ enabled \in BOOLEAN
  /\ prune \in [stage : {"off", "first", "rows", "second", "stop"},
                rows : SUBSET Agent, row : Agent \cup {Nobody},
                seen : SUBSET Agent]
  /\ floor \subseteq Agent /\ stored \in Policies
  /\ change \in [Command ->
       [kind : {"none", "add", "remove", "enable", "disable"},
        phase : {"new", "reading", "writing", "told", "failed", "lost"},
        text : {<<>>} \cup Policies]]
  /\ pledged \subseteq keep \cup floor
  /\ \A c \in Command : Phase(c, "writing") => change[c].text \in Policies
  /\ \A c \in Command : Phase(c, "reading") => change[c].text = <<>>
  /\ alone \in Command =>
       /\ Saving \subseteq {alone}
       /\ Phase(alone, "writing") => change[alone].text = <<keep, enabled>>
       /\ alone \in Saving /\ change[alone].kind = "enable" => enabled
       /\ alone \in Saving /\ change[alone].kind = "disable" => ~enabled
  /\ settled # "no" => Saving = {}
  /\ \A c \in Command : Phase(c, "writing") => change[c].text \in recent
  /\ Saving # {} => <<keep, enabled>> \in recent
  /\ DesktopKept

\* The prune looks and decides; no policy and no save is touched.
LEMMA PruneKeepsDesktop ==
  ASSUME DesktopInv,
         \/ BeginPrune \/ Classify \/ LookAgainAt \/ ClassifyAgain
         \/ StopWindow
  PROVE  DesktopInv'
<1>1. UNCHANGED <<floor, keep, enabled, tick, saveVars>>
  BY DEF BeginPrune, Classify, LookAgainAt, ClassifyAgain, StopWindow
<1>2. pledged' \subseteq keep \cup floor
  BY DEF DesktopInv, BeginPrune, Classify, LookAgainAt, ClassifyAgain,
         StopWindow
<1>3. /\ prune'.stage = "stop" => prune'.row \notin pledged'
      /\ prune' \in [stage : {"off", "first", "rows", "second", "stop"},
                     rows : SUBSET Agent, row : Agent \cup {Nobody},
                     seen : SUBSET Agent]
  <2> USE DEF DesktopInv, DesktopKept, Unlocked
  <2>1. CASE BeginPrune
    BY <2>1 DEF BeginPrune, Look
  <2>2. CASE Classify
    BY <2>2 DEF Classify, IdleRows
  <2>3. CASE LookAgainAt
    BY <2>3 DEF LookAgainAt, Look
  <2>4. CASE ClassifyAgain
    BY <2>4 DEF ClassifyAgain, SecondIdle, IdleRows, Protected
  <2>5. CASE StopWindow
    <3>1. CASE prune' = Unlocked
      BY <3>1
    <3>2. CASE prune' = [prune EXCEPT !.stage = "rows", !.row = Nobody]
      BY <3>2
    <3> QED
      BY <2>5, <3>1, <3>2 DEF StopWindow
  <2> QED
    BY <2>1, <2>2, <2>3, <2>4, <2>5
<1> QED
  BY <1>1, <1>2, <1>3 DEF DesktopInv, DesktopKept, Phase, Saving, saveVars

\* A command changes the policy in memory and begins its save.
LEMMA ChangeKeepsDesktop ==
  ASSUME DesktopInv, NEW c \in Command,
         \/ \E a \in Agent : KeepAdd(c, a) \/ KeepRemove(c, a)
         \/ \E on \in BOOLEAN : SetEnabled(c, on)
  PROVE  DesktopInv'
<1>1. PICK kind \in {"add", "remove", "enable", "disable"} :
        /\ BeginSave(c, kind)
        /\ kind = "enable" => enabled'
        /\ kind = "disable" => ~enabled'
  <2>1. ASSUME NEW on \in BOOLEAN, SetEnabled(c, on)
        PROVE  \/ BeginSave(c, "enable") /\ enabled'
               \/ BeginSave(c, "disable") /\ ~enabled'
    BY <2>1 DEF SetEnabled
  <2> QED
    BY <2>1 DEF KeepAdd, KeepRemove
<1>2. /\ keep' \subseteq Agent /\ enabled' \in BOOLEAN
      /\ pledged' \subseteq keep' \cup floor
      /\ pledged' \subseteq pledged
  BY DEF DesktopInv, KeepAdd, KeepRemove, SetEnabled
<1>3. /\ change' = [change EXCEPT ![c] =
           [kind |-> kind, phase |-> "reading", text |-> <<>>]]
      /\ alone' = IF Saving = {} THEN c ELSE 0
      /\ recent' = (IF Saving = {} THEN {stored} ELSE recent)
                    \cup {<<keep', enabled'>>}
      /\ settled' = "no" /\ UNCHANGED <<floor, tick, prune, stored>>
  BY <1>1 DEF BeginSave
<1>4. change'[c] = [kind |-> kind, phase |-> "reading", text |-> <<>>]
  BY <1>3 DEF DesktopInv
<1>5. \A d \in Command : d # c => change'[d] = change[d]
  BY <1>3 DEF DesktopInv
<1>6. alone' \in Command => alone' = c /\ Saving' \subseteq {c}
  BY <1>3, <1>5, DesktopAssumption DEF DesktopAssumption, Saving
<1>7. \A d \in Command :
        /\ Phase(d, "writing")' => change'[d].text \in Policies
        /\ Phase(d, "reading")' => change'[d].text = <<>>
  BY <1>4, <1>5 DEF DesktopInv, Phase
<1>8. change' \in [Command ->
       [kind : {"none", "add", "remove", "enable", "disable"},
        phase : {"new", "reading", "writing", "told", "failed", "lost"},
        text : {<<>>} \cup Policies]]
  BY <1>3 DEF DesktopInv
<1>9. /\ stored' \in recent' /\ <<keep', enabled'>> \in recent'
      /\ \A d \in Command :
           Phase(d, "writing")' => change'[d].text \in recent'
  BY <1>3, <1>4, <1>5 DEF DesktopInv, DesktopKept, Phase, Saving
<1> QED
  BY <1>1, <1>2, <1>3, <1>4, <1>6, <1>7, <1>8, <1>9
  DEF DesktopInv, DesktopKept, Phase

\* A save reads memory, replaces the file and sets the tick, or fails.
LEMMA SaveKeepsDesktop ==
  ASSUME DesktopInv, NEW c \in Command,
         WriteTemporary(c) \/ RenameOver(c) \/ SaveFails(c)
  PROVE  DesktopInv'
<1> USE DEF Phase, Saving
<1>1. CASE WriteTemporary(c)
  <2>1. /\ change' = [change EXCEPT ![c].phase = "writing",
                                    ![c].text = <<keep, enabled>>]
        /\ change[c].phase = "reading"
        /\ UNCHANGED <<floor, keep, enabled, tick, pruneVars, stored, recent,
                       alone, settled>>
    BY <1>1 DEF WriteTemporary
  <2>2. <<keep, enabled>> \in Policies
    BY DEF DesktopInv, Policies
  <2>3. /\ change'[c].kind = change[c].kind
        /\ change'[c].phase = "writing"
        /\ change'[c].text = <<keep, enabled>>
        /\ \A d \in Command : d # c => change'[d] = change[d]
        /\ change' \in [Command ->
             [kind : {"none", "add", "remove", "enable", "disable"},
              phase : {"new", "reading", "writing", "told", "failed", "lost"},
              text : {<<>>} \cup Policies]]
    BY ZenonT(30), <2>1, <2>2 DEF DesktopInv
  <2>4. Saving' = Saving
    BY <2>1, <2>3
  <2> QED
    BY <2>1, <2>2, <2>3, <2>4 DEF DesktopInv, DesktopKept, pruneVars
<1>2. CASE RenameOver(c)
  <2>1. /\ change' = [change EXCEPT ![c] = [NewCommand EXCEPT !.phase = "told"]]
        /\ change[c].phase = "writing" /\ stored' = change[c].text
        /\ settled' = IF alone = c THEN change[c].kind ELSE "no"
        /\ UNCHANGED <<floor, keep, enabled, pruneVars, recent, alone>>
    BY <1>2 DEF RenameOver, Move
  <2>2. /\ change'[c].phase = "told"
        /\ \A d \in Command : d # c => change'[d] = change[d]
        /\ change' \in [Command ->
             [kind : {"none", "add", "remove", "enable", "disable"},
              phase : {"new", "reading", "writing", "told", "failed", "lost"},
              text : {<<>>} \cup Policies]]
    BY <2>1 DEF DesktopInv, NewCommand
  <2>3. Saving' = Saving \ {c}
    BY <2>1, <2>2
  <2>4. /\ settled' # "no" => Saving' = {} /\ stored' = <<keep, enabled>>
        /\ stored' \in Policies /\ stored' \in recent'
    BY <2>1, <2>3 DEF DesktopInv
  <2>5. settled' \in {"enable", "disable", "start"} => tick' = enabled
    <3>1. CASE alone = c
      BY <1>2, <2>1, <3>1 DEF DesktopInv, RenameOver
    <3> QED
      BY <2>1, <3>1
  <2> QED
    BY <2>1, <2>2, <2>3, <2>4, <2>5 DEF DesktopInv, DesktopKept, pruneVars
<1>3. CASE SaveFails(c)
  <2>1. /\ change' = [change EXCEPT ![c] =
                        [NewCommand EXCEPT !.phase = "failed"]]
        /\ c \in Saving /\ stored' \in {stored, change[c].text} \ {<<>>}
        /\ UNCHANGED <<floor, keep, enabled, tick, pruneVars, recent, alone,
                       settled>>
    BY <1>3 DEF SaveFails, Move
  <2>2. /\ change'[c].phase = "failed"
        /\ \A d \in Command : d # c => change'[d] = change[d]
        /\ change' \in [Command ->
             [kind : {"none", "add", "remove", "enable", "disable"},
              phase : {"new", "reading", "writing", "told", "failed", "lost"},
              text : {<<>>} \cup Policies]]
    BY <2>1 DEF DesktopInv, NewCommand
  <2>3. Saving' = Saving \ {c} /\ settled = "no"
    BY <2>1, <2>2 DEF DesktopInv
  <2>4. stored' \in Policies /\ stored' \in recent'
    <3>1. CASE stored' = stored
      BY <2>1, <3>1 DEF DesktopInv, DesktopKept
    <3>2. CASE stored' = change[c].text /\ change[c].phase = "writing"
      BY <2>1, <3>2 DEF DesktopInv
    <3>3. CASE stored' = change[c].text /\ change[c].phase = "reading"
      <4>1. change[c].text = <<>>
        BY <3>3 DEF DesktopInv
      <4>2. stored' # <<>>
        BY <2>1, Zenon
      <4> QED
        BY <3>3, <4>1, <4>2
    <3> QED
      BY <2>1, <3>1, <3>2, <3>3, Zenon
  <2> QED
    BY <2>1, <2>2, <2>3, <2>4 DEF DesktopInv, DesktopKept, pruneVars
<1> QED
  BY <1>1, <1>2, <1>3

\* The next daemon goes by the file.
LEMMA EndKeepsDesktop ==
  ASSUME DesktopInv, DaemonEnds
  PROVE  DesktopInv'
<1>1. /\ keep' = stored[1] /\ enabled' = stored[2] /\ tick' = stored[2]
      /\ prune' = Unlocked /\ pledged' = {} /\ alone' = 0
      /\ settled' = "start" /\ recent' = {stored}
      /\ UNCHANGED <<floor, stored>>
  BY DEF DaemonEnds
<1>2. /\ stored' = <<keep', enabled'>> /\ stored' \in Policies
      /\ keep' \subseteq Agent /\ enabled' \in BOOLEAN
  BY <1>1 DEF DesktopInv, Policies
<1>3. change' = [c \in Command |-> IF c \in Saving
                   THEN [NewCommand EXCEPT !.phase = "lost"] ELSE change[c]]
  BY DEF DaemonEnds
<1>4. change' \in [Command ->
        [kind : {"none", "add", "remove", "enable", "disable"},
         phase : {"new", "reading", "writing", "told", "failed", "lost"},
         text : {<<>>} \cup Policies]]
  BY <1>3 DEF DesktopInv, NewCommand
<1>5. Saving' = {}
  BY <1>3 DEF Saving, NewCommand
<1>6. \A c \in Command : change'[c].phase \notin {"reading", "writing"}
  BY <1>5 DEF Saving
<1> QED
  BY <1>1, <1>2, <1>4, <1>5, <1>6, DesktopAssumption
  DEF DesktopInv, DesktopKept, DesktopAssumption, Phase, Unlocked

\* Every step of the desktop manager keeps its invariant.
LEMMA DesktopKeep == DesktopInv /\ [DesktopNext]_desktopVars => DesktopInv'
<1> SUFFICES ASSUME DesktopInv, [DesktopNext]_desktopVars PROVE DesktopInv'
  OBVIOUS
<1>1. CASE UNCHANGED desktopVars
  BY <1>1 DEF DesktopInv, DesktopKept, Phase, Saving, desktopVars, pruneVars,
              saveVars
<1>2. ASSUME NEW c \in Command,
             \/ \E a \in Agent : KeepAdd(c, a) \/ KeepRemove(c, a)
             \/ \E on \in BOOLEAN : SetEnabled(c, on)
      PROVE  DesktopInv'
  BY <1>2, ChangeKeepsDesktop
<1>3. ASSUME NEW c \in Command,
             WriteTemporary(c) \/ RenameOver(c) \/ SaveFails(c)
      PROVE  DesktopInv'
  BY <1>3, SaveKeepsDesktop
<1> QED
  BY <1>1, <1>2, <1>3, PruneKeepsDesktop, EndKeepsDesktop DEF DesktopNext

\* It holds in the first state.
LEMMA DesktopBegins == DesktopInit => DesktopInv
<1> SUFFICES ASSUME DesktopInit PROVE DesktopInv
  OBVIOUS
<1>1. change \in [Command ->
        [kind : {"none", "add", "remove", "enable", "disable"},
         phase : {"new", "reading", "writing", "told", "failed", "lost"},
         text : {<<>>} \cup Policies]]
  BY DEF DesktopInit, NewCommand
<1>2. Saving = {}
  BY DEF DesktopInit, NewCommand, Saving
<1> QED
  BY <1>1, <1>2, DesktopAssumption
  DEF DesktopInit, DesktopInv, DesktopKept, DesktopAssumption, NewCommand,
      Phase, Unlocked, Policies

\* For any agents and any number of commands: the prune of the daemon's
\* DesktopManager (src/src/daemon/desktop.ts) stops no window of an agent
\* that was kept when it looked and is kept still, a save that no other
\* overlapped leaves in the file what the daemon goes by, and saves that
\* overlap undo no change but each other's.
THEOREM DesktopsAreKept == DesktopSpec => []DesktopKept
<1>1. DesktopInv => DesktopKept
  BY DEF DesktopInv
<1> QED
  BY <1>1, DesktopBegins, DesktopKeep, PTL DEF DesktopSpec
(***************************************************************************)
(* Routines.                                                               *)
(***************************************************************************)

Snapshot == [Routine -> {NoRoutine} \cup Revision]
RoutinesTyped ==
  /\ routines \in Snapshot /\ before \in Snapshot /\ others \in Nat
  /\ plan \in [action : Action, id : Routine, expect : Revision,
               pinned : BOOLEAN]
  /\ written \subseteq [id : Routine, met : {NoRoutine} \cup Revision]
  /\ phase \in {"agent", "before", "write", "after", "done"}
  /\ acked \in {"none", "ok", "lost", "failed", "gateway_conflict",
                "gateway_internal"}

\* When a write can have been carried out and what is known of it.
ProgressInv ==
  /\ phase \in {"agent", "before"} => acked = "none"
  /\ phase # "done" /\ acked = "none" => written = {}
  /\ phase # "done" /\ acked = "ok" => written # {}
  /\ phase = "after" => acked = "ok"
  /\ phase # "done" => receipt = Untold
  /\ phase \in {"write", "after"} /\ plan.action # "create" =>
       before[plan.id] = plan.expect

\* The routines differ from a snapshot in one place at most.
DifferByOne(s, t) ==
  \E p \in Routine : \A q \in Routine : q # p => s[q] = t[q]
New == [text |-> "new", on |-> FALSE]

\* Where the routines can differ from the first read before the write: nowhere
\* without a write of others, in one place after one.
UnwrittenInv ==
  phase = "write" /\ written = {} =>
    /\ others = 0 => routines = before
    /\ others = 1 => DifferByOne(routines, before)

\* And after it. A create finds a free id; if that id was in use before,
\* others have freed it, which leaves them no further write.
CreateInv ==
  phase \in {"write", "after"} /\ plan.action = "create" =>
    \A w \in written :
      /\ others = 0 => /\ before[w.id] = NoRoutine
                       /\ routines = [before EXCEPT ![w.id] = New]
      /\ others = 1 =>
           \/ /\ before[w.id] = NoRoutine
              /\ DifferByOne(routines, [before EXCEPT ![w.id] = New])
           \/ /\ before[w.id] # NoRoutine
              /\ \A q \in Routine : q # w.id => routines[q] = before[q]

\* An enable or disable keeps the text it meets: an unexpected one still shows
\* unless others write once more.
ToggleInv ==
  phase \in {"write", "after"} /\ plan.action \in {"enable", "disable"} =>
    \A w \in written :
      /\ w.id = plan.id
      /\ others = 0 => w.met.text = plan.expect.text
      /\ others = 1 => \/ w.met.text = plan.expect.text
                       \/ routines[plan.id].text # plan.expect.text

RoutinesInv ==
  /\ RoutinesTyped /\ ProgressInv /\ UnwrittenInv /\ CreateInv /\ ToggleInv
  /\ ReceiptIsTrue
\* Before the write: nothing has been written.
LEMMA ReadsKeepRoutines ==
  ASSUME RoutinesInv, ResolveAgent \/ ReadBefore \/ HearWrite
  PROVE  RoutinesInv'
<1> USE DEF RoutinesInv
<1>1. CASE ResolveAgent
  <2>1. /\ phase = "agent" /\ phase' \in {"before", "done"}
        /\ receipt' \in {receipt, [state |-> "failed", id |-> "none"]}
        /\ phase' = "before" => receipt' = receipt
        /\ UNCHANGED <<epoch, routines, plan, before, acked, written, others>>
    BY <1>1 DEF ResolveAgent, Fail, Report
  <2> QED
    BY <2>1 DEF RoutinesTyped, ProgressInv, UnwrittenInv, CreateInv,
                ToggleInv, ReceiptIsTrue, Untold
<1>2. CASE ReadBefore
  <2>1. /\ phase = "before" /\ written = {} /\ acked = "none"
        /\ receipt = Untold
        /\ UNCHANGED <<epoch, routines, plan, pin, acked, written, others>>
    BY <1>2 DEF ReadBefore, ProgressInv
  <2>2. \/ /\ phase' = "done" /\ before' \in {before, routines}
           /\ receipt'.state # "observed"
        \/ /\ phase' = "write" /\ before' = routines /\ receipt' = receipt
           /\ plan.action # "create" => routines[plan.id] = plan.expect
    <3>1. CASE /\ SameGeneration /\ plan.action = "create"
               /\ IF Cardinality(Present(routines)) >= Window
                  THEN Fail("capability_unavailable")
                  ELSE phase' = "write" /\ UNCHANGED receipt
      BY <1>2, <3>1 DEF ReadBefore, Fail, Report
    <3>2. CASE /\ SameGeneration /\ plan.action # "create"
               /\ routines[plan.id] = plan.expect
               /\ IF Desired(plan.expect) = plan.expect
                  THEN Report("unchanged", plan.id)
                  ELSE phase' = "write" /\ UNCHANGED receipt
      BY <1>2, <3>2 DEF ReadBefore, Report
    <3>3. CASE \E code \in {"gateway_conflict", "failed",
                            "target_not_found"} : Fail(code)
      BY <1>2, <3>3 DEF ReadBefore, Fail, Report
    <3> QED
      BY <1>2, <3>1, <3>2, <3>3 DEF ReadBefore
  <2>3. RoutinesTyped'
    BY <2>1, <2>2 DEF RoutinesTyped
  <2>4. UnwrittenInv'
    <3>1. CASE phase' = "write"
      <4>1. routines' = before' /\ plan.id \in Routine
        BY <2>1, <2>2, <3>1 DEF RoutinesTyped
      <4> QED
        BY <4>1 DEF UnwrittenInv, DifferByOne
    <3> QED
      BY <3>1 DEF UnwrittenInv
  <2> QED
    BY <2>1, <2>2, <2>3, <2>4 DEF ProgressInv, CreateInv, ToggleInv,
                                  ReceiptIsTrue, Untold
<1>3. CASE HearWrite
  <2>1. /\ phase = "write" /\ acked # "none"
        /\ UNCHANGED <<epoch, routines, plan, pin, before, acked, written,
                       others>>
        /\ \/ acked = "ok" /\ phase' = "after" /\ receipt' = receipt
           \/ /\ acked # "ok" /\ phase' = "done"
              /\ receipt'.state = IF acked = "lost" THEN "unknown"
                                                    ELSE acked
    BY <1>3 DEF HearWrite, Acknowledged, Fail, Report
  <2>2. acked \in {"ok", "lost", "failed", "gateway_conflict",
                   "gateway_internal"}
    BY <2>1 DEF RoutinesTyped
  <2>3. RoutinesTyped'
    BY <2>1 DEF RoutinesTyped
  <2>4. ProgressInv'
    BY <2>1 DEF ProgressInv
  <2>5. UnwrittenInv' /\ CreateInv' /\ ToggleInv'
    BY <2>1 DEF UnwrittenInv, CreateInv, ToggleInv
  <2>6. ReceiptIsTrue'
    BY <2>1, <2>2 DEF ProgressInv, ReceiptIsTrue, Untold
  <2> QED
    BY <2>3, <2>4, <2>5, <2>6
<1> QED
  BY <1>1, <1>2, <1>3

\* The write, carried out or not.
LEMMA WriteKeepsRoutines ==
  ASSUME RoutinesInv, Write
  PROVE  RoutinesInv'
<1>1. /\ phase = "write" /\ acked = "none" /\ written = {}
      /\ UNCHANGED <<epoch, plan, phase, pin, before, others, receipt>>
      /\ receipt = Untold
  BY DEF Write, RoutinesInv, ProgressInv
<1>2. CASE /\ acked' \in {"lost", "gateway_internal", "failed",
                          "gateway_conflict"}
           /\ UNCHANGED <<routines, written>>
  BY <1>1, <1>2 DEF RoutinesInv, RoutinesTyped, ProgressInv, UnwrittenInv,
                    CreateInv, ToggleInv, ReceiptIsTrue, Untold
<1>3. ASSUME NEW id \in Routine,
             acked' \in {"ok", "lost", "gateway_internal"},
             IF plan.action = "create" THEN id \notin Present(routines)
             ELSE id = plan.id /\ id \in Present(routines),
             PerformsWrite(id)
      PROVE  RoutinesInv'
  <2> DEFINE w == [id |-> id, met |-> routines[id]]
             value == Desired(routines[id])
  <2>1. /\ routines' = [routines EXCEPT ![id] = value] /\ written' = {w}
        /\ routines[id] \in {NoRoutine} \cup Revision
        /\ routines \in Snapshot /\ before \in Snapshot
        /\ plan.action \in Action /\ plan.id \in Routine
    BY <1>1, <1>3 DEF PerformsWrite, RoutinesInv, RoutinesTyped, Snapshot
  <2>2. /\ plan.action = "create" => routines[id] = NoRoutine /\ value = New
        /\ plan.action # "create" => /\ id = plan.id
                                     /\ routines[id] \in Revision
    BY <1>3, <2>1 DEF Present, Desired, New
  <2>3. /\ value \in {NoRoutine} \cup Revision
        /\ plan.action \in {"enable", "disable"} =>
             value.text = routines[id].text
    BY <2>1, <2>2 DEF Desired, Revision, New, NoRoutine, Action
  <2>4. RoutinesTyped'
    BY <1>1, <1>3, <2>1, <2>3 DEF RoutinesInv, RoutinesTyped, Snapshot
  <2>5. ProgressInv'
    BY <1>1, <1>3, <2>1 DEF RoutinesInv, ProgressInv
  <2>6. /\ others = 0 => routines = before
        /\ others = 1 => DifferByOne(routines, before)
    BY <1>1 DEF RoutinesInv, UnwrittenInv
  <2>7. CreateInv'
    <3> SUFFICES ASSUME plan.action = "create"
                 PROVE  /\ others = 0 =>
                             /\ before[id] = NoRoutine
                             /\ routines' = [before EXCEPT ![id] = New]
                        /\ others = 1 =>
                             \/ /\ before[id] = NoRoutine
                                /\ DifferByOne(routines',
                                               [before EXCEPT ![id] = New])
                             \/ /\ before[id] # NoRoutine
                                /\ \A q \in Routine : q # id =>
                                     routines'[q] = before[q]
      <4>1. \A u \in written' : u.id = id
        BY <2>1
      <4>2. /\ before' = before /\ others' = others /\ plan' = plan
        BY <1>1
      <4> QED
        BY <4>1, <4>2 DEF CreateInv
    <3>1. ASSUME others = 0
          PROVE  /\ before[id] = NoRoutine
                 /\ routines' = [before EXCEPT ![id] = New]
      <4>1. routines = before
        BY <2>6, <3>1
      <4>2. value = New /\ routines[id] = NoRoutine
        BY <2>2
      <4> HIDE DEF value
      <4> QED
        BY <2>1, <4>1, <4>2
    <3>2. ASSUME others = 1
          PROVE  \/ /\ before[id] = NoRoutine
                    /\ DifferByOne(routines', [before EXCEPT ![id] = New])
                 \/ /\ before[id] # NoRoutine
                    /\ \A q \in Routine : q # id => routines'[q] = before[q]
      <4>1. PICK p \in Routine :
              \A q \in Routine : q # p => routines[q] = before[q]
        BY <2>6, <3>2 DEF DifferByOne
      <4>2. /\ routines'[id] = New
            /\ \A q \in Routine : q # id => routines'[q] = routines[q]
        BY <2>1, <2>2 DEF Snapshot
      <4>3. CASE before[id] = NoRoutine
        <5>1. \A q \in Routine : q # p =>
                routines'[q] = [before EXCEPT ![id] = New][q]
          BY <2>1, <4>1, <4>2 DEF Snapshot
        <5> QED
          BY <4>3, <5>1 DEF DifferByOne
      <4>4. CASE before[id] # NoRoutine
        BY <2>2, <4>1, <4>2, <4>4
      <4> QED
        BY <4>3, <4>4
    <3> QED
      BY <3>1, <3>2
  <2>8. ToggleInv'
    <3> SUFFICES ASSUME plan.action \in {"enable", "disable"}
                 PROVE  /\ id = plan.id
                        /\ others = 0 => routines[id].text = plan.expect.text
                        /\ others = 1 =>
                             \/ routines[id].text = plan.expect.text
                             \/ routines'[plan.id].text # plan.expect.text
      BY <1>1, <2>1 DEF ToggleInv
    <3>1. id = plan.id /\ routines'[id].text = routines[id].text
      BY <2>1, <2>2, <2>3 DEF Snapshot
    <3>2. before[plan.id] = plan.expect
      BY <1>1 DEF RoutinesInv, ProgressInv
    <3> QED
      BY <2>6, <3>1, <3>2
  <2>9. UnwrittenInv' /\ ReceiptIsTrue'
    BY <1>1, <2>1 DEF UnwrittenInv, ReceiptIsTrue, Untold
  <2> QED
    BY <2>4, <2>5, <2>7, <2>8, <2>9 DEF RoutinesInv
<1> QED
  BY <1>2, <1>3 DEF Write

\* A snapshot that differs from another nowhere, and then by one write more.
LEMMA OneMore ==
  ASSUME NEW s, NEW t, NEW u, NEW r \in Routine, NEW v,
         s \in [Routine -> t], u = [s EXCEPT ![r] = v]
  PROVE  DifferByOne(u, s)
BY DEF DifferByOne

\* Another writer.
LEMMA OtherKeepsRoutines ==
  ASSUME RoutinesInv, OtherWrite
  PROVE  RoutinesInv'
<1>1. PICK r \in Routine, v \in {NoRoutine} \cup Revision :
        v # routines[r] /\ routines' = [routines EXCEPT ![r] = v]
  BY DEF OtherWrite
<1>2. /\ phase # "done" /\ others' = others + 1 /\ others \in Nat
      /\ others' # 0 /\ (others' = 1 => others = 0)
      /\ routines \in Snapshot /\ before \in Snapshot
      /\ UNCHANGED <<epoch, planVars, written>>
  BY DEF OtherWrite, RoutinesInv, RoutinesTyped
<1>3. DifferByOne(routines', routines)
  BY <1>1, <1>2, OneMore DEF Snapshot
<1>4. RoutinesTyped'
  BY <1>1, <1>2 DEF RoutinesInv, RoutinesTyped, Snapshot, planVars
<1>5. ProgressInv'
  BY <1>2 DEF RoutinesInv, ProgressInv, planVars
<1>6. UnwrittenInv'
  BY <1>2, <1>3 DEF RoutinesInv, UnwrittenInv, planVars
<1>7. CreateInv'
  BY <1>2, <1>3 DEF RoutinesInv, CreateInv, planVars
<1>8. ToggleInv'
  BY <1>2 DEF RoutinesInv, ToggleInv, planVars
<1>9. ReceiptIsTrue'
  BY <1>2 DEF RoutinesInv, ProgressInv, ReceiptIsTrue, Untold, planVars
<1> QED
  BY <1>4, <1>5, <1>6, <1>7, <1>8, <1>9 DEF RoutinesInv

\* If no two writes of others can have made it look so, the routine that is
\* seen is the one the write changed.
LEMMA SeenIsWritten ==
  ASSUME RoutinesInv, phase = "after", plan.action = "create", others < 2,
         NEW r \in Observed(routines), ~Unseen(routines), NEW w \in written
  PROVE  w.id = r
<1>1. /\ others \in Nat /\ w.id \in Routine
      /\ routines \in Snapshot /\ before \in Snapshot
  BY DEF RoutinesInv, RoutinesTyped
<1>2. /\ r \in Routine /\ before[r] = NoRoutine /\ routines[r] = New
      /\ New # NoRoutine
  BY <1>1 DEF Observed, Present, Desired, New, NoRoutine
<1>3. ASSUME before[w.id] = NoRoutine, routines[w.id] = New PROVE w.id = r
  <2>1. w.id \in Observed(routines)
    BY <1>1, <1>2, <1>3 DEF Observed, Present, Desired, New
  <2>2. Cardinality(Observed(routines)) = 1 /\ IsFiniteSet(Observed(routines))
    <3>1. Observed(routines) \subseteq Routine
      BY DEF Observed, Present
    <3> QED
      BY <3>1, FS_Subset, RoutinesAssumption DEF Unseen, RoutinesAssumption
  <2>3. PICK q : Observed(routines) = {q}
    BY <2>2, FS_Singleton
  <2> QED
    BY <2>1, <2>3
<1>4. CASE others = 0
  BY <1>1, <1>2, <1>3, <1>4 DEF RoutinesInv, CreateInv, Snapshot
<1>5. CASE others = 1
  <2>1. CASE /\ before[w.id] = NoRoutine
             /\ DifferByOne(routines, [before EXCEPT ![w.id] = New])
    <3>1. PICK p \in Routine : \A q \in Routine : q # p =>
            routines[q] = [before EXCEPT ![w.id] = New][q]
      BY <2>1 DEF DifferByOne
    <3>2. CASE p = w.id /\ w.id # r
      BY <1>1, <1>2, <3>1, <3>2 DEF Snapshot
    <3>3. CASE p # w.id
      <4>1. routines[w.id] = New
        BY <1>1, <3>1, <3>3 DEF Snapshot
      <4> QED
        BY <1>3, <2>1, <4>1
    <3> QED
      BY <3>2, <3>3
  <2>2. CASE /\ before[w.id] # NoRoutine
             /\ \A q \in Routine : q # w.id => routines[q] = before[q]
    BY <1>2, <2>2
  <2> QED
    BY <1>5, <2>1, <2>2 DEF RoutinesInv, CreateInv
<1> QED
  BY <1>1, <1>4, <1>5

\* The second read.
LEMMA LastReadKeepsRoutines ==
  ASSUME RoutinesInv, ReadAfter
  PROVE  RoutinesInv'
<1>1. /\ phase = "after" /\ phase' = "done" /\ written # {}
      /\ UNCHANGED <<epoch, routines, plan, pin, before, acked, written,
                     others>>
  BY DEF ReadAfter, RoutinesInv, ProgressInv, Fail, Report
<1>2. \/ receipt'.state \in {"gateway_conflict", "target_not_found",
                             "unknown", "failed"}
      \/ /\ ~Unseen(routines) /\ SameGeneration
         /\ \E r \in Observed(routines) :
              receipt' = [state |-> "observed", id |-> r]
  BY DEF ReadAfter, Fail, Report
<1>3. ASSUME ~Unseen(routines), SameGeneration,
             NEW r \in Observed(routines),
             receipt' = [state |-> "observed", id |-> r]
      PROVE  ReceiptIsTrue'
  <2>1. PICK w : w \in written
    BY <1>1
  <2>2. ASSUME others < 2, plan.action \in {"create", "enable", "disable"}
        PROVE  /\ w.id = r
               /\ plan.action # "create" => w.met.text = plan.expect.text
    <3>1. CASE plan.action = "create"
      BY <1>1, <1>3, <2>1, <2>2, <3>1, SeenIsWritten
    <3>2. CASE plan.action \in {"enable", "disable"}
      <4>1. /\ r = plan.id /\ w.id = plan.id
            /\ routines[r] = Desired(before[r])
            /\ before[plan.id] = plan.expect /\ plan.expect \in Revision
            /\ others = 0 \/ others = 1
        BY <1>1, <1>3, <2>1, <2>2, <3>2
        DEF Observed, RoutinesInv, RoutinesTyped, ToggleInv, ProgressInv
      <4>2. routines[plan.id].text = plan.expect.text
        BY <3>2, <4>1 DEF Desired, Revision
      <4> QED
        BY <1>1, <2>1, <3>2, <4>1, <4>2 DEF RoutinesInv, ToggleInv
    <3> QED
      BY <2>2, <3>1, <3>2
  <2> QED
    BY <1>1, <1>3, <2>1, <2>2 DEF ReceiptIsTrue, SameGeneration,
                                  RoutinesInv, ProgressInv
<1>4. ReceiptIsTrue'
  BY <1>1, <1>2, <1>3 DEF ReceiptIsTrue, RoutinesInv, ProgressInv
<1> QED
  BY <1>1, <1>4 DEF RoutinesInv, RoutinesTyped, ProgressInv, UnwrittenInv,
                    CreateInv, ToggleInv

\* Every step of the routines keeps their invariant.
LEMMA RoutinesKeep == RoutinesInv /\ [RoutinesNext]_routinesVars => RoutinesInv'
<1> SUFFICES ASSUME RoutinesInv, [RoutinesNext]_routinesVars
             PROVE  RoutinesInv'
  OBVIOUS
<1>1. CASE RoutineGatewayRestarts
  BY <1>1 DEF RoutineGatewayRestarts, planVars, RoutinesInv, RoutinesTyped,
              ProgressInv, UnwrittenInv, CreateInv, ToggleInv, ReceiptIsTrue,
              Untold
<1>2. CASE UNCHANGED routinesVars
  BY <1>2 DEF routinesVars, planVars, RoutinesInv, RoutinesTyped, ProgressInv,
              UnwrittenInv, CreateInv, ToggleInv, ReceiptIsTrue,
              SameGeneration
<1> QED
  BY <1>1, <1>2, ReadsKeepRoutines, WriteKeepsRoutines, OtherKeepsRoutines,
     LastReadKeepsRoutines DEF RoutinesNext

\* For any number of routines and of writes of others: a routine's mutation
\* (src/src/commands/routines.ts) tells "observed" only of a write that the
\* Gateway carried out, on the routine it names and, to enable or disable
\* one, on the definition the user had reviewed, unless two writes of others
\* made it look so; it has then seen one generation of the Gateway only,
\* where generations are told. It tells "unchanged" only if it wrote nothing,
\* and "unknown" whenever the answer to its write was lost.
THEOREM ReceiptsAreTrue == RoutinesSpec => []ReceiptIsTrue
<1>1. RoutinesInit => RoutinesInv
  BY DEF RoutinesInit, RoutinesInv, RoutinesTyped, Snapshot, ProgressInv,
         UnwrittenInv, CreateInv, ToggleInv, ReceiptIsTrue, Untold
<1>2. RoutinesInv => ReceiptIsTrue
  BY DEF RoutinesInv
<1> QED
  BY <1>1, <1>2, RoutinesKeep, PTL DEF RoutinesSpec
(***************************************************************************)
(* Gateway.                                                                *)
(***************************************************************************)

\* Only a write is performed, at most once.
OnceInv ==
  /\ profile \in Profile /\ (profile.expects \in Site => profile.write)
  /\ site \in Site \cup {"none"}
  /\ performed = <<>> \/ performed = <<performed[1]>>
  /\ ~profile.write => performed = <<>>

\* Before the last attempt of a write nothing has been carried out, and no
\* request without answer is left behind: a write is only tried again when the
\* Gateway has refused its token.
AttemptInv ==
  profile.write =>
    /\ adrift => /\ performed = <<>>
                 /\ route = "over" \/ (route = "sent" /\ response = "lost")
    /\ route \notin {"sent", "over"} => performed = <<>>
    /\ route = "sent" /\ response \in {"none", "failed", "unauthorized"} =>
         performed = <<>>
    /\ route = "sent" /\ response = "ok" => performed # <<>>

\* What tells the first generation of a Gateway tells its token, if any.
ToldInv ==
  /\ gateway \in [Site -> [gen : Nat \ {0}, token : Nat]]
  /\ discovery \in [Site -> [there : BOOLEAN, gen : Nat, token : Nat]]
  /\ \A s \in Site :
       /\ gateway[s].gen = 1 => gateway[s].token = 1
       /\ discovery[s].gen = 1 => discovery[s].token \in {Empty, 1}

\* A request that can still be performed is at the Gateway it expects, with
\* the token of the generation it expects, and so was the one that was.
TokenInv ==
  profile.expects \in Site =>
    /\ route = "sent" \/ adrift => token = 1 /\ site = profile.expects
    /\ performed # <<>> => performed[1].token = 1 /\ site = profile.expects

\* A verdict before the end is that of a daemon's lost answer.
VerdictInv ==
  /\ profile.write /\ route # "over" => verdict \in {"none", "unknown"}
  /\ route = "sent" =>
       response \in {"none", "ok", "failed", "internal", "unauthorized",
                     "lost"}

GatewayInv ==
  /\ OnceInv /\ AttemptInv /\ ToldInv /\ TokenInv /\ VerdictInv
  /\ WriteVerdict

\* Steps on the way to an attempt: nothing is sent or carried out.
LEMMA RoutingKeepsGateway ==
  ASSUME GatewayInv,
         ChooseRoute \/ RequireCapability \/ TryLocalDaemon \/ TryDiscovery
  PROVE  GatewayInv'
<1>1. \/ \E s \in Site \cup {"none"}, on \in BOOLEAN,
           next \in {"load", "handshake", "trial", "discover"} :
           Select(s, next, on)
      \/ /\ Finish("failed")
         /\ UNCHANGED <<reachVars, site, through, tryVars, performed>>
  <2>1. CASE ChooseRoute
    <3>1. profile.transport \in {"local", "gateway", "daemon", "auto"}
      BY DEF GatewayInv, OnceInv, Profile
    <3> QED
      BY <2>1, <3>1 DEF ChooseRoute, Site
  <2>2. CASE TryLocalDaemon
    BY <2>2 DEF TryLocalDaemon, Site
  <2>3. CASE TryDiscovery
    BY <2>3 DEF TryDiscovery, Site
  <2>4. CASE RequireCapability
    BY <2>4 DEF RequireCapability, Select, Finish, GatewayInv, OnceInv
  <2> QED
    BY <2>1, <2>2, <2>3, <2>4
<1>2. /\ route \notin {"sent", "over"} /\ site' \in Site \cup {"none"}
      /\ UNCHANGED <<profile, gateway, discovery, token, response, adrift,
                     rejected, performed>>
  BY <1>1 DEF ChooseRoute, RequireCapability, TryLocalDaemon, TryDiscovery,
              Select, reachVars, tryVars, GatewayInv, OnceInv
<1>3. \/ /\ route' \in {"load", "handshake", "trial", "discover"}
         /\ verdict' = verdict
      \/ /\ route' = "over"
         /\ verdict' = IF verdict = "none" THEN "failed" ELSE verdict
  BY <1>1 DEF Select, Finish
<1> QED
  BY <1>2, <1>3 DEF GatewayInv, OnceInv, AttemptInv, ToldInv, TokenInv,
                    VerdictInv, WriteVerdict

\* The discovery is read: an attempt with its token, or the end.
LEMMA LoadKeepsGateway ==
  ASSUME GatewayInv, Load
  PROVE  GatewayInv'
<1>1. /\ route = "load" /\ site' = Loaded /\ Loaded \in Site
      /\ UNCHANGED <<profile, gateway, discovery, rejected, adrift,
                     performed>>
  BY DEF Load, Loaded, reachVars, GatewayInv, OnceInv, Site
<1>2. \/ /\ route' = "over" /\ UNCHANGED <<token, response>>
         /\ \E end \in {"failed", "conflict", "unauthorized"} :
              verdict' = IF verdict = "none" THEN end ELSE verdict
      \/ /\ route' = "sent" /\ response' = "none" /\ verdict' = verdict
         /\ token' = discovery[Loaded].token
         /\ token' \notin {rejected, Empty} /\ Matches(Loaded)
  BY DEF Load, Finish, Refuse, WrongGeneration
<1>3. profile.expects \in Site /\ route' = "sent" =>
        token' = 1 /\ site' = profile.expects
  <2> SUFFICES ASSUME profile.expects \in Site, route' = "sent"
               PROVE  token' = 1 /\ site' = profile.expects
    OBVIOUS
  <2>1. profile.expects = Loaded /\ discovery[Loaded].gen = 1
    BY <1>2 DEF Matches, Site
  <2> QED
    BY <1>1, <1>2, <2>1 DEF GatewayInv, ToldInv
<1> QED
  BY <1>1, <1>2, <1>3 DEF GatewayInv, OnceInv, AttemptInv, ToldInv, TokenInv,
                          VerdictInv, WriteVerdict

\* What a Gateway that is given the request may do, and what it carries out.
LEMMA ServeFacts ==
  ASSUME NEW r \in Serve(site), Performs(r[2]), performed = <<>>,
         profile.write \in BOOLEAN
  PROVE  /\ r[1] \in {"ok", "failed", "internal", "unauthorized"}
         /\ \/ performed' = <<>>
            \/ performed' = <<gateway[site]>> /\ gateway[site].token = token
         /\ ~profile.write => performed' = <<>>
         /\ r[1] \in {"failed", "unauthorized"} => performed' = <<>>
         /\ r[1] = "ok" /\ profile.write => performed' # <<>>
<1>1. performed' = IF r[2] THEN <<gateway[site]>> ELSE <<>>
  BY DEF Performs
<1>2. \/ r[2] = FALSE /\ r[1] \in {"failed", "internal", "unauthorized"}
      \/ /\ token = gateway[site].token /\ r[2] = profile.write
         /\ r[1] \in {"ok", "internal"}
  <2>1. CASE token # gateway[site].token
    <3>1. r = <<"unauthorized", FALSE>>
      BY <2>1 DEF Serve
    <3> QED
      BY <3>1
  <2>2. CASE token = gateway[site].token
    <3>1. \/ r = <<"failed", FALSE>> \/ r = <<"internal", FALSE>>
          \/ r = <<"ok", profile.write>> \/ r = <<"internal", profile.write>>
      BY <2>2 DEF Serve
    <3>2. CASE r = <<"failed", FALSE>>
      BY <3>2
    <3>3. CASE r = <<"internal", FALSE>>
      BY <3>3
    <3>4. CASE \/ r = <<"ok", profile.write>>
               \/ r = <<"internal", profile.write>>
      BY <2>2, <3>4
    <3> QED
      BY <3>1, <3>2, <3>3, <3>4
  <2> QED
    BY <2>1, <2>2
<1>3. CASE r[2] = FALSE /\ r[1] \in {"failed", "internal", "unauthorized"}
  BY <1>1, <1>3
<1>4. CASE /\ token = gateway[site].token /\ r[2] = profile.write
           /\ r[1] \in {"ok", "internal"}
  <2>1. CASE profile.write = TRUE
    BY <1>1, <1>4, <2>1
  <2>2. CASE profile.write = FALSE
    BY <1>1, <1>4, <2>2
  <2> QED
    BY <2>1, <2>2
<1> QED
  BY <1>2, <1>3, <1>4

\* The request arrives, in time, without an answer, or late.
LEMMA ArrivalKeepsGateway ==
  ASSUME GatewayInv, GatewayAnswers \/ RequestLost \/ LateArrival
  PROVE  GatewayInv'
<1>1. CASE GatewayAnswers
  <2>1. PICK r \in Serve(site) : response' \in {r[1], "lost"} /\ Performs(r[2])
    BY <1>1 DEF GatewayAnswers
  <2>2. /\ route = "sent" /\ response = "none" /\ performed = <<>>
        /\ UNCHANGED <<profile, gateway, discovery, route, site, token,
                       rejected, adrift, verdict>>
        /\ profile.write => ~adrift
    BY <1>1 DEF GatewayAnswers, reachVars, GatewayInv, OnceInv, AttemptInv
  <2>3. profile.write \in BOOLEAN
    BY DEF GatewayInv, OnceInv, Profile
  <2>4. /\ \/ performed' = <<>>
           \/ performed' = <<gateway[site]>> /\ gateway[site].token = token
        /\ ~profile.write => performed' = <<>>
        /\ response' \in {"failed", "unauthorized"} => performed' = <<>>
        /\ response' = "ok" /\ profile.write => performed' # <<>>
        /\ response' \in {"ok", "failed", "internal", "unauthorized", "lost"}
    BY <2>1, <2>2, <2>3, ServeFacts
  <2>5. /\ Len(performed') <= 1
        /\ performed' = <<>> \/ performed' = <<performed'[1]>>
        /\ performed' # <<>> => performed'[1].token = token
    <3>1. CASE performed' = <<>>
      BY <3>1
    <3>2. CASE performed' = <<gateway[site]>> /\ gateway[site].token = token
      BY <3>2
    <3> QED
      BY <2>4, <3>1, <3>2
  <2> QED
    BY <2>2, <2>4, <2>5
    DEF GatewayInv, OnceInv, AttemptInv, ToldInv, TokenInv, VerdictInv,
        WriteVerdict
<1>2. CASE RequestLost
  BY <1>2 DEF RequestLost, reachVars, GatewayInv, OnceInv, AttemptInv,
              ToldInv, TokenInv, VerdictInv, WriteVerdict
<1>3. CASE LateArrival
  <2>1. PICK r \in Serve(site) : Performs(r[2])
    BY <1>3 DEF LateArrival
  <2>2. /\ adrift /\ ~adrift' /\ performed = <<>>
        /\ UNCHANGED <<profile, gateway, discovery, route, site, token,
                       rejected, response, verdict>>
        /\ profile.write => \/ route = "over"
                            \/ route = "sent" /\ response = "lost"
        /\ profile.write => verdict \notin {"ok", "failed", "conflict",
                                            "unauthorized", "unreachable"}
    BY <1>3 DEF LateArrival, reachVars, GatewayInv, OnceInv, AttemptInv,
                WriteVerdict
  <2>3. profile.write \in BOOLEAN
    BY DEF GatewayInv, OnceInv, Profile
  <2>4. /\ \/ performed' = <<>>
           \/ performed' = <<gateway[site]>> /\ gateway[site].token = token
        /\ ~profile.write => performed' = <<>>
    BY <2>1, <2>2, <2>3, ServeFacts
  <2>5. /\ Len(performed') <= 1
        /\ performed' = <<>> \/ performed' = <<performed'[1]>>
        /\ performed' # <<>> => performed'[1].token = token
    <3>1. CASE performed' = <<>>
      BY <3>1
    <3>2. CASE performed' = <<gateway[site]>> /\ gateway[site].token = token
      BY <3>2
    <3> QED
      BY <2>4, <3>1, <3>2
  <2> QED
    BY <2>2, <2>4, <2>5
    DEF GatewayInv, OnceInv, AttemptInv, ToldInv, TokenInv, VerdictInv,
        WriteVerdict
<1> QED
  BY <1>1, <1>2, <1>3

\* The command reads the answer, tries once more or tells.
LEMMA InterpretKeepsGateway ==
  ASSUME GatewayInv, Interpret \/ DaemonAnswerLost
  PROVE  GatewayInv'
<1>1. CASE Interpret
  <2>1. /\ route = "sent"
        /\ UNCHANGED <<profile, gateway, discovery, site, token, response,
                       adrift, performed>>
    BY <1>1 DEF Interpret, reachVars
  <2>2. \/ /\ route' = "load" /\ verdict' = verdict
           /\ response = "unauthorized" \/ ~profile.write
        \/ /\ route' = "over" /\ response \notin {"none", "lost"}
           /\ verdict' = IF verdict = "none" THEN response ELSE verdict
        \/ /\ route' = "over" /\ profile.write
           /\ verdict' = IF verdict = "none" THEN "unknown" ELSE verdict
        \/ /\ route' = "over" /\ ~profile.write
           /\ verdict' = IF verdict = "none" THEN "unreachable" ELSE verdict
    BY <1>1 DEF Interpret, Finish, LostIsUnknown
  <2> QED
    BY <2>1, <2>2 DEF GatewayInv, OnceInv, AttemptInv, ToldInv, TokenInv,
                      VerdictInv, WriteVerdict
<1>2. CASE DaemonAnswerLost
  BY <1>2 DEF DaemonAnswerLost, reachVars, tryVars, GatewayInv, OnceInv,
              AttemptInv, ToldInv, TokenInv, VerdictInv, WriteVerdict
<1> QED
  BY <1>1, <1>2

\* The world moves: what tells generation 1 goes on telling its token.
LEMMA WorldKeepsGateway ==
  ASSUME GatewayInv, NEW s \in InPlay, GatewayRestarts(s) \/ DiscoveryChanges(s)
  PROVE  GatewayInv'
<1>1. s \in Site
  BY DEF InPlay, GatewayInv, OnceInv, Site
<1>2. UNCHANGED <<profile, route, site, through, tryVars, performed, verdict>>
  BY DEF GatewayRestarts, DiscoveryChanges
<1>3. CASE GatewayRestarts(s)
  <2>1. PICK held \in 1 .. gateway[s].gen + 1 :
          gateway' = [gateway EXCEPT ![s] = [gen |-> gateway[s].gen + 1,
                                             token |-> held]]
    BY <1>3 DEF GatewayRestarts
  <2>2. /\ gateway[s].gen \in Nat \ {0} /\ held \in Nat
        /\ gateway[s].gen + 1 \in Nat \ {0} /\ gateway[s].gen + 1 # 1
        /\ discovery' = discovery
    BY <1>1, <1>3, <2>1 DEF GatewayRestarts, GatewayInv, ToldInv
  <2>3. ToldInv'
    BY <1>1, <2>1, <2>2 DEF GatewayInv, ToldInv
  <2> QED
    BY <1>2, <2>3 DEF tryVars, GatewayInv, OnceInv, AttemptInv, TokenInv,
                      VerdictInv, WriteVerdict
<1>4. CASE DiscoveryChanges(s)
  <2>1. PICK look \in {Nowhere, Told(s), [Told(s) EXCEPT !.token = Empty]} :
          discovery' = [discovery EXCEPT ![s] = look]
    BY <1>4 DEF DiscoveryChanges
  <2>2. /\ Told(s) \in [there : BOOLEAN, gen : Nat, token : Nat]
        /\ Told(s).gen = 1 => Told(s).token = 1
        /\ gateway' = gateway
    BY <1>1, <1>4 DEF DiscoveryChanges, Told, GatewayInv, ToldInv
  <2>3. /\ look \in [there : BOOLEAN, gen : Nat, token : Nat]
        /\ look.gen = 1 => look.token \in {Empty, 1}
    <3>1. CASE look = Nowhere
      BY <3>1 DEF Nowhere, Empty
    <3>2. CASE look = Told(s)
      BY <2>2, <3>2
    <3>3. CASE look = [Told(s) EXCEPT !.token = Empty]
      BY <2>2, <3>3 DEF Empty
    <3> QED
      BY <2>1, <3>1, <3>2, <3>3
  <2>4. ToldInv'
    BY <1>1, <2>1, <2>2, <2>3 DEF GatewayInv, ToldInv
  <2> QED
    BY <1>2, <2>4 DEF tryVars, GatewayInv, OnceInv, AttemptInv, TokenInv,
                      VerdictInv, WriteVerdict
<1> QED
  BY <1>3, <1>4

\* Every step of the gateway client keeps its invariant.
LEMMA GatewayKeeps == GatewayInv /\ [GatewayNext]_gatewayVars => GatewayInv'
<1> SUFFICES ASSUME GatewayInv, [GatewayNext]_gatewayVars
             PROVE  GatewayInv'
  OBVIOUS
<1>1. CASE UNCHANGED gatewayVars
  BY <1>1 DEF gatewayVars, reachVars, tryVars, GatewayInv, OnceInv,
              AttemptInv, ToldInv, TokenInv, VerdictInv, WriteVerdict
<1> QED
  BY <1>1, RoutingKeepsGateway, LoadKeepsGateway, ArrivalKeepsGateway,
     InterpretKeepsGateway, WorldKeepsGateway DEF GatewayNext

\* It holds at first.
LEMMA GatewayBegins == GatewayInit => GatewayInv
<1> SUFFICES ASSUME GatewayInit PROVE GatewayInv
  OBVIOUS
<1>1. ToldInv
  BY DEF GatewayInit, ToldInv, Told, Nowhere, Empty
<1> QED
  BY <1>1 DEF GatewayInit, Sound, Site, GatewayInv, OnceInv, AttemptInv,
              TokenInv, VerdictInv, WriteVerdict

\* However often the Gateways restart, with their token, an earlier or a new
\* one, however their discoveries change, whatever the route and whichever
\* answers are lost: GatewayClient (src/src/gateway.ts) has a write carried
\* out at most once; one that expects a generation, only by the Gateway it
\* knows and with the token of that generation; no refused token is sent
\* again, and the verdict tells the truth about the write.
THEOREM VerdictsOnWrites == GatewaySpec => []WriteVerdict
<1>1. GatewayInv => WriteVerdict
  BY DEF GatewayInv
<1> QED
  BY <1>1, GatewayBegins, GatewayKeeps, PTL DEF GatewaySpec
(***************************************************************************)
(* Bootstrap.                                                              *)
(***************************************************************************)

\* A bootstrap whose Profile is not yet written, and the recover commands.
Bootstrapping == {"secret", "transfer", "install", "serve", "verify", "unmap",
                  "rollback", "revoke", "revoke-failed", "profile"}
Recovering == {"remap", "restart", "doctor"}
Config == [token : Nat, policy : SUBSET {"process", "home"}]
Mapping == {"free", "ours", "other"}

BootstrapTyped ==
  /\ made \in 0..Bootstraps /\ profileToken \in 0..made
  /\ secretFile \in [1..Bootstraps -> {"absent", "live", "revoked"}]
  /\ boxConfig \in Config /\ savedConfig \in Config
  /\ daemonToken \in Nat /\ mapping \in Mapping
  /\ wanted \in BOOLEAN /\ steady \in BOOLEAN /\ mappingBack \in BOOLEAN
  /\ prior \in [config : Config, daemon : Nat, mapping : Mapping,
                profile : 0..Bootstraps]
  /\ stage \in {"idle", "retire"} \cup Bootstrapping \cup Recovering
  /\ stage # "idle" => result = "none"

\* Only the newest credential is ever revoked by a rollback, and the Profile
\* names an older one until it names this one; only then is the older one
\* retired.
CredentialInv ==
  /\ profileToken # 0 => secretFile[profileToken] = "live"
  /\ stage \in Bootstrapping => profileToken = prior.profile
                                /\ profileToken < made
  /\ stage = "retire" => profileToken = made /\ prior.profile < made
  /\ stage \in {"transfer", "install", "serve", "verify", "profile"} =>
       secretFile[made] = "live"

\* What the rollback needs to find, and what it has restored so far.
RollbackInv ==
  /\ stage \in Bootstrapping => prior.mapping \in {"free", "ours"}
  /\ stage \in {"secret", "transfer", "install", "revoke"} =>
       boxConfig = prior.config
  /\ stage \in {"install", "serve", "verify", "unmap", "rollback"} =>
       savedConfig = prior.config
  /\ stage \in {"secret", "transfer", "install"} /\ steady =>
       daemonToken = prior.daemon
  /\ stage \in {"secret", "transfer", "install", "serve"} /\ steady =>
       mapping = prior.mapping
  /\ stage \in {"transfer", "install"} => mappingBack
  /\ stage \in {"rollback", "revoke"} /\ mappingBack /\ steady =>
       mapping = prior.mapping
  /\ stage = "revoke" /\ steady /\ prior.daemon = prior.config.token =>
       daemonToken = prior.daemon

\* What is installed before the command may tell so.
InstalledInv ==
  /\ stage \in {"serve", "verify", "profile", "retire"} =>
       /\ boxConfig.token = made
       /\ prior.config.policy \subseteq boxConfig.policy
       /\ wanted => "home" \in boxConfig.policy
  /\ stage \in {"profile", "retire"} /\ steady => Reaches(made)

BootstrapInv ==
  /\ BootstrapTyped /\ CredentialInv /\ RollbackInv /\ InstalledInv
  /\ StillReachable
\* The bootstrap's own steps, up to its verification.
LEMMA InstallKeepsBootstrap ==
  ASSUME BootstrapInv,
         \/ BeginBootstrap \/ WriteSecret \/ PrepareRollback \/ InstallDaemon
         \/ ApplyMapping \/ VerifyDaemon
  PROVE  BootstrapInv'
<1> USE DEF BootstrapInv, BootstrapTyped, CredentialInv, RollbackInv,
            InstalledInv, StillReachable, Bootstrapping, Recovering, Mapping,
            At, Continue, EndBootstrap, boxVars, laptopVars, Reaches, Works
<1>1. CASE BeginBootstrap
  BY <1>1, BootstrapAssumption
  DEF BeginBootstrap, Begin, Found, BootstrapAssumption
<1>2. CASE WriteSecret
  <2>1. CASE stage' = "revoke"
    BY <1>2, <2>1 DEF WriteSecret
  <2>2. CASE stage' # "revoke"
    <3>1. /\ secretFile' = [secretFile EXCEPT ![made] = "live"]
          /\ stage' = "transfer"
      BY <1>2, <2>2 DEF WriteSecret
    <3>2. /\ made \in 1..Bootstraps /\ profileToken \in 0..Bootstraps
          /\ made # profileToken
      BY <1>2 DEF WriteSecret
    <3>3. /\ secretFile' \in [1..Bootstraps -> {"absent", "live", "revoked"}]
          /\ secretFile'[made] = "live"
          /\ profileToken # 0 =>
               secretFile'[profileToken] = secretFile[profileToken]
      BY <3>1, <3>2
    <3> QED
      BY <1>2, <3>1, <3>3 DEF WriteSecret
  <2> QED
    BY <2>1, <2>2
<1>3. CASE PrepareRollback
  BY <1>3 DEF PrepareRollback
<1>4. CASE InstallDaemon
  BY <1>4 DEF InstallDaemon, Merged, Config
<1>5. CASE ApplyMapping
  BY <1>5 DEF ApplyMapping
<1>6. CASE VerifyDaemon
  BY <1>6 DEF VerifyDaemon
<1> QED
  BY <1>1, <1>2, <1>3, <1>4, <1>5, <1>6

\* The rollback and what follows a bootstrap that is verified.
LEMMA EndKeepsBootstrap ==
  ASSUME BootstrapInv,
         \/ RestoreMapping \/ RollbackDaemon \/ RevokeSecret
         \/ WriteProfile \/ RetireSecret
  PROVE  BootstrapInv'
<1> USE DEF BootstrapInv, BootstrapTyped, CredentialInv, RollbackInv,
            InstalledInv, StillReachable, Bootstrapping, Recovering, Mapping,
            At, Continue, EndBootstrap, boxVars, laptopVars, Reaches, Works
<1>1. CASE RestoreMapping
  BY <1>1 DEF RestoreMapping
<1>2. CASE RollbackDaemon
  BY <1>2 DEF RollbackDaemon, RollbackConfig, Config
<1>3. CASE RevokeSecret
  <2>1. /\ stage \in {"revoke", "revoke-failed"} /\ stage' = "idle"
        /\ made \in 1..Bootstraps /\ profileToken \in 0..Bootstraps
        /\ made # profileToken
        /\ UNCHANGED <<wanted, prior, steady, boxVars, profileToken, made,
                       mappingBack>>
    BY <1>3 DEF RevokeSecret
  <2>2. /\ secretFile' \in [1..Bootstraps -> {"absent", "live", "revoked"}]
        /\ profileToken # 0 =>
             secretFile'[profileToken] = secretFile[profileToken]
    <3>1. secretFile' \in {secretFile, [secretFile EXCEPT ![made] = "revoked"]}
      BY <1>3 DEF RevokeSecret
    <3>2. profileToken # 0 => profileToken \in 1..Bootstraps
      BY <2>1, BootstrapAssumption DEF BootstrapAssumption
    <3>3. secretFile \in [1..Bootstraps -> {"absent", "live", "revoked"}]
      OBVIOUS
    <3>4. CASE secretFile' = secretFile
      BY <3>3, <3>4
    <3>5. CASE secretFile' = [secretFile EXCEPT ![made] = "revoked"]
      BY <2>1, <3>2, <3>3, <3>5
    <3> QED
      BY <3>1, <3>4, <3>5
  <2>3. BootstrapTyped' /\ CredentialInv' /\ RollbackInv' /\ InstalledInv'
    BY <2>1, <2>2
  <2>4. /\ result' \in {"undone", "broken"}
        /\ result' = "undone" => stage = "revoke" /\ mappingBack
    BY <1>3 DEF RevokeSecret
  <2>5. StillReachable'
    BY <2>1, <2>2, <2>4
  <2> QED
    BY <2>3, <2>5
<1>4. CASE WriteProfile
  BY <1>4 DEF WriteProfile
<1>5. CASE RetireSecret
  <2>1. /\ stage = "retire" /\ stage' = "idle"
        /\ made \in 1..Bootstraps /\ profileToken = made
        /\ prior.profile \in 0..Bootstraps /\ prior.profile # made
        /\ UNCHANGED <<wanted, prior, steady, boxVars, profileToken, made,
                       mappingBack>>
    BY <1>5 DEF RetireSecret
  <2>2. /\ secretFile' \in [1..Bootstraps -> {"absent", "live", "revoked"}]
        /\ secretFile'[made] = secretFile[made]
    <3>1. \/ secretFile' = secretFile
          \/ /\ prior.profile # 0
             /\ secretFile' = [secretFile EXCEPT ![prior.profile] = "revoked"]
      BY <1>5 DEF RetireSecret
    <3>2. prior.profile # 0 => prior.profile \in 1..Bootstraps
      BY <2>1, BootstrapAssumption DEF BootstrapAssumption
    <3>3. secretFile \in [1..Bootstraps -> {"absent", "live", "revoked"}]
      OBVIOUS
    <3> QED
      BY <2>1, <3>1, <3>2, <3>3
  <2>3. BootstrapTyped' /\ CredentialInv' /\ RollbackInv' /\ InstalledInv'
    BY <2>1, <2>2
  <2>4. result' \in {"late", "bootstrapped"}
    BY <1>5 DEF RetireSecret
  <2>5. StillReachable'
    BY <2>1, <2>2, <2>4
  <2> QED
    BY <2>3, <2>5
<1> QED
  BY <1>1, <1>2, <1>3, <1>4, <1>5

\* recover and daemon ensure, a kill and a restart of the box.
LEMMA RecoverKeepsBootstrap ==
  ASSUME BootstrapInv,
         \/ BeginRecover \/ RestoreRecordedMapping \/ EnsureInstalledDaemon
         \/ FinalDoctor \/ BootstrapKilled \/ BoxRestarts
         \/ UNCHANGED bootstrapVars
  PROVE  BootstrapInv'
<1> USE DEF BootstrapInv, BootstrapTyped, CredentialInv, RollbackInv,
            InstalledInv, StillReachable, Bootstrapping, Recovering, Mapping,
            At, Continue, EndBootstrap, boxVars, laptopVars, Reaches, Works
<1>1. CASE BeginRecover
  <2>1. /\ stage = "idle" /\ stage' \in {"idle", "remap", "restart"}
        /\ steady' = TRUE
        /\ prior' = [config |-> boxConfig, daemon |-> daemonToken,
                     mapping |-> mapping, profile |-> profileToken]
        /\ UNCHANGED <<wanted, boxVars, laptopVars, mappingBack>>
    BY <1>1 DEF BeginRecover, Begin, Found
  <2>2. /\ result' \in {"recovered", "not-recovered", "none"}
        /\ result' = "recovered" => Works
        /\ stage' # "idle" => result' = "none"
    BY <1>1 DEF BeginRecover
  <2>3. BootstrapTyped'
    <3>1. profileToken \in 0..Bootstraps
      BY BootstrapAssumption DEF BootstrapAssumption
    <3>2. prior' \in [config : Config, daemon : Nat, mapping : Mapping,
                      profile : 0..Bootstraps]
      BY <2>1, <3>1
    <3> QED
      BY <2>1, <2>2, <3>2
  <2>4. CredentialInv' /\ RollbackInv' /\ InstalledInv'
    BY <2>1
  <2>5. StillReachable'
    BY <2>1, <2>2
  <2> QED
    BY <2>3, <2>4, <2>5
<1>2. CASE RestoreRecordedMapping
  BY <1>2 DEF RestoreRecordedMapping
<1>3. CASE EnsureInstalledDaemon
  BY <1>3 DEF EnsureInstalledDaemon, Config
<1>4. CASE FinalDoctor
  BY <1>4 DEF FinalDoctor
<1>5. CASE BootstrapKilled
  BY <1>5 DEF BootstrapKilled
<1>6. CASE BoxRestarts
  <2>1. /\ daemonToken' = 0 /\ steady' = FALSE /\ mapping' \in Mapping
        /\ UNCHANGED <<boxConfig, savedConfig, laptopVars, stage,
                       mappingBack, wanted, prior, result>>
    BY <1>6 DEF BoxRestarts
  <2>2. BootstrapTyped' /\ CredentialInv'
    BY ZenonT(30), <2>1
  <2>3. RollbackInv' /\ InstalledInv'
    BY <2>1
  <2>4. StillReachable'
    BY <2>1
  <2> QED
    BY <2>2, <2>3, <2>4
<1>7. CASE UNCHANGED bootstrapVars
  BY <1>7 DEF bootstrapVars, toldVars
<1> QED
  BY <1>1, <1>2, <1>3, <1>4, <1>5, <1>6, <1>7

\* It holds in the first state.
LEMMA BootstrapBegins == BootstrapInit => BootstrapInv
<1> SUFFICES ASSUME BootstrapInit PROVE BootstrapInv
  OBVIOUS
<1>1. NoConfig \in Config /\ [token |-> 1, policy |-> {"process"}] \in Config
  BY DEF NoConfig, Config
<1>2. BootstrapTyped
  <2>1. /\ made \in 0..Bootstraps /\ profileToken = made
        /\ daemonToken = made
    BY BootstrapAssumption DEF BootstrapInit, BootstrapAssumption
  <2>2. /\ boxConfig \in Config /\ savedConfig \in Config
        /\ mapping \in Mapping
    BY <1>1 DEF BootstrapInit, Mapping
  <2>3. secretFile \in [1..Bootstraps -> {"absent", "live", "revoked"}]
    BY DEF BootstrapInit
  <2>4. prior \in [config : Config, daemon : Nat, mapping : Mapping,
                   profile : 0..Bootstraps]
    BY <2>1, <2>2, BootstrapAssumption
    DEF BootstrapInit, Found, BootstrapAssumption
  <2>5. profileToken \in 0..made /\ daemonToken \in Nat
    BY <2>1, BootstrapAssumption DEF BootstrapAssumption
  <2>6. /\ stage = "idle" /\ wanted \in BOOLEAN /\ steady \in BOOLEAN
        /\ mappingBack \in BOOLEAN
    BY DEF BootstrapInit
  <2> QED
    BY <2>1, <2>2, <2>3, <2>4, <2>5, <2>6 DEF BootstrapTyped
<1>3. CredentialInv
  BY BootstrapAssumption
  DEF BootstrapInit, CredentialInv, BootstrapAssumption, Bootstrapping
<1> QED
  BY <1>2, <1>3 DEF BootstrapInit, BootstrapInv, RollbackInv, InstalledInv,
                    StillReachable, CredentialInv, Bootstrapping

\* For any number of bootstraps and of restarts of the box, with a failure or
\* a kill at any step: the credential that the Profile names stays live, a
\* bootstrap or recover (src/src/bootstrap.ts, src/src/commands/recover.ts)
\* that tells success leaves a daemon that this credential reaches, with the
\* policy the box had, and one that tells an error of its own has undone what
\* it did.
THEOREM StaysReachable == BootstrapSpec => []StillReachable
<1>1. BootstrapInv /\ [BootstrapNext]_bootstrapVars => BootstrapInv'
  BY InstallKeepsBootstrap, EndKeepsBootstrap, RecoverKeepsBootstrap
  DEF BootstrapNext
<1>2. BootstrapInv => StillReachable
  BY DEF BootstrapInv
<1> QED
  BY <1>1, <1>2, BootstrapBegins, PTL DEF BootstrapSpec
=============================================================================
