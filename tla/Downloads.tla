------------------------------ MODULE Downloads -----------------------------
(***************************************************************************)
(* `grokbox fs download` (src/src/commands/fs.ts) and the transfers of the *)
(* daemon's GovernedFilesystem it reads from. The caller chooses the       *)
(* transfer id, so that it can cancel an open whose answer it never got;   *)
(* the cancel may overtake the open. Meanwhile other programs change the   *)
(* remote file, and one of them may create the local destination.          *)
(***************************************************************************)
EXTENDS Naturals, Sequences, FiniteSets

CONSTANTS
  Transfer,    \* transfer ids, one per command
  Parts,       \* chunks of the file
  Changes,     \* changes of the remote file (bound)
  TransferTombs \* CANCELLED_TRANSFER_MAX

ASSUME DownloadsAssumption ==
  {Parts, Changes, TransferTombs} \subseteq Nat /\ IsFiniteSet(Transfer)

VARIABLES
  transfer,  \* how far the daemon is with each id
  handles,   \* transfers with an open descriptor
  baseline,  \* the version of the file each of them opened
  reading,   \* the version a chunk in progress saw before its read
  ticking,   \* transfers whose timer runs
  gone,      \* cancelledTransfers
  full,      \* cancelledSaturatedUntil lies ahead
  ending,    \* close() was called
  version,   \* of the remote file
  sent,      \* calls on their way
  asked,     \* the call each command waits for
  answer,    \* and its answer
  command,   \* how far each command is
  bytes,     \* the versions of the chunks it received
  announced, \* the version whose hash the open announced
  temporary, \* commands whose temporary file exists
  local      \* the destination: nothing, another's, or the download's

daemonVars == <<transfer, handles, baseline, reading, ticking, gone, full,
                ending, version>>
commandVars == <<command, bytes, announced, temporary, local>>
downloadVars == <<daemonVars, sent, asked, answer, commandVars>>

Idle == "idle"
Free == 0                        \* no version: versions count from 1
Ask(x, verb, i) == [id |-> x, verb |-> verb, index |-> i]

DownloadsInit ==
  /\ transfer = [x \in Transfer |-> "none"] /\ handles = {}
  /\ baseline = [x \in Transfer |-> Free] /\ reading = baseline
  /\ ticking = {} /\ gone = {} /\ full = FALSE /\ ending = FALSE
  /\ version = 1
  /\ sent = {} /\ asked = [x \in Transfer |-> Idle]
  /\ answer = [x \in Transfer |-> Free]
  /\ command = [x \in Transfer |-> "new"] /\ bytes = [x \in Transfer |-> <<>>]
  /\ announced = baseline /\ temporary = {}
  /\ local = [x \in Transfer |-> "nothing"]

\* An answer is a version; one more than any version is a refusal.
Refused == Changes + 2
Reply(x, verb, v) ==
  answer' = IF asked[x] = verb THEN [answer EXCEPT ![x] = v] ELSE answer

-----------------------------------------------------------------------------
(* The daemon.                                                             *)

Active(x) == transfer[x] = "open"
CloseTransfer(x) ==
  /\ transfer' = [transfer EXCEPT ![x] = "none"]
  /\ handles' = handles \ {x} /\ ticking' = ticking \ {x}

OpenArrives(x) ==
  /\ Ask(x, "open", 0) \in sent
  /\ sent' = sent \ {Ask(x, "open", 0)}
  /\ \/ /\ ending \/ transfer[x] # "none" \/ x \in gone \/ full
        /\ Reply(x, "open", Refused) /\ UNCHANGED transfer
     \/ /\ ~ending /\ transfer[x] = "none" /\ x \notin gone /\ ~full
        /\ transfer' = [transfer EXCEPT ![x] = "pending"] /\ UNCHANGED answer
  /\ UNCHANGED <<handles, baseline, reading, ticking, gone, full, ending,
                 version, asked, commandVars>>

OpenHandle(x) ==
  /\ transfer[x] = "pending" /\ x \notin handles
  /\ handles' = handles \cup {x}
  /\ baseline' = [baseline EXCEPT ![x] = version]
  /\ UNCHANGED <<transfer, reading, ticking, gone, full, ending, version, sent,
                 asked, answer, commandVars>>

Forgetful(x) == ending                       \* mutant: the signal is not read
Withdrawn(x) == ending \/ transfer[x] = "aborted"

\* The file is hashed; the checks and the publication have no await between.
PublishTransfer(x) ==
  /\ transfer[x] \in {"pending", "aborted"}
  /\ \/ /\ Withdrawn(x) \/ x \notin handles \/ baseline[x] # version
        /\ CloseTransfer(x)
        /\ Reply(x, "open", Refused)
     \/ /\ ~Withdrawn(x) /\ x \in handles /\ baseline[x] = version
        /\ transfer' = [transfer EXCEPT ![x] = "open"]
        /\ ticking' = ticking \cup {x}
        /\ Reply(x, "open", version)
        /\ UNCHANGED handles
  /\ UNCHANGED <<baseline, reading, gone, full, ending, version, sent, asked,
                 commandVars>>

ChunkArrives(x) ==
  /\ \E c \in sent :
       /\ c.id = x /\ c.verb = "chunk"
       /\ sent' = sent \ {c}
  /\ \/ /\ Active(x) /\ baseline[x] = version
        /\ reading' = [reading EXCEPT ![x] = version]
        /\ ticking' = ticking \cup {x}
        /\ UNCHANGED <<transfer, handles, answer>>
     \/ /\ Active(x) /\ baseline[x] # version
        /\ CloseTransfer(x)
        /\ Reply(x, "chunk", Refused) /\ UNCHANGED reading
     \/ /\ ~Active(x)
        /\ Reply(x, "chunk", Refused)
        /\ UNCHANGED <<transfer, handles, ticking, reading>>
  /\ UNCHANGED <<baseline, gone, full, ending, version, asked, commandVars>>

\* The bytes are read; the descriptor may have been closed meanwhile.
ChunkRead(x) ==
  /\ reading[x] # Free
  /\ reading' = [reading EXCEPT ![x] = Free]
  /\ \/ /\ Active(x) /\ version = baseline[x]
        /\ Reply(x, "chunk", version)
        /\ UNCHANGED <<transfer, handles, ticking>>
     \/ /\ ~Active(x) \/ version # baseline[x]
        /\ Reply(x, "chunk", Refused)
        /\ IF Active(x) THEN CloseTransfer(x)
                        ELSE UNCHANGED <<transfer, handles, ticking>>
  /\ UNCHANGED <<baseline, gone, full, ending, version, sent, asked,
                 commandVars>>

CancelArrives(x) ==
  /\ Ask(x, "cancel", 0) \in sent
  /\ sent' = sent \ {Ask(x, "cancel", 0)}
  /\ IF Cardinality(gone) >= TransferTombs
     THEN full' = TRUE /\ UNCHANGED gone
     ELSE gone' = gone \cup {x} /\ UNCHANGED full
  /\ \/ /\ transfer[x] = "pending"
        /\ transfer' = [transfer EXCEPT ![x] = "aborted"]
        /\ UNCHANGED <<handles, ticking>>
     \/ transfer[x] = "open" /\ CloseTransfer(x)
     \/ /\ transfer[x] \in {"none", "aborted"}
        /\ UNCHANGED <<transfer, handles, ticking>>
  /\ UNCHANGED <<baseline, reading, ending, version, asked, answer,
                 commandVars>>

TransferExpires(x) ==
  /\ x \in ticking
  /\ CloseTransfer(x)
  /\ UNCHANGED <<baseline, reading, gone, full, ending, version, sent, asked,
                 answer, commandVars>>

TombstonesExpire ==
  /\ gone # {} \/ full
  /\ gone' = {} /\ full' = FALSE
  /\ UNCHANGED <<transfer, handles, baseline, reading, ticking, ending, version,
                 sent, asked, answer, commandVars>>

\* close() aborts what is pending, clears the tombstones, closes the rest.
EndTransfers ==
  /\ ~ending /\ ending' = TRUE
  /\ transfer' = [x \in Transfer |->
                    CASE transfer[x] \in {"pending", "aborted"} -> "aborted"
                      [] OTHER -> "none"]
  /\ handles' = {x \in handles : ~Active(x)} /\ ticking' = {}
  /\ gone' = {} /\ full' = FALSE
  /\ UNCHANGED <<baseline, reading, version, sent, asked, answer, commandVars>>

FileChanges ==
  /\ version <= Changes
  /\ version' = version + 1
  /\ UNCHANGED <<transfer, handles, baseline, reading, ticking, gone, full,
                 ending, sent, asked, answer, commandVars>>

-----------------------------------------------------------------------------
(* The command.                                                            *)

Say(x, verb, i) ==
  /\ sent' = sent \cup {Ask(x, verb, i)}
  /\ asked' = [asked EXCEPT ![x] = verb]
  /\ answer' = [answer EXCEPT ![x] = Free]

\* The finally: the temporary file goes, the cancel is sent, nobody waits.
EndCommand(x) ==
  /\ command' = [command EXCEPT ![x] = "ended"]
  /\ temporary' = temporary \ {x}
  /\ sent' = sent \cup {Ask(x, "cancel", 0)}
  /\ asked' = [asked EXCEPT ![x] = Idle]
  /\ answer' = [answer EXCEPT ![x] = Free]

StartDownload(x) ==
  /\ command[x] = "new"
  /\ \/ /\ local[x] = "nothing"
        /\ command' = [command EXCEPT ![x] = "waiting"]
        /\ temporary' = temporary \cup {x}
        /\ Say(x, "open", 0)
     \/ /\ local[x] # "nothing"
        /\ command' = [command EXCEPT ![x] = "ended"]
        /\ UNCHANGED <<temporary, sent, asked, answer>>
  /\ UNCHANGED <<daemonVars, bytes, announced, local>>

HearTransfer(x) ==
  /\ asked[x] \in {"open", "chunk"} /\ answer[x] \notin {Free, Refused}
  /\ LET opened == asked[x] = "open"
         all == IF opened THEN <<>> ELSE Append(bytes[x], answer[x])
     IN  /\ announced' = IF opened THEN [announced EXCEPT ![x] = answer[x]]
                                   ELSE announced
         /\ bytes' = [bytes EXCEPT ![x] = all]
         /\ IF Len(all) < Parts
            THEN Say(x, "chunk", Len(all)) /\ UNCHANGED command
            ELSE /\ command' = [command EXCEPT ![x] = "received"]
                 /\ asked' = [asked EXCEPT ![x] = Idle]
                 /\ answer' = [answer EXCEPT ![x] = Free]
                 /\ UNCHANGED sent
  /\ UNCHANGED <<daemonVars, temporary, local>>

\* A refusal, a timeout, a lost connection or the user's signal.
DownloadFails(x) ==
  /\ command[x] = "waiting"
  /\ EndCommand(x)
  /\ UNCHANGED <<daemonVars, bytes, announced, local>>

HashMatches(x) == \A i \in 1..Parts : bytes[x][i] = announced[x]

\* link() refuses an existing destination.
LinkDestination(x) ==
  /\ command[x] = "received"
  /\ local' = IF HashMatches(x) /\ local[x] = "nothing"
              THEN [local EXCEPT ![x] = "download"] ELSE local
  /\ EndCommand(x)
  /\ UNCHANGED <<daemonVars, bytes, announced>>

OtherCreates(x) ==
  /\ local[x] = "nothing" /\ command[x] # "ended"
  /\ local' = [local EXCEPT ![x] = "other"]
  /\ UNCHANGED <<daemonVars, sent, asked, answer, command, bytes, announced,
                 temporary>>

DownloadsNext ==
  \/ \E x \in Transfer :
       \/ OpenArrives(x) \/ OpenHandle(x) \/ PublishTransfer(x)
       \/ ChunkArrives(x) \/ ChunkRead(x) \/ CancelArrives(x)
       \/ TransferExpires(x) \/ StartDownload(x) \/ HearTransfer(x)
       \/ DownloadFails(x) \/ LinkDestination(x) \/ OtherCreates(x)
  \/ TombstonesExpire \/ EndTransfers \/ FileChanges

DownloadsSpec == DownloadsInit /\ [][DownloadsNext]_downloadVars

\* A cancel wins against its open, however late or far that is: while its
\* tombstone stands the id is not an open transfer. And nothing is left open:
\* a descriptor belongs to a transfer or to a running open, an open transfer
\* has a timer, and a command that has ended has no temporary file.
DownloadsOwned ==
  /\ \A x \in gone : ~Active(x)
  /\ \A x \in handles : transfer[x] # "none"
  /\ \A x \in Transfer : Active(x) => x \in handles /\ x \in ticking
  /\ \A x \in temporary : command[x] \in {"waiting", "received"}
=============================================================================
