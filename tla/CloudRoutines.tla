---------------------------- MODULE CloudRoutines ---------------------------
(***************************************************************************)
(* `agents routines webhook credential` against the cloud: the proof that  *)
(* the current box's Host vouches for the command                          *)
(* (src/src/box-routine-auth.ts) and the store that mints a webhook key    *)
(* for a routine once (cachedWebhookKey, src/src/server-routines.ts).      *)
(* Several commands run at once and may be killed at any step.             *)
(***************************************************************************)
EXTENDS Naturals, FiniteSets

CONSTANTS
  Caller,   \* commands for the same routine and credential scope
  Hosts     \* generations of the Host process (bound)

ASSUME CloudAssumption == IsFiniteSet(Caller) /\ Hosts \in Nat

VARIABLES
  host,       \* the generation of the Host that runs now
  hostFile,   \* the generation its discovery file names
  lockFile,   \* the lock file of the scope exists
  keyFile,    \* the key file of the scope exists
  temps,      \* commands whose temporary file is left
  minted,     \* keys the cloud has minted
  at,         \* how far each command is
  proof,      \* what it has seen of the Host: file, process, environment
  preserve,   \* commands that will leave the lock (preserveLock)
  told        \* what each command told

hostVars == <<host, hostFile>>
storeVars == <<lockFile, keyFile, temps, minted>>
cloudVars == <<hostVars, storeVars, at, proof, preserve, told>>

NoProof == [file |-> 0, process |-> 0, environment |-> 0]

CloudInit ==
  /\ host = 1 /\ hostFile \in {0, 1}
  /\ lockFile = FALSE /\ keyFile = FALSE /\ temps = {} /\ minted = 0
  /\ at = [c \in Caller |-> "discovery"]
  /\ proof = [c \in Caller |-> NoProof]
  /\ preserve = {} /\ told = [c \in Caller |-> "nothing"]

Goto(c, s) == at' = [at EXCEPT ![c] = s]
TellCloud(c, what) ==
  /\ told' = [told EXCEPT ![c] = what]
  /\ Goto(c, "done")

-----------------------------------------------------------------------------
(* resolveBoxRoutineAuth: every look at the Host is a step of its own.     *)

\* No proof: the command goes on with the Gateway (module Routines).
NoHostProof(c) == TellCloud(c, "gateway") /\ UNCHANGED proof
Note(c, f) == proof' = [proof EXCEPT ![c] = f] /\ UNCHANGED told

ReadDiscovery(c) ==
  /\ at[c] = "discovery"
  /\ \/ hostFile = 0 /\ NoHostProof(c)
     \/ /\ hostFile # 0
        /\ Note(c, [NoProof EXCEPT !.file = hostFile]) /\ Goto(c, "process")
  /\ UNCHANGED <<hostVars, storeVars, preserve>>

\* The process under the discovery's pid, which a newer Host may have.
InspectProcess(c) ==
  /\ at[c] = "process"
  /\ \/ Note(c, [proof[c] EXCEPT !.process = host]) /\ Goto(c, "health")
     \/ NoHostProof(c)
  /\ UNCHANGED <<hostVars, storeVars, preserve>>

CheckHealth(c) ==
  /\ at[c] = "health"
  /\ IF hostFile = proof[c].file /\ host = proof[c].file
     THEN Goto(c, "environment") /\ UNCHANGED <<proof, told>>
     ELSE NoHostProof(c)
  /\ UNCHANGED <<hostVars, storeVars, preserve>>

ReadEnvironment(c) ==
  /\ at[c] = "environment"
  /\ Note(c, [proof[c] EXCEPT !.environment = host]) /\ Goto(c, "again")
  /\ UNCHANGED <<hostVars, storeVars, preserve>>

StillThere(c) == hostFile = proof[c].file     \* mutant: the file is enough
SameHost(c) == host = proof[c].process

\* The process once more, then the discovery once more.
InspectAgain(c) ==
  /\ at[c] = "again"
  /\ IF SameHost(c) THEN Goto(c, "reread") /\ UNCHANGED <<proof, told>>
     ELSE NoHostProof(c)
  /\ UNCHANGED <<hostVars, storeVars, preserve>>

RereadDiscovery(c) ==
  /\ at[c] = "reread"
  /\ IF hostFile = proof[c].file
     THEN Goto(c, "lock") /\ UNCHANGED <<proof, told>> ELSE NoHostProof(c)
  /\ UNCHANGED <<hostVars, storeVars, preserve>>

-----------------------------------------------------------------------------
(* cachedWebhookKey.                                                       *)

\* open(O_EXCL) of the lock, which may also fail without another's lock.
TakeLockFile(c) ==
  /\ at[c] = "lock"
  /\ \/ TellCloud(c, "unavailable") /\ UNCHANGED lockFile
     \/ /\ ~lockFile /\ lockFile' = TRUE
        /\ Goto(c, "cached") /\ UNCHANGED told
  /\ UNCHANGED <<hostVars, keyFile, temps, minted, proof, preserve>>

\* A key file that is there may be unreadable, corrupt or too open.
ReadKeyFile(c) ==
  /\ at[c] = "cached"
  /\ \/ /\ keyFile
        /\ \E what \in {"key", "unavailable"} :
             told' = [told EXCEPT ![c] = what]
        /\ Goto(c, "unlock")
     \/ ~keyFile /\ Goto(c, "temporary") /\ UNCHANGED told
  /\ UNCHANGED <<hostVars, storeVars, proof, preserve>>

\* The destination exists before the mint; from here the lock is kept.
OpenKeyFile(c) ==
  /\ at[c] = "temporary"
  /\ \/ /\ temps' = temps \cup {c} /\ preserve' = preserve \cup {c}
        /\ Goto(c, "mint") /\ UNCHANGED told
     \/ /\ told' = [told EXCEPT ![c] = "unavailable"]
        /\ Goto(c, "unlock") /\ UNCHANGED <<temps, preserve>>
  /\ UNCHANGED <<hostVars, lockFile, keyFile, minted, proof>>

\* The cloud mints, refuses for good (4xx), or is not heard of again.
MintWebhookKey(c) ==
  /\ at[c] = "mint"
  /\ \/ /\ minted' = minted + 1 /\ Goto(c, "rename")
        /\ UNCHANGED <<told, preserve>>
     \/ /\ told' = [told EXCEPT ![c] = "refused"]
        /\ preserve' = preserve \ {c}
        /\ Goto(c, "unlock") /\ UNCHANGED minted
     \/ /\ minted' \in {minted, minted + 1}
        /\ told' = [told EXCEPT ![c] = "unknown"]
        /\ Goto(c, "unlock") /\ UNCHANGED preserve
  /\ UNCHANGED <<hostVars, lockFile, keyFile, temps, proof>>

RenameKeyFile(c) ==
  /\ at[c] = "rename"
  /\ \/ /\ keyFile' = TRUE /\ temps' = temps \ {c}
        /\ preserve' = preserve \ {c}
        /\ told' = [told EXCEPT ![c] = "key"]
     \/ /\ told' = [told EXCEPT ![c] = "unknown"]
        /\ UNCHANGED <<keyFile, temps, preserve>>
  /\ Goto(c, "unlock")
  /\ UNCHANGED <<hostVars, lockFile, minted, proof>>

\* A failure to remove the lock is not told.
ReleaseLockFile(c) ==
  /\ at[c] = "unlock"
  /\ temps' = temps \ {c}
  /\ \/ c \in preserve /\ UNCHANGED lockFile
     \/ c \notin preserve /\ lockFile' \in {FALSE, lockFile}
  /\ Goto(c, "done")
  /\ UNCHANGED <<hostVars, keyFile, minted, proof, preserve, told>>

-----------------------------------------------------------------------------
CallerKilled(c) ==
  /\ at[c] # "done" /\ Goto(c, "done")
  /\ UNCHANGED <<hostVars, storeVars, proof, preserve, told>>

HostRestarts ==
  /\ host < Hosts /\ host' = host + 1
  /\ UNCHANGED <<hostFile, storeVars, at, proof, preserve, told>>

HostWritesDiscovery ==
  /\ hostFile # host /\ hostFile' = host
  /\ UNCHANGED <<host, storeVars, at, proof, preserve, told>>

CloudNext ==
  \/ \E c \in Caller :
       \/ ReadDiscovery(c) \/ InspectProcess(c) \/ CheckHealth(c)
       \/ ReadEnvironment(c) \/ InspectAgain(c) \/ RereadDiscovery(c)
       \/ TakeLockFile(c) \/ ReadKeyFile(c) \/ OpenKeyFile(c)
       \/ MintWebhookKey(c) \/ RenameKeyFile(c) \/ ReleaseLockFile(c)
       \/ CallerKilled(c)
  \/ HostRestarts \/ HostWritesDiscovery

CloudSpec == CloudInit /\ [][CloudNext]_cloudVars

\* Whatever is killed, refused or lost, at most one key is minted for the
\* routine, a key that is told is the stored one, and a mint nobody has heard
\* of leaves the lock that keeps the next command from minting again. The
\* store is only reached with the environment of one and the same Host that
\* the discovery, its health and both looks at the process agree on.
MintedOnce ==
  /\ minted <= 1
  /\ \A c \in Caller :
       /\ told[c] = "key" => keyFile
       /\ told[c] = "unknown" => lockFile
       /\ at[c] \in {"lock", "cached", "temporary", "mint", "rename"} =>
            /\ proof[c].environment = proof[c].process
            /\ proof[c].environment = proof[c].file
=============================================================================
