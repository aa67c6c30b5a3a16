---------------------------- MODULE CloudProofs ----------------------------
(***************************************************************************)
(* One webhook key per routine, under the proof of one Host, for any       *)
(* number of commands and of generations of the Host.                      *)
(***************************************************************************)
EXTENDS CloudRoutines, TLAPS

Looking == {"discovery", "process", "health", "environment", "again", "reread"}
Holding == {"cached", "temporary", "mint", "rename", "unlock"}
Told == {"nothing", "gateway", "unavailable", "key", "refused", "unknown"}
Proof == [file : Nat, process : Nat, environment : Nat]

CloudTypeOK ==
  /\ host \in Nat /\ hostFile \in Nat /\ minted \in Nat
  /\ lockFile \in BOOLEAN /\ keyFile \in BOOLEAN
  /\ temps \subseteq Caller /\ preserve \subseteq Caller
  /\ at \in [Caller -> Looking \cup {"lock"} \cup Holding \cup {"done"}]
  /\ proof \in [Caller -> Proof]
  /\ told \in [Caller -> Told]

\* Generations only grow, so looks that agree in turn were at one Host.
SeenInOrder(p, s) ==
  /\ s = "health" => p.process <= host
  /\ s = "environment" => p.process <= p.file /\ p.file <= host
  /\ s = "again" => /\ p.process <= p.file /\ p.file <= p.environment
                    /\ p.environment <= host
  /\ s \in {"reread", "lock"} \cup (Holding \ {"unlock"}) =>
       p.process = p.environment /\ p.environment = p.file
ProofInv == \A c \in Caller : SeenInOrder(proof[c], at[c])

\* One command holds the lock file; a killed one leaves it.
LockInv ==
  /\ \A c \in Caller : at[c] \in Holding => lockFile
  /\ \A c, d \in Caller : at[c] \in Holding /\ at[d] \in Holding => c = d

\* Who is about to mint does so first, and keeps the lock unless the cloud
\* refuses or the key is stored.
MintInv ==
  /\ minted <= 1
  /\ \A c \in Caller :
       /\ at[c] \in {"temporary", "mint"} => minted = 0
       /\ at[c] \in {"mint", "rename"} => c \in preserve
  /\ minted > 0 /\ ~keyFile =>
       /\ lockFile
       /\ \A c \in Caller : /\ at[c] # "cached"
                            /\ at[c] = "unlock" => c \in preserve

\* A mint nobody has heard of keeps the lock for good.
UnknownInv ==
  \A c \in Caller :
    /\ told[c] = "key" => keyFile
    /\ told[c] = "unknown" =>
         /\ lockFile /\ c \in preserve /\ at[c] \in {"unlock", "done"}
         /\ \A d \in Caller : at[d] \in Holding => d = c

CloudInv == CloudTypeOK /\ ProofInv /\ LockInv /\ MintInv /\ UnknownInv

\* What the step of one command leaves to the others.
Alone(c) ==
  /\ \A d \in Caller \ {c} : /\ at'[d] = at[d] /\ told'[d] = told[d]
                              /\ proof'[d] = proof[d]
  /\ host' = host
\* A step of a command that does not hold the lock, nor holds it after.
Outside(c) ==
  /\ Alone(c)
  /\ at[c] \in Looking \cup {"lock"} /\ at'[c] \notin Holding
  /\ told'[c] \in {told[c], "gateway", "unavailable"}
  /\ UNCHANGED <<lockFile, keyFile, minted, preserve>>

-----------------------------------------------------------------------------
LEMMA CloudInitially == CloudInit => CloudInv
<1> SUFFICES ASSUME CloudInit PROVE CloudInv
  OBVIOUS
<1> USE DEF CloudInit
<1>1. CloudTypeOK
  <2>1. NoProof \in Proof
    BY DEF NoProof, Proof
  <2>2. proof \in [Caller -> Proof]
    BY <2>1
  <2>3. /\ at \in [Caller -> Looking \cup {"lock"} \cup Holding \cup {"done"}]
        /\ told \in [Caller -> Told]
    BY DEF Looking, Told
  <2>4. /\ host \in Nat /\ hostFile \in Nat /\ minted \in Nat
    OBVIOUS
  <2>5. temps \subseteq Caller /\ preserve \subseteq Caller
    OBVIOUS
  <2>6. lockFile \in BOOLEAN /\ keyFile \in BOOLEAN
    OBVIOUS
  <2> QED
    BY <2>2, <2>3, <2>4, <2>5, <2>6 DEF CloudTypeOK
<1>2. ProofInv
  BY DEF ProofInv, SeenInOrder, Holding, Looking
<1>3. LockInv /\ MintInv /\ UnknownInv
  BY DEF LockInv, MintInv, UnknownInv, Holding
<1> QED
  BY <1>1, <1>2, <1>3 DEF CloudInv

\* The proofs of the others stay good while one command moves.
LEMMA OneProofMoves ==
  \A c \in Caller :
    CloudInv /\ Alone(c) /\ SeenInOrder(proof'[c], at'[c]) => ProofInv'
<1> SUFFICES ASSUME NEW c \in Caller, CloudInv, Alone(c),
                    SeenInOrder(proof'[c], at'[c])
             PROVE ProofInv'
  OBVIOUS
<1>1. ASSUME NEW d \in Caller \ {c} PROVE SeenInOrder(proof'[d], at'[d])
  BY <1>1 DEF CloudInv, ProofInv, Alone
<1>2. \A d \in Caller : SeenInOrder(proof'[d], at'[d])
  BY <1>1
<1> QED
  BY <1>2 DEF ProofInv, SeenInOrder, Alone

\* Such a step does not concern the store.
LEMMA OutsideMoves ==
  \A c \in Caller :
    CloudInv /\ Outside(c) => LockInv' /\ MintInv' /\ UnknownInv'
<1> SUFFICES ASSUME NEW c \in Caller, CloudInv, Outside(c)
             PROVE LockInv' /\ MintInv' /\ UnknownInv'
  OBVIOUS
<1> USE DEF Outside
<1>1. \A d \in Caller : at'[d] \in Holding => d # c /\ at[d] = at'[d]
  BY DEF Alone
<1>2. LockInv'
  BY <1>1 DEF CloudInv, LockInv
<1>3. MintInv'
  BY <1>1 DEF CloudInv, MintInv, Holding
<1>4. UnknownInv'
  <2>1. told[c] # "unknown"
    BY DEF CloudInv, UnknownInv, Looking
  <2>2. \A d \in Caller : told'[d] = "key" => keyFile
    BY DEF CloudInv, UnknownInv, Alone
  <2>3. ASSUME NEW d \in Caller, told'[d] = "unknown"
        PROVE /\ lockFile /\ d \in preserve /\ at'[d] \in {"unlock", "done"}
              /\ \A e \in Caller : at'[e] \in Holding => e = d
    <3>1. d # c /\ told[d] = "unknown" /\ at'[d] = at[d]
      BY <2>1, <2>3 DEF Alone
    <3> QED
      BY <3>1, <1>1 DEF CloudInv, UnknownInv
  <2> QED
    BY <2>2, <2>3 DEF UnknownInv
<1> QED
  BY <1>2, <1>3, <1>4

\* Who holds the lock is alone, and nobody else has an unknown outcome.
LEMMA HolderIsAlone ==
  \A c \in Caller :
    CloudInv /\ at[c] \in Holding =>
      /\ lockFile
      /\ \A d \in Caller \ {c} : at[d] \notin Holding /\ told[d] # "unknown"
BY DEF CloudInv, LockInv, UnknownInv

-----------------------------------------------------------------------------
(* The looks at the Host.                                                  *)

LookStep(c) ==
  \/ ReadDiscovery(c) \/ InspectProcess(c) \/ CheckHealth(c)
  \/ ReadEnvironment(c) \/ InspectAgain(c) \/ RereadDiscovery(c)

LEMMA LookTypes == \A c \in Caller : CloudInv /\ LookStep(c) => CloudTypeOK'
<1> SUFFICES ASSUME NEW c \in Caller, CloudInv, LookStep(c) PROVE CloudTypeOK'
  OBVIOUS
<1> USE DEF CloudInv
<1>1. at' \in [Caller -> Looking \cup {"lock"} \cup Holding \cup {"done"}]
  BY DEF LookStep, ReadDiscovery, InspectProcess, CheckHealth, ReadEnvironment,
         InspectAgain, RereadDiscovery, NoHostProof, TellCloud, Note, Goto,
         CloudTypeOK, Looking
<1>2. told' \in [Caller -> Told]
  BY DEF LookStep, ReadDiscovery, InspectProcess, CheckHealth, ReadEnvironment,
         InspectAgain, RereadDiscovery, NoHostProof, TellCloud, Note,
         CloudTypeOK, Told
<1>3. proof' \in [Caller -> Proof]
  BY DEF LookStep, ReadDiscovery, InspectProcess, CheckHealth, ReadEnvironment,
         InspectAgain, RereadDiscovery, NoHostProof, TellCloud, Note, NoProof,
         CloudTypeOK, Proof
<1>4. UNCHANGED <<hostVars, storeVars, preserve>>
  BY DEF LookStep, ReadDiscovery, InspectProcess, CheckHealth, ReadEnvironment,
         InspectAgain, RereadDiscovery
<1> QED
  BY <1>1, <1>2, <1>3, <1>4 DEF CloudTypeOK, hostVars, storeVars

LEMMA LookIsOutside == \A c \in Caller : CloudInv /\ LookStep(c) => Outside(c)
<1> SUFFICES ASSUME NEW c \in Caller, CloudInv, LookStep(c) PROVE Outside(c)
  OBVIOUS
<1> USE DEF CloudInv, CloudTypeOK
<1>1. Alone(c)
  BY DEF LookStep, ReadDiscovery, InspectProcess, CheckHealth, ReadEnvironment,
         InspectAgain, RereadDiscovery, NoHostProof, TellCloud, Note, Goto,
         Alone, hostVars
<1>2. at[c] \in Looking /\ at'[c] \in Looking \cup {"lock", "done"}
  BY DEF LookStep, ReadDiscovery, InspectProcess, CheckHealth, ReadEnvironment,
         InspectAgain, RereadDiscovery, NoHostProof, TellCloud, Goto, Looking
<1>3. told'[c] \in {told[c], "gateway"}
  BY DEF LookStep, ReadDiscovery, InspectProcess, CheckHealth, ReadEnvironment,
         InspectAgain, RereadDiscovery, NoHostProof, TellCloud, Note
<1>4. UNCHANGED <<storeVars, preserve>>
  BY DEF LookStep, ReadDiscovery, InspectProcess, CheckHealth, ReadEnvironment,
         InspectAgain, RereadDiscovery
<1> QED
  BY <1>1, <1>2, <1>3, <1>4 DEF Outside, Looking, Holding, storeVars

\* Each look adds to what the earlier ones saw, at this Host or a later one.
LEMMA LookProves ==
  \A c \in Caller : CloudInv /\ LookStep(c) => SeenInOrder(proof'[c], at'[c])
<1> SUFFICES ASSUME NEW c \in Caller, CloudInv, LookStep(c)
             PROVE SeenInOrder(proof'[c], at'[c])
  OBVIOUS
<1> USE DEF CloudInv, CloudTypeOK, Proof, NoHostProof, TellCloud, Note, Goto
<1>0. SeenInOrder(proof[c], at[c])
  BY DEF ProofInv
<1>1. CASE ReadDiscovery(c)
  BY <1>1 DEF ReadDiscovery, SeenInOrder, Holding
<1>2. CASE InspectProcess(c)
  BY <1>2 DEF InspectProcess, SeenInOrder, Holding
<1>3. CASE CheckHealth(c)
  BY <1>0, <1>3 DEF CheckHealth, SeenInOrder, Holding
<1>4. CASE ReadEnvironment(c)
  BY <1>0, <1>4 DEF ReadEnvironment, SeenInOrder, Holding
<1>5. CASE InspectAgain(c)
  BY <1>0, <1>5 DEF InspectAgain, SameHost, SeenInOrder, Holding
<1>6. CASE RereadDiscovery(c)
  BY <1>0, <1>6 DEF RereadDiscovery, SeenInOrder, Holding
<1> QED
  BY <1>1, <1>2, <1>3, <1>4, <1>5, <1>6 DEF LookStep

LEMMA LookKeeps == \A c \in Caller : CloudInv /\ LookStep(c) => CloudInv'
<1> SUFFICES ASSUME NEW c \in Caller, CloudInv, LookStep(c) PROVE CloudInv'
  OBVIOUS
<1>1. CloudTypeOK' /\ Outside(c) /\ SeenInOrder(proof'[c], at'[c])
  BY LookTypes, LookIsOutside, LookProves
<1>2. ProofInv'
  BY <1>1, OneProofMoves DEF Outside
<1>3. LockInv' /\ MintInv' /\ UnknownInv'
  BY <1>1, OutsideMoves
<1> QED
  BY <1>1, <1>2, <1>3 DEF CloudInv

-----------------------------------------------------------------------------
(* The store: the steps of the command that takes or holds the lock.       *)

StoreStep(c) ==
  \/ TakeLockFile(c) \/ ReadKeyFile(c) \/ OpenKeyFile(c)
  \/ MintWebhookKey(c) \/ RenameKeyFile(c) \/ ReleaseLockFile(c)

LEMMA StoreTypes == \A c \in Caller : CloudInv /\ StoreStep(c) => CloudTypeOK'
<1> SUFFICES ASSUME NEW c \in Caller, CloudInv, StoreStep(c)
             PROVE CloudTypeOK'
  OBVIOUS
<1> USE DEF CloudInv, CloudTypeOK
<1>1. at' \in [Caller -> Looking \cup {"lock"} \cup Holding \cup {"done"}]
  BY DEF StoreStep, TakeLockFile, ReadKeyFile, OpenKeyFile, MintWebhookKey,
         RenameKeyFile, ReleaseLockFile, TellCloud, Goto, Holding
<1>2. told' \in [Caller -> Told]
  BY DEF StoreStep, TakeLockFile, ReadKeyFile, OpenKeyFile, MintWebhookKey,
         RenameKeyFile, ReleaseLockFile, TellCloud, Told
<1>3. minted' \in Nat
  <2>1. minted' = minted \/ minted' = minted + 1
    BY DEF StoreStep, TakeLockFile, ReadKeyFile, OpenKeyFile, MintWebhookKey,
           RenameKeyFile, ReleaseLockFile, storeVars
  <2> QED
    BY <2>1
<1>4. temps' \subseteq Caller /\ preserve' \subseteq Caller
  BY DEF StoreStep, TakeLockFile, ReadKeyFile, OpenKeyFile, MintWebhookKey,
         RenameKeyFile, ReleaseLockFile, storeVars
<1>5. lockFile' \in BOOLEAN /\ keyFile' \in BOOLEAN
  <2>1. CASE TakeLockFile(c) \/ ReleaseLockFile(c)
    BY <2>1 DEF TakeLockFile, ReleaseLockFile
  <2>2. CASE ReadKeyFile(c) \/ OpenKeyFile(c) \/ MintWebhookKey(c)
    BY <2>2, Zenon DEF ReadKeyFile, OpenKeyFile, MintWebhookKey, storeVars
  <2>3. CASE RenameKeyFile(c)
    BY <2>3, Zenon DEF RenameKeyFile
  <2> QED
    BY <2>1, <2>2, <2>3 DEF StoreStep
<1>6. UNCHANGED <<host, hostFile, proof>>
  BY DEF StoreStep, TakeLockFile, ReadKeyFile, OpenKeyFile, MintWebhookKey,
         RenameKeyFile, ReleaseLockFile, hostVars
<1> QED
  BY <1>1, <1>2, <1>3, <1>4, <1>5, <1>6

LEMMA StoreIsAlone ==
  \A c \in Caller : CloudInv /\ StoreStep(c) =>
    /\ Alone(c) /\ proof' = proof
    /\ at[c] \in {"lock"} \cup Holding
    /\ at'[c] \in Holding \cup {"done"}
    /\ at[c] = "unlock" => at'[c] = "done"
<1> SUFFICES ASSUME NEW c \in Caller, CloudInv, StoreStep(c)
             PROVE /\ Alone(c) /\ proof' = proof
                   /\ at[c] \in {"lock"} \cup Holding
                   /\ at'[c] \in Holding \cup {"done"}
                   /\ at[c] = "unlock" => at'[c] = "done"
  OBVIOUS
<1> USE DEF CloudInv, CloudTypeOK
<1>1. UNCHANGED <<hostVars, proof>>
  BY DEF StoreStep, TakeLockFile, ReadKeyFile, OpenKeyFile, MintWebhookKey,
         RenameKeyFile, ReleaseLockFile
<1>2. \A d \in Caller \ {c} : at'[d] = at[d] /\ told'[d] = told[d]
  BY DEF StoreStep, TakeLockFile, ReadKeyFile, OpenKeyFile, MintWebhookKey,
         RenameKeyFile, ReleaseLockFile, TellCloud, Goto
<1>3. /\ at[c] \in {"lock"} \cup Holding /\ at'[c] \in Holding \cup {"done"}
      /\ at[c] = "unlock" => at'[c] = "done"
  BY DEF StoreStep, TakeLockFile, ReadKeyFile, OpenKeyFile, MintWebhookKey,
         RenameKeyFile, ReleaseLockFile, TellCloud, Goto, Holding
<1> QED
  BY <1>1, <1>2, <1>3 DEF Alone, hostVars

\* The proof the command went in with is the proof it goes on with.
LEMMA StoreProves == \A c \in Caller : CloudInv /\ StoreStep(c) => ProofInv'
<1> SUFFICES ASSUME NEW c \in Caller, CloudInv, StoreStep(c) PROVE ProofInv'
  OBVIOUS
<1>1. /\ Alone(c) /\ proof' = proof /\ at[c] \in {"lock"} \cup Holding
      /\ at'[c] \in Holding \cup {"done"}
      /\ at[c] = "unlock" => at'[c] = "done"
  BY StoreIsAlone
<1>2. SeenInOrder(proof[c], at[c])
  BY DEF CloudInv, ProofInv
<1>3. SeenInOrder(proof'[c], at'[c])
  BY <1>1, <1>2 DEF SeenInOrder, Holding
<1> QED
  BY <1>1, <1>3, OneProofMoves

\* Nobody holds a free lock; a refused command holds none.
LEMMA LockTaken ==
  \A c \in Caller :
    CloudInv /\ TakeLockFile(c) => LockInv' /\ MintInv' /\ UnknownInv'
<1> SUFFICES ASSUME NEW c \in Caller, CloudInv, TakeLockFile(c)
             PROVE LockInv' /\ MintInv' /\ UnknownInv'
  OBVIOUS
<1> USE DEF CloudInv, CloudTypeOK
<1>0. Alone(c)
  BY StoreIsAlone DEF StoreStep
<1>1. CASE TellCloud(c, "unavailable") /\ UNCHANGED lockFile
  <2>1. Outside(c)
    BY <1>0, <1>1, Zenon
       DEF TakeLockFile, TellCloud, Goto, Outside, Holding
  <2> QED
    BY <2>1, OutsideMoves
<1>2. CASE ~lockFile /\ lockFile' = TRUE /\ Goto(c, "cached")
           /\ UNCHANGED told
  <2>1. /\ at'[c] = "cached" /\ told'[c] = told[c] /\ lockFile'
        /\ UNCHANGED <<keyFile, minted, preserve>>
    BY <1>2 DEF TakeLockFile, Goto
  <2>2. \A d \in Caller : at[d] \notin Holding /\ told[d] # "unknown"
    BY <1>2 DEF LockInv, UnknownInv
  <2>3. \A d \in Caller : at'[d] \in Holding => d = c
    BY <2>2, <1>0 DEF Alone
  <2>4. LockInv'
    BY <2>1, <2>3 DEF LockInv
  <2>5. minted > 0 => keyFile
    BY <1>2 DEF MintInv
  <2>6. MintInv'
    BY <2>1, <2>3, <2>5 DEF MintInv, Holding
  <2>7. UnknownInv'
    BY <2>1, <2>2, <1>0 DEF UnknownInv, Alone
  <2> QED
    BY <2>4, <2>6, <2>7
<1> QED
  BY <1>1, <1>2 DEF TakeLockFile

\* Without a key and with the lock in hand nothing was minted.
LEMMA KeyRead ==
  \A c \in Caller :
    CloudInv /\ ReadKeyFile(c) => LockInv' /\ MintInv' /\ UnknownInv'
<1> SUFFICES ASSUME NEW c \in Caller, CloudInv, ReadKeyFile(c)
             PROVE LockInv' /\ MintInv' /\ UnknownInv'
  OBVIOUS
<1> USE DEF CloudInv, CloudTypeOK
<1>1. Alone(c) /\ at[c] \in Holding
  BY StoreIsAlone DEF StoreStep, ReadKeyFile, Holding
<1>2. /\ lockFile
      /\ \A d \in Caller \ {c} : at[d] \notin Holding /\ told[d] # "unknown"
  BY <1>1, HolderIsAlone
<1>3. \A d \in Caller : /\ at'[d] \in Holding => d = c
                        /\ d # c => told'[d] = told[d]
                        /\ d # c => told'[d] # "unknown"
  BY <1>1, <1>2 DEF Alone
<1>4. /\ UNCHANGED <<lockFile, keyFile, minted, preserve>>
      /\ at[c] = "cached" /\ told[c] # "unknown"
      /\ \/ /\ keyFile /\ at'[c] = "unlock"
            /\ told'[c] \in {"key", "unavailable"}
         \/ ~keyFile /\ at'[c] = "temporary" /\ told'[c] = told[c]
  BY DEF ReadKeyFile, Goto, storeVars, UnknownInv
<1>5. LockInv'
  BY <1>2, <1>3, <1>4 DEF LockInv
<1>6. MintInv'
  BY <1>2, <1>3, <1>4 DEF MintInv, Holding
<1>7. UnknownInv'
  BY <1>2, <1>3, <1>4 DEF UnknownInv, Holding
<1> QED
  BY <1>5, <1>6, <1>7

\* The destination is there, or nothing is minted.
LEMMA FileOpened ==
  \A c \in Caller :
    CloudInv /\ OpenKeyFile(c) => LockInv' /\ MintInv' /\ UnknownInv'
<1> SUFFICES ASSUME NEW c \in Caller, CloudInv, OpenKeyFile(c)
             PROVE LockInv' /\ MintInv' /\ UnknownInv'
  OBVIOUS
<1> USE DEF CloudInv, CloudTypeOK
<1>1. Alone(c) /\ at[c] \in Holding
  BY StoreIsAlone DEF StoreStep, OpenKeyFile, Holding
<1>2. /\ lockFile
      /\ \A d \in Caller \ {c} : at[d] \notin Holding /\ told[d] # "unknown"
  BY <1>1, HolderIsAlone
<1>3. \A d \in Caller : /\ at'[d] \in Holding => d = c
                        /\ d # c => told'[d] = told[d]
                        /\ d # c => told'[d] # "unknown"
  BY <1>1, <1>2 DEF Alone
<1>4. /\ UNCHANGED <<lockFile, keyFile, minted>>
      /\ at[c] = "temporary" /\ told[c] # "unknown" /\ minted = 0
      /\ \/ /\ at'[c] = "mint" /\ told'[c] = told[c]
            /\ preserve' = preserve \cup {c}
         \/ /\ at'[c] = "unlock" /\ told'[c] = "unavailable"
            /\ preserve' = preserve
  BY DEF OpenKeyFile, Goto, UnknownInv, MintInv
<1>5. LockInv'
  BY <1>2, <1>3, <1>4 DEF LockInv
<1>6. MintInv'
  BY <1>2, <1>3, <1>4 DEF MintInv, Holding
<1>7. UnknownInv'
  BY <1>2, <1>3, <1>4 DEF UnknownInv, Holding
<1> QED
  BY <1>5, <1>6, <1>7

\* The first mint, refused, or unheard of with the lock kept.
LEMMA KeyMinted ==
  \A c \in Caller :
    CloudInv /\ MintWebhookKey(c) => LockInv' /\ MintInv' /\ UnknownInv'
<1> SUFFICES ASSUME NEW c \in Caller, CloudInv, MintWebhookKey(c)
             PROVE LockInv' /\ MintInv' /\ UnknownInv'
  OBVIOUS
<1> USE DEF CloudInv, CloudTypeOK
<1>1. Alone(c) /\ at[c] \in Holding
  BY StoreIsAlone DEF StoreStep, MintWebhookKey, Holding
<1>2. /\ lockFile
      /\ \A d \in Caller \ {c} : at[d] \notin Holding /\ told[d] # "unknown"
  BY <1>1, HolderIsAlone
<1>3. \A d \in Caller : /\ at'[d] \in Holding => d = c
                        /\ d # c => told'[d] = told[d]
                        /\ d # c => told'[d] # "unknown"
  BY <1>1, <1>2 DEF Alone
<1>4. /\ UNCHANGED <<lockFile, keyFile>> /\ minted' \in {0, 1}
      /\ at[c] = "mint" /\ told[c] # "unknown" /\ c \in preserve
      /\ \/ /\ at'[c] = "rename" /\ told'[c] = told[c]
            /\ preserve' = preserve
         \/ /\ at'[c] = "unlock" /\ told'[c] = "refused"
            /\ preserve' = preserve \ {c} /\ minted' = 0
         \/ /\ at'[c] = "unlock" /\ told'[c] = "unknown"
            /\ preserve' = preserve
  BY DEF MintWebhookKey, Goto, UnknownInv, MintInv
<1>5. LockInv'
  BY <1>2, <1>3, <1>4 DEF LockInv
<1>6. MintInv'
  BY <1>2, <1>3, <1>4 DEF MintInv, Holding
<1>7. UnknownInv'
  BY <1>2, <1>3, <1>4 DEF UnknownInv, Holding
<1> QED
  BY <1>5, <1>6, <1>7

\* The key is stored, or its outcome unknown with the lock kept.
LEMMA KeyRenamed ==
  \A c \in Caller :
    CloudInv /\ RenameKeyFile(c) => LockInv' /\ MintInv' /\ UnknownInv'
<1> SUFFICES ASSUME NEW c \in Caller, CloudInv, RenameKeyFile(c)
             PROVE LockInv' /\ MintInv' /\ UnknownInv'
  OBVIOUS
<1> USE DEF CloudInv, CloudTypeOK
<1>1. Alone(c) /\ at[c] \in Holding
  BY StoreIsAlone DEF StoreStep, RenameKeyFile, Holding
<1>2. /\ lockFile
      /\ \A d \in Caller \ {c} : at[d] \notin Holding /\ told[d] # "unknown"
  BY <1>1, HolderIsAlone
<1>3. \A d \in Caller : /\ at'[d] \in Holding => d = c
                        /\ d # c => told'[d] = told[d]
                        /\ d # c => told'[d] # "unknown"
  BY <1>1, <1>2 DEF Alone
<1>4. /\ UNCHANGED <<lockFile, minted>> /\ at'[c] = "unlock"
      /\ at[c] = "rename" /\ told[c] # "unknown" /\ c \in preserve
      /\ \/ /\ keyFile' /\ told'[c] = "key" /\ preserve' = preserve \ {c}
         \/ /\ keyFile' = keyFile /\ told'[c] = "unknown"
            /\ preserve' = preserve
  BY DEF RenameKeyFile, Goto, UnknownInv, MintInv
<1>5. LockInv'
  BY <1>2, <1>3, <1>4 DEF LockInv
<1>6. MintInv'
  BY <1>2, <1>3, <1>4 DEF MintInv, Holding
<1>7. UnknownInv'
  BY <1>2, <1>3, <1>4 DEF UnknownInv, Holding
<1> QED
  BY <1>5, <1>6, <1>7

\* The lock goes only when no mint is outstanding.
LEMMA LockReleased ==
  \A c \in Caller :
    CloudInv /\ ReleaseLockFile(c) => LockInv' /\ MintInv' /\ UnknownInv'
<1> SUFFICES ASSUME NEW c \in Caller, CloudInv, ReleaseLockFile(c)
             PROVE LockInv' /\ MintInv' /\ UnknownInv'
  OBVIOUS
<1> USE DEF CloudInv, CloudTypeOK
<1>1. Alone(c) /\ at[c] \in Holding
  BY StoreIsAlone DEF StoreStep, ReleaseLockFile, Holding
<1>2. /\ lockFile
      /\ \A d \in Caller \ {c} : at[d] \notin Holding /\ told[d] # "unknown"
  BY <1>1, HolderIsAlone
<1>3. \A d \in Caller : /\ at'[d] \in Holding => d = c
                        /\ d # c => told'[d] = told[d]
                        /\ d # c => told'[d] # "unknown"
  BY <1>1, <1>2 DEF Alone
<1>4. /\ UNCHANGED <<keyFile, minted, preserve>>
      /\ at[c] = "unlock" /\ at'[c] = "done" /\ told'[c] = told[c]
      /\ c \in preserve => lockFile'
  BY <1>2 DEF ReleaseLockFile, Goto
<1>5. LockInv'
  BY <1>2, <1>3, <1>4 DEF LockInv, Holding
<1>6. MintInv'
  BY <1>2, <1>3, <1>4 DEF MintInv, Holding
<1>7. UnknownInv'
  BY <1>2, <1>3, <1>4 DEF UnknownInv, Holding
<1> QED
  BY <1>5, <1>6, <1>7

LEMMA StoreKeeps == \A c \in Caller : CloudInv /\ StoreStep(c) => CloudInv'
<1> SUFFICES ASSUME NEW c \in Caller, CloudInv, StoreStep(c) PROVE CloudInv'
  OBVIOUS
<1>1. CloudTypeOK' /\ ProofInv'
  BY StoreTypes, StoreProves
<1>2. LockInv' /\ MintInv' /\ UnknownInv'
  BY LockTaken, KeyRead, FileOpened, KeyMinted, KeyRenamed, LockReleased
     DEF StoreStep
<1> QED
  BY <1>1, <1>2 DEF CloudInv

-----------------------------------------------------------------------------
(* What else happens: a command is killed, the Host restarts or writes its *)
(* discovery file.                                                         *)

\* A killed command leaves its lock file, so nobody mints after it.
LEMMA KillKeeps == \A c \in Caller : CloudInv /\ CallerKilled(c) => CloudInv'
<1> SUFFICES ASSUME NEW c \in Caller, CloudInv, CallerKilled(c)
             PROVE CloudInv'
  OBVIOUS
<1> USE DEF CloudInv
<1>1. /\ UNCHANGED <<hostVars, storeVars, proof, preserve, told>>
      /\ at' = [at EXCEPT ![c] = "done"]
  BY DEF CallerKilled, Goto
<1>2. /\ at' \in [Caller -> Looking \cup {"lock"} \cup Holding \cup {"done"}]
      /\ at'[c] = "done" /\ \A d \in Caller \ {c} : at'[d] = at[d]
  BY <1>1 DEF CloudTypeOK
<1>3. CloudTypeOK'
  BY <1>1, <1>2 DEF CloudTypeOK, hostVars, storeVars
<1>4. Alone(c) /\ SeenInOrder(proof'[c], at'[c])
  BY <1>1, <1>2 DEF Alone, SeenInOrder, Holding, hostVars
<1>5. ProofInv'
  BY <1>4, OneProofMoves
<1>6. \A d \in Caller : at'[d] \in Holding => d # c /\ at[d] = at'[d]
  BY <1>2 DEF Holding
<1>7. LockInv'
  BY <1>1, <1>6 DEF LockInv, storeVars
<1>8. MintInv'
  BY <1>1, <1>6 DEF MintInv, storeVars, Holding
<1>9. UnknownInv'
  BY <1>1, <1>2, <1>6 DEF UnknownInv, storeVars
<1> QED
  BY <1>3, <1>5, <1>7, <1>8, <1>9

\* Nothing that was seen is of a later Host than the one that runs.
LEMMA HostKeeps ==
  CloudInv /\ (HostRestarts \/ HostWritesDiscovery) => CloudInv'
<1> SUFFICES ASSUME CloudInv, HostRestarts \/ HostWritesDiscovery
             PROVE CloudInv'
  OBVIOUS
<1> USE DEF CloudInv
<1>1. /\ UNCHANGED <<storeVars, at, proof, preserve, told>>
      /\ host' \in Nat /\ host <= host' /\ hostFile' \in Nat
  BY DEF HostRestarts, HostWritesDiscovery, CloudTypeOK
<1>2. CloudTypeOK'
  BY <1>1 DEF CloudTypeOK, storeVars
<1>3. ASSUME NEW c \in Caller PROVE SeenInOrder(proof[c], at[c])'
  <2>1. proof[c] \in Proof /\ host \in Nat
    BY DEF CloudTypeOK
  <2>2. SeenInOrder(proof[c], at[c])
    BY DEF ProofInv
  <2> QED
    BY <1>1, <2>1, <2>2 DEF SeenInOrder, Proof
<1>4. ProofInv'
  BY <1>3 DEF ProofInv
<1>5. LockInv' /\ MintInv' /\ UnknownInv'
  BY <1>1 DEF LockInv, MintInv, UnknownInv, storeVars
<1> QED
  BY <1>2, <1>4, <1>5

LEMMA CloudKeeps == CloudInv /\ [CloudNext]_cloudVars => CloudInv'
<1> SUFFICES ASSUME CloudInv, [CloudNext]_cloudVars PROVE CloudInv'
  OBVIOUS
<1>1. CASE \E c \in Caller : LookStep(c) \/ StoreStep(c) \/ CallerKilled(c)
  BY <1>1, LookKeeps, StoreKeeps, KillKeeps
<1>2. CASE HostRestarts \/ HostWritesDiscovery
  BY <1>2, HostKeeps
<1>3. CASE UNCHANGED cloudVars
  BY <1>3 DEF cloudVars, hostVars, storeVars, CloudInv, CloudTypeOK, ProofInv,
              SeenInOrder, LockInv, MintInv, UnknownInv
<1> QED
  BY <1>1, <1>2, <1>3 DEF CloudNext, LookStep, StoreStep

-----------------------------------------------------------------------------
\* Type correctness of the webhook credential commands and their store, for
\* any number of commands and of Host restarts.
THEOREM CloudTypeCorrect == CloudSpec => []CloudTypeOK
<1>1. CloudInv => CloudTypeOK
  BY DEF CloudInv
<1> QED
  BY <1>1, CloudInitially, CloudKeeps, PTL DEF CloudSpec

\* cachedWebhookKey (src/src/server-routines.ts:501) mints at most one key for
\* a routine and keeps the lock of a mint nobody has heard of, and it is only
\* reached with the proof of one Host (resolveBoxRoutineAuth), however many
\* commands run, are killed and find the Host restarted under them.
THEOREM KeyMintedOnce == CloudSpec => []MintedOnce
<1>1. CloudInv => MintedOnce
  <2> SUFFICES ASSUME CloudInv PROVE MintedOnce
    OBVIOUS
  <2>1. minted <= 1
    BY DEF CloudInv, MintInv
  <2>2. ASSUME NEW c \in Caller
        PROVE /\ told[c] = "key" => keyFile
              /\ told[c] = "unknown" => lockFile
    BY DEF CloudInv, UnknownInv
  <2>3. ASSUME NEW c \in Caller,
               at[c] \in {"lock", "cached", "temporary", "mint", "rename"}
        PROVE /\ proof[c].environment = proof[c].process
              /\ proof[c].environment = proof[c].file
    BY <2>3 DEF CloudInv, ProofInv, SeenInOrder, Holding
  <2> QED
    BY <2>1, <2>2, <2>3 DEF MintedOnce
<1> QED
  BY <1>1, CloudInitially, CloudKeeps, PTL DEF CloudSpec
=============================================================================
