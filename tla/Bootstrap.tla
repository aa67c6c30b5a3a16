------------------------------ MODULE Bootstrap -----------------------------
(***************************************************************************)
(* `grokbox init --bootstrap` and `daemon ensure --bootstrap`, which       *)
(* install a daemon with a new credential on a box and undo what they did  *)
(* when a later step fails (src/src/bootstrap.ts), and `recover` and       *)
(* `daemon ensure`, which only restart what is installed                   *)
(* (src/src/commands/recover.ts). A credential is the number of the        *)
(* bootstrap that made it. One command runs at a time; it may be killed    *)
(* between any two steps, and a remote script that failed has ended.       *)
(***************************************************************************)
EXTENDS Naturals

CONSTANTS
  Bootstraps,  \* credentials that are ever made (bound)
  Reboots      \* restarts of the box (bound)

ASSUME BootstrapAssumption == Bootstraps \in Nat \ {0} /\ Reboots \in Nat

VARIABLES
  boxConfig,     \* the daemon's configuration file: credential and policy
  daemonToken,   \* what the running daemon accepts, 0 if none runs
  mapping,       \* what Tailscale Serve has at the port
  savedConfig,   \* the copy for the rollback
  profileToken,  \* what daemon_token_ref names, 0 without a Profile
  secretFile,    \* the file of every credential
  made,          \* credentials made so far
  stage,         \* how far the command is
  wanted,        \* the command's arguments: --admit-home-read
  prior,         \* what it found when it began
  mappingBack,   \* serveRestored
  result,        \* what the last command told
  steady,        \* the box has not restarted since it began
  reboots

boxVars == <<boxConfig, daemonToken, mapping, savedConfig>>
laptopVars == <<profileToken, secretFile, made>>
toldVars == <<wanted, prior, result, steady, reboots>>
bootstrapVars == <<boxVars, laptopVars, stage, mappingBack, toldVars>>

NoConfig == [token |-> 0, policy |-> {}]
Installed == boxConfig # NoConfig
Found == [config |-> boxConfig, daemon |-> daemonToken, mapping |-> mapping,
          profile |-> profileToken]

\* A box nobody bootstrapped, or one that credential 1 works for.
BootstrapInit ==
  /\ \/ /\ boxConfig = NoConfig /\ made = 0 /\ mapping \in {"free", "other"}
        /\ secretFile = [n \in 1..Bootstraps |-> "absent"]
     \/ /\ boxConfig = [token |-> 1, policy |-> {"process"}] /\ made = 1
        /\ mapping = "ours"
        /\ secretFile =
             [n \in 1..Bootstraps |-> IF n = 1 THEN "live" ELSE "absent"]
  /\ daemonToken = made /\ profileToken = made
  /\ savedConfig = NoConfig
  /\ stage = "idle" /\ wanted = FALSE /\ prior = Found
  /\ mappingBack = TRUE /\ result = "none" /\ steady = TRUE /\ reboots = 0

EndBootstrap(what) == stage' = "idle" /\ result' = what
Continue(next) == stage' = next /\ UNCHANGED result
Begin ==
  /\ stage = "idle"
  /\ prior' = Found /\ steady' = TRUE /\ UNCHANGED reboots
At(s) == stage = s /\ UNCHANGED <<wanted, prior, steady, reboots>>

-----------------------------------------------------------------------------
(* bootstrapPeerDaemonOperation.                                           *)

\* SSH, Node and the port, which must be free or recorded as ours.
BeginBootstrap ==
  /\ Begin /\ wanted' \in BOOLEAN
  /\ \/ /\ made < Bootstraps /\ made' = made + 1
        /\ mapping = "free" \/ (mapping = "ours" /\ Installed)
        /\ stage' = "secret" /\ result' = "none"
     \/ EndBootstrap("undone") /\ UNCHANGED made
  /\ UNCHANGED <<boxVars, profileToken, secretFile, mappingBack>>

WriteSecret ==
  /\ At("secret")
  /\ \/ /\ secretFile' = [secretFile EXCEPT ![made] = "live"]
        /\ Continue("transfer")
     \/ Continue("revoke") /\ UNCHANGED secretFile
  /\ mappingBack' = TRUE
  /\ UNCHANGED <<boxVars, profileToken, made>>

\* Pack, copy and verify the runtime, then save what is installed.
PrepareRollback ==
  /\ At("transfer")
  /\ \/ savedConfig' = boxConfig /\ Continue("install")
     \/ Continue("revoke") /\ UNCHANGED savedConfig
  /\ UNCHANGED <<boxConfig, daemonToken, mapping, laptopVars, mappingBack>>

\* The policy of the box is kept, the requested root is added to it.
Merged ==
  [token |-> made,
   policy |-> boxConfig.policy \cup (IF wanted THEN {"home"} ELSE {})]

\* It may stop before the file, before the daemon it cannot tell from another
\* process (exit 3), or after that one was ended.
InstallDaemon ==
  /\ At("install")
  /\ \/ /\ boxConfig' = Merged /\ daemonToken' = made
        /\ stage' \in {"serve", "rollback"}
     \/ /\ boxConfig' = Merged /\ daemonToken' \in {daemonToken, 0}
        /\ stage' = "rollback"
     \/ stage' = "rollback" /\ UNCHANGED <<boxConfig, daemonToken>>
  /\ UNCHANGED <<mapping, savedConfig, laptopVars, mappingBack, result>>

ApplyMapping ==
  /\ At("serve")
  /\ \/ mapping' = "ours" /\ stage' \in {"verify", "unmap"}
     \/ stage' = "unmap" /\ UNCHANGED mapping
  /\ UNCHANGED <<boxConfig, daemonToken, savedConfig, laptopVars, mappingBack,
                 result>>

Reaches(token) == daemonToken = token /\ mapping = "ours"

\* A handshake over the mapping with the new credential, and the home root.
VerifyDaemon ==
  /\ At("verify")
  /\ \/ Reaches(made) /\ Continue("profile")
     \/ Continue("unmap")
  /\ UNCHANGED <<boxVars, laptopVars, mappingBack>>

-----------------------------------------------------------------------------
(* Its catch block: the mapping, the daemon, the new credential.           *)

RestoreMapping ==
  /\ At("unmap")
  /\ LET was == IF prior.mapping = "ours" THEN "ours" ELSE "free" IN
       \/ mapping' = was /\ mappingBack' = TRUE
       \/ mapping' \in {mapping, was} /\ mappingBack' = FALSE
  /\ Continue("rollback")
  /\ UNCHANGED <<boxConfig, daemonToken, savedConfig, laptopVars>>

KeptConfig == boxConfig      \* mutant: the new file stays
RollbackConfig == savedConfig

\* Without a saved file the new one is moved away and nothing is started. It
\* may fail before the daemon, after it was ended, or with the file restored.
RollbackDaemon ==
  /\ At("rollback")
  /\ \/ /\ boxConfig' = RollbackConfig
        /\ daemonToken' = RollbackConfig.token /\ Continue("revoke")
     \/ /\ daemonToken' \in {daemonToken, 0} /\ Continue("revoke-failed")
        /\ UNCHANGED boxConfig
     \/ /\ savedConfig # NoConfig /\ boxConfig' = RollbackConfig
        /\ daemonToken' \in {0, RollbackConfig.token}
        /\ Continue("revoke-failed")
  /\ UNCHANGED <<mapping, savedConfig, laptopVars, mappingBack>>

\* The secret file may fail to be replaced: then that is the error told.
RevokeSecret ==
  /\ \/ At("revoke")
     \/ At("revoke-failed")
  /\ \/ /\ secretFile' = [secretFile EXCEPT ![made] = "revoked"]
        /\ IF stage = "revoke" /\ mappingBack
           THEN EndBootstrap("undone") ELSE EndBootstrap("broken")
     \/ EndBootstrap("broken") /\ UNCHANGED secretFile
  /\ UNCHANGED <<boxVars, profileToken, made, mappingBack>>

-----------------------------------------------------------------------------
(* The command's own steps after it.                                       *)

WriteProfile ==
  /\ At("profile")
  /\ \/ profileToken' = made /\ Continue("retire")
     \/ EndBootstrap("late") /\ UNCHANGED profileToken
  /\ UNCHANGED <<boxVars, secretFile, made, mappingBack>>

\* init also asks for the health of the box before it tells.
RetireSecret ==
  /\ At("retire")
  /\ \/ /\ secretFile' = IF prior.profile = 0 THEN secretFile
                         ELSE [secretFile EXCEPT ![prior.profile] = "revoked"]
        /\ \/ EndBootstrap("late")
           \/ EndBootstrap("bootstrapped")
     \/ EndBootstrap("late") /\ UNCHANGED secretFile
  /\ UNCHANGED <<boxVars, profileToken, made, mappingBack>>

-----------------------------------------------------------------------------
(* recover, and daemon ensure without --bootstrap.                         *)

Works == profileToken # 0 /\ Reaches(profileToken)

\* A credential that does not resolve or that the daemon refuses ends it. A
\* connection, the box or its Gateway may fail whatever the daemon does.
BeginRecover ==
  /\ Begin /\ UNCHANGED wanted
  /\ \/ Works /\ EndBootstrap("recovered")
     \/ EndBootstrap("not-recovered")
     \/ /\ profileToken # 0 /\ secretFile[profileToken] = "live"
        /\ result' = "none"
        /\ stage' \in {"remap", "restart"}      \* recover, ensure
  /\ UNCHANGED <<boxVars, laptopVars, mappingBack>>

\* Only the mapping that is recorded, and only over a free port.
RestoreRecordedMapping ==
  /\ At("remap")
  /\ \/ /\ Installed /\ mapping \in {"free", "ours"} /\ mapping' = "ours"
        /\ Continue("restart")
     \/ /\ Installed /\ mapping = "free" /\ mapping' = "ours"
        /\ EndBootstrap("not-recovered")
     \/ EndBootstrap("not-recovered") /\ UNCHANGED mapping
  /\ UNCHANGED <<boxConfig, daemonToken, savedConfig, laptopVars, mappingBack>>

\* The daemon that is installed, as it is configured.
EnsureInstalledDaemon ==
  /\ At("restart")
  /\ \/ daemonToken # 0 /\ Continue("doctor") /\ UNCHANGED daemonToken
     \/ /\ daemonToken = 0 /\ Installed
        /\ daemonToken' = boxConfig.token
        /\ Continue("doctor") \/ EndBootstrap("not-recovered")
     \/ EndBootstrap("not-recovered") /\ UNCHANGED daemonToken
  /\ UNCHANGED <<boxConfig, mapping, savedConfig, laptopVars, mappingBack>>

FinalDoctor ==
  /\ At("doctor")
  /\ \/ Works /\ EndBootstrap("recovered")
     \/ EndBootstrap("not-recovered")
  /\ UNCHANGED <<boxVars, laptopVars, mappingBack>>

-----------------------------------------------------------------------------
BootstrapKilled ==
  /\ stage # "idle" /\ EndBootstrap("killed")
  /\ UNCHANGED <<boxVars, laptopVars, mappingBack, wanted, prior, steady,
                 reboots>>

\* The daemon is gone; the mapping may be.
BoxRestarts ==
  /\ reboots < Reboots /\ reboots' = reboots + 1
  /\ daemonToken' = 0 /\ steady' = FALSE
  /\ mapping' \in {mapping, IF mapping = "ours" THEN "free" ELSE mapping}
  /\ UNCHANGED <<boxConfig, savedConfig, laptopVars, stage, mappingBack,
                 wanted, prior, result>>

BootstrapNext ==
  \/ BeginBootstrap \/ WriteSecret \/ PrepareRollback
  \/ InstallDaemon \/ ApplyMapping \/ VerifyDaemon
  \/ RestoreMapping \/ RollbackDaemon \/ RevokeSecret
  \/ WriteProfile \/ RetireSecret
  \/ BeginRecover \/ RestoreRecordedMapping \/ EnsureInstalledDaemon
  \/ FinalDoctor
  \/ BootstrapKilled \/ BoxRestarts

BootstrapSpec == BootstrapInit /\ [][BootstrapNext]_bootstrapVars

\* Whatever fails, is killed or restarts, the Profile never names a retired
\* credential. A command that tells success leaves a daemon that the Profile's
\* credential reaches and, after a bootstrap, the policy the box had. A
\* bootstrap whose error does not say that the rollback failed leaves the file,
\* the mapping and a daemon that ran by that file as they were.
StillReachable ==
  /\ profileToken # 0 => secretFile[profileToken] = "live"
  /\ result \in {"bootstrapped", "recovered"} /\ steady => Works
  /\ result = "bootstrapped" =>
       /\ boxConfig.token = profileToken
       /\ prior.config.policy \subseteq boxConfig.policy
       /\ wanted => "home" \in boxConfig.policy
  /\ result = "undone" =>
       /\ boxConfig = prior.config /\ profileToken = prior.profile
       /\ steady => mapping = prior.mapping
       /\ steady /\ prior.daemon = prior.config.token =>
            daemonToken = prior.daemon
=============================================================================
