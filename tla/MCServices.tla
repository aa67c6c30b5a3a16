----------------------------- MODULE MCServices -----------------------------
(***************************************************************************)
(* One run for seven services that share no state: `service` chooses one   *)
(* of them, the others stay in one initial state of theirs.                *)
(***************************************************************************)
EXTENDS Downloads, Gateway, Exec, Desktop, Routines, CloudRoutines, Bootstrap

CONSTANTS x, y, r1, r2
VARIABLE service

Service == {"downloads", "gateway", "exec", "desktop", "routines", "cloud",
            "bootstrap"}

MCInit ==
  /\ service \in Service
  /\ DownloadsInit /\ ExecInit
  /\ DesktopInit /\ (service # "desktop" => floor = {} /\ ~enabled)
  /\ CloudInit /\ (service # "cloud" => hostFile = 1)
  /\ BootstrapInit /\ (service # "bootstrap" => made = 1)
  /\ RoutinesInit
  /\ service # "routines" =>
       /\ routines = [r \in Routine |-> NoRoutine]
       /\ plan = [action |-> "create", id |-> r1,
                  expect |-> [text |-> "old", on |-> FALSE],
                  pinned |-> TRUE]
  /\ GatewayInit
  /\ service # "gateway" =>
       /\ profile = [transport |-> "local", server |-> FALSE,
                     static |-> FALSE, remote |-> FALSE, write |-> FALSE,
                     expects |-> "nothing"]
       /\ localDaemon = "up" /\ discovery["local"].there

Only(s) ==
  /\ service = s /\ UNCHANGED service
  /\ s # "downloads" => UNCHANGED downloadVars
  /\ s # "gateway" => UNCHANGED gatewayVars
  /\ s # "exec" => UNCHANGED execVars
  /\ s # "desktop" => UNCHANGED desktopVars
  /\ s # "routines" => UNCHANGED routinesVars
  /\ s # "cloud" => UNCHANGED cloudVars
  /\ s # "bootstrap" => UNCHANGED bootstrapVars

MCNext ==
  \/ Only("downloads") /\ DownloadsNext
  \/ Only("gateway") /\ GatewayNext
  \/ Only("exec") /\ ExecNext
  \/ Only("desktop") /\ DesktopNext
  \/ Only("routines") /\ RoutinesNext
  \/ Only("cloud") /\ CloudNext
  \/ Only("bootstrap") /\ BootstrapNext

MCSpec ==
  MCInit /\ [][MCNext]_<<service, downloadVars, gatewayVars, execVars,
                         desktopVars, routinesVars, cloudVars, bootstrapVars>>
=============================================================================
