------------------------------ MODULE Gateway -------------------------------
(***************************************************************************)
(* One request of a command to the Grok Gateway (src/src/gateway.ts): the  *)
(* choice of a route from the Profile's transport, the discovery that is   *)
(* read before every attempt, the bearer token in it, the second attempt   *)
(* and what the command tells its user.                                    *)
(*                                                                         *)
(* There are three Gateways a request can end at: the box's own ("local"), *)
(* the one of the Profile's URL ("explicit") and the one of a remote       *)
(* daemon ("far"). A daemon on the route sends the request with the same   *)
(* client, and goes on when the command no longer waits for it.            *)
(*                                                                         *)
(* A Gateway's generation (pid and start time) and its bearer token are    *)
(* two things: a Gateway that restarts may come back with the token it     *)
(* had, with an earlier one or with a new one, and the client compares     *)
(* them apart. Nothing tells the generation of a URL with a static token.  *)
(***************************************************************************)
EXTENDS Naturals, Sequences

CONSTANTS Restarts  \* restarts of each Gateway (bound)

ASSUME GatewayAssumption == Restarts \in Nat

Site == {"local", "explicit", "far"}
Empty == 0                       \* no token; tokens count from 1
Nowhere == [there |-> FALSE, gen |-> 0, token |-> Empty]

VARIABLES
  profile,   \* transport, what is configured, and the kind of request
  localDaemon, \* what the handshake with the local daemon comes to
  gateway,   \* the generation of each Gateway and the token it accepts
  discovery, \* what the client reads of each of them
  route,     \* where the request is
  site,      \* the Gateway it was selected for
  through,   \* a daemon sends it
  token,     \* the token of the attempt
  rejected,  \* the token a Gateway refused
  attempts,
  response,  \* of the attempt
  adrift,    \* a request without answer that may still arrive
  performed, \* the generations, with tokens, that carried out the write
  verdict    \* what the command told

reachVars == <<profile, localDaemon, gateway, discovery>>
tryVars == <<token, rejected, attempts, response, adrift>>
gatewayVars == <<reachVars, route, site, through, tryVars, performed, verdict>>

Profile == [transport : {"local", "gateway", "daemon", "auto"},
            server : BOOLEAN, static : BOOLEAN, remote : BOOLEAN,
            write : BOOLEAN, expects : {"nothing", "untold"} \cup Site]

\* A routine write expects the generation that the reads of its command were
\* told of: the first one of a Gateway, or 0:0 of a URL with a static token.
\* What a transport never looks at is left unset.
URL(p) == IF p.static THEN "untold" ELSE "explicit"
Reads(p) ==
  CASE p.transport = "local" -> {"local"}
    [] p.transport = "gateway" -> {IF p.server THEN URL(p) ELSE "local"}
    [] p.transport = "daemon" -> {IF p.remote THEN "far" ELSE "local"}
    [] OTHER -> {"local"} \cup (IF p.remote THEN {"far"} ELSE {})
                          \cup (IF p.server THEN {URL(p)} ELSE {})
Sound(p) ==
  /\ p.static => p.server
  /\ p.server => p.transport \in {"gateway", "auto"}
  /\ p.remote => p.transport \in {"daemon", "auto"}
  /\ p.expects # "nothing" => p.write /\ p.expects \in Reads(p)

\* What a look at the Gateway's discovery, or at the Profile, tells now.
Unpinned(s) == s = "explicit" /\ profile.static
Told(s) == [there |-> TRUE, token |-> gateway[s].token,
            gen |-> IF Unpinned(s) THEN 0 ELSE gateway[s].gen]

GatewayInit ==
  /\ profile \in {p \in Profile : Sound(p)}
  /\ localDaemon \in {"up", "poor", "down", "broken"}
  /\ gateway = [s \in Site |-> [gen |-> 1, token |-> 1]]
  /\ \E known \in BOOLEAN :
       discovery = [s \in Site |-> IF s = "local" /\ ~known THEN Nowhere
                                   ELSE Told(s)]
  /\ route = "choose" /\ site = "none" /\ through = FALSE
  /\ token = Empty /\ rejected = Empty /\ attempts = 0
  /\ response = "none" /\ adrift = FALSE
  /\ performed = <<>> /\ verdict = "none"

Finish(result) ==
  /\ route' = "over"
  /\ verdict' = IF verdict = "none" THEN result ELSE verdict

-----------------------------------------------------------------------------
(* daemonFor and load: which Gateway.                                      *)

Select(s, next, daemon) ==
  /\ site' = s /\ route' = next /\ through' = daemon
  /\ UNCHANGED <<reachVars, tryVars, performed, verdict>>

ChooseRoute ==
  /\ route = "choose"
  /\ CASE profile.transport = "local" -> Select("local", "load", FALSE)
       [] profile.transport = "gateway" ->
            Select(IF profile.server THEN "explicit" ELSE "local", "load", FALSE)
       [] profile.transport = "daemon" ->
            Select(IF profile.remote THEN "far" ELSE "local", "handshake", TRUE)
       [] profile.transport = "auto" -> Select("local", "trial", TRUE)

\* transport daemon, or the last resort of auto: no other route is tried.
RequireCapability ==
  /\ route = "handshake"
  /\ \/ /\ site = "far" \/ localDaemon = "up"
        /\ Select(site, "load", TRUE)
     \/ /\ site = "far" \/ localDaemon # "up"
        /\ Finish("failed")
        /\ UNCHANGED <<reachVars, site, through, tryVars, performed>>

\* auto: the local daemon, unless it is down or lacks the capability.
TryLocalDaemon ==
  /\ route = "trial"
  /\ \/ localDaemon = "up" /\ Select("local", "load", TRUE)
     \/ localDaemon \in {"poor", "down"} /\ Select("none", "discover", FALSE)
     \/ /\ localDaemon = "broken"
        /\ Finish("failed")
        /\ UNCHANGED <<reachVars, site, through, tryVars, performed>>

TryDiscovery ==
  /\ route = "discover"
  /\ CASE discovery["local"].there -> Select("local", "load", FALSE)
       [] ~discovery["local"].there /\ profile.remote ->
            Select("far", "handshake", TRUE)
       [] OTHER -> Select(IF profile.server THEN "explicit" ELSE "none",
                          "load", FALSE)

\* load() keeps to what was selected, and selects when nothing was.
Loaded == IF site # "none" THEN site
          ELSE IF ~discovery["local"].there /\ profile.server THEN "explicit"
          ELSE "local"

-----------------------------------------------------------------------------
(* request: at most two attempts.                                          *)

Matches(s) == CASE profile.expects = "nothing" -> TRUE
                [] profile.expects = "untold" -> discovery[s].gen = 0
                [] OTHER -> profile.expects = s /\ discovery[s].gen = 1
FirstOnly(s) == attempts = 0 /\ ~Matches(s)  \* mutant: only the first attempt
WrongGeneration(s) == ~Matches(s)

Refuse(code) == Finish(code) /\ UNCHANGED <<token, attempts, response>>

\* The generation first, then the token that was refused, then any token.
Load ==
  /\ route = "load"
  /\ LET s == Loaded IN
     /\ site' = s
     /\ \/ ~discovery[s].there /\ Refuse("failed")
        \/ discovery[s].there /\ WrongGeneration(s) /\ Refuse("conflict")
        \/ /\ discovery[s].there /\ ~WrongGeneration(s)
           /\ attempts > 0 /\ discovery[s].token = rejected
           /\ Refuse("unauthorized")
        \/ /\ discovery[s].there /\ ~WrongGeneration(s)
           /\ discovery[s].token = Empty
           /\ Refuse("failed")
        \/ /\ discovery[s].there /\ ~WrongGeneration(s)
           /\ discovery[s].token \notin {rejected, Empty}
           /\ token' = discovery[s].token
           /\ attempts' = attempts + 1
           /\ response' = "none"
           /\ route' = "sent"
           /\ UNCHANGED verdict
  /\ UNCHANGED <<reachVars, through, rejected, adrift, performed>>

\* The Gateway takes the request; a write that it accepts is carried out.
Serve(s) ==
  IF token # gateway[s].token THEN {<<"unauthorized", FALSE>>}
  ELSE {<<"ok", profile.write>>, <<"failed", FALSE>>, <<"internal", FALSE>>,
        <<"internal", profile.write>>}
Performs(yes) == performed' = IF yes THEN Append(performed, gateway[site])
                              ELSE performed

GatewayAnswers ==
  /\ route = "sent" /\ response = "none"
  /\ \E r \in Serve(site) :
       /\ response' \in {r[1], "lost"}
       /\ Performs(r[2])
  /\ UNCHANGED <<reachVars, route, site, through, token, rejected, attempts,
                 adrift, verdict>>

\* A timeout or a broken connection while the request is on its way.
RequestLost ==
  /\ route = "sent" /\ response = "none"
  /\ response' = "lost" /\ adrift' = TRUE
  /\ UNCHANGED <<reachVars, route, site, through, token, rejected, attempts,
                 performed, verdict>>

LateArrival ==
  /\ adrift
  /\ adrift' = FALSE
  /\ \E r \in Serve(site) : Performs(r[2])
  /\ UNCHANGED <<reachVars, route, site, through, token, rejected, attempts,
                 response, verdict>>

LostIsUnknown == profile.write

Interpret ==
  /\ route = "sent" /\ response # "none"
  /\ \/ /\ response = "unauthorized" /\ attempts = 1
        /\ rejected' = token /\ route' = "load" /\ UNCHANGED verdict
     \/ /\ response = "lost" /\ ~LostIsUnknown /\ attempts = 1
        /\ route' = "load" /\ UNCHANGED <<rejected, verdict>>
     \/ /\ response # "lost"
        /\ response = "unauthorized" => attempts > 1
        /\ Finish(response) /\ UNCHANGED rejected
     \/ /\ response = "lost"
        /\ LostIsUnknown \/ attempts > 1
        /\ Finish(IF LostIsUnknown THEN "unknown" ELSE "unreachable")
        /\ UNCHANGED rejected
  /\ UNCHANGED <<reachVars, site, through, token, attempts, response, adrift,
                 performed>>

\* The command stops waiting for the daemon, which goes on.
DaemonAnswerLost ==
  /\ through /\ route \in {"load", "sent"} /\ verdict = "none"
  /\ verdict' = IF profile.write THEN "unknown" ELSE "unreachable"
  /\ UNCHANGED <<reachVars, route, site, through, tryVars, performed>>

\* It comes back with the token it had, with an earlier one or a new one.
GatewayRestarts(s) ==
  /\ gateway[s].gen <= Restarts
  /\ \E held \in 1 .. gateway[s].gen + 1 :
       gateway' = [gateway EXCEPT ![s] = [gen |-> @.gen + 1, token |-> held]]
  /\ UNCHANGED <<profile, localDaemon, discovery, route, site, through,
                 tryVars, performed, verdict>>

\* The Gateway writes its discovery file, without a token or with it, or
\* removes it; or the secret that a token reference names is replaced.
DiscoveryChanges(s) ==
  /\ \E look \in {Nowhere, Told(s), [Told(s) EXCEPT !.token = Empty]} :
       look # discovery[s] /\ discovery' = [discovery EXCEPT ![s] = look]
  /\ UNCHANGED <<profile, localDaemon, gateway, route, site, through, tryVars,
                 performed, verdict>>

\* Only what the request will look at needs to move.
InPlay == IF site = "none" THEN {"local"} ELSE {site}

GatewayNext ==
  \/ ChooseRoute \/ RequireCapability \/ TryLocalDaemon \/ TryDiscovery
  \/ Load \/ GatewayAnswers \/ RequestLost \/ LateArrival \/ Interpret
  \/ DaemonAnswerLost
  \/ \E s \in InPlay :
       \/ (route \in {"load", "sent"} \/ adrift) /\ GatewayRestarts(s)
       \/ route # "over" /\ DiscoveryChanges(s)

GatewaySpec == GatewayInit /\ [][GatewayNext]_gatewayVars

\* A write is carried out at most once whatever routes, attempts and lost
\* answers there were. If it expects a generation, only the Gateway it knows
\* carries it out, in that generation or in one that has the same token: the
\* generation is compared before the request leaves, and a restart can still
\* come in between. (Nothing is compared behind a static token reference.) A
\* token that was refused is not sent again, whatever else has changed. "ok"
\* means that the write was carried out, and an error other than "unknown"
\* and the Gateway's own "internal" that it was not and will not be.
WriteVerdict ==
  /\ Len(performed) <= 1
  /\ profile.expects \in Site /\ performed # <<>> =>
       site = profile.expects /\ performed[1].token = 1
  /\ route = "sent" => token # rejected
  /\ profile.write /\ verdict = "ok" => performed # <<>>
  /\ verdict \in {"failed", "conflict", "unauthorized", "unreachable"}
       => performed = <<>> /\ (profile.write => ~adrift)
=============================================================================
