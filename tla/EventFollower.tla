---------------------------- MODULE EventFollower ----------------------------
(***************************************************************************)
(* `grokbox events` on a daemon Profile (src/src/commands/events.ts): a    *)
(* loop of long polls over a connection that may be lost, the validation   *)
(* of each page and the lines printed. A run that ends may be repeated     *)
(* with the last cursor printed; one with --once ends after a line, as any *)
(* run may.                                                                *)
(*                                                                         *)
(* Time: a tick passes only when no message is under way and no wait is    *)
(* due, so a deadline that expires is not the fault of the network.        *)
(***************************************************************************)
EXTENDS EventJournal

VARIABLES
  client,    \* where the loop of each follower stands
  cursor,    \* its cursor
  page,      \* what it still has to print
  printed,   \* the lines printed by all its runs
  why        \* how its last run ended

clientVars == <<client, cursor, page, printed, why>>
vars == <<journalVars, clientVars>>

Line == [kind : {"event", "gap"}, gen : Generation, seq : Nat]
Ends == {"none", "stopped", "lost", "refused", "invalid", "deadline"}

TypeOK ==
  /\ JournalTypeOK
  /\ client \in [Follower -> {"idle", "polling", "printing", "ended"}]
  /\ cursor \in [Follower -> Cursor \cup {None}]
  /\ page \in [Follower -> Page \cup {None}]
  /\ printed \in [Follower -> Seq(Line)]
  /\ why \in [Follower -> Ends]

-----------------------------------------------------------------------------
Poll(f) ==
  /\ client[f] = "idle" /\ daemon # "down"
  /\ client' = [client EXCEPT ![f] = "polling"]
  /\ request' = [request EXCEPT ![f] = [NoRequest EXCEPT !.step = "sent",
                                                         !.cursor = cursor[f]]]
  /\ UNCHANGED <<daemon, gen, log, first, waiters, ghosts, cursor, page,
                 printed, why>>

End(f, reason) ==
  /\ client' = [client EXCEPT ![f] = "ended"]
  /\ why' = [why EXCEPT ![f] = reason]
  /\ page' = [page EXCEPT ![f] = None]
  /\ UNCHANGED <<cursor, printed>>

\* What the client demands of a page before it prints any of it.
GapIsValid(c, p) ==
  /\ c # None /\ p.gap.requested = c
  /\ p.gap.oldest >= 1 /\ p.seq >= p.gap.oldest - 1
  /\ (p.gap.reason = "daemon_generation_changed") <=> (c.gen # p.gen)
CursorIsValid(c, p) == c # None => c.gen = p.gen /\ p.seq >= c.seq

IsValid(c, p) ==
  LET lower == IF p.gap # None THEN p.gap.oldest - 1
               ELSE IF c # None THEN c.seq ELSE 0
  IN /\ IF p.gap # None THEN GapIsValid(c, p) ELSE CursorIsValid(c, p)
     /\ p.events \subseteq (lower + 1)..p.seq

Receive(f) ==
  LET p == request[f].page IN
  /\ client[f] = "polling" /\ request[f].step = "answered"
  /\ request' = [request EXCEPT ![f] = NoRequest]
  /\ IF IsValid(cursor[f], p)
     THEN /\ client' = [client EXCEPT ![f] = "printing"]
          /\ page' = [page EXCEPT ![f] = p]
          /\ UNCHANGED <<cursor, printed, why>>
     ELSE End(f, "invalid")
  /\ UNCHANGED <<daemon, gen, log, first, waiters, ghosts>>

Refused(f) ==
  /\ client[f] = "polling" /\ request[f].step = "refused"
  /\ request' = [request EXCEPT ![f] = NoRequest]
  /\ End(f, "refused")
  /\ UNCHANGED <<daemon, gen, log, first, waiters, ghosts>>

\* The client leaves; a wait of its own is ended by the abort, or stays.
Leave(f, reason) ==
  /\ client[f] = "polling"
  /\ End(f, reason)
  /\ request' = [request EXCEPT ![f] = NoRequest]
  /\ waiters' = waiters \ {f}
  /\ \/ ghosts' = ghosts
     \/ f \in waiters /\ ghosts' = ghosts + 1
  /\ UNCHANGED <<daemon, gen, log, first>>

\* The connection fails, or the deadline of the request, --timeout-ms, has
\* come, which counts from before the wait.
Lost(f) ==
  Leave(f, IF request[f].waited >= Timeout THEN "deadline" ELSE "lost")

Stop(f) ==
  /\ client[f] \in {"idle", "printing"}
  /\ End(f, "stopped")
  /\ UNCHANGED journalVars

Emit(f, line, rest) ==
  /\ printed' = [printed EXCEPT ![f] = Append(@, line)]
  /\ page' = [page EXCEPT ![f] = rest]
  /\ UNCHANGED <<journalVars, client, cursor, why>>

EmitGap(f) ==
  LET p == page[f] IN
  /\ client[f] = "printing" /\ p.gap # None
  /\ Emit(f, [kind |-> "gap", gen |-> p.gen, seq |-> p.gap.oldest - 1],
           [p EXCEPT !.gap = None])

EmitEvent(f) ==
  LET p == page[f]
      n == Min(p.events)
  IN
  /\ client[f] = "printing" /\ p.gap = None /\ p.events # {}
  /\ Emit(f, [kind |-> "event", gen |-> p.gen, seq |-> n],
           [p EXCEPT !.events = @ \ {n}])

PageDone(f) ==
  LET p == page[f] IN
  /\ client[f] = "printing" /\ p.gap = None /\ p.events = {}
  /\ cursor' = [cursor EXCEPT ![f] = [gen |-> p.gen, seq |-> p.seq]]
  /\ page' = [page EXCEPT ![f] = None]
  /\ client' = [client EXCEPT ![f] = "idle"]
  /\ UNCHANGED <<journalVars, printed, why>>

Rerun(f) ==
  /\ client[f] = "ended" /\ daemon # "down"
  /\ client' = [client EXCEPT ![f] = "idle"]
  /\ why' = [why EXCEPT ![f] = "none"]
  /\ cursor' = [cursor EXCEPT ![f] =
       IF printed[f] = <<>> THEN None
       ELSE [gen |-> Last(printed[f]).gen, seq |-> Last(printed[f]).seq]]
  /\ UNCHANGED <<journalVars, page, printed>>

Tick ==
  LET waiting == {f \in Follower : request[f].step = "waiting"} IN
  /\ waiting # {}
  /\ \A f \in Follower :
       /\ request[f].step \in {"none", "waiting"}
       /\ f \in waiting => /\ client[f] = "polling"
                           /\ request[f].waited < Min({WaitTime, Timeout})
  /\ request' = [f \in Follower |->
                   IF f \in waiting THEN [request[f] EXCEPT !.waited = @ + 1]
                   ELSE request[f]]
  /\ UNCHANGED <<daemon, gen, log, first, waiters, ghosts, clientVars>>

-----------------------------------------------------------------------------
Init ==
  /\ JournalInit
  /\ client = [f \in Follower |-> "idle"]
  /\ cursor = [f \in Follower |-> None]
  /\ page = [f \in Follower |-> None]
  /\ printed = [f \in Follower |-> <<>>]
  /\ why = [f \in Follower |-> "none"]

Following(f) ==
  Poll(f) \/ Receive(f) \/ EmitGap(f) \/ EmitEvent(f) \/ PageDone(f)

Leaving(f) == Refused(f) \/ Lost(f) \/ Stop(f) \/ Rerun(f)

Next ==
  \/ JournalNext /\ UNCHANGED clientVars
  \/ \E f \in Follower : Following(f) \/ Leaving(f)
  \/ Tick

Spec == Init /\ [][Next]_vars

(* The daemon answers what it was asked and can answer, each client goes   *)
(* on with its loop, and a request that died with the daemon fails. Nobody *)
(* needs to publish, to fail otherwise or to return.                       *)
Fairness ==
  \A f \in Follower :
    /\ WF_vars(Reading(f) /\ UNCHANGED clientVars)
    /\ WF_vars(\/ Following(f) \/ Refused(f)
               \/ request[f].step = "none" /\ Lost(f))

FairSpec == Spec /\ Fairness

-----------------------------------------------------------------------------
\* The pages of the journal and the checks of the client were written
\* apart: no honest page is rejected, and no cursor printed is ever ahead.
PagesAccepted ==
  \A f \in Follower :
    /\ why[f] # "invalid"
    /\ request[f].step = "sent" /\ request[f].cursor # None
         /\ request[f].cursor.gen = gen => request[f].cursor.seq <= sequence

\* Every waiting read holds a waiter, no other does, and with the waits of
\* clients that are gone they stay within the limit.
WaitersBounded ==
  /\ waiters = {f \in Follower : request[f].step = "waiting"}
  /\ Cardinality(waiters) + ghosts <= WaiterLimit

\* A quiet feed is no failure: while the connection holds and the daemon is
\* there, the long poll of a follower ends before its deadline does.
QuietFollowerSurvives == \A f \in Follower : why[f] # "deadline"

\* Every follower that keeps running, of a daemon that stays, passes each
\* event; no wake-up is lost, since no timer is assumed to help.
FollowerCatchesUp ==
  \A f \in Follower, n \in 1..MaxEvents :
    (daemon # "down" /\ client[f] # "ended" /\ n <= sequence) ~>
      \/ daemon = "down" \/ client[f] = "ended"
      \/ cursor[f] # None /\ cursor[f].gen = gen /\ cursor[f].seq >= n

\* The lines printed are a feed: nothing wanted is missing without a gap,
\* nothing is repeated or out of order, over evictions, lost connections,
\* repeated runs and restarts of the daemon.
Passed(f) == IF printed[f] # <<>> \/ cursor[f] = None
             THEN [gen |-> 0, seq |-> 0] ELSE cursor[f]
Feed == INSTANCE EventFeed WITH told <- printed,
                                from <- [f \in Follower |-> Passed(f)]
FeedKept == Feed!Spec
=============================================================================
