---------------------------- MODULE EventJournal ----------------------------
(***************************************************************************)
(* The EventJournal of the daemon (src/src/daemon/events.ts): a bounded    *)
(* memory of what happened in one daemon generation, read by long polls.   *)
(*                                                                         *)
(* The journal is single-threaded: publish() is one step, read() is one    *)
(* step until it waits and one after. An entry is its source; the log      *)
(* keeps the evicted ones too, and the retained ones are its last part.    *)
(*                                                                         *)
(* Bounds: Generations daemon lives, MaxEvents events in each.             *)
(***************************************************************************)
EXTENDS Naturals, FiniteSets, SequencesExt

CONSTANTS
  Follower,      \* the clients that read
  Source,        \* EventSource and "daemon" among them
  Wanted,        \* sources (and channels) asked for by each follower
  None,          \* no cursor, no gap, no page
  JournalLimit,  \* JOURNAL_LIMIT
  MinRetained,   \* entries of the largest size within JOURNAL_BYTES_MAX
  PageLimit,     \* the limit of a page
  WaiterLimit,   \* EVENT_WAITER_LIMIT
  Burst,         \* publications before a woken reader goes on
  LongPoll,      \* the longest wait a client asks for, in ticks
  Timeout,       \* --timeout-ms, in ticks
  Generations,   \* bound on daemon generations
  MaxEvents      \* bound on the events of a generation

ASSUME JournalAssumption ==
  /\ IsFiniteSet(Follower)
  /\ "daemon" \in Source
  /\ Wanted \in [Follower -> SUBSET Source]
  /\ {JournalLimit, MinRetained, PageLimit, WaiterLimit, Burst, LongPoll,
      Timeout, Generations, MaxEvents} \subseteq Nat \ {0}
  /\ Burst <= MinRetained /\ MinRetained <= JournalLimit

Generation == 1..Generations
Cursor == [gen : Generation, seq : Nat]
Gap == [reason : {"daemon_generation_changed", "history_evicted"},
        requested : Cursor, oldest : Nat]

ASSUME NoneAssumption == None \notin Cursor /\ None \notin Gap

VARIABLES
  daemon,    \* the process: "down", "up", or how far close() is
  gen,       \* its generation
  log,       \* what was published in each generation
  first,     \* sequence of the oldest entry retained
  waiters,   \* followers whose read waits
  ghosts,    \* waiting reads whose client is gone, unnoticed
  request    \* the read in progress for each follower

journalVars == <<daemon, gen, log, first, waiters, ghosts, request>>

Page == [gen : Generation, seq : Nat, events : SUBSET Nat, gap : Gap \cup {None}]
Request == [step : {"none", "sent", "waiting", "woken", "answered", "refused"},
            cursor : Cursor \cup {None}, after : Nat, since : Nat, waited : Nat,
            page : Page \cup {None}]

NoRequest == [step |-> "none", cursor |-> None, after |-> 0, since |-> 0,
              waited |-> 0, page |-> None]

JournalTypeOK ==
  /\ daemon \in {"down", "up", "stopping", "closed"}
  /\ gen \in 0..Generations
  /\ log \in [Generation -> Seq(Source)]
  /\ first \in Nat
  /\ waiters \subseteq Follower
  /\ ghosts \in Nat
  /\ request \in [Follower -> Request]

-----------------------------------------------------------------------------
sequence == Len(log[gen])

\* page(): what the reader wants among the retained entries after its
\* position, up to the limit. The cursor also passes what it does not want.
Retained(after) == {n \in first..sequence : n > after}
Matches(f, after) == {n \in Retained(after) : log[gen][n] \in Wanted[f]}
Full(f, after, n) == Cardinality({m \in Matches(f, after) : m <= n}) >= PageLimit
Examined(f, after) ==
  IF \E n \in Matches(f, after) : Full(f, after, n)
  THEN Min({n \in Matches(f, after) : Full(f, after, n)})
  ELSE Max(Retained(after) \cup {after})

PageOf(f, after, gap) ==
  LET last == Examined(f, after)
  IN [gen |-> gen, seq |-> last, gap |-> gap,
      events |-> {n \in Matches(f, after) : n <= last}]

\* The reader's position is of another generation, or no longer retained.
NeverEvicted(c) == FALSE                         \* mutant: no such check
Evicted(c) == c # None /\ c.gen = gen /\ c.seq < first - 1
Foreign(c) == c # None /\ c.gen # gen
GapAlwaysEvicted(reason, c) ==                   \* mutant: one reason for both
  [reason |-> "history_evicted", requested |-> c, oldest |-> first]
GapUnasked(reason, c) ==                         \* mutant: no requestedCursor
  [reason |-> reason, requested |-> None, oldest |-> first]
GapOf(reason, c) == [reason |-> reason, requested |-> c, oldest |-> first]

WaitForever == Timeout                           \* mutant: not capped
WaitTime == Min({Timeout, LongPoll})

OneWaiterMore == Cardinality(waiters) + ghosts <= WaiterLimit \* mutant
HasWaiterSlot == Cardinality(waiters) + ghosts < WaiterLimit

Reply(f, step, page) ==
  [request EXCEPT ![f].step = step, ![f].page = page]

(* read(): a gap, a page, a refusal, or a wait when there is nothing new.  *)
ReadGap(f) ==
  LET c == request[f].cursor
      reason == IF Foreign(c) THEN "daemon_generation_changed"
                ELSE "history_evicted"
  IN
  /\ request[f].step = "sent" /\ daemon # "down"
  /\ Foreign(c) \/ Evicted(c)
  /\ request' = Reply(f, "answered", PageOf(f, first - 1, GapOf(reason, c)))
  /\ UNCHANGED <<daemon, gen, log, first, waiters, ghosts>>

Read(f) ==
  LET c == request[f].cursor
      after == IF c = None THEN first - 1 ELSE c.seq
      page == PageOf(f, after, None)
      quiet == page.events = {} /\ page.seq = after
  IN
  /\ request[f].step = "sent" /\ daemon # "down"
  /\ ~Foreign(c) /\ ~Evicted(c)
  /\ \/ /\ after > sequence \/ (quiet /\ ~HasWaiterSlot)
        /\ request' = Reply(f, "refused", None)
        /\ UNCHANGED waiters
     \/ /\ after <= sequence /\ ~quiet
        /\ request' = Reply(f, "answered", page)
        /\ UNCHANGED waiters
     \/ /\ after <= sequence /\ quiet /\ HasWaiterSlot
        /\ request' = [request EXCEPT ![f].step = "waiting", ![f].after = after]
        /\ waiters' = waiters \cup {f}
  /\ UNCHANGED <<daemon, gen, log, first, ghosts>>

WaitEnds(f) ==
  /\ request[f].step = "waiting" /\ request[f].waited >= WaitTime
  /\ request' = [request EXCEPT ![f].step = "woken"]
  /\ waiters' = waiters \ {f}
  /\ UNCHANGED <<daemon, gen, log, first, ghosts>>

\* The page is taken from the position held before the wait, without a gap.
Resume(f) ==
  /\ request[f].step = "woken"
  /\ request' = Reply(f, "answered", PageOf(f, request[f].after, None))
  /\ UNCHANGED <<daemon, gen, log, first, waiters, ghosts>>

\* The wait of a reader that is gone ends with its timer.
GhostEnds ==
  /\ ghosts > 0
  /\ ghosts' = ghosts - 1
  /\ UNCHANGED <<daemon, gen, log, first, waiters, request>>

-----------------------------------------------------------------------------
\* publish() counts for the readers that were woken and did not go on yet.
Unwoken ==                                       \* mutant: nobody is woken
  request' = request /\ waiters' = waiters /\ ghosts' = ghosts
Woken ==
  /\ request' = [f \in Follower |->
                   IF f \in waiters
                   THEN [request[f] EXCEPT !.step = "woken", !.since = 1]
                   ELSE IF request[f].step = "woken"
                   THEN [request[f] EXCEPT !.since = @ + 1] ELSE request[f]]
  /\ waiters' = {} /\ ghosts' = 0

(* publish(): append, evict by count and by size, wake every waiter. The   *)
(* size of the entries decides how many more than the count are evicted.   *)
Publish(s) ==
  /\ daemon # "down" /\ sequence < MaxEvents
  /\ \A f \in Follower : request[f].step = "woken" => request[f].since < Burst
  /\ log' = [log EXCEPT ![gen] = Append(@, s)]
  /\ \E n \in first..(sequence + 1) :
       /\ sequence + 2 - n <= JournalLimit
       /\ n = first \/ sequence + 2 - n >= MinRetained
       /\ first' = n
  /\ Woken
  /\ UNCHANGED gen

Happen(s) == Publish(s) /\ UNCHANGED daemon

\* DaemonEventManager.close(): "stopping" is published, later the waiters
\* are released. The journal goes on, and close() of the jobs publishes.
CloseBegin ==
  /\ daemon = "up"
  /\ Publish("daemon")
  /\ daemon' = "stopping"

CloseJournal ==
  /\ daemon = "stopping" /\ daemon' = "closed"
  /\ request' = [f \in Follower |->
                   IF f \in waiters THEN [request[f] EXCEPT !.step = "woken"]
                   ELSE request[f]]
  /\ waiters' = {} /\ ghosts' = 0
  /\ UNCHANGED <<gen, log, first>>

(* The end of the process; a response already sent may still arrive. Then  *)
(* a new generation with a sequence of its own.                            *)
Down ==
  /\ daemon # "down"
  /\ daemon' = "down"
  /\ waiters' = {} /\ ghosts' = 0
  /\ request' = [f \in Follower |->
                   IF request[f].step \in {"answered", "refused"}
                   THEN request[f] ELSE NoRequest]
  /\ UNCHANGED <<gen, log, first>>

Start ==
  /\ daemon = "down" /\ gen < Generations
  /\ daemon' = "up"
  /\ gen' = gen + 1
  /\ log' = [log EXCEPT ![gen + 1] = <<"daemon">>]
  /\ first' = 1
  /\ UNCHANGED <<waiters, ghosts, request>>

JournalInit ==
  /\ daemon = "down" /\ gen = 0
  /\ log = [g \in Generation |-> <<>>]
  /\ first = 1
  /\ waiters = {} /\ ghosts = 0
  /\ request = [f \in Follower |-> NoRequest]

Reading(f) == ReadGap(f) \/ Read(f) \/ Resume(f)

JournalNext ==
  \/ \E f \in Follower : Reading(f) \/ WaitEnds(f)
  \/ \E s \in Source : Happen(s)
  \/ GhostEnds \/ CloseBegin \/ CloseJournal \/ Down \/ Start
=============================================================================
