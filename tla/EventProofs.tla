----------------------------- MODULE EventProofs -----------------------------
(***************************************************************************)
(* What is proved of the event journal and of the followers that read it,  *)
(* for any set of followers, sources and filters and every bound of the    *)
(* journal: the pages the journal writes are the ones the client accepts,  *)
(* and the lines all runs of a follower print are a feed (EventFeed).      *)
(*                                                                         *)
(* FeedInv relates the three places that know how far a follower is: the   *)
(* request in the daemon, the page being printed, and the lines printed.   *)
(***************************************************************************)
EXTENDS EventFollower, FiniteSetTheorems, SequenceTheorems,
        WellFoundedInduction, TLAPS

USE DEF journalVars, clientVars

\* The least of some numbers is one of them.
LEMMA LeastIsOne ==
  ASSUME NEW S \in SUBSET Nat, S # {}
  PROVE  Min(S) \in S /\ \A y \in S : Min(S) <= y
<1> DEFINE Less == {ss \in Nat \X Nat : ss[1] < ss[2]}
<1>1. IsWellFoundedOn(Less, Nat)
  BY NatLessThanWellFounded DEF OpToRel
<1>2. \A a, b \in Nat : a < b => <<a, b>> \in Less
  OBVIOUS
<1> HIDE DEF Less
<1>3. PICK x \in S : \A y \in S : ~(<<y, x>> \in Less)
  BY <1>1, WFMin
<1>4. ASSUME NEW y \in S PROVE x <= y
  <2>1. ~(<<y, x>> \in Less)
    BY <1>3
  <2>2. x \in Nat /\ y \in Nat
    OBVIOUS
  <2>3. ~(y < x)
    BY <1>2, <2>1, <2>2
  <2> QED
    BY <2>2, <2>3
<1> QED
  BY <1>4 DEF Min

\* The greatest of some numbers that have a bound is one of them.
LEMMA GreatestIsOne ==
  ASSUME NEW S \in SUBSET Nat, S # {}, NEW b \in Nat, \A y \in S : y <= b
  PROVE  Max(S) \in S /\ \A y \in S : y <= Max(S)
<1> DEFINE Bounds == {n \in Nat : \A y \in S : y <= n}
           least == Min(Bounds)
<1>1. least \in Nat /\ (\A y \in S : y <= least) /\ \A n \in Bounds : least <= n
  BY LeastIsOne
<1>2. least \in S
  <2> SUFFICES ASSUME least \notin S PROVE FALSE
    OBVIOUS
  <2> HIDE DEF least
  <2>1. PICK y \in S : TRUE
    OBVIOUS
  <2>2. \A z \in S : z <= least - 1
    BY <1>1
  <2>3. least - 1 \in Bounds
    BY <1>1, <2>1, <2>2
  <2> QED
    BY <1>1, <2>3
<1> HIDE DEF least
<1> QED
  BY <1>1, <1>2 DEF Max

-----------------------------------------------------------------------------
\* The wanted events of a generation after one place and up to another.
IsIn(f, g, n) == log[g][n] \in Wanted[f]
WantedIn(f, g, a, b) == {n \in (a + 1)..b : IsIn(f, g, n)}

\* A place of a generation that began, no further than its last event.
Known(x) == x.gen \in 1..gen /\ x.seq <= Len(log[x.gen])

\* A page tells all that is wanted from one place to its own.
TellsFrom(f, p, a) ==
  p \in Page /\ Known(p) /\ p.events = WantedIn(f, p.gen, a, p.seq)

\* page() reads from a place that is retained to a place that exists, and
\* stays only where there is nothing to read.
LEMMA PageTells ==
  ASSUME JournalTypeOK, gen \in Generation, NEW f \in Follower,
         NEW after \in 0..sequence, first \in 1..(after + 1),
         NEW gap \in Gap \cup {None}, NEW p, p = PageOf(f, after, gap)
  PROVE  /\ TellsFrom(f, p, after)
         /\ p.gen = gen /\ p.gap = gap /\ p.seq \in after..sequence
         /\ p.seq = after => after = sequence
<1> DEFINE last == Examined(f, after)
<1>1. log[gen] \in Seq(Source) /\ sequence \in Nat
  BY DEF JournalTypeOK, sequence
<1>2. Retained(after) = (after + 1)..sequence
  BY <1>1 DEF Retained
<1>3. Matches(f, after) = WantedIn(f, gen, after, sequence)
  BY <1>2 DEF Matches, WantedIn, IsIn
<1>4. last \in after..sequence /\ (last = after => after = sequence)
  <2>1. CASE \E n \in Matches(f, after) : Full(f, after, n)
    <3> DEFINE S == {n \in Matches(f, after) : Full(f, after, n)}
    <3>1. S # {} /\ S \subseteq (after + 1)..sequence
      BY <2>1, <1>3 DEF WantedIn
    <3> HIDE DEF S
    <3>2. S \in SUBSET Nat
      BY <1>1, <3>1
    <3>3. Min(S) \in (after + 1)..sequence
      BY <3>1, <3>2, LeastIsOne
    <3>4. last = Min(S)
      BY <2>1 DEF Examined, S
    <3> QED
      BY <1>1, <3>3, <3>4
  <2>2. CASE ~\E n \in Matches(f, after) : Full(f, after, n)
    <3> DEFINE S == Retained(after) \cup {after}
    <3>1. S = after..sequence
      BY <1>1, <1>2
    <3> HIDE DEF S
    <3>2. Max(S) \in S /\ \A y \in S : y <= Max(S)
      <4>1. S \in SUBSET Nat /\ \A y \in S : y <= sequence
        BY <1>1, <3>1
      <4>2. after \in S
        BY <1>1, <3>1
      <4> QED
        BY <1>1, <4>1, <4>2, GreatestIsOne
    <3>3. last = Max(S)
      BY <2>2 DEF Examined, S
    <3> QED
      BY <1>1, <3>1, <3>2, <3>3
  <2> QED
    BY <2>1, <2>2
<1> HIDE DEF last
<1>5. p = [gen |-> gen, seq |-> last, gap |-> gap,
           events |-> {n \in Matches(f, after) : n <= last}]
  BY DEF PageOf, last
<1>6. p.gen = gen /\ p.seq = last /\ p.gap = gap
      /\ p.events = {n \in Matches(f, after) : n <= last}
  BY <1>5
<1>7. p.events = WantedIn(f, gen, after, last)
  BY <1>1, <1>3, <1>4, <1>6 DEF WantedIn
<1>8. p \in Page
  BY <1>1, <1>4, <1>5, <1>7 DEF Page, WantedIn
<1>9. Known(p)
  BY <1>1, <1>4, <1>6 DEF Known, sequence, Generation
<1> QED
  BY <1>4, <1>6, <1>7, <1>8, <1>9 DEF TellsFrom
-----------------------------------------------------------------------------
NoPlace == [gen |-> 0, seq |-> 0]
Before(a, b) == a.gen < b.gen \/ (a.gen = b.gen /\ a.seq < b.seq)
GapPlace(p) == [gen |-> p.gen, seq |-> p.gap.oldest - 1]
LastLine(f) == [gen |-> Last(printed[f]).gen, seq |-> Last(printed[f]).seq]

\* How far the lines of a follower are, or its cursor before the first line.
Reached(f) == IF printed[f] = <<>> THEN Passed(f) ELSE LastLine(f)

\* Nothing wanted lies after the one place, up to the other.
Follows(f, a, b) ==
  a # NoPlace => /\ a.gen = b.gen /\ a.seq <= b.seq
                 /\ WantedIn(f, b.gen, a.seq, b.seq) = {}

\* The daemon is of a generation, whose retained events are its last ones.
JournalInv ==
  /\ daemon # "down" => gen \in Generation
  /\ gen # 0 => first \in 1..(sequence + 1)
  /\ waiters = {f \in Follower : request[f].step = "waiting"}

\* A read that waits, or was woken, is as many events behind as were published
\* since it was woken, and so few that all of them are still retained.
WaitInv(r) ==
  /\ r.cursor # None => r.cursor.gen = gen /\ r.cursor.seq = r.after
  /\ gen \in Generation /\ sequence = r.after + r.since /\ r.since <= Burst
  /\ r.step = "waiting" => r.since = 0
  /\ first <= r.after + 1

\* An answer is a page that the client accepts, and it tells all that is
\* wanted after the cursor of the request, or after its gap.
AnswerInv(f, c, p) ==
  /\ IsValid(c, p)
  /\ \E a \in 0..p.seq :
       /\ TellsFrom(f, p, a)
       /\ p.gap # None => a = p.gap.oldest - 1 /\ Before(c, GapPlace(p))
       /\ p.gap = None /\ c # None => a = c.seq

\* A request is of the follower's cursor; what it is depends on its step.
RequestInv ==
  \A f \in Follower :
    LET r == request[f] IN
    /\ r.step # "none" => client[f] = "polling" /\ r.cursor = cursor[f]
    /\ r.step \in {"sent", "waiting", "woken"} => daemon # "down"
    /\ r.step = "sent" => r.since = 0
    /\ r.step \in {"waiting", "woken"} => WaitInv(r)
    /\ r.step = "answered" => AnswerInv(f, r.cursor, r.page)

\* What is still to be printed of a page goes on where the lines end.
PageInv(f, p, reached) ==
  \E a \in 0..p.seq :
    /\ TellsFrom(f, p, a)
    /\ p.gap # None => /\ a = p.gap.oldest - 1 /\ p.gap.oldest >= 1
                       /\ reached # NoPlace => Before(reached, GapPlace(p))
    /\ p.gap = None => Follows(f, reached, [gen |-> p.gen, seq |-> a])

\* The cursor, the page and the lines of a follower.
FollowInv ==
  \A f \in Follower :
    /\ cursor[f] # None => Known(cursor[f])
    /\ printed[f] # <<>> => Known(Last(printed[f]))
    /\ client[f] \in {"idle", "polling"} /\ Reached(f) # NoPlace
         => cursor[f] # None /\ Follows(f, Reached(f), cursor[f])
    /\ client[f] = "printing" => PageInv(f, page[f], Reached(f))
    /\ why[f] # "invalid"

FeedInv == TypeOK /\ JournalInv /\ RequestInv /\ FollowInv

-----------------------------------------------------------------------------
\* The types of the log.
LEMMA LogFacts ==
  ASSUME JournalTypeOK
  PROVE  /\ gen \in 0..Generations /\ Generations \in Nat
         /\ \A g \in 1..gen : g \in Generation /\ log[g] \in Seq(Source)
         /\ \A g \in 1..gen : Len(log[g]) \in Nat
         /\ log \in [Generation -> Seq(Source)]
<1>1. Generations \in Nat
  BY JournalAssumption
<1>2. gen \in 0..Generations /\ log \in [Generation -> Seq(Source)]
  BY DEF JournalTypeOK
<1>3. \A g \in 1..gen : g \in Generation /\ log[g] \in Seq(Source)
  BY <1>1, <1>2 DEF Generation
<1>4. \A g \in 1..gen : Len(log[g]) \in Nat
  BY <1>3, LenProperties
<1> QED
  BY <1>1, <1>2, <1>3, <1>4

\* The log of each generation only grows, and a generation that began stays.
LogGrows ==
  /\ gen' \in Nat /\ gen <= gen'
  /\ \A g \in 1..gen : /\ Len(log[g]) <= Len(log'[g])
                       /\ \A n \in 1..Len(log[g]) : log'[g][n] = log[g][n]

LEMMA LogOnlyGrows == FeedInv /\ [Next]_vars => LogGrows
<1> SUFFICES ASSUME FeedInv, [Next]_vars PROVE LogGrows
  OBVIOUS
<1>1. /\ gen \in 0..Generations /\ Generations \in Nat
      /\ \A g \in 1..gen : g \in Generation /\ log[g] \in Seq(Source)
      /\ \A g \in 1..gen : Len(log[g]) \in Nat
      /\ log \in [Generation -> Seq(Source)]
  BY LogFacts DEF FeedInv, TypeOK
<1>2. CASE UNCHANGED <<gen, log>>
  BY <1>1, <1>2 DEF LogGrows
<1>3. ASSUME NEW s \in Source, Publish(s) PROVE LogGrows
  <2>1. log' = [log EXCEPT ![gen] = Append(log[gen], s)] /\ gen' = gen
    BY <1>3 DEF Publish
  <2>2. ASSUME NEW g \in 1..gen
        PROVE /\ Len(log[g]) <= Len(log'[g])
              /\ \A n \in 1..Len(log[g]) : log'[g][n] = log[g][n]
    <3>1. CASE g = gen
      <4>1. log'[g] = Append(log[g], s)
        BY <1>1, <2>1, <3>1
      <4> QED
        BY <1>1, <4>1, AppendProperties
    <3>2. CASE g # gen
      <4>1. log'[g] = log[g]
        BY <1>1, <2>1, <3>2
      <4> QED
        BY <1>1, <4>1
    <3> QED
      BY <3>1, <3>2
  <2> QED
    BY <1>1, <2>1, <2>2 DEF LogGrows
<1>4. CASE Start
  <2>1. gen' = gen + 1 /\ \A g \in 1..gen : log'[g] = log[g]
    BY <1>1, <1>4 DEF Start
  <2> QED
    BY <1>1, <2>1 DEF LogGrows
<1>5. ASSUME NEW s \in Source, Happen(s) PROVE LogGrows
  BY <1>3, <1>5 DEF Happen
<1>6. CASE CloseBegin
  BY <1>3, <1>6, JournalAssumption DEF CloseBegin
<1>7. ASSUME NEW f \in Follower, Reading(f) \/ WaitEnds(f) PROVE LogGrows
  BY <1>2, <1>7 DEF Reading, ReadGap, Read, Resume, WaitEnds
<1>8. CASE GhostEnds \/ CloseJournal \/ Down
  BY <1>2, <1>8 DEF GhostEnds, CloseJournal, Down
<1>9. ASSUME NEW f \in Follower, Following(f) \/ Leaving(f) PROVE LogGrows
  BY <1>2, <1>9 DEF Following, Leaving, Poll, Receive, EmitGap, EmitEvent, Emit,
     PageDone, Refused, Lost, Leave, Stop, Rerun
<1>10. CASE Tick
  BY <1>2, <1>10 DEF Tick
<1>11. CASE UNCHANGED vars
  BY <1>2, <1>11 DEF vars
<1> QED
  BY <1>4, <1>5, <1>6, <1>7, <1>8, <1>9, <1>10, <1>11 DEF Next, JournalNext

\* A place that is known stays known.
LEMMA KnownStays ==
  ASSUME gen \in Nat, LogGrows, NEW x, x.gen \in Nat, x.seq \in Nat, Known(x),
         \A g \in 1..gen : Len(log[g]) \in Nat /\ Len(log'[g]) \in Nat
  PROVE  Known(x)'
BY DEF Known, LogGrows

\* What is wanted up to a known place stays the same.
LEMMA WantedStays ==
  ASSUME LogGrows, NEW f, NEW g \in 1..gen, NEW a \in Nat, NEW b \in Nat,
         b <= Len(log[g]), Len(log[g]) \in Nat
  PROVE  WantedIn(f, g, a, b)' = WantedIn(f, g, a, b)
<1>1. \A n \in (a + 1)..b : n \in 1..Len(log[g])
  OBVIOUS
<1>2. \A n \in (a + 1)..b : log'[g][n] = log[g][n]
  BY <1>1 DEF LogGrows
<1> QED
  BY <1>2 DEF WantedIn, IsIn
\* What a page tells it tells later too.
LEMMA TellsStays ==
  ASSUME JournalTypeOK, JournalTypeOK', LogGrows, NEW f \in Follower, NEW p,
         NEW a \in Nat, TellsFrom(f, p, a)
  PROVE  TellsFrom(f, p, a)'
<1>1. p.gen \in 1..gen /\ p.seq \in Nat /\ p.seq <= Len(log[p.gen])
  BY LogFacts DEF TellsFrom, Known, Page
<1>2. Len(log[p.gen]) \in Nat
  BY <1>1, LogFacts
<1>3. gen' \in 0..Generations /\ \A g \in 1..gen' : Len(log'[g]) \in Nat
  <2>1. gen' \in 0..Generations /\ log' \in [Generation -> Seq(Source)]
    BY DEF JournalTypeOK
  <2>2. \A g \in 1..gen' : log'[g] \in Seq(Source)
    BY <2>1, LogFacts DEF Generation
  <2> QED
    BY <2>1, <2>2, LenProperties
<1>4. Known(p)'
  BY <1>1, <1>2, <1>3, LogFacts DEF Known, LogGrows
<1>5. WantedIn(f, p.gen, a, p.seq)' = WantedIn(f, p.gen, a, p.seq)
  BY <1>1, <1>2, WantedStays
<1> QED
  BY <1>4, <1>5 DEF TellsFrom

\* An answer on its way stays acceptable.
LEMMA AnswerStays ==
  ASSUME JournalTypeOK, JournalTypeOK', LogGrows, NEW f \in Follower, NEW c,
         NEW p, AnswerInv(f, c, p)
  PROVE  AnswerInv(f, c, p)'
<1>1. PICK a \in 0..p.seq :
        /\ TellsFrom(f, p, a)
        /\ p.gap # None => a = p.gap.oldest - 1 /\ Before(c, GapPlace(p))
        /\ p.gap = None /\ c # None => a = c.seq
  BY DEF AnswerInv
<1>2. p.seq \in Nat
  BY <1>1 DEF TellsFrom, Page
<1>3. TellsFrom(f, p, a)'
  BY <1>1, <1>2, TellsStays
<1> QED
  BY <1>1, <1>3 DEF AnswerInv

\* What follows up to a known place follows later too.
LEMMA FollowsStays ==
  ASSUME JournalTypeOK, LogGrows, NEW f \in Follower, NEW a, NEW b,
         a # NoPlace => a.seq \in Nat, b.seq \in Nat, Known(b), Follows(f, a, b)
  PROVE  Follows(f, a, b)'
<1>1. b.gen \in 1..gen /\ b.seq <= Len(log[b.gen]) /\ Len(log[b.gen]) \in Nat
  BY LogFacts DEF Known
<1>2. a # NoPlace
        => WantedIn(f, b.gen, a.seq, b.seq)' = WantedIn(f, b.gen, a.seq, b.seq)
  BY <1>1, WantedStays
<1> QED
  BY <1>2 DEF Follows

\* What is to be printed stays so.
LEMMA PageStays ==
  ASSUME JournalTypeOK, JournalTypeOK', LogGrows, NEW f \in Follower, NEW p,
         NEW r, r # NoPlace => r.seq \in Nat, PageInv(f, p, r)
  PROVE  PageInv(f, p, r)'
<1>1. PICK a \in 0..p.seq :
        /\ TellsFrom(f, p, a)
        /\ p.gap # None => /\ a = p.gap.oldest - 1 /\ p.gap.oldest >= 1
                           /\ r # NoPlace => Before(r, GapPlace(p))
        /\ p.gap = None => Follows(f, r, [gen |-> p.gen, seq |-> a])
  BY DEF PageInv
<1>2. p.seq \in Nat /\ p.gen \in 1..gen /\ p.seq <= Len(log[p.gen])
      /\ Len(log[p.gen]) \in Nat
  BY <1>1, LogFacts DEF TellsFrom, Page, Known
<1>3. TellsFrom(f, p, a)'
  BY <1>1, <1>2, TellsStays
<1> DEFINE b == [gen |-> p.gen, seq |-> a]
<1>4. b.seq \in Nat /\ Known(b)
  BY <1>1, <1>2 DEF Known
<1>5. p.gap = None => Follows(f, r, b)'
  <2> HIDE DEF b
  <2>1. Follows(f, r, b) => Follows(f, r, b)'
    BY <1>4, FollowsStays
  <2> QED
    BY <1>1, <2>1 DEF b
<1> QED
  BY <1>1, <1>3, <1>5 DEF PageInv
-----------------------------------------------------------------------------
\* Everything holds in the first state.
LEMMA FeedFirst == Init => FeedInv
<1> SUFFICES ASSUME Init PROVE FeedInv
  OBVIOUS
<1> USE DEF Init, JournalInit
<1>1. TypeOK
  <2>1. NoRequest \in Request
    BY DEF NoRequest, Request
  <2>2. <<>> \in Seq(Source) /\ <<>> \in Seq(Line)
    OBVIOUS
  <2>3. 0 \in 0..Generations
    BY LogFacts, JournalAssumption
  <2> QED
    BY <2>1, <2>2, <2>3 DEF TypeOK, JournalTypeOK, Ends
<1>2. JournalInv
  BY DEF JournalInv, NoRequest
<1>3. RequestInv
  BY DEF RequestInv, NoRequest
<1>4. FollowInv
  BY DEF FollowInv, Reached, Passed, NoPlace
<1> QED
  BY <1>1, <1>2, <1>3, <1>4 DEF FeedInv

\* The types of the constants.
LEMMA Numbers ==
  /\ {JournalLimit, MinRetained, PageLimit, WaiterLimit, Burst, LongPoll,
      Timeout, Generations, MaxEvents} \subseteq Nat \ {0}
  /\ 0 \in 0..Generations /\ Generation \subseteq 0..Generations
  /\ Generation \subseteq Nat
BY JournalAssumption DEF Generation

\* An answer replaces the request by one of its kind.
LEMMA ReplyTyped ==
  ASSUME request \in [Follower -> Request], NEW f \in Follower,
         NEW step \in {"answered", "refused"}, NEW p \in Page \cup {None},
         request' = Reply(f, step, p)
  PROVE  /\ request' \in [Follower -> Request]
         /\ request'[f] = [request[f] EXCEPT !.step = step, !.page = p]
         /\ \A g \in Follower \ {f} : request'[g] = request[g]
<1>1. [request[f] EXCEPT !.step = step, !.page = p] \in Request
  BY DEF Request
<1>2. request' = [request EXCEPT ![f] =
                    [request[f] EXCEPT !.step = step, !.page = p]]
  BY DEF Reply
<1> QED
  BY <1>1, <1>2

\* What a read finds, for the cursor it has, is acceptable.
LEMMA ReadAnswers ==
  ASSUME FeedInv, NEW f \in Follower, ReadGap(f)
  PROVE  LET r == request'[f] IN
         /\ request' \in [Follower -> Request]
         /\ \A g \in Follower \ {f} : request'[g] = request[g]
         /\ r.step = "answered" /\ r.cursor = request[f].cursor
         /\ AnswerInv(f, r.cursor, r.page)
<1> DEFINE c == request[f].cursor
           reason == IF Foreign(c) THEN "daemon_generation_changed"
                     ELSE "history_evicted"
           gap == GapOf(reason, c)
           p == PageOf(f, first - 1, gap)
<1>1. /\ request \in [Follower -> Request] /\ JournalTypeOK
      /\ c \in Cursor \cup {None}
  BY DEF FeedInv, TypeOK, JournalTypeOK, Request
<1>2. /\ request[f].step = "sent" /\ (Foreign(c) \/ Evicted(c))
      /\ request' = Reply(f, "answered", p)
  BY DEF ReadGap
<1>3. c # None /\ c = cursor[f] /\ gen \in Generation
  BY <1>2 DEF Foreign, Evicted, FeedInv, RequestInv, JournalInv
<1>4. first \in 1..(sequence + 1) /\ sequence \in Nat
  BY <1>1, <1>3, Numbers, LogFacts, LenProperties
  DEF FeedInv, JournalInv, sequence, Generation
<1>5. gap \in Gap /\ gap # None
  BY <1>1, <1>3, <1>4, NoneAssumption DEF GapOf, Gap
<1>6. gap.reason = reason /\ gap.requested = c /\ gap.oldest = first
  BY DEF GapOf
<1> HIDE DEF gap
<1>7. /\ TellsFrom(f, p, first - 1) /\ p.gen = gen /\ p.gap = gap
      /\ p.seq \in (first - 1)..sequence
  <2>1. first - 1 \in 0..sequence /\ first \in 1..((first - 1) + 1)
    BY <1>4
  <2>2. gap \in Gap \cup {None}
    BY <1>5
  <2>3. p = PageOf(f, first - 1, gap)
    OBVIOUS
  <2> HIDE DEF p
  <2> QED
    BY <1>1, <1>3, <2>1, <2>2, <2>3, PageTells
<1> HIDE DEF p
<1>8. /\ request' \in [Follower -> Request]
      /\ request'[f] = [request[f] EXCEPT !.step = "answered", !.page = p]
      /\ \A g \in Follower \ {f} : request'[g] = request[g]
  BY <1>1, <1>2, <1>7, ReplyTyped DEF TellsFrom
<1>9. request'[f].step = "answered" /\ request'[f].cursor = c
      /\ request'[f].page = p
  BY <1>1, <1>8 DEF Request
<1>10. Known(c) /\ c.gen \in Nat /\ c.seq \in Nat
  BY <1>1, <1>3 DEF FeedInv, FollowInv, Cursor, Generation
<1>11. (reason = "daemon_generation_changed") <=> (c.gen # gen)
  BY <1>2, <1>3 DEF Foreign, Evicted
<1>12. IsValid(c, p)
  <2>1. GapIsValid(c, p)
    BY <1>3, <1>4, <1>6, <1>7, <1>11 DEF GapIsValid
  <2>2. p.events \subseteq (p.gap.oldest - 1 + 1)..p.seq
    BY <1>4, <1>6, <1>7 DEF TellsFrom, WantedIn
  <2> QED
    BY <1>5, <1>7, <2>1, <2>2 DEF IsValid
<1>13. Before(c, GapPlace(p))
  BY SMTT(20), <1>2, <1>3, <1>4, <1>6, <1>7, <1>10, Numbers
  DEF Before, GapPlace, Foreign, Evicted, Known
<1>14. AnswerInv(f, c, p)
  <2>1. first - 1 \in 0..p.seq
    BY <1>4, <1>7
  <2> QED
    BY <1>5, <1>6, <1>7, <1>12, <1>13, <2>1 DEF AnswerInv
<1>15. request'[f].step = "answered" /\ request'[f].cursor = request[f].cursor
       /\ AnswerInv(f, request'[f].cursor, request'[f].page)
  BY <1>9, <1>14
<1> QED
  BY <1>8, <1>15
\* A read that goes on at once: refused, answered or made to wait.
LEMMA ReadGoesOn ==
  ASSUME FeedInv, NEW f \in Follower, Read(f)
  PROVE  LET r == request'[f] IN
         /\ request' \in [Follower -> Request]
         /\ \A g \in Follower \ {f} : request'[g] = request[g]
         /\ r.cursor = request[f].cursor /\ daemon # "down"
         /\ \/ r.step = "refused" /\ waiters' = waiters
            \/ /\ r.step = "answered" /\ waiters' = waiters
               /\ AnswerInv(f, r.cursor, r.page)
            \/ /\ r.step = "waiting" /\ waiters' = waiters \cup {f}
               /\ HasWaiterSlot /\ WaitInv(r)
<1> DEFINE c == request[f].cursor
           after == IF c = None THEN first - 1 ELSE c.seq
           p == PageOf(f, after, None)
<1>1. /\ request \in [Follower -> Request] /\ JournalTypeOK
      /\ c \in Cursor \cup {None}
  BY DEF FeedInv, TypeOK, JournalTypeOK, Request
<1>2. /\ request[f].step = "sent" /\ ~Foreign(c) /\ ~Evicted(c) /\ daemon # "down"
      /\ \/ request' = Reply(f, "refused", None) /\ waiters' = waiters
         \/ /\ after <= sequence /\ request' = Reply(f, "answered", p)
            /\ waiters' = waiters
         \/ /\ after <= sequence /\ HasWaiterSlot /\ p.seq = after
            /\ waiters' = waiters \cup {f}
            /\ request' = [request EXCEPT ![f].step = "waiting",
                                          ![f].after = after]
  BY DEF Read
<1>3. /\ c = cursor[f] /\ gen \in Generation /\ daemon # "down"
      /\ request[f].since = 0
  BY <1>2 DEF FeedInv, RequestInv, JournalInv
<1>4. first \in 1..(sequence + 1) /\ sequence \in Nat
  BY <1>1, <1>3, Numbers, LogFacts, LenProperties
  DEF FeedInv, JournalInv, sequence, Generation
<1>5. /\ c # None => c.gen = gen /\ c.seq \in Nat /\ c.seq >= first - 1
      /\ after \in Nat /\ first \in 1..(after + 1)
  BY <1>1, <1>2, <1>4 DEF Foreign, Evicted, Cursor
<1>6. c # None => after = c.seq
  OBVIOUS
<1>7. p = PageOf(f, after, None)
  OBVIOUS
<1> HIDE DEF after
<1>8. ASSUME after <= sequence
      PROVE  /\ TellsFrom(f, p, after) /\ p.gen = gen /\ p.gap = None
             /\ p.seq \in after..sequence
             /\ p.seq = after => after = sequence
  <2>1. after \in 0..sequence
    BY <1>4, <1>5, <1>8
  <2>2. None \in Gap \cup {None}
    OBVIOUS
  <2> HIDE DEF p
  <2> QED
    BY <1>1, <1>3, <1>5, <1>7, <2>1, <2>2, PageTells
<1> HIDE DEF p
<1>9. CASE request' = Reply(f, "refused", None) /\ waiters' = waiters
  <2>1. /\ request' \in [Follower -> Request]
        /\ request'[f] = [request[f] EXCEPT !.step = "refused", !.page = None]
        /\ \A g \in Follower \ {f} : request'[g] = request[g]
    BY <1>1, <1>9, ReplyTyped
  <2>2. request'[f].step = "refused" /\ request'[f].cursor = request[f].cursor
    BY <1>1, <2>1 DEF Request
  <2> QED
    BY <1>3, <1>9, <2>1, <2>2
<1>10. CASE /\ after <= sequence /\ request' = Reply(f, "answered", p)
            /\ waiters' = waiters
  <2>1. /\ request' \in [Follower -> Request]
        /\ request'[f] = [request[f] EXCEPT !.step = "answered", !.page = p]
        /\ \A g \in Follower \ {f} : request'[g] = request[g]
    BY <1>1, <1>8, <1>10, ReplyTyped DEF TellsFrom
  <2>2. request'[f].step = "answered" /\ request'[f].cursor = c
        /\ request'[f].page = p
    BY <1>1, <2>1 DEF Request
  <2>3. IsValid(c, p)
    <3>1. CursorIsValid(c, p)
      BY <1>5, <1>6, <1>8, <1>10 DEF CursorIsValid
    <3>2. p.events \subseteq (after + 1)..p.seq
      BY <1>8, <1>10 DEF TellsFrom, WantedIn
    <3>3. p.events \subseteq (0 + 1)..p.seq
      BY <1>5, <3>2, <1>8, <1>10
    <3> QED
      BY <1>5, <1>6, <1>8, <1>10, <3>1, <3>2, <3>3 DEF IsValid
  <2>4. AnswerInv(f, c, p)
    <3>1. after \in 0..p.seq
      BY <1>4, <1>5, <1>8, <1>10
    <3> QED
      BY <1>6, <1>8, <1>10, <2>3, <3>1 DEF AnswerInv
  <2>5. AnswerInv(f, request'[f].cursor, request'[f].page)
    BY <2>2, <2>4
  <2>6. request'[f].cursor = request[f].cursor
    BY <2>2
  <2> QED
    BY <1>3, <1>10, <2>1, <2>2, <2>5, <2>6
<1>11. CASE /\ after <= sequence /\ HasWaiterSlot /\ p.seq = after
            /\ waiters' = waiters \cup {f}
            /\ request' = [request EXCEPT ![f].step = "waiting",
                                          ![f].after = after]
  <2> DEFINE r == [request[f] EXCEPT !.step = "waiting", !.after = after]
  <2>1. r \in Request /\ r.step = "waiting" /\ r.after = after /\ r.cursor = c
        /\ r.since = 0
    BY <1>1, <1>3, <1>5 DEF Request
  <2>2. request' = [request EXCEPT ![f] = r]
    BY <1>11
  <2> HIDE DEF r
  <2>3. /\ request' \in [Follower -> Request] /\ request'[f] = r
        /\ \A g \in Follower \ {f} : request'[g] = request[g]
    BY <1>1, <2>1, <2>2
  <2>4. after = sequence
    BY <1>8, <1>11
  <2>5. WaitInv(r)
    BY <1>3, <1>4, <1>5, <1>6, <2>1, <2>4, Numbers DEF WaitInv
  <2>6. WaitInv(request'[f])
    BY <2>3, <2>5
  <2> QED
    BY <1>3, <1>11, <2>1, <2>3, <2>6
<1>12. (request' = Reply(f, "refused", None) /\ waiters' = waiters)
       \/ (/\ after <= sequence /\ request' = Reply(f, "answered", p)
           /\ waiters' = waiters)
       \/ (/\ after <= sequence /\ HasWaiterSlot /\ p.seq = after
           /\ waiters' = waiters \cup {f}
           /\ request' = [request EXCEPT ![f].step = "waiting",
                                         ![f].after = after])
  BY <1>2 DEF after, p
<1> QED
  BY <1>9, <1>10, <1>11, <1>12

\* The page of a read that waited begins where the read did.
LEMMA ResumeAnswers ==
  ASSUME FeedInv, NEW f \in Follower, Resume(f)
  PROVE  LET r == request'[f] IN
         /\ request' \in [Follower -> Request]
         /\ \A g \in Follower \ {f} : request'[g] = request[g]
         /\ r.step = "answered" /\ r.cursor = request[f].cursor
         /\ AnswerInv(f, r.cursor, r.page)
<1> DEFINE c == request[f].cursor
           after == request[f].after
           p == PageOf(f, after, None)
<1>1. /\ request \in [Follower -> Request] /\ JournalTypeOK
      /\ c \in Cursor \cup {None} /\ after \in Nat /\ request[f].since \in Nat
  BY DEF FeedInv, TypeOK, JournalTypeOK, Request
<1>2. request[f].step = "woken" /\ request' = Reply(f, "answered", p)
  BY DEF Resume
<1>3. /\ WaitInv(request[f]) /\ gen \in Generation
      /\ c # None => c.gen = gen /\ c.seq = after
  BY <1>2 DEF FeedInv, RequestInv, WaitInv
<1>4. first \in 1..(after + 1) /\ sequence \in Nat /\ after \in 0..sequence
  BY SMTT(20), <1>1, <1>3, Numbers, LogFacts, LenProperties
  DEF FeedInv, JournalInv, sequence, Generation, WaitInv
<1>5. p = PageOf(f, after, None)
  OBVIOUS
<1>6. None \in Gap \cup {None}
  OBVIOUS
<1> HIDE DEF p
<1>7. /\ TellsFrom(f, p, after) /\ p.gen = gen /\ p.gap = None
      /\ p.seq \in after..sequence
  BY <1>1, <1>3, <1>4, <1>5, <1>6, PageTells
<1>8. /\ request' \in [Follower -> Request]
      /\ request'[f] = [request[f] EXCEPT !.step = "answered", !.page = p]
      /\ \A g \in Follower \ {f} : request'[g] = request[g]
  BY <1>1, <1>2, <1>7, ReplyTyped DEF TellsFrom
<1>9. request'[f].step = "answered" /\ request'[f].cursor = c
      /\ request'[f].page = p
  BY <1>1, <1>8 DEF Request
<1>10. IsValid(c, p)
  <2>1. CursorIsValid(c, p)
    BY <1>3, <1>7 DEF CursorIsValid
  <2>2. p.events \subseteq (after + 1)..p.seq
    BY <1>7 DEF TellsFrom, WantedIn
  <2>3. p.events \subseteq (0 + 1)..p.seq
    BY <1>1, <1>7, <2>2
  <2> QED
    BY <1>3, <1>7, <2>1, <2>2, <2>3 DEF IsValid
<1>11. AnswerInv(f, c, p)
  <2>1. after \in 0..p.seq
    BY <1>4, <1>7
  <2> QED
    BY <1>3, <1>7, <1>10, <2>1 DEF AnswerInv
<1>12. request'[f].step = "answered" /\ request'[f].cursor = request[f].cursor
       /\ AnswerInv(f, request'[f].cursor, request'[f].page)
  BY <1>9, <1>11
<1> QED
  BY <1>8, <1>12
\* A publication wakes every read that waits, and counts for those woken.
LEMMA WokenRequests ==
  ASSUME request \in [Follower -> Request], Woken
  PROVE  /\ request' \in [Follower -> Request] /\ waiters' = {} /\ ghosts' = 0
         /\ \A f \in Follower :
              /\ request'[f].cursor = request[f].cursor
              /\ request'[f].after = request[f].after
              /\ request'[f].page = request[f].page
              /\ request'[f].waited = request[f].waited
              /\ f \in waiters
                   => request'[f].step = "woken" /\ request'[f].since = 1
              /\ f \notin waiters /\ request[f].step = "woken"
                   => /\ request'[f].step = "woken"
                      /\ request'[f].since = request[f].since + 1
              /\ f \notin waiters /\ request[f].step # "woken"
                   => request'[f] = request[f]
<1>1. ASSUME NEW f \in Follower
      PROVE  /\ [request[f] EXCEPT !.step = "woken", !.since = 1] \in Request
             /\ [request[f] EXCEPT !.since = request[f].since + 1] \in Request
  <2>1. request[f] \in Request
    OBVIOUS
  <2>2. [request[f] EXCEPT !.step = "woken", !.since = 1] \in Request
    BY <2>1 DEF Request
  <2>3. request[f].since + 1 \in Nat
    BY <2>1 DEF Request
  <2>4. [request[f] EXCEPT !.since = request[f].since + 1] \in Request
    BY <2>1, <2>3 DEF Request
  <2> QED
    BY <2>2, <2>4
<1>2. \A f \in Follower :
        request'[f] = IF f \in waiters
                      THEN [request[f] EXCEPT !.step = "woken", !.since = 1]
                      ELSE IF request[f].step = "woken"
                      THEN [request[f] EXCEPT !.since = request[f].since + 1]
                      ELSE request[f]
  BY DEF Woken
<1>3. request' \in [Follower -> Request]
  BY <1>1 DEF Woken
<1>4. ASSUME NEW f \in Follower
      PROVE  /\ request'[f].cursor = request[f].cursor
             /\ request'[f].after = request[f].after
             /\ request'[f].page = request[f].page
             /\ request'[f].waited = request[f].waited
             /\ f \in waiters
                  => request'[f].step = "woken" /\ request'[f].since = 1
             /\ f \notin waiters /\ request[f].step = "woken"
                  => /\ request'[f].step = "woken"
                     /\ request'[f].since = request[f].since + 1
             /\ f \notin waiters /\ request[f].step # "woken"
                  => request'[f] = request[f]
  <2>1. request[f] \in Request
    OBVIOUS
  <2> QED
    BY <1>2, <2>1 DEF Request
<1> QED
  BY <1>3, <1>4 DEF Woken

\* The reads that waited when the journal was closed go on.
LEMMA ClosedRequests ==
  ASSUME request \in [Follower -> Request], CloseJournal
  PROVE  /\ request' \in [Follower -> Request]
         /\ \A f \in Follower :
              /\ request'[f].cursor = request[f].cursor
              /\ request'[f].after = request[f].after
              /\ request'[f].since = request[f].since
              /\ request'[f].page = request[f].page
              /\ request'[f].waited = request[f].waited
              /\ f \in waiters => request'[f].step = "woken"
              /\ f \notin waiters => request'[f] = request[f]
<1>1. ASSUME NEW f \in Follower
      PROVE  [request[f] EXCEPT !.step = "woken"] \in Request
  BY DEF Request
<1>2. \A f \in Follower :
        request'[f] = IF f \in waiters THEN [request[f] EXCEPT !.step = "woken"]
                      ELSE request[f]
  BY DEF CloseJournal
<1>3. request' \in [Follower -> Request]
  BY <1>1 DEF CloseJournal
<1>4. ASSUME NEW f \in Follower
      PROVE  /\ request'[f].cursor = request[f].cursor
             /\ request'[f].after = request[f].after
             /\ request'[f].since = request[f].since
             /\ request'[f].page = request[f].page
             /\ request'[f].waited = request[f].waited
             /\ f \in waiters => request'[f].step = "woken"
             /\ f \notin waiters => request'[f] = request[f]
  <2>1. request[f] \in Request
    OBVIOUS
  <2> QED
    BY <1>2, <2>1 DEF Request
<1> QED
  BY <1>3, <1>4

\* No request, and a request that is sent, are requests.
LEMMA NewRequests ==
  /\ NoRequest \in Request /\ NoRequest.step = "none"
  /\ \A c \in Cursor \cup {None} :
       LET r == [NoRequest EXCEPT !.step = "sent", !.cursor = c] IN
       /\ r \in Request /\ r.step = "sent" /\ r.cursor = c
       /\ r.since = 0 /\ r.waited = 0
BY DEF NoRequest, Request

\* A wait ends by its timer: the read goes on.
LEMMA WaitEndsRequests ==
  ASSUME request \in [Follower -> Request], NEW f \in Follower, WaitEnds(f)
  PROVE  /\ request' \in [Follower -> Request]
         /\ request'[f].step = "woken"
         /\ request'[f].cursor = request[f].cursor
         /\ request'[f].after = request[f].after
         /\ request'[f].since = request[f].since
         /\ request'[f].waited = request[f].waited
         /\ \A g \in Follower \ {f} : request'[g] = request[g]
<1>1. request[f] \in Request
  OBVIOUS
<1>2. [request[f] EXCEPT !.step = "woken"] \in Request
  BY <1>1 DEF Request
<1>3. request' = [request EXCEPT ![f] = [request[f] EXCEPT !.step = "woken"]]
  BY DEF WaitEnds
<1>4. request'[f] = [request[f] EXCEPT !.step = "woken"]
  BY <1>3
<1> QED
  BY <1>1, <1>2, <1>3, <1>4 DEF Request

\* While time passes only the waits grow.
LEMMA TickRequests ==
  ASSUME request \in [Follower -> Request], Tick
  PROVE  /\ request' \in [Follower -> Request]
         /\ \A f \in Follower :
              /\ request'[f].step = request[f].step
              /\ request'[f].cursor = request[f].cursor
              /\ request'[f].after = request[f].after
              /\ request'[f].since = request[f].since
              /\ request'[f].page = request[f].page
              /\ \/ request'[f].waited = request[f].waited
                 \/ /\ request'[f].waited = request[f].waited + 1
                    /\ request[f].waited < Min({WaitTime, Timeout})
<1> DEFINE waiting == {f \in Follower : request[f].step = "waiting"}
<1>1. \A f \in Follower :
        /\ request'[f] = IF f \in waiting
                         THEN [request[f] EXCEPT !.waited = request[f].waited + 1]
                         ELSE request[f]
        /\ f \in waiting => request[f].waited < Min({WaitTime, Timeout})
  BY DEF Tick
<1>2. ASSUME NEW f \in Follower
      PROVE  [request[f] EXCEPT !.waited = request[f].waited + 1] \in Request
  BY DEF Request
<1>3. request' \in [Follower -> Request]
  BY <1>2 DEF Tick
<1> HIDE DEF waiting
<1>4. ASSUME NEW f \in Follower
      PROVE  /\ request'[f].step = request[f].step
             /\ request'[f].cursor = request[f].cursor
             /\ request'[f].after = request[f].after
             /\ request'[f].since = request[f].since
             /\ request'[f].page = request[f].page
             /\ \/ request'[f].waited = request[f].waited
                \/ /\ request'[f].waited = request[f].waited + 1
                   /\ request[f].waited < Min({WaitTime, Timeout})
  <2>1. request[f] \in Request
    OBVIOUS
  <2>2. CASE f \in waiting
    <3>1. request'[f] = [request[f] EXCEPT !.waited = request[f].waited + 1]
      BY <1>1, <2>2
    <3>2. request[f].waited < Min({WaitTime, Timeout})
      BY <1>1, <2>2
    <3> QED
      BY <2>1, <3>1, <3>2 DEF Request
  <2>3. CASE f \notin waiting
    BY <1>1, <2>3
  <2> QED
    BY <2>2, <2>3
<1> QED
  BY <1>3, <1>4
-----------------------------------------------------------------------------
\* The types of the client.
ClientTypeOK ==
  /\ client \in [Follower -> {"idle", "polling", "printing", "ended"}]
  /\ cursor \in [Follower -> Cursor \cup {None}]
  /\ page \in [Follower -> Page \cup {None}]
  /\ printed \in [Follower -> Seq(Line)]
  /\ why \in [Follower -> Ends]

\* Ending a run keeps the types of the client.
LEMMA EndTyped ==
  ASSUME ClientTypeOK, NEW f \in Follower, NEW reason \in Ends, End(f, reason)
  PROVE  /\ ClientTypeOK'
         /\ client'[f] = "ended" /\ why'[f] = reason
         /\ cursor' = cursor /\ printed' = printed
         /\ \A g \in Follower \ {f} :
              client'[g] = client[g] /\ why'[g] = why[g] /\ page'[g] = page[g]
BY DEF ClientTypeOK, End

\* A page that is printed has the lines it needs.
LEMMA Printing ==
  ASSUME FeedInv, NEW f \in Follower, client[f] = "printing"
  PROVE  /\ page[f] \in Page /\ page[f].events \in SUBSET Nat
         /\ page[f].gen \in Generation /\ page[f].seq \in Nat
         /\ page[f].gap # None =>
              page[f].gap.oldest \in Nat /\ page[f].gap.oldest >= 1
BY DEF FeedInv, FollowInv, PageInv, TellsFrom, Page, Gap

\* Publishing keeps the types of the journal.
LEMMA PublishTyped ==
  ASSUME FeedInv, NEW s \in Source, Publish(s)
  PROVE  /\ log' \in [Generation -> Seq(Source)] /\ first' \in Nat
         /\ gen' = gen
         /\ gen \in Generation => sequence' = sequence + 1 /\ sequence \in Nat
<1>1. log \in [Generation -> Seq(Source)] /\ first \in Nat
  BY DEF FeedInv, TypeOK, JournalTypeOK
<1>2. gen \in Generation
  BY DEF Publish, FeedInv, JournalInv
<1>3. log' = [log EXCEPT ![gen] = Append(log[gen], s)] /\ gen' = gen
  BY DEF Publish
<1>4. log[gen] \in Seq(Source) /\ Append(log[gen], s) \in Seq(Source)
      /\ Len(log[gen]) \in Nat
      /\ Len(Append(log[gen], s)) = Len(log[gen]) + 1
  BY <1>1, <1>2, AppendProperties, LenProperties
<1>5. log' \in [Generation -> Seq(Source)] /\ log'[gen] = Append(log[gen], s)
  BY <1>1, <1>2, <1>3, <1>4
<1>6. first' \in first..(sequence + 1)
  BY DEF Publish
<1> QED
  BY <1>1, <1>3, <1>4, <1>5, <1>6 DEF sequence

\* Every step of the journal keeps its types.
LEMMA JournalTypeKept ==
  ASSUME FeedInv, JournalNext
  PROVE  JournalTypeOK'
<1> USE DEF JournalTypeOK
<1>1. JournalTypeOK /\ request \in [Follower -> Request]
  BY DEF FeedInv, TypeOK
<1>2. ASSUME NEW f \in Follower, ReadGap(f) PROVE JournalTypeOK'
  BY <1>1, <1>2, ReadAnswers DEF ReadGap
<1>3. ASSUME NEW f \in Follower, Read(f) PROVE JournalTypeOK'
  BY <1>1, <1>3, ReadGoesOn DEF Read
<1>4. ASSUME NEW f \in Follower, Resume(f) PROVE JournalTypeOK'
  BY <1>1, <1>4, ResumeAnswers DEF Resume
<1>5. ASSUME NEW f \in Follower, WaitEnds(f) PROVE JournalTypeOK'
  BY <1>1, <1>5, WaitEndsRequests DEF WaitEnds
<1>6. ASSUME NEW s \in Source, Happen(s) PROVE JournalTypeOK'
  <2>1. Publish(s) /\ daemon' = daemon /\ Woken
    BY <1>6 DEF Happen, Publish
  <2> QED
    BY <1>1, <2>1, PublishTyped, WokenRequests
<1>7. CASE GhostEnds
  BY <1>1, <1>7 DEF GhostEnds
<1>8. CASE CloseBegin
  <2>1. Publish("daemon") /\ daemon' = "stopping" /\ Woken
    BY <1>8 DEF CloseBegin, Publish
  <2> QED
    BY <1>1, <2>1, JournalAssumption, PublishTyped, WokenRequests
<1>9. CASE CloseJournal
  BY <1>1, <1>9, ClosedRequests DEF CloseJournal
<1>10. CASE Down
  BY <1>1, <1>10, NewRequests DEF Down
<1>11. CASE Start
  <2>1. gen + 1 \in Generation /\ gen + 1 \in 0..Generations
    BY <1>1, <1>11, Numbers DEF Start, Generation
  <2>2. <<"daemon">> \in Seq(Source)
    BY JournalAssumption
  <2> QED
    BY <1>1, <1>11, <2>1, <2>2 DEF Start
<1> QED
  BY <1>2, <1>3, <1>4, <1>5, <1>6, <1>7, <1>8, <1>9, <1>10, <1>11
  DEF JournalNext, Reading
\* A line is appended to those of one follower.
LEMMA Emitted ==
  ASSUME ClientTypeOK, NEW f \in Follower, NEW line \in Line, NEW rest \in Page,
         printed' = [printed EXCEPT ![f] = Append(printed[f], line)],
         page' = [page EXCEPT ![f] = rest], UNCHANGED <<client, cursor, why>>
  PROVE  /\ ClientTypeOK'
         /\ printed'[f] # <<>> /\ Last(printed'[f]) = line
         /\ page'[f] = rest
         /\ \A g \in Follower \ {f} :
              printed'[g] = printed[g] /\ page'[g] = page[g]
<1>1. printed[f] \in Seq(Line)
  BY DEF ClientTypeOK
<1>2. /\ Append(printed[f], line) \in Seq(Line)
      /\ Append(printed[f], line) # <<>>
      /\ Len(Append(printed[f], line)) = Len(printed[f]) + 1
      /\ Append(printed[f], line)[Len(printed[f]) + 1] = line
  BY <1>1, AppendProperties
<1>3. printed'[f] = Append(printed[f], line)
  BY DEF ClientTypeOK
<1>4. Last(printed'[f]) = line
  BY <1>2, <1>3 DEF Last
<1> QED
  BY <1>2, <1>3, <1>4 DEF ClientTypeOK

\* The gap of a page is told first, and told once.
LEMMA GapLine ==
  ASSUME FeedInv, NEW f \in Follower, EmitGap(f)
  PROVE  LET p == page[f]
             line == [kind |-> "gap", gen |-> p.gen, seq |-> p.gap.oldest - 1]
             rest == [p EXCEPT !.gap = None]
         IN
         /\ ClientTypeOK' /\ line \in Line /\ rest \in Page
         /\ rest.gap = None /\ rest.gen = p.gen /\ rest.seq = p.seq
         /\ rest.events = p.events
         /\ printed' = [printed EXCEPT ![f] = Append(printed[f], line)]
         /\ printed'[f] # <<>> /\ Last(printed'[f]) = line
         /\ page'[f] = rest
         /\ \A g \in Follower \ {f} :
              printed'[g] = printed[g] /\ page'[g] = page[g]
<1> DEFINE p == page[f]
           line == [kind |-> "gap", gen |-> p.gen, seq |-> p.gap.oldest - 1]
           rest == [p EXCEPT !.gap = None]
<1>1. /\ client[f] = "printing" /\ p.gap # None
      /\ printed' = [printed EXCEPT ![f] = Append(printed[f], line)]
      /\ page' = [page EXCEPT ![f] = rest] /\ UNCHANGED <<client, cursor, why>>
  BY DEF EmitGap, Emit
<1>2. /\ p \in Page /\ p.gen \in Generation /\ p.gap.oldest - 1 \in Nat
  BY <1>1, Printing
<1>3. line \in Line
  BY <1>2 DEF Line
<1>4. /\ rest \in Page /\ rest.gap = None /\ rest.gen = p.gen
      /\ rest.seq = p.seq /\ rest.events = p.events
  BY <1>2 DEF Page
<1>5. ClientTypeOK
  BY DEF FeedInv, TypeOK, ClientTypeOK
<1> HIDE DEF p, line, rest
<1>6. /\ ClientTypeOK' /\ printed'[f] # <<>> /\ Last(printed'[f]) = line
      /\ page'[f] = rest
      /\ \A g \in Follower \ {f} : printed'[g] = printed[g] /\ page'[g] = page[g]
  BY <1>1, <1>3, <1>4, <1>5, Emitted
<1> QED
  BY <1>1, <1>3, <1>4, <1>6 DEF p, line, rest

\* The events of a page are told from the first one on.
LEMMA EventLine ==
  ASSUME FeedInv, NEW f \in Follower, EmitEvent(f)
  PROVE  LET p == page[f]
             n == Min(p.events)
             line == [kind |-> "event", gen |-> p.gen, seq |-> n]
             rest == [p EXCEPT !.events = p.events \ {n}]
         IN
         /\ ClientTypeOK' /\ line \in Line /\ rest \in Page
         /\ rest.gap = None /\ rest.gen = p.gen /\ rest.seq = p.seq
         /\ rest.events = p.events \ {n}
         /\ n \in p.events /\ n \in Nat /\ \A m \in p.events : n <= m
         /\ printed' = [printed EXCEPT ![f] = Append(printed[f], line)]
         /\ printed'[f] # <<>> /\ Last(printed'[f]) = line
         /\ page'[f] = rest
         /\ \A g \in Follower \ {f} :
              printed'[g] = printed[g] /\ page'[g] = page[g]
<1> DEFINE p == page[f]
           n == Min(p.events)
           line == [kind |-> "event", gen |-> p.gen, seq |-> n]
           rest == [p EXCEPT !.events = p.events \ {n}]
<1>1. /\ client[f] = "printing" /\ p.gap = None /\ p.events # {}
      /\ printed' = [printed EXCEPT ![f] = Append(printed[f], line)]
      /\ page' = [page EXCEPT ![f] = rest] /\ UNCHANGED <<client, cursor, why>>
  BY DEF EmitEvent, Emit
<1>2. /\ p \in Page /\ p.gen \in Generation /\ p.events \in SUBSET Nat
  BY <1>1, Printing
<1>3. n \in p.events /\ n \in Nat /\ \A m \in p.events : n <= m
  BY <1>1, <1>2, LeastIsOne
<1> HIDE DEF n
<1>4. line \in Line
  BY <1>2, <1>3 DEF Line
<1>5. /\ rest \in Page /\ rest.gap = None /\ rest.gen = p.gen
      /\ rest.seq = p.seq /\ rest.events = p.events \ {n}
  BY <1>1, <1>2 DEF Page
<1>6. ClientTypeOK
  BY DEF FeedInv, TypeOK, ClientTypeOK
<1> HIDE DEF p, line, rest
<1>7. /\ ClientTypeOK' /\ printed'[f] # <<>> /\ Last(printed'[f]) = line
      /\ page'[f] = rest
      /\ \A g \in Follower \ {f} : printed'[g] = printed[g] /\ page'[g] = page[g]
  BY ZenonT(90), <1>1, <1>4, <1>5, <1>6, Emitted
<1> QED
  BY <1>1, <1>3, <1>4, <1>5, <1>7 DEF p, line, rest, n

\* Every step of a follower, and every tick, keeps the types.
LEMMA ClientTypeKept ==
  ASSUME FeedInv, Tick \/ \E f \in Follower : Following(f) \/ Leaving(f)
  PROVE  TypeOK'
<1>1. ClientTypeOK /\ JournalTypeOK /\ request \in [Follower -> Request]
  BY DEF FeedInv, TypeOK, ClientTypeOK, JournalTypeOK
<1>2. ASSUME ClientTypeOK', JournalTypeOK' PROVE TypeOK'
  BY <1>2 DEF TypeOK, ClientTypeOK
<1>3. ASSUME NEW f \in Follower, Poll(f) PROVE TypeOK'
  <2>1. ClientTypeOK'
    BY <1>1, <1>3 DEF Poll, ClientTypeOK
  <2>2. request' \in [Follower -> Request]
    BY <1>1, <1>3, NewRequests DEF Poll, ClientTypeOK
  <2>3. JournalTypeOK'
    BY <1>1, <1>3, <2>2 DEF Poll, JournalTypeOK
  <2> QED
    BY <1>2, <2>1, <2>3
<1>4. ASSUME NEW f \in Follower, Receive(f) PROVE TypeOK'
  <2>1. request' \in [Follower -> Request]
    BY <1>1, <1>4, NewRequests DEF Receive
  <2>2. JournalTypeOK'
    BY <1>1, <1>4, <2>1 DEF Receive, JournalTypeOK
  <2>3. request[f].page \in Page \cup {None}
    BY <1>1 DEF Request
  <2>4. CASE IsValid(cursor[f], request[f].page)
    BY <1>1, <1>2, <1>4, <2>2, <2>3, <2>4 DEF Receive, ClientTypeOK
  <2>5. CASE ~IsValid(cursor[f], request[f].page)
    BY <1>1, <1>2, <1>4, <2>2, <2>5, EndTyped DEF Receive, Ends
  <2> QED
    BY <2>4, <2>5
<1>5. ASSUME NEW f \in Follower, Refused(f) PROVE TypeOK'
  <2>1. request' \in [Follower -> Request]
    BY <1>1, <1>5, NewRequests DEF Refused
  <2>2. JournalTypeOK'
    BY <1>1, <1>5, <2>1 DEF Refused, JournalTypeOK
  <2> QED
    BY <1>1, <1>2, <1>5, <2>2, EndTyped DEF Refused, Ends
<1>6. ASSUME NEW f \in Follower, Lost(f) PROVE TypeOK'
  <2>1. PICK reason \in Ends : Leave(f, reason)
    BY <1>6 DEF Lost, Ends
  <2>2. request' \in [Follower -> Request]
    BY <1>1, <2>1, NewRequests DEF Leave
  <2>3. JournalTypeOK'
    BY <1>1, <2>1, <2>2 DEF Leave, JournalTypeOK
  <2> QED
    BY <1>1, <1>2, <2>1, <2>3, EndTyped DEF Leave
<1>7. ASSUME NEW f \in Follower, Stop(f) PROVE TypeOK'
  <2>1. JournalTypeOK'
    BY <1>1, <1>7 DEF Stop, JournalTypeOK
  <2> QED
    BY <1>1, <1>2, <1>7, <2>1, EndTyped DEF Stop, Ends
<1>8. ASSUME NEW f \in Follower, EmitGap(f) PROVE TypeOK'
  <2>1. JournalTypeOK'
    BY <1>1, <1>8 DEF EmitGap, Emit, JournalTypeOK
  <2> QED
    BY <1>2, <1>8, <2>1, GapLine
<1>9. ASSUME NEW f \in Follower, EmitEvent(f) PROVE TypeOK'
  <2>1. JournalTypeOK'
    BY <1>1, <1>9 DEF EmitEvent, Emit, JournalTypeOK
  <2> QED
    BY <1>2, <1>9, <2>1, EventLine
<1>10. ASSUME NEW f \in Follower, PageDone(f) PROVE TypeOK'
  <2>1. JournalTypeOK'
    BY <1>1, <1>10 DEF PageDone, JournalTypeOK
  <2>2. [gen |-> page[f].gen, seq |-> page[f].seq] \in Cursor
    BY <1>10, Printing DEF PageDone, Cursor
  <2>3. ClientTypeOK'
    BY <1>1, <1>10, <2>2 DEF PageDone, ClientTypeOK
  <2> QED
    BY <1>2, <2>1, <2>3
<1>11. ASSUME NEW f \in Follower, Rerun(f) PROVE TypeOK'
  <2>1. JournalTypeOK'
    BY <1>1, <1>11 DEF Rerun, JournalTypeOK
  <2>2. printed[f] # <<>> =>
          [gen |-> Last(printed[f]).gen, seq |-> Last(printed[f]).seq] \in Cursor
    <3> SUFFICES ASSUME printed[f] # <<>> PROVE LastLine(f) \in Cursor
      BY DEF LastLine
    <3>1. printed[f] \in Seq(Line)
      BY <1>1 DEF ClientTypeOK
    <3>2. Last(printed[f]) \in Line
      BY <3>1, LenProperties, ElementOfSeq, EmptySeq DEF Last
    <3> QED
      BY <3>2 DEF Line, Cursor, LastLine
  <2>3. ClientTypeOK'
    BY <1>1, <1>11, <2>2 DEF Rerun, ClientTypeOK, Ends
  <2> QED
    BY <1>2, <2>1, <2>3
<1>12. CASE Tick
  <2>1. JournalTypeOK'
    BY <1>1, <1>12, TickRequests DEF Tick, JournalTypeOK
  <2> QED
    BY <1>1, <1>2, <1>12, <2>1 DEF Tick, ClientTypeOK
<1> QED
  BY <1>3, <1>4, <1>5, <1>6, <1>7, <1>8, <1>9, <1>10, <1>11, <1>12
  DEF Following, Leaving

\* Every step keeps the types.
LEMMA TypeKept == FeedInv /\ [Next]_vars => TypeOK'
<1> SUFFICES ASSUME FeedInv, [Next]_vars PROVE TypeOK'
  OBVIOUS
<1>1. CASE JournalNext /\ UNCHANGED clientVars
  BY <1>1, JournalTypeKept DEF FeedInv, TypeOK
<1>2. CASE Tick \/ \E f \in Follower : Following(f) \/ Leaving(f)
  BY <1>2, ClientTypeKept
<1>3. CASE UNCHANGED vars
  BY <1>3 DEF vars, FeedInv, TypeOK, JournalTypeOK
<1> QED
  BY <1>1, <1>2, <1>3 DEF Next
-----------------------------------------------------------------------------
\* What is known of the request of one follower.
RequestOf(f) ==
  LET r == request[f] IN
  /\ r.step # "none" => client[f] = "polling" /\ r.cursor = cursor[f]
  /\ r.step \in {"sent", "waiting", "woken"} => daemon # "down"
  /\ r.step = "sent" => r.since = 0
  /\ r.step \in {"waiting", "woken"} => WaitInv(r)
  /\ r.step = "answered" => AnswerInv(f, r.cursor, r.page)

\* A request that is left alone, and waits only if the journal is, too.
LEMMA SameRequest ==
  ASSUME FeedInv, TypeOK', LogGrows, NEW f \in Follower,
         request'[f].step = request[f].step, request'[f].since = request[f].since,
         request'[f].cursor = request[f].cursor, request'[f].page = request[f].page,
         request'[f].after = request[f].after,
         request[f].step # "none"
           => client'[f] = client[f] /\ cursor'[f] = cursor[f],
         request[f].step \in {"sent", "waiting", "woken"} => daemon' # "down",
         request[f].step \in {"waiting", "woken"} => UNCHANGED <<gen, log, first>>
  PROVE  RequestOf(f)'
<1>1. JournalTypeOK /\ JournalTypeOK'
  BY DEF FeedInv, TypeOK
<1>2. RequestOf(f)
  BY DEF FeedInv, RequestInv, RequestOf
<1>3. \A c, p : AnswerInv(f, c, p) => AnswerInv(f, c, p)'
  BY <1>1, AnswerStays
<1>4. request'[f].step = "answered"
        => AnswerInv(f, request[f].cursor, request[f].page)'
  BY <1>2, <1>3 DEF RequestOf
<1>5. request'[f].step \in {"waiting", "woken"} => WaitInv(request[f])'
  BY <1>2 DEF RequestOf, WaitInv, sequence
<1> QED
  BY <1>2, <1>4, <1>5 DEF RequestOf
\* What is retained reaches back to every read that was woken, because a burst
\* of publications is no longer than what the size limit always retains.
LEMMA PublishKeepsRequests ==
  ASSUME FeedInv, TypeOK', LogGrows, NEW s \in Source, Publish(s),
         daemon' # "down", UNCHANGED clientVars, NEW f \in Follower
  PROVE  RequestOf(f)'
<1>1. /\ request \in [Follower -> Request] /\ request[f] \in Request
      /\ RequestOf(f)
      /\ waiters = {g \in Follower : request[g].step = "waiting"}
  BY DEF FeedInv, TypeOK, JournalTypeOK, JournalInv, RequestInv, RequestOf
<1>2. /\ request'[f].cursor = request[f].cursor
      /\ request'[f].after = request[f].after
      /\ request'[f].page = request[f].page
      /\ f \in waiters => request'[f].step = "woken" /\ request'[f].since = 1
      /\ f \notin waiters /\ request[f].step = "woken"
           => /\ request'[f].step = "woken"
              /\ request'[f].since = request[f].since + 1
      /\ f \notin waiters /\ request[f].step # "woken"
           => request'[f] = request[f]
  BY <1>1, WokenRequests DEF Publish
<1>3. CASE request[f].step \notin {"waiting", "woken"}
  <2>1. request'[f] = request[f]
    BY <1>1, <1>2, <1>3
  <2> QED
    BY <1>3, <2>1, SameRequest
<1>4. CASE request[f].step \in {"waiting", "woken"}
  <2>1. /\ request'[f].step = "woken" /\ request'[f].since = request[f].since + 1
        /\ WaitInv(request[f]) /\ request[f].cursor = cursor[f]
        /\ client[f] = "polling"
    BY <1>1, <1>2, <1>4 DEF RequestOf, WaitInv
  <2>2. request[f].since \in Nat /\ request[f].after \in Nat
    BY <1>1 DEF Request
  <2>3. Burst \in Nat \ {0} /\ MinRetained \in Nat /\ Burst <= MinRetained
    BY JournalAssumption
  <2>4. request[f].since + 1 <= Burst
    <3>1. CASE request[f].step = "waiting"
      BY <2>1, <2>3, <3>1 DEF WaitInv
    <3>2. CASE request[f].step = "woken"
      BY <2>2, <2>3, <3>2 DEF Publish
    <3> QED
      BY <1>4, <3>1, <3>2
  <2>5. /\ gen \in Generation /\ gen' = gen /\ sequence' = sequence + 1
        /\ sequence \in Nat /\ sequence = request[f].after + request[f].since
    BY <2>1, PublishTyped DEF WaitInv
  <2>6. first' <= request[f].after + 1
    <3>1. PICK n \in first..(sequence + 1) :
            /\ n = first \/ sequence + 2 - n >= MinRetained
            /\ first' = n
      BY DEF Publish
    <3>2. first \in Nat /\ first <= request[f].after + 1
      BY <2>1 DEF WaitInv, FeedInv, TypeOK, JournalTypeOK
    <3>3. CASE n = first
      BY <3>1, <3>2, <3>3
    <3>4. CASE sequence + 2 - n >= MinRetained
      BY <2>2, <2>3, <2>4, <2>5, <3>1, <3>2, <3>4
    <3> QED
      BY <3>1, <3>3, <3>4
  <2>7. WaitInv(request[f])
    BY <2>1
  <2>8. request[f].cursor # None
          => request[f].cursor.gen = gen /\ request[f].cursor.seq = request[f].after
    BY <2>7 DEF WaitInv
  <2>9. sequence' = request'[f].after + request'[f].since
        /\ request'[f].since <= Burst
    BY <1>2, <2>1, <2>2, <2>4, <2>5
  <2>10. WaitInv(request[f])'
    BY <1>2, <2>1, <2>5, <2>6, <2>8, <2>9 DEF WaitInv
  <2> QED
    BY <1>2, <2>1, <2>10 DEF RequestOf
<1> QED
  BY <1>3, <1>4

\* Every step of the journal keeps the requests.
LEMMA JournalKeepsRequests ==
  ASSUME FeedInv, TypeOK', LogGrows, JournalNext, UNCHANGED clientVars
  PROVE  RequestInv'
<1>0. SUFFICES ASSUME NEW f \in Follower PROVE RequestOf(f)'
  BY DEF RequestInv, RequestOf
<1>1. /\ request \in [Follower -> Request] /\ JournalTypeOK /\ JournalTypeOK'
      /\ waiters = {g \in Follower : request[g].step = "waiting"}
      /\ RequestOf(f)
  BY DEF FeedInv, TypeOK, JournalTypeOK, JournalInv, RequestInv, RequestOf
<1>2. \A c, p : AnswerInv(f, c, p) => AnswerInv(f, c, p)'
  BY <1>1, AnswerStays
<1>3. ASSUME NEW g \in Follower, Reading(g) \/ WaitEnds(g), g # f
      PROVE  RequestOf(f)'
  <2>1. request'[f] = request[f]
    BY <1>1, <1>3, ReadAnswers, ReadGoesOn, ResumeAnswers, WaitEndsRequests
    DEF Reading
  <2>2. UNCHANGED <<daemon, gen, log, first>>
    BY <1>3 DEF Reading, ReadGap, Read, Resume, WaitEnds
  <2> QED
    BY <1>1, <2>1, <2>2, SameRequest DEF RequestOf
<1>4. CASE ReadGap(f) \/ Resume(f)
  <2>1. /\ request'[f].step = "answered" /\ request'[f].cursor = request[f].cursor
        /\ AnswerInv(f, request'[f].cursor, request'[f].page)
    BY <1>4, ReadAnswers, ResumeAnswers
  <2>2. request[f].step \in {"sent", "woken"}
    BY <1>4 DEF ReadGap, Resume
  <2>3. client[f] = "polling" /\ request[f].cursor = cursor[f]
    BY <1>1, <2>2 DEF RequestOf
  <2>4. AnswerInv(f, request[f].cursor, request[f].page)'
    BY <1>2, <2>1
  <2> QED
    BY <2>1, <2>3, <2>4 DEF RequestOf
<1>5. CASE Read(f)
  <2>1. request'[f].cursor = request[f].cursor /\ daemon # "down"
    BY <1>5, ReadGoesOn
  <2>2. client[f] = "polling" /\ request[f].cursor = cursor[f]
    BY <1>1, <1>5 DEF RequestOf, Read
  <2>3. UNCHANGED <<daemon, gen, log, first>>
    BY <1>5 DEF Read
  <2>4. CASE request'[f].step = "refused"
    BY <2>1, <2>2, <2>4 DEF RequestOf
  <2>5. CASE /\ request'[f].step = "answered"
             /\ AnswerInv(f, request'[f].cursor, request'[f].page)
    <3>1. AnswerInv(f, request[f].cursor, request[f].page)'
      BY <1>2, <2>5
    <3> QED
      BY <2>1, <2>2, <2>5, <3>1 DEF RequestOf
  <2>6. CASE request'[f].step = "waiting" /\ WaitInv(request'[f])
    <3>1. WaitInv(request[f])'
      BY <2>3, <2>6 DEF WaitInv, sequence
    <3> QED
      BY <2>1, <2>2, <2>3, <2>6, <3>1 DEF RequestOf
  <2> QED
    BY <1>5, <2>4, <2>5, <2>6, ReadGoesOn
<1>6. CASE WaitEnds(f)
  <2>1. /\ request'[f].step = "woken" /\ request[f].step = "waiting"
        /\ request'[f].cursor = request[f].cursor
        /\ request'[f].after = request[f].after
        /\ request'[f].since = request[f].since
    BY <1>1, <1>6, WaitEndsRequests DEF WaitEnds
  <2>2. UNCHANGED <<daemon, gen, log, first>>
    BY <1>6 DEF WaitEnds
  <2>3. WaitInv(request[f]) /\ daemon # "down" /\ client[f] = "polling"
        /\ request[f].cursor = cursor[f]
    BY <1>1, <2>1 DEF RequestOf
  <2>4. WaitInv(request[f])'
    BY <2>1, <2>2, <2>3 DEF WaitInv, sequence
  <2> QED
    BY <2>1, <2>2, <2>3, <2>4 DEF RequestOf
<1>7. ASSUME NEW s \in Source, Happen(s) PROVE RequestOf(f)'
  <2>1. Publish(s) /\ daemon' # "down"
    BY <1>7 DEF Happen, Publish
  <2> QED
    BY <2>1, PublishKeepsRequests
<1>8. CASE CloseBegin
  <2>1. Publish("daemon") /\ daemon' # "down"
    BY <1>8 DEF CloseBegin
  <2> QED
    BY <2>1, JournalAssumption, PublishKeepsRequests
<1>9. CASE GhostEnds
  BY <1>1, <1>9, SameRequest DEF GhostEnds, RequestOf
<1>10. CASE CloseJournal
  <2>1. /\ request'[f].cursor = request[f].cursor
        /\ request'[f].after = request[f].after
        /\ request'[f].since = request[f].since
        /\ request'[f].page = request[f].page
        /\ f \in waiters => request'[f].step = "woken"
        /\ f \notin waiters => request'[f] = request[f]
    BY <1>1, <1>10, ClosedRequests
  <2>2. UNCHANGED <<gen, log, first>> /\ daemon' # "down"
    BY <1>10 DEF CloseJournal
  <2>3. CASE f \in waiters
    <3>1. WaitInv(request[f]) /\ client[f] = "polling"
          /\ request[f].cursor = cursor[f]
      BY <1>1, <2>3 DEF RequestOf
    <3>2. WaitInv(request[f])'
      BY <2>1, <2>2, <2>3, <3>1 DEF WaitInv, sequence
    <3> QED
      BY <2>1, <2>2, <2>3, <3>1, <3>2 DEF RequestOf
  <2>4. CASE f \notin waiters
    BY <2>1, <2>2, <2>4, SameRequest
  <2> QED
    BY <2>3, <2>4
<1>11. CASE Down
  <2>1. request'[f] = IF request[f].step \in {"answered", "refused"}
                      THEN request[f] ELSE NoRequest
    BY <1>11 DEF Down
  <2>2. CASE request[f].step \in {"answered", "refused"}
    BY <2>1, <2>2, SameRequest
  <2>3. CASE request[f].step \notin {"answered", "refused"}
    BY <2>1, <2>3, NewRequests DEF RequestOf
  <2> QED
    BY <2>2, <2>3
<1>12. CASE Start
  <2>1. request[f].step \notin {"sent", "waiting", "woken"}
    BY <1>1, <1>12 DEF RequestOf, Start
  <2> QED
    BY <1>12, <2>1, SameRequest DEF Start
<1> QED
  BY <1>3, <1>4, <1>5, <1>6, <1>7, <1>8, <1>9, <1>10, <1>11, <1>12
  DEF JournalNext, Reading
\* Every step of a follower keeps the requests: its own is gone, new or the
\* same, and those of the others are left alone.
LEMMA ClientKeepsRequests ==
  ASSUME FeedInv, TypeOK', LogGrows, NEW g \in Follower,
         Following(g) \/ Leaving(g)
  PROVE  RequestInv'
<1>0. SUFFICES ASSUME NEW f \in Follower PROVE RequestOf(f)'
  BY DEF RequestInv, RequestOf
<1>1. /\ request \in [Follower -> Request] /\ JournalTypeOK /\ ClientTypeOK
      /\ RequestOf(f)
  BY DEF FeedInv, TypeOK, JournalTypeOK, ClientTypeOK, RequestInv, RequestOf
<1>2. UNCHANGED <<daemon, gen, log, first>>
  BY DEF Following, Leaving, Poll, Receive, EmitGap, EmitEvent, Emit, PageDone,
     Refused, Lost, Leave, Stop, Rerun
<1>3. CASE f # g
  <2>1. request'[f] = request[f] /\ client'[f] = client[f]
        /\ cursor'[f] = cursor[f]
    BY <1>1, <1>3 DEF Following, Leaving, Poll, Receive, EmitGap, EmitEvent,
       Emit, PageDone, Refused, Lost, Leave, Stop, Rerun, End, ClientTypeOK
  <2> QED
    BY <1>1, <1>2, <2>1, SameRequest DEF RequestOf
<1>4. CASE f = g /\ (Receive(g) \/ Refused(g) \/ Lost(g))
  <2>1. request'[f] = NoRequest
    BY <1>1, <1>4 DEF Receive, Refused, Lost, Leave
  <2> QED
    BY <2>1, NewRequests DEF RequestOf
<1>5. CASE f = g /\ Poll(g)
  <2>1. cursor[f] \in Cursor \cup {None}
    BY <1>1 DEF ClientTypeOK
  <2>2. request'[f] = [NoRequest EXCEPT !.step = "sent", !.cursor = cursor[f]]
    BY <1>1, <1>5 DEF Poll
  <2>3. /\ request'[f].step = "sent" /\ request'[f].cursor = cursor[f]
        /\ request'[f].since = 0
    BY ZenonT(30), <2>1, <2>2, NewRequests
  <2>4. client'[f] = "polling" /\ cursor' = cursor /\ daemon' # "down"
    BY <1>1, <1>5 DEF Poll, ClientTypeOK
  <2> QED
    BY <2>3, <2>4 DEF RequestOf
<1>6. CASE f = g /\ (EmitGap(g) \/ EmitEvent(g) \/ PageDone(g) \/ Stop(g)
                     \/ Rerun(g))
  <2>1. client[f] # "polling" /\ request' = request
    BY <1>6 DEF EmitGap, EmitEvent, Emit, PageDone, Stop, Rerun
  <2>2. request[f].step = "none"
    BY <1>1, <2>1 DEF RequestOf
  <2> QED
    BY <2>1, <2>2 DEF RequestOf
<1> QED
  BY <1>3, <1>4, <1>5, <1>6 DEF Following, Leaving

\* Every step keeps the requests.
LEMMA RequestKept == FeedInv /\ [Next]_vars => RequestInv'
<1> SUFFICES ASSUME FeedInv, [Next]_vars PROVE RequestInv'
  OBVIOUS
<1>1. TypeOK' /\ LogGrows
  BY TypeKept, LogOnlyGrows
<1>2. CASE JournalNext /\ UNCHANGED clientVars
  BY <1>1, <1>2, JournalKeepsRequests
<1>3. ASSUME NEW f \in Follower, Following(f) \/ Leaving(f) PROVE RequestInv'
  BY <1>1, <1>3, ClientKeepsRequests
<1>4. CASE Tick
  <2> SUFFICES ASSUME NEW f \in Follower PROVE RequestOf(f)'
    BY DEF RequestInv, RequestOf
  <2>1. request \in [Follower -> Request] /\ RequestOf(f)
    BY DEF FeedInv, TypeOK, JournalTypeOK, RequestInv, RequestOf
  <2>2. /\ request'[f].step = request[f].step
        /\ request'[f].cursor = request[f].cursor
        /\ request'[f].after = request[f].after
        /\ request'[f].since = request[f].since
        /\ request'[f].page = request[f].page
    BY <1>4, <2>1, TickRequests
  <2>3. UNCHANGED <<daemon, gen, log, first, clientVars>>
    BY <1>4 DEF Tick
  <2> QED
    BY <1>1, <2>1, <2>2, <2>3, SameRequest DEF RequestOf
<1>5. CASE UNCHANGED vars
  <2> SUFFICES ASSUME NEW f \in Follower PROVE RequestOf(f)'
    BY DEF RequestInv, RequestOf
  <2>1. RequestOf(f)
    BY DEF FeedInv, RequestInv, RequestOf
  <2>2. UNCHANGED <<daemon, gen, log, first, request, clientVars>>
    BY <1>5 DEF vars
  <2> QED
    BY <1>1, <2>1, <2>2, SameRequest DEF RequestOf
<1> QED
  BY <1>2, <1>3, <1>4, <1>5 DEF Next

-----------------------------------------------------------------------------
\* What is retained is the end of the log, and the waiters are the reads that
\* wait.
LEMMA JournalKept == FeedInv /\ [Next]_vars => JournalInv'
<1> SUFFICES ASSUME FeedInv, [Next]_vars PROVE JournalInv'
  OBVIOUS
<1>1. /\ request \in [Follower -> Request] /\ JournalTypeOK /\ JournalInv
      /\ ClientTypeOK /\ RequestInv
  BY DEF FeedInv, TypeOK, JournalTypeOK, ClientTypeOK
<1>2. ASSUME NEW f \in Follower, ReadGap(f) PROVE JournalInv'
  <2>1. UNCHANGED <<daemon, gen, log, first, waiters>>
    BY <1>2 DEF ReadGap
  <2>2. request'[f].step # "waiting" /\ request[f].step # "waiting"
        /\ \A g \in Follower \ {f} : request'[g] = request[g]
    BY <1>2, ReadAnswers DEF ReadGap
  <2> QED
    BY <1>1, <2>1, <2>2 DEF JournalInv, sequence
<1>3. ASSUME NEW f \in Follower, Read(f) PROVE JournalInv'
  <2>1. UNCHANGED <<daemon, gen, log, first>> /\ request[f].step = "sent"
    BY <1>3 DEF Read
  <2>2. \/ request'[f].step # "waiting" /\ waiters' = waiters
        \/ request'[f].step = "waiting" /\ waiters' = waiters \cup {f}
    BY <1>3, ReadGoesOn
  <2>3. \A g \in Follower \ {f} : request'[g] = request[g]
    BY <1>3, ReadGoesOn
  <2> QED
    BY <1>1, <2>1, <2>2, <2>3 DEF JournalInv, sequence
<1>4. ASSUME NEW f \in Follower, Resume(f) PROVE JournalInv'
  <2>1. UNCHANGED <<daemon, gen, log, first, waiters>>
    BY <1>4 DEF Resume
  <2>2. request'[f].step # "waiting" /\ request[f].step # "waiting"
        /\ \A g \in Follower \ {f} : request'[g] = request[g]
    BY <1>4, ResumeAnswers DEF Resume
  <2> QED
    BY <1>1, <2>1, <2>2 DEF JournalInv, sequence
<1>5. ASSUME NEW f \in Follower, WaitEnds(f) PROVE JournalInv'
  <2>1. UNCHANGED <<daemon, gen, log, first>> /\ waiters' = waiters \ {f}
    BY <1>5 DEF WaitEnds
  <2>2. request'[f].step = "woken"
        /\ \A g \in Follower \ {f} : request'[g] = request[g]
    BY <1>1, <1>5, WaitEndsRequests
  <2> QED
    BY <1>1, <2>1, <2>2 DEF JournalInv, sequence
<1>6. ASSUME NEW s \in Source, Publish(s) PROVE JournalInv'
  <2>1. gen \in Generation /\ gen' = gen /\ sequence' = sequence + 1
        /\ sequence \in Nat
    BY <1>1, <1>6, PublishTyped DEF Publish, JournalInv
  <2>2. first' \in first..(sequence + 1) /\ first \in 1..(sequence + 1)
    BY <1>1, <1>6, <2>1, Numbers DEF Publish, JournalInv, Generation
  <2>3. waiters' = {} /\ \A f \in Follower : request'[f].step # "waiting"
    <3>1. waiters' = {} /\
          \A f \in Follower :
            /\ f \in waiters => request'[f].step = "woken"
            /\ f \notin waiters /\ request[f].step = "woken"
                 => request'[f].step = "woken"
            /\ f \notin waiters /\ request[f].step # "woken"
                 => request'[f] = request[f]
      BY <1>1, <1>6, WokenRequests DEF Publish
    <3>2. waiters = {f \in Follower : request[f].step = "waiting"}
      BY <1>1 DEF JournalInv
    <3> QED
      BY <3>1, <3>2
  <2> QED
    BY <2>1, <2>2, <2>3 DEF JournalInv
<1>7. CASE GhostEnds
  BY <1>1, <1>7 DEF GhostEnds, JournalInv, sequence
<1>8. CASE CloseJournal
  <2>1. UNCHANGED <<gen, log, first>> /\ waiters' = {} /\ daemon = "stopping"
    BY <1>8 DEF CloseJournal
  <2>2. \A f \in Follower :
          /\ f \in waiters => request'[f].step = "woken"
          /\ f \notin waiters => request'[f] = request[f]
    BY <1>1, <1>8, ClosedRequests
  <2> QED
    BY <1>1, <2>1, <2>2 DEF JournalInv, sequence
<1>9. CASE Down
  <2>1. UNCHANGED <<gen, log, first>> /\ waiters' = {} /\ daemon' = "down"
    BY <1>9 DEF Down
  <2>2. \A f \in Follower : request'[f].step # "waiting"
    BY <1>1, <1>9, NewRequests DEF Down
  <2> QED
    BY <1>1, <2>1, <2>2 DEF JournalInv, sequence
<1>10. CASE Start
  <2>1. gen' \in Generation /\ first' = 1 /\ log'[gen'] = <<"daemon">>
    BY <1>1, <1>10, Numbers DEF Start, Generation, JournalTypeOK
  <2>2. sequence' = 1
    BY <2>1 DEF sequence
  <2> QED
    BY <1>1, <1>10, <2>1, <2>2 DEF Start, JournalInv
<1>11. ASSUME NEW f \in Follower, Following(f) \/ Leaving(f) PROVE JournalInv'
  <2>1. UNCHANGED <<daemon, gen, log, first>>
    BY <1>11 DEF Following, Leaving, Poll, Receive, EmitGap, EmitEvent, Emit,
       PageDone, Refused, Lost, Leave, Stop, Rerun
  <2>2. CASE Lost(f)
    <3>1. waiters' = waiters \ {f} /\ request' = [request EXCEPT ![f] = NoRequest]
      BY <2>2 DEF Lost, Leave
    <3>2. request'[f].step # "waiting"
          /\ \A g \in Follower \ {f} : request'[g] = request[g]
      BY <1>1, <3>1, NewRequests
    <3>3. waiters' = {g \in Follower : request'[g].step = "waiting"}
      BY <1>1, <3>1, <3>2 DEF JournalInv
    <3> QED
      BY <1>1, <2>1, <3>3 DEF JournalInv, sequence
  <2>3. CASE Poll(f)
    <3>1. waiters' = waiters /\ client[f] = "idle" /\
          request' = [request EXCEPT ![f] = [NoRequest EXCEPT !.step = "sent",
                                                       !.cursor = cursor[f]]]
      BY <2>3 DEF Poll
    <3>2. request[f].step = "none" /\ request'[f].step = "sent"
          /\ \A g \in Follower \ {f} : request'[g] = request[g]
      BY <1>1, <3>1, NewRequests DEF RequestInv, ClientTypeOK
    <3> QED
      BY <1>1, <2>1, <3>1, <3>2 DEF JournalInv, sequence
  <2>4. CASE Receive(f) \/ Refused(f)
    <3>1. waiters' = waiters /\ request[f].step # "waiting" /\
          request' = [request EXCEPT ![f] = NoRequest]
      BY <2>4 DEF Receive, Refused
    <3>2. request'[f].step # "waiting"
          /\ \A g \in Follower \ {f} : request'[g] = request[g]
      BY <1>1, <3>1, NewRequests
    <3>3. waiters' = {g \in Follower : request'[g].step = "waiting"}
      BY <1>1, <3>1, <3>2 DEF JournalInv
    <3> QED
      BY <1>1, <2>1, <3>3 DEF JournalInv, sequence
  <2>5. CASE EmitGap(f) \/ EmitEvent(f) \/ PageDone(f) \/ Stop(f) \/ Rerun(f)
    <3>1. UNCHANGED <<waiters, request>>
      BY <2>5 DEF EmitGap, EmitEvent, Emit, PageDone, Stop, Rerun
    <3> QED
      BY <1>1, <2>1, <3>1 DEF JournalInv, sequence
  <2> QED
    BY <1>11, <2>2, <2>3, <2>4, <2>5 DEF Following, Leaving
<1>12. CASE Tick
  <2>1. UNCHANGED <<daemon, gen, log, first, waiters>>
        /\ \A f \in Follower : request'[f].step = request[f].step
    BY <1>1, <1>12, TickRequests DEF Tick
  <2> QED
    BY <1>1, <2>1 DEF JournalInv, sequence
<1>13. CASE UNCHANGED vars
  BY <1>1, <1>13 DEF vars, JournalInv, sequence
<1> QED
  BY <1>2, <1>3, <1>4, <1>5, <1>6, <1>7, <1>8, <1>9, <1>10, <1>11, <1>12,
     <1>13, JournalAssumption
  DEF Next, JournalNext, Reading, Happen, CloseBegin
-----------------------------------------------------------------------------
\* What is known of one follower.
FollowOf(f) ==
  /\ cursor[f] # None => Known(cursor[f])
  /\ printed[f] # <<>> => Known(Last(printed[f]))
  /\ client[f] \in {"idle", "polling"} /\ Reached(f) # NoPlace
       => cursor[f] # None /\ Follows(f, Reached(f), cursor[f])
  /\ client[f] = "printing" => PageInv(f, page[f], Reached(f))
  /\ why[f] # "invalid"

\* What the lines of a follower have reached is a place, or none.
LEMMA ReachedIsPlace ==
  ASSUME FeedInv, NEW f \in Follower
  PROVE  /\ cursor[f] # None => cursor[f] \in Cursor
         /\ printed[f] # <<>> => Last(printed[f]) \in Line
         /\ Reached(f) # NoPlace => Reached(f) \in Cursor
<1>1. cursor[f] # None => cursor[f] \in Cursor
  BY DEF FeedInv, TypeOK
<1>2. ASSUME printed[f] # <<>> PROVE Last(printed[f]) \in Line
  <2>1. printed[f] \in Seq(Line)
    BY DEF FeedInv, TypeOK
  <2> QED
    BY <1>2, <2>1, LenProperties, ElementOfSeq, EmptySeq DEF Last
<1>3. printed[f] # <<>> => LastLine(f) \in Cursor
  BY <1>2 DEF LastLine, Line, Cursor
<1>4. Passed(f) # NoPlace /\ printed[f] = <<>> => Passed(f) \in Cursor
  BY <1>1 DEF Passed, NoPlace
<1> QED
  BY <1>1, <1>2, <1>3, <1>4 DEF Reached

\* A follower that is left alone is as far as it was, whatever is published.
LEMMA SameFollower ==
  ASSUME FeedInv, TypeOK', LogGrows, NEW f \in Follower,
         client'[f] = client[f], cursor'[f] = cursor[f], page'[f] = page[f],
         printed'[f] = printed[f], why'[f] = why[f]
  PROVE  FollowOf(f)'
<1>1. JournalTypeOK /\ JournalTypeOK' /\ FollowOf(f)
  BY DEF FeedInv, TypeOK, FollowInv, FollowOf
<1>2. /\ cursor[f] # None => cursor[f] \in Cursor
      /\ printed[f] # <<>> => Last(printed[f]) \in Line
      /\ Reached(f) # NoPlace => Reached(f) \in Cursor
  BY ReachedIsPlace
<1>3. \A g \in 1..gen : Len(log[g]) \in Nat /\ Len(log'[g]) \in Nat
  <2>1. \A g \in 1..gen : g \in Generation
    BY <1>1, LogFacts
  <2>2. \A g \in 1..gen : log[g] \in Seq(Source) /\ log'[g] \in Seq(Source)
    BY <1>1, <2>1 DEF JournalTypeOK
  <2> QED
    BY <2>2, LenProperties
<1>4. gen \in Nat
  BY <1>1, LogFacts
<1>5. \A x : x.gen \in Nat /\ x.seq \in Nat /\ Known(x) => Known(x)'
  BY <1>3, <1>4, KnownStays
<1>6. cursor[f] # None => Known(cursor[f])'
  <2> SUFFICES ASSUME cursor[f] # None PROVE Known(cursor[f])'
    OBVIOUS
  <2>1. cursor[f].gen \in Nat /\ cursor[f].seq \in Nat /\ Known(cursor[f])
    BY <1>1, <1>2, Numbers DEF FollowOf, Cursor
  <2> QED
    BY <1>5, <2>1
<1>7. printed[f] # <<>> => Known(Last(printed[f]))'
  <2> SUFFICES ASSUME printed[f] # <<>> PROVE Known(Last(printed[f]))'
    OBVIOUS
  <2> DEFINE line == Last(printed[f])
  <2>1. line.gen \in Nat /\ line.seq \in Nat /\ Known(line)
    BY <1>1, <1>2, Numbers DEF FollowOf, Line
  <2>2. Last(printed[f])' = line
    OBVIOUS
  <2> HIDE DEF line
  <2>3. \A x : x = line => Known(x)'
    BY <1>5, <2>1
  <2> QED
    BY <2>2, <2>3 DEF Known
<1>8. Reached(f)' = Reached(f)
  BY DEF Reached, Passed, LastLine
<1> DEFINE here == Reached(f)
<1>9. here # NoPlace => here.seq \in Nat
  BY <1>2 DEF Cursor
<1>10. here' = here
  BY <1>8
<1> HIDE DEF here
<1>11. ASSUME client[f] \in {"idle", "polling"}, here # NoPlace
       PROVE  cursor[f] # None /\ Follows(f, here, cursor[f])'
  <2>1. cursor[f] # None /\ Follows(f, here, cursor[f])
    BY <1>1, <1>11 DEF FollowOf, here
  <2>2. cursor[f].seq \in Nat /\ Known(cursor[f])
    BY <1>1, <1>2, <2>1 DEF FollowOf, Cursor
  <2>3. \A a, b : a = here /\ b = cursor[f] /\ Follows(f, a, b)
                    => Follows(f, a, b)'
    BY <1>1, <1>9, <2>2, FollowsStays
  <2>4. \A a, b : a = here /\ b = cursor[f] => Follows(f, a, b)'
    BY <2>1, <2>3
  <2> QED
    BY <1>10, <2>1, <2>4 DEF Follows
<1>12. ASSUME client[f] = "printing" PROVE PageInv(f, page[f], here)'
  <2>1. PageInv(f, page[f], here)
    BY <1>1, <1>12 DEF FollowOf, here
  <2>2. \A p, r : (r # NoPlace => r.seq \in Nat) /\ PageInv(f, p, r)
                  => PageInv(f, p, r)'
    BY <1>1, PageStays
  <2>3. \A p, r : p = page[f] /\ r = here => PageInv(f, p, r)'
    BY <1>9, <2>1, <2>2
  <2> QED
    BY <1>10, <2>3 DEF PageInv
<1>13. client[f] \in {"idle", "polling"} /\ Reached(f) # NoPlace
         => cursor[f] # None /\ Follows(f, Reached(f), cursor[f])'
  BY <1>11 DEF here
<1>14. client[f] = "printing" => PageInv(f, page[f], Reached(f))'
  BY <1>12 DEF here
<1>15. why'[f] # "invalid"
  BY <1>1 DEF FollowOf
<1> QED
  BY <1>6, <1>7, <1>8, <1>13, <1>14, <1>15 DEF FollowOf
\* While the log stays as it is, so does what is said of it.
LEMMA SameLog ==
  ASSUME UNCHANGED <<gen, log>>, NEW f
  PROVE  /\ \A x : Known(x)' <=> Known(x)
         /\ \A a, b : Follows(f, a, b)' <=> Follows(f, a, b)
         /\ \A p, r : PageInv(f, p, r)' <=> PageInv(f, p, r)
BY DEF Known, Follows, PageInv, TellsFrom, WantedIn, IsIn

\* A page that is received goes on where the lines of the follower end.
LEMMA ReceivedPage ==
  ASSUME FeedInv, NEW f \in Follower, Receive(f)
  PROVE  /\ IsValid(cursor[f], request[f].page)
         /\ PageInv(f, request[f].page, Reached(f))
<1> DEFINE c == cursor[f]
           p == request[f].page
           here == Reached(f)
<1>1. /\ client[f] = "polling" /\ request[f].cursor = c
      /\ AnswerInv(f, c, p)
  BY DEF Receive, FeedInv, RequestInv
<1>2. here # NoPlace => c # None /\ Follows(f, here, c)
  BY <1>1 DEF FeedInv, FollowInv
<1>3. /\ c # None => c \in Cursor
      /\ here # NoPlace => here \in Cursor
  BY ReachedIsPlace
<1> HIDE DEF c, p, here
<1>4. PICK a \in 0..p.seq :
        /\ TellsFrom(f, p, a)
        /\ p.gap # None => a = p.gap.oldest - 1 /\ Before(c, GapPlace(p))
        /\ p.gap = None /\ c # None => a = c.seq
  BY <1>1 DEF AnswerInv
<1>5. IsValid(c, p)
  BY <1>1 DEF AnswerInv
<1>6. p \in Page /\ p.seq \in Nat
  BY <1>4 DEF TellsFrom, Page
<1>7. ASSUME p.gap # None PROVE PageInv(f, p, here)
  <2>1. GapIsValid(c, p)
    BY <1>5, <1>7 DEF IsValid
  <2>2. c # None /\ p.gap.oldest >= 1 /\ Before(c, GapPlace(p))
    BY <1>4, <1>7, <2>1 DEF GapIsValid
  <2>3. here # NoPlace => Before(here, GapPlace(p))
    <3> SUFFICES ASSUME here # NoPlace PROVE Before(here, GapPlace(p))
      OBVIOUS
    <3>1. here.gen = c.gen /\ here.seq <= c.seq
      BY <1>2 DEF Follows
    <3>2. here.seq \in Nat /\ c.seq \in Nat /\ here.gen \in Nat
      BY <1>3, <2>2, Numbers DEF Cursor
    <3>3. p.gap.oldest \in Nat
      BY <1>6, <1>7 DEF Page, Gap
    <3> QED
      BY <2>2, <3>1, <3>2, <3>3 DEF Before, GapPlace
  <2> QED
    BY <1>4, <1>7, <2>2, <2>3 DEF PageInv
<1>8. ASSUME p.gap = None PROVE PageInv(f, p, here)
  <2>1. CursorIsValid(c, p)
    BY <1>5, <1>8 DEF IsValid
  <2>2. here # NoPlace => c.gen = p.gen /\ a = c.seq
    BY <1>2, <1>4, <1>8, <2>1 DEF CursorIsValid
  <2>3. Follows(f, here, [gen |-> p.gen, seq |-> a])
    BY <1>2, <2>2 DEF Follows
  <2> QED
    BY <1>4, <1>8, <2>3 DEF PageInv
<1>9. IsValid(c, p) /\ PageInv(f, p, here)
  BY <1>5, <1>7, <1>8
<1> QED
  BY <1>9 DEF c, p, here

\* After the gap of a page its events are to be told from the gap on.
LEMMA AfterGap ==
  ASSUME FeedInv, NEW f \in Follower, EmitGap(f)
  PROVE  LET p == page[f] IN
         /\ Known(GapPlace(p)) /\ GapPlace(p).seq \in Nat
         /\ PageInv(f, [p EXCEPT !.gap = None], GapPlace(p))
<1> DEFINE p == page[f]
           rest == [p EXCEPT !.gap = None]
           place == GapPlace(p)
<1>1. client[f] = "printing" /\ p.gap # None
  BY DEF EmitGap
<1>2. PICK a \in 0..p.seq : TellsFrom(f, p, a) /\ a = p.gap.oldest - 1
  BY <1>1 DEF FeedInv, FollowInv, PageInv
<1>3. /\ rest \in Page /\ rest.gap = None /\ rest.gen = p.gen
      /\ rest.seq = p.seq /\ rest.events = p.events
  BY GapLine
<1>4. p.seq \in Nat /\ a \in Nat /\ a <= p.seq /\ a \in 0..rest.seq
  BY <1>2, <1>3 DEF TellsFrom, Page
<1>5. place.gen = p.gen /\ place.seq = a
  BY <1>2 DEF GapPlace
<1>6. Len(log[p.gen]) \in Nat
  BY <1>2, LogFacts DEF TellsFrom, Known, FeedInv, TypeOK
<1> HIDE DEF p, rest, place
<1>7. Known(place)
  BY <1>2, <1>4, <1>5, <1>6 DEF TellsFrom, Known
<1>8. TellsFrom(f, rest, a)
  BY <1>2, <1>3 DEF TellsFrom, Known
<1>9. Follows(f, place, [gen |-> rest.gen, seq |-> a])
  BY <1>3, <1>4, <1>5 DEF Follows, WantedIn
<1>10. PageInv(f, rest, place)
  BY <1>3, <1>4, <1>8, <1>9 DEF PageInv
<1>11. Known(place) /\ place.seq \in Nat /\ PageInv(f, rest, place)
  BY <1>4, <1>5, <1>7, <1>10
<1> QED
  BY <1>11 DEF p, rest, place

\* After an event of a page the others are to be told from that one on.
LEMMA AfterEvent ==
  ASSUME FeedInv, NEW f \in Follower, EmitEvent(f)
  PROVE  LET p == page[f]
             n == Min(p.events)
             place == [gen |-> p.gen, seq |-> n]
         IN
         /\ Known(place) /\ IsIn(f, p.gen, n)
         /\ PageInv(f, [p EXCEPT !.events = p.events \ {n}], place)
         /\ Reached(f) # NoPlace =>
              /\ Reached(f).gen = p.gen /\ Reached(f).seq < n
              /\ WantedIn(f, p.gen, Reached(f).seq, n - 1) = {}
<1> DEFINE p == page[f]
           n == Min(p.events)
           rest == [p EXCEPT !.events = p.events \ {n}]
           place == [gen |-> p.gen, seq |-> n]
           here == Reached(f)
<1>1. client[f] = "printing" /\ p.gap = None
  BY DEF EmitEvent
<1>2. PICK a \in 0..p.seq :
        TellsFrom(f, p, a) /\ Follows(f, here, [gen |-> p.gen, seq |-> a])
  BY <1>1 DEF FeedInv, FollowInv, PageInv
<1>3. /\ rest \in Page /\ rest.gap = None /\ rest.gen = p.gen
      /\ rest.seq = p.seq /\ rest.events = p.events \ {n}
      /\ n \in p.events /\ n \in Nat /\ \A m \in p.events : n <= m
  BY EventLine
<1>4. here # NoPlace => here.seq \in Nat
  BY ReachedIsPlace DEF Cursor
<1>5. Len(log[p.gen]) \in Nat
  BY <1>2, LogFacts DEF TellsFrom, Known, FeedInv, TypeOK
<1>6. place.gen = p.gen /\ place.seq = n
  OBVIOUS
<1> HIDE DEF p, n, rest, place, here
<1>7. p.seq \in Nat /\ p.events = WantedIn(f, p.gen, a, p.seq) /\ Known(p)
  BY <1>2 DEF TellsFrom, Page
<1>8. n \in (a + 1)..p.seq /\ IsIn(f, p.gen, n) /\ n \in 0..rest.seq
  BY <1>3, <1>7 DEF WantedIn
<1>9. Known(place)
  BY <1>3, <1>5, <1>6, <1>7, <1>8 DEF Known
<1>10. rest.events = WantedIn(f, p.gen, n, p.seq)
  BY <1>3, <1>7, <1>8 DEF WantedIn
<1>11. TellsFrom(f, rest, n)
  BY <1>3, <1>7, <1>10 DEF TellsFrom, Known
<1>12. Follows(f, place, [gen |-> rest.gen, seq |-> n])
  BY <1>3, <1>6 DEF Follows, WantedIn
<1>13. PageInv(f, rest, place)
  BY <1>3, <1>8, <1>11, <1>12 DEF PageInv
<1>14. ASSUME here # NoPlace
       PROVE  /\ here.gen = p.gen /\ here.seq < n
              /\ WantedIn(f, p.gen, here.seq, n - 1) = {}
  <2>1. here.gen = p.gen /\ here.seq <= a /\ WantedIn(f, p.gen, here.seq, a) = {}
    BY <1>2, <1>14 DEF Follows
  <2>2. ASSUME NEW m \in (here.seq + 1)..(n - 1) PROVE ~IsIn(f, p.gen, m)
    <3>1. CASE m <= a
      BY <1>4, <1>14, <2>1, <2>2, <3>1 DEF WantedIn
    <3>2. CASE m > a
      BY <1>3, <1>4, <1>7, <1>8, <1>14, <2>2, <3>2 DEF WantedIn
    <3> QED
      BY <1>4, <1>14, <3>1, <3>2
  <2> QED
    BY <1>4, <1>8, <1>14, <2>1, <2>2 DEF WantedIn
<1>15. /\ Known(place) /\ IsIn(f, p.gen, n) /\ PageInv(f, rest, place)
       /\ here # NoPlace =>
            /\ here.gen = p.gen /\ here.seq < n
            /\ WantedIn(f, p.gen, here.seq, n - 1) = {}
  BY <1>8, <1>9, <1>13, <1>14
<1> QED
  BY <1>15 DEF p, n, rest, place, here

\* A page that is done leaves nothing wanted behind its cursor.
LEMMA AfterPage ==
  ASSUME FeedInv, NEW f \in Follower, PageDone(f)
  PROVE  LET place == [gen |-> page[f].gen, seq |-> page[f].seq] IN
         /\ Known(place) /\ place \in Cursor
         /\ Follows(f, Reached(f), place)
<1> DEFINE p == page[f]
           here == Reached(f)
           place == [gen |-> p.gen, seq |-> p.seq]
<1>1. client[f] = "printing" /\ p.gap = None /\ p.events = {}
  BY DEF PageDone
<1>2. PICK a \in 0..p.seq :
        TellsFrom(f, p, a) /\ Follows(f, here, [gen |-> p.gen, seq |-> a])
  BY <1>1 DEF FeedInv, FollowInv, PageInv
<1>3. p.seq \in Nat /\ p.gen \in Generation
  BY <1>1, Printing
<1>4. here # NoPlace => here.seq \in Nat
  BY ReachedIsPlace DEF Cursor
<1>5. place \in Cursor /\ place.gen = p.gen /\ place.seq = p.seq
  BY <1>3 DEF Cursor
<1> HIDE DEF p, place, here
<1>6. Known(place)
  BY <1>2, <1>5 DEF TellsFrom, Known
<1>7. here # NoPlace
        => /\ here.gen = p.gen /\ here.seq <= a
           /\ WantedIn(f, p.gen, here.seq, a) = {}
  BY <1>2 DEF Follows
<1>8. WantedIn(f, p.gen, a, p.seq) = {}
  BY <1>1, <1>2 DEF TellsFrom, p
<1>9. ASSUME here # NoPlace
      PROVE  here.seq <= p.seq /\ WantedIn(f, p.gen, here.seq, p.seq) = {}
  <2>1. ASSUME NEW m \in (here.seq + 1)..p.seq PROVE ~IsIn(f, p.gen, m)
    <3>1. CASE m <= a
      BY <1>4, <1>7, <1>9, <2>1, <3>1 DEF WantedIn
    <3>2. CASE m > a
      BY <1>3, <1>4, <1>8, <1>9, <2>1, <3>2 DEF WantedIn
    <3> QED
      BY <1>4, <1>9, <3>1, <3>2
  <2> QED
    BY <1>3, <1>4, <1>7, <1>9, <2>1 DEF WantedIn
<1>10. Follows(f, here, place)
  BY <1>5, <1>7, <1>9 DEF Follows
<1>11. Known(place) /\ place \in Cursor /\ Follows(f, here, place)
  BY <1>5, <1>6, <1>10
<1> QED
  BY <1>11 DEF p, place, here
\* Every step of a follower keeps what is known of it.
LEMMA OwnStepFollows ==
  ASSUME FeedInv, NEW f \in Follower, Following(f) \/ Leaving(f)
  PROVE  FollowOf(f)'
<1>1. ClientTypeOK /\ FollowOf(f)
  BY DEF FeedInv, TypeOK, ClientTypeOK, FollowInv, FollowOf
<1>2. UNCHANGED <<gen, log>>
  BY DEF Following, Leaving, Poll, Receive, EmitGap, EmitEvent, Emit, PageDone,
     Refused, Lost, Leave, Stop, Rerun
<1>3. /\ \A x : Known(x)' <=> Known(x)
      /\ \A a, b : Follows(f, a, b)' <=> Follows(f, a, b)
      /\ \A p, r : PageInv(f, p, r)' <=> PageInv(f, p, r)
  BY <1>2, SameLog
<1>4. ASSUME cursor'[f] = cursor[f], printed'[f] = printed[f]
      PROVE  /\ cursor'[f] # None => Known(cursor[f])'
             /\ printed'[f] # <<>> => Known(Last(printed[f]))'
             /\ Reached(f)' = Reached(f)
  <2>1. Reached(f)' = Reached(f)
    BY <1>4 DEF Reached, Passed, LastLine
  <2>2. cursor[f] # None => Known(cursor[f])'
    BY <1>1, <1>2, <1>4 DEF FollowOf, Known
  <2>3. printed[f] # <<>> => Known(Last(printed[f]))'
    BY <1>1, <1>2, <1>4 DEF FollowOf, Known
  <2> QED
    BY <1>4, <2>1, <2>2, <2>3
<1>5. CASE Poll(f)
  <2>1. cursor' = cursor /\ printed' = printed /\ why' = why
        /\ client[f] = "idle" /\ client'[f] = "polling"
    BY <1>1, <1>5 DEF Poll, ClientTypeOK
  <2>2. Reached(f) # NoPlace
          => cursor[f] # None /\ Follows(f, Reached(f), cursor[f])
    BY <1>1, <2>1 DEF FollowOf
  <2>3. Reached(f)' # NoPlace
          => cursor[f]' # None /\ Follows(f, Reached(f), cursor[f])'
    BY <1>3, <1>4, <2>1, <2>2 DEF Follows
  <2> QED
    BY <1>1, <1>4, <2>1, <2>3 DEF FollowOf
<1>6. CASE Receive(f)
  <2>1. /\ IsValid(cursor[f], request[f].page)
        /\ PageInv(f, request[f].page, Reached(f))
    BY <1>6, ReceivedPage
  <2>2. /\ client'[f] = "printing" /\ page'[f] = request[f].page
        /\ UNCHANGED <<cursor, printed, why>>
    BY <1>1, <1>6, <2>1 DEF Receive, ClientTypeOK
  <2>3. PageInv(f, page[f], Reached(f))'
    BY <1>3, <1>4, <2>1, <2>2 DEF PageInv
  <2> QED
    BY <1>1, <1>4, <2>2, <2>3 DEF FollowOf
<1>7. CASE Refused(f) \/ Lost(f) \/ Stop(f)
  <2>1. PICK reason \in Ends \ {"invalid"} : End(f, reason)
    BY <1>7 DEF Refused, Lost, Leave, Stop, Ends
  <2>2. /\ client'[f] = "ended" /\ why'[f] = reason
        /\ cursor' = cursor /\ printed' = printed
    BY <1>1, <2>1, EndTyped
  <2> QED
    BY <1>4, <2>1, <2>2 DEF FollowOf
<1>8. CASE EmitGap(f)
  <2> DEFINE p == page[f]
             rest == [p EXCEPT !.gap = None]
             line == [kind |-> "gap", gen |-> p.gen, seq |-> p.gap.oldest - 1]
             place == GapPlace(p)
  <2>1. /\ client[f] = "printing" /\ UNCHANGED <<client, cursor, why>>
        /\ printed'[f] # <<>> /\ Last(printed'[f]) = line /\ page'[f] = rest
    BY <1>8, GapLine DEF EmitGap, Emit
  <2>2. Known(place) /\ PageInv(f, rest, place)
    BY <1>8, AfterGap
  <2>3. Reached(f)' = place /\ line.gen = place.gen /\ line.seq = place.seq
    BY <2>1 DEF Reached, LastLine, GapPlace
  <2> HIDE DEF rest, line, place
  <2>4. Known(line)
    BY <2>2, <2>3 DEF Known
  <2>5. Known(Last(printed[f]))'
    <3>1. Known(Last(printed'[f]))
      BY <2>1, <2>4
    <3> QED
      BY <1>2, <3>1 DEF Known
  <2>6. PageInv(f, page[f], Reached(f))'
    <3>1. \A a, b : PageInv(f, a, b) => PageInv(f, a, b)'
      BY <1>3
    <3>2. \A a, b : a = page'[f] /\ b = Reached(f)' => PageInv(f, a, b)
      BY <2>1, <2>2, <2>3
    <3> QED
      BY <3>1, <3>2 DEF PageInv
  <2>7. cursor'[f] # None => Known(cursor[f])'
    BY <1>1, <1>2, <2>1 DEF FollowOf, Known
  <2> QED
    BY <1>1, <2>1, <2>5, <2>6, <2>7 DEF FollowOf
<1>9. CASE EmitEvent(f)
  <2> DEFINE p == page[f]
             n == Min(p.events)
             rest == [p EXCEPT !.events = p.events \ {n}]
             line == [kind |-> "event", gen |-> p.gen, seq |-> n]
             place == [gen |-> p.gen, seq |-> n]
  <2>1. /\ client[f] = "printing" /\ UNCHANGED <<client, cursor, why>>
        /\ printed'[f] # <<>> /\ Last(printed'[f]) = line /\ page'[f] = rest
    BY <1>9, EventLine DEF EmitEvent, Emit
  <2>2. Known(place) /\ PageInv(f, rest, place)
    BY <1>9, AfterEvent
  <2>3. Reached(f)' = place /\ line.gen = place.gen /\ line.seq = place.seq
    BY <2>1 DEF Reached, LastLine
  <2> HIDE DEF n, rest, line, place
  <2>4. Known(line)
    BY <2>2, <2>3 DEF Known
  <2>5. Known(Last(printed[f]))'
    <3>1. Known(Last(printed'[f]))
      BY <2>1, <2>4
    <3> QED
      BY <1>2, <3>1 DEF Known
  <2>6. PageInv(f, page[f], Reached(f))'
    <3>1. \A a, b : PageInv(f, a, b) => PageInv(f, a, b)'
      BY <1>3
    <3>2. \A a, b : a = page'[f] /\ b = Reached(f)' => PageInv(f, a, b)
      BY <2>1, <2>2, <2>3
    <3> QED
      BY <3>1, <3>2 DEF PageInv
  <2>7. cursor'[f] # None => Known(cursor[f])'
    BY <1>1, <1>2, <2>1 DEF FollowOf, Known
  <2> QED
    BY <1>1, <2>1, <2>5, <2>6, <2>7 DEF FollowOf
<1>10. CASE PageDone(f)
  <2> DEFINE place == [gen |-> page[f].gen, seq |-> page[f].seq]
  <2>1. Known(place) /\ place \in Cursor /\ Follows(f, Reached(f), place)
    BY <1>10, AfterPage
  <2>2. /\ client'[f] = "idle" /\ cursor'[f] = place
        /\ UNCHANGED <<printed, why>>
    BY <1>1, <1>10 DEF PageDone, ClientTypeOK
  <2> HIDE DEF place
  <2>3. cursor'[f] # None /\ Known(cursor[f])'
    <3>1. place # None
      BY <2>1, NoneAssumption
    <3> QED
      BY <1>2, <2>1, <2>2, <3>1 DEF Known
  <2>4. printed'[f] # <<>> => Known(Last(printed[f]))'
    BY <1>1, <1>2, <2>2 DEF FollowOf, Known
  <2>5. Follows(f, Reached(f), cursor[f])'
    <3>1. CASE printed[f] = <<>>
      <4>1. Reached(f)' = place
        BY <2>2, <2>3, <3>1 DEF Reached, Passed
      <4>2. place.seq \in Nat
        BY <2>1 DEF Cursor
      <4> QED
        BY <2>2, <4>1, <4>2 DEF Follows, WantedIn
    <3>2. CASE printed[f] # <<>>
      <4>1. Reached(f)' = Reached(f)
        BY <2>2, <3>2 DEF Reached, LastLine
      <4> QED
        BY <1>2, <2>1, <2>2, <4>1 DEF Follows, WantedIn, IsIn
    <3> QED
      BY <3>1, <3>2
  <2> QED
    BY <1>1, <2>2, <2>3, <2>4, <2>5 DEF FollowOf
<1>11. CASE Rerun(f)
  <2>1. /\ client'[f] = "idle" /\ why'[f] = "none" /\ printed' = printed
        /\ cursor'[f] = IF printed[f] = <<>> THEN None ELSE LastLine(f)
    BY <1>1, <1>11 DEF Rerun, ClientTypeOK, LastLine
  <2>2. CASE printed[f] = <<>>
    BY <2>1, <2>2 DEF FollowOf, Reached, Passed, NoPlace
  <2>3. CASE printed[f] # <<>>
    <3> DEFINE here == LastLine(f)
    <3>1. here \in Cursor /\ Known(here)
      BY <1>1, <2>3, ReachedIsPlace
      DEF FollowOf, LastLine, Known, Cursor, Line
    <3>2. Reached(f)' = here /\ cursor'[f] = here
      BY <2>1, <2>3 DEF Reached, LastLine
    <3> HIDE DEF here
    <3>3. here # None /\ here.seq \in Nat
      BY <3>1, NoneAssumption DEF Cursor
    <3>4. Follows(f, Reached(f), cursor[f])'
      BY <3>2, <3>3 DEF Follows, WantedIn
    <3>5. Known(cursor[f])'
      BY <1>2, <3>1, <3>2 DEF Known
    <3>6. Known(Last(printed[f]))'
      BY <1>1, <1>2, <2>1, <2>3 DEF FollowOf, Known
    <3> QED
      BY <2>1, <3>2, <3>3, <3>4, <3>5, <3>6 DEF FollowOf
  <2> QED
    BY <2>2, <2>3
<1> QED
  BY <1>5, <1>6, <1>7, <1>8, <1>9, <1>10, <1>11 DEF Following, Leaving

\* Every step keeps what is known of the followers.
LEMMA FollowKept == FeedInv /\ [Next]_vars => FollowInv'
<1> SUFFICES ASSUME FeedInv, [Next]_vars, NEW f \in Follower PROVE FollowOf(f)'
  BY DEF FollowInv, FollowOf
<1>1. TypeOK' /\ LogGrows /\ ClientTypeOK
  BY TypeKept, LogOnlyGrows DEF FeedInv, TypeOK, ClientTypeOK
<1>2. CASE UNCHANGED clientVars
  BY <1>1, <1>2, SameFollower
<1>3. CASE Following(f) \/ Leaving(f)
  BY <1>3, OwnStepFollows
<1>4. ASSUME NEW g \in Follower \ {f}, Following(g) \/ Leaving(g)
      PROVE  FollowOf(f)'
  <2>1. /\ client'[f] = client[f] /\ cursor'[f] = cursor[f]
        /\ page'[f] = page[f] /\ printed'[f] = printed[f] /\ why'[f] = why[f]
    BY <1>1, <1>4 DEF ClientTypeOK, Following, Leaving, Poll, Receive, EmitGap,
       EmitEvent, Emit, PageDone, Refused, Lost, Leave, Stop, Rerun, End
  <2> QED
    BY <1>1, <2>1, SameFollower
<1> QED
  BY <1>2, <1>3, <1>4 DEF Next, Tick, vars

-----------------------------------------------------------------------------
\* FeedInv holds in every reachable state.
THEOREM FeedCorrect == Spec => []FeedInv
<1>1. Init => FeedInv
  BY FeedFirst
<1>2. FeedInv /\ [Next]_vars => FeedInv'
  BY TypeKept, JournalKept, RequestKept, FollowKept DEF FeedInv
<1> QED
  BY <1>1, <1>2, PTL DEF Spec

\* The journal and the followers keep their types.
THEOREM FeedTyped == Spec => []TypeOK
<1>1. FeedInv => TypeOK
  BY DEF FeedInv
<1> QED
  BY <1>1, FeedCorrect, PTL

\* Every page of the journal, whatever was evicted or restarted while it was
\* on its way, passes the checks of the client, and no cursor that a client
\* sends is ahead of the generation that reads it.
THEOREM PagesPass == Spec => []PagesAccepted
<1>1. FeedInv => PagesAccepted
  <2> SUFFICES ASSUME FeedInv, NEW f \in Follower
               PROVE /\ why[f] # "invalid"
                     /\ request[f].step = "sent" /\ request[f].cursor # None
                          /\ request[f].cursor.gen = gen
                          => request[f].cursor.seq <= sequence
    BY DEF PagesAccepted
  <2>1. why[f] # "invalid"
    BY DEF FeedInv, FollowInv
  <2>2. request[f].step = "sent" /\ request[f].cursor # None
          => Known(request[f].cursor)
    BY DEF FeedInv, FollowInv, RequestInv
  <2> QED
    BY <2>1, <2>2 DEF Known, sequence
<1> QED
  BY <1>1, FeedCorrect, PTL
-----------------------------------------------------------------------------
\* The waits held, and the ones of clients that are gone, fit the limit.
BoundInv == Cardinality(waiters) + ghosts <= WaiterLimit

\* Only a read with a slot begins to wait, and a client that leaves a wait
\* behind gives up its own.
LEMMA BoundKept == FeedInv /\ BoundInv /\ [Next]_vars => BoundInv'
<1> SUFFICES ASSUME FeedInv, BoundInv, [Next]_vars PROVE BoundInv'
  OBVIOUS
<1>1. /\ IsFiniteSet(waiters) /\ Cardinality(waiters) \in Nat /\ ghosts \in Nat
      /\ WaiterLimit \in Nat
  <2>1. waiters \subseteq Follower /\ ghosts \in Nat
    BY DEF FeedInv, TypeOK, JournalTypeOK
  <2> QED
    BY <2>1, JournalAssumption, FS_Subset, FS_CardinalityType
<1>2. CASE waiters' = waiters /\ ghosts' = ghosts
  BY <1>2 DEF BoundInv
<1>3. CASE waiters' = {} /\ ghosts' = 0
  BY <1>1, <1>3, FS_EmptySet DEF BoundInv
<1>4. ASSUME NEW f \in Follower, waiters' = waiters \ {f}
      PROVE  /\ f \in waiters => Cardinality(waiters') = Cardinality(waiters) - 1
             /\ f \notin waiters => Cardinality(waiters') = Cardinality(waiters)
  <2>1. /\ f \in waiters
             => Cardinality(waiters \ {f}) = Cardinality(waiters) - 1
        /\ f \notin waiters
             => Cardinality(waiters \ {f}) = Cardinality(waiters)
    BY <1>1, FS_RemoveElement
  <2> QED
    BY <1>4, <2>1
<1>5. ASSUME NEW f \in Follower, Read(f) PROVE BoundInv'
  <2>1. ghosts' = ghosts
    BY <1>5 DEF Read
  <2>2. CASE waiters' = waiters \cup {f} /\ HasWaiterSlot
    <3>1. \/ Cardinality(waiters \cup {f}) = Cardinality(waiters)
          \/ Cardinality(waiters \cup {f}) = Cardinality(waiters) + 1
      BY <1>1, FS_AddElement
    <3>2. \/ Cardinality(waiters') = Cardinality(waiters)
          \/ Cardinality(waiters') = Cardinality(waiters) + 1
      BY <2>2, <3>1
    <3> QED
      BY <1>1, <2>1, <2>2, <3>2 DEF BoundInv, HasWaiterSlot
  <2> QED
    BY <1>2, <1>5, <2>1, <2>2, ReadGoesOn
<1>6. ASSUME NEW f \in Follower, WaitEnds(f) PROVE BoundInv'
  <2>1. waiters' = waiters \ {f} /\ ghosts' = ghosts
    BY <1>6 DEF WaitEnds
  <2>2. \/ Cardinality(waiters') = Cardinality(waiters)
        \/ Cardinality(waiters') = Cardinality(waiters) - 1
    BY <1>4, <2>1
  <2> QED
    BY <1>1, <2>1, <2>2 DEF BoundInv
<1>7. ASSUME NEW f \in Follower, Lost(f) PROVE BoundInv'
  <2>1. /\ waiters' = waiters \ {f}
        /\ ghosts' = ghosts \/ (f \in waiters /\ ghosts' = ghosts + 1)
    BY <1>7 DEF Lost, Leave
  <2>2. CASE f \in waiters
    <3>1. Cardinality(waiters') = Cardinality(waiters) - 1
      BY <1>4, <2>1, <2>2
    <3> QED
      BY <1>1, <2>1, <3>1 DEF BoundInv
  <2>3. CASE f \notin waiters
    <3>1. Cardinality(waiters') = Cardinality(waiters) /\ ghosts' = ghosts
      BY <1>4, <2>1, <2>3
    <3> QED
      BY <1>1, <3>1 DEF BoundInv
  <2> QED
    BY <2>2, <2>3
<1>8. CASE GhostEnds
  BY <1>1, <1>8 DEF GhostEnds, BoundInv
<1>9. ASSUME NEW s \in Source, Publish(s) PROVE BoundInv'
  BY <1>3, <1>9 DEF Publish, Woken
<1>10. CASE CloseJournal \/ Down
  BY <1>3, <1>10 DEF CloseJournal, Down
<1>11. ASSUME NEW f \in Follower, ReadGap(f) \/ Resume(f) PROVE BoundInv'
  BY <1>2, <1>11 DEF ReadGap, Resume
<1>12. CASE Start \/ Tick \/ UNCHANGED vars
  BY <1>2, <1>12 DEF Start, Tick, vars
<1>13. ASSUME NEW f \in Follower,
              Following(f) \/ Refused(f) \/ Stop(f) \/ Rerun(f)
       PROVE  BoundInv'
  BY <1>2, <1>13 DEF Following, Poll, Receive, EmitGap, EmitEvent, Emit,
     PageDone, Refused, Stop, Rerun
<1> QED
  BY <1>5, <1>6, <1>7, <1>8, <1>9, <1>10, <1>11, <1>12, <1>13, JournalAssumption
  DEF Next, JournalNext, Reading, Happen, CloseBegin, Leaving

\* Every waiting read holds a waiter, no other does, and with the waits of
\* clients that are gone the daemon never holds more than its limit.
THEOREM WaitersFit == Spec => []WaitersBounded
<1>1. Init => BoundInv
  BY JournalAssumption, FS_EmptySet DEF Init, JournalInit, BoundInv
<1>2. FeedInv /\ BoundInv => WaitersBounded
  BY DEF FeedInv, JournalInv, BoundInv, WaitersBounded
<1> QED
  BY <1>1, <1>2, BoundKept, FeedCorrect, PTL DEF Spec

-----------------------------------------------------------------------------
\* A read has never waited longer than its long poll, nor run into a deadline.
PatientInv ==
  \A f \in Follower : request[f].waited <= LongPoll /\ why[f] # "deadline"

\* No step takes a read past its long poll; the deadline is later than that.
LEMMA PatientKept ==
  ASSUME LongPoll < Timeout
  PROVE  FeedInv /\ PatientInv /\ [Next]_vars => PatientInv'
<1> SUFFICES ASSUME FeedInv, PatientInv, [Next]_vars PROVE PatientInv'
  OBVIOUS
<1>1. /\ request \in [Follower -> Request] /\ ClientTypeOK
      /\ LongPoll \in Nat /\ Timeout \in Nat
      /\ \A f \in Follower : request[f] \in Request /\ request[f].waited \in Nat
  <2>1. request \in [Follower -> Request]
    BY DEF FeedInv, TypeOK, JournalTypeOK
  <2>2. \A f \in Follower : request[f] \in Request
    BY <2>1
  <2> QED
    BY <2>1, <2>2, JournalAssumption
    DEF FeedInv, TypeOK, ClientTypeOK, Request
<1>2. CASE /\ why' = why
           /\ \A f \in Follower : \/ request'[f].waited = request[f].waited
                                  \/ request'[f] = NoRequest
  BY <1>1, <1>2 DEF PatientInv, NoRequest
<1>3. ASSUME NEW f \in Follower, NEW r \in Request, r.waited = request[f].waited,
             request' = [request EXCEPT ![f] = r], why' = why
      PROVE  PatientInv'
  BY <1>1, <1>2, <1>3
<1>4. ASSUME NEW f \in Follower, NEW step, NEW p,
             request' = Reply(f, step, p), why' = why
      PROVE  PatientInv'
  <2>1. request' = [request EXCEPT ![f] =
                      [request[f] EXCEPT !.step = step, !.page = p]]
    BY <1>4 DEF Reply
  <2>2. request'[f].waited = request[f].waited
    BY <1>1, <2>1 DEF Request
  <2>3. \A g \in Follower \ {f} : request'[g] = request[g]
    BY <2>1
  <2> QED
    BY <1>2, <1>4, <2>2, <2>3
<1>5. ASSUME NEW f \in Follower, Reading(f), why' = why PROVE PatientInv'
  <2>1. CASE \E step, p : request' = Reply(f, step, p)
    BY <1>4, <1>5, <2>1
  <2>2. CASE \E a : request' = [request EXCEPT ![f].step = "waiting",
                                               ![f].after = a]
    <3>1. PICK a : request' = [request EXCEPT ![f].step = "waiting",
                                              ![f].after = a]
      BY <2>2
    <3>2. request' = [request EXCEPT ![f] =
                        [request[f] EXCEPT !.step = "waiting", !.after = a]]
      BY <3>1
    <3>3. request'[f].waited = request[f].waited
      BY <1>1, <3>2 DEF Request
    <3>4. \A g \in Follower \ {f} : request'[g] = request[g]
      BY <3>2
    <3> QED
      BY <1>2, <1>5, <3>3, <3>4
  <2> QED
    BY <1>5, <2>1, <2>2 DEF Reading, ReadGap, Read, Resume
<1>6. ASSUME NEW f \in Follower, WaitEnds(f), why' = why PROVE PatientInv'
  <2>1. request'[f].waited = request[f].waited
        /\ \A g \in Follower \ {f} : request'[g] = request[g]
    BY <1>1, <1>6, WaitEndsRequests
  <2> QED
    BY <1>2, <1>6, <2>1
<1>7. ASSUME NEW s \in Source, Publish(s), why' = why PROVE PatientInv'
  <2>1. \A f \in Follower : request'[f].waited = request[f].waited
    BY <1>1, <1>7, WokenRequests DEF Publish
  <2> QED
    BY <1>2, <1>7, <2>1
<1>8. ASSUME CloseJournal, why' = why PROVE PatientInv'
  <2>1. \A f \in Follower : request'[f].waited = request[f].waited
    BY <1>1, <1>8, ClosedRequests
  <2> QED
    BY <1>2, <1>8, <2>1
<1>9. ASSUME Down, why' = why PROVE PatientInv'
  <2>1. \A f \in Follower : \/ request'[f] = request[f]
                            \/ request'[f] = NoRequest
    BY <1>9 DEF Down
  <2> QED
    BY <1>2, <1>9, <2>1
<1>10. ASSUME JournalNext /\ UNCHANGED clientVars PROVE PatientInv'
  <2>1. why' = why
    BY <1>10
  <2>2. CASE GhostEnds \/ Start
    BY <1>2, <2>1, <2>2 DEF GhostEnds, Start
  <2> QED
    BY <1>5, <1>6, <1>7, <1>8, <1>9, <1>10, <2>1, <2>2, JournalAssumption
    DEF JournalNext, Happen, CloseBegin
<1>11. ASSUME NEW f \in Follower, NEW reason \in Ends \ {"deadline"},
              End(f, reason),
              request' = [request EXCEPT ![f] = NoRequest] \/ request' = request
       PROVE  PatientInv'
  <2>1. why'[f] = reason /\ \A g \in Follower \ {f} : why'[g] = why[g]
    BY <1>1, <1>11, EndTyped
  <2>2. \A g \in Follower : request'[g] = request[g] \/ request'[g] = NoRequest
    BY <1>1, <1>11
  <2> QED
    BY <1>1, <1>11, <2>1, <2>2 DEF PatientInv, NoRequest
<1>12. ASSUME NEW f \in Follower, Following(f) \/ Leaving(f) PROVE PatientInv'
  <2>1. CASE Poll(f)
    <3>1. cursor[f] \in Cursor \cup {None}
      BY <1>1 DEF ClientTypeOK
    <3>2. why' = why /\ request' =
            [request EXCEPT ![f] = [NoRequest EXCEPT !.step = "sent",
                                                     !.cursor = cursor[f]]]
      BY <2>1 DEF Poll
    <3>3. request'[f].waited = 0 /\ \A g \in Follower \ {f} : request'[g] = request[g]
      BY <1>1, <3>1, <3>2, NewRequests
    <3> QED
      BY <1>1, <3>2, <3>3 DEF PatientInv
  <2>2. CASE Receive(f)
    <3>1. CASE End(f, "invalid")
      BY <1>11, <2>2, <3>1 DEF Receive, Ends
    <3>2. CASE why' = why
      BY <1>1, <1>2, <2>2, <3>2 DEF Receive
    <3> QED
      BY <2>2, <3>1, <3>2 DEF Receive
  <2>3. CASE Refused(f) \/ Stop(f)
    BY <1>11, <2>3 DEF Refused, Stop, Ends
  <2>4. CASE Lost(f)
    <3>1. request[f].waited < Timeout
      BY <1>1 DEF PatientInv
    <3>2. Leave(f, "lost")
      BY <1>1, <2>4, <3>1 DEF Lost
    <3> QED
      BY <1>11, <3>2 DEF Leave, Ends
  <2>5. CASE EmitGap(f) \/ EmitEvent(f) \/ PageDone(f)
    BY <1>2, <2>5 DEF EmitGap, EmitEvent, Emit, PageDone
  <2>6. CASE Rerun(f)
    BY <1>1, <2>6 DEF Rerun, PatientInv, ClientTypeOK
  <2> QED
    BY <1>12, <2>1, <2>2, <2>3, <2>4, <2>5, <2>6 DEF Following, Leaving
<1>13. CASE Tick
  <2>1. Min({WaitTime, Timeout}) <= LongPoll /\ Min({WaitTime, Timeout}) \in Nat
    <3>1. WaitTime \in {Timeout, LongPoll} /\ WaitTime <= LongPoll
      <4>1. {Timeout, LongPoll} \in SUBSET Nat /\ {Timeout, LongPoll} # {}
        BY <1>1
      <4> QED
        BY <4>1, LeastIsOne DEF WaitTime
    <3>2. {WaitTime, Timeout} \in SUBSET Nat /\ {WaitTime, Timeout} # {}
      BY <1>1, <3>1
    <3>3. /\ Min({WaitTime, Timeout}) \in {WaitTime, Timeout}
          /\ Min({WaitTime, Timeout}) <= WaitTime
      BY <3>2, LeastIsOne
    <3> QED
      BY <1>1, <3>1, <3>3
  <2>2. why' = why /\ \A f \in Follower :
          \/ request'[f].waited = request[f].waited
          \/ /\ request'[f].waited = request[f].waited + 1
             /\ request[f].waited < Min({WaitTime, Timeout})
    BY <1>1, <1>13, TickRequests DEF Tick
  <2>3. \A f \in Follower : request'[f].waited <= LongPoll
    <3> SUFFICES ASSUME NEW f \in Follower
                 PROVE  request'[f].waited <= LongPoll
      OBVIOUS
    <3> DEFINE m == Min({WaitTime, Timeout})
    <3>1. m <= LongPoll /\ m \in Nat
      BY <2>1
    <3>2. \/ request'[f].waited = request[f].waited
          \/ request'[f].waited = request[f].waited + 1 /\ request[f].waited < m
      BY <2>2
    <3> HIDE DEF m
    <3> QED
      BY <1>1, <3>1, <3>2 DEF PatientInv
  <2> QED
    BY <2>2, <2>3 DEF PatientInv
<1>14. CASE UNCHANGED vars
  BY <1>2, <1>14 DEF vars
<1> QED
  BY <1>10, <1>12, <1>13, <1>14 DEF Next

\* When the deadline of a request is later than the long poll it asks for, a
\* feed with nothing to tell never fails for it.
THEOREM QuietIsNoFailure ==
  ASSUME LongPoll < Timeout
  PROVE  Spec => []QuietFollowerSurvives
<1>1. Init => PatientInv
  BY JournalAssumption DEF Init, JournalInit, NoRequest, PatientInv
<1>2. PatientInv => QuietFollowerSurvives
  BY DEF PatientInv, QuietFollowerSurvives
<1>3. FeedInv /\ PatientInv /\ [Next]_vars => PatientInv'
  BY PatientKept
<1> QED
  BY <1>1, <1>2, <1>3, FeedCorrect, PTL DEF Spec
-----------------------------------------------------------------------------
\* What the feed sees of a follower that has not printed anything.
From == [f \in Follower |-> Passed(f)]

\* The first state is one of the feed.
LEMMA FeedBegins == Init => Feed!Init
<1> SUFFICES ASSUME Init PROVE Feed!Init
  OBVIOUS
<1>1. \A f \in Follower : Passed(f) = [gen |-> 0, seq |-> 0]
  BY DEF Init, Passed
<1> QED
  BY <1>1 DEF Init, JournalInit, Feed!Init, Feed!NoPlace

\* The journal adds to the log of its generation, or begins the next one.
LEMMA JournalTells ==
  ASSUME FeedInv, JournalNext, UNCHANGED clientVars
  PROVE  Feed!Next \/ UNCHANGED Feed!feedVars
<1>1. UNCHANGED <<printed, From>>
  BY DEF From, Passed
<1>2. ASSUME NEW s \in Source, Publish(s) PROVE Feed!Next
  <2>1. gen \in Generation
    BY <1>2 DEF Publish, FeedInv, JournalInv
  <2>2. Feed!Happen(s)
    BY <1>1, <1>2, <2>1 DEF Publish, Feed!Happen, From
  <2> QED
    BY <2>2 DEF Feed!Next
<1>3. CASE Start
  <2>1. gen + 1 \in Generation
    BY <1>3, Numbers DEF Start, FeedInv, TypeOK, JournalTypeOK, Generation
  <2>2. Feed!Restart("daemon")
    BY <1>1, <1>3, <2>1 DEF Start, Feed!Restart, From
  <2> QED
    BY <2>2, JournalAssumption DEF Feed!Next
<1>4. CASE UNCHANGED <<gen, log>>
  BY <1>1, <1>4 DEF Feed!feedVars, From
<1> QED
  BY <1>2, <1>3, <1>4, JournalAssumption
  DEF JournalNext, Reading, ReadGap, Read, Resume, WaitEnds, Happen, GhostEnds,
      CloseBegin, CloseJournal, Down

\* A line that is printed goes on where the lines before it end.
LEMMA LineTells ==
  ASSUME FeedInv, NEW f \in Follower, EmitGap(f) \/ EmitEvent(f)
  PROVE  Feed!Next
<1>1. /\ UNCHANGED <<gen, log, cursor>> /\ client[f] = "printing"
      /\ printed \in [Follower -> Seq(Line)]
  BY DEF EmitGap, EmitEvent, Emit, FeedInv, TypeOK
<1>2. /\ page[f].gen \in Generation /\ page[f].seq \in Nat /\ Known(page[f])
  BY <1>1, Printing DEF FeedInv, FollowInv, PageInv, TellsFrom
<1>3. Len(log[page[f].gen]) \in Nat
      /\ DOMAIN log[page[f].gen] = 1..Len(log[page[f].gen])
  <2>1. log[page[f].gen] \in Seq(Source)
    BY <1>2 DEF FeedInv, TypeOK, JournalTypeOK
  <2> QED
    BY <2>1, LenProperties
<1>4. Feed!Reached(f) = Reached(f)
  BY DEF Feed!Reached, Reached, LastLine, Feed!Last, Last
<1>5. ASSUME printed'[f] # <<>>,
             \A g \in Follower \ {f} : printed'[g] = printed[g]
      PROVE  From' = [From EXCEPT ![f] = Feed!NoPlace]
  BY <1>1, <1>5 DEF From, Passed, Feed!NoPlace
<1>6. CASE EmitGap(f)
  <2> DEFINE place == GapPlace(page[f])
             line == [kind |-> "gap", gen |-> place.gen, seq |-> place.seq]
  <2>1. /\ printed' = [printed EXCEPT ![f] = Append(printed[f], line)]
        /\ printed'[f] # <<>>
        /\ \A g \in Follower \ {f} : printed'[g] = printed[g]
    BY <1>6, GapLine DEF GapPlace
  <2>2. Known(place) /\ place.seq \in Nat /\ place.gen = page[f].gen
    BY <1>6, AfterGap DEF GapPlace
  <2>3. Reached(f) # NoPlace => Before(Reached(f), place)
    BY <1>1, <1>6 DEF EmitGap, FeedInv, FollowInv, PageInv
  <2> HIDE DEF place
  <2>4. line.kind = "gap" /\ line.gen = place.gen /\ line.seq = place.seq
    OBVIOUS
  <2>5. place.seq \in 0..Len(log[place.gen]) /\ place.gen \in Generation
    BY <1>2, <1>3, <2>2 DEF Known
  <2>6. Feed!Reached(f) # Feed!NoPlace => Feed!Before(Feed!Reached(f), line)
    BY <1>4, <2>3, <2>4 DEF NoPlace, Feed!NoPlace, Before, Feed!Before
  <2>7. Feed!Tell(f, line)
    BY <1>1, <1>5, <2>1, <2>4, <2>6 DEF Feed!Tell, From
  <2> QED
    BY <2>5, <2>7 DEF Feed!Next
<1>7. CASE EmitEvent(f)
  <2> DEFINE n == Min(page[f].events)
             g == page[f].gen
             line == [kind |-> "event", gen |-> g, seq |-> n]
  <2>1. /\ printed' = [printed EXCEPT ![f] = Append(printed[f], line)]
        /\ printed'[f] # <<>> /\ n \in page[f].events /\ n \in Nat
        /\ \A h \in Follower \ {f} : printed'[h] = printed[h]
    BY <1>7, EventLine
  <2>2. /\ Known([gen |-> g, seq |-> n]) /\ IsIn(f, g, n)
        /\ Reached(f) # NoPlace =>
             /\ Reached(f).gen = g /\ Reached(f).seq < n
             /\ WantedIn(f, g, Reached(f).seq, n - 1) = {}
    BY <1>7, AfterEvent
  <2>3. n >= 1
    <3>1. PICK a \in 0..page[f].seq : TellsFrom(f, page[f], a)
      BY <1>1 DEF FeedInv, FollowInv, PageInv
    <3>2. n \in (a + 1)..page[f].seq
      BY <2>1, <3>1 DEF TellsFrom, WantedIn
    <3> HIDE DEF n
    <3> QED
      BY <1>2, <2>1, <3>1, <3>2
  <2> HIDE DEF n, g
  <2>4. line.kind = "event" /\ line.gen = g /\ line.seq = n
    OBVIOUS
  <2>5. /\ n \in 0..Len(log[g]) /\ n \in 1..Len(log[g]) /\ g \in Generation
        /\ n \in DOMAIN log[g]
    BY <1>2, <1>3, <2>1, <2>2, <2>3 DEF Known, g
  <2>6. Feed!IsWanted(f, g, n)
    BY <2>2 DEF IsIn, Feed!IsWanted
  <2>7. Feed!Reached(f) # Feed!NoPlace => Feed!Adjacent(f, Feed!Reached(f), line)
    <3> SUFFICES ASSUME Reached(f) # NoPlace
                 PROVE  Feed!Adjacent(f, Reached(f), line)
      BY <1>4 DEF NoPlace, Feed!NoPlace
    <3>1. \A m \in (Reached(f).seq + 1)..(n - 1) : ~Feed!IsWanted(f, g, m)
      BY <2>2 DEF WantedIn, IsIn, Feed!IsWanted
    <3> QED
      BY <2>2, <2>4, <3>1 DEF Feed!Adjacent
  <2> HIDE DEF line
  <2>8. Feed!Tell(f, line)
    BY <1>1, <1>5, <2>1, <2>4, <2>5, <2>6, <2>7 DEF Feed!Tell, From
  <2> QED
    BY <2>5, <2>8 DEF Feed!Next, line
<1> QED
  BY <1>6, <1>7

\* A page that told nothing, before the first line, passes what is not wanted.
LEMMA PagePasses ==
  ASSUME FeedInv, NEW f \in Follower, PageDone(f)
  PROVE  Feed!Next \/ UNCHANGED Feed!feedVars
<1> DEFINE place == [gen |-> page[f].gen, seq |-> page[f].seq]
<1>1. /\ UNCHANGED <<gen, log, printed>> /\ client[f] = "printing"
      /\ cursor' = [cursor EXCEPT ![f] = place]
      /\ cursor \in [Follower -> Cursor \cup {None}]
  BY DEF PageDone, FeedInv, TypeOK
<1>2. Known(place) /\ place \in Cursor /\ Follows(f, Reached(f), place)
  BY AfterPage
<1> HIDE DEF place
<1>3. \A g \in Follower \ {f} : Passed(g)' = Passed(g)
  BY <1>1 DEF Passed
<1>4. CASE printed[f] # <<>> \/ cursor'[f] = cursor[f]
  <2>1. Passed(f)' = Passed(f)
    BY <1>1, <1>4 DEF Passed
  <2> QED
    BY <1>1, <1>3, <2>1 DEF Feed!feedVars
<1>5. CASE printed[f] = <<>> /\ cursor'[f] # cursor[f]
  <2>1. Passed(f)' = place /\ Reached(f) = Passed(f) /\ cursor[f] # place
    BY <1>1, <1>2, <1>5, NoneAssumption DEF Passed, Reached
  <2>2. From' = [From EXCEPT ![f] = place]
    BY <1>3, <2>1 DEF From
  <2>3. /\ place.gen \in Generation /\ place.seq \in Nat
        /\ place.seq \in 0..Len(log[place.gen])
    <3>1. place.gen \in Generation /\ place.seq \in Nat
      BY <1>2 DEF Cursor
    <3>2. Len(log[place.gen]) \in Nat
      BY <3>1, LenProperties DEF FeedInv, TypeOK, JournalTypeOK
    <3> QED
      BY <1>2, <3>1, <3>2 DEF Known
  <2>4. ASSUME Passed(f) # NoPlace
        PROVE  /\ Feed!Adjacent(f, Passed(f), place)
               /\ ~Feed!IsWanted(f, place.gen, place.seq)
    <3>1. cursor[f] # None /\ Passed(f) = cursor[f] /\ cursor[f] \in Cursor
      BY <1>1, <1>5, <2>4 DEF Passed, NoPlace
    <3>2. /\ cursor[f].gen = place.gen /\ cursor[f].seq <= place.seq
          /\ WantedIn(f, place.gen, cursor[f].seq, place.seq) = {}
      BY <1>2, <2>1, <2>4, <3>1 DEF Follows
    <3>3. cursor[f].seq \in Nat /\ cursor[f].seq # place.seq
      BY <1>2, <2>1, <3>1, <3>2 DEF Cursor
    <3>4. \A m \in (cursor[f].seq + 1)..place.seq : ~Feed!IsWanted(f, place.gen, m)
      BY <3>2 DEF WantedIn, IsIn, Feed!IsWanted
    <3>5. place.seq \in (cursor[f].seq + 1)..place.seq
      BY <2>3, <3>2, <3>3
    <3> QED
      BY <2>3, <3>1, <3>2, <3>3, <3>4, <3>5 DEF Feed!Adjacent
  <2>5. Feed!Pass(f, place)
    BY <1>1, <1>5, <2>2, <2>4 DEF Feed!Pass, From, NoPlace, Feed!NoPlace
  <2>6. place = [gen |-> place.gen, seq |-> place.seq]
    BY <1>2 DEF Cursor
  <2> QED
    BY <2>3, <2>5, <2>6 DEF Feed!Next
<1> QED
  BY <1>4, <1>5

\* A run that printed nothing, repeated, starts anywhere again.
LEMMA RerunPasses ==
  ASSUME FeedInv, NEW f \in Follower, Rerun(f)
  PROVE  Feed!Next \/ UNCHANGED Feed!feedVars
<1>1. /\ UNCHANGED <<gen, log, printed>>
      /\ cursor \in [Follower -> Cursor \cup {None}]
      /\ \A g \in Follower \ {f} : cursor'[g] = cursor[g]
      /\ printed[f] = <<>> => cursor'[f] = None
  BY DEF Rerun, FeedInv, TypeOK
<1>2. \A g \in Follower \ {f} : Passed(g)' = Passed(g)
  BY <1>1 DEF Passed
<1>3. CASE printed[f] # <<>>
  <2>1. Passed(f)' = Passed(f)
    BY <1>1, <1>3 DEF Passed
  <2> QED
    BY <1>1, <1>2, <2>1 DEF Feed!feedVars
<1>4. CASE printed[f] = <<>>
  <2>1. Passed(f)' = Feed!NoPlace
    BY <1>1, <1>4 DEF Passed, Feed!NoPlace
  <2>2. From' = [From EXCEPT ![f] = Feed!NoPlace]
    BY <1>2, <2>1 DEF From
  <2>3. Feed!Pass(f, Feed!NoPlace)
    BY <1>1, <1>4, <2>2 DEF Feed!Pass, From
  <2> QED
    BY <2>3 DEF Feed!Next
<1> QED
  BY <1>3, <1>4

\* Every step is one of the feed, or none.
LEMMA StepsTell == FeedInv /\ [Next]_vars => [Feed!Next]_(Feed!feedVars)
<1> SUFFICES ASSUME FeedInv, [Next]_vars
             PROVE  Feed!Next \/ UNCHANGED Feed!feedVars
  OBVIOUS
<1>1. CASE UNCHANGED <<gen, log, cursor, printed>>
  BY <1>1 DEF Feed!feedVars, Passed
<1>2. CASE JournalNext /\ UNCHANGED clientVars
  BY <1>2, JournalTells
<1>3. ASSUME NEW f \in Follower, Poll(f) \/ Receive(f) \/ Refused(f) \/ Lost(f)
                                 \/ Stop(f)
      PROVE  UNCHANGED <<gen, log, cursor, printed>>
  BY <1>3 DEF Poll, Receive, Refused, Lost, Leave, Stop, End
<1>4. ASSUME NEW f \in Follower, Following(f) \/ Leaving(f)
      PROVE  Feed!Next \/ UNCHANGED Feed!feedVars
  BY <1>1, <1>3, <1>4, LineTells, PagePasses, RerunPasses DEF Following, Leaving
<1> QED
  BY <1>1, <1>2, <1>4 DEF Next, Tick, vars

\* The lines that all runs of a follower print are a feed: every wanted event
\* of a generation once and in order, and a gap line wherever the follower
\* goes on elsewhere, over evictions, lost connections and restarts.
THEOREM LinesAreAFeed == Spec => FeedKept
<1>1. Init => Feed!Init
  BY FeedBegins
<1>2. FeedInv /\ [Next]_vars => [Feed!Next]_(Feed!feedVars)
  BY StepsTell
<1> QED
  BY <1>1, <1>2, FeedCorrect, PTL DEF Spec, FeedKept, Feed!Spec
=============================================================================
