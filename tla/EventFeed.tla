------------------------------ MODULE EventFeed ------------------------------
(***************************************************************************)
(* What `grokbox events` promises of its output when every run of it       *)
(* resumes from the last cursor printed: the wanted events of each daemon  *)
(* generation in order and once, or a gap line wherever something may be   *)
(* missing. The log is complete here and nothing is ever evicted.          *)
(***************************************************************************)
EXTENDS Naturals, Sequences, SequencesExt

CONSTANTS
  Follower,     \* the readers of the feed
  Source,       \* where events come from
  Wanted,       \* the sources each follower asked for
  Generation    \* daemon generations, counted from 1

VARIABLES
  gen,          \* the current generation, 0 before the first
  log,          \* every event of each generation, as its source
  told,         \* the lines each follower has printed
  from          \* before the first line, what is passed, or NoPlace

feedVars == <<gen, log, told, from>>

Line == [kind : {"event", "gap"}, gen : Generation, seq : Nat]
Place == [gen : Generation, seq : Nat]
NoPlace == [gen |-> 0, seq |-> 0]

IsWanted(f, g, n) == log[g][n] \in Wanted[f]

\* Nothing wanted lies strictly between two places of one generation.
Adjacent(f, a, b) ==
  /\ a.gen = b.gen /\ a.seq < b.seq
  /\ \A n \in (a.seq + 1)..(b.seq - 1) : ~IsWanted(f, b.gen, n)

Before(a, b) == a.gen < b.gen \/ (a.gen = b.gen /\ a.seq < b.seq)

Reached(f) == IF told[f] = <<>> THEN from[f]
              ELSE [gen |-> Last(told[f]).gen, seq |-> Last(told[f]).seq]

\* A line tells the next wanted event, or that the feed goes on elsewhere.
Tell(f, line) ==
  /\ Reached(f) # NoPlace =>
       IF line.kind = "event" THEN Adjacent(f, Reached(f), line)
                              ELSE Before(Reached(f), line)
  /\ line.kind = "event" =>
       line.seq \in DOMAIN log[line.gen] /\ IsWanted(f, line.gen, line.seq)
  /\ told' = [told EXCEPT ![f] = Append(@, line)]
  /\ from' = [from EXCEPT ![f] = NoPlace]
  /\ UNCHANGED <<gen, log>>

\* Before it has printed anything a follower passes what it does not want,
\* and starts anywhere, again after each run that printed nothing.
Pass(f, place) ==
  /\ told[f] = <<>>
  /\ from[f] # NoPlace /\ place # NoPlace =>
       Adjacent(f, from[f], place) /\ ~IsWanted(f, place.gen, place.seq)
  /\ from' = [from EXCEPT ![f] = place]
  /\ UNCHANGED <<gen, log, told>>

Happen(s) ==
  /\ gen \in Generation
  /\ log' = [log EXCEPT ![gen] = Append(@, s)]
  /\ UNCHANGED <<gen, told, from>>

Restart(s) ==
  /\ gen + 1 \in Generation
  /\ gen' = gen + 1
  /\ log' = [log EXCEPT ![gen + 1] = <<s>>]
  /\ UNCHANGED <<told, from>>

Init ==
  /\ gen = 0
  /\ log = [g \in Generation |-> <<>>]
  /\ told = [f \in Follower |-> <<>>]
  /\ from = [f \in Follower |-> NoPlace]

Next ==
  \/ \E s \in Source : Happen(s) \/ Restart(s)
  \/ \E f \in Follower, g \in Generation : \E n \in 0..Len(log[g]) :
       \/ \E k \in {"event", "gap"} : Tell(f, [kind |-> k, gen |-> g, seq |-> n])
       \/ Pass(f, [gen |-> g, seq |-> n])
  \/ \E f \in Follower : Pass(f, NoPlace)

Spec == Init /\ [][Next]_feedVars
=============================================================================
