----------------------------- MODULE MCJobsFair -----------------------------
(***************************************************************************)
(* Two stories of the JobManager in one run, with the fairness of its      *)
(* handlers. Busy: two jobs in a single generation, which may fail to save *)
(* what submissions and launches persist; every cancel caller came before  *)
(* there was a job and was refused. The other story: one job, the cancel   *)
(* callers and two generations, which may fail to save or load the rest.   *)
(***************************************************************************)
EXTENDS JobsProperties

CONSTANT Lone               \* the only job of the other story

CameTooEarly == [c \in Cancel |-> [step |-> "refused", job |-> None,
                                   granted |-> FALSE, slot |-> 0,
                                   ack |-> "none"]]
Busy == call = CameTooEarly

MCInit == Init \/ StartsWith(CameTooEarly)
MCFairSpec == MCInit /\ [][Next]_vars /\ Fairness

\* The steps of each story, an action constraint of the run.
Stays ==
  IF Busy
  THEN daemon' # "down" /\ close'.step # "failed"
  ELSE /\ \A j \in Job \ {Lone} : state'[j] = "absent"
       /\ admission'.job \in {None, Lone} /\ admission'.step # "removing"
       /\ launch'[Lone] \notin {"abandoning", "republish"}
       /\ close'.step # "republish"
=============================================================================
