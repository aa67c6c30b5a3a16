-------------------------- MODULE FilesystemProofs --------------------------
(***************************************************************************)
(* The governed filesystem and its callers, for any operations, any        *)
(* destinations and any plan of what is asked for: what a cancel promises, *)
(* who owns what is left lying about, and that no effect replaces a file   *)
(* its operation has not seen.                                             *)
(***************************************************************************)
EXTENDS FilesystemClient, FiniteSetTheorems, SequenceTheorems, TLAPS

-----------------------------------------------------------------------------
(* Types. The ledger, the chunks and the counts come last: nothing before  *)
(* depends on which of the final outcomes the daemon still remembers.      *)

OpenCall == {c \in Call : c.verb = "open"}
QueuedVerb == {"mutate", "open", "chunk", "commit", "cancel", "expire"}

DiskTyped ==
  /\ plan \in Plans
  /\ file \in [Target -> Version] /\ temps \subseteq Op
  /\ applied \in [Op -> Nat] /\ raced \subseteq Target
  /\ seen \in [Op -> Version]
UploadTyped ==
  /\ state \in [Op -> Outcome \cup {"pending"}]
  /\ live \subseteq Op /\ armed \subseteq Op /\ got \in [Op -> Nat]
  /\ reserved \in [Target -> Op \cup {Nobody}]
CallTyped ==
  /\ wire \subseteq Call
  /\ awaits \in [Op -> Call \cup {NoCall}]
  /\ reply \in [Op -> Reply]
  /\ admission \in Seq(OpenCall \cup {Barrier})

\* A call waits at the destination of its operation. Who holds a lock and has
\* come some way is a mutation, an open or a commit.
QueueTyped ==
  /\ locks \in [Target -> Seq(Call)]
  /\ stage \in [Target -> {"wait", "based", "sure"}]
  /\ \A t \in Target : \A i \in DOMAIN locks[t] :
       At(locks[t][i].op) = t /\ locks[t][i].verb \in QueuedVerb
  /\ \A t \in Target :
       /\ stage[t] = "based" => /\ locks[t] # <<>>
                                /\ Holder(t).verb \in {"mutate", "open"}
       /\ stage[t] = "sure" => /\ locks[t] # <<>>
                               /\ Holder(t).verb \in {"mutate", "commit"}

\* An open that has reached a queue is the head of the admission chain, and
\* stays it until it ends: there is one at a time.
OpenInv ==
  \A t \in Target : \A i \in DOMAIN locks[t] :
    locks[t][i].verb = "open" =>
      /\ admission # <<>> /\ Head(admission) = locks[t][i]
      /\ \A j \in DOMAIN locks[t] : locks[t][j].verb = "open" => j = i

Typed == DiskTyped /\ UploadTyped /\ CallTyped /\ QueueTyped

\* What a plan says of an operation.
LEMMA Asked ==
  ASSUME plan \in Plans, NEW o \in Op
  PROVE  At(o) \in Target /\ plan.ask[o].verb \in Verb
BY FilesystemAssumption DEF FilesystemAssumption, Plan, Request, At

-----------------------------------------------------------------------------
(* The queues.                                                             *)

\* The holder is a call at the destination of its operation.
LEMMA HolderFacts ==
  ASSUME QueueTyped, NEW t \in Target, locks[t] # <<>>
  PROVE  /\ 1 \in DOMAIN locks[t] /\ Holder(t) = locks[t][1]
         /\ Holder(t) \in Call /\ Holder(t).op \in Op
         /\ Holder(t).verb \in QueuedVerb
         /\ At(Holder(t).op) = t
<1>1. locks[t] \in Seq(Call)
  BY DEF QueueTyped
<1>2. 1 \in DOMAIN locks[t] /\ Holder(t) = locks[t][1] /\ locks[t][1] \in Call
  BY <1>1, HeadTailProperties DEF Holder
<1> QED
  BY <1>2 DEF QueueTyped, Call

\* The rest of a queue keeps its order.
LEMMA ReleaseFacts ==
  ASSUME QueueTyped, NEW t \in Target, locks[t] # <<>>, Release(t)
  PROVE  /\ locks' \in [Target -> Seq(Call)]
         /\ stage' \in [Target -> {"wait", "based", "sure"}]
         /\ stage'[t] = "wait"
         /\ \A u \in Target : u # t => /\ locks'[u] = locks[u]
                                       /\ stage'[u] = stage[u]
         /\ DOMAIN locks'[t] = 1..(Len(locks[t]) - 1)
         /\ \A i \in DOMAIN locks'[t] : /\ i + 1 \in DOMAIN locks[t]
                                        /\ locks'[t][i] = locks[t][i + 1]
<1>1. locks[t] \in Seq(Call)
  BY DEF QueueTyped
<1>2. /\ Tail(locks[t]) \in Seq(Call)
      /\ DOMAIN Tail(locks[t]) = 1..(Len(locks[t]) - 1)
      /\ \A i \in 1..(Len(locks[t]) - 1) :
           i + 1 \in DOMAIN locks[t] /\ Tail(locks[t])[i] = locks[t][i + 1]
  BY <1>1, HeadTailProperties
<1>3. /\ locks' = [locks EXCEPT ![t] = Tail(locks[t])]
      /\ stage' = [stage EXCEPT ![t] = "wait"]
      /\ locks \in [Target -> Seq(Call)]
      /\ stage \in [Target -> {"wait", "based", "sure"}]
  BY DEF Release, QueueTyped
<1> QED
  BY <1>2, <1>3

\* A call goes to the end of its queue; a holder stays the holder.
LEMMA QueueFacts ==
  ASSUME QueueTyped, plan \in Plans, NEW c \in Call, Queue(c)
  PROVE  /\ At(c.op) \in Target
         /\ locks' \in [Target -> Seq(Call)]
         /\ \A u \in Target : u # At(c.op) => locks'[u] = locks[u]
         /\ Len(locks'[At(c.op)]) = Len(locks[At(c.op)]) + 1
         /\ DOMAIN locks'[At(c.op)] = 1..(Len(locks[At(c.op)]) + 1)
         /\ \A i \in DOMAIN locks[At(c.op)] :
              i \in DOMAIN locks'[At(c.op)]
              /\ locks'[At(c.op)][i] = locks[At(c.op)][i]
         /\ locks'[At(c.op)][Len(locks[At(c.op)]) + 1] = c
         /\ \A i \in DOMAIN locks'[At(c.op)] :
              i \in DOMAIN locks[At(c.op)] \/ i = Len(locks[At(c.op)]) + 1
         /\ \A u \in Target : locks[u] # <<>> =>
              locks'[u] # <<>> /\ Head(locks'[u]) = Head(locks[u])
<1> DEFINE t == At(c.op)
<1>1. t \in Target
  <2>1. c.op \in Op
    BY DEF Call
  <2> QED
    BY <2>1, Asked
<1>2. locks[t] \in Seq(Call)
  BY <1>1 DEF QueueTyped
<1>3. /\ locks' = [locks EXCEPT ![t] = Append(locks[t], c)]
      /\ locks \in [Target -> Seq(Call)]
  BY DEF Queue, QueueTyped
<1> HIDE DEF t
<1>4. /\ Append(locks[t], c) \in Seq(Call) /\ Append(locks[t], c) # <<>>
      /\ Len(Append(locks[t], c)) = Len(locks[t]) + 1
      /\ \A i \in 1..Len(locks[t]) : Append(locks[t], c)[i] = locks[t][i]
      /\ Append(locks[t], c)[Len(locks[t]) + 1] = c
  BY <1>2, AppendProperties
<1>5. /\ Len(locks[t]) \in Nat /\ DOMAIN locks[t] = 1..Len(locks[t])
      /\ DOMAIN Append(locks[t], c) = 1..(Len(locks[t]) + 1)
  BY <1>2, <1>4, LenProperties
<1>6. locks[t] # <<>> => Head(Append(locks[t], c)) = Head(locks[t])
  BY <1>2, <1>4, HeadTailProperties
<1>7. /\ locks'[t] = Append(locks[t], c)
      /\ \A u \in Target : u # t => locks'[u] = locks[u]
      /\ locks' \in [Target -> Seq(Call)]
  BY <1>1, <1>3, <1>4
<1>8. /\ DOMAIN locks'[t] = 1..(Len(locks[t]) + 1)
      /\ \A i \in DOMAIN locks[t] : i \in DOMAIN locks'[t]
                                    /\ locks'[t][i] = locks[t][i]
      /\ \A i \in DOMAIN locks'[t] :
           i \in DOMAIN locks[t] \/ i = Len(locks[t]) + 1
  BY <1>4, <1>5, <1>7
<1>9. /\ Len(locks'[t]) = Len(locks[t]) + 1
      /\ locks'[t][Len(locks[t]) + 1] = c
  BY <1>4, <1>7
<1>10. \A u \in Target : locks[u] # <<>> =>
         locks'[u] # <<>> /\ Head(locks'[u]) = Head(locks[u])
  BY <1>4, <1>6, <1>7
<1> QED
  BY <1>1, <1>7, <1>8, <1>9, <1>10 DEF t

\* Letting a target go keeps the types of the queues.
LEMMA ReleaseKeepsQueues ==
  ASSUME QueueTyped, plan' = plan, NEW t \in Target, locks[t] # <<>>,
         Release(t)
  PROVE  QueueTyped'
<1>1. /\ locks' \in [Target -> Seq(Call)]
      /\ stage' \in [Target -> {"wait", "based", "sure"}]
      /\ stage'[t] = "wait"
      /\ \A u \in Target : u # t => /\ locks'[u] = locks[u]
                                    /\ stage'[u] = stage[u]
      /\ \A i \in DOMAIN locks'[t] : /\ i + 1 \in DOMAIN locks[t]
                                     /\ locks'[t][i] = locks[t][i + 1]
  BY ReleaseFacts
<1>2. ASSUME NEW u \in Target, NEW i \in DOMAIN locks'[u]
      PROVE  At(locks'[u][i].op) = u /\ locks'[u][i].verb \in QueuedVerb
  <2>1. CASE u = t
    <3>1. \A j \in DOMAIN locks[t] :
            At(locks[t][j].op) = t /\ locks[t][j].verb \in QueuedVerb
      BY DEF QueueTyped
    <3> QED
      BY <1>1, <1>2, <2>1, <3>1
  <2>2. CASE u # t
    BY <1>1, <1>2, <2>2 DEF QueueTyped
  <2> QED
    BY <2>1, <2>2
<1>3. ASSUME NEW u \in Target
      PROVE  /\ stage'[u] = "based" =>
                  /\ locks'[u] # <<>>
                  /\ Head(locks'[u]).verb \in {"mutate", "open"}
             /\ stage'[u] = "sure" =>
                  /\ locks'[u] # <<>>
                  /\ Head(locks'[u]).verb \in {"mutate", "commit"}
  BY <1>1, <1>3 DEF QueueTyped, Holder
<1> QED
  BY <1>1, <1>2, <1>3 DEF QueueTyped, Holder, At

\* Joining the queue of a target keeps the types of the queues.
LEMMA QueueKeepsQueues ==
  ASSUME QueueTyped, plan \in Plans, plan' = plan, stage' = stage,
         NEW c \in Call, c.verb \in QueuedVerb, Queue(c)
  PROVE  QueueTyped'
<1>1. /\ At(c.op) \in Target
      /\ locks' \in [Target -> Seq(Call)]
      /\ \A u \in Target : u # At(c.op) => locks'[u] = locks[u]
      /\ \A i \in DOMAIN locks[At(c.op)] :
           locks'[At(c.op)][i] = locks[At(c.op)][i]
      /\ locks'[At(c.op)][Len(locks[At(c.op)]) + 1] = c
      /\ \A i \in DOMAIN locks'[At(c.op)] :
           i \in DOMAIN locks[At(c.op)] \/ i = Len(locks[At(c.op)]) + 1
      /\ \A u \in Target : locks[u] # <<>> =>
           locks'[u] # <<>> /\ Head(locks'[u]) = Head(locks[u])
  BY QueueFacts
<1>2. ASSUME NEW u \in Target, NEW i \in DOMAIN locks'[u]
      PROVE  At(locks'[u][i].op) = u /\ locks'[u][i].verb \in QueuedVerb
  <2>1. CASE u # At(c.op)
    BY <1>1, <1>2, <2>1 DEF QueueTyped
  <2>2. CASE u = At(c.op)
    <3>1. \A j \in DOMAIN locks[u] :
            At(locks[u][j].op) = u /\ locks[u][j].verb \in QueuedVerb
      BY DEF QueueTyped
    <3>2. CASE i \in DOMAIN locks[u]
      BY <1>1, <2>2, <3>1, <3>2
    <3>3. CASE i = Len(locks[u]) + 1
      BY <1>1, <2>2, <3>3
    <3> QED
      BY <1>1, <1>2, <2>2, <3>2, <3>3
  <2> QED
    BY <2>1, <2>2
<1>3. ASSUME NEW u \in Target
      PROVE  /\ stage'[u] = "based" =>
                  /\ locks'[u] # <<>>
                  /\ Head(locks'[u]).verb \in {"mutate", "open"}
             /\ stage'[u] = "sure" =>
                  /\ locks'[u] # <<>>
                  /\ Head(locks'[u]).verb \in {"mutate", "commit"}
  BY <1>1, <1>3 DEF QueueTyped, Holder
<1> QED
  BY <1>1, <1>2, <1>3 DEF QueueTyped, Holder, At

\* The holder of a target that goes on keeps the types of the queues.
LEMMA AdvanceKeepsQueues ==
  ASSUME QueueTyped, plan' = plan, NEW t \in Target, locks[t] # <<>>,
         NEW s \in {"based", "sure"}, Advance(t, s),
         s = "based" => Holder(t).verb \in {"mutate", "open"},
         s = "sure" => Holder(t).verb \in {"mutate", "commit"}
  PROVE  QueueTyped'
BY DEF QueueTyped, Advance, Holder, At

\* Empty queues have the types.
LEMMA NothingQueuedIsTyped ==
  ASSUME locks' = [t \in Target |-> <<>>], stage' = [t \in Target |-> "wait"]
  PROVE  QueueTyped'
BY DEF QueueTyped

\* Queues left alone keep their types.
LEMMA SameQueues ==
  ASSUME QueueTyped, plan' = plan, UNCHANGED <<locks, stage>>
  PROVE  QueueTyped'
BY DEF QueueTyped, Holder, At

\* A finite set in some order.
LEMMA SetToSeqIsASeq ==
  ASSUME NEW S, IsFiniteSet(S)
  PROVE  SetToSeq(S) \in Seq(S)
<1> DEFINE n == Cardinality(S)
<1>1. n \in Nat /\ ExistsBijection(1..n, S)
  BY FS_CardinalityType
<1>2. PICK f \in Bijection(1..n, S) : TRUE
  BY <1>1 DEF ExistsBijection
<1>3. f \in [1..n -> S] /\ IsInjective(f)
  BY <1>2 DEF Bijection, Injection, IsInjective
<1>4. SetToSeq(S) \in [1..n -> S] /\ IsInjective(SetToSeq(S))
  BY <1>3 DEF SetToSeq
<1> HIDE DEF n
<1> QED
  BY <1>1, <1>4, IsASeq
\* close() queues an expiry behind everything, for open uploads only.
LEMMA BarrierFacts ==
  ASSUME QueueTyped, DiskTyped, UploadTyped, PassBarrier, NEW t \in Target
  PROVE  /\ locks'[t] \in Seq(Call)
         /\ \A i \in DOMAIN locks[t] : i \in DOMAIN locks'[t]
                                       /\ locks'[t][i] = locks[t][i]
         /\ \A i \in DOMAIN locks'[t] :
              \/ i \in DOMAIN locks[t]
              \/ /\ locks'[t][i].verb = "expire" /\ At(locks'[t][i].op) = t
                 /\ locks'[t][i].op \in live
         /\ locks[t] # <<>> =>
              locks'[t] # <<>> /\ Head(locks'[t]) = Head(locks[t])
<1> DEFINE S == {[op |-> o, verb |-> "expire", n |-> 0] :
                   o \in {o \in live : At(o) = t}}
<1>1. S \subseteq Call /\ IsFiniteSet(S)
  <2> DEFINE L == {o \in live : At(o) = t}
             f == [o \in L |-> [op |-> o, verb |-> "expire", n |-> 0]]
  <2>1. L \subseteq Op
    BY DEF UploadTyped
  <2>2. IsFiniteSet(L)
    BY <2>1, FS_Subset, FilesystemAssumption DEF FilesystemAssumption
  <2>3. f \in Bijection(L, S)
    BY DEF Bijection, Injection, Surjection, IsInjective
  <2>4. IsFiniteSet(S)
    BY <2>2, <2>3, FS_Bijection DEF ExistsBijection
  <2> QED
    BY <2>1, <2>4 DEF Call
<1>2. \A c \in S : c.verb = "expire" /\ At(c.op) = t /\ c.op \in live
  OBVIOUS
<1>3. locks'[t] = locks[t] \o SetToSeq(S)
  BY DEF PassBarrier
<1> HIDE DEF S
<1>4. SetToSeq(S) \in Seq(S) /\ SetToSeq(S) \in Seq(Call)
  BY <1>1, SetToSeqIsASeq, SeqMonotonic
<1>5. locks[t] \in Seq(Call)
  BY DEF QueueTyped
<1>6. /\ locks'[t] \in Seq(Call)
      /\ Len(locks'[t]) = Len(locks[t]) + Len(SetToSeq(S))
      /\ \A i \in 1..Len(locks'[t]) : locks'[t][i] =
           IF i <= Len(locks[t]) THEN locks[t][i]
                                 ELSE SetToSeq(S)[i - Len(locks[t])]
  BY <1>3, <1>4, <1>5, ConcatProperties
<1>7. /\ Len(locks[t]) \in Nat /\ DOMAIN locks[t] = 1..Len(locks[t])
      /\ Len(SetToSeq(S)) \in Nat
      /\ DOMAIN SetToSeq(S) = 1..Len(SetToSeq(S))
      /\ DOMAIN locks'[t] = 1..Len(locks'[t])
  BY <1>4, <1>5, <1>6, LenProperties
<1>8. \A i \in DOMAIN locks[t] : i \in DOMAIN locks'[t]
                                 /\ locks'[t][i] = locks[t][i]
  BY <1>6, <1>7
<1>9. ASSUME NEW i \in DOMAIN locks'[t], i \notin DOMAIN locks[t]
      PROVE  locks'[t][i] \in S
  <2>1. i - Len(locks[t]) \in DOMAIN SetToSeq(S)
    BY <1>6, <1>7, <1>9
  <2>2. SetToSeq(S)[i - Len(locks[t])] \in S
    BY <1>4, <1>7, <2>1, ElementOfSeq
  <2> QED
    BY SMTT(20), <1>6, <1>7, <1>9, <2>2
<1>10. locks[t] # <<>> =>
         locks'[t] # <<>> /\ Head(locks'[t]) = Head(locks[t])
  <2>1. locks[t] # <<>> => 1 \in DOMAIN locks[t]
    BY <1>5, <1>7
  <2> QED
    BY <1>5, <1>6, <1>7, <1>8, <2>1
<1> QED
  BY <1>2, <1>6, <1>8, <1>9, <1>10

\* The barrier of close() keeps the types of the queues.
LEMMA BarrierKeepsQueues ==
  ASSUME QueueTyped, DiskTyped, UploadTyped, PassBarrier
  PROVE  QueueTyped'
<1>1. plan' = plan /\ stage' = stage
  BY DEF PassBarrier, diskVars
<1>2. \A t \in Target :
        /\ locks'[t] \in Seq(Call)
        /\ \A i \in DOMAIN locks[t] : i \in DOMAIN locks'[t]
                                      /\ locks'[t][i] = locks[t][i]
        /\ \A i \in DOMAIN locks'[t] :
             \/ i \in DOMAIN locks[t]
             \/ locks'[t][i].verb = "expire" /\ At(locks'[t][i].op) = t
        /\ locks[t] # <<>> =>
             locks'[t] # <<>> /\ Head(locks'[t]) = Head(locks[t])
  BY BarrierFacts
<1>3. locks' \in [Target -> Seq(Call)]
  BY <1>2 DEF PassBarrier
<1>4. ASSUME NEW t \in Target, NEW i \in DOMAIN locks'[t]
      PROVE  At(locks'[t][i].op) = t /\ locks'[t][i].verb \in QueuedVerb
  <2>1. CASE i \in DOMAIN locks[t]
    BY <1>2, <2>1 DEF QueueTyped
  <2>2. CASE i \notin DOMAIN locks[t]
    BY <1>2, <1>4, <2>2 DEF QueuedVerb
  <2> QED
    BY <2>1, <2>2
<1>5. ASSUME NEW t \in Target
      PROVE  /\ stage'[t] = "based" =>
                  /\ locks'[t] # <<>>
                  /\ Head(locks'[t]).verb \in {"mutate", "open"}
             /\ stage'[t] = "sure" =>
                  /\ locks'[t] # <<>>
                  /\ Head(locks'[t]).verb \in {"mutate", "commit"}
  BY <1>1, <1>2, <1>5 DEF QueueTyped, Holder
<1> QED
  BY <1>1, <1>3, <1>4, <1>5 DEF QueueTyped, Holder, At
-----------------------------------------------------------------------------
(* Every step keeps the types.                                             *)

\* An answer is a reply.
LEMMA AnswerTyped ==
  ASSUME CallTyped, NEW c, NEW r \in Reply, Answer(c, r)
  PROVE  reply' \in [Op -> Reply]
BY DEF CallTyped, Answer

\* replayMutation() answers with what is recorded, or that nothing is.
LEMMA ReplayTyped ==
  ASSUME UploadTyped, NEW o \in Op
  PROVE  Replay(o) \in Outcome \cup {"unknown"} /\ Replay(o) \in Reply
         /\ (Replay(o) # "unknown" => Known(o) /\ Replay(o) = state[o])
BY DEF UploadTyped, Replay, Reply

\* The queues after a call arrives.
LEMMA ArrivalKeepsQueues ==
  ASSUME Typed, NEW c \in wire,
         \/ ArriveMutation(c) \/ ArriveStatus(c) \/ ArriveOpen(c)
         \/ ArriveTransfer(c) \/ ArriveCancel(c)
  PROVE  QueueTyped' /\ plan' = plan
<1> USE DEF Typed, diskVars, queueVars
<1>1. c \in Call /\ QueueTyped /\ plan \in Plans
  BY DEF CallTyped, DiskTyped
<1>2. plan' = plan /\ stage' = stage
  BY DEF ArriveMutation, ArriveStatus, ArriveOpen, ArriveTransfer,
         ArriveCancel
<1>3. \/ locks' = locks \/ (c.verb \in QueuedVerb /\ Queue(c))
  BY DEF ArriveMutation, ArriveStatus, ArriveOpen, ArriveTransfer,
         ArriveCancel, QueuedVerb
<1> QED
  BY <1>1, <1>2, <1>3, SameQueues, QueueKeepsQueues

\* What the holder of a lock can do to the queues: keep the lock and come
\* further, release it, or end the process.
LEMMA LockSteps ==
  ASSUME Typed, NEW t \in Target,
         DaemonLock(t) \/ FailMutation(t) \/ FailOpen(t)
  PROVE  /\ plan' = plan /\ locks[t] # <<>>
         /\ \/ Release(t)
            \/ /\ Advance(t, "based") /\ stage[t] = "wait"
               /\ Holder(t).verb \in {"mutate", "open"}
            \/ /\ Advance(t, "sure") /\ stage[t] \in {"wait", "based"}
               /\ Holder(t).verb \in {"mutate", "commit"}
            \/ LoseMemory
<1> USE DEF Typed, Holds
<1>1. CASE TakeBaseline(t)
  BY <1>1 DEF TakeBaseline, GiveUp
<1>2. CASE LookAgain(t)
  BY <1>2 DEF LookAgain, GiveUp, diskVars
<1>3. CASE TakeEffect(t)
  BY <1>3 DEF TakeEffect, GiveUp
<1>4. CASE OpenTemporary(t)
  BY <1>4 DEF OpenTemporary, EndOpen
<1>5. CASE PublishUpload(t)
  BY <1>5 DEF PublishUpload, EndOpen
<1>6. CASE TakeChunk(t)
  BY <1>6 DEF TakeChunk
<1>7. CASE CheckCommit(t)
  BY <1>7 DEF CheckCommit, FailedCommit
<1>8. CASE CommitUpload(t)
  BY <1>8 DEF CommitUpload, FailedCommit
<1>9. CASE CancelUpload(t)
  BY <1>9 DEF CancelUpload
<1>10. CASE ExpiryKills(t)
  BY <1>10 DEF ExpiryKills, LoseMemory
<1>11. CASE FailMutation(t) \/ FailOpen(t)
  BY <1>11 DEF FailMutation, FailOpen, GiveUp, EndOpen
<1> QED
  BY <1>1, <1>2, <1>3, <1>4, <1>5, <1>6, <1>7, <1>8, <1>9, <1>10, <1>11
  DEF DaemonLock

\* The holder of a target keeps the types of the queues.
LEMMA LockKeepsQueues ==
  ASSUME Typed, NEW t \in Target,
         DaemonLock(t) \/ FailMutation(t) \/ FailOpen(t)
  PROVE  QueueTyped'
<1>1. /\ QueueTyped /\ plan' = plan /\ locks[t] # <<>>
      /\ \/ Release(t)
         \/ Advance(t, "based") /\ Holder(t).verb \in {"mutate", "open"}
         \/ Advance(t, "sure") /\ Holder(t).verb \in {"mutate", "commit"}
         \/ LoseMemory
  BY LockSteps DEF Typed
<1>2. CASE Release(t)
  BY <1>1, <1>2, ReleaseKeepsQueues
<1>3. CASE Advance(t, "based") /\ Holder(t).verb \in {"mutate", "open"}
  BY <1>1, <1>3, AdvanceKeepsQueues
<1>4. CASE Advance(t, "sure") /\ Holder(t).verb \in {"mutate", "commit"}
  BY <1>1, <1>4, AdvanceKeepsQueues
<1>5. CASE LoseMemory
  BY <1>5, NothingQueuedIsTyped DEF LoseMemory
<1> QED
  BY <1>1, <1>2, <1>3, <1>4, <1>5

\* The daemon's other steps: the admission, the timers, and what happens to
\* the process.
AroundStep ==
  \/ \E t \in Target : AlienWrite(t)
  \/ \E o \in Op : Expire(o) \/ ForgetTombstone(o)
  \/ Admit \/ EndSaturation \/ Close \/ PassBarrier \/ Exit \/ Crash

\* The steps around the targets keep the types of the queues.
LEMMA AroundKeepsQueues ==
  ASSUME Typed, AroundStep
  PROVE  QueueTyped' /\ plan' = plan
<1> USE DEF diskVars, queueVars
<1>1. QueueTyped /\ DiskTyped /\ UploadTyped /\ plan \in Plans
  BY DEF Typed, DiskTyped
<1>2. CASE \E t \in Target : AlienWrite(t)
  BY <1>1, <1>2, SameQueues DEF AlienWrite
<1>3. ASSUME NEW o \in Op, Expire(o) PROVE QueueTyped' /\ plan' = plan
  <2> DEFINE c == [op |-> o, verb |-> "expire", n |-> 0]
  <2>1. c \in Call /\ c.verb \in QueuedVerb
    BY DEF Call, QueuedVerb
  <2>2. plan' = plan /\ stage' = stage /\ Queue(c)
    BY <1>3 DEF Expire
  <2> QED
    BY <1>1, <2>1, <2>2, QueueKeepsQueues
<1>4. CASE Admit
  <2>1. /\ plan' = plan /\ stage' = stage
        /\ locks' = locks \/ Queue(Head(admission))
        /\ Head(admission) # Barrier /\ admission # <<>>
    BY <1>4 DEF Admit
  <2>2. Head(admission) \in OpenCall
    BY <2>1, HeadTailProperties DEF Typed, CallTyped
  <2> QED
    BY <1>1, <2>1, <2>2, SameQueues, QueueKeepsQueues
    DEF OpenCall, QueuedVerb
<1>5. CASE PassBarrier
  BY <1>1, <1>5, BarrierKeepsQueues DEF PassBarrier
<1>6. CASE Exit \/ Crash
  BY <1>6, NothingQueuedIsTyped DEF Exit, Crash, LoseMemory
<1>7. CASE EndSaturation \/ Close \/ \E o \in Op : ForgetTombstone(o)
  BY <1>1, <1>7, SameQueues DEF EndSaturation, Close, ForgetTombstone
<1> QED
  BY <1>2, <1>3, <1>4, <1>5, <1>6, <1>7 DEF AroundStep
\* The other types after a call arrives.
LEMMA ArrivalTyped ==
  ASSUME Typed, NEW c \in wire,
         \/ ArriveMutation(c) \/ ArriveStatus(c) \/ ArriveOpen(c)
         \/ ArriveTransfer(c) \/ ArriveCancel(c)
  PROVE  DiskTyped' /\ UploadTyped' /\ CallTyped'
<1> USE DEF Typed
<1>1. c \in Call /\ c.op \in Op /\ wire' \subseteq wire /\ awaits' = awaits
  BY DEF CallTyped, Call, ArriveMutation, ArriveStatus, ArriveOpen,
         ArriveTransfer, ArriveCancel
<1>2. UNCHANGED <<diskVars, uploadVars, seen>>
  BY DEF ArriveMutation, ArriveStatus, ArriveOpen, ArriveTransfer,
         ArriveCancel, queueVars
<1>3. DiskTyped'
  BY <1>2 DEF DiskTyped, diskVars
<1>4. state' \in [Op -> Outcome \cup {"pending"}]
  BY <1>1 DEF ArriveMutation, ArriveStatus, ArriveOpen, ArriveTransfer,
              ArriveCancel, ledgerVars, UploadTyped, Enter
<1>5. UploadTyped'
  BY <1>2, <1>4 DEF UploadTyped, uploadVars
<1>6. admission' \in Seq(OpenCall \cup {Barrier})
  <2>1. CASE ArriveOpen(c)
    <3>1. c \in OpenCall /\ admission' = Append(admission, c)
      BY <1>1, <2>1 DEF ArriveOpen, OpenCall
    <3> QED
      BY <3>1, AppendProperties DEF CallTyped
  <2> QED
    BY <2>1 DEF ArriveMutation, ArriveStatus, ArriveTransfer, ArriveCancel,
                CallTyped, queueVars
<1>7. reply' \in [Op -> Reply]
  <2>1. reply' = reply \/ \E r \in Reply : Answer(c, r)
    <3>1. Replay(c.op) \in Reply /\ "conflict" \in Reply /\ "invalid" \in Reply
          /\ "cancelled" \in Reply
      BY <1>1, ReplayTyped DEF Reply, Outcome
    <3> QED
      BY <3>1 DEF ArriveMutation, ArriveStatus, ArriveOpen, ArriveTransfer,
                  ArriveCancel
  <2> QED
    BY <2>1, AnswerTyped DEF CallTyped
<1> QED
  BY <1>1, <1>3, <1>5, <1>6, <1>7 DEF CallTyped

\* After a step of the holder of a lock.
LEMMA LockTyped ==
  ASSUME Typed, OpenInv, NEW t \in Target,
         DaemonLock(t) \/ FailMutation(t) \/ FailOpen(t)
  PROVE  DiskTyped' /\ UploadTyped' /\ CallTyped'
<1> DEFINE op == Holder(t).op
<1> USE DEF Typed
<1>1. /\ op \in Op /\ Holder(t) \in Call /\ plan' = plan /\ locks[t] # <<>>
      /\ file[t] \in Version /\ op \in Version
  BY LockSteps, HolderFacts DEF DiskTyped, Version
<1>2. CASE LoseMemory
  BY <1>2 DEF LoseMemory, DiskTyped, UploadTyped, CallTyped, callVars,
              Version, OpenCall
<1>3. CASE ~LoseMemory
  <2>1. /\ Release(t) \/ raced' = raced
        /\ wire' = wire /\ awaits' = awaits
    BY <1>3 DEF DaemonLock, TakeBaseline, LookAgain, TakeEffect, GiveUp,
       OpenTemporary, PublishUpload, TakeChunk, CheckCommit, CommitUpload,
       CancelUpload, ExpiryKills, FailMutation, FailOpen, EndOpen,
       FailedCommit, diskVars, callVars
  <2>2. /\ file' = file \/ \E v \in Version : file' = [file EXCEPT ![t] = v]
        /\ temps' \subseteq temps \cup {op}
        /\ applied' = applied \/ applied' = [applied EXCEPT ![op] = @ + 1]
        /\ seen' = seen \/ seen' = [seen EXCEPT ![op] = file[t]]
    BY <1>1, <1>3 DEF DaemonLock, TakeBaseline, LookAgain, TakeEffect, GiveUp,
       OpenTemporary, PublishUpload, TakeChunk, CheckCommit, CommitUpload,
       CancelUpload, ExpiryKills, FailMutation, FailOpen, EndOpen,
       FailedCommit, diskVars, Version
  <2>3. /\ DiskTyped'
        /\ raced' \subseteq raced
    BY <1>1, <2>1, <2>2 DEF DiskTyped, Release
  <2>4. /\ state' = state
           \/ \E r \in Outcome \cup {"pending"} :
                state' = [state EXCEPT ![op] = r]
        /\ live' \subseteq live \cup {op} /\ armed' \subseteq armed \cup {op}
        /\ \/ got' = got \/ got' = [got EXCEPT ![op] = 0]
           \/ got' = [got EXCEPT ![op] = @ + 1]
    BY <1>1, <1>3 DEF DaemonLock, TakeBaseline, LookAgain, TakeEffect, GiveUp,
       OpenTemporary, PublishUpload, TakeChunk, CheckCommit, CommitUpload,
       CancelUpload, ExpiryKills, FailMutation, FailOpen, EndOpen,
       FailedCommit, uploadVars, ledgerVars, Drop, ArmUpload, Enter, Record,
       UploadTyped, Outcome
  <2>5. \/ reserved' = reserved \/ reserved' = [reserved EXCEPT ![t] = op]
        \/ reserved' = [u \in Target |->
                          IF reserved[u] = op THEN Nobody ELSE reserved[u]]
    BY <1>1, <1>3 DEF DaemonLock, TakeBaseline, LookAgain, TakeEffect, GiveUp,
       OpenTemporary, PublishUpload, TakeChunk, CheckCommit, CommitUpload,
       CancelUpload, ExpiryKills, FailMutation, FailOpen, EndOpen,
       FailedCommit, uploadVars, Drop
  <2>6. UploadTyped'
    BY <1>1, <2>4, <2>5 DEF UploadTyped
  <2>7. reply' = reply \/ \E r \in Reply : Answer(Holder(t), r)
    <3>1. Replay(op) \in Reply /\ Outcome \subseteq Reply
          /\ {"ok", "invalid", "cancelled", "unreachable"} \subseteq Reply
      BY <1>1, ReplayTyped DEF Reply, Outcome
    <3> QED
      BY <1>3, <3>1 DEF DaemonLock, TakeBaseline, LookAgain, TakeEffect,
         GiveUp, OpenTemporary, PublishUpload, TakeChunk, CheckCommit,
         CommitUpload, CancelUpload, ExpiryKills, FailMutation, FailOpen,
         EndOpen, FailedCommit, callVars, Outcome
  <2>8. reply' \in [Op -> Reply]
    BY <2>7, AnswerTyped DEF CallTyped
  <2>9. \/ admission' = admission
        \/ admission' = Tail(admission) /\ Holder(t).verb = "open"
    BY <1>3 DEF DaemonLock, TakeBaseline, LookAgain, TakeEffect, GiveUp,
       OpenTemporary, PublishUpload, TakeChunk, CheckCommit, CommitUpload,
       CancelUpload, ExpiryKills, FailMutation, FailOpen, EndOpen,
       LeaveAdmission, Holds
  <2>10. admission' \in Seq(OpenCall \cup {Barrier})
    <3>1. CASE admission' = Tail(admission) /\ Holder(t).verb = "open"
      <4>1. admission # <<>>
        BY <1>1, <3>1, HolderFacts DEF OpenInv
      <4> QED
        BY <3>1, <4>1, HeadTailProperties DEF CallTyped
    <3> QED
      BY <2>9, <3>1 DEF CallTyped
  <2> QED
    BY <2>1, <2>3, <2>6, <2>8, <2>10 DEF CallTyped
<1> QED
  BY <1>2, <1>3
\* After one of the other steps.
LEMMA AroundTyped ==
  ASSUME Typed, AroundStep
  PROVE  DiskTyped' /\ UploadTyped' /\ CallTyped'
<1> USE DEF Typed
<1>1. ASSUME NEW t \in Target, AlienWrite(t)
      PROVE  DiskTyped' /\ UploadTyped' /\ CallTyped'
  BY <1>1 DEF AlienWrite, DiskTyped, UploadTyped, CallTyped, ledgerVars,
              uploadVars, queueVars, callVars, Version
<1>2. ASSUME NEW o \in Op, Expire(o) \/ ForgetTombstone(o)
      PROVE  DiskTyped' /\ UploadTyped' /\ CallTyped'
  BY <1>2 DEF Expire, ForgetTombstone, DiskTyped, UploadTyped, CallTyped,
              diskVars, ledgerVars, uploadVars, queueVars, callVars
<1>3. CASE Admit
  <2>1. Head(admission) \in OpenCall /\ Tail(admission) \in
          Seq(OpenCall \cup {Barrier})
    BY <1>3, HeadTailProperties DEF Admit, CallTyped
  <2>2. reply' = reply \/ \E r \in Reply : Answer(Head(admission), r)
    <3>1. Head(admission).op \in Op
      BY <2>1 DEF OpenCall, Call
    <3>2. Replay(Head(admission).op) \in Reply
      BY <3>1, ReplayTyped
    <3>3. Inadmissible(Head(admission).op) \in Reply /\ "conflict" \in Reply
      BY <3>2 DEF Inadmissible, Reply, Outcome
    <3> QED
      BY <1>3, <3>3 DEF Admit
  <2>3. reply' \in [Op -> Reply]
    BY <2>2, AnswerTyped DEF CallTyped
  <2>4. /\ UNCHANGED <<diskVars, uploadVars, seen, state, wire, awaits>>
        /\ admission' \in {admission, Tail(admission)}
    BY <1>3 DEF Admit, ledgerVars, LeaveAdmission
  <2> QED
    BY <2>1, <2>3, <2>4 DEF DiskTyped, UploadTyped, CallTyped, diskVars,
                            uploadVars
<1>4. CASE EndSaturation \/ Close
  <2>1. UNCHANGED <<diskVars, uploadVars, seen, state, callVars>>
    BY <1>4 DEF EndSaturation, Close, ledgerVars, queueVars
  <2>2. admission' \in Seq(OpenCall \cup {Barrier})
    BY <1>4, AppendProperties DEF EndSaturation, Close, queueVars, CallTyped
  <2> QED
    BY <2>1, <2>2 DEF DiskTyped, UploadTyped, CallTyped, diskVars,
                      uploadVars, callVars
<1>5. CASE PassBarrier
  <2>1. UNCHANGED <<diskVars, uploadVars, seen, state, callVars>>
    BY <1>5 DEF PassBarrier, ledgerVars
  <2>2. admission' \in Seq(OpenCall \cup {Barrier})
    BY <1>5, HeadTailProperties DEF PassBarrier, LeaveAdmission, CallTyped
  <2> QED
    BY <2>1, <2>2 DEF DiskTyped, UploadTyped, CallTyped, diskVars,
                      uploadVars, callVars
<1>6. CASE Exit \/ Crash
  <2>1. LoseMemory
    BY <1>6 DEF Exit, Crash
  <2> QED
    BY <2>1 DEF LoseMemory, DiskTyped, UploadTyped, CallTyped, callVars,
                Version, OpenCall
<1> QED
  BY <1>1, <1>2, <1>3, <1>4, <1>5, <1>6 DEF AroundStep

\* What a command sends, and what it does with an answer.
LEMMA CallSent ==
  ASSUME Typed, NEW o \in Op, ClientStep(o)
  PROVE  /\ wire' = wire \/ \E c \in Call : wire' = wire \cup {c}
         /\ \/ awaits' = awaits
            \/ \E c \in Call \cup {NoCall} : awaits' = [awaits EXCEPT ![o] = c]
         /\ \E r \in Reply : reply' = [reply EXCEPT ![o] = r]
<1>1. /\ "none" \in Reply /\ "lost" \in Reply
      /\ awaits[o].n \in Nat /\ Index(awaits[o]) \in Nat
  BY DEF Typed, CallTyped, Reply, Call, NoCall, Index
<1>2. ASSUME NEW verb \in {"mutate", "open", "chunk", "commit", "status"},
             NEW n \in Nat, Send(o, verb, n)
      PROVE  /\ \E c \in Call : wire' = wire \cup {c}
             /\ \E c \in Call \cup {NoCall} :
                  awaits' = [awaits EXCEPT ![o] = c]
             /\ \E r \in Reply : reply' = [reply EXCEPT ![o] = r]
  <2>1. [op |-> o, verb |-> verb, n |-> n] \in Call
    BY DEF Call
  <2> QED
    BY <1>1, <1>2, <2>1 DEF Send
<1>3. ASSUME NEW v, Decide(o, v)
      PROVE  /\ wire' = wire \/ \E c \in Call : wire' = wire \cup {c}
             /\ \E c \in Call \cup {NoCall} :
                  awaits' = [awaits EXCEPT ![o] = c]
             /\ \E r \in Reply : reply' = [reply EXCEPT ![o] = r]
  <2>1. [op |-> o, verb |-> "cancel", n |-> 0] \in Call
    BY DEF Call
  <2> QED
    BY <1>1, <1>3, <2>1 DEF Decide
<1>4. CASE GiveUpWaiting(o)
  BY <1>1, <1>4 DEF GiveUpWaiting
<1>5. CASE ~GiveUpWaiting(o)
  <2>1. \/ \E verb \in {"mutate", "open", "chunk", "commit", "status"},
             n \in Nat : Send(o, verb, n)
        \/ \E v : Decide(o, v)
    <3>1. /\ awaits[o].n + 1 \in Nat /\ 2 * Index(awaits[o]) + 1 \in Nat
          /\ 0 \in Nat /\ 1 \in Nat
      BY <1>1
    <3> QED
      BY <1>5, <3>1 DEF ClientStep, Begin, HearMutation, HearStatus,
                        HearOpen, HearChunk
  <2> QED
    BY <1>2, <1>3, <2>1
<1> QED
  BY <1>4, <1>5

\* A step of a command sends at most one call, and leaves the daemon alone.
LEMMA ClientTyped ==
  ASSUME Typed, OpenInv, ClientNext
  PROVE  Typed' /\ OpenInv'
<1>1. UNCHANGED <<diskVars, ledgerVars, uploadVars, queueVars>>
  BY DEF ClientNext
<1>2. DiskTyped' /\ UploadTyped' /\ QueueTyped' /\ OpenInv'
  BY <1>1 DEF Typed, OpenInv, DiskTyped, UploadTyped, QueueTyped, diskVars,
              ledgerVars, uploadVars, queueVars, Holder, At
<1>3. PICK o \in Op : ClientStep(o)
  BY DEF ClientNext
<1>4. /\ wire' = wire \/ \E c \in Call : wire' = wire \cup {c}
      /\ \/ awaits' = awaits
         \/ \E c \in Call \cup {NoCall} : awaits' = [awaits EXCEPT ![o] = c]
      /\ \E r \in Reply : reply' = [reply EXCEPT ![o] = r]
  BY <1>3, CallSent
<1>5. CallTyped'
  BY <1>1, <1>4 DEF Typed, CallTyped, queueVars
<1> QED
  BY <1>2, <1>5 DEF Typed

-----------------------------------------------------------------------------
(* One open at a time.                                                     *)

\* No open is queued when the head of the admission chain has not got there.
LEMMA NoOpenQueued ==
  ASSUME Typed, OpenInv, admission # <<>>,
         Head(admission) = Barrier \/ ~AtLock(Head(admission)),
         NEW t \in Target, NEW i \in DOMAIN locks[t]
  PROVE  locks[t][i].verb # "open"
<1> SUFFICES ASSUME locks[t][i].verb = "open" PROVE FALSE
  OBVIOUS
<1>1. Head(admission) = locks[t][i] /\ At(locks[t][i].op) = t
  BY DEF OpenInv, Typed, QueueTyped
<1>2. Head(admission) # Barrier
  BY <1>1 DEF Barrier
<1> QED
  BY <1>1, <1>2 DEF AtLock

\* A call that is no open leaves the opens where they are.
LEMMA QueuedBehind ==
  ASSUME Typed, OpenInv, NEW c \in Call, c.verb # "open", Queue(c),
         admission # <<>> =>
           admission' # <<>> /\ Head(admission') = Head(admission)
  PROVE  OpenInv'
<1> DEFINE t == At(c.op)
<1>1. /\ QueueTyped /\ plan \in Plans
  BY DEF Typed, DiskTyped
<1>2. /\ \A u \in Target : u # t => locks'[u] = locks[u]
      /\ \A i \in DOMAIN locks[t] : locks'[t][i] = locks[t][i]
      /\ locks'[t][Len(locks[t]) + 1] = c
      /\ \A i \in DOMAIN locks'[t] :
           i \in DOMAIN locks[t] \/ i = Len(locks[t]) + 1
  BY <1>1, QueueFacts
<1> HIDE DEF t
<1>3. ASSUME NEW u \in Target, NEW i \in DOMAIN locks'[u],
             locks'[u][i].verb = "open"
      PROVE  i \in DOMAIN locks[u] /\ locks'[u][i] = locks[u][i]
  BY <1>2, <1>3
<1> QED
  BY <1>3 DEF OpenInv

\* A request that arrives leaves one open at a time.
LEMMA ArrivalKeepsOpens ==
  ASSUME Typed, OpenInv, NEW c \in wire,
         \/ ArriveMutation(c) \/ ArriveStatus(c) \/ ArriveOpen(c)
         \/ ArriveTransfer(c) \/ ArriveCancel(c)
  PROVE  OpenInv'
<1>1. admission # <<>> => admission' # <<>> /\ Head(admission') = Head(admission)
  <2>1. admission' = admission \/ admission' = Append(admission, c)
    BY DEF ArriveMutation, ArriveStatus, ArriveOpen, ArriveTransfer,
           ArriveCancel, queueVars
  <2>2. admission \in Seq(OpenCall \cup {Barrier}) /\ c \in Call
    BY DEF Typed, CallTyped
  <2> QED
    BY <2>1, <2>2
<1>2. CASE locks' = locks
  BY <1>1, <1>2 DEF OpenInv
<1>3. CASE c.verb # "open" /\ Queue(c)
  BY <1>1, <1>3, QueuedBehind DEF Typed, CallTyped
<1>4. locks' = locks \/ (c.verb # "open" /\ Queue(c))
  BY DEF ArriveMutation, ArriveStatus, ArriveOpen, ArriveTransfer,
         ArriveCancel, queueVars
<1> QED
  BY <1>2, <1>3, <1>4
\* When an open ends there is none left.
LEMMA OpenReleased ==
  ASSUME Typed, OpenInv, NEW t \in Target, locks[t] # <<>>, Release(t),
         Holder(t).verb = "open",
         NEW u \in Target, NEW i \in DOMAIN locks'[u]
  PROVE  locks'[u][i].verb # "open"
<1> SUFFICES ASSUME locks'[u][i].verb = "open" PROVE FALSE
  OBVIOUS
<1>1. QueueTyped /\ 1 \in DOMAIN locks[t] /\ Holder(t) = locks[t][1]
  BY HolderFacts DEF Typed
<1>2. /\ \A v \in Target : v # t => locks'[v] = locks[v]
      /\ DOMAIN locks'[t] = 1..(Len(locks[t]) - 1)
      /\ \A j \in DOMAIN locks'[t] : /\ j + 1 \in DOMAIN locks[t]
                                     /\ locks'[t][j] = locks[t][j + 1]
  BY <1>1, ReleaseFacts
<1>3. CASE u = t
  <2>1. i + 1 \in DOMAIN locks[t] /\ locks[t][i + 1].verb = "open"
    BY <1>2, <1>3
  <2>2. i + 1 = 1 /\ i \in 1..(Len(locks[t]) - 1)
    BY <1>1, <1>2, <1>3, <2>1 DEF OpenInv
  <2> QED
    BY <2>2
<1>4. CASE u # t
  <2>1. i \in DOMAIN locks[u] /\ locks[u][i].verb = "open"
    BY <1>2, <1>4
  <2>2. locks[u][i] = locks[t][1]
    BY <1>1, <2>1 DEF OpenInv
  <2> QED
    BY <1>1, <1>4, <2>1, <2>2 DEF QueueTyped
<1> QED
  BY <1>3, <1>4

\* The holder of a target leaves one open at a time.
LEMMA LockKeepsOpens ==
  ASSUME Typed, OpenInv, NEW t \in Target,
         DaemonLock(t) \/ FailMutation(t) \/ FailOpen(t)
  PROVE  OpenInv'
<1>1. /\ QueueTyped /\ locks[t] # <<>>
      /\ Release(t) \/ locks' = locks \/ LoseMemory
  BY LockSteps DEF Typed, Advance
<1>2. 1 \in DOMAIN locks[t] /\ Holder(t) = locks[t][1]
  BY <1>1, HolderFacts
<1>3. \/ admission' = admission /\ (Release(t) => Holder(t).verb # "open")
      \/ Release(t) /\ Holder(t).verb = "open"
      \/ LoseMemory
  BY DEF DaemonLock, TakeBaseline, LookAgain, TakeEffect, GiveUp,
     OpenTemporary, PublishUpload, TakeChunk, CheckCommit, CommitUpload,
     CancelUpload, ExpiryKills, FailMutation, FailOpen, EndOpen,
     FailedCommit, Holds, Release, Advance
<1>4. CASE LoseMemory
  BY <1>4 DEF LoseMemory, OpenInv
<1>5. CASE Release(t)
  <2>1. /\ \A u \in Target : u # t => locks'[u] = locks[u]
        /\ DOMAIN locks'[t] = 1..(Len(locks[t]) - 1)
        /\ \A i \in DOMAIN locks'[t] : /\ i + 1 \in DOMAIN locks[t]
                                       /\ locks'[t][i] = locks[t][i + 1]
    BY <1>1, <1>5, ReleaseFacts
  <2>2. CASE Holder(t).verb = "open"
    BY <1>1, <1>5, <2>2, OpenReleased DEF OpenInv
  <2>3. CASE Holder(t).verb # "open"
    <3>1. admission' = admission \/ LoseMemory
      BY <1>3, <2>3
    <3>2. ASSUME admission' = admission, NEW u \in Target,
                 NEW i \in DOMAIN locks'[u], locks'[u][i].verb = "open"
          PROVE  /\ admission' # <<>> /\ Head(admission') = locks'[u][i]
                 /\ \A j \in DOMAIN locks'[u] :
                      locks'[u][j].verb = "open" => j = i
      <4>1. CASE u # t
        BY <2>1, <3>2, <4>1 DEF OpenInv
      <4>2. CASE u = t
        <5>1. /\ i + 1 \in DOMAIN locks[t] /\ locks'[t][i] = locks[t][i + 1]
              /\ i \in Nat
          BY <2>1, <3>2, <4>2
        <5>2. /\ admission # <<>> /\ Head(admission) = locks[t][i + 1]
              /\ \A j \in DOMAIN locks[t] :
                   locks[t][j].verb = "open" => j = i + 1
          BY <3>2, <4>2, <5>1 DEF OpenInv
        <5>3. ASSUME NEW j \in DOMAIN locks'[t], locks'[t][j].verb = "open"
              PROVE  j = i
          <6>1. j + 1 \in DOMAIN locks[t] /\ locks[t][j + 1].verb = "open"
                /\ j \in Nat
            BY <2>1, <5>3
          <6>2. j + 1 = i + 1
            BY <5>2, <6>1
          <6> QED
            BY <5>1, <6>1, <6>2
        <5> QED
          BY <3>2, <4>2, <5>1, <5>2, <5>3
      <4> QED
        BY <4>1, <4>2
    <3> QED
      BY <1>4, <3>1, <3>2 DEF OpenInv
  <2> QED
    BY <2>2, <2>3
<1>6. CASE locks' = locks /\ ~Release(t) /\ ~LoseMemory
  BY <1>3, <1>6 DEF OpenInv
<1> QED
  BY <1>1, <1>4, <1>5, <1>6

\* The steps around the targets leave one open at a time.
LEMMA AroundKeepsOpens ==
  ASSUME Typed, OpenInv, AroundStep
  PROVE  OpenInv'
<1> USE DEF queueVars
<1>1. QueueTyped /\ DiskTyped /\ UploadTyped /\ CallTyped /\ plan \in Plans
  BY DEF Typed, DiskTyped
<1>2. ASSUME NEW t \in Target, AlienWrite(t) PROVE OpenInv'
  BY <1>2 DEF AlienWrite, OpenInv
<1>3. ASSUME NEW o \in Op, Expire(o) PROVE OpenInv'
  <2> DEFINE c == [op |-> o, verb |-> "expire", n |-> 0]
  <2>1. c \in Call /\ c.verb # "open" /\ Queue(c) /\ admission' = admission
    BY <1>3 DEF Expire, Call
  <2> QED
    BY <2>1, QueuedBehind
<1>4. CASE Admit
  <2>1. \A u \in Target : \A i \in DOMAIN locks[u] : locks[u][i].verb # "open"
    BY <1>4, NoOpenQueued DEF Admit
  <2>2. CASE locks' = locks
    BY <2>1, <2>2 DEF OpenInv
  <2>3. CASE Queue(Head(admission)) /\ admission' = admission
    <3> DEFINE c == Head(admission)
    <3>1. c \in OpenCall /\ c \in Call
      BY <1>1, <1>4, HeadTailProperties DEF Admit, CallTyped, OpenCall
    <3>2. /\ \A u \in Target : u # At(c.op) => locks'[u] = locks[u]
          /\ \A i \in DOMAIN locks[At(c.op)] :
               locks'[At(c.op)][i] = locks[At(c.op)][i]
          /\ locks'[At(c.op)][Len(locks[At(c.op)]) + 1] = c
          /\ \A i \in DOMAIN locks'[At(c.op)] :
               i \in DOMAIN locks[At(c.op)] \/ i = Len(locks[At(c.op)]) + 1
          /\ At(c.op) \in Target
      BY <1>1, <2>3, <3>1, QueueFacts
    <3> HIDE DEF c
    <3>3. ASSUME NEW u \in Target, NEW i \in DOMAIN locks'[u],
                 locks'[u][i].verb = "open"
          PROVE  /\ locks'[u][i] = c /\ u = At(c.op)
                 /\ i = Len(locks[At(c.op)]) + 1
      BY <2>1, <3>2, <3>3
    <3> QED
      BY <1>4, <2>3, <3>3 DEF OpenInv, Admit, c
  <2> QED
    BY <1>4, <2>2, <2>3 DEF Admit
<1>5. CASE PassBarrier
  <2>1. \A u \in Target : \A i \in DOMAIN locks[u] : locks[u][i].verb # "open"
    BY <1>5, NoOpenQueued DEF PassBarrier
  <2>2. \A u \in Target : \A i \in DOMAIN locks'[u] : locks'[u][i].verb # "open"
    BY <1>1, <1>5, <2>1, BarrierFacts
  <2> QED
    BY <2>2 DEF OpenInv
<1>6. CASE Close
  <2>1. admission \in Seq(OpenCall \cup {Barrier})
        /\ admission' = Append(admission, Barrier) /\ locks' = locks
    BY <1>1, <1>6 DEF Close, CallTyped
  <2>2. admission # <<>> =>
          admission' # <<>> /\ Head(admission') = Head(admission)
    BY <2>1
  <2> QED
    BY <2>1, <2>2 DEF OpenInv
<1>7. CASE EndSaturation \/ \E o \in Op : ForgetTombstone(o)
  BY <1>7 DEF EndSaturation, ForgetTombstone, OpenInv
<1>8. CASE Exit \/ Crash
  BY <1>8 DEF Exit, Crash, LoseMemory, OpenInv
<1> QED
  BY <1>2, <1>3, <1>4, <1>5, <1>6, <1>7, <1>8 DEF AroundStep

\* Every step keeps the types and the order of the opens.
LEMMA DaemonTyped ==
  ASSUME Typed, OpenInv, DaemonNext
  PROVE  Typed' /\ OpenInv'
<1>1. ASSUME NEW c \in wire,
             \/ ArriveMutation(c) \/ ArriveStatus(c) \/ ArriveOpen(c)
             \/ ArriveTransfer(c) \/ ArriveCancel(c)
      PROVE  Typed' /\ OpenInv'
  BY <1>1, ArrivalTyped, ArrivalKeepsQueues, ArrivalKeepsOpens DEF Typed
<1>2. ASSUME NEW t \in Target,
             DaemonLock(t) \/ FailMutation(t) \/ FailOpen(t)
      PROVE  Typed' /\ OpenInv'
  BY <1>2, LockTyped, LockKeepsQueues, LockKeepsOpens DEF Typed
<1>3. CASE AroundStep
  BY <1>3, AroundTyped, AroundKeepsQueues, AroundKeepsOpens DEF Typed
<1> QED
  BY <1>1, <1>2, <1>3 DEF DaemonNext, AroundStep

\* Every step keeps the types and one open at a time.
LEMMA TypedKept ==
  ASSUME Typed, OpenInv, [Next]_allVars
  PROVE  Typed' /\ OpenInv'
<1>1. CASE UNCHANGED allVars
  BY <1>1 DEF allVars, vars, diskVars, ledgerVars, uploadVars, queueVars,
     callVars, Typed, OpenInv, DiskTyped, UploadTyped, CallTyped, QueueTyped,
     Holder, At
<1> QED
  BY <1>1, ClientTyped, DaemonTyped DEF Next

\* They hold in the first state.
LEMMA TypedFirst ==
  ASSUME Init
  PROVE  Typed /\ OpenInv
<1>1. plan \in Plan
  BY FilesystemAssumption DEF Init, FilesystemInit, FilesystemAssumption
<1>2. file \in [Target -> Version]
  BY <1>1 DEF Init, FilesystemInit, Plan, Version
<1> QED
  BY <1>2 DEF Init, FilesystemInit, Memory, Typed, OpenInv, DiskTyped,
     UploadTyped, CallTyped, QueueTyped, Version, Reply

\* Every operation, call and queue keeps its kind, calls wait where their
\* operation is aimed, and one open at a time is on its way to its lock.
THEOREM FilesystemTyped == Spec => [](Typed /\ OpenInv)
<1>1. Init => Typed /\ OpenInv
  BY TypedFirst
<1>2. Typed /\ OpenInv /\ [Next]_allVars => (Typed /\ OpenInv)'
  BY TypedKept
<1> QED
  BY <1>1, <1>2, PTL DEF Spec

-----------------------------------------------------------------------------
(* What a cancel promises.                                                 *)

\* A tombstone is left for an operation that is not open, and an open looks
\* at the tombstones in the same step in which it publishes.
LEMMA TombstonesKept ==
  ASSUME TombstoneHolds, [Next]_allVars
  PROVE  TombstoneHolds'
<1> USE DEF TombstoneHolds, uploadVars, cancelVars
<1>1. CASE ClientNext
  BY <1>1 DEF ClientNext
<1>2. ASSUME NEW c \in wire,
             \/ ArriveMutation(c) \/ ArriveStatus(c) \/ ArriveOpen(c)
             \/ ArriveTransfer(c) \/ ArriveCancel(c)
      PROVE  TombstoneHolds'
  BY <1>2 DEF ArriveMutation, ArriveStatus, ArriveOpen, ArriveTransfer,
              ArriveCancel, NothingToCancel, LeaveTombstone
<1>3. ASSUME NEW t \in Target,
             DaemonLock(t) \/ FailMutation(t) \/ FailOpen(t)
      PROVE  TombstoneHolds'
  BY <1>3 DEF DaemonLock, TakeBaseline, LookAgain, TakeEffect, GiveUp,
     OpenTemporary, PublishUpload, Unwanted, TakeChunk, CheckCommit,
     CommitUpload, FailedCommit, Drop, CancelUpload, NothingToCancel,
     LeaveTombstone, ExpiryKills, LoseMemory, FailMutation, FailOpen
<1>4. CASE AroundStep
  BY <1>4 DEF AroundStep, AlienWrite, Expire, ForgetTombstone, Admit,
     EndSaturation, Close, PassBarrier, Exit, Crash, LoseMemory
<1>5. CASE UNCHANGED allVars
  BY <1>5 DEF allVars, vars
<1> QED
  BY <1>1, <1>2, <1>3, <1>4, <1>5 DEF Next, DaemonNext, AroundStep

\* A cancelled upload is not opened by a late open while its tombstone stands,
\* wherever the open was when the cancel overtook it (cancelUpload(), and the
\* looks of openUpload() at cancelledUploads).
THEOREM TombstonesHold == Spec => []TombstoneHolds
<1>1. Init => TombstoneHolds
  BY DEF Init, FilesystemInit, Memory, TombstoneHolds
<1>2. TombstoneHolds /\ [Next]_allVars => TombstoneHolds'
  BY TombstonesKept
<1> QED
  BY <1>1, <1>2, PTL DEF Spec
-----------------------------------------------------------------------------
(* Who owns what is left lying about.                                      *)

\* An open was let in because there was room, and nobody else takes it while
\* the open is on its way: there is one.
RoomInv ==
  /\ Cardinality(live) <= plan.uploads
  /\ \A t \in Target : \A i \in DOMAIN locks[t] :
       locks[t][i].verb = "open" => Cardinality(live) < plan.uploads

\* A temporary file is of an open upload, or of a holder that has prepared
\* its effect.
TempsInv ==
  \A op \in temps :
    \/ op \in live
    \/ /\ locks[At(op)] # <<>> /\ Holder(At(op)).op = op
       /\ stage[At(op)] # "wait"

\* Reservations and open uploads name each other; an open that has its
\* temporary file found the destination free, and it stays free.
ReservedInv ==
  /\ \A t \in Target : reserved[t] # Nobody
       => reserved[t] \in live /\ At(reserved[t]) = t
  /\ \A op \in live : reserved[At(op)] = op
  /\ \A t \in Target :
       stage[t] = "based" /\ Holder(t).verb = "open" => reserved[t] = Nobody

\* An open upload has its timer, or the timer's cancel is in the queue.
ExpiryQueued(op) == \E i \in DOMAIN locks[At(op)] :
                       /\ locks[At(op)][i].op = op
                       /\ locks[At(op)][i].verb = "expire"
ArmedInv == \A op \in live : op \in armed \/ ExpiryQueued(op)

OwnInv == RoomInv /\ TempsInv /\ ReservedInv /\ ArmedInv

\* What the holders of locks do not do leaves the queues as they were, but
\* for what is queued behind; the holders stay.
Extended(t) ==
  /\ stage'[t] = stage[t]
  /\ \A i \in DOMAIN locks[t] : i \in DOMAIN locks'[t]
                                /\ locks'[t][i] = locks[t][i]
  /\ locks[t] # <<>> => locks'[t] # <<>> /\ Holder(t)' = Holder(t)

OuterStep ==
  \/ ClientNext \/ AroundStep \/ UNCHANGED allVars
  \/ \E c \in wire : \/ ArriveMutation(c) \/ ArriveStatus(c) \/ ArriveOpen(c)
                     \/ ArriveTransfer(c) \/ ArriveCancel(c)

\* Joining the queue of a target adds one request at its end.
LEMMA QueueExtends ==
  ASSUME QueueTyped, plan \in Plans, NEW c \in Call, Queue(c), stage' = stage,
         NEW t \in Target
  PROVE  /\ Extended(t)
         /\ \A i \in DOMAIN locks'[t] :
              i \in DOMAIN locks[t] \/ locks'[t][i] = c
<1>1. /\ \A u \in Target : u # At(c.op) => locks'[u] = locks[u]
      /\ \A i \in DOMAIN locks[At(c.op)] :
           i \in DOMAIN locks'[At(c.op)]
           /\ locks'[At(c.op)][i] = locks[At(c.op)][i]
      /\ locks'[At(c.op)][Len(locks[At(c.op)]) + 1] = c
      /\ \A i \in DOMAIN locks'[At(c.op)] :
           i \in DOMAIN locks[At(c.op)] \/ i = Len(locks[At(c.op)]) + 1
      /\ \A u \in Target : locks[u] # <<>> =>
           locks'[u] # <<>> /\ Head(locks'[u]) = Head(locks[u])
  BY QueueFacts
<1> QED
  BY <1>1 DEF Extended, Holder

\* Such a step leaves the uploads alone; who queues for the first time is no
\* open, or an open for which there is room.
LEMMA OuterLeaves ==
  ASSUME Typed, OuterStep, ~LoseMemory
  PROVE  plan' = plan /\ UNCHANGED <<temps, applied, live, reserved, seen, stage>>
BY DEF OuterStep, ClientNext, AroundStep, ArriveMutation, ArriveStatus,
   ArriveOpen, ArriveTransfer, ArriveCancel, AlienWrite, Expire,
   ForgetTombstone, Admit, EndSaturation, Close, PassBarrier, Exit, Crash,
   allVars, vars, diskVars, uploadVars, queueVars

\* The steps that do not hold a target add at the end of its queue only,
\* and no open while the uploads are full.
LEMMA OuterSteps ==
  ASSUME Typed, OpenInv, OuterStep, ~LoseMemory, NEW t \in Target
  PROVE  /\ Extended(t)
         /\ \A i \in DOMAIN locks'[t] :
              i \in DOMAIN locks[t] \/ locks'[t][i].verb # "open" \/ ~Full
<1> USE DEF diskVars, uploadVars, queueVars
<1>1. QueueTyped /\ DiskTyped /\ UploadTyped /\ CallTyped /\ plan \in Plans
  BY DEF Typed, DiskTyped
<1>2. plan' = plan /\ stage' = stage
  BY OuterLeaves
<1>3. CASE locks' = locks
  BY <1>2, <1>3 DEF Extended, Holder
<1>4. ASSUME NEW c \in wire, c.verb # "open", Queue(c)
      PROVE  /\ Extended(t)
             /\ \A i \in DOMAIN locks'[t] :
                  i \in DOMAIN locks[t] \/ locks'[t][i].verb # "open"
  <2>1. c \in Call
    BY <1>1 DEF CallTyped
  <2> QED
    BY <1>1, <1>2, <1>4, <2>1, QueueExtends
<1>5. ASSUME NEW o \in Op, Expire(o)
      PROVE  /\ Extended(t)
             /\ \A i \in DOMAIN locks'[t] :
                  i \in DOMAIN locks[t] \/ locks'[t][i].verb # "open"
  <2> DEFINE c == [op |-> o, verb |-> "expire", n |-> 0]
  <2>1. c \in Call /\ c.verb # "open" /\ Queue(c)
    BY <1>5 DEF Expire, Call
  <2> QED
    BY <1>1, <1>2, <2>1, QueueExtends
<1>6. CASE Admit /\ Queue(Head(admission))
  <2>1. Head(admission) \in Call
    BY <1>1, <1>6, HeadTailProperties DEF Admit, CallTyped, OpenCall
  <2>2. locks' # locks
    <3>1. /\ At(Head(admission).op) \in Target
          /\ Len(locks'[At(Head(admission).op)])
               = Len(locks[At(Head(admission).op)]) + 1
      BY <1>1, <1>6, <2>1, QueueFacts
    <3>2. Len(locks[At(Head(admission).op)]) \in Nat
      BY <1>1, <3>1 DEF QueueTyped
    <3> QED
      BY <3>1, <3>2
  <2>3. Inadmissible(Head(admission).op) = "none"
    BY <1>6, <2>2 DEF Admit
  <2>4. ~Full
    <3>1. Replay(Head(admission).op) # "none"
      BY <1>1, <2>1, ReplayTyped DEF Call, Outcome
    <3> QED
      BY <2>3, <3>1 DEF Inadmissible
  <2> QED
    BY <1>1, <1>2, <1>6, <2>1, <2>4, QueueExtends
<1>7. CASE PassBarrier
  <2>1. /\ \A i \in DOMAIN locks[t] : i \in DOMAIN locks'[t]
                                      /\ locks'[t][i] = locks[t][i]
        /\ \A i \in DOMAIN locks'[t] :
             i \in DOMAIN locks[t] \/ locks'[t][i].verb = "expire"
        /\ locks[t] # <<>> =>
             locks'[t] # <<>> /\ Head(locks'[t]) = Head(locks[t])
    BY <1>1, <1>7, BarrierFacts
  <2> QED
    BY <1>2, <2>1 DEF Extended, Holder
<1>8. \/ locks' = locks \/ PassBarrier
      \/ \E c \in wire : c.verb # "open" /\ Queue(c)
      \/ \E o \in Op : Expire(o)
      \/ Admit /\ Queue(Head(admission))
  BY DEF OuterStep, ClientNext, AroundStep, ArriveMutation, ArriveStatus,
     ArriveOpen, ArriveTransfer, ArriveCancel, AlienWrite,
     ForgetTombstone, Admit, EndSaturation, Close, Exit, Crash,
     allVars, vars
<1> QED
  BY <1>3, <1>4, <1>5, <1>6, <1>7, <1>8

\* The steps that do not hold a target keep what is owned.
LEMMA OuterKeepsOwners ==
  ASSUME Typed, OpenInv, OwnInv, OuterStep, ~LoseMemory
  PROVE  OwnInv'
<1>1. /\ plan' = plan
      /\ UNCHANGED <<temps, live, reserved>>
      /\ QueueTyped /\ UploadTyped /\ DiskTyped
  BY OuterLeaves DEF Typed
<1>2. \A t \in Target :
        /\ Extended(t)
        /\ \A i \in DOMAIN locks'[t] :
             i \in DOMAIN locks[t] \/ locks'[t][i].verb # "open" \/ ~Full
  BY OuterSteps
<1>3. \A o \in Op : At(o) \in Target /\ At(o)' = At(o)
  BY <1>1, Asked DEF At, DiskTyped
<1>4. RoomInv'
  <2>1. ASSUME NEW t \in Target, NEW i \in DOMAIN locks'[t],
               locks'[t][i].verb = "open"
        PROVE  Cardinality(live) < plan.uploads
    <3>1. CASE i \in DOMAIN locks[t]
      BY <1>2, <2>1, <3>1 DEF OwnInv, RoomInv, Extended
    <3>2. CASE ~Full
      <4>1. Cardinality(live) \in Nat /\ plan.uploads \in Nat
        <5>1. IsFiniteSet(live)
          BY <1>1, FS_Subset, FilesystemAssumption
          DEF UploadTyped, FilesystemAssumption
        <5> QED
          BY <1>1, <5>1, FS_CardinalityType, FilesystemAssumption
          DEF DiskTyped, FilesystemAssumption, Plan
      <4> QED
        BY <3>2, <4>1 DEF Full
    <3> QED
      BY <1>2, <2>1, <3>1, <3>2
  <2> QED
    BY <1>1, <2>1 DEF OwnInv, RoomInv
<1>5. TempsInv'
  BY <1>1, <1>2, <1>3 DEF OwnInv, TempsInv, Extended, DiskTyped
<1>6. ReservedInv'
  <2>1. \A t \in Target : stage[t] = "based" => locks[t] # <<>>
    BY <1>1 DEF QueueTyped
  <2> QED
    BY <1>1, <1>2, <1>3, <2>1 DEF OwnInv, ReservedInv, Extended, UploadTyped
<1>7. ArmedInv'
  <2>1. ASSUME NEW op \in live
        PROVE  op \in armed' \/ ExpiryQueued(op)'
    <3>1. /\ op \in Op /\ At(op)' = At(op) /\ At(op) \in Target
          /\ Extended(At(op))
      BY <1>1, <1>2, <1>3 DEF UploadTyped
    <3>2. ExpiryQueued(op) => ExpiryQueued(op)'
      BY <3>1 DEF ExpiryQueued, Extended
    <3>3. op \in armed => op \in armed' \/ Expire(op)
      BY DEF OuterStep, ClientNext, AroundStep, ArriveMutation,
         ArriveStatus, ArriveOpen, ArriveTransfer, ArriveCancel, AlienWrite,
         Expire, ForgetTombstone, Admit, EndSaturation, Close, PassBarrier,
         Exit, Crash, allVars, vars, uploadVars, LoseMemory
    <3>4. CASE Expire(op)
      <4> DEFINE c == [op |-> op, verb |-> "expire", n |-> 0]
      <4>1. c \in Call /\ Queue(c)
        BY <3>1, <3>4 DEF Call, Expire
      <4>2. /\ locks'[At(c.op)][Len(locks[At(c.op)]) + 1] = c
            /\ DOMAIN locks'[At(c.op)] = 1..(Len(locks[At(c.op)]) + 1)
        BY <1>1, <4>1, QueueFacts DEF DiskTyped
      <4>3. Len(locks[At(op)]) \in Nat
        BY <1>1, <3>1 DEF QueueTyped
      <4> QED
        BY <3>1, <4>2, <4>3 DEF ExpiryQueued
    <3> QED
      BY <3>2, <3>3, <3>4 DEF OwnInv, ArmedInv
  <2> QED
    BY <1>1, <2>1 DEF ArmedInv
<1> QED
  BY <1>4, <1>5, <1>6, <1>7 DEF OwnInv

\* The holder of a lock, by what it does to the uploads: it may drop its own
\* or publish it, and nothing else.
LEMMA HolderDrops ==
  ASSUME Typed, NEW t \in Target, ~LoseMemory,
         DaemonLock(t) \/ FailMutation(t) \/ FailOpen(t)
  PROVE  \/ UNCHANGED <<live, reserved>> /\ armed \subseteq armed'
         \/ Drop(Holder(t).op) /\ Release(t)
         \/ /\ PublishUpload(t) /\ Release(t) /\ ~Unwanted(Holder(t).op)
            /\ live' = live \cup {Holder(t).op}
            /\ armed' = armed \cup {Holder(t).op}
            /\ reserved' = [reserved EXCEPT ![t] = Holder(t).op]
<1> USE DEF uploadVars
<1>1. CASE PublishUpload(t)
  BY <1>1 DEF PublishUpload, ArmUpload, EndOpen
<1>2. CASE TakeChunk(t)
  BY <1>2 DEF TakeChunk, ArmUpload
<1>3. CASE CheckCommit(t) \/ CommitUpload(t) \/ CancelUpload(t)
  BY <1>3 DEF CheckCommit, CommitUpload, CancelUpload, FailedCommit
<1>4. CASE TakeBaseline(t) \/ LookAgain(t) \/ TakeEffect(t)
           \/ OpenTemporary(t) \/ FailMutation(t) \/ FailOpen(t)
  BY <1>4 DEF TakeBaseline, LookAgain, TakeEffect, GiveUp, OpenTemporary,
     EndOpen, FailMutation, FailOpen
<1> QED
  BY <1>1, <1>2, <1>3, <1>4 DEF DaemonLock, ExpiryKills
\* The queues after a step of a holder.
LEMMA LockQueues ==
  ASSUME Typed, NEW t \in Target, ~LoseMemory,
         DaemonLock(t) \/ FailMutation(t) \/ FailOpen(t)
  PROVE  /\ plan' = plan /\ locks[t] # <<>>
         /\ \A u \in Target : u # t => /\ locks'[u] = locks[u]
                                       /\ stage'[u] = stage[u]
         /\ \/ /\ Release(t) /\ stage'[t] = "wait"
               /\ 1 \in DOMAIN locks[t] /\ Holder(t) = locks[t][1]
               /\ Len(locks[t]) \in Nat /\ DOMAIN locks[t] = 1..Len(locks[t])
               /\ DOMAIN locks'[t] = 1..(Len(locks[t]) - 1)
               /\ \A i \in DOMAIN locks'[t] :
                    i + 1 \in DOMAIN locks[t] /\ locks'[t][i] = locks[t][i + 1]
            \/ /\ locks' = locks /\ stage'[t] # "wait"
               /\ \/ Advance(t, "based") /\ Holder(t).verb \in {"mutate", "open"}
                  \/ Advance(t, "sure") /\ Holder(t).verb # "open"
<1>1. /\ plan' = plan /\ locks[t] # <<>> /\ QueueTyped
      /\ \/ Release(t)
         \/ Advance(t, "based") /\ Holder(t).verb \in {"mutate", "open"}
         \/ Advance(t, "sure") /\ Holder(t).verb \in {"mutate", "commit"}
  BY LockSteps DEF Typed
<1>2. CASE Release(t)
  <2>1. locks[t] \in Seq(Call)
    BY <1>1 DEF QueueTyped
  <2> QED
    BY <1>1, <1>2, <2>1, ReleaseFacts, HolderFacts
<1>3. CASE Advance(t, "based") /\ Holder(t).verb \in {"mutate", "open"}
  BY <1>1, <1>3 DEF Advance, QueueTyped
<1>4. CASE Advance(t, "sure") /\ Holder(t).verb \in {"mutate", "commit"}
  BY <1>1, <1>4 DEF Advance, QueueTyped
<1> QED
  BY <1>1, <1>2, <1>3, <1>4

\* The holder of a target keeps the uploads within their number.
LEMMA HoldersKeepRoom ==
  ASSUME Typed, OpenInv, OwnInv, NEW t \in Target, ~LoseMemory,
         DaemonLock(t) \/ FailMutation(t) \/ FailOpen(t)
  PROVE  RoomInv'
<1>1. /\ IsFiniteSet(live) /\ Cardinality(live) \in Nat
      /\ plan.uploads \in Nat /\ plan' = plan
  <2>1. IsFiniteSet(live)
    BY FS_Subset, FilesystemAssumption
    DEF Typed, UploadTyped, FilesystemAssumption
  <2> QED
    BY <2>1, FS_CardinalityType, FilesystemAssumption, LockQueues
    DEF Typed, DiskTyped, FilesystemAssumption, Plan
<1>2. CASE PublishUpload(t) /\ Release(t)
  <2>1. 1 \in DOMAIN locks[t] /\ locks[t][1].verb = "open"
    BY <1>2, HolderFacts DEF PublishUpload, Holds, Typed
  <2>2. Cardinality(live) < plan.uploads
    BY <2>1 DEF OwnInv, RoomInv
  <2>3. live' = live \cup {Holder(t).op} \/ UNCHANGED live
    BY <1>2 DEF PublishUpload, uploadVars
  <2>4. /\ Cardinality(live') \in Nat
        /\ Cardinality(live') <= Cardinality(live) + 1
    BY <1>1, <2>3, FS_AddElement
  <2>5. \A u \in Target : \A i \in DOMAIN locks'[u] :
          locks'[u][i].verb # "open"
    BY <1>2, OpenReleased, LockQueues DEF PublishUpload, Holds
  <2> QED
    BY <1>1, <2>2, <2>4, <2>5 DEF RoomInv
<1>3. CASE live' \subseteq live
  <2>1. /\ Cardinality(live') \in Nat
        /\ Cardinality(live') <= Cardinality(live)
    BY <1>1, <1>3, FS_Subset, FS_CardinalityType
  <2>2. ASSUME NEW u \in Target, NEW i \in DOMAIN locks'[u],
               locks'[u][i].verb = "open"
        PROVE  Cardinality(live) < plan.uploads
    <3>1. \E j \in DOMAIN locks[u] : locks[u][j] = locks'[u][i]
      BY <2>2, LockQueues
    <3> QED
      BY <2>2, <3>1 DEF OwnInv, RoomInv
  <2> QED
    BY <1>1, <2>1, <2>2 DEF OwnInv, RoomInv
<1> QED
  BY <1>2, <1>3, HolderDrops DEF Drop

\* The holder of a target leaves no temporary file without an owner.
LEMMA HoldersKeepTemps ==
  ASSUME Typed, OpenInv, OwnInv, NEW t \in Target, ~LoseMemory,
         DaemonLock(t) \/ FailMutation(t) \/ FailOpen(t)
  PROVE  TempsInv'
<1> DEFINE op == Holder(t).op
<1>1. /\ plan' = plan /\ locks[t] # <<>> /\ op \in Op /\ At(op) = t
      /\ Holder(t).verb \in QueuedVerb /\ temps \subseteq Op
  BY LockQueues, HolderFacts DEF Typed, DiskTyped
<1>2. temps' \subseteq temps \cup {op} /\ live \ {op} \subseteq live'
  BY DEF DaemonLock, TakeBaseline, LookAgain, TakeEffect, GiveUp,
     OpenTemporary, PublishUpload, TakeChunk, CheckCommit, CommitUpload,
     CancelUpload, ExpiryKills, FailMutation, FailOpen, EndOpen,
     FailedCommit, Drop, diskVars, uploadVars
<1>3. Release(t) /\ op \in temps'
        => op \in live' \/ (op \in temps /\ stage[t] = "wait" /\ live' = live)
  <2>1. Holder(t).verb \in {"cancel", "expire"} => stage[t] = "wait"
    BY <1>1 DEF Typed, QueueTyped
  <2>2. CASE CancelUpload(t)
    BY <2>1, <2>2 DEF CancelUpload, uploadVars
  <2>3. CASE PublishUpload(t) \/ OpenTemporary(t) \/ FailOpen(t)
    BY <1>1, <2>3 DEF PublishUpload, OpenTemporary, FailOpen, EndOpen, Holds,
       uploadVars, Release, Advance, QueueTyped, Typed
  <2>4. CASE TakeChunk(t) \/ CheckCommit(t) \/ CommitUpload(t)
    BY <1>1, <2>4 DEF TakeChunk, CheckCommit, CommitUpload, FailedCommit,
       Holds, uploadVars, Release, Advance, QueueTyped, Typed
  <2>5. CASE TakeEffect(t) \/ FailMutation(t)
    BY <2>5 DEF TakeEffect, FailMutation, GiveUp
  <2>6. CASE TakeBaseline(t) \/ LookAgain(t)
    BY <1>1, <2>6 DEF TakeBaseline, LookAgain, GiveUp, Holds, uploadVars,
       Release, Advance, QueueTyped, Typed
  <2> QED
    BY <2>2, <2>3, <2>4, <2>5, <2>6 DEF DaemonLock, ExpiryKills
<1> HIDE DEF op
<1>4. ASSUME NEW o \in temps'
      PROVE  \/ o \in live'
             \/ /\ locks'[At(o)] # <<>> /\ Head(locks'[At(o)]).op = o
                /\ stage'[At(o)] # "wait"
  <2>1. CASE o # op
    <3>1. o \in temps /\ (o \in live => o \in live')
      BY <1>2, <1>4, <2>1
    <3>2. o \in live \/ /\ locks[At(o)] # <<>> /\ Holder(At(o)).op = o
                        /\ stage[At(o)] # "wait"
      BY <3>1 DEF OwnInv, TempsInv
    <3>3. At(o) \in Target
      BY <1>1, <3>1, Asked DEF Typed, DiskTyped
    <3>4. At(o) = t => o \in live
      BY <2>1, <3>2 DEF op
    <3> QED
      BY <3>1, <3>2, <3>3, <3>4, LockQueues DEF Holder
  <2>2. CASE o = op
    <3>1. CASE Release(t)
      BY <1>1, <1>3, <1>4, <2>2, <3>1 DEF OwnInv, TempsInv
    <3>2. CASE ~Release(t)
      BY <1>1, <2>2, <3>2, LockQueues DEF Holder, op
    <3> QED
      BY <3>1, <3>2
  <2> QED
    BY <2>1, <2>2
<1>5. \A o : At(o)' = At(o)
  BY <1>1 DEF At
<1> QED
  BY <1>4, <1>5 DEF TempsInv, Holder

\* The holder of a target leaves no reservation without an upload.
LEMMA HoldersKeepReserved ==
  ASSUME Typed, OpenInv, OwnInv, NEW t \in Target, ~LoseMemory,
         DaemonLock(t) \/ FailMutation(t) \/ FailOpen(t)
  PROVE  ReservedInv'
<1> DEFINE op == Holder(t).op
<1>1. /\ plan' = plan /\ locks[t] # <<>> /\ op \in Op /\ At(op) = t
      /\ live \subseteq Op /\ reserved \in [Target -> Op \cup {Nobody}]
      /\ Nobody \notin Op
  BY LockQueues, HolderFacts, FilesystemAssumption
  DEF Typed, UploadTyped, FilesystemAssumption
<1>2. \A o : At(o)' = At(o)
  BY <1>1 DEF At
<1>3. \A o \in Op : At(o) \in Target
  BY Asked DEF Typed, DiskTyped
<1>4. PublishUpload(t) => reserved[t] = Nobody
  BY DEF OwnInv, ReservedInv, PublishUpload, Holds
<1>5. /\ \A u \in Target : reserved'[u] # Nobody
           => reserved'[u] \in live' /\ At(reserved'[u]) = u
      /\ \A o \in live' : reserved'[At(o)] = o
      /\ \A u \in Target : u # t /\ reserved[u] = Nobody
           => reserved'[u] = Nobody
  <2>1. CASE UNCHANGED <<live, reserved>>
    BY <2>1 DEF OwnInv, ReservedInv
  <2>2. CASE Drop(op)
    BY <1>1, <1>3, <2>2 DEF OwnInv, ReservedInv, Drop
  <2>3. CASE /\ PublishUpload(t) /\ live' = live \cup {op}
             /\ reserved' = [reserved EXCEPT ![t] = op]
    <3>1. /\ reserved'[t] = op
          /\ \A u \in Target : u # t => reserved'[u] = reserved[u]
      BY <1>1, <2>3
    <3>2. \A o \in live : At(o) # t
      BY <1>1, <1>4, <2>3 DEF OwnInv, ReservedInv
    <3> QED
      BY <1>1, <1>3, <2>3, <3>1, <3>2 DEF OwnInv, ReservedInv
  <2> QED
    BY <2>1, <2>2, <2>3, HolderDrops
<1>6. ASSUME NEW u \in Target, stage'[u] = "based",
             Head(locks'[u]).verb = "open"
      PROVE  reserved'[u] = Nobody
  <2>1. CASE u # t
    <3>1. reserved[u] = Nobody
      BY <1>6, <2>1, LockQueues DEF OwnInv, ReservedInv, Holder
    <3> QED
      BY <1>5, <2>1, <3>1
  <2>2. CASE u = t
    <3>1. locks' = locks /\ Advance(t, "based") /\ Holder(t).verb = "open"
      BY <1>6, <2>2, LockQueues DEF Holder, Advance, Typed, QueueTyped
    <3>2. OpenTemporary(t)
      BY <3>1 DEF DaemonLock, TakeBaseline, LookAgain, TakeEffect, GiveUp,
         PublishUpload, TakeChunk, CheckCommit, CommitUpload, CancelUpload,
         ExpiryKills, FailMutation, FailOpen, EndOpen, FailedCommit, Holds,
         Release, Advance, Typed, QueueTyped
    <3>3. reserved[t] = Nobody /\ reserved' = reserved
      <4>1. ~Release(t)
        BY <3>1, <1>1 DEF Release, Advance, Typed, QueueTyped
      <4>2. Replay(op) # "none"
        BY <1>1, ReplayTyped DEF Typed, Outcome
      <4> QED
        BY <3>2, <4>1, <4>2 DEF OpenTemporary, EndOpen, uploadVars, Barred
    <3> QED
      BY <2>2, <3>3
  <2> QED
    BY <2>1, <2>2
<1> QED
  BY <1>2, <1>5, <1>6 DEF ReservedInv, Holder

\* The holder of a target leaves no upload without its timer.
LEMMA HoldersKeepArmed ==
  ASSUME Typed, OpenInv, OwnInv, NEW t \in Target, ~LoseMemory,
         DaemonLock(t) \/ FailMutation(t) \/ FailOpen(t)
  PROVE  ArmedInv'
<1> DEFINE op == Holder(t).op
<1>1. /\ plan' = plan /\ locks[t] # <<>> /\ op \in Op /\ At(op) = t
      /\ live \subseteq Op
  BY LockQueues, HolderFacts DEF Typed, UploadTyped
<1>2. \A o : At(o)' = At(o)
  BY <1>1 DEF At
<1>3. /\ live' \ {op} \subseteq live
      /\ armed \ {op} \subseteq armed'
      /\ op \in live' => \/ op \in armed'
                         \/ op \in live /\ armed \subseteq armed'
  BY HolderDrops DEF Drop
<1>4. ASSUME NEW o \in live' PROVE o \in armed' \/ ExpiryQueued(o)'
  <2>1. CASE o \in armed'
    BY <2>1
  <2>2. CASE o \notin armed'
    <3>1. o \in live /\ o \notin armed
      BY <1>3, <1>4, <2>2
    <3>2. PICK i \in DOMAIN locks[At(o)] :
            locks[At(o)][i].op = o /\ locks[At(o)][i].verb = "expire"
      BY <3>1 DEF OwnInv, ArmedInv, ExpiryQueued
    <3>3. At(o) \in Target
      BY <1>1, <3>1, Asked DEF Typed, DiskTyped
    <3>4. CASE locks'[At(o)] = locks[At(o)]
      BY <1>2, <3>2, <3>4 DEF ExpiryQueued
    <3>5. CASE At(o) = t /\ Release(t)
      <4>1. /\ 1 \in DOMAIN locks[t] /\ Holder(t) = locks[t][1]
            /\ Len(locks[t]) \in Nat /\ DOMAIN locks[t] = 1..Len(locks[t])
            /\ DOMAIN locks'[t] = 1..(Len(locks[t]) - 1)
            /\ \A j \in DOMAIN locks'[t] : locks'[t][j] = locks[t][j + 1]
        <5>1. locks[t] \in Seq(Call)
          BY <3>3, <3>5 DEF Typed, QueueTyped
        <5> QED
          BY <1>1, <3>5, <5>1, ReleaseFacts, HolderFacts DEF Typed
      <4>2. i # 1
        <5>1. ASSUME i = 1 PROVE FALSE
          <6>1. Holder(t).op = o /\ Holder(t).verb = "expire"
            BY <3>2, <3>5, <4>1, <5>1
          <6>2. reserved[t] = o
            BY <3>1, <3>5 DEF OwnInv, ReservedInv
          <6>3. ~Barred(t)
            BY <6>1, <6>2 DEF Barred
          <6>4. CancelUpload(t)
            BY <6>1, <6>3 DEF DaemonLock, TakeBaseline, LookAgain, TakeEffect,
               OpenTemporary, PublishUpload, TakeChunk, CheckCommit,
               CommitUpload, ExpiryKills, FailMutation, FailOpen, Holds
          <6>5. Drop(o)
            BY <3>1, <6>1, <6>3, <6>4 DEF CancelUpload
          <6> QED
            BY <1>4, <6>5 DEF Drop
        <5> QED
          BY <5>1
      <4>3. i - 1 \in DOMAIN locks'[t] /\ locks'[t][i - 1] = locks[t][i]
        BY <3>2, <3>5, <4>1, <4>2
      <4> QED
        BY <1>2, <3>2, <3>5, <4>3 DEF ExpiryQueued
    <3> QED
      BY <3>3, <3>4, <3>5, LockQueues
  <2> QED
    BY <2>1, <2>2
<1> QED
  BY <1>4 DEF ArmedInv

\* Every step keeps what is owned.
LEMMA OwnersKept ==
  ASSUME Typed, OpenInv, OwnInv, [Next]_allVars
  PROVE  OwnInv'
<1>1. CASE LoseMemory
  <2>1. Cardinality({}) = 0 /\ plan.uploads \in Nat /\ plan' = plan
    BY <1>1, FS_EmptySet, FilesystemAssumption
    DEF Typed, DiskTyped, FilesystemAssumption, Plan, LoseMemory
  <2> QED
    BY <1>1, <2>1 DEF LoseMemory, OwnInv, RoomInv, TempsInv, ReservedInv,
                      ArmedInv
<1>2. CASE ~LoseMemory /\ OuterStep
  BY <1>2, OuterKeepsOwners
<1>3. ASSUME NEW t \in Target, ~LoseMemory,
             DaemonLock(t) \/ FailMutation(t) \/ FailOpen(t)
      PROVE  OwnInv'
  BY <1>3, HoldersKeepRoom, HoldersKeepTemps, HoldersKeepReserved,
     HoldersKeepArmed DEF OwnInv
<1> QED
  BY <1>1, <1>2, <1>3 DEF Next, DaemonNext, OuterStep, AroundStep

\* Every temporary file, reservation and upload has its owner.
LEMMA OwnersCorrect == Spec => []OwnInv
<1>1. Init => OwnInv
  <2> SUFFICES ASSUME Init PROVE OwnInv
    OBVIOUS
  <2>1. Cardinality({}) = 0 /\ plan.uploads \in Nat
    BY TypedFirst, FS_EmptySet, FilesystemAssumption
    DEF Typed, DiskTyped, FilesystemAssumption, Plan
  <2> QED
    BY <2>1 DEF Init, FilesystemInit, Memory, OwnInv, RoomInv, TempsInv,
                ReservedInv, ArmedInv
<1>2. Typed /\ OpenInv /\ OwnInv /\ [Next]_allVars => OwnInv'
  BY OwnersKept
<1> QED
  BY <1>1, <1>2, FilesystemTyped, PTL DEF Spec

\* Nothing is left lying about: a temporary file belongs to an open upload or
\* to a call that still runs, a reservation belongs to an open upload, an open
\* upload has a timer or a cancel on its way, and there are never more than
\* UPLOAD_MAX (openUpload(), cancelUpload(), armUpload()).
THEOREM EverythingIsOwned == Spec => []EverythingOwned
<1>1. Typed /\ OwnInv => EverythingOwned
  <2> SUFFICES ASSUME Typed, OwnInv PROVE EverythingOwned
    OBVIOUS
  <2>1. ASSUME NEW op \in temps, op \notin live
        PROVE  \E t \in Target : \E c \in ToSet(locks[t]) : c.op = op
    <3>1. locks[At(op)] # <<>> /\ Holder(At(op)).op = op
      BY <2>1 DEF OwnInv, TempsInv
    <3>2. At(op) \in Target
      BY Asked DEF Typed, DiskTyped
    <3>3. Holder(At(op)) \in ToSet(locks[At(op)])
      BY <3>1, <3>2, HolderFacts DEF Typed, ToSet
    <3> QED
      BY <3>1, <3>2, <3>3
  <2>2. ASSUME NEW op \in live, op \notin armed
        PROVE  \E c \in ToSet(locks[At(op)]) : c.op = op /\ c.verb = "expire"
    BY <2>2 DEF OwnInv, ArmedInv, ExpiryQueued, ToSet
  <2> QED
    BY <2>1, <2>2 DEF OwnInv, RoomInv, ReservedInv, EverythingOwned
<1> QED
  BY <1>1, FilesystemTyped, OwnersCorrect, PTL
-----------------------------------------------------------------------------
(* No effect replaces what its operation has not seen.                     *)

\* Between the last look and the rename the destination changes only under
\* the hand of an ungoverned program.
SureInv ==
  \A t \in Target : stage[t] = "sure" /\ plan.ask[Holder(t).op].verb # "mkdir"
    => file[t] = seen[Holder(t).op] \/ t \in raced

\* Every step keeps the last look true until the effect.
LEMMA SureKept ==
  ASSUME Typed, OpenInv, SureInv, [Next]_allVars
  PROVE  SureInv'
<1> SUFFICES ASSUME NEW u \in Target, stage'[u] = "sure",
                    plan'.ask[Head(locks'[u]).op].verb # "mkdir"
             PROVE  file'[u] = seen'[Head(locks'[u]).op] \/ u \in raced'
  BY DEF SureInv, Holder
<1>1. /\ QueueTyped /\ plan \in Plans
      /\ \A v \in Target : stage[v] = "sure" => locks[v] # <<>>
  BY DEF Typed, DiskTyped, QueueTyped
<1>2. CASE LoseMemory
  BY <1>2 DEF LoseMemory
<1>3. CASE OuterStep /\ ~LoseMemory
  <2>1. /\ plan' = plan /\ seen' = seen /\ Extended(u)
    BY <1>3, OuterLeaves, OuterSteps
  <2>2. stage[u] = "sure" /\ Head(locks'[u]) = Holder(u)
    BY <1>1, <2>1 DEF Extended, Holder
  <2>3. /\ raced \subseteq raced'
        /\ file'[u] = file[u] \/ u \in raced'
    <3>1. CASE AlienWrite(u)
      BY <2>2, <3>1 DEF AlienWrite
    <3>2. ASSUME NEW v \in Target, v # u, AlienWrite(v)
          PROVE  raced \subseteq raced' /\ file'[u] = file[u]
      BY <3>2 DEF AlienWrite, Typed, DiskTyped
    <3>3. CASE ~\E v \in Target : AlienWrite(v)
      BY <1>3, <3>3 DEF OuterStep, ClientNext, AroundStep, ArriveMutation,
         ArriveStatus, ArriveOpen, ArriveTransfer, ArriveCancel, Expire,
         ForgetTombstone, Admit, EndSaturation, Close, PassBarrier, Exit,
         Crash, allVars, vars, diskVars
    <3> QED
      BY <3>1, <3>2, <3>3
  <2> QED
    BY <2>1, <2>2, <2>3 DEF SureInv
<1>4. ASSUME NEW t \in Target, ~LoseMemory,
             DaemonLock(t) \/ FailMutation(t) \/ FailOpen(t)
      PROVE  file'[u] = seen'[Head(locks'[u]).op] \/ u \in raced'
  <2> DEFINE op == Holder(t).op
  <2>1. /\ plan' = plan /\ locks[t] # <<>> /\ op \in Op /\ At(op) = t
        /\ file \in [Target -> Version] /\ seen \in [Op -> Version]
    BY <1>4, LockQueues, HolderFacts DEF Typed, DiskTyped
  <2>2. CASE u # t
    <3>1. /\ stage[u] = "sure" /\ Head(locks'[u]) = Holder(u)
          /\ Holder(u).op \in Op /\ Holder(u).op # op
      BY <1>1, <1>4, <2>1, <2>2, LockQueues, HolderFacts DEF Holder
    <3>2. /\ file' = file \/ \E v \in Version : file' = [file EXCEPT ![t] = v]
          /\ seen' = seen \/ seen' = [seen EXCEPT ![op] = file[t]]
          /\ raced \ {t} \subseteq raced'
      BY <1>4, <2>1 DEF DaemonLock, TakeBaseline, LookAgain, TakeEffect,
         GiveUp, OpenTemporary, PublishUpload, TakeChunk, CheckCommit,
         CommitUpload, CancelUpload, ExpiryKills, FailMutation, FailOpen,
         EndOpen, FailedCommit, diskVars, Version, Release
    <3>3. file'[u] = file[u] /\ seen'[Holder(u).op] = seen[Holder(u).op]
      BY <2>1, <2>2, <3>1, <3>2
    <3> QED
      BY <2>1, <2>2, <3>1, <3>2, <3>3 DEF SureInv
  <2>3. CASE u = t
    <3>1. locks' = locks /\ Advance(t, "sure")
      BY <1>4, <2>3, LockQueues DEF Advance, Typed, QueueTyped
    <3>2. ~Release(t)
      BY <2>1, <3>1 DEF Release, Advance, Typed, QueueTyped
    <3>3. LookAgain(t) \/ CheckCommit(t) \/ TakeBaseline(t)
      BY <1>4, <3>1, <3>2 DEF DaemonLock, TakeEffect, GiveUp, OpenTemporary,
         PublishUpload, TakeChunk, CommitUpload, CancelUpload, ExpiryKills,
         FailMutation, FailOpen, EndOpen, FailedCommit, Advance, Typed,
         QueueTyped
    <3>4. file[t] = seen[op] /\ UNCHANGED <<file, seen>>
      <4>1. CASE LookAgain(t)
        BY <3>2, <4>1 DEF LookAgain, GiveUp, diskVars
      <4>2. CASE CheckCommit(t)
        BY <3>2, <4>2 DEF CheckCommit, FailedCommit
      <4>3. CASE TakeBaseline(t)
        BY <2>1, <2>3, <3>1, <3>2, <4>3
        DEF TakeBaseline, GiveUp, Holder, Advance, Typed, QueueTyped
      <4> QED
        BY <3>3, <4>1, <4>2, <4>3
    <3> QED
      BY <2>3, <3>1, <3>4 DEF Holder
  <2> QED
    BY <2>2, <2>3
<1> QED
  BY <1>2, <1>3, <1>4 DEF Next, DaemonNext, OuterStep, AroundStep

\* An operation has its effect in the two steps that publish it.
LEMMA EffectSteps ==
  ASSUME Typed, DaemonNext \/ OuterStep, applied' # applied
  PROVE  \E t \in Target : TakeEffect(t) \/ CommitUpload(t)
<1>1. OuterStep /\ ~LoseMemory => applied' = applied
  BY OuterLeaves
<1>2. LoseMemory => applied' = applied
  BY DEF LoseMemory
<1>3. ASSUME NEW t \in Target, ~LoseMemory,
             DaemonLock(t) \/ FailMutation(t) \/ FailOpen(t)
      PROVE  applied' = applied \/ TakeEffect(t) \/ CommitUpload(t)
  <2>1. CASE DaemonLock(t)
    <3>1. CASE TakeBaseline(t) \/ LookAgain(t) \/ OpenTemporary(t)
      BY <3>1 DEF TakeBaseline, LookAgain, OpenTemporary, GiveUp, diskVars
    <3>2. CASE PublishUpload(t) \/ TakeChunk(t)
      BY <3>2 DEF PublishUpload, TakeChunk, GiveUp, diskVars
    <3>3. CASE CheckCommit(t)
      BY <3>3 DEF CheckCommit, FailedCommit, GiveUp
    <3>4. CASE CancelUpload(t) \/ ExpiryKills(t)
      BY <1>2, <3>4 DEF CancelUpload, ExpiryKills
    <3> QED
      BY <2>1, <3>1, <3>2, <3>3, <3>4 DEF DaemonLock
  <2>2. CASE FailMutation(t) \/ FailOpen(t)
    BY <2>2 DEF FailMutation, FailOpen, GiveUp, diskVars
  <2> QED
    BY <1>3, <2>1, <2>2
<1> QED
  BY <1>1, <1>2, <1>3 DEF DaemonNext, OuterStep, AroundStep

\* An effect happens from the stage that follows the last look.
LEMMA EffectsFollowTheLook ==
  ASSUME Typed, SureInv, [Next]_allVars, NEW op \in Op,
         applied'[op] > applied[op], plan.ask[op].verb # "mkdir"
  PROVE  file[At(op)] = seen[op] \/ At(op) \in raced
<1>1. applied \in [Op -> Nat]
  BY DEF Typed, DiskTyped
<1>2. \E t \in Target : TakeEffect(t) \/ CommitUpload(t)
  <2>1. applied' # applied
    BY <1>1
  <2> QED
    BY <2>1, EffectSteps DEF Next, OuterStep
<1>3. PICK t \in Target : TakeEffect(t) \/ CommitUpload(t)
  BY <1>2
<1>4. locks[t] # <<>> /\ stage[t] = "sure"
  BY <1>3 DEF TakeEffect, CommitUpload, Holds
<1>5. \/ applied' = applied
      \/ applied' = [applied EXCEPT ![Holder(t).op] = @ + 1]
  BY <1>3 DEF TakeEffect, CommitUpload, GiveUp, FailedCommit
<1>6. Holder(t).op = op
  BY <1>1, <1>5
<1>7. At(op) = t
  BY <1>4, <1>6, HolderFacts DEF Typed
<1> QED
  BY <1>4, <1>6, <1>7 DEF SureInv

\* Governed mutations never lose each other's work: an effect replaces what
\* its operation saw as the baseline, except for a write of an ungoverned
\* program between the last look and the rename (assertSnapshot() before the
\* renames of write, remove and commitUpload()).
THEOREM NothingGovernedIsLost == Spec => NoLostUpdate
<1>1. Init => SureInv
  BY DEF Init, FilesystemInit, Memory, SureInv
<1>2. Typed /\ OpenInv /\ SureInv /\ [Next]_allVars => SureInv'
  BY SureKept
<1>3. Typed /\ SureInv /\ [Next]_allVars
        => [\A op \in Op : applied'[op] > applied[op]
                             /\ plan.ask[op].verb # "mkdir"
              => file[At(op)] = seen[op] \/ At(op) \in raced]_allVars
  BY EffectsFollowTheLook
<1> QED
  BY <1>1, <1>2, <1>3, FilesystemTyped, PTL DEF Spec, NoLostUpdate
-----------------------------------------------------------------------------
(* What the commands tell their users.                                     *)

\* A call of the operation that has not come to its end: on the wire, in the
\* admission or in a queue.
Around(o, v) ==
  \/ \E c \in wire : c.op = o /\ c.verb = v
  \/ \E i \in DOMAIN admission : admission[i].op = o /\ admission[i].verb = v
  \/ \E t \in Target : \E i \in DOMAIN locks[t] :
       locks[t][i].op = o /\ locks[t][i].verb = v

Uploading(o) == awaits[o].verb \in {"open", "chunk"}
Upload(o) == plan.ask[o].verb = "upload"

\* Something may still lead to an effect of the operation.
Able(o) == \/ Around(o, "mutate") \/ Around(o, "open") \/ Around(o, "commit")
           \/ o \in live \/ Uploading(o)

\* The upload is over and is not opened again.
Shut(o) == /\ applied[o] = 0 /\ o \notin live
           /\ ~Around(o, "mutate") /\ ~Around(o, "open")

\* The operation has had no effect and will have none.
Dead(o) == /\ applied[o] = 0 /\ ~Around(o, "mutate")
           /\ \/ ~Around(o, "commit") /\ ~Uploading(o)
              \/ o \notin live /\ ~Around(o, "open")

\* Who sends which calls. What is not begun has left no trace.
KindInv ==
  /\ verdict \in [Op -> Verdict]
  /\ \A c \in wire : c.verb \in {"mutate", "open", "commit"} => c.n = 0
  /\ \A o \in Op :
       /\ Around(o, "mutate") \/ awaits[o].verb = "mutate" => ~Upload(o)
       /\ ( \/ Around(o, "open") \/ Around(o, "commit") \/ o \in live
            \/ awaits[o].verb \in {"open", "chunk", "commit"} )
          => Upload(o)
       /\ o \notin begun => /\ ~Able(o) /\ applied[o] = 0
                            /\ awaits[o] = NoCall /\ state[o] = "pending"
       /\ awaits[o].verb \notin {"cancel", "expire"}
       /\ verdict[o] # "none" => o \in begun /\ awaits[o] = NoCall

\* A mutation, an open and a commit are sent once.
OnceInv ==
  /\ \A t \in Target : \A i \in DOMAIN locks[t] :
       locks[t][i].verb \in {"mutate", "commit"} =>
         /\ ~\E c \in wire : /\ c.op = locks[t][i].op
                             /\ c.verb = locks[t][i].verb
         /\ \A j \in DOMAIN locks[t] :
              /\ locks[t][j].op = locks[t][i].op
              /\ locks[t][j].verb = locks[t][i].verb
              => j = i
  /\ \A i \in DOMAIN admission :
       admission[i].verb = "open" =>
         /\ ~\E c \in wire : c.op = admission[i].op /\ c.verb = "open"
         /\ \A j \in DOMAIN admission :
              admission[j] # Barrier /\ admission[j].op = admission[i].op
              => j = i
  /\ \A o \in Op : Around(o, "commit") => ~Uploading(o)

\* An effect happens once; a commit that comes to it finds its upload open.
EffectInv ==
  /\ \A o \in Op : applied[o] \in {0, 1} /\ (Able(o) => applied[o] = 0)
  /\ \A o \in live : state[o] = "pending" /\ ~Around(o, "open")
  /\ \A t \in Target : stage[t] = "sure" /\ Holder(t).verb = "commit"
       => Holder(t).op \in live

\* Records, answers and verdicts.
TruthInv ==
  \A o \in Op :
    /\ state[o] = "committed" => applied[o] = 1
    /\ state[o] \in {"conflict", "not_committed"} => Shut(o)
    /\ awaits[o].verb \in {"mutate", "commit", "status"} =>
         /\ reply[o] = "committed" => applied[o] = 1
         /\ reply[o] \in {"conflict", "not_committed"} => Dead(o)
    /\ verdict[o] = "committed" => applied[o] = 1
    /\ verdict[o] \in {"conflict", "not_committed", "failed"} => Dead(o)

VerdictInv == KindInv /\ OnceInv /\ EffectInv /\ TruthInv

\* The admission chain loses its head, or a call or the barrier joins it.
LEMMA AdmissionShrinks ==
  ASSUME Typed, admission # <<>>, admission' = Tail(admission)
  PROVE  /\ 1 \in DOMAIN admission /\ Head(admission) = admission[1]
         /\ \A i \in DOMAIN admission' :
              /\ i \in Nat \ {0} /\ i + 1 \in DOMAIN admission
              /\ admission'[i] = admission[i + 1]
<1>1. admission \in Seq(OpenCall \cup {Barrier})
  BY DEF Typed, CallTyped
<1> QED
  BY <1>1, HeadTailProperties

\* What joining the admission queue does to it.
LEMMA AdmissionGrows ==
  ASSUME Typed, NEW c, admission' = Append(admission, c)
  PROVE  /\ \A i \in DOMAIN admission : i \in DOMAIN admission'
                                        /\ admission'[i] = admission[i]
         /\ Len(admission) + 1 \in DOMAIN admission'
         /\ admission'[Len(admission) + 1] = c
         /\ \A i \in DOMAIN admission' :
              i \in DOMAIN admission \/ i = Len(admission) + 1
<1>1. admission \in Seq(OpenCall \cup {Barrier})
  BY DEF Typed, CallTyped
<1> QED
  BY <1>1

\* Where a call that is in a queue after a step of the daemon was before: d
\* places further back in the queue, on the wire, or in the admission.
Former(t, i, d) ==
  \/ i + d \in DOMAIN locks[t] /\ locks'[t][i] = locks[t][i + d]
  \/ /\ locks'[t][i] \in wire \ wire' /\ locks'[t][i].verb # "open"
     /\ \A j \in DOMAIN locks'[t] :
          j = i \/ (j \in DOMAIN locks[t] /\ locks'[t][j] = locks[t][j])
  \/ /\ locks'[t][i].verb = "open" /\ admission # <<>>
     /\ locks'[t][i] = Head(admission)
  \/ locks'[t][i].verb = "expire"

\* Who waits for a target after a step of the daemon waited before it, at
\* most one place further back, or has just come.
LEMMA QueuedBefore ==
  ASSUME Typed, OpenInv, DaemonNext, NEW t \in Target
  PROVE  \E d \in {0, 1} : \A i \in DOMAIN locks'[t] : Former(t, i, d)
<1>1. QueueTyped /\ DiskTyped /\ UploadTyped /\ CallTyped /\ plan \in Plans
  BY DEF Typed, DiskTyped
<1>2. CASE LoseMemory
  BY <1>2 DEF LoseMemory
<1>3. ASSUME NEW u \in Target, ~LoseMemory,
             DaemonLock(u) \/ FailMutation(u) \/ FailOpen(u)
      PROVE  \E d \in {0, 1} : \A i \in DOMAIN locks'[t] : Former(t, i, d)
  <2>1. locks[t] \in Seq(Call) /\ Len(locks[t]) \in Nat
        /\ DOMAIN locks[t] = 1..Len(locks[t])
    BY <1>1 DEF QueueTyped
  <2>2. CASE locks'[t] = locks[t]
    BY <2>1, <2>2 DEF Former
  <2>3. CASE /\ t = u
             /\ \A i \in DOMAIN locks'[t] :
                  i + 1 \in DOMAIN locks[t] /\ locks'[t][i] = locks[t][i + 1]
    BY <2>3 DEF Former
  <2> QED
    BY <1>3, <2>2, <2>3, LockQueues
<1>4. ASSUME NEW c \in Call, Queue(c), stage' = stage,
             c \in wire \ wire' /\ c.verb # "open"
      PROVE  \A i \in DOMAIN locks'[t] : Former(t, i, 0)
  <2>1. /\ \A u \in Target : u # At(c.op) => locks'[u] = locks[u]
        /\ \A k \in DOMAIN locks[At(c.op)] :
             locks'[At(c.op)][k] = locks[At(c.op)][k]
        /\ locks'[At(c.op)][Len(locks[At(c.op)]) + 1] = c
        /\ \A k \in DOMAIN locks'[At(c.op)] :
             k \in DOMAIN locks[At(c.op)] \/ k = Len(locks[At(c.op)]) + 1
    BY <1>1, <1>4, QueueFacts
  <2>2. DOMAIN locks[t] = 1..Len(locks[t]) /\ Len(locks[t]) \in Nat
    BY <1>1 DEF QueueTyped
  <2>3. CASE t # At(c.op)
    BY <2>1, <2>2, <2>3 DEF Former
  <2>4. CASE t = At(c.op)
    <3>1. ASSUME NEW i \in DOMAIN locks[t] PROVE Former(t, i, 0)
      BY <2>1, <2>2, <2>4, <3>1 DEF Former
    <3>2. Former(t, Len(locks[t]) + 1, 0)
      BY <1>4, <2>1, <2>4 DEF Former
    <3> QED
      BY <2>1, <2>4, <3>1, <3>2
  <2> QED
    BY <2>3, <2>4
<1>5. ASSUME NEW c \in Call, Queue(c), stage' = stage,
             \/ c.verb = "expire"
             \/ c.verb = "open" /\ admission # <<>> /\ c = Head(admission)
      PROVE  \A i \in DOMAIN locks'[t] : Former(t, i, 0)
  <2>1. /\ \A i \in DOMAIN locks[t] : locks'[t][i] = locks[t][i]
        /\ \A i \in DOMAIN locks'[t] :
             i \in DOMAIN locks[t] \/ locks'[t][i] = c
    BY <1>1, <1>5, QueueExtends DEF Extended
  <2>2. DOMAIN locks[t] = 1..Len(locks[t])
    BY <1>1 DEF QueueTyped
  <2> QED
    BY <1>5, <2>1, <2>2 DEF Former
<1>6. ASSUME NEW c \in wire,
             \/ ArriveMutation(c) \/ ArriveStatus(c) \/ ArriveOpen(c)
             \/ ArriveTransfer(c) \/ ArriveCancel(c)
      PROVE  \/ locks' = locks
             \/ /\ c \in Call /\ Queue(c) /\ stage' = stage
                /\ c \in wire \ wire' /\ c.verb # "open"
  BY <1>1, <1>6 DEF ArriveMutation, ArriveStatus, ArriveOpen, ArriveTransfer,
                    ArriveCancel, queueVars, CallTyped
<1>7. ASSUME NEW o \in Op, Expire(o)
      PROVE  \A i \in DOMAIN locks'[t] : Former(t, i, 0)
  <2> DEFINE c == [op |-> o, verb |-> "expire", n |-> 0]
  <2>1. c \in Call /\ Queue(c) /\ stage' = stage /\ c.verb = "expire"
    BY <1>7 DEF Call, Expire
  <2> QED
    BY <1>5, <2>1
<1>8. CASE locks' = locks
  <2>1. DOMAIN locks[t] = 1..Len(locks[t])
    BY <1>1 DEF QueueTyped
  <2> QED
    BY <1>8, <2>1 DEF Former
<1>9. CASE Admit
  <2>1. /\ Head(admission) \in OpenCall /\ Head(admission) \in Call
        /\ admission # <<>> /\ stage' = stage
    BY <1>1, <1>9, HeadTailProperties DEF Admit, CallTyped, OpenCall
  <2>2. locks' = locks \/ Queue(Head(admission))
    BY <1>9 DEF Admit
  <2> QED
    BY <1>5, <1>8, <2>1, <2>2 DEF OpenCall
<1>10. CASE PassBarrier
  <2>1. DOMAIN locks[t] = 1..Len(locks[t])
    BY <1>1 DEF QueueTyped
  <2>2. /\ \A i \in DOMAIN locks[t] : locks'[t][i] = locks[t][i]
        /\ \A i \in DOMAIN locks'[t] :
             i \in DOMAIN locks[t] \/ locks'[t][i].verb = "expire"
    BY <1>1, <1>10, BarrierFacts
  <2> QED
    BY <2>1, <2>2 DEF Former
<1>11. \/ LoseMemory \/ PassBarrier \/ Admit \/ locks' = locks
       \/ \E o \in Op : Expire(o)
       \/ \E u \in Target : DaemonLock(u) \/ FailMutation(u) \/ FailOpen(u)
       \/ \E c \in wire : \/ ArriveMutation(c) \/ ArriveStatus(c)
                          \/ ArriveOpen(c) \/ ArriveTransfer(c)
                          \/ ArriveCancel(c)
  BY DEF DaemonNext, AlienWrite, ForgetTombstone, EndSaturation, Close, Exit,
         Crash, queueVars
<1> QED
  BY <1>2, <1>3, <1>4, <1>6, <1>7, <1>8, <1>9, <1>10, <1>11

\* What a step of the daemon does to the admission queue.
LEMMA AdmittedBefore ==
  ASSUME Typed, OpenInv, DaemonNext
  PROVE  \/ admission' \in {admission, <<>>}
         \/ admission # <<>> /\ admission' = Tail(admission)
         \/ admission' = Append(admission, Barrier)
         \/ \E c \in OpenCall : /\ c \in wire /\ wire' = wire \ {c}
                                /\ admission' = Append(admission, c)
<1>1. ASSUME NEW t \in Target, ~LoseMemory,
             DaemonLock(t) \/ FailMutation(t) \/ FailOpen(t)
      PROVE  \/ admission' = admission
             \/ admission # <<>> /\ admission' = Tail(admission)
  <2>1. \/ admission' = admission
        \/ admission' = Tail(admission) /\ Holder(t).verb = "open"
    BY <1>1 DEF DaemonLock, TakeBaseline, LookAgain, TakeEffect, GiveUp,
       OpenTemporary, PublishUpload, TakeChunk, CheckCommit, CommitUpload,
       CancelUpload, ExpiryKills, FailMutation, FailOpen, EndOpen,
       FailedCommit, LeaveAdmission, Holds
  <2>2. Holder(t).verb = "open" => admission # <<>>
    BY <1>1, LockQueues, HolderFacts DEF Typed, OpenInv
  <2> QED
    BY <2>1, <2>2
<1>2. ASSUME NEW c \in wire,
             \/ ArriveMutation(c) \/ ArriveStatus(c) \/ ArriveOpen(c)
             \/ ArriveTransfer(c) \/ ArriveCancel(c)
      PROVE  \/ admission' = admission
             \/ /\ c \in OpenCall /\ wire' = wire \ {c}
                /\ admission' = Append(admission, c)
  BY <1>2 DEF ArriveMutation, ArriveStatus, ArriveOpen, ArriveTransfer,
              ArriveCancel, queueVars, OpenCall, Typed, CallTyped
<1>3. CASE LoseMemory
  BY <1>3 DEF LoseMemory
<1>4. CASE AroundStep
  BY <1>4 DEF AroundStep, AlienWrite, Expire, ForgetTombstone, Admit,
     EndSaturation, Close, PassBarrier, Exit, Crash, LoseMemory, queueVars,
     LeaveAdmission
<1> QED
  BY <1>1, <1>2, <1>3, <1>4 DEF DaemonNext, AroundStep

\* The daemon only takes requests from the wire.
LEMMA WireShrinks ==
  ASSUME DaemonNext
  PROVE  wire' \subseteq wire /\ awaits' = awaits
<1>1. ASSUME NEW c \in wire,
             \/ ArriveMutation(c) \/ ArriveStatus(c) \/ ArriveOpen(c)
             \/ ArriveTransfer(c) \/ ArriveCancel(c)
      PROVE  wire' \subseteq wire /\ awaits' = awaits
  BY <1>1 DEF ArriveMutation, ArriveStatus, ArriveOpen, ArriveTransfer,
              ArriveCancel
<1>2. ASSUME NEW t \in Target,
             DaemonLock(t) \/ FailMutation(t) \/ FailOpen(t)
      PROVE  UNCHANGED <<wire, awaits>>
  BY <1>2 DEF DaemonLock, TakeBaseline, LookAgain, TakeEffect, GiveUp,
     OpenTemporary, PublishUpload, TakeChunk, CheckCommit, CommitUpload,
     CancelUpload, ExpiryKills, FailMutation, FailOpen, LoseMemory, callVars
<1>3. CASE AroundStep
  BY <1>3 DEF AroundStep, AlienWrite, Expire, ForgetTombstone, Admit,
     EndSaturation, Close, PassBarrier, Exit, Crash, LoseMemory, callVars
<1> QED
  BY <1>1, <1>2, <1>3 DEF DaemonNext, AroundStep

\* The daemon invents no mutation, open or commit.
LEMMA CallsMove ==
  ASSUME Typed, OpenInv, DaemonNext, NEW o \in Op,
         NEW v \in {"mutate", "open", "commit"}, Around(o, v)'
  PROVE  Around(o, v)
<1>1. CASE \E c \in wire' : c.op = o /\ c.verb = v
  BY <1>1, WireShrinks DEF Around
<1>2. ASSUME NEW i \in DOMAIN admission', admission'[i].op = o,
             admission'[i].verb = v
      PROVE  Around(o, v)
  <2>1. \/ \E j \in DOMAIN admission : admission[j] = admission'[i]
        \/ admission'[i] \in wire
    <3>1. o # Nobody
      BY FilesystemAssumption DEF FilesystemAssumption
    <3>2. CASE admission' \in {admission, <<>>}
      BY <1>2, <3>2
    <3>3. CASE admission # <<>> /\ admission' = Tail(admission)
      BY <1>2, <3>3, AdmissionShrinks
    <3>4. CASE admission' = Append(admission, Barrier)
      BY <1>2, <3>1, <3>4, AdmissionGrows DEF Barrier
    <3>5. ASSUME NEW c \in wire, admission' = Append(admission, c)
          PROVE  \/ \E j \in DOMAIN admission : admission[j] = admission'[i]
                 \/ admission'[i] \in wire
      BY <1>2, <3>5, AdmissionGrows
    <3> QED
      BY <3>2, <3>3, <3>4, <3>5, AdmittedBefore
  <2> QED
    BY <1>2, <2>1 DEF Around
<1>3. ASSUME NEW t \in Target, NEW i \in DOMAIN locks'[t],
             locks'[t][i].op = o, locks'[t][i].verb = v
      PROVE  Around(o, v)
  <2>1. \/ \E j \in DOMAIN locks[t] : locks[t][j] = locks'[t][i]
        \/ locks'[t][i] \in wire
        \/ admission # <<>> /\ locks'[t][i] = Head(admission)
    BY <1>3, QueuedBefore DEF Former
  <2>2. admission # <<>> =>
          1 \in DOMAIN admission /\ Head(admission) = admission[1]
    BY HeadTailProperties DEF Typed, CallTyped
  <2> QED
    BY <1>3, <2>1, <2>2 DEF Around
<1> QED
  BY <1>1, <1>2, <1>3 DEF Around
\* What was sent once is in one place.
LEMMA DaemonKeepsOnce ==
  ASSUME Typed, OpenInv, KindInv, OnceInv, DaemonNext
  PROVE  OnceInv'
<1>1. wire' \subseteq wire /\ awaits' = awaits
  BY WireShrinks
<1>2. ASSUME NEW t \in Target, NEW i \in DOMAIN locks'[t],
             locks'[t][i].verb \in {"mutate", "commit"}
      PROVE  /\ ~\E c \in wire' : /\ c.op = locks'[t][i].op
                                  /\ c.verb = locks'[t][i].verb
             /\ \A j \in DOMAIN locks'[t] :
                  /\ locks'[t][j].op = locks'[t][i].op
                  /\ locks'[t][j].verb = locks'[t][i].verb
                  => j = i
  <2>1. PICK d \in {0, 1} : \A k \in DOMAIN locks'[t] : Former(t, k, d)
    BY QueuedBefore
  <2>2. \A k \in DOMAIN locks'[t] : k \in Nat
    BY DaemonTyped DEF Typed, QueueTyped
  <2>3. CASE i + d \in DOMAIN locks[t] /\ locks'[t][i] = locks[t][i + d]
    <3>1. /\ ~\E c \in wire : /\ c.op = locks'[t][i].op
                              /\ c.verb = locks'[t][i].verb
          /\ \A j \in DOMAIN locks[t] :
               /\ locks[t][j].op = locks'[t][i].op
               /\ locks[t][j].verb = locks'[t][i].verb
               => j = i + d
      BY <1>2, <2>3 DEF OnceInv
    <3>2. ASSUME NEW j \in DOMAIN locks'[t],
                 locks'[t][j].op = locks'[t][i].op,
                 locks'[t][j].verb = locks'[t][i].verb
          PROVE  j = i
      <4>1. j + d \in DOMAIN locks[t] /\ locks'[t][j] = locks[t][j + d]
        BY <1>2, <2>1, <3>1, <3>2 DEF Former
      <4>2. j + d = i + d
        BY <3>1, <3>2, <4>1
      <4> QED
        BY <1>2, <2>2, <3>2, <4>2
    <3> QED
      BY <1>1, <3>1, <3>2
  <2>4. CASE /\ locks'[t][i] \in wire \ wire'
             /\ \A j \in DOMAIN locks'[t] :
                  \/ j = i
                  \/ j \in DOMAIN locks[t] /\ locks'[t][j] = locks[t][j]
    <3>1. ASSUME NEW c \in wire', c.op = locks'[t][i].op,
                 c.verb = locks'[t][i].verb
          PROVE  FALSE
      <4>1. c \in Call /\ locks'[t][i] \in Call
        BY <1>1, <2>4, <3>1 DEF Typed, CallTyped
      <4>2. c.n = 0 /\ locks'[t][i].n = 0
        BY <1>1, <1>2, <2>4, <3>1 DEF KindInv
      <4>3. c = locks'[t][i]
        BY <3>1, <4>1, <4>2 DEF Call
      <4> QED
        BY <2>4, <3>1, <4>3
    <3>2. ASSUME NEW j \in DOMAIN locks'[t],
                 locks'[t][j].op = locks'[t][i].op,
                 locks'[t][j].verb = locks'[t][i].verb, j # i
          PROVE  FALSE
      BY <1>2, <2>4, <3>2 DEF OnceInv
    <3> QED
      BY <3>1, <3>2
  <2> QED
    BY <1>2, <2>1, <2>3, <2>4 DEF Former
<1>3. ASSUME NEW i \in DOMAIN admission', admission'[i].verb = "open"
      PROVE  /\ ~\E c \in wire' : c.op = admission'[i].op /\ c.verb = "open"
             /\ \A j \in DOMAIN admission' :
                  admission'[j] # Barrier /\ admission'[j].op = admission'[i].op
                  => j = i
  <2>1. admission \in Seq(OpenCall \cup {Barrier}) /\ Barrier.verb # "open"
        /\ Len(admission) \in Nat /\ DOMAIN admission = 1..Len(admission)
    BY DEF Typed, CallTyped, Barrier
  <2>2. CASE admission' \in {admission, <<>>}
    BY <1>1, <1>3, <2>2 DEF OnceInv
  <2>3. CASE admission # <<>> /\ admission' = Tail(admission)
    <3>1. \A k \in DOMAIN admission' :
            /\ k \in Nat \ {0} /\ k + 1 \in DOMAIN admission
            /\ admission'[k] = admission[k + 1]
      BY <2>3, AdmissionShrinks
    <3>2. /\ ~\E c \in wire : c.op = admission'[i].op /\ c.verb = "open"
          /\ \A j \in DOMAIN admission :
               admission[j] # Barrier /\ admission[j].op = admission'[i].op
               => j = i + 1
      BY <1>3, <3>1 DEF OnceInv
    <3>3. ASSUME NEW j \in DOMAIN admission', admission'[j] # Barrier,
                 admission'[j].op = admission'[i].op
          PROVE  j = i
      <4>1. j + 1 = i + 1
        BY <3>1, <3>2, <3>3
      <4> QED
        BY <1>3, <3>1, <3>3, <4>1
    <3> QED
      BY <1>1, <3>2, <3>3
  <2>4. CASE admission' = Append(admission, Barrier)
    <3>1. /\ i \in DOMAIN admission /\ admission'[i] = admission[i]
      BY <1>3, <2>1, <2>4, AdmissionGrows
    <3>2. \A j \in DOMAIN admission' : admission'[j] # Barrier =>
            j \in DOMAIN admission /\ admission'[j] = admission[j]
      BY <2>4, AdmissionGrows
    <3> QED
      BY <1>1, <1>3, <3>1, <3>2 DEF OnceInv
  <2>5. ASSUME NEW c \in OpenCall, c \in wire, wire' = wire \ {c},
               admission' = Append(admission, c)
        PROVE  /\ ~\E e \in wire' : e.op = admission'[i].op /\ e.verb = "open"
               /\ \A j \in DOMAIN admission' :
                    admission'[j] # Barrier
                    /\ admission'[j].op = admission'[i].op => j = i
    <3>1. /\ \A k \in DOMAIN admission : admission'[k] = admission[k]
          /\ admission'[Len(admission) + 1] = c
          /\ \A k \in DOMAIN admission' :
               k \in DOMAIN admission \/ k = Len(admission) + 1
      BY <2>5, AdmissionGrows
    <3>2. CASE i \in DOMAIN admission
      <4>1. \A k \in DOMAIN admission' :
              k # i /\ admission'[k].op = admission'[i].op
              /\ admission'[k] # Barrier => k = Len(admission) + 1
        BY <1>3, <3>1, <3>2 DEF OnceInv
      <4>2. c.op # admission'[i].op
        BY <1>3, <2>5, <3>1, <3>2 DEF OnceInv, OpenCall
      <4> QED
        BY <1>1, <1>3, <3>1, <3>2, <4>1, <4>2 DEF OnceInv
    <3>3. CASE i = Len(admission) + 1
      <4>1. ASSUME NEW e \in wire', e.op = c.op, e.verb = "open"
            PROVE  FALSE
        <5>1. e \in Call /\ c \in Call /\ e.n = 0 /\ c.n = 0 /\ c.verb = "open"
          BY <2>5, <4>1 DEF Typed, CallTyped, OpenCall, KindInv
        <5>2. e = c
          BY <4>1, <5>1 DEF Call
        <5> QED
          BY <2>5, <4>1, <5>2
      <4>2. ASSUME NEW j \in DOMAIN admission, admission[j] # Barrier,
                   admission[j].op = c.op
            PROVE  FALSE
        <5>1. admission[j].verb = "open" /\ c.verb = "open"
          BY <2>1, <2>5, <4>2 DEF OpenCall
        <5> QED
          BY <2>5, <4>2, <5>1 DEF OnceInv
      <4> QED
        BY <3>1, <3>3, <4>1, <4>2
    <3> QED
      BY <1>3, <3>1, <3>2, <3>3
  <2> QED
    BY <2>2, <2>3, <2>4, <2>5, AdmittedBefore
<1>4. \A o \in Op : Around(o, "commit")' => ~Uploading(o)'
  BY <1>1, CallsMove DEF OnceInv, Uploading
<1> QED
  BY <1>2, <1>3, <1>4 DEF OnceInv

\* The end of a mutation or a commit that held its lock, and of an open.
LEMMA MutationEnds ==
  ASSUME Typed, OpenInv, KindInv, OnceInv, NEW t \in Target, ~LoseMemory,
         DaemonLock(t) \/ FailMutation(t) \/ FailOpen(t), Release(t),
         NEW op \in Op, NEW v \in {"mutate", "commit"},
         Holder(t).op = op, Holder(t).verb = v
  PROVE  ~Around(op, v)'
<1>1. /\ locks[t] # <<>> /\ op \in Op /\ At(op) = t /\ QueueTyped
      /\ 1 \in DOMAIN locks[t] /\ Holder(t) = locks[t][1]
  BY LockQueues, HolderFacts DEF Typed
<1>2. /\ ~\E c \in wire : c.op = op /\ c.verb = v
      /\ \A j \in DOMAIN locks[t] :
           locks[t][j].op = op /\ locks[t][j].verb = v => j = 1
  BY <1>1 DEF OnceInv
<1>3. Typed' /\ wire' \subseteq wire
  BY DaemonTyped, WireShrinks DEF DaemonNext
<1>4. \A i \in DOMAIN admission' : admission'[i].verb # v
  BY <1>3 DEF Typed, CallTyped, OpenCall, Barrier
<1>5. ASSUME NEW u \in Target, NEW i \in DOMAIN locks'[u],
             locks'[u][i].op = op, locks'[u][i].verb = v
      PROVE  FALSE
  <2>1. CASE u # t
    <3>1. i \in DOMAIN locks[u] /\ locks[u][i].op = op
      BY <1>5, <2>1, LockQueues
    <3> QED
      BY <1>1, <2>1, <3>1 DEF QueueTyped
  <2>2. CASE u = t
    <3>1. /\ i \in 1..(Len(locks[t]) - 1) /\ i + 1 \in DOMAIN locks[t]
          /\ locks'[t][i] = locks[t][i + 1]
      BY <1>1, <1>5, <2>2, ReleaseFacts
    <3>2. i + 1 = 1
      BY <1>2, <1>5, <2>2, <3>1
    <3> QED
      BY <3>1, <3>2
  <2> QED
    BY <2>1, <2>2
<1> QED
  BY <1>2, <1>3, <1>4, <1>5 DEF Around

\* An open that lets its target go is nowhere any more.
LEMMA OpenEnds ==
  ASSUME Typed, OpenInv, KindInv, OnceInv, NEW t \in Target, ~LoseMemory,
         DaemonLock(t) \/ FailMutation(t) \/ FailOpen(t), Release(t),
         NEW op \in Op, Holder(t).op = op, Holder(t).verb = "open"
  PROVE  ~Around(op, "open")'
<1>1. /\ locks[t] # <<>> /\ op \in Op
      /\ 1 \in DOMAIN locks[t] /\ Holder(t) = locks[t][1]
  BY LockQueues, HolderFacts DEF Typed
<1>2. admission # <<>> /\ Head(admission) = Holder(t)
      /\ admission' = Tail(admission)
  <2>1. admission # <<>> /\ Head(admission) = Holder(t)
    BY <1>1 DEF OpenInv
  <2>2. ~(\E s \in {"based", "sure"} : Advance(t, s))
    BY <1>1 DEF Release, Advance, Typed, QueueTyped
  <2> QED
    BY <2>1, <2>2 DEF DaemonLock, TakeBaseline, LookAgain, TakeEffect, GiveUp,
       OpenTemporary, PublishUpload, TakeChunk, CheckCommit, CommitUpload,
       CancelUpload, ExpiryKills, FailMutation, FailOpen, EndOpen,
       LeaveAdmission, Holds
<1>3. /\ 1 \in DOMAIN admission /\ admission[1] = Holder(t)
      /\ \A i \in DOMAIN admission' :
           /\ i \in Nat \ {0} /\ i + 1 \in DOMAIN admission
           /\ admission'[i] = admission[i + 1]
  BY <1>2, AdmissionShrinks
<1>4. /\ ~\E c \in wire : c.op = op /\ c.verb = "open"
      /\ \A j \in DOMAIN admission :
           admission[j] # Barrier /\ admission[j].op = op => j = 1
  BY <1>3 DEF OnceInv
<1>5. wire' \subseteq wire
  BY WireShrinks DEF DaemonNext
<1>6. \A i \in DOMAIN admission' :
        ~(admission'[i].op = op /\ admission'[i].verb = "open")
  BY <1>3, <1>4 DEF Barrier
<1>7. \A u \in Target : \A i \in DOMAIN locks'[u] : locks'[u][i].verb # "open"
  BY <1>1, OpenReleased
<1> QED
  BY <1>4, <1>5, <1>6, <1>7 DEF Around
\* A holder is a call on its way.
LEMMA HolderIsAround ==
  ASSUME Typed, NEW t \in Target, locks[t] # <<>>,
         NEW o \in Op, Holder(t).op = o, NEW v, Holder(t).verb = v
  PROVE  Around(o, v)
<1>1. 1 \in DOMAIN locks[t] /\ Holder(t) = locks[t][1]
  BY HolderFacts DEF Typed
<1> QED
  BY <1>1 DEF Around

\* An operation is met in the requests of its own kind only.
LEMMA KindFacts ==
  ASSUME KindInv, NEW o \in Op
  PROVE  /\ Around(o, "mutate") => ~Upload(o)
         /\ awaits[o].verb = "mutate" => ~Upload(o)
         /\ Around(o, "open") => Upload(o)
         /\ Around(o, "commit") => Upload(o)
         /\ o \in live => Upload(o)
         /\ Uploading(o) => Upload(o)
         /\ awaits[o].verb = "commit" => Upload(o)
         /\ o \notin begun => /\ ~Able(o) /\ applied[o] = 0
                              /\ awaits[o] = NoCall /\ state[o] = "pending"
<1>1. /\ Around(o, "mutate") \/ awaits[o].verb = "mutate" => ~Upload(o)
      /\ ( \/ Around(o, "open") \/ Around(o, "commit") \/ o \in live
           \/ awaits[o].verb \in {"open", "chunk", "commit"} )
         => Upload(o)
      /\ o \notin begun => /\ ~Able(o) /\ applied[o] = 0
                           /\ awaits[o] = NoCall /\ state[o] = "pending"
  BY DEF KindInv
<1>2. Uploading(o) => awaits[o].verb \in {"open", "chunk", "commit"}
  BY DEF Uploading
<1> QED
  BY <1>1, <1>2

\* Only a publication opens an upload.
LEMMA LiveGrows ==
  ASSUME Typed, DaemonNext, NEW o \in live', o \notin live
  PROVE  \E t \in Target : /\ PublishUpload(t) /\ Release(t)
                           /\ locks[t] # <<>> /\ Holder(t).verb = "open"
                           /\ Holder(t).op = o /\ ~Unwanted(o)
<1>1. CASE LoseMemory
  BY <1>1 DEF LoseMemory
<1>2. ASSUME NEW c \in wire,
             \/ ArriveMutation(c) \/ ArriveStatus(c) \/ ArriveOpen(c)
             \/ ArriveTransfer(c) \/ ArriveCancel(c)
      PROVE  live' = live
  BY <1>2 DEF ArriveMutation, ArriveStatus, ArriveOpen, ArriveTransfer,
              ArriveCancel, uploadVars
<1>3. CASE AroundStep /\ ~LoseMemory
  BY <1>3, OuterLeaves DEF OuterStep
<1>4. ASSUME NEW t \in Target, ~LoseMemory,
             DaemonLock(t) \/ FailMutation(t) \/ FailOpen(t)
      PROVE  \/ live' \subseteq live
             \/ /\ PublishUpload(t) /\ Release(t)
                /\ ~Unwanted(Holder(t).op) /\ live' = live \cup {Holder(t).op}
  BY <1>4, HolderDrops DEF Drop
<1> QED
  BY <1>1, <1>2, <1>3, <1>4 DEF DaemonNext, AroundStep, PublishUpload, Holds

\* Nothing that could not lead to an effect comes to it by the daemon alone.
LEMMA AbleStays ==
  ASSUME Typed, OpenInv, DaemonNext, NEW o \in Op, ~Able(o)
  PROVE  ~Able(o)'
<1>1. /\ ~Around(o, "mutate")' /\ ~Around(o, "open")'
      /\ ~Around(o, "commit")'
  BY CallsMove DEF Able
<1>2. o \notin live'
  BY LiveGrows, HolderIsAround DEF Able
<1>3. ~Uploading(o)'
  BY WireShrinks DEF Uploading, Able
<1> QED
  BY <1>1, <1>2, <1>3 DEF Able

\* An effect is the last thing an operation can come to, and nobody was told
\* that it would not happen.
LEMMA EffectEnds ==
  ASSUME Typed, OpenInv, VerdictInv, DaemonNext, NEW o \in Op,
         applied'[o] # applied[o]
  PROVE  /\ applied'[o] = applied[o] + 1 /\ state'[o] = "committed"
         /\ Able(o) /\ ~Able(o)' /\ ~Dead(o) /\ ~Shut(o)
<1> USE DEF VerdictInv
<1>1. applied \in [Op -> Nat] /\ applied' # applied
      /\ state \in [Op -> Outcome \cup {"pending"}]
  BY DEF Typed, DiskTyped, UploadTyped
<1>2. \E t \in Target : TakeEffect(t) \/ CommitUpload(t)
  BY <1>1, EffectSteps
<1>3. PICK t \in Target : TakeEffect(t) \/ CommitUpload(t)
  BY <1>2
<1>4. /\ locks[t] # <<>> /\ Release(t)
      /\ applied' = [applied EXCEPT ![Holder(t).op] = @ + 1]
      /\ state' = [state EXCEPT ![Holder(t).op] = "committed"]
      /\ DaemonLock(t)
  BY <1>1, <1>3 DEF TakeEffect, CommitUpload, GiveUp, FailedCommit, Holds,
                    Record, DaemonLock
<1>5. Holder(t).op = o /\ applied'[o] = applied[o] + 1
      /\ state'[o] = "committed"
  BY <1>1, <1>4
<1>6. ~LoseMemory
  BY <1>1 DEF LoseMemory
<1>7. CASE TakeEffect(t)
  <2>1. Holder(t).verb = "mutate" /\ Around(o, "mutate")
    BY <1>4, <1>5, <1>7, HolderIsAround DEF TakeEffect, Holds
  <2>2. /\ ~Around(o, "mutate")' /\ ~Around(o, "open") /\ ~Around(o, "commit")
        /\ o \notin live /\ ~Uploading(o)
    <3>1. ~Around(o, "mutate")'
      BY <1>4, <1>5, <1>6, <2>1, MutationEnds
    <3> QED
      BY <2>1, <3>1, KindFacts
  <2>3. /\ ~Around(o, "open")' /\ ~Around(o, "commit")' /\ o \notin live'
        /\ ~Uploading(o)'
    BY <2>2, CallsMove, LiveGrows, HolderIsAround, WireShrinks DEF Uploading
  <2> QED
    BY <1>5, <2>1, <2>2, <2>3 DEF Able, Dead, Shut
<1>8. CASE CommitUpload(t)
  <2>1. Holder(t).verb = "commit" /\ Around(o, "commit") /\ o \in live
    BY <1>4, <1>5, <1>8, HolderIsAround DEF CommitUpload, Holds, EffectInv
  <2>2. /\ ~Around(o, "commit")' /\ ~Around(o, "open") /\ ~Around(o, "mutate")
        /\ ~Uploading(o)
    <3>1. ~Around(o, "commit")'
      BY <1>4, <1>5, <1>6, <2>1, MutationEnds
    <3>2. ~Uploading(o)
      BY <2>1 DEF OnceInv
    <3>3. ~Around(o, "open")
      BY <2>1 DEF EffectInv
    <3> QED
      BY <2>1, <3>1, <3>2, <3>3, KindFacts
  <2>3. ~Around(o, "open")' /\ ~Around(o, "mutate")' /\ ~Uploading(o)'
    BY <2>2, CallsMove, WireShrinks DEF Uploading
  <2>4. o \notin live'
    BY <1>1, <1>5, <1>8 DEF CommitUpload, FailedCommit, Drop
  <2> QED
    BY <1>5, <2>1, <2>2, <2>3, <2>4 DEF Able, Dead, Shut
<1> QED
  BY <1>3, <1>7, <1>8

\* An operation that can have no effect any more stays so.
LEMMA DeadStays ==
  ASSUME Typed, OpenInv, VerdictInv, DaemonNext, NEW o \in Op, Dead(o)
  PROVE  Dead(o)'
<1>1. applied'[o] = applied[o]
  BY EffectEnds
<1>2. \A v \in {"mutate", "open", "commit"} : ~Around(o, v) => ~Around(o, v)'
  BY CallsMove
<1>3. o \notin live /\ ~Around(o, "open") => o \notin live'
  BY LiveGrows, HolderIsAround
<1>4. Uploading(o)' <=> Uploading(o)
  BY WireShrinks DEF Uploading
<1> QED
  BY <1>1, <1>2, <1>3, <1>4 DEF Dead

\* An operation whose outcome is settled stays so.
LEMMA ShutStays ==
  ASSUME Typed, OpenInv, VerdictInv, DaemonNext, NEW o \in Op, Shut(o)
  PROVE  Shut(o)'
<1>1. applied'[o] = applied[o]
  BY EffectEnds
<1>2. \A v \in {"mutate", "open", "commit"} : ~Around(o, v) => ~Around(o, v)'
  BY CallsMove
<1>3. o \notin live'
  BY LiveGrows, HolderIsAround DEF Shut
<1> QED
  BY <1>1, <1>2, <1>3 DEF Shut

\* A record gets its outcome from a mutation that ends, or from the end of an
\* upload.
LEMMA OutcomesCome ==
  ASSUME Typed, EffectInv, DaemonNext, NEW o \in Op, state'[o] # state[o],
         state'[o] # "pending"
  PROVE  \E t \in Target :
           /\ locks[t] # <<>> /\ Holder(t).op = o /\ Release(t)
           /\ ~LoseMemory
           /\ DaemonLock(t) \/ FailMutation(t) \/ FailOpen(t)
           /\ Holder(t).verb = "mutate" \/ (o \in live /\ Drop(o))
           /\ state'[o] = "committed" => applied'[o] = applied[o] + 1
<1>1. state \in [Op -> Outcome \cup {"pending"}] /\ applied \in [Op -> Nat]
  BY DEF Typed, DiskTyped, UploadTyped
<1>2. ~LoseMemory
  BY DEF LoseMemory
<1>3. ASSUME NEW c \in wire,
             \/ ArriveMutation(c) \/ ArriveStatus(c) \/ ArriveOpen(c)
             \/ ArriveTransfer(c) \/ ArriveCancel(c)
      PROVE  FALSE
  BY <1>1, <1>3 DEF ArriveMutation, ArriveStatus, ArriveOpen, ArriveTransfer,
                    ArriveCancel, ledgerVars, Enter
<1>4. ~AroundStep
  BY <1>2 DEF AroundStep, AlienWrite, Expire, ForgetTombstone, Admit,
     EndSaturation, Close, PassBarrier, Exit, Crash, ledgerVars
<1>5. PICK t \in Target : DaemonLock(t) \/ FailMutation(t) \/ FailOpen(t)
  BY <1>3, <1>4 DEF DaemonNext, AroundStep
<1>6. locks[t] # <<>> /\ Holder(t).op \in Op
  BY <1>5, LockSteps, HolderFacts DEF Typed
<1>7. CASE TakeBaseline(t) \/ LookAgain(t) \/ FailMutation(t)
  BY <1>1, <1>2, <1>5, <1>6, <1>7 DEF TakeBaseline, LookAgain, FailMutation,
     GiveUp, Record, ledgerVars, Holds
<1>8. CASE TakeEffect(t)
  BY <1>1, <1>2, <1>5, <1>6, <1>8 DEF TakeEffect, GiveUp, Record, Holds
<1>9. CASE CheckCommit(t) \/ CommitUpload(t)
  <2>1. CommitUpload(t) => Holder(t).op \in live
    BY DEF CommitUpload, Holds, EffectInv
  <2> QED
    BY <1>1, <1>2, <1>5, <1>6, <1>9, <2>1 DEF CheckCommit, CommitUpload,
       FailedCommit, Record, ledgerVars
<1>10. CASE CancelUpload(t)
  BY <1>1, <1>2, <1>5, <1>6, <1>10 DEF CancelUpload, Record, ledgerVars,
     EffectInv
<1>11. CASE OpenTemporary(t) \/ PublishUpload(t) \/ TakeChunk(t)
            \/ FailOpen(t)
  BY <1>1, <1>6, <1>11 DEF OpenTemporary, PublishUpload, TakeChunk, FailOpen,
     ledgerVars, Enter
<1> QED
  BY <1>2, <1>5, <1>7, <1>8, <1>9, <1>10, <1>11 DEF DaemonLock, ExpiryKills

\* The daemon keeps the kinds of the operations.
LEMMA DaemonKeepsKinds ==
  ASSUME Typed, OpenInv, VerdictInv, DaemonNext, UNCHANGED clientVars
  PROVE  KindInv'
<1> USE DEF VerdictInv
<1>1. /\ wire' \subseteq wire /\ awaits' = awaits /\ begun' = begun
      /\ verdict' = verdict
  BY WireShrinks DEF clientVars
<1>2. plan' = plan
  <2>1. CASE LoseMemory
    BY <2>1 DEF LoseMemory
  <2>2. CASE ~LoseMemory /\ OuterStep
    BY <2>2, OuterLeaves
  <2>3. ASSUME NEW t \in Target,
               DaemonLock(t) \/ FailMutation(t) \/ FailOpen(t)
        PROVE  plan' = plan
    BY <2>3, LockSteps
  <2> QED
    BY <2>1, <2>2, <2>3 DEF DaemonNext, OuterStep, AroundStep
<1>3. ASSUME NEW o \in Op
      PROVE  /\ Around(o, "mutate")' \/ awaits'[o].verb = "mutate"
                  => ~Upload(o)'
             /\ ( \/ Around(o, "open")' \/ Around(o, "commit")'
                  \/ o \in live'
                  \/ awaits'[o].verb \in {"open", "chunk", "commit"} )
                => Upload(o)'
             /\ o \notin begun => /\ ~Able(o)' /\ applied'[o] = 0
                                  /\ awaits'[o] = NoCall
                                  /\ state'[o] = "pending"
  <2>1. Upload(o)' <=> Upload(o)
    BY <1>2 DEF Upload
  <2>2. o \in live' => o \in live \/ Around(o, "open")
    BY LiveGrows, HolderIsAround
  <2>3. /\ Around(o, "mutate")' => Around(o, "mutate")
        /\ Around(o, "open")' => Around(o, "open")
        /\ Around(o, "commit")' => Around(o, "commit")
    BY CallsMove
  <2>4. o \notin begun => /\ ~Able(o)' /\ applied'[o] = 0
                         /\ state'[o] = "pending"
    <3> SUFFICES ASSUME o \notin begun
                 PROVE  /\ ~Able(o)' /\ applied'[o] = 0
                        /\ state'[o] = "pending"
      OBVIOUS
    <3>1. ~Able(o) /\ applied[o] = 0 /\ state[o] = "pending"
      BY KindFacts
    <3>2. ~Able(o)' /\ applied'[o] = 0
      BY <3>1, AbleStays, EffectEnds
    <3>3. state'[o] = state[o] \/ state'[o] = "pending"
      BY <3>1, OutcomesCome, HolderIsAround DEF Able
    <3> QED
      BY <3>1, <3>2, <3>3
  <2>5. awaits[o].verb \in {"open", "chunk", "commit"} => Upload(o)
    BY KindFacts DEF Uploading
  <2>6. Around(o, "mutate")' \/ awaits'[o].verb = "mutate" => ~Upload(o)'
    BY <1>1, <2>1, <2>3, KindFacts
  <2>7. ( \/ Around(o, "open")' \/ Around(o, "commit")' \/ o \in live'
          \/ awaits'[o].verb \in {"open", "chunk", "commit"} )
        => Upload(o)'
    BY <1>1, <2>1, <2>2, <2>3, <2>5, KindFacts
  <2> QED
    BY <1>1, <2>4, <2>6, <2>7, KindFacts
<1> QED
  BY <1>1, <1>3 DEF KindInv

\* The daemon keeps the effects within what is recorded.
LEMMA DaemonKeepsEffects ==
  ASSUME Typed, OpenInv, VerdictInv, DaemonNext
  PROVE  EffectInv'
<1> USE DEF VerdictInv
<1>1. ASSUME NEW o \in Op
      PROVE  applied'[o] \in {0, 1} /\ (Able(o)' => applied'[o] = 0)
  <2>1. CASE applied'[o] = applied[o]
    BY <2>1, AbleStays DEF EffectInv
  <2>2. CASE applied'[o] # applied[o]
    BY <2>2, EffectEnds DEF EffectInv
  <2> QED
    BY <2>1, <2>2
<1>2. ASSUME NEW o \in live'
      PROVE  state'[o] = "pending" /\ ~Around(o, "open")'
  <2>1. o \in Op /\ state \in [Op -> Outcome \cup {"pending"}]
    BY DaemonTyped DEF Typed, UploadTyped
  <2>2. CASE o \in live
    <3>1. state[o] = "pending" /\ ~Around(o, "open") /\ ~Around(o, "mutate")
      BY <2>1, <2>2, KindFacts DEF EffectInv
    <3>2. ASSUME state'[o] # "pending" PROVE FALSE
      <4>1. \E t \in Target : /\ locks[t] # <<>> /\ Holder(t).op = o
                              /\ Holder(t).verb = "mutate" \/ Drop(o)
        BY <2>1, <3>1, <3>2, OutcomesCome
      <4>2. ~Drop(o)
        BY <1>2 DEF Drop
      <4> QED
        BY <2>1, <3>1, <4>1, <4>2, HolderIsAround
    <3> QED
      BY <2>1, <3>1, <3>2, CallsMove
  <2>3. CASE o \notin live
    <3>1. PICK t \in Target : /\ PublishUpload(t) /\ Release(t)
                              /\ locks[t] # <<>> /\ Holder(t).verb = "open"
                              /\ Holder(t).op = o /\ ~Unwanted(o)
      BY <1>2, <2>3, LiveGrows
    <3>2. ~LoseMemory
      BY <1>2 DEF LoseMemory
    <3>3. ~Around(o, "open")'
      BY <2>1, <3>1, <3>2, OpenEnds DEF DaemonLock
    <3>4. state'[o] = "pending"
      BY <2>1, <3>1 DEF PublishUpload, Enter
    <3> QED
      BY <3>3, <3>4
  <2> QED
    BY <2>2, <2>3
<1>3. ASSUME NEW u \in Target, stage'[u] = "sure",
             Head(locks'[u]).verb = "commit"
      PROVE  Head(locks'[u]).op \in live'
  <2>1. QueueTyped
    BY DEF Typed
  <2>2. ~LoseMemory
    BY <1>3 DEF LoseMemory
  <2>3. CASE AroundStep \/ \E c \in wire :
               \/ ArriveMutation(c) \/ ArriveStatus(c) \/ ArriveOpen(c)
               \/ ArriveTransfer(c) \/ ArriveCancel(c)
    <3>1. OuterStep
      BY <2>3 DEF OuterStep
    <3>2. live' = live /\ Extended(u)
      BY <2>2, <3>1, OuterLeaves, OuterSteps
    <3>3. stage[u] = "sure" /\ Head(locks'[u]) = Holder(u)
      BY <1>3, <2>1, <3>2 DEF Extended, QueueTyped, Holder
    <3> QED
      BY <1>3, <3>2, <3>3 DEF EffectInv
  <2>4. ASSUME NEW t \in Target,
               DaemonLock(t) \/ FailMutation(t) \/ FailOpen(t)
        PROVE  Head(locks'[u]).op \in live'
    <3>1. locks[t] # <<>> /\ At(Holder(t).op) = t
      BY <2>4, LockSteps, HolderFacts DEF Typed
    <3>2. CASE u # t
      <4>1. stage[u] = "sure" /\ Head(locks'[u]) = Holder(u)
        BY <1>3, <2>2, <2>4, <3>2, LockQueues DEF Holder
      <4>2. Holder(u).op \in live /\ At(Holder(u).op) = u
        BY <1>3, <2>1, <4>1, HolderFacts DEF EffectInv, QueueTyped
      <4>3. live \ {Holder(t).op} \subseteq live'
        BY <2>2, <2>4, HolderDrops DEF Drop
      <4> QED
        BY <3>1, <3>2, <4>1, <4>2, <4>3
    <3>3. CASE u = t
      <4>1. locks' = locks /\ Advance(t, "sure") /\ Holder(t).verb = "commit"
        BY <1>3, <2>2, <2>4, <3>3, LockQueues
        DEF Advance, Typed, QueueTyped, Holder
      <4>2. ~Release(t)
        BY <3>1, <4>1 DEF Release, Advance, Typed, QueueTyped
      <4>3. CheckCommit(t)
        BY <2>4, <4>1, <4>2 DEF DaemonLock, TakeBaseline, LookAgain,
           TakeEffect, OpenTemporary, PublishUpload, TakeChunk, CommitUpload,
           FailedCommit, CancelUpload, ExpiryKills, FailMutation, FailOpen,
           Holds
      <4>4. Holder(t).op \in live'
        BY <4>2, <4>3 DEF CheckCommit, FailedCommit, uploadVars
      <4> QED
        BY <3>3, <4>1, <4>4 DEF Holder
    <3> QED
      BY <3>2, <3>3
  <2> QED
    BY <2>3, <2>4 DEF DaemonNext, AroundStep
<1> QED
  BY <1>1, <1>2, <1>3 DEF EffectInv, Holder
\* What is recorded is so.
LEMMA DaemonKeepsRecords ==
  ASSUME Typed, OpenInv, VerdictInv, DaemonNext, NEW o \in Op
  PROVE  /\ state'[o] = "committed" => applied'[o] = 1
         /\ state'[o] \in {"conflict", "not_committed"} => Shut(o)'
<1> USE DEF VerdictInv
<1>1. CASE state'[o] = state[o]
  <2>1. state[o] = "committed" => applied[o] = 1 /\ applied'[o] = applied[o]
    BY EffectEnds DEF TruthInv, EffectInv
  <2>2. state[o] \in {"conflict", "not_committed"} => Shut(o)
    BY DEF TruthInv
  <2> QED
    BY <1>1, <2>1, <2>2, ShutStays
<1>2. CASE state'[o] # state[o] /\ state'[o] # "pending"
  <2>1. PICK t \in Target :
           /\ locks[t] # <<>> /\ Holder(t).op = o /\ Release(t)
           /\ ~LoseMemory
           /\ DaemonLock(t) \/ FailMutation(t) \/ FailOpen(t)
           /\ Holder(t).verb = "mutate" \/ (o \in live /\ Drop(o))
           /\ state'[o] = "committed" => applied'[o] = applied[o] + 1
    BY <1>2, OutcomesCome
  <2>2. Able(o) /\ applied[o] = 0
    <3>1. Able(o)
      BY <2>1, HolderIsAround DEF Able
    <3> QED
      BY <3>1 DEF EffectInv
  <2>3. state'[o] \in {"conflict", "not_committed"} => applied'[o] = 0
    BY <2>2, EffectEnds
  <2>4. /\ ~Around(o, "mutate")' /\ ~Around(o, "open")' /\ o \notin live'
    <3>1. CASE Holder(t).verb = "mutate"
      <4>1. Around(o, "mutate")
        BY <2>1, <3>1, HolderIsAround
      <4>2. ~Around(o, "open") /\ o \notin live
        BY <4>1, KindFacts
      <4>3. ~Around(o, "mutate")'
        BY <2>1, <3>1, MutationEnds
      <4>4. o \notin live'
        BY <4>2, LiveGrows, HolderIsAround
      <4> QED
        BY <4>2, <4>3, <4>4, CallsMove
    <3>2. CASE o \in live /\ Drop(o)
      <4>1. ~Around(o, "open") /\ ~Around(o, "mutate")
        BY <3>2, KindFacts DEF EffectInv
      <4>2. o \notin live'
        BY <3>2 DEF Drop
      <4> QED
        BY <4>1, <4>2, CallsMove
    <3> QED
      BY <2>1, <3>1, <3>2
  <2> QED
    BY <2>1, <2>2, <2>3, <2>4 DEF Shut
<1> QED
  BY <1>1, <1>2

\* An outcome that is answered is the one on record, or the conflict of a call
\* that has just ended without effect.
LEMMA OutcomesAnswered ==
  ASSUME Typed, DaemonNext, NEW o \in Op, reply'[o] # reply[o],
         awaits[o].verb \in {"mutate", "commit", "status"},
         reply'[o] \in Outcome
  PROVE  \/ reply'[o] = state'[o]
         \/ /\ reply'[o] = "conflict"
            /\ \E c \in wire : /\ c.op = o /\ c.verb = "mutate" /\ awaits[o] = c
                               /\ ArriveMutation(c) /\ locks' = locks
         \/ /\ reply'[o] = "conflict"
            /\ \E t \in Target : /\ CheckCommit(t) /\ Release(t)
                                 /\ Holder(t).op = o
<1>1. /\ state \in [Op -> Outcome \cup {"pending"}] /\ reply \in [Op -> Reply]
      /\ \A c : c \in wire => c \in Call
  BY DEF Typed, UploadTyped, CallTyped
<1>2. Replay(o) \in Outcome => Replay(o) = state[o]
  BY <1>1 DEF Replay, Outcome
<1>3. ~LoseMemory
  BY DEF LoseMemory, callVars
<1>4. ASSUME NEW c \in wire,
             \/ ArriveMutation(c) \/ ArriveStatus(c) \/ ArriveOpen(c)
             \/ ArriveTransfer(c) \/ ArriveCancel(c)
      PROVE  \/ reply'[o] = state'[o]
             \/ /\ reply'[o] = "conflict" /\ c.op = o /\ c.verb = "mutate"
                /\ awaits[o] = c /\ ArriveMutation(c) /\ locks' = locks
  <2>1. c.op = o /\ awaits[o] = c
    BY <1>1, <1>4 DEF ArriveMutation, ArriveStatus, ArriveOpen,
       ArriveTransfer, ArriveCancel, Answer
  <2>2. CASE ArriveMutation(c)
    BY <1>1, <1>2, <2>1, <2>2 DEF ArriveMutation, Answer
  <2>3. CASE ArriveStatus(c) \/ ArriveTransfer(c)
    BY <1>1, <1>2, <2>1, <2>3 DEF ArriveStatus, ArriveTransfer, Answer,
                                  ledgerVars
  <2>4. CASE ArriveOpen(c) \/ ArriveCancel(c)
    BY <2>1, <2>4 DEF ArriveOpen, ArriveCancel, Answer
  <2> QED
    BY <1>4, <2>2, <2>3, <2>4
<1>5. ASSUME NEW t \in Target,
             DaemonLock(t) \/ FailMutation(t) \/ FailOpen(t)
      PROVE  \/ reply'[o] = state'[o]
             \/ /\ reply'[o] = "conflict" /\ CheckCommit(t) /\ Release(t)
                /\ Holder(t).op = o
  <2>1. Holder(t).op = o /\ awaits[o] = Holder(t)
    BY <1>1, <1>3, <1>5 DEF DaemonLock, TakeBaseline, LookAgain, TakeEffect,
       GiveUp, OpenTemporary, PublishUpload, TakeChunk, CheckCommit,
       CommitUpload, CancelUpload, ExpiryKills, FailMutation, FailOpen,
       EndOpen, FailedCommit, Answer, callVars
  <2>2. CASE TakeBaseline(t) \/ LookAgain(t) \/ TakeEffect(t)
             \/ FailMutation(t)
    BY <1>1, <2>1, <2>2 DEF TakeBaseline, LookAgain, TakeEffect, FailMutation,
       GiveUp, Record, Answer, callVars
  <2>3. CASE CheckCommit(t)
    BY <1>1, <1>2, <2>1, <2>3 DEF CheckCommit, FailedCommit, Record, Answer,
       ledgerVars
  <2>4. CASE CommitUpload(t)
    BY <1>1, <2>1, <2>4 DEF CommitUpload, FailedCommit, Record, Answer
  <2>5. CASE OpenTemporary(t) \/ PublishUpload(t) \/ TakeChunk(t)
             \/ CancelUpload(t) \/ FailOpen(t)
    BY <2>1, <2>5 DEF OpenTemporary, PublishUpload, TakeChunk, CancelUpload,
                      FailOpen, Holds
  <2> QED
    BY <1>3, <1>5, <2>2, <2>3, <2>4, <2>5 DEF DaemonLock, ExpiryKills
<1>6. CASE AroundStep
  <2>1. Admit
    BY <1>3, <1>6 DEF AroundStep, AlienWrite, Expire, ForgetTombstone,
       EndSaturation, Close, PassBarrier, Exit, Crash, callVars
  <2>2. Head(admission).verb = "open"
    BY <2>1, HeadTailProperties DEF Admit, Typed, CallTyped, OpenCall
  <2> QED
    BY <1>1, <2>1, <2>2 DEF Admit, Answer
<1> QED
  BY <1>4, <1>5, <1>6 DEF DaemonNext, AroundStep

\* The daemon keeps what it records and answers true.
LEMMA DaemonKeepsTruth ==
  ASSUME Typed, OpenInv, VerdictInv, DaemonNext, UNCHANGED clientVars
  PROVE  TruthInv'
<1> USE DEF VerdictInv
<1>1. awaits' = awaits /\ verdict' = verdict
  BY WireShrinks DEF clientVars
<1>2. ASSUME NEW o \in Op
      PROVE  /\ applied[o] = 1 => applied'[o] = 1
             /\ Dead(o) => Dead(o)'
  BY EffectEnds, DeadStays DEF EffectInv
<1>3. ASSUME NEW o \in Op, awaits[o].verb \in {"mutate", "commit", "status"}
      PROVE  /\ reply'[o] = "committed" => applied'[o] = 1
             /\ reply'[o] \in {"conflict", "not_committed"} => Dead(o)'
  <2>1. CASE reply'[o] = reply[o]
    BY <1>2, <1>3, <2>1 DEF TruthInv
  <2>2. CASE reply'[o] = state'[o]
    <3>1. Shut(o)' => Dead(o)'
      BY DEF Shut, Dead
    <3> QED
      BY <2>2, <3>1, DaemonKeepsRecords
  <2>3. ASSUME reply'[o] = "conflict", NEW c \in wire, c.op = o,
               c.verb = "mutate", awaits[o] = c, ArriveMutation(c),
               locks' = locks
        PROVE  Dead(o)'
    <3>1. Around(o, "mutate")
      BY <2>3 DEF Around
    <3>2. applied[o] = 0 /\ ~Around(o, "commit") /\ ~Uploading(o)
      BY <2>3, <3>1, KindFacts DEF EffectInv, Able, Uploading
    <3>3. applied' = applied /\ wire' = wire \ {c} /\ admission' = admission
      BY <2>3 DEF ArriveMutation, diskVars
    <3>4. \A e \in wire' : ~(e.op = o /\ e.verb = "mutate")
      <4>1. ASSUME NEW e \in wire, e.op = o, e.verb = "mutate" PROVE e = c
        <5>1. e \in Call /\ c \in Call /\ e.n = 0 /\ c.n = 0
          BY <2>3, <4>1 DEF Typed, CallTyped, KindInv
        <5> QED
          BY <2>3, <4>1, <5>1 DEF Call
      <4> QED
        BY <3>3, <4>1
    <3>5. \A t \in Target : \A i \in DOMAIN locks[t] :
            ~(locks[t][i].op = o /\ locks[t][i].verb = "mutate")
      BY <2>3 DEF OnceInv
    <3>6. \A i \in DOMAIN admission : admission[i].verb # "mutate"
      BY DEF Typed, CallTyped, OpenCall, Barrier
    <3>7. ~Around(o, "mutate")'
      BY <2>3, <3>3, <3>4, <3>5, <3>6 DEF Around
    <3>8. ~Around(o, "commit")' /\ ~Uploading(o)'
      BY <1>1, <3>2, CallsMove DEF Uploading
    <3> QED
      BY <3>2, <3>3, <3>7, <3>8 DEF Dead
  <2>4. ASSUME reply'[o] = "conflict", reply'[o] # reply[o],
               NEW t \in Target, CheckCommit(t), Release(t), Holder(t).op = o
        PROVE  Dead(o)'
    <3>1. /\ locks[t] # <<>> /\ Holder(t).verb = "commit"
          /\ Around(o, "commit")
      BY <2>4, HolderIsAround DEF CheckCommit, Holds
    <3>2. /\ applied[o] = 0 /\ ~Uploading(o) /\ ~Around(o, "mutate")
      BY <3>1, KindFacts DEF EffectInv, Able, OnceInv
    <3>3. applied'[o] = applied[o]
      BY <2>4 DEF CheckCommit, FailedCommit
    <3>4. ~LoseMemory
      BY <2>4 DEF LoseMemory, callVars
    <3>5. ~Around(o, "commit")'
      BY <2>4, <3>1, <3>4, MutationEnds DEF DaemonLock
    <3>6. ~Around(o, "mutate")' /\ ~Uploading(o)'
      BY <1>1, <3>2, CallsMove DEF Uploading
    <3> QED
      BY <3>2, <3>3, <3>5, <3>6 DEF Dead
  <2>5. CASE reply'[o] # reply[o] /\ reply'[o] \in Outcome
    BY <1>3, <2>2, <2>3, <2>4, <2>5, OutcomesAnswered
  <2> QED
    BY <2>1, <2>5 DEF Outcome
<1> QED
  BY <1>1, <1>2, <1>3, DaemonKeepsRecords DEF TruthInv
\* A command that sends a call leaves everything else as it is.
ClientFrame(o) ==
  /\ UNCHANGED <<diskVars, ledgerVars, uploadVars, queueVars>>
  /\ begun' \ {o} = begun \ {o}
  /\ \A p \in Op \ {o} : /\ awaits'[p] = awaits[p] /\ reply'[p] = reply[p]
                         /\ verdict'[p] = verdict[p]

\* A request that is sent is around, and no other comes to be.
LEMMA SentIsAround ==
  ASSUME NEW o \in Op, ClientFrame(o), NEW c, c.op = o,
         wire' = wire \cup {c}, NEW p \in Op, NEW v
  PROVE  Around(p, v)' <=> Around(p, v) \/ (p = o /\ v = c.verb)
<1>1. locks' = locks /\ admission' = admission
  BY DEF ClientFrame, queueVars
<1>2. (\E e \in wire' : e.op = p /\ e.verb = v)
        <=> (\E e \in wire : e.op = p /\ e.verb = v) \/ (p = o /\ v = c.verb)
  OBVIOUS
<1> QED
  BY <1>1, <1>2 DEF Around

\* The others are not concerned.
LEMMA OthersKept ==
  ASSUME VerdictInv, NEW o \in Op, ClientFrame(o), NEW c, c.op = o,
         wire' \in {wire, wire \cup {c}}, NEW p \in Op, p # o
  PROVE  /\ \A v : Around(p, v)' <=> Around(p, v)
         /\ Able(p)' <=> Able(p)
         /\ Dead(p)' <=> Dead(p)
         /\ Shut(p)' <=> Shut(p)
         /\ Upload(p)' <=> Upload(p)
         /\ Uploading(p)' <=> Uploading(p)
<1>1. ASSUME NEW v PROVE Around(p, v)' <=> Around(p, v)
  <2>1. CASE wire' = wire
    BY <2>1 DEF ClientFrame, queueVars, Around
  <2>2. CASE wire' = wire \cup {c}
    BY <2>2, SentIsAround
  <2> QED
    BY <2>1, <2>2
<1>2. /\ awaits'[p] = awaits[p] /\ UNCHANGED <<live, applied, plan>>
  BY DEF ClientFrame, diskVars, uploadVars
<1>3. Uploading(p)' <=> Uploading(p)
  BY <1>2 DEF Uploading
<1>4. Upload(p)' <=> Upload(p)
  BY <1>2 DEF Upload
<1> QED
  BY <1>1, <1>2, <1>3, <1>4 DEF Able, Dead, Shut

\* The invariant of one operation, for the steps of its command.
OperationInv(o) ==
  /\ Around(o, "mutate") \/ awaits[o].verb = "mutate" => ~Upload(o)
  /\ ( \/ Around(o, "open") \/ Around(o, "commit") \/ o \in live
       \/ awaits[o].verb \in {"open", "chunk", "commit"} )
     => Upload(o)
  /\ o \notin begun => /\ ~Able(o) /\ applied[o] = 0
                       /\ awaits[o] = NoCall /\ state[o] = "pending"
  /\ awaits[o].verb \notin {"cancel", "expire"}
  /\ verdict[o] # "none" => o \in begun /\ awaits[o] = NoCall
  /\ Around(o, "commit") => ~Uploading(o)
  /\ applied[o] \in {0, 1} /\ (Able(o) => applied[o] = 0)
  /\ o \in live => state[o] = "pending" /\ ~Around(o, "open")
  /\ state[o] = "committed" => applied[o] = 1
  /\ state[o] \in {"conflict", "not_committed"} => Shut(o)
  /\ awaits[o].verb \in {"mutate", "commit", "status"} =>
       /\ reply[o] = "committed" => applied[o] = 1
       /\ reply[o] \in {"conflict", "not_committed"} => Dead(o)
  /\ verdict[o] = "committed" => applied[o] = 1
  /\ verdict[o] \in {"conflict", "not_committed", "failed"} => Dead(o)

\* The invariant of the verdicts, operation by operation.
LEMMA OperationsTogether ==
  ASSUME Typed
  PROVE  VerdictInv <=>
           /\ \A o \in Op : OperationInv(o)
           /\ verdict \in [Op -> Verdict]
           /\ \A c \in wire : c.verb \in {"mutate", "open", "commit"} => c.n = 0
           /\ \A t \in Target : \A i \in DOMAIN locks[t] :
                locks[t][i].verb \in {"mutate", "commit"} =>
                  /\ ~\E c \in wire : /\ c.op = locks[t][i].op
                                      /\ c.verb = locks[t][i].verb
                  /\ \A j \in DOMAIN locks[t] :
                       /\ locks[t][j].op = locks[t][i].op
                       /\ locks[t][j].verb = locks[t][i].verb
                       => j = i
           /\ \A i \in DOMAIN admission :
                admission[i].verb = "open" =>
                  /\ ~\E c \in wire : c.op = admission[i].op /\ c.verb = "open"
                  /\ \A j \in DOMAIN admission :
                       admission[j] # Barrier /\ admission[j].op = admission[i].op
                       => j = i
           /\ \A t \in Target : stage[t] = "sure" /\ Holder(t).verb = "commit"
                => Holder(t).op \in live
<1>1. live \subseteq Op
  BY DEF Typed, UploadTyped
<1> QED
  BY <1>1 DEF VerdictInv, KindInv, OnceInv, EffectInv, TruthInv, OperationInv

\* A step of one command keeps the invariant when it keeps its own part, and
\* what it sends was not sent before.
LEMMA CommandKeeps ==
  ASSUME Typed, Typed', VerdictInv, NEW o \in Op, ClientFrame(o),
         NEW c, c.op = o, wire' \in {wire, wire \cup {c}},
         c.verb \in {"mutate", "open", "commit"}
           => c.n = 0 /\ ~Around(o, c.verb),
         verdict' \in [Op -> Verdict],
         OperationInv(o)'
  PROVE  VerdictInv'
<1>1. UNCHANGED <<plan, applied, state, live, locks, admission, stage>>
  BY DEF ClientFrame, diskVars, ledgerVars, uploadVars, queueVars
<1>2. \A p \in Op : OperationInv(p)
  BY OperationsTogether
<1>3. ASSUME NEW p \in Op PROVE OperationInv(p)'
  <2>1. CASE p # o
    <3>1. /\ \A v : Around(p, v)' <=> Around(p, v)
          /\ Able(p)' <=> Able(p)
          /\ Dead(p)' <=> Dead(p)
          /\ Shut(p)' <=> Shut(p)
          /\ Upload(p)' <=> Upload(p)
          /\ Uploading(p)' <=> Uploading(p)
      BY <2>1, OthersKept
    <3>2. /\ awaits'[p] = awaits[p] /\ reply'[p] = reply[p]
          /\ verdict'[p] = verdict[p] /\ (p \in begun' <=> p \in begun)
      BY <2>1 DEF ClientFrame
    <3> QED
      BY <1>1, <1>2, <3>1, <3>2 DEF OperationInv
  <2> QED
    BY <2>1
<1>4. \A e \in wire' : e.verb \in {"mutate", "open", "commit"} => e.n = 0
  BY DEF VerdictInv, KindInv
<1>5. ASSUME NEW t \in Target, NEW i \in DOMAIN locks[t],
             locks[t][i].verb \in {"mutate", "commit"}
      PROVE  ~\E e \in wire' : /\ e.op = locks[t][i].op
                               /\ e.verb = locks[t][i].verb
  <2>1. Around(locks[t][i].op, locks[t][i].verb)
    BY DEF Around
  <2>2. ~\E e \in wire : /\ e.op = locks[t][i].op
                         /\ e.verb = locks[t][i].verb
    BY <1>5 DEF VerdictInv, OnceInv
  <2> QED
    BY <1>5, <2>1, <2>2
<1>6. ASSUME NEW i \in DOMAIN admission, admission[i].verb = "open"
      PROVE  ~\E e \in wire' : e.op = admission[i].op /\ e.verb = "open"
  <2>1. Around(admission[i].op, "open")
    BY <1>6 DEF Around
  <2>2. ~\E e \in wire : e.op = admission[i].op /\ e.verb = "open"
    BY <1>6 DEF VerdictInv, OnceInv
  <2> QED
    BY <2>1, <2>2
<1>7. /\ \A t \in Target : \A i \in DOMAIN locks[t] :
           locks[t][i].verb \in {"mutate", "commit"} =>
             \A j \in DOMAIN locks[t] :
               /\ locks[t][j].op = locks[t][i].op
               /\ locks[t][j].verb = locks[t][i].verb
               => j = i
      /\ \A i \in DOMAIN admission :
           admission[i].verb = "open" =>
             \A j \in DOMAIN admission :
               admission[j] # Barrier /\ admission[j].op = admission[i].op
               => j = i
      /\ \A t \in Target : stage[t] = "sure" /\ Holder(t).verb = "commit"
           => Holder(t).op \in live
  BY OperationsTogether
<1> QED
  BY <1>1, <1>3, <1>4, <1>5, <1>6, <1>7
  DEF VerdictInv, KindInv, OnceInv, EffectInv, TruthInv, OperationInv, Holder,
      Typed, UploadTyped
\* The calls of a command: its first, a question about a mutation, the next
\* call of an upload.
LEMMA SendKeeps ==
  ASSUME Typed, Typed', VerdictInv, NEW o \in Op,
         NEW verb \in {"mutate", "open", "chunk", "commit", "status"},
         NEW n \in Nat, Send(o, verb, n),
         UNCHANGED <<diskVars, ledgerVars, uploadVars, queueVars, verdict>>,
         begun' = begun \cup {o},
         verb \in {"mutate", "open", "commit"} => n = 0,
         \/ o \notin begun /\ verb = IF Upload(o) THEN "open" ELSE "mutate"
         \/ /\ verb = "status" /\ o \in begun
            /\ awaits[o].verb \in {"mutate", "commit"}
         \/ verb \in {"chunk", "commit"} /\ o \in begun /\ Uploading(o)
  PROVE  VerdictInv'
<1> DEFINE c == [op |-> o, verb |-> verb, n |-> n]
<1>1. /\ wire' = wire \cup {c} /\ c.op = o /\ c.verb = verb
      /\ awaits' = [awaits EXCEPT ![o] = c]
      /\ reply' = [reply EXCEPT ![o] = "none"]
      /\ awaits \in [Op -> Call \cup {NoCall}] /\ reply \in [Op -> Reply]
  BY DEF Send, Typed, CallTyped
<1>2. ClientFrame(o)
  BY <1>1 DEF ClientFrame
<1>3. /\ awaits'[o].verb = verb /\ reply'[o] = "none"
      /\ c.verb \in {"mutate", "open", "commit"} => c.n = 0
  BY <1>1
<1>4. UNCHANGED <<plan, applied, state, live, verdict>> /\ o \in begun'
  BY DEF diskVars, ledgerVars, uploadVars
<1> HIDE DEF c
<1>5. \A v : Around(o, v)' <=> Around(o, v) \/ v = verb
  BY <1>1, <1>2, SentIsAround
<1>6. OperationInv(o)
  BY OperationsTogether
<1>7. verdict[o] = "none"
  BY <1>6 DEF OperationInv, NoCall, Uploading
<1>8. Upload(o)' <=> Upload(o)
  BY <1>4 DEF Upload
<1>9. CASE o \notin begun /\ verb = IF Upload(o) THEN "open" ELSE "mutate"
  <2>1. /\ ~Able(o) /\ applied[o] = 0 /\ state[o] = "pending"
        /\ ~Around(o, "mutate") /\ ~Around(o, "open")
        /\ ~Around(o, "commit") /\ o \notin live
    BY <1>6, <1>9 DEF OperationInv, Able
  <2>2. OperationInv(o)'
    BY <1>3, <1>4, <1>5, <1>7, <1>8, <1>9, <2>1 DEF OperationInv, Uploading
  <2>3. ~Around(o, c.verb)
    BY <1>1, <1>9, <2>1
  <2> QED
    BY <1>1, <1>2, <1>3, <1>4, <2>2, <2>3, CommandKeeps
    DEF VerdictInv, KindInv
<1>10. CASE /\ verb = "status" /\ o \in begun
            /\ awaits[o].verb \in {"mutate", "commit"}
  <2>1. /\ Around(o, "mutate")' <=> Around(o, "mutate")
        /\ Around(o, "open")' <=> Around(o, "open")
        /\ Around(o, "commit")' <=> Around(o, "commit")
        /\ ~Uploading(o) /\ ~Uploading(o)'
    BY <1>3, <1>5, <1>10 DEF Uploading
  <2>2. /\ Able(o)' <=> Able(o)
        /\ Shut(o)' <=> Shut(o)
    BY <1>4, <2>1 DEF Able, Shut
  <2>3. OperationInv(o)'
    BY <1>3, <1>4, <1>6, <1>7, <1>8, <1>10, <2>1, <2>2 DEF OperationInv
  <2> QED
    BY <1>1, <1>2, <1>3, <1>4, <1>10, <2>3, CommandKeeps
    DEF VerdictInv, KindInv
<1>11. CASE verb \in {"chunk", "commit"} /\ o \in begun /\ Uploading(o)
  <2>1. /\ Upload(o) /\ applied[o] = 0 /\ ~Around(o, "commit")
        /\ ~Around(o, "mutate")
    <3>1. Able(o)
      BY <1>11 DEF Able
    <3>2. awaits[o].verb \in {"open", "chunk", "commit"}
      BY <1>11 DEF Uploading
    <3> QED
      BY <1>6, <1>11, <3>1, <3>2 DEF OperationInv
  <2>2. /\ ~Around(o, "mutate")'
        /\ Around(o, "open")' <=> Around(o, "open")
        /\ Around(o, "commit")' => ~Uploading(o)'
    BY <1>3, <1>5, <1>11, <2>1 DEF Uploading
  <2>3. Shut(o) => Shut(o)'
    BY <1>4, <2>2 DEF Shut
  <2>4. OperationInv(o)'
    BY <1>3, <1>4, <1>6, <1>7, <1>8, <1>11, <2>1, <2>2, <2>3
    DEF OperationInv
  <2>5. c.verb \in {"mutate", "open", "commit"} => ~Around(o, c.verb)
    BY <1>1, <1>11, <2>1
  <2> QED
    BY <1>1, <1>2, <1>3, <1>4, <2>4, <2>5, CommandKeeps
    DEF VerdictInv, KindInv
<1> QED
  BY <1>9, <1>10, <1>11

\* A verdict is the outcome that was answered, or comes before the commit was
\* sent.
LEMMA DecideKeeps ==
  ASSUME Typed, Typed', VerdictInv, NEW o \in Op, NEW v \in Verdict \ {"none"},
         Decide(o, v),
         UNCHANGED <<diskVars, ledgerVars, uploadVars, queueVars, begun>>,
         o \in begun,
         v = "committed" => applied[o] = 1,
         v \in {"conflict", "not_committed"} => Dead(o),
         v = "failed" => Uploading(o)
  PROVE  VerdictInv'
<1> DEFINE c == [op |-> o, verb |-> "cancel", n |-> 0]
<1>1. /\ wire' \in {wire, wire \cup {c}} /\ c.op = o /\ c.verb = "cancel"
      /\ awaits' = [awaits EXCEPT ![o] = NoCall]
      /\ reply' = [reply EXCEPT ![o] = "none"]
      /\ verdict' = [verdict EXCEPT ![o] = v]
      /\ awaits \in [Op -> Call \cup {NoCall}] /\ reply \in [Op -> Reply]
      /\ verdict \in [Op -> Verdict]
  BY DEF Decide, Typed, CallTyped, VerdictInv, KindInv
<1>2. ClientFrame(o)
  BY <1>1 DEF ClientFrame
<1>3. /\ awaits'[o] = NoCall /\ awaits'[o].verb = "none"
      /\ reply'[o] = "none" /\ verdict'[o] = v
      /\ verdict' \in [Op -> Verdict]
  BY <1>1 DEF NoCall
<1>4. UNCHANGED <<plan, applied, state, live, begun>>
  BY DEF diskVars, ledgerVars, uploadVars
<1> HIDE DEF c
<1>5. \A w \in {"mutate", "open", "commit"} : Around(o, w)' <=> Around(o, w)
  <2>1. CASE wire' = wire
    BY <1>2, <2>1 DEF ClientFrame, queueVars, Around
  <2>2. CASE wire' = wire \cup {c}
    BY <1>1, <1>2, <2>2, SentIsAround
  <2> QED
    BY <1>1, <2>1, <2>2
<1>6. OperationInv(o)
  BY OperationsTogether
<1>7. ~Uploading(o)' /\ (Upload(o)' <=> Upload(o))
  BY <1>3, <1>4 DEF Uploading, Upload
<1>8. /\ Around(o, "mutate")' <=> Around(o, "mutate")
      /\ Around(o, "open")' <=> Around(o, "open")
      /\ Around(o, "commit")' <=> Around(o, "commit")
  BY <1>5
<1>9. /\ Able(o)' => Able(o)
      /\ Shut(o)' <=> Shut(o)
      /\ Dead(o) => Dead(o)'
  BY <1>4, <1>7, <1>8 DEF Able, Shut, Dead
<1>10. v = "failed" => Dead(o)'
  <2> SUFFICES ASSUME v = "failed" PROVE Dead(o)'
    OBVIOUS
  <2>1. Able(o) /\ awaits[o].verb \in {"open", "chunk", "commit"}
    BY DEF Able, Uploading
  <2>2. ~Around(o, "commit") /\ ~Around(o, "mutate") /\ applied[o] = 0
    BY <1>6, <2>1 DEF OperationInv
  <2> QED
    BY <1>4, <1>7, <1>8, <2>2 DEF Dead
<1>11. OperationInv(o)'
  BY <1>3, <1>4, <1>6, <1>7, <1>8, <1>9, <1>10 DEF OperationInv
<1> QED
  BY <1>1, <1>2, <1>3, <1>11, CommandKeeps

\* The commands keep the invariant of the verdicts.
LEMMA CommandsKeepVerdicts ==
  ASSUME Typed, OpenInv, VerdictInv, ClientNext
  PROVE  VerdictInv'
<1>1. Typed'
  BY ClientTyped
<1>2. PICK o \in Op : ClientStep(o)
  BY DEF ClientNext
<1>3. UNCHANGED <<diskVars, ledgerVars, uploadVars, queueVars>>
  BY DEF ClientNext
<1>4. /\ OperationInv(o) /\ begun = begun
      /\ awaits \in [Op -> Call \cup {NoCall}] /\ awaits[o].n \in Nat
      /\ reply \in [Op -> Reply] /\ verdict \in [Op -> Verdict]
      /\ Index(awaits[o]) \in Nat
  BY OperationsTogether DEF Typed, CallTyped, Call, NoCall, Index
<1>5. awaits[o] # NoCall => o \in begun
  BY <1>4 DEF OperationInv
<1>6. /\ awaits[o].verb \in {"mutate", "open", "chunk", "commit", "status"}
           => o \in begun
      /\ o \in begun => begun = begun \cup {o}
  BY <1>5 DEF NoCall
<1>7. CASE Begin(o)
  <2>1. \/ Upload(o) /\ Send(o, "open", 0)
        \/ ~Upload(o) /\ Send(o, "mutate", 0)
    BY <1>7 DEF Begin, Upload
  <2>2. o \notin begun /\ begun' = begun \cup {o} /\ verdict' = verdict
    BY <1>7 DEF Begin
  <2>3. CASE Upload(o) /\ Send(o, "open", 0)
    BY <1>1, <1>3, <2>2, <2>3, SendKeeps
  <2>4. CASE ~Upload(o) /\ Send(o, "mutate", 0)
    BY <1>1, <1>3, <2>2, <2>4, SendKeeps
  <2> QED
    BY <2>1, <2>3, <2>4
<1>8. CASE HearMutation(o)
  <2>1. /\ awaits[o].verb \in {"mutate", "commit"} /\ begun' = begun
        /\ o \in begun
    BY <1>6, <1>8 DEF HearMutation, Heard
  <2>2. CASE reply[o] \in Outcome /\ Decide(o, reply[o])
    <3>1. /\ reply[o] = "committed" => applied[o] = 1
          /\ reply[o] \in {"conflict", "not_committed"} => Dead(o)
      BY <1>4, <2>1 DEF OperationInv
    <3> DEFINE v == reply[o]
    <3>2. v \in Verdict \ {"none"} /\ v # "failed"
      BY <2>2 DEF Outcome, Verdict
    <3>3. PICK w \in Verdict \ {"none"} : w = v
      BY <3>2
    <3> QED
      BY <1>1, <1>3, <2>1, <2>2, <3>1, <3>2, <3>3, DecideKeeps
  <2>3. CASE Send(o, "status", 0) /\ verdict' = verdict
    BY <1>1, <1>3, <1>6, <2>1, <2>3, SendKeeps
  <2> QED
    BY <1>8, <2>2, <2>3 DEF HearMutation
<1>9. CASE HearStatus(o)
  <2>1. /\ awaits[o].verb = "status" /\ begun' = begun /\ o \in begun
    BY <1>6, <1>9 DEF HearStatus, Heard
  <2>2. /\ reply[o] = "committed" => applied[o] = 1
        /\ reply[o] \in {"conflict", "not_committed"} => Dead(o)
    BY <1>4, <2>1 DEF OperationInv
  <2>3. PICK w \in Verdict \ {"none"} :
          w = IF reply[o] \in Outcome THEN reply[o] ELSE "unknown"
    BY DEF Outcome, Verdict
  <2>4. Decide(o, w)
    BY <1>9, <2>3 DEF HearStatus
  <2>5. /\ w = "committed" => applied[o] = 1
        /\ w \in {"conflict", "not_committed"} => Dead(o)
        /\ w # "failed"
    BY <2>2, <2>3 DEF Outcome
  <2> QED
    BY <1>1, <1>3, <2>1, <2>4, <2>5, DecideKeeps
<1>10. CASE HearOpen(o)
  <2>1. /\ Uploading(o) /\ begun' = begun /\ o \in begun
    BY <1>6, <1>10 DEF HearOpen, Heard, Uploading
  <2>2. \/ Send(o, "commit", 0) /\ verdict' = verdict
        \/ Send(o, "chunk", 1) /\ verdict' = verdict
        \/ Decide(o, "failed")
    BY <1>10 DEF HearOpen
  <2>3. CASE Send(o, "commit", 0) /\ verdict' = verdict
    BY <1>1, <1>3, <1>6, <2>1, <2>3, SendKeeps
  <2>4. CASE Send(o, "chunk", 1) /\ verdict' = verdict
    BY <1>1, <1>3, <1>6, <2>1, <2>4, SendKeeps
  <2>5. CASE Decide(o, "failed")
    BY <1>1, <1>3, <2>1, <2>5, DecideKeeps DEF Verdict
  <2> QED
    BY <2>2, <2>3, <2>4, <2>5
<1>11. CASE HearChunk(o)
  <2>1. /\ Uploading(o) /\ begun' = begun /\ o \in begun
    BY <1>6, <1>11 DEF HearChunk, Heard, Uploading
  <2>2. \/ Send(o, "commit", 0) /\ verdict' = verdict
        \/ \E n \in Nat : Send(o, "chunk", n) /\ verdict' = verdict
        \/ Decide(o, "failed")
    <3>1. 2 * Index(awaits[o]) + 1 \in Nat /\ awaits[o].n + 1 \in Nat
      BY <1>4
    <3> QED
      BY <1>11, <3>1 DEF HearChunk
  <2>3. CASE Send(o, "commit", 0) /\ verdict' = verdict
    BY <1>1, <1>3, <1>6, <2>1, <2>3, SendKeeps
  <2>4. ASSUME NEW n \in Nat, Send(o, "chunk", n), verdict' = verdict
        PROVE  VerdictInv'
    BY <1>1, <1>3, <1>6, <2>1, <2>4, SendKeeps
  <2>5. CASE Decide(o, "failed")
    BY <1>1, <1>3, <2>1, <2>5, DecideKeeps DEF Verdict
  <2> QED
    BY <2>2, <2>3, <2>4, <2>5
<1>12. CASE GiveUpWaiting(o)
  <2> DEFINE c == [op |-> o, verb |-> "cancel", n |-> 0]
  <2>1. /\ ClientFrame(o) /\ c.op = o /\ wire' = wire
        /\ verdict' = verdict
        /\ ~(c.verb \in {"mutate", "open", "commit"})
    BY <1>3, <1>4, <1>12 DEF GiveUpWaiting, ClientFrame
  <2>2. /\ awaits' = awaits /\ begun' = begun /\ reply'[o] = "lost"
        /\ UNCHANGED <<plan, applied, state, live, locks, admission>>
    BY <1>3, <1>4, <1>12 DEF GiveUpWaiting, diskVars, ledgerVars, uploadVars,
                             queueVars
  <2>3. \A v : Around(o, v)' <=> Around(o, v)
    BY <2>1, <2>2 DEF Around
  <2>4. /\ Upload(o)' <=> Upload(o)
        /\ Uploading(o)' <=> Uploading(o)
    BY <2>2 DEF Upload, Uploading
  <2>5. /\ Able(o)' <=> Able(o)
        /\ Dead(o)' <=> Dead(o)
        /\ Shut(o)' <=> Shut(o)
    BY <2>2, <2>3, <2>4 DEF Able, Dead, Shut
  <2>6. OperationInv(o)'
    BY <1>4, <2>1, <2>2, <2>3, <2>4, <2>5 DEF OperationInv
  <2> HIDE DEF c
  <2> QED
    BY <1>1, <1>4, <2>1, <2>6, CommandKeeps
<1> QED
  BY <1>2, <1>7, <1>8, <1>9, <1>10, <1>11, <1>12 DEF ClientStep

\* Every step keeps the invariant of the verdicts.
LEMMA VerdictsKept ==
  ASSUME Typed, OpenInv, VerdictInv, [Next]_allVars
  PROVE  VerdictInv'
<1>1. CASE ClientNext
  BY <1>1, CommandsKeepVerdicts
<1>2. CASE DaemonNext /\ UNCHANGED clientVars
  <2>1. KindInv' /\ TruthInv'
    BY <1>2, DaemonKeepsKinds, DaemonKeepsTruth
  <2>2. OnceInv' /\ EffectInv'
    BY <1>2, DaemonKeepsOnce, DaemonKeepsEffects DEF VerdictInv
  <2> QED
    BY <2>1, <2>2 DEF VerdictInv
<1>3. CASE UNCHANGED allVars
  <2>1. /\ UNCHANGED <<plan, applied, state, live, locks, admission, stage>>
        /\ UNCHANGED <<wire, awaits, reply, verdict, begun>>
    BY <1>3 DEF allVars, vars, diskVars, ledgerVars, uploadVars, queueVars,
                callVars, clientVars
  <2>2. \A o, v : Around(o, v)' <=> Around(o, v)
    BY <2>1 DEF Around
  <2>3. \A o : /\ Upload(o)' <=> Upload(o)
               /\ Uploading(o)' <=> Uploading(o)
    BY <2>1 DEF Upload, Uploading
  <2>4. \A o : /\ Able(o)' <=> Able(o)
               /\ Dead(o)' <=> Dead(o)
               /\ Shut(o)' <=> Shut(o)
    BY <2>1, <2>2, <2>3 DEF Able, Dead, Shut
  <2> QED
    BY <2>1, <2>2, <2>3, <2>4
    DEF VerdictInv, KindInv, OnceInv, EffectInv, TruthInv, Holder
<1> QED
  BY <1>1, <1>2, <1>3 DEF Next

\* It holds in the first state.
LEMMA VerdictsFirst ==
  ASSUME Init
  PROVE  VerdictInv
<1>1. /\ wire = {} /\ admission = <<>> /\ locks = [t \in Target |-> <<>>]
      /\ awaits = [o \in Op |-> NoCall] /\ live = {} /\ begun = {}
      /\ applied = [o \in Op |-> 0] /\ state = [o \in Op |-> "pending"]
      /\ reply = [o \in Op |-> "none"] /\ verdict = [o \in Op |-> "none"]
      /\ stage = [t \in Target |-> "wait"]
  BY DEF Init, FilesystemInit, Memory
<1>2. \A o, v : ~Around(o, v)
  BY <1>1 DEF Around
<1>3. \A o \in Op : awaits[o].verb = "none" /\ ~Uploading(o)
  BY <1>1 DEF Uploading, NoCall
<1>4. \A o \in Op : ~Able(o)
  BY <1>1, <1>2, <1>3 DEF Able
<1> QED
  BY <1>1, <1>2, <1>3, <1>4
  DEF VerdictInv, KindInv, OnceInv, EffectInv, TruthInv, Verdict

\* What a command tells its user is so, and stays so, although calls are
\* lost, late or overtaken and the daemon's memory is lost: "committed" means
\* that the effect happened exactly once, an error that it never did and never
\* will (mutationCall() and the upload of src/commands/fs.ts, replayMutation()
\* and cleanupMutations() of the daemon).
THEOREM VerdictsHold == Spec => []VerdictsAreTrue
<1>1. Init => VerdictInv
  BY VerdictsFirst
<1>2. Typed /\ OpenInv /\ VerdictInv /\ [Next]_allVars => VerdictInv'
  BY VerdictsKept
<1>3. VerdictInv => VerdictsAreTrue
  BY DEF VerdictInv, TruthInv, Dead, VerdictsAreTrue
<1> QED
  BY <1>1, <1>2, <1>3, FilesystemTyped, PTL DEF Spec
-----------------------------------------------------------------------------
(* The ledger, the chunks and the counts.                                  *)

\* An entry of the ledger is an operation, entered after other entries.
LedgerTyped ==
  /\ DOMAIN entries \subseteq Op
  /\ entries \in [DOMAIN entries -> SUBSET DOMAIN entries]

\* Two sends for every chunk; no more chunks are sent or taken than there are.
InRange(c) == c.verb = "chunk" => c.n \in 1..(2 * plan.chunks)
ChunkInv ==
  /\ \A c \in wire : InRange(c)
  /\ \A t \in Target : \A i \in DOMAIN locks[t] : InRange(locks[t][i])
  /\ \A o \in Op : InRange(awaits[o])
  /\ got \in [Op -> 0..plan.chunks]

CountsTyped ==
  /\ tombs \subseteq Op /\ saturated \in BOOLEAN /\ closing \in BOOLEAN
  /\ faults \in 0..plan.faults
  /\ begun \subseteq Op /\ timeouts \in 0..plan.timeouts

\* The plan stays, and its bounds are numbers.
LEMMA PlanStays ==
  ASSUME Typed, [Next]_allVars
  PROVE  /\ plan' = plan /\ plan.chunks \in Nat
         /\ plan.faults \in Nat /\ plan.timeouts \in Nat
<1>1. ASSUME NEW t \in Target,
             DaemonLock(t) \/ FailMutation(t) \/ FailOpen(t)
      PROVE  plan' = plan
  BY <1>1, LockSteps
<1>2. OuterStep /\ ~LoseMemory => plan' = plan
  BY OuterLeaves
<1>3. LoseMemory => plan' = plan
  BY DEF LoseMemory
<1>4. plan' = plan
  BY <1>1, <1>2, <1>3 DEF Next, DaemonNext, OuterStep, AroundStep
<1> QED
  BY <1>4, FilesystemAssumption
  DEF Typed, DiskTyped, FilesystemAssumption, Plan

\* What cleanupMutations() keeps was there.
LEMMA CleanupsKeep ==
  ASSUME NEW kept \in Cleanups
  PROVE  kept \subseteq DOMAIN entries
BY DEF Cleanups, Kept

\* What is kept of the ledger is a ledger.
LEMMA RetainKeepsLedger ==
  ASSUME LedgerTyped, NEW kept \in SUBSET DOMAIN entries, Retain(kept)
  PROVE  LedgerTyped'
<1>1. entries' = [o \in kept |-> entries[o] \cap kept]
  BY DEF Retain
<1>2. DOMAIN entries' = kept /\ kept \subseteq Op
  BY <1>1 DEF LedgerTyped
<1>3. entries' \in [kept -> SUBSET kept]
  BY <1>1
<1> QED
  BY <1>2, <1>3 DEF LedgerTyped

\* So it is with a new entry.
LEMMA EnterKeepsLedger ==
  ASSUME LedgerTyped, NEW o \in Op, NEW kept \in SUBSET DOMAIN entries,
         Enter(o, kept)
  PROVE  LedgerTyped'
<1> DEFINE all == kept \cup {o}
<1>1. entries' = [p \in all |-> IF p = o THEN kept ELSE entries[p] \cap kept]
  BY DEF Enter
<1>2. DOMAIN entries' = all /\ all \subseteq Op
  BY <1>1 DEF LedgerTyped
<1>3. entries' \in [all -> SUBSET all]
  BY <1>1
<1> QED
  BY <1>2, <1>3 DEF LedgerTyped

\* Every step keeps the ledger.
LEMMA LedgerKept ==
  ASSUME Typed, LedgerTyped, [Next]_allVars
  PROVE  LedgerTyped'
<1>1. CASE entries' = entries
  BY <1>1 DEF LedgerTyped
<1>2. CASE LoseMemory
  BY <1>2 DEF LoseMemory, Unentered, LedgerTyped
<1>3. ASSUME NEW c \in wire, ArriveMutation(c)
      PROVE  LedgerTyped'
  <2>1. PICK kept \in SUBSET DOMAIN entries :
          Retain(kept) \/ Enter(c.op, kept)
    BY <1>3, CleanupsKeep DEF ArriveMutation
  <2>2. c.op \in Op
    BY DEF Typed, CallTyped, Call
  <2> QED
    BY <2>1, <2>2, RetainKeepsLedger, EnterKeepsLedger
<1>4. CASE Admit
  <2>1. entries' = entries \/ \E kept \in SUBSET DOMAIN entries : Retain(kept)
    BY <1>4, CleanupsKeep DEF Admit, ledgerVars
  <2> QED
    BY <1>1, <2>1, RetainKeepsLedger
<1>5. ASSUME NEW t \in Target, PublishUpload(t)
      PROVE  LedgerTyped'
  <2>1. Holder(t).op \in Op
    BY <1>5, HolderFacts DEF PublishUpload, Holds, Typed
  <2>2. \/ entries' = entries
        \/ Enter(Holder(t).op, DOMAIN entries \ {Holder(t).op})
    BY <1>5 DEF PublishUpload, ledgerVars
  <2> QED
    BY <1>1, <2>1, <2>2, EnterKeepsLedger
<1>6. ASSUME NEW t \in Target, ~PublishUpload(t), ~LoseMemory,
             DaemonLock(t) \/ FailMutation(t) \/ FailOpen(t)
      PROVE  entries' = entries
  BY <1>6 DEF DaemonLock, TakeBaseline, LookAgain, TakeEffect, GiveUp,
     OpenTemporary, TakeChunk, CheckCommit, CommitUpload, CancelUpload,
     ExpiryKills, FailMutation, FailOpen, FailedCommit, Record, ledgerVars
<1>7. ASSUME NEW c \in wire, \/ ArriveStatus(c) \/ ArriveOpen(c)
                             \/ ArriveTransfer(c) \/ ArriveCancel(c)
      PROVE  entries' = entries
  BY <1>7 DEF ArriveStatus, ArriveOpen, ArriveTransfer, ArriveCancel,
              ledgerVars
<1>8. ASSUME AroundStep, ~Admit, ~LoseMemory
      PROVE  entries' = entries
  BY <1>8 DEF AroundStep, AlienWrite, Expire, ForgetTombstone,
     EndSaturation, Close, PassBarrier, Exit, Crash, ledgerVars
<1>9. CASE ClientNext \/ UNCHANGED allVars
  BY <1>1, <1>9 DEF ClientNext, allVars, vars, ledgerVars
<1> QED
  BY <1>1, <1>2, <1>3, <1>4, <1>5, <1>6, <1>7, <1>8, <1>9
  DEF Next, DaemonNext, AroundStep

\* A tombstone is left for an operation, and nothing is counted beyond its
\* bound.
LEMMA CountsKept ==
  ASSUME Typed, CountsTyped, [Next]_allVars
  PROVE  CountsTyped'
<1>1. /\ plan' = plan /\ plan.chunks \in Nat
      /\ plan.faults \in Nat /\ plan.timeouts \in Nat
  BY PlanStays
<1>2. /\ faults' = faults \/ (faults < plan.faults /\ faults' = faults + 1)
      /\ closing' = closing \/ closing' \in BOOLEAN
  <2>1. ASSUME NEW t \in Target, ~LoseMemory,
               DaemonLock(t) \/ FailMutation(t) \/ FailOpen(t)
        PROVE  UNCHANGED lifeVars
    BY <2>1 DEF DaemonLock, TakeBaseline, LookAgain, TakeEffect, GiveUp,
       OpenTemporary, PublishUpload, TakeChunk, CheckCommit, CommitUpload,
       CancelUpload, ExpiryKills, FailMutation, FailOpen
  <2>2. ASSUME NEW c \in wire, \/ ArriveMutation(c) \/ ArriveStatus(c)
                               \/ ArriveOpen(c) \/ ArriveTransfer(c)
                               \/ ArriveCancel(c)
        PROVE  UNCHANGED lifeVars
    BY <2>2 DEF ArriveMutation, ArriveStatus, ArriveOpen, ArriveTransfer,
                ArriveCancel
  <2>3. CASE AroundStep
    BY <2>3 DEF AroundStep, AlienWrite, Expire, ForgetTombstone, Admit,
       EndSaturation, Close, PassBarrier, Exit, Crash, LoseMemory, lifeVars
  <2>4. ASSUME NEW t \in Target, LoseMemory,
               DaemonLock(t) \/ FailMutation(t) \/ FailOpen(t)
        PROVE  faults' = faults /\ closing' = FALSE
    BY <2>4 DEF LoseMemory, DaemonLock, TakeBaseline, LookAgain, TakeEffect,
       GiveUp, OpenTemporary, PublishUpload, TakeChunk, CheckCommit,
       CommitUpload, CancelUpload, ExpiryKills, FailMutation, FailOpen,
       lifeVars
  <2>5. CASE ClientNext \/ UNCHANGED allVars
    BY <2>5 DEF ClientNext, allVars, vars, lifeVars
  <2> QED
    BY <2>1, <2>2, <2>3, <2>4, <2>5
    DEF Next, DaemonNext, AroundStep, lifeVars
<1>3. /\ begun' \subseteq Op
      /\ \/ timeouts' = timeouts
         \/ timeouts < plan.timeouts /\ timeouts' = timeouts + 1
  BY DEF Next, ClientNext, ClientStep, Begin, GiveUpWaiting, HearMutation,
     HearStatus, HearOpen, HearChunk, clientVars, allVars, CountsTyped
<1>4. tombs' \subseteq Op /\ saturated' \in BOOLEAN
  <2>1. ASSUME NEW o \in Op, NothingToCancel(o)
        PROVE  tombs' \subseteq Op /\ saturated' \in BOOLEAN
    BY <2>1 DEF NothingToCancel, LeaveTombstone, cancelVars, CountsTyped
  <2>2. CASE UNCHANGED cancelVars
    BY <2>2 DEF cancelVars, CountsTyped
  <2>3. ASSUME NEW t \in Target, ~LoseMemory,
               DaemonLock(t) \/ FailMutation(t) \/ FailOpen(t)
        PROVE  UNCHANGED cancelVars \/ \E o \in Op : NothingToCancel(o)
    <3>1. Holder(t).op \in Op
      BY <2>3, LockSteps, HolderFacts DEF Typed
    <3> QED
      BY <2>3, <3>1 DEF DaemonLock, TakeBaseline, LookAgain, TakeEffect,
         GiveUp, OpenTemporary, PublishUpload, TakeChunk, CheckCommit,
         CommitUpload, CancelUpload, ExpiryKills, FailMutation, FailOpen
  <2>4. ASSUME NEW c \in wire, \/ ArriveMutation(c) \/ ArriveStatus(c)
                               \/ ArriveOpen(c) \/ ArriveTransfer(c)
                               \/ ArriveCancel(c)
        PROVE  UNCHANGED cancelVars \/ \E o \in Op : NothingToCancel(o)
    <3>1. c.op \in Op
      BY DEF Typed, CallTyped, Call
    <3> QED
      BY <2>4, <3>1 DEF ArriveMutation, ArriveStatus, ArriveOpen,
         ArriveTransfer, ArriveCancel
  <2>5. CASE AroundStep
    BY <2>5 DEF AroundStep, AlienWrite, Expire, ForgetTombstone, Admit,
       EndSaturation, Close, PassBarrier, Exit, Crash, LoseMemory,
       cancelVars, CountsTyped
  <2>6. CASE LoseMemory
    BY <2>6 DEF LoseMemory
  <2>7. CASE ClientNext \/ UNCHANGED allVars
    BY <2>2, <2>7 DEF ClientNext, allVars, vars
  <2> QED
    BY <2>1, <2>2, <2>3, <2>4, <2>5, <2>6, <2>7
    DEF Next, DaemonNext, AroundStep
<1> QED
  BY <1>1, <1>2, <1>3, <1>4 DEF CountsTyped

\* The arithmetic of the sends: the first send of a chunk has an odd number,
\* the second the next one.
LEMMA SendsOfAChunk ==
  ASSUME NEW k \in Nat, NEW n \in 1..(2 * k)
  PROVE  /\ (n + 1) \div 2 \in 1..k
         /\ n % 2 = 1 => n + 1 \in 1..(2 * k)
         /\ (n + 1) \div 2 < k => 2 * ((n + 1) \div 2) + 1 \in 1..(2 * k)
OBVIOUS

\* What a step of the daemon leaves of the numbers of the chunks.
LEMMA DaemonKeepsChunks ==
  ASSUME Typed, OpenInv, ChunkInv, DaemonNext, plan' = plan,
         plan.chunks \in Nat
  PROVE  ChunkInv'
<1>1. \A c : InRange(c)' <=> InRange(c)
  BY DEF InRange
<1>2. /\ \A c \in wire' : InRange(c)'
      /\ \A o \in Op : InRange(awaits[o])'
  BY <1>1, WireShrinks DEF ChunkInv, InRange
<1>3. ASSUME NEW t \in Target, NEW i \in DOMAIN locks'[t]
      PROVE  InRange(locks'[t][i])
  <2>1. PICK d \in {0, 1} : Former(t, i, d)
    BY <1>3, QueuedBefore
  <2>2. \/ \E j \in DOMAIN locks[t] : locks'[t][i] = locks[t][j]
        \/ locks'[t][i] \in wire
        \/ locks'[t][i].verb # "chunk"
    BY <2>1 DEF Former
  <2> QED
    BY <2>2 DEF ChunkInv, InRange
<1>4. got' \in [Op -> 0..plan.chunks]
  <2>1. CASE got' = got \/ LoseMemory
    BY <2>1 DEF ChunkInv, LoseMemory
  <2>2. ASSUME NEW t \in Target, PublishUpload(t) PROVE got' = got
               \/ got' = [got EXCEPT ![Holder(t).op] = 0]
    BY <2>2 DEF PublishUpload, uploadVars
  <2>3. ASSUME NEW t \in Target, TakeChunk(t)
        PROVE  got' \in [Op -> 0..plan.chunks]
    <3> DEFINE c == Holder(t)
    <3>1. /\ 1 \in DOMAIN locks[t] /\ c = locks[t][1]
          /\ c.op \in Op /\ c.verb = "chunk"
      BY <2>3, HolderFacts DEF TakeChunk, Holds, Typed
    <3>2. c.n \in 1..(2 * plan.chunks)
      BY <3>1 DEF ChunkInv, InRange
    <3>3. Index(c) \in 1..plan.chunks
      BY <3>2, SendsOfAChunk DEF Index
    <3>4. \/ got' = got
          \/ /\ Index(c) = got[c.op] + 1
             /\ got' = [got EXCEPT ![c.op] = got[c.op] + 1]
      BY <2>3 DEF TakeChunk
    <3> HIDE DEF c
    <3> QED
      BY <3>1, <3>3, <3>4 DEF ChunkInv
  <2>4. ASSUME NEW t \in Target, ~PublishUpload(t), ~TakeChunk(t),
               ~LoseMemory, DaemonLock(t) \/ FailMutation(t) \/ FailOpen(t)
        PROVE  got' = got
    BY <2>4 DEF DaemonLock, TakeBaseline, LookAgain, TakeEffect, GiveUp,
       OpenTemporary, CheckCommit, CommitUpload, CancelUpload, ExpiryKills,
       FailMutation, FailOpen, FailedCommit, Drop, uploadVars
  <2>5. ASSUME NEW c \in wire, \/ ArriveMutation(c) \/ ArriveStatus(c)
                               \/ ArriveOpen(c) \/ ArriveTransfer(c)
                               \/ ArriveCancel(c)
        PROVE  got' = got
    BY <2>5 DEF ArriveMutation, ArriveStatus, ArriveOpen, ArriveTransfer,
                ArriveCancel, uploadVars
  <2>6. ASSUME AroundStep, ~LoseMemory PROVE got' = got
    BY <2>6 DEF AroundStep, AlienWrite, Expire, ForgetTombstone, Admit,
       EndSaturation, Close, PassBarrier, Exit, Crash, uploadVars
  <2>7. ASSUME NEW t \in Target,
               PublishUpload(t)
        PROVE  got' \in [Op -> 0..plan.chunks]
    <3>1. Holder(t).op \in Op /\ 0 \in 0..plan.chunks
      BY <2>7, HolderFacts DEF PublishUpload, Holds, Typed
    <3> QED
      BY <2>2, <2>7, <3>1 DEF ChunkInv
  <2> QED
    BY <2>1, <2>3, <2>4, <2>5, <2>6, <2>7 DEF DaemonNext, AroundStep
<1>5. \A t \in Target : \A i \in DOMAIN locks'[t] :
        LET c == locks'[t][i]
        IN  c.verb = "chunk" => c.n \in 1..(2 * plan'.chunks)
  BY <1>3 DEF InRange
<1> QED
  BY <1>2, <1>4, <1>5 DEF ChunkInv, InRange

\* A command sends no more chunks than there are, each at most twice.
LEMMA CommandKeepsChunks ==
  ASSUME Typed, ChunkInv, ClientNext, plan' = plan, plan.chunks \in Nat
  PROVE  ChunkInv'
<1>1. PICK o \in Op : ClientStep(o)
  BY DEF ClientNext
<1>2. got' = got /\ locks' = locks
  BY DEF ClientNext, uploadVars, queueVars
<1>3. ASSUME NEW verb \in {"mutate", "open", "chunk", "commit", "status"},
             NEW n, Send(o, verb, n),
             verb = "chunk" => n \in 1..(2 * plan.chunks)
      PROVE  ChunkInv'
  <2> DEFINE c == [op |-> o, verb |-> verb, n |-> n]
  <2>1. /\ wire' = wire \cup {c} /\ awaits' = [awaits EXCEPT ![o] = c]
        /\ InRange(c)
    BY <1>3 DEF Send, InRange
  <2>2. \A p \in Op : awaits'[p] = awaits[p] \/ awaits'[p] = c
    BY <2>1 DEF Typed, CallTyped
  <2> HIDE DEF c
  <2> QED
    BY <1>2, <2>1, <2>2 DEF ChunkInv, InRange
<1>4. ASSUME NEW v, Decide(o, v)
      PROVE  ChunkInv'
  <2> DEFINE c == [op |-> o, verb |-> "cancel", n |-> 0]
  <2>1. /\ wire' = wire \/ wire' = wire \cup {c}
        /\ awaits' = [awaits EXCEPT ![o] = NoCall]
        /\ InRange(c) /\ InRange(NoCall)
    BY <1>4 DEF Decide, InRange, NoCall
  <2>2. \A p \in Op : awaits'[p] = awaits[p] \/ awaits'[p] = NoCall
    BY <2>1 DEF Typed, CallTyped
  <2> HIDE DEF c
  <2> QED
    BY <1>2, <2>1, <2>2 DEF ChunkInv, InRange
<1>5. CASE GiveUpWaiting(o)
  BY <1>2, <1>5 DEF GiveUpWaiting, ChunkInv, InRange
<1>6. CASE Begin(o) \/ HearMutation(o) \/ HearStatus(o)
  <2>1. \/ \E verb \in {"mutate", "open", "status"} : Send(o, verb, 0)
        \/ \E v : Decide(o, v)
    BY <1>6 DEF Begin, HearMutation, HearStatus
  <2> QED
    BY <1>3, <1>4, <2>1
<1>7. CASE HearOpen(o)
  <2>1. \/ Send(o, "commit", 0) \/ \E v : Decide(o, v)
        \/ plan.chunks # 0 /\ Send(o, "chunk", 1)
    BY <1>7 DEF HearOpen
  <2>2. plan.chunks # 0 => 1 \in 1..(2 * plan.chunks)
    OBVIOUS
  <2> QED
    BY <1>3, <1>4, <2>1, <2>2
<1>8. CASE HearChunk(o)
  <2> DEFINE n == awaits[o].n
  <2>1. n \in 1..(2 * plan.chunks)
    BY <1>8 DEF HearChunk, Heard, ChunkInv, InRange
  <2>2. \/ Send(o, "commit", 0) \/ \E v : Decide(o, v)
        \/ (n + 1) \div 2 < plan.chunks
           /\ Send(o, "chunk", 2 * ((n + 1) \div 2) + 1)
        \/ n % 2 = 1 /\ Send(o, "chunk", n + 1)
    BY <1>8 DEF HearChunk, Index
  <2> HIDE DEF n
  <2>3. /\ n % 2 = 1 => n + 1 \in 1..(2 * plan.chunks)
        /\ (n + 1) \div 2 < plan.chunks =>
             2 * ((n + 1) \div 2) + 1 \in 1..(2 * plan.chunks)
    BY <2>1, SendsOfAChunk
  <2> QED
    BY <1>3, <1>4, <2>2, <2>3
<1> QED
  BY <1>1, <1>5, <1>6, <1>7, <1>8 DEF ClientStep

\* Every step keeps the numbers of the chunks.
LEMMA ChunksKept ==
  ASSUME Typed, OpenInv, ChunkInv, [Next]_allVars
  PROVE  ChunkInv'
<1>1. plan' = plan /\ plan.chunks \in Nat
  BY PlanStays
<1>2. CASE UNCHANGED allVars
  BY <1>2 DEF allVars, vars, diskVars, uploadVars, queueVars, callVars,
              ChunkInv, InRange
<1> QED
  BY <1>1, <1>2, DaemonKeepsChunks, CommandKeepsChunks DEF Next

\* The state is what it is said to be: the ledger holds operations and those
\* entered before them, an upload gets no more chunks than it has, and no
\* effect is counted twice (the fields of GovernedFilesystem, and the commands
\* of src/commands/fs.ts).
THEOREM FilesystemTypeCorrect == Spec => []TypeOK
<1> DEFINE Inv == LedgerTyped /\ ChunkInv /\ CountsTyped
<1>1. Init => Typed /\ Inv
  <2> SUFFICES ASSUME Init PROVE Typed /\ Inv
    OBVIOUS
  <2>1. Typed
    BY TypedFirst
  <2>2. plan.chunks \in Nat /\ plan.faults \in Nat /\ plan.timeouts \in Nat
    BY <2>1, FilesystemAssumption
    DEF Typed, DiskTyped, FilesystemAssumption, Plan
  <2>3. LedgerTyped
    <3>1. entries = [o \in {} |-> {}]
      BY DEF Init, FilesystemInit, Memory, Unentered
    <3>2. DOMAIN entries = {}
      BY <3>1
    <3> QED
      BY <3>1, <3>2 DEF LedgerTyped
  <2>5. CountsTyped
    <3>1. 0 \in 0..plan.faults /\ 0 \in 0..plan.timeouts
      BY <2>2
    <3> QED
      BY <3>1 DEF Init, FilesystemInit, Memory, CountsTyped
  <2>4. ChunkInv
    BY <2>2 DEF Init, FilesystemInit, Memory, ChunkInv, InRange, NoCall
  <2> QED
    BY <2>1, <2>3, <2>4, <2>5
<1>2. Typed /\ OpenInv /\ Inv /\ [Next]_allVars => Inv'
  BY LedgerKept, ChunksKept, CountsKept
<1>3. Typed /\ Inv /\ VerdictInv => TypeOK
  <2> SUFFICES ASSUME Typed, Inv, VerdictInv PROVE TypeOK
    OBVIOUS
  <2>1. applied \in [Op -> 0..2] /\ verdict \in [Op -> Verdict]
    BY DEF VerdictInv, EffectInv, KindInv, Typed, DiskTyped
  <2>2. admission \in Seq(Call \cup {Barrier})
    <3>1. OpenCall \cup {Barrier} \subseteq Call \cup {Barrier}
      BY DEF OpenCall
    <3> QED
      BY <3>1, SeqMonotonic DEF Typed, CallTyped
  <2> QED
    BY <2>1, <2>2 DEF TypeOK, Typed, DiskTyped, UploadTyped, CallTyped,
       QueueTyped, LedgerTyped, ChunkInv, CountsTyped
<1>4. Spec => [](Typed /\ OpenInv)
  BY FilesystemTyped
<1>5. Spec => []VerdictInv
  <2>1. Init => VerdictInv
    BY VerdictsFirst
  <2>2. Typed /\ OpenInv /\ VerdictInv /\ [Next]_allVars => VerdictInv'
    BY VerdictsKept
  <2> QED
    BY <1>4, <2>1, <2>2, PTL DEF Spec
<1> HIDE DEF Inv
<1> QED
  BY <1>1, <1>2, <1>3, <1>4, <1>5, PTL DEF Spec
=============================================================================
