----------------------------- MODULE JobsProofs -----------------------------
(***************************************************************************)
(* The theorems about the JobManager, for every set of jobs and cancel     *)
(* identities, every policy and every choice of failing persists: the      *)
(* types are kept, and never more than policy.maxConcurrent launches are   *)
(* in progress while the counter drain() consults is their number.         *)
(*                                                                         *)
(* The bound is not inductive: a slot counted for a job that is already    *)
(* being launched would break it. SchedulerInv adds what excludes that:    *)
(* the queue repeats no job and holds none that is being launched, and     *)
(* every handler that awaits a persist still holds a job of the map in     *)
(* the state it left it in. The lemmas show, group by group, that each     *)
(* step keeps SchedulerInv; those that drain the queue do so by            *)
(* DrainSettles. The first lemmas say what the queue operations do to a    *)
(* queue that repeats no job, and what drain() leaves behind.              *)
(***************************************************************************)
EXTENDS JobsProperties, TLAPS, FiniteSetTheorems, SequenceTheorems,
        WellFoundedInduction

\* The first position drain() looks for exists when some job is ready.
LEMMA MinOfNat ==
  ASSUME NEW S \in SUBSET Nat, S # {}
  PROVE  Min(S) \in S /\ \A y \in S : Min(S) <= y
<1> DEFINE Less == {ss \in Nat \X Nat : ss[1] < ss[2]}
<1>1. IsWellFoundedOn(Less, Nat)
  BY NatLessThanWellFounded DEF OpToRel
<1>2. \A a, b \in Nat : a < b => <<a, b>> \in Less
  OBVIOUS
<1> HIDE DEF Less
<1>3. PICK x \in S : \A y \in S : ~(<<y, x>> \in Less)
  BY <1>1, WFMin
<1>4. ASSUME NEW y \in S PROVE x <= y
  <2>1. ~(<<y, x>> \in Less)
    BY <1>3
  <2>2. x \in Nat /\ y \in Nat
    OBVIOUS
  <2>3. ~(y < x)
    BY <1>2, <2>1, <2>2
  <2> QED
    BY <2>2, <2>3
<1> QED
  BY <1>4 DEF Min

\* The jobs that launch() owns.
Busy(at) == {j \in Job : at[j] # "none"}

\* The rest of the queue once its first m jobs were shifted.
LEMMA Suffix ==
  \A q \in Seq(Job) : \A m \in 1..Len(q) :
    /\ SubSeq(q, m + 1, Len(q)) \in Seq(Job)
    /\ DOMAIN SubSeq(q, m + 1, Len(q)) = 1..(Len(q) - m)
    /\ Len(SubSeq(q, m + 1, Len(q))) = Len(q) - m
    /\ \A i \in 1..(Len(q) - m) :
         m + i \in DOMAIN q /\ SubSeq(q, m + 1, Len(q))[i] = q[m + i]
<1> SUFFICES ASSUME NEW q \in Seq(Job), NEW m \in 1..Len(q),
                    NEW r, r = SubSeq(q, m + 1, Len(q))
             PROVE  /\ r \in Seq(Job)
                    /\ DOMAIN r = 1..(Len(q) - m)
                    /\ Len(r) = Len(q) - m
                    /\ \A i \in 1..(Len(q) - m) : m + i \in DOMAIN q /\ r[i] = q[m + i]
  OBVIOUS
<1>1. Len(q) \in Nat /\ DOMAIN q = 1..Len(q)
  BY LenProperties
<1>2. \A i \in (m + 1)..Len(q) : q[i] \in Job
  BY <1>1, ElementOfSeq
<1>3. /\ r \in Seq(Job)
      /\ Len(r) = IF m + 1 <= Len(q) THEN Len(q) - m ELSE 0
      /\ \A i \in 1..(Len(q) - m) : r[i] = q[m + i]
  BY <1>1, <1>2, SubSeqProperties
<1>4. Len(r) = Len(q) - m
  <2>1. CASE m = Len(q)
    <3>1. ~(m + 1 <= Len(q)) /\ Len(q) - m = 0
      BY <1>1, <2>1
    <3>2. Len(r) = 0
      BY <1>3, <3>1, Zenon
    <3> QED
      BY <3>1, <3>2
  <2>2. CASE m # Len(q)
    <3>1. \A n \in Nat : m \in 1..n /\ m # n => m + 1 <= n
      OBVIOUS
    <3>2. m + 1 <= Len(q)
      BY <1>1, <2>2, <3>1, Zenon
    <3> QED
      BY <1>3, <3>2, Zenon
  <2> QED
    BY <2>1, <2>2
<1>5. \A i \in 1..(Len(q) - m) : m + i \in DOMAIN q
  BY <1>1
<1> QED
  BY <1>1, <1>3, <1>4, <1>5, LenProperties

\* Shifting jobs neither repeats one nor keeps the last one shifted.
LEMMA TakeFirst ==
  \A q \in Seq(Job) : \A m \in 1..Len(q) : IsInjective(q) =>
    /\ SubSeq(q, m + 1, Len(q)) \in Seq(Job)
    /\ IsInjective(SubSeq(q, m + 1, Len(q)))
    /\ Range(SubSeq(q, m + 1, Len(q))) \subseteq Range(q) \ {q[m]}
<1> SUFFICES ASSUME NEW q \in Seq(Job), NEW m \in 1..Len(q), IsInjective(q),
                    NEW r, r = SubSeq(q, m + 1, Len(q))
             PROVE  /\ r \in Seq(Job)
                    /\ IsInjective(r)
                    /\ Range(r) \subseteq Range(q) \ {q[m]}
  OBVIOUS
<1>1. Len(q) \in Nat /\ DOMAIN q = 1..Len(q)
  BY LenProperties
<1>2. /\ r \in Seq(Job) /\ DOMAIN r = 1..(Len(q) - m)
      /\ \A i \in 1..(Len(q) - m) : m + i \in DOMAIN q /\ r[i] = q[m + i]
  BY Suffix
<1>3. ASSUME NEW i \in DOMAIN r
      PROVE  i \in Nat /\ m + i \in DOMAIN q /\ m + i # m /\ r[i] = q[m + i]
  BY <1>1, <1>2
<1>4. IsInjective(r)
  <2>1. ASSUME NEW i \in DOMAIN r, NEW k \in DOMAIN r, r[i] = r[k]
        PROVE  i = k
    <3>1. m + i = m + k
      BY <1>3, <2>1 DEF IsInjective
    <3> QED
      BY <1>3, <3>1
  <2> QED
    BY <2>1 DEF IsInjective
<1>5. ASSUME NEW i \in DOMAIN r
      PROVE  r[i] \in Range(q) /\ r[i] # q[m]
  <2>1. r[i] \in Range(q)
    BY <1>3 DEF Range
  <2>2. m \in DOMAIN q /\ q[m + i] # q[m]
    BY <1>1, <1>3 DEF IsInjective
  <2> QED
    BY <1>3, <2>1, <2>2
<1> QED
  BY <1>2, <1>4, <1>5 DEF Range

\* queue.push of a new job.
LEMMA AppendOne ==
  \A q \in Seq(Job) : \A j \in Job \ Range(q) : IsInjective(q) =>
    /\ Append(q, j) \in Seq(Job)
    /\ IsInjective(Append(q, j))
    /\ Range(Append(q, j)) = Range(q) \cup {j}
<1> SUFFICES ASSUME NEW q \in Seq(Job), NEW j \in Job \ Range(q), IsInjective(q),
                    NEW r, r = Append(q, j)
             PROVE  /\ r \in Seq(Job)
                    /\ IsInjective(r)
                    /\ Range(r) = Range(q) \cup {j}
  OBVIOUS
<1>1. Len(q) \in Nat /\ DOMAIN q = 1..Len(q)
  BY LenProperties
<1>2. /\ r \in Seq(Job)
      /\ DOMAIN r = 1..(Len(q) + 1)
      /\ \A i \in 1..Len(q) : r[i] = q[i]
      /\ r[Len(q) + 1] = j
  BY AppendProperties, LenProperties
<1>3. \A i \in DOMAIN r : i \in DOMAIN q \/ i = Len(q) + 1
  BY <1>1, <1>2
<1>4. \A i \in DOMAIN q : i \in DOMAIN r /\ r[i] = q[i] /\ r[i] # j
  BY <1>1, <1>2 DEF Range
<1>5. IsInjective(r)
  BY <1>2, <1>3, <1>4 DEF IsInjective
<1>6. Len(q) + 1 \in DOMAIN r
  BY <1>1, <1>2
<1>7. Range(r) = Range(q) \cup {j}
  BY <1>2, <1>3, <1>4, <1>6 DEF Range
<1> QED
  BY <1>2, <1>5, <1>7

\* queue.splice(index, 0, id) of the withdraw's rollback.
LEMMA InsertOne ==
  \A q \in Seq(Job) : \A m \in 1..(Len(q) + 1) : \A j \in Job \ Range(q) :
    IsInjective(q) =>
      /\ InsertAt(q, m, j) \in Seq(Job)
      /\ Len(InsertAt(q, m, j)) = Len(q) + 1
      /\ IsInjective(InsertAt(q, m, j))
      /\ Range(InsertAt(q, m, j)) = Range(q) \cup {j}
<1> SUFFICES ASSUME NEW q \in Seq(Job), NEW m \in 1..(Len(q) + 1),
                    NEW j \in Job \ Range(q), IsInjective(q),
                    NEW r, r = InsertAt(q, m, j)
             PROVE  /\ r \in Seq(Job)
                    /\ Len(r) = Len(q) + 1
                    /\ IsInjective(r)
                    /\ Range(r) = Range(q) \cup {j}
  OBVIOUS
<1> DEFINE a == SubSeq(q, 1, m - 1)
           b == SubSeq(q, m, Len(q))
           d == a \o <<j>>
<1>1. Len(q) \in Nat /\ DOMAIN q = 1..Len(q) /\ m \in Nat /\ m >= 1
  BY LenProperties
<1>2. \A i \in 1..Len(q) : q[i] \in Job
  BY ElementOfSeq
<1>3. /\ a \in Seq(Job) /\ Len(a) = m - 1
      /\ \A i \in 1..(m - 1) : a[i] = q[i]
  BY <1>1, <1>2, SubSeqProperties
<1>4. /\ b \in Seq(Job) /\ Len(b) = Len(q) - m + 1
      /\ \A i \in 1..(Len(q) - m + 1) : b[i] = q[m + i - 1]
  BY <1>1, <1>2, SubSeqProperties
<1>5. <<j>> \in Seq(Job) /\ Len(<<j>>) = 1 /\ <<j>>[1] = j
  OBVIOUS
<1>6. r = d \o b
  BY DEF InsertAt
<1> HIDE DEF a, b
<1>8. /\ d \in Seq(Job) /\ Len(d) = m
      /\ \A i \in 1..m : d[i] = IF i < m THEN q[i] ELSE j
  <2>1. /\ d \in Seq(Job) /\ Len(d) = Len(a) + Len(<<j>>)
        /\ \A i \in 1..(Len(a) + Len(<<j>>)) :
             d[i] = IF i <= Len(a) THEN a[i] ELSE <<j>>[i - Len(a)]
    BY <1>3, <1>5, ConcatProperties
  <2> HIDE DEF d
  <2>2. \A i \in 1..m : i = m \/ i \in 1..(m - 1)
    BY <1>1
  <2> QED
    BY <1>1, <1>3, <1>5, <2>1, <2>2
<1> HIDE DEF d
<1>9. /\ r \in Seq(Job) /\ Len(r) = Len(d) + Len(b)
      /\ \A i \in 1..(Len(d) + Len(b)) :
           r[i] = IF i <= Len(d) THEN d[i] ELSE b[i - Len(d)]
  <2>1. /\ d \o b \in Seq(Job) /\ Len(d \o b) = Len(d) + Len(b)
        /\ \A i \in 1..(Len(d) + Len(b)) :
             (d \o b)[i] = IF i <= Len(d) THEN d[i] ELSE b[i - Len(d)]
    BY <1>4, <1>8, ConcatProperties
  <2> QED
    BY <1>6, <2>1, Zenon
<1>10. DOMAIN r = 1..(Len(q) + 1)
  BY <1>1, <1>4, <1>8, <1>9, LenProperties
<1>11. m \in DOMAIN r /\ r[m] = j
  BY <1>1, <1>4, <1>8, <1>9, <1>10
<1>12. ASSUME NEW i \in DOMAIN q, i < m
       PROVE  i \in DOMAIN r /\ r[i] = q[i]
  BY <1>1, <1>4, <1>8, <1>9, <1>10, <1>12
<1>13. ASSUME NEW i \in DOMAIN q, i >= m
       PROVE  i + 1 \in DOMAIN r /\ r[i + 1] = q[i]
  <2>1. i + 1 \in 1..(Len(q) + 1) /\ ~(i + 1 <= m) /\ i + 1 - m \in 1..(Len(q) - m + 1)
    BY <1>1, <1>13
  <2>2. r[i + 1] = b[i + 1 - m]
    BY <1>1, <1>4, <1>8, <1>9, <2>1
  <2>3. m + (i + 1 - m) - 1 = i
    BY <1>1
  <2> QED
    BY <1>4, <1>10, <2>1, <2>2, <2>3
<1>14. ASSUME NEW k \in DOMAIN r, k # m
       PROVE  \/ k < m /\ k \in DOMAIN q /\ r[k] = q[k]
              \/ k > m /\ k - 1 \in DOMAIN q /\ r[k] = q[k - 1]
  <2>1. CASE k < m
    BY <1>1, <1>10, <1>12, <2>1
  <2>2. CASE k > m
    <3>1. k - 1 \in DOMAIN q /\ k - 1 >= m /\ (k - 1) + 1 = k
      BY <1>1, <1>10, <2>2
    <3> QED
      BY <1>13, <2>2, <3>1
  <2> QED
    BY <1>1, <1>10, <1>14, <2>1, <2>2
<1>15. \A i \in DOMAIN q : q[i] \in Range(q) /\ q[i] # j
  BY DEF Range
<1>16. IsInjective(r)
  <2>1. ASSUME NEW k \in DOMAIN r, NEW l \in DOMAIN r, r[k] = r[l]
        PROVE  k = l
    <3>1. k \in Nat /\ l \in Nat
      BY <1>10
    <3>2. CASE k = m \/ l = m
      BY <1>11, <1>14, <1>15, <2>1, <3>2
    <3>3. CASE k # m /\ l # m
      <4>1. PICK x \in DOMAIN q : /\ r[k] = q[x]
                                  /\ (k < m /\ x = k) \/ (k > m /\ x = k - 1)
        BY <1>14, <3>3
      <4>2. PICK y \in DOMAIN q : /\ r[l] = q[y]
                                  /\ (l < m /\ y = l) \/ (l > m /\ y = l - 1)
        BY <1>14, <3>3
      <4>3. x = y
        BY <2>1, <4>1, <4>2 DEF IsInjective
      <4> QED
        BY <1>1, <3>1, <4>1, <4>2, <4>3
    <3> QED
      BY <3>2, <3>3
  <2> QED
    BY <2>1 DEF IsInjective
<1>17. Range(r) = Range(q) \cup {j}
  <2>1. ASSUME NEW k \in DOMAIN r PROVE r[k] \in Range(q) \cup {j}
    BY <1>11, <1>14, <1>15
  <2>2. ASSUME NEW i \in DOMAIN q PROVE q[i] \in Range(r)
    <3>1. i < m \/ i >= m
      BY <1>1
    <3> QED
      BY <1>12, <1>13, <3>1 DEF Range
  <2>3. j \in Range(r)
    BY <1>11 DEF Range
  <2> QED
    BY <2>1, <2>2, <2>3 DEF Range
<1>18. Len(r) = Len(q) + 1
  BY <1>1, <1>4, <1>8, <1>9
<1> QED
  BY <1>9, <1>16, <1>17, <1>18

\* queue.splice(index, 1) of the withdrawal.
LEMMA RemoveOne ==
  \A q \in Seq(Job) : \A m \in 1..Len(q) : IsInjective(q) =>
    /\ RemoveAt(q, m) \in Seq(Job)
    /\ IsInjective(RemoveAt(q, m))
    /\ Range(RemoveAt(q, m)) = Range(q) \ {q[m]}
<1> SUFFICES ASSUME NEW q \in Seq(Job), NEW m \in 1..Len(q), IsInjective(q),
                    NEW r, r = RemoveAt(q, m)
             PROVE  /\ r \in Seq(Job)
                    /\ IsInjective(r)
                    /\ Range(r) = Range(q) \ {q[m]}
  OBVIOUS
<1> DEFINE a == SubSeq(q, 1, m - 1)
           b == SubSeq(q, m + 1, Len(q))
<1>1. Len(q) \in Nat /\ DOMAIN q = 1..Len(q) /\ m \in Nat /\ m >= 1
  BY LenProperties
<1>2. \A i \in 1..Len(q) : q[i] \in Job
  BY ElementOfSeq
<1>3. /\ a \in Seq(Job) /\ Len(a) = m - 1
      /\ \A i \in 1..(m - 1) : a[i] = q[i]
  BY <1>1, <1>2, SubSeqProperties
<1>4. b \in Seq(Job)
  BY Suffix
<1>5. /\ Len(b) = Len(q) - m
      /\ \A i \in 1..(Len(q) - m) : b[i] = q[m + i]
  BY Suffix
<1>6. r = a \o b
  BY DEF RemoveAt
<1> HIDE DEF a, b
<1>7. /\ r \in Seq(Job) /\ Len(r) = Len(a) + Len(b)
      /\ \A i \in 1..(Len(a) + Len(b)) :
           r[i] = IF i <= Len(a) THEN a[i] ELSE b[i - Len(a)]
  <2>1. /\ a \o b \in Seq(Job) /\ Len(a \o b) = Len(a) + Len(b)
        /\ \A i \in 1..(Len(a) + Len(b)) :
             (a \o b)[i] = IF i <= Len(a) THEN a[i] ELSE b[i - Len(a)]
    BY <1>3, <1>4, ConcatProperties
  <2> QED
    BY <1>6, <2>1, Zenon
<1>8. DOMAIN r = 1..(Len(q) - 1)
  BY <1>1, <1>3, <1>5, <1>7, LenProperties
<1>9. ASSUME NEW k \in DOMAIN r
      PROVE  k \in Nat /\ (\/ k < m /\ k \in DOMAIN q /\ r[k] = q[k]
                           \/ k >= m /\ k + 1 \in DOMAIN q /\ r[k] = q[k + 1])
  <2>1. k \in 1..(Len(a) + Len(b)) /\ k \in Nat
    BY <1>1, <1>3, <1>5, <1>8
  <2>2. CASE k < m
    BY <1>1, <1>3, <1>7, <1>8, <2>1, <2>2
  <2>3. CASE k >= m
    <3>1. ~(k <= Len(a)) /\ k - (m - 1) \in 1..(Len(q) - m) /\ k + 1 \in DOMAIN q
      BY <1>1, <1>3, <1>8, <2>3
    <3>2. m + (k - (m - 1)) = k + 1
      BY <1>1, <2>1
    <3>3. r[k] = b[k - (m - 1)]
      BY <1>3, <1>7, <2>1, <3>1
    <3> QED
      BY <1>5, <2>1, <2>3, <3>1, <3>2, <3>3
  <2> QED
    BY <1>1, <2>1, <2>2, <2>3
<1>10. IsInjective(r)
  <2>1. ASSUME NEW k \in DOMAIN r, NEW l \in DOMAIN r, r[k] = r[l]
        PROVE  k = l
    <3>1. PICK x \in DOMAIN q : /\ r[k] = q[x]
                                /\ (k < m /\ x = k) \/ (k >= m /\ x = k + 1)
      BY <1>9
    <3>2. PICK y \in DOMAIN q : /\ r[l] = q[y]
                                /\ (l < m /\ y = l) \/ (l >= m /\ y = l + 1)
      BY <1>9
    <3>3. x = y
      BY <2>1, <3>1, <3>2 DEF IsInjective
    <3> QED
      BY <1>1, <1>9, <3>1, <3>2, <3>3
  <2> QED
    BY <2>1 DEF IsInjective
<1>11. ASSUME NEW k \in DOMAIN r
       PROVE  r[k] \in Range(q) /\ r[k] # q[m]
  <2>1. PICK x \in DOMAIN q : r[k] = q[x] /\ x # m
    BY <1>1, <1>9
  <2> QED
    BY <1>1, <2>1 DEF IsInjective, Range
<1>12. ASSUME NEW x \in DOMAIN q, x # m
       PROVE  q[x] \in Range(r)
  <2>1. CASE x < m
    <3>1. x \in DOMAIN r
      BY <1>1, <1>8, <2>1
    <3> QED
      BY <1>9, <2>1, <3>1 DEF Range
  <2>2. CASE x > m
    <3>1. x - 1 \in DOMAIN r /\ x - 1 >= m /\ (x - 1) + 1 = x
      BY <1>1, <1>8, <2>2
    <3>2. r[x - 1] = q[x]
      BY <1>1, <1>9, <3>1
    <3> QED
      BY <3>1, <3>2 DEF Range
  <2> QED
    BY <1>1, <1>12, <2>1, <2>2
<1> QED
  BY <1>7, <1>10, <1>11, <1>12 DEF Range

\* What drain() leaves, of a queue of jobs that are not being launched.
Settled(q, st, at) ==
  /\ queue' \in Seq(Job) /\ IsInjective(queue') /\ Range(queue') \subseteq Range(q)
  /\ \A j \in Range(queue') : launch'[j] = "none"
  /\ launch' \in [Job -> LaunchStep]
  /\ running' \in Nat
  /\ running' = Cardinality(Busy(launch'))
  /\ running' <= MaxConcurrent
  /\ \A j \in Job :
       \/ launch'[j] = at[j]
       \/ at[j] = "none" /\ launch'[j] = "check" /\ st[j] = "queued" /\ j \in Range(q)

\* drain() launches at most one job, a queued one that was not being launched,
\* and only into a free slot: the bound and the queue's shape survive it.
LEMMA DrainSettles ==
  ASSUME NEW q \in Seq(Job), IsInjective(q), NEW st,
         NEW at \in [Job -> LaunchStep],
         \A j \in Range(q) : at[j] = "none",
         NEW busy \in Nat, busy = Cardinality(Busy(at)), busy <= MaxConcurrent,
         Drain(q, st, busy, at)
  PROVE  Settled(q, st, at)
<1>1. CASE queue' = q /\ running' = busy /\ launch' = at
  BY <1>1 DEF Settled
<1>2. CASE queue' = <<>> /\ running' = busy /\ launch' = at
  BY <1>2 DEF Settled, IsInjective, Range
<1>3. ASSUME SlotFree(busy), Ready(q, st) # {},
             LaunchAt(q, Min(Ready(q, st)), busy, at)
      PROVE  Settled(q, st, at)
  <2>1. PICK m : m = Min(Ready(q, st))
    OBVIOUS
  <2>2. DOMAIN q = 1..Len(q) /\ Len(q) \in Nat
    BY LenProperties
  <2>3. Ready(q, st) \subseteq DOMAIN q /\ Ready(q, st) \subseteq Nat
    BY <2>2 DEF Ready
  <2>4. m \in Ready(q, st)
    BY <1>3, <2>1, <2>3, MinOfNat
  <2>5. m \in 1..Len(q) /\ st[q[m]] = "queued"
    BY <2>2, <2>4 DEF Ready
  <2>6. q[m] \in Range(q) /\ q[m] \in Job /\ at[q[m]] = "none"
    BY <2>2, <2>5, ElementOfSeq DEF Range
  <2>7. /\ queue' = SubSeq(q, m + 1, Len(q))
        /\ running' = busy + 1
        /\ launch' = [at EXCEPT ![q[m]] = "check"]
    BY <1>3, <2>1 DEF LaunchAt
  <2>8. /\ queue' \in Seq(Job) /\ IsInjective(queue')
        /\ Range(queue') \subseteq Range(q) \ {q[m]}
    BY <2>5, <2>7, TakeFirst
  <2>9. /\ launch' \in [Job -> LaunchStep]
        /\ launch'[q[m]] = "check"
        /\ \A j \in Job \ {q[m]} : launch'[j] = at[j]
    BY <2>6, <2>7 DEF LaunchStep
  <2>10. Range(q) \subseteq Job
    BY <2>2, ElementOfSeq DEF Range
  <2>11. \A j \in Range(queue') : launch'[j] = "none"
    BY <2>8, <2>9, <2>10
  <2>12. running' = Cardinality(Busy(launch'))
    <3>1. Busy(launch') = Busy(at) \cup {q[m]} /\ q[m] \notin Busy(at)
      BY <2>6, <2>9 DEF Busy
    <3>2. IsFiniteSet(Busy(at))
      BY ConstantsAssumption, FS_Subset DEF Busy, ConstantsAssumption
    <3> QED
      BY <2>7, <3>1, <3>2, FS_AddElement
  <2>13. running' \in Nat /\ running' <= MaxConcurrent
    BY <1>3, <2>7, ConstantsAssumption DEF SlotFree, ConstantsAssumption
  <2> QED
    BY <2>5, <2>6, <2>8, <2>9, <2>11, <2>12, <2>13 DEF Settled
<1> QED
  BY <1>1, <1>2, <1>3 DEF Drain

\* drain() discards only jobs that are no longer queued.
LEMMA DrainForgetsNone ==
  ASSUME NEW q \in Seq(Job), NEW st, NEW at \in [Job -> LaunchStep],
         NEW busy \in Nat, Drain(q, st, busy, at)
  PROVE  \A k \in Range(q) : st[k] = "queued" =>
           k \in Range(queue') \/ launch'[k] # "none"
<1> SUFFICES ASSUME NEW i \in DOMAIN q, st[q[i]] = "queued"
             PROVE  q[i] \in Range(queue') \/ launch'[q[i]] # "none"
  BY DEF Range
<1>1. DOMAIN q = 1..Len(q) /\ Len(q) \in Nat /\ i \in Ready(q, st)
  BY LenProperties DEF Ready
<1>2. CASE queue' = q
  BY <1>2 DEF Range
<1>3. CASE LaunchAt(q, Min(Ready(q, st)), busy, at)
  <2>1. PICK m : m = Min(Ready(q, st))
    OBVIOUS
  <2>2. Ready(q, st) \subseteq Nat /\ Ready(q, st) \subseteq DOMAIN q
    BY <1>1 DEF Ready
  <2>3. m \in 1..Len(q) /\ m <= i /\ i \in Nat
    BY <1>1, <2>1, <2>2, MinOfNat
  <2>4. /\ queue' = SubSeq(q, m + 1, Len(q))
        /\ launch' = [at EXCEPT ![q[m]] = "check"]
    BY <1>3, <2>1 DEF LaunchAt
  <2>5. CASE i = m
    <3>1. q[m] \in Job
      BY <1>1, <2>3, ElementOfSeq
    <3> QED
      BY <2>4, <2>5, <3>1
  <2>6. CASE i # m
    <3>1. i - m \in 1..(Len(q) - m) /\ m + (i - m) = i
      BY <1>1, <2>3, <2>6
    <3>2. i - m \in DOMAIN queue' /\ queue'[i - m] = q[i]
      BY <2>3, <2>4, <3>1, Suffix
    <3> QED
      BY <3>2 DEF Range
  <2> QED
    BY <2>5, <2>6
<1> QED
  BY <1>1, <1>2, <1>3 DEF Drain

\* One job at a time: drain() leaves the queue empty or no slot free.
LEMMA DrainFills ==
  ASSUME NEW q \in Seq(Job), NEW st, NEW at \in [Job -> LaunchStep],
         NEW busy \in Nat, Drain(q, st, busy, at), ~Closing,
         busy + 1 < MaxConcurrent => Len(q) <= 1
  PROVE  running' < MaxConcurrent => queue' = <<>>
<1>1. MaxConcurrent \in Nat
  BY ConstantsAssumption DEF ConstantsAssumption
<1>2. CASE ~SlotFree(busy) /\ running' = busy
  BY <1>1, <1>2 DEF SlotFree
<1>3. CASE queue' = <<>>
  BY <1>3
<1>4. CASE Ready(q, st) # {} /\ LaunchAt(q, Min(Ready(q, st)), busy, at)
  <2>1. DOMAIN q = 1..Len(q) /\ Len(q) \in Nat
    BY LenProperties
  <2>2. PICK m \in 1..Len(q) : m = Min(Ready(q, st))
    <3>1. Ready(q, st) \subseteq Nat /\ Ready(q, st) \subseteq 1..Len(q)
      BY <2>1 DEF Ready
    <3> QED
      BY <1>4, <3>1, MinOfNat
  <2>3. queue' = SubSeq(q, m + 1, Len(q)) /\ running' = busy + 1
    BY <1>4, <2>2 DEF LaunchAt
  <2>4. ASSUME Len(q) <= 1 PROVE queue' = <<>>
    <3>1. Len(q) = m
      BY <2>1, <2>2, <2>4
    <3>2. queue' \in Seq(Job) /\ Len(queue') = Len(q) - m
      BY <2>2, <2>3, Suffix
    <3> QED
      BY <2>1, <3>1, <3>2, EmptySeq
  <2> QED
    BY <1>1, <2>3, <2>4
<1> QED
  BY <1>2, <1>3, <1>4 DEF Drain

-----------------------------------------------------------------------------
USE DEF hostVars, jobVars, queueVars, childVars, diskVars

\* No launch begins or ends in this step.
LaunchesKept ==
  running' = running /\ \A k \in Job : launch'[k] = "none" <=> launch[k] = "none"

\* The bound depends on the counter and on which jobs are in launch() only.
LEMMA CountKept ==
  ASSUME ConcurrencyBound, LaunchesKept
  PROVE  ConcurrencyBound'
<1>1. Launches' = Launches
  BY DEF LaunchesKept, Launches, Active
<1> QED
  BY <1>1 DEF LaunchesKept, ConcurrencyBound

\* After drain() the counter is the number of launches and within the policy.
LEMMA SettledCount ==
  ASSUME NEW q, NEW st, NEW at, Settled(q, st, at)
  PROVE  ConcurrencyBound'
<1>1. Busy(launch') = Launches'
  BY DEF Busy, Launches, Active
<1> QED
  BY <1>1 DEF Settled, ConcurrencyBound

\* What a handler that calls drain() may assume of the queue and the launches.
LEMMA ScheduleFacts ==
  ASSUME SchedulerInv
  PROVE  /\ running = Cardinality(Busy(launch)) /\ running <= MaxConcurrent
         /\ running \in Nat /\ launch \in [Job -> LaunchStep]
         /\ queue \in Seq(Job) /\ IsInjective(queue) /\ Range(queue) \subseteq Job
         /\ \A j \in Range(queue) : launch[j] = "none" /\ state[j] # "absent"
         /\ IsFiniteSet(Busy(launch))
<1>1. Busy(launch) = Launches /\ Busy(launch) \subseteq Job
  BY DEF Busy, Launches, Active
<1>2. queue \in Seq(Job)
  BY DEF SchedulerInv, TypeOK
<1>3. Range(queue) \subseteq Job
  BY <1>2, LenProperties, ElementOfSeq DEF Range
<1>4. IsFiniteSet(Busy(launch))
  BY <1>1, ConstantsAssumption, FS_Subset DEF ConstantsAssumption
<1> QED
  BY <1>1, <1>2, <1>3, <1>4 DEF SchedulerInv, TypeOK, HolderInv, QueueInv,
     ConcurrencyBound

\* A daemon that has not been started satisfies the invariant.
LEMMA InitHolds == Init => SchedulerInv
<1> SUFFICES ASSUME Init PROVE SchedulerInv
  OBVIOUS
<1>1. Range(<<>>) = {} /\ IsInjective(<<>>)
  BY DEF Range, IsInjective
<1>2. TypeOK
  BY ConstantsAssumption
     DEF Init, StartsWith, TypeOK, Intent, LaunchStep, Admission, Caller, Closer, NoSave,
     Persist, SavePhase, ConstantsAssumption
<1>3. HolderInv
  BY <1>1
     DEF Init, StartsWith, HolderInv, AdmissionInv, QueueInv, LaunchInv, CallInv, CloseInv,
     SaveInv, Active, NoSave, Savers
<1>4. ConcurrencyBound
  <2>1. Launches = {}
    BY DEF Init, StartsWith, Launches, Active
  <2> QED
    BY <2>1, FS_EmptySet, ConstantsAssumption
       DEF Init, StartsWith, ConcurrencyBound, ConstantsAssumption
<1> QED
  BY <1>2, <1>3, <1>4 DEF SchedulerInv

-----------------------------------------------------------------------------
\* The snapshot of a persist() changes nothing that another handler relies on.
LEMMA SnapshotHolds ==
  ASSUME SchedulerInv, NEW p \in Savers, Snapshot(p)
  PROVE HolderInv'
<1>1. /\ save[p].phase = "begun" /\ save'[p].phase = "written"
      /\ save'[p].job = save[p].job
      /\ \A q \in Savers \ {p} : save'[q] = save[q]
  BY DEF Snapshot, SchedulerInv, TypeOK, Persist
<1>2. \A q \in Savers : /\ save'[q].job = save[q].job
                        /\ save'[q].phase = "begun" => save[q].phase = "begun"
                        /\ save'[q].phase # "idle" => save[q].phase # "idle"
  BY <1>1
<1>3. SaveInv'
  <2>1. SaveInv /\ call' = call /\ close' = close /\ admission' = admission
    BY DEF SchedulerInv, HolderInv, Snapshot
  <2>2. "submit" \in Savers /\ "close" \in Savers /\ Job \subseteq Savers /\ Cancel \subseteq Savers
    BY DEF Savers
  <2> QED
    BY <1>2, <2>1, <2>2 DEF SaveInv
<1>4. LaunchInv'
  <2>1. ASSUME NEW j \in Job, ~Active(j) PROVE save'[j] = NoSave
    <3>1. save[j] = NoSave /\ j \in Savers
      BY <2>1 DEF SchedulerInv, HolderInv, LaunchInv, Savers
    <3>2. j # p
      BY <1>1, <3>1 DEF NoSave
    <3> QED
      BY <1>1, <3>1, <3>2
  <2> QED
    BY <2>1 DEF SchedulerInv, HolderInv, LaunchInv, Active, Snapshot, NoSave
<1> QED
  BY <1>3, <1>4 DEF SchedulerInv, HolderInv, AdmissionInv, QueueInv, CallInv,
     CloseInv, Snapshot, Recording, Up

\* What a persist() projects is a job of the map.
LEMMA SnapshotIsRecord ==
  ASSUME SchedulerInv, NEW p \in Savers, Snapshot(p)
  PROVE  /\ save[p].job \in Job /\ state[save[p].job] # "absent"
         /\ [state |-> state[save[p].job], id |-> cancelId[save[p].job]] \in Record
         /\ save'[p] = [phase |-> "written", job |-> save[p].job,
                        record |-> [state |-> state[save[p].job],
                                    id |-> cancelId[save[p].job]]]
         /\ \A r \in Savers \ {p} : save'[r] = save[r]
<1>1. save \in [Savers -> Persist] /\ save[p] \in Persist
  BY DEF SchedulerInv, TypeOK
<1>2. save[p].job \in Job /\ state[save[p].job] # "absent"
  BY ConstantsAssumption DEF SchedulerInv, HolderInv, AdmissionInv, QueueInv,
     LaunchInv, CallInv, CloseInv, SaveInv, Snapshot, Savers, Active, NoSave
<1>3. [state |-> state[save[p].job], id |-> cancelId[save[p].job]] \in Record
  BY <1>2 DEF SchedulerInv, TypeOK, Record
<1> QED
  BY <1>1, <1>2, <1>3 DEF Snapshot, Persist

\* The steps of persist() keep the invariant, whoever called it.
LEMMA PersistKeeps ==
  ASSUME SchedulerInv, Persisting
  PROVE  SchedulerInv'
<1>1. ASSUME NEW p \in Savers, Snapshot(p)
      PROVE  SchedulerInv'
  <2>1. TypeOK'
    <3>1. save \in [Savers -> Persist] /\ save[p] \in Persist
      BY DEF SchedulerInv, TypeOK
    <3>2. save[p].job \in Job /\ state[save[p].job] # "absent"
      BY <1>1, SnapshotIsRecord
    <3>3. [state |-> state[save[p].job], id |-> cancelId[save[p].job]] \in
       Record
      BY <1>1, SnapshotIsRecord
    <3>4. save' \in [Savers -> Persist]
      BY <1>1, <3>1, <3>3 DEF Snapshot, Persist, SavePhase
    <3> QED
      BY <1>1, <3>1, <3>2, <3>3, <3>4 DEF SchedulerInv, TypeOK, Snapshot
  <2>2. HolderInv'
    BY <1>1, SnapshotHolds
  <2>3. ConcurrencyBound'
    BY <1>1 DEF SchedulerInv, ConcurrencyBound, Launches, Active, Snapshot
  <2> QED
    BY <2>1, <2>2, <2>3 DEF SchedulerInv
<1>2. ASSUME NEW p \in Savers, Rename(p)
      PROVE  SchedulerInv'
  <2>1. TypeOK'
    <3>1. save \in [Savers -> Persist] /\ save[p] \in Persist
      BY DEF SchedulerInv, TypeOK
    <3>2. save[p].job \in Job
      BY <1>2 DEF SchedulerInv, HolderInv, SaveInv, Rename
    <3>3. save' \in [Savers -> Persist]
      BY <1>2, <3>1 DEF Rename, Persist, SavePhase
    <3>4. disk' \in [Job -> Record \cup {None}]
      BY <1>2, <3>1, <3>2 DEF SchedulerInv, TypeOK, Rename, Persist
    <3> QED
      BY <1>2, <3>1, <3>2, <3>3, <3>4 DEF SchedulerInv, TypeOK, Rename
  <2>2. HolderInv'
    BY <1>2, ConstantsAssumption DEF SchedulerInv, TypeOK, HolderInv,
       AdmissionInv, QueueInv, LaunchInv, CallInv, CloseInv, SaveInv,
       Recording, Up, Active, NoSave, Savers, Rename, Persist
  <2>3. ConcurrencyBound'
    BY <1>2 DEF SchedulerInv, ConcurrencyBound, Launches, Active, Rename
  <2> QED
    BY <2>1, <2>2, <2>3 DEF SchedulerInv
<1> QED
  BY <1>1, <1>2 DEF Persisting, Persists

\* submit() after its persist pushes the job and drains the queue.
LEMMA SubmitSavedSettles ==
  ASSUME SchedulerInv, SubmitSaved
  PROVE  /\ Append(queue, admission.job) \in Seq(Job)
         /\ IsInjective(Append(queue, admission.job))
         /\ Range(Append(queue, admission.job)) = Range(queue) \cup {admission.job}
         /\ Settled(Append(queue, admission.job), state, launch)
<1> DEFINE j == admission.job
<1>1. j \in Job /\ j \notin Range(queue) /\ launch[j] = "none"
  BY DEF SchedulerInv, HolderInv, AdmissionInv, SubmitSaved
<1>2. /\ Append(queue, j) \in Seq(Job) /\ IsInjective(Append(queue, j))
      /\ Range(Append(queue, j)) = Range(queue) \cup {j}
  BY <1>1, ScheduleFacts, AppendOne
<1>3. \A k \in Range(Append(queue, j)) : launch[k] = "none"
  BY <1>1, <1>2, ScheduleFacts
<1>4. Drain(Append(queue, j), state, running, launch)
  BY DEF SubmitSaved
<1>5. Settled(Append(queue, j), state, launch)
  BY <1>2, <1>3, <1>4, ScheduleFacts, DrainSettles
<1> QED
  BY <1>2, <1>5

\* submit() after its persist: the job joins the queue, which is drained.
LEMMA SubmitSavedKeeps ==
  ASSUME SchedulerInv, SubmitSaved
  PROVE SchedulerInv'
<1> DEFINE j == admission.job
<1>1. /\ j \in Job /\ Up /\ j \notin Range(queue) /\ launch[j] = "none"
      /\ state[j] \in JobState
      /\ close.step \in {"open", "admission"}
  BY DEF SchedulerInv, TypeOK, HolderInv, AdmissionInv, CloseInv, SubmitSaved,
     Closer
<1>2. /\ Append(queue, j) \in Seq(Job) /\ IsInjective(Append(queue, j))
      /\ Range(Append(queue, j)) = Range(queue) \cup {j}
  BY SubmitSavedSettles
<1>4. Settled(Append(queue, j), state, launch)
  BY SubmitSavedSettles
<1>5. UNCHANGED <<hostVars, jobVars, childVars, call, close, disk>>
      /\ save' = [save EXCEPT !["submit"] = NoSave]
      /\ admission' = [step |-> "idle", job |-> None]
      /\ announced' = [announced EXCEPT ![j] = state[j]]
  BY DEF SubmitSaved
<1>6. TypeOK'
  BY <1>1, <1>4, <1>5 DEF SchedulerInv, TypeOK, Settled, Admission, NoSave,
     Persist, SavePhase
<1>7. QueueInv'
  BY <1>1, <1>2, <1>4, <1>5, ScheduleFacts DEF Settled, QueueInv, JobState,
     Terminal, Outcome
<1>8. \A k \in Job : \/ launch'[k] = launch[k]
                     \/ state[k] = "queued"
  BY <1>4 DEF Settled
<1>9. HolderInv'
  <2>1. LaunchInv'
    BY <1>4, <1>5, <1>8, ConstantsAssumption DEF SchedulerInv, TypeOK,
       HolderInv, LaunchInv, Settled, Active, NoSave, Savers
  <2>2. AdmissionInv' /\ CallInv' /\ CloseInv'
    BY <1>5, <1>8 DEF SchedulerInv, HolderInv, AdmissionInv, CallInv,
       CloseInv, Up
  <2>3. SaveInv'
    BY <1>5, ConstantsAssumption DEF SchedulerInv, TypeOK, HolderInv, SaveInv,
       NoSave, Savers
  <2> QED
    BY <1>7, <2>1, <2>2, <2>3 DEF HolderInv
<1>10. ConcurrencyBound'
  BY <1>4, SettledCount
<1> QED
  BY <1>6, <1>9, <1>10 DEF SchedulerInv

\* The steps of submit() keep the invariant.
LEMMA SubmitKeeps ==
  ASSUME SchedulerInv, Submitting
  PROVE  SchedulerInv'
<1>1. ASSUME NEW j \in Job, SubmitBegin(j)
      PROVE  SchedulerInv'
  <2>1. TypeOK'
    BY <1>1, ConstantsAssumption DEF SchedulerInv, TypeOK, SubmitBegin,
       Closing, Admission
  <2>2. HolderInv'
    BY <1>1, ConstantsAssumption DEF SchedulerInv, TypeOK, HolderInv,
       AdmissionInv, QueueInv, LaunchInv, CallInv, CloseInv, SaveInv,
       Recording, Up, Active, NoSave, Savers, SubmitBegin, Closing, Admission
  <2>3. ConcurrencyBound'
    BY <1>1 DEF SchedulerInv, ConcurrencyBound, Launches, Active, SubmitBegin
  <2> QED
    BY <2>1, <2>2, <2>3 DEF SchedulerInv
<1>2. ASSUME SubmitRefused
      PROVE  SchedulerInv'
  <2>1. TypeOK'
    BY <1>2, ConstantsAssumption DEF SchedulerInv, TypeOK, SubmitRefused,
       Admission
  <2>2. HolderInv'
    BY <1>2, ConstantsAssumption DEF SchedulerInv, TypeOK, HolderInv,
       AdmissionInv, QueueInv, LaunchInv, CallInv, CloseInv, SaveInv,
       Recording, Up, Active, NoSave, Savers, SubmitRefused, Admission
  <2>3. ConcurrencyBound'
    BY <1>2 DEF SchedulerInv, ConcurrencyBound, Launches, Active,
       SubmitRefused
  <2> QED
    BY <2>1, <2>2, <2>3 DEF SchedulerInv
<1>3. ASSUME SubmitAdmit
      PROVE  SchedulerInv'
  <2>1. TypeOK'
    <3>1. admission.job \in Job
      BY <1>3 DEF SchedulerInv, HolderInv, AdmissionInv, SubmitAdmit
    <3>2. admission \in Admission
      BY DEF SchedulerInv, TypeOK
    <3>3. admission' \in Admission
      BY <1>3, <3>2 DEF SubmitAdmit, Admission
    <3>4. state' \in [Job -> JobState \cup {"absent"}]
      BY <1>3 DEF SchedulerInv, TypeOK, SubmitAdmit, JobState
    <3>5. intent' \in [Job -> Intent]
      BY <1>3 DEF SchedulerInv, TypeOK, SubmitAdmit, Intent
    <3>6. save' \in [Savers -> Persist]
      BY <1>3, <3>1 DEF SchedulerInv, TypeOK, SubmitAdmit, Saving, Persist,
         SavePhase
    <3> QED
      BY <1>3, <3>1, <3>2, <3>3, <3>4, <3>5, <3>6 DEF SchedulerInv, TypeOK,
         SubmitAdmit
  <2>2. HolderInv'
    BY <1>3, ConstantsAssumption DEF SchedulerInv, TypeOK, HolderInv,
       AdmissionInv, QueueInv, LaunchInv, CallInv, CloseInv, SaveInv,
       Recording, Up, Active, NoSave, Savers, SubmitAdmit, Closing, Saving,
       Admission, Persist, JobState, Terminal, Outcome
  <2>3. ConcurrencyBound'
    BY <1>3 DEF SchedulerInv, ConcurrencyBound, Launches, Active, SubmitAdmit
  <2> QED
    BY <2>1, <2>2, <2>3 DEF SchedulerInv
<1>4. ASSUME SubmitSaveFails
      PROVE  SchedulerInv'
  <2>1. TypeOK'
    <3>1. admission \in Admission
      BY DEF SchedulerInv, TypeOK
    <3>2. admission' \in Admission
      BY <1>4, <3>1 DEF SubmitSaveFails, Admission
    <3>3. \A c \in Cancel : call[c] \in Caller
      BY DEF SchedulerInv, TypeOK
    <3>4. call' \in [Cancel -> Caller]
      BY <1>4, <3>3 DEF SubmitSaveFails, Caller
    <3>5. state' \in [Job -> JobState \cup {"absent"}]
      BY <1>4 DEF SchedulerInv, TypeOK, SubmitSaveFails
    <3>6. save' \in [Savers -> Persist]
      BY <1>4 DEF SchedulerInv, TypeOK, SubmitSaveFails, NoSave, Persist,
         SavePhase
    <3> QED
      BY <1>4, <3>1, <3>2, <3>3, <3>4, <3>5, <3>6 DEF SchedulerInv, TypeOK,
         SubmitSaveFails
  <2>2. HolderInv'
    BY <1>4, ConstantsAssumption DEF SchedulerInv, TypeOK, HolderInv,
       AdmissionInv, QueueInv, LaunchInv, CallInv, CloseInv, SaveInv,
       Recording, Up, Active, NoSave, Savers, SubmitSaveFails, SaveFails,
       Caller, Admission, Persist, JobState, Terminal, Outcome
  <2>3. ConcurrencyBound'
    BY <1>4 DEF SchedulerInv, ConcurrencyBound, Launches, Active,
       SubmitSaveFails
  <2> QED
    BY <2>1, <2>2, <2>3 DEF SchedulerInv
<1>5. ASSUME SubmitRemoved
      PROVE  SchedulerInv'
  <2>1. TypeOK'
    <3>1. disk' = [disk EXCEPT ![admission.job] = None] \/ disk' = disk
      BY <1>5 DEF SubmitRemoved
    <3>2. disk' \in [Job -> Record \cup {None}]
      BY <3>1 DEF SchedulerInv, TypeOK
    <3>3. admission' \in Admission
      BY <1>5 DEF SubmitRemoved, Admission
    <3> QED
      BY <1>5, <3>1, <3>2, <3>3 DEF SchedulerInv, TypeOK, SubmitRemoved
  <2>2. HolderInv'
    BY <1>5, ConstantsAssumption DEF SchedulerInv, TypeOK, HolderInv,
       AdmissionInv, QueueInv, LaunchInv, CallInv, CloseInv, SaveInv,
       Recording, Up, Active, NoSave, Savers, SubmitRemoved, Admission
  <2>3. ConcurrencyBound'
    BY <1>5 DEF SchedulerInv, ConcurrencyBound, Launches, Active,
       SubmitRemoved
  <2> QED
    BY <2>1, <2>2, <2>3 DEF SchedulerInv
<1>6. ASSUME SubmitSaved
      PROVE  SchedulerInv'
  BY <1>6, SubmitSavedKeeps
<1> QED
  BY <1>1, <1>2, <1>3, <1>4, <1>5, <1>6 DEF Submitting

\* The close event and the wait for a cancellation being recorded.
LEMMA LaunchClosedHolds ==
  ASSUME SchedulerInv, NEW j \in Job, LaunchClosed(j)
  PROVE HolderInv'
<1>1. launch[j] # "none" /\ \A k \in Job : launch'[k] = "none" <=> launch[k] = "none"
  BY DEF LaunchClosed, SchedulerInv, TypeOK
<1>2. UNCHANGED <<hostVars, jobVars, queue, running, childVars, admission, call,
                 close, diskVars, announced>>
  BY DEF LaunchClosed
<1>3. Range(queue) \subseteq Job
  BY LenProperties, ElementOfSeq DEF Range, SchedulerInv, TypeOK
<1> QED
  BY <1>1, <1>2, <1>3 DEF SchedulerInv, HolderInv, AdmissionInv, QueueInv,
     LaunchInv, CallInv, CloseInv, SaveInv, Recording, Up, Active, NoSave

\* The end of launch(): either it waits for the escalation or the job is over.
LEMMA LaunchFlushedKeeps ==
  ASSUME SchedulerInv, NEW j \in Job, LaunchFlushed(j)
  PROVE SchedulerInv'
<1>1. timer' \in [Job -> BOOLEAN]
  BY DEF SchedulerInv, TypeOK, LaunchFlushed
<1>2. CASE launch' = [launch EXCEPT ![j] = "settling"] /\ UNCHANGED <<state, save>>
  <2>1. TypeOK'
    BY <1>1, <1>2 DEF SchedulerInv, TypeOK, LaunchFlushed, LaunchStep
  <2>2. HolderInv'
    BY <1>2 DEF SchedulerInv, HolderInv, AdmissionInv, QueueInv, LaunchInv,
       CallInv, CloseInv, SaveInv, Recording, Up, Active, NoSave,
       LaunchFlushed, TypeOK
  <2>3. ConcurrencyBound'
    <3>1. LaunchesKept
      BY <1>2 DEF LaunchesKept, LaunchFlushed, SchedulerInv, TypeOK
    <3> QED
      BY <3>1, CountKept DEF SchedulerInv
  <2> QED
    BY <2>1, <2>2, <2>3 DEF SchedulerInv
<1>3. CASE Finish(j)
  <2>1. TypeOK'
    BY <1>1, <1>3, ConstantsAssumption DEF SchedulerInv, TypeOK,
       LaunchFlushed, Finish, EndState, LaunchStep, JobState, Terminal,
       Outcome, Saving, Persist, SavePhase, Intent
  <2>2. HolderInv'
    BY <1>3, ConstantsAssumption DEF SchedulerInv, HolderInv, AdmissionInv,
       QueueInv, LaunchInv, CallInv, CloseInv, SaveInv, Recording, Up, Active,
       NoSave, LaunchFlushed, TypeOK, Finish, EndState, Saving, Savers,
       Persist
  <2>3. ConcurrencyBound'
    <3>1. LaunchesKept
      BY <1>3 DEF LaunchesKept, LaunchFlushed, SchedulerInv, TypeOK, Finish
    <3> QED
      BY <3>1, CountKept DEF SchedulerInv
  <2> QED
    BY <2>1, <2>2, <2>3 DEF SchedulerInv
<1> QED
  BY <1>2, <1>3 DEF LaunchFlushed

\* The finally of drain() frees the slot and drains the queue.
LEMMA FreedSlotSettles ==
  ASSUME SchedulerInv, NEW j \in Job, LaunchPublished(j)
  PROVE  /\ launch[j] # "none" /\ state[j] \in JobState
         /\ running - 1 \in Nat
         /\ Settled(queue, state, [launch EXCEPT ![j] = "none"])
<1> DEFINE at == [launch EXCEPT ![j] = "none"]
<1>1. launch[j] # "none" /\ state[j] \in JobState
  BY DEF LaunchPublished, SchedulerInv, TypeOK, HolderInv, LaunchInv, Active
<1>2. at \in [Job -> LaunchStep] /\ \A k \in Range(queue) : at[k] = "none"
  BY ScheduleFacts DEF LaunchStep
<1>3. running - 1 \in Nat /\ running - 1 = Cardinality(Busy(at))
      /\ running - 1 <= MaxConcurrent
  <2>1. Busy(at) = Busy(launch) \ {j} /\ j \in Busy(launch)
    BY <1>1, ScheduleFacts DEF Busy
  <2>2. /\ IsFiniteSet(Busy(launch) \ {j})
        /\ Cardinality(Busy(launch) \ {j}) = Cardinality(Busy(launch)) - 1
    BY <2>1, ScheduleFacts, FS_RemoveElement
  <2>3. Cardinality(Busy(at)) \in Nat
    BY <2>1, <2>2, FS_CardinalityType
  <2>4. Cardinality(Busy(at)) = running - 1
    BY <2>1, <2>2, ScheduleFacts
  <2> HIDE DEF at
  <2> QED
    BY <2>3, <2>4, ScheduleFacts, ConstantsAssumption DEF ConstantsAssumption
<1>4. Settled(queue, state, at)
  <2>1. Drain(queue, state, running - 1, at)
    BY DEF LaunchPublished, FreeSlot
  <2> QED
    BY <1>2, <1>3, <2>1, ScheduleFacts, DrainSettles
<1> QED
  BY <1>1, <1>3, <1>4

\* The finally of drain(): the slot is freed and the queue drained again.
LEMMA LaunchPublishedKeeps ==
  ASSUME SchedulerInv, NEW j \in Job, LaunchPublished(j)
  PROVE SchedulerInv'
<1> DEFINE at == [launch EXCEPT ![j] = "none"]
<1>1. launch[j] # "none" /\ state[j] \in JobState
  BY FreedSlotSettles
<1>4. Settled(queue, state, at)
  BY FreedSlotSettles
<1>5. UNCHANGED <<hostVars, jobVars, childVars, admission, call, close, disk>>
      /\ save' = [save EXCEPT ![j] = NoSave]
      /\ announced' = [announced EXCEPT ![j] = state[j]]
  BY DEF LaunchPublished
<1>6. TypeOK'
  BY <1>1, <1>4, <1>5 DEF SchedulerInv, TypeOK, Settled, NoSave, Persist,
     SavePhase
<1>7. \A k \in Job : \/ k = j \/ launch'[k] = launch[k]
                     \/ state[k] = "queued" /\ k \in Range(queue) /\ launch[k] = "none"
  BY <1>4, ScheduleFacts DEF Settled
<1>8. launch'[j] = "none"
  BY <1>1, <1>4, ScheduleFacts DEF Settled
<1>9. HolderInv'
  <2>1. LaunchInv'
    BY <1>5, <1>7, <1>8, ConstantsAssumption DEF SchedulerInv, TypeOK,
       HolderInv, LaunchInv, Active, NoSave, Savers
  <2>2. CallInv' /\ CloseInv'
    BY <1>5, <1>7, <1>8 DEF SchedulerInv, HolderInv, CallInv, CloseInv
  <2>3. SaveInv'
    BY <1>5, ConstantsAssumption DEF SchedulerInv, TypeOK, HolderInv, SaveInv,
       NoSave, Savers
  <2>4. QueueInv'
    BY <1>4, <1>5, ScheduleFacts DEF Settled, QueueInv
  <2>5. AdmissionInv'
    BY <1>4, <1>5, <1>7, <1>8 DEF SchedulerInv, HolderInv, AdmissionInv, Up,
       Recording, Settled
  <2> QED
    BY <2>1, <2>2, <2>3, <2>4, <2>5 DEF HolderInv
<1>10. ConcurrencyBound'
  BY <1>4, SettledCount
<1> QED
  BY <1>6, <1>9, <1>10 DEF SchedulerInv

\* The steps of launch() keep the invariant.
LEMMA LaunchKeeps ==
  ASSUME SchedulerInv, NEW i \in Job, Launching(i)
  PROVE  SchedulerInv'
<1>1. ASSUME NEW j \in Job, LaunchStop(j)
      PROVE  SchedulerInv'
  <2>1. TypeOK'
    BY <1>1, ConstantsAssumption DEF SchedulerInv, TypeOK, LaunchStop,
       Recording, Closing, Saving, Persist, SavePhase, Savers, LaunchStep,
       Intent, JobState, Terminal, Outcome
  <2>2. HolderInv'
    BY <1>1, ConstantsAssumption DEF SchedulerInv, TypeOK, HolderInv,
       AdmissionInv, QueueInv, LaunchInv, CallInv, CloseInv, SaveInv,
       Recording, Up, Active, NoSave, Savers, LaunchStop, Closing, Saving,
       Persist, LaunchStep, JobState, Terminal, Outcome
  <2>3. ConcurrencyBound'
    <3>1. LaunchesKept
      BY <1>1 DEF LaunchesKept, SchedulerInv, TypeOK, LaunchStep, LaunchStop
    <3> QED
      BY <3>1, CountKept DEF SchedulerInv
  <2> QED
    BY <2>1, <2>2, <2>3 DEF SchedulerInv
<1>2. ASSUME NEW j \in Job, LaunchPrepare(j)
      PROVE  SchedulerInv'
  <2>1. TypeOK'
    BY <1>2, ConstantsAssumption DEF SchedulerInv, TypeOK, LaunchPrepare,
       MayProceed, Recording, Closing, LaunchStep
  <2>2. HolderInv'
    BY <1>2, ConstantsAssumption DEF SchedulerInv, TypeOK, HolderInv,
       AdmissionInv, QueueInv, LaunchInv, CallInv, CloseInv, SaveInv,
       Recording, Up, Active, NoSave, Savers, LaunchPrepare, MayProceed,
       Closing, LaunchStep
  <2>3. ConcurrencyBound'
    <3>1. LaunchesKept
      BY <1>2 DEF LaunchesKept, SchedulerInv, TypeOK, LaunchStep, LaunchPrepare
    <3> QED
      BY <3>1, CountKept DEF SchedulerInv
  <2> QED
    BY <2>1, <2>2, <2>3 DEF SchedulerInv
<1>3. ASSUME NEW j \in Job, LaunchSpawn(j)
      PROVE  SchedulerInv'
  <2>1. TypeOK'
    <3>1. proc' = [proc EXCEPT ![j] = "alive"] \/ proc' = proc
      BY <1>3 DEF LaunchSpawn
    <3>2. spawns' = [spawns EXCEPT ![j] = @ + 1] \/ spawns' = spawns
      BY <1>3 DEF LaunchSpawn
    <3>3. proc' \in [Job -> {"none", "alive", "orphan", "exit0", "exit1"}]
      BY <3>1 DEF SchedulerInv, TypeOK
    <3>4. spawns[j] \in Nat /\ spawns[j] + 1 \in Nat
      BY DEF SchedulerInv, TypeOK
    <3>5. spawns' \in [Job -> Nat]
      BY SMTT(20), <3>2, <3>4 DEF SchedulerInv, TypeOK
    <3>6. launch' \in [Job -> LaunchStep]
      BY <1>3 DEF SchedulerInv, TypeOK, LaunchSpawn, LaunchStep
    <3> QED
      BY <1>3, <3>1, <3>2, <3>3, <3>4, <3>5, <3>6 DEF SchedulerInv, TypeOK,
         LaunchSpawn
  <2>2. HolderInv'
    BY <1>3, ConstantsAssumption DEF SchedulerInv, TypeOK, HolderInv,
       AdmissionInv, QueueInv, LaunchInv, CallInv, CloseInv, SaveInv,
       Recording, Up, Active, NoSave, Savers, LaunchSpawn, MayProceed,
       Closing, LaunchStep
  <2>3. ConcurrencyBound'
    <3>1. LaunchesKept
      BY <1>3 DEF LaunchesKept, SchedulerInv, TypeOK, LaunchStep, LaunchSpawn
    <3> QED
      BY <3>1, CountKept DEF SchedulerInv
  <2> QED
    BY <2>1, <2>2, <2>3 DEF SchedulerInv
<1>4. ASSUME NEW j \in Job, LaunchFails(j)
      PROVE  SchedulerInv'
  <2>1. TypeOK'
    BY <1>4, ConstantsAssumption DEF SchedulerInv, TypeOK, LaunchFails,
       ErrorState, Closing, Saving, Persist, SavePhase, Savers, LaunchStep,
       JobState, Terminal, Outcome
  <2>2. HolderInv'
    BY <1>4, ConstantsAssumption DEF SchedulerInv, TypeOK, HolderInv,
       AdmissionInv, QueueInv, LaunchInv, CallInv, CloseInv, SaveInv,
       Recording, Up, Active, NoSave, Savers, LaunchFails, ErrorState,
       Closing, Saving, Persist, LaunchStep, JobState, Terminal, Outcome
  <2>3. ConcurrencyBound'
    <3>1. LaunchesKept
      BY <1>4 DEF LaunchesKept, SchedulerInv, TypeOK, LaunchStep, LaunchFails
    <3> QED
      BY <3>1, CountKept DEF SchedulerInv
  <2> QED
    BY <2>1, <2>2, <2>3 DEF SchedulerInv
<1>5. ASSUME NEW j \in Job, LaunchStarted(j)
      PROVE  SchedulerInv'
  <2>1. TypeOK'
    BY <1>5, ConstantsAssumption DEF SchedulerInv, TypeOK, LaunchStarted,
       Closing, Saving, LaunchStep, Intent, Persist, SavePhase, Savers,
       JobState, Terminal, Outcome
  <2>2. HolderInv'
    BY <1>5, ConstantsAssumption DEF SchedulerInv, TypeOK, HolderInv,
       AdmissionInv, QueueInv, LaunchInv, CallInv, CloseInv, SaveInv,
       Recording, Up, Active, NoSave, Savers, LaunchStarted, Closing, Saving,
       Persist, LaunchStep, JobState, Terminal, Outcome
  <2>3. ConcurrencyBound'
    <3>1. LaunchesKept
      BY <1>5 DEF LaunchesKept, SchedulerInv, TypeOK, LaunchStep, LaunchStarted
    <3> QED
      BY <3>1, CountKept DEF SchedulerInv
  <2> QED
    BY <2>1, <2>2, <2>3 DEF SchedulerInv
<1>6. ASSUME NEW j \in Job, LaunchStartSaved(j)
      PROVE  SchedulerInv'
  <2>1. TypeOK'
    <3>1. state[j] \in JobState
      BY <1>6 DEF SchedulerInv, TypeOK, HolderInv, LaunchInv, Active,
         LaunchStartSaved
    <3>2. announced' \in [Job -> JobState \cup {"none"}]
      BY <1>6, <3>1 DEF SchedulerInv, TypeOK, LaunchStartSaved
    <3>3. launch' \in [Job -> LaunchStep]
      BY <1>6 DEF SchedulerInv, TypeOK, LaunchStartSaved, LaunchStep
    <3>4. save' \in [Savers -> Persist]
      BY <1>6 DEF SchedulerInv, TypeOK, LaunchStartSaved, NoSave, Persist,
         SavePhase
    <3> QED
      BY <1>6, <3>1, <3>2, <3>3, <3>4 DEF SchedulerInv, TypeOK,
         LaunchStartSaved
  <2>2. HolderInv'
    BY <1>6, ConstantsAssumption DEF SchedulerInv, TypeOK, HolderInv,
       AdmissionInv, QueueInv, LaunchInv, CallInv, CloseInv, SaveInv,
       Recording, Up, Active, NoSave, Savers, LaunchStartSaved, Saved,
       Persist, LaunchStep
  <2>3. ConcurrencyBound'
    <3>1. LaunchesKept
      BY <1>6 DEF LaunchesKept, SchedulerInv, TypeOK, LaunchStep, LaunchStartSaved
    <3> QED
      BY <3>1, CountKept DEF SchedulerInv
  <2> QED
    BY <2>1, <2>2, <2>3 DEF SchedulerInv
<1>7. ASSUME NEW j \in Job, LaunchStartSaveFails(j)
      PROVE  SchedulerInv'
  <2>1. TypeOK'
    BY <1>7, ConstantsAssumption DEF SchedulerInv, TypeOK,
       LaunchStartSaveFails, SaveFails, NoSave, Closing, Terminates,
       Verifiable, Stopped, Persist, SavePhase, Savers, LaunchStep, Intent
  <2>2. HolderInv'
    BY <1>7, ConstantsAssumption DEF SchedulerInv, TypeOK, HolderInv,
       AdmissionInv, QueueInv, LaunchInv, CallInv, CloseInv, SaveInv,
       Recording, Up, Active, NoSave, Savers, LaunchStartSaveFails, SaveFails,
       Closing, Terminates, Verifiable, Stopped, Persist, LaunchStep
  <2>3. ConcurrencyBound'
    <3>1. LaunchesKept
      BY <1>7 DEF LaunchesKept, SchedulerInv, TypeOK, LaunchStep, LaunchStartSaveFails
    <3> QED
      BY <3>1, CountKept DEF SchedulerInv
  <2> QED
    BY <2>1, <2>2, <2>3 DEF SchedulerInv
<1>8. ASSUME NEW j \in Job, LaunchAbandoned(j)
      PROVE  SchedulerInv'
  <2>1. TypeOK'
    BY <1>8, ConstantsAssumption DEF SchedulerInv, TypeOK, LaunchAbandoned,
       Stopped, ErrorState, Closing, Saving, Persist, SavePhase, Savers,
       LaunchStep, JobState, Terminal, Outcome
  <2>2. HolderInv'
    BY <1>8, ConstantsAssumption DEF SchedulerInv, TypeOK, HolderInv,
       AdmissionInv, QueueInv, LaunchInv, CallInv, CloseInv, SaveInv,
       Recording, Up, Active, NoSave, Savers, LaunchAbandoned, Stopped,
       ErrorState, Closing, Saving, Persist, LaunchStep, JobState, Terminal,
       Outcome
  <2>3. ConcurrencyBound'
    <3>1. LaunchesKept
      BY <1>8 DEF LaunchesKept, SchedulerInv, TypeOK, LaunchStep, LaunchAbandoned
    <3> QED
      BY <3>1, CountKept DEF SchedulerInv
  <2> QED
    BY <2>1, <2>2, <2>3 DEF SchedulerInv
<1>9. ASSUME NEW j \in Job, LaunchClosed(j)
      PROVE  SchedulerInv'
  <2>1. TypeOK'
    <3>1. \E s \in LaunchStep : launch' = [launch EXCEPT ![j] = s]
      BY <1>9 DEF LaunchClosed, LaunchStep
    <3>2. launch' \in [Job -> LaunchStep]
      BY <3>1 DEF SchedulerInv, TypeOK
    <3> QED
      BY <1>9, <3>1, <3>2 DEF SchedulerInv, TypeOK, LaunchClosed
  <2>2. HolderInv'
    BY <1>9, LaunchClosedHolds
  <2>3. ConcurrencyBound'
    <3>1. LaunchesKept
      BY <1>9 DEF LaunchesKept, SchedulerInv, TypeOK, LaunchStep, LaunchClosed
    <3> QED
      BY <3>1, CountKept DEF SchedulerInv
  <2> QED
    BY <2>1, <2>2, <2>3 DEF SchedulerInv
<1>10. ASSUME NEW j \in Job, LaunchSettled(j)
      PROVE  SchedulerInv'
  <2>1. TypeOK'
    BY <1>10, ConstantsAssumption DEF SchedulerInv, TypeOK, LaunchSettled,
       Finish, EndState, Saving, Persist, SavePhase, Savers, LaunchStep,
       JobState, Terminal, Outcome
  <2>2. HolderInv'
    BY <1>10, ConstantsAssumption DEF SchedulerInv, TypeOK, HolderInv,
       AdmissionInv, QueueInv, LaunchInv, CallInv, CloseInv, SaveInv,
       Recording, Up, Active, NoSave, Savers, LaunchSettled, Finish, EndState,
       Saving, Persist, LaunchStep, JobState, Terminal, Outcome
  <2>3. ConcurrencyBound'
    <3>1. LaunchesKept
      BY <1>10 DEF LaunchesKept, SchedulerInv, TypeOK, LaunchStep, LaunchSettled, Finish
    <3> QED
      BY <3>1, CountKept DEF SchedulerInv
  <2> QED
    BY <2>1, <2>2, <2>3 DEF SchedulerInv
<1>11. ASSUME NEW j \in Job, LaunchPublishFails(j)
      PROVE  SchedulerInv'
  <2>1. TypeOK'
    BY <1>11, ConstantsAssumption DEF SchedulerInv, TypeOK,
       LaunchPublishFails, SaveFails, Saving, Persist, SavePhase, Savers,
       LaunchStep, JobState, Terminal, Outcome
  <2>2. HolderInv'
    BY <1>11, ConstantsAssumption DEF SchedulerInv, TypeOK, HolderInv,
       AdmissionInv, QueueInv, LaunchInv, CallInv, CloseInv, SaveInv,
       Recording, Up, Active, NoSave, Savers, LaunchPublishFails, SaveFails,
       Saving, Persist, LaunchStep, JobState, Terminal, Outcome
  <2>3. ConcurrencyBound'
    <3>1. LaunchesKept
      BY <1>11 DEF LaunchesKept, SchedulerInv, TypeOK, LaunchStep, LaunchPublishFails
    <3> QED
      BY <3>1, CountKept DEF SchedulerInv
  <2> QED
    BY <2>1, <2>2, <2>3 DEF SchedulerInv
<1>12. ASSUME NEW j \in Job, LaunchFlushed(j)
      PROVE  SchedulerInv'
  BY <1>12, LaunchFlushedKeeps
<1>13. ASSUME NEW j \in Job, LaunchPublished(j)
      PROVE  SchedulerInv'
  BY <1>13, LaunchPublishedKeeps
<1> QED
  BY <1>1, <1>2, <1>3, <1>4, <1>5, <1>6, <1>7, <1>8, <1>9, <1>10, <1>11,
     <1>12, <1>13 DEF Launching

\* The child, the run timeout and the escalation keep the invariant.
LEMMA TerminateKeeps ==
  ASSUME SchedulerInv, NEW i \in Job, Terminating(i)
  PROVE  SchedulerInv'
<1>1. ASSUME NEW j \in Job, ChildExits(j)
      PROVE  SchedulerInv'
  <2>1. TypeOK'
    <3>1. \E s \in {"alive", "orphan", "exit0", "exit1"} : proc' = [proc
       EXCEPT ![j] = s]
      BY <1>1 DEF ChildExits
    <3>2. proc' \in [Job -> {"none", "alive", "orphan", "exit0", "exit1"}]
      BY <3>1 DEF SchedulerInv, TypeOK
    <3> QED
      BY <1>1, <3>1, <3>2 DEF SchedulerInv, TypeOK, ChildExits
  <2>2. HolderInv'
    BY <1>1, ConstantsAssumption DEF SchedulerInv, TypeOK, HolderInv,
       AdmissionInv, QueueInv, LaunchInv, CallInv, CloseInv, SaveInv,
       Recording, Up, Active, NoSave, Savers, ChildExits
  <2>3. ConcurrencyBound'
    BY <1>1 DEF SchedulerInv, ConcurrencyBound, Launches, Active, ChildExits
  <2> QED
    BY <2>1, <2>2, <2>3 DEF SchedulerInv
<1>2. ASSUME NEW j \in Job, TimerFires(j)
      PROVE  SchedulerInv'
  <2>1. TypeOK'
    BY <1>2, ConstantsAssumption DEF SchedulerInv, TypeOK, TimerFires,
       Terminates, Verifiable, Stopped, Intent
  <2>2. HolderInv'
    BY <1>2, ConstantsAssumption DEF SchedulerInv, TypeOK, HolderInv,
       AdmissionInv, QueueInv, LaunchInv, CallInv, CloseInv, SaveInv,
       Recording, Up, Active, NoSave, Savers, TimerFires, Terminates,
       Verifiable, Stopped
  <2>3. ConcurrencyBound'
    BY <1>2 DEF SchedulerInv, ConcurrencyBound, Launches, Active, TimerFires
  <2> QED
    BY <2>1, <2>2, <2>3 DEF SchedulerInv
<1>3. ASSUME NEW j \in Job, EscalationKills(j)
      PROVE  SchedulerInv'
  <2>1. TypeOK'
    BY <1>3, ConstantsAssumption DEF SchedulerInv, TypeOK, EscalationKills,
       Stopped
  <2>2. HolderInv'
    BY <1>3, ConstantsAssumption DEF SchedulerInv, TypeOK, HolderInv,
       AdmissionInv, QueueInv, LaunchInv, CallInv, CloseInv, SaveInv,
       Recording, Up, Active, NoSave, Savers, EscalationKills, Stopped
  <2>3. ConcurrencyBound'
    BY <1>3 DEF SchedulerInv, ConcurrencyBound, Launches, Active,
       EscalationKills
  <2> QED
    BY <2>1, <2>2, <2>3 DEF SchedulerInv
<1> QED
  BY <1>1, <1>2, <1>3 DEF Terminating

\* A withdrawal takes its job, and no other, out of the queue.
LEMMA WithdrawTakes ==
  ASSUME SchedulerInv, NEW c \in Cancel, NEW j \in Job, Withdraw(c, j)
  PROVE  /\ queue' \in Seq(Job) /\ IsInjective(queue')
         /\ Range(queue') = Range(queue) \ {j}
         /\ call'[c].slot \in Nat
<1> DEFINE slots == {i \in DOMAIN queue : queue[i] = j}
           slot == IF slots = {} THEN 0 ELSE CHOOSE i \in slots : TRUE
<1>1. /\ queue' = IF slot = 0 THEN queue ELSE RemoveAt(queue, slot)
      /\ call' = [call EXCEPT ![c].step = "withdraw", ![c].job = j, ![c].slot = slot]
  BY DEF Withdraw
<1>2. DOMAIN queue = 1..Len(queue) /\ Len(queue) \in Nat
  BY ScheduleFacts, LenProperties
<1>3. slot \in Nat /\ (slot = 0 => j \notin Range(queue))
      /\ (slot # 0 => slot \in 1..Len(queue) /\ queue[slot] = j)
  BY <1>2 DEF Range
<1> HIDE DEF slot, slots
<1>4. CASE slot = 0
  BY <1>1, <1>3, <1>4, ScheduleFacts DEF SchedulerInv, TypeOK, Caller
<1>5. CASE slot # 0
  BY <1>1, <1>3, <1>5, ScheduleFacts, RemoveOne DEF SchedulerInv, TypeOK, Caller
<1> QED
  BY <1>4, <1>5

\* cancel() of a waiting job takes it out of the queue.
LEMMA WithdrawKeeps ==
  ASSUME SchedulerInv, NEW c \in Cancel, NEW j \in Job, Withdraw(c, j)
  PROVE SchedulerInv'
<1> DEFINE slots == {i \in DOMAIN queue : queue[i] = j}
           slot == IF slots = {} THEN 0 ELSE CHOOSE i \in slots : TRUE
<1>1. /\ state[j] = "queued" /\ launch[j] = "none" /\ ~Cancelling(j) /\ Up /\ ~Closing
      /\ queue' = IF slot = 0 THEN queue ELSE RemoveAt(queue, slot)
      /\ state' = [state EXCEPT ![j] = "cancelled"]
      /\ intent' = [intent EXCEPT ![j] = "cancelled"]
      /\ cancelId' = [cancelId EXCEPT ![j] = c]
      /\ call' = [call EXCEPT ![c].step = "withdraw", ![c].job = j, ![c].slot = slot]
      /\ save' = [save EXCEPT ![c] = [phase |-> "written", job |-> j,
                                      record |-> [state |-> "cancelled", id |-> c]]]
      /\ UNCHANGED <<hostVars, running, launch, childVars, admission, close, disk,
                     announced>>
  BY DEF Withdraw, CancelBegin, Waiting
<1>2. DOMAIN queue = 1..Len(queue) /\ Len(queue) \in Nat
  BY ScheduleFacts, LenProperties
<1>4. slot \in Nat /\ (slot = 0 => j \notin Range(queue))
      /\ (slot # 0 => slot \in 1..Len(queue) /\ queue[slot] = j)
  BY <1>2 DEF Range
<1>5. /\ queue' \in Seq(Job) /\ IsInjective(queue')
      /\ Range(queue') \subseteq Range(queue) \ {j}
  BY WithdrawTakes
<1> HIDE DEF slot, slots
<1>6. call[c] \in Caller /\ save[c] \in Persist
  BY DEF SchedulerInv, TypeOK, Savers
<1>7. TypeOK'
  <2>1. call' \in [Cancel -> Caller]
    BY <1>1, <1>4, <1>6 DEF SchedulerInv, TypeOK, Caller
  <2>2. save' \in [Savers -> Persist]
    BY <1>1, <1>6 DEF SchedulerInv, TypeOK, Persist, SavePhase, Record,
       JobState, Terminal, Outcome
  <2> QED
    BY <1>1, <1>5, <2>1, <2>2 DEF SchedulerInv, TypeOK, JobState, Terminal,
       Outcome, Intent
<1>8. HolderInv'
  <2>1. QueueInv'
    BY <1>1, <1>5, ScheduleFacts DEF QueueInv, SchedulerInv, TypeOK
  <2>2. AdmissionInv'
    BY <1>1, <1>4, <1>5 DEF SchedulerInv, HolderInv, AdmissionInv, TypeOK,
       Recording, Up, Caller
  <2>3. CallInv'
    <3>1. /\ call'[c].step = "withdraw" /\ call'[c].job = j /\ call'[c].slot = slot
          /\ \A d \in Cancel \ {c} : call'[d] = call[d]
      BY <1>1, <1>6 DEF SchedulerInv, TypeOK, Caller
    <3>2. slot > 0 /\ admission.step = "saving" => admission.job # j
      BY <1>2, <1>4 DEF SchedulerInv, HolderInv, AdmissionInv, Range
    <3>3. state'[j] = "cancelled" /\ \A k \in Job : state[k] # "absent" => state'[k] # "absent"
      BY <1>1 DEF SchedulerInv, TypeOK
    <3>4. \A d \in Cancel : call[d].step \in {"withdraw", "record"} => call[d].job # j
      BY <1>1 DEF Cancelling
    <3>5. \A k \in Job : state[k] = "cancelled" => state'[k] = "cancelled"
      BY <1>1 DEF SchedulerInv, TypeOK
    <3>6. CallInv /\ admission' = admission /\ launch' = launch /\ launch[j] = "none"
      BY <1>1 DEF SchedulerInv, HolderInv
    <3>7. ASSUME NEW d \in Cancel
          PROVE  /\ call'[d].step \in {"withdraw", "detached", "record"} =>
                      call'[d].job \in Job
                 /\ call'[d].step = "record" => state'[call'[d].job] # "absent"
                 /\ call'[d].step = "withdraw" =>
                      /\ state'[call'[d].job] = "cancelled"
                      /\ launch'[call'[d].job] = "none"
                      /\ call'[d].slot > 0 /\ admission'.step = "saving" =>
                           admission'.job # call'[d].job
      <4>1. CASE d = c
        BY <3>1, <3>2, <3>3, <3>6, <4>1
      <4>2. CASE d # c
        BY <3>1, <3>3, <3>5, <3>6, <4>2 DEF CallInv
      <4> QED
        BY <4>1, <4>2
    <3>8. ASSUME NEW d \in Cancel, NEW e \in Cancel,
                 call'[d].step \in {"withdraw", "record"},
                 call'[e].step \in {"withdraw", "record"},
                 call'[d].job = call'[e].job
          PROVE  d = e
      BY <3>1, <3>4, <3>6, <3>8 DEF CallInv
    <3> QED
      BY <3>7, <3>8 DEF CallInv
  <2>4. LaunchInv'
    BY <1>1, ConstantsAssumption DEF SchedulerInv, HolderInv, LaunchInv,
       Active, TypeOK, Savers
  <2>5. CloseInv'
    BY <1>1 DEF SchedulerInv, HolderInv, CloseInv, TypeOK, Closing
  <2>6. SaveInv'
    BY <1>1, <1>6, ConstantsAssumption DEF SchedulerInv, HolderInv, SaveInv,
       TypeOK, Savers, Caller
  <2> QED
    BY <2>1, <2>2, <2>3, <2>4, <2>5, <2>6 DEF HolderInv
<1>9. ConcurrencyBound'
  BY <1>1 DEF SchedulerInv, ConcurrencyBound, Launches, Active
<1> QED
  BY <1>7, <1>8, <1>9 DEF SchedulerInv

\* A rollback that puts the job back into the queue drains it.
LEMMA RollbackSettles ==
  ASSUME SchedulerInv, NEW c \in Cancel, WithdrawFails(c),
         call[c].step = "withdraw", call[c].slot > 0,
         ~Contains(queue, call[c].job)
  PROVE  \E q \in Seq(Job) :
           /\ IsInjective(q) /\ Range(q) = Range(queue) \cup {call[c].job}
           /\ Len(q) = Len(queue) + 1
           /\ Drain(q, state', running, launch)
           /\ Settled(q, state', launch)
<1> DEFINE j == call[c].job
           slot == call[c].slot
           at == IF slot <= Len(queue) THEN slot ELSE Len(queue) + 1
           q == InsertAt(queue, at, j)
<1>1. j \in Job /\ slot \in Nat /\ slot > 0 /\ launch[j] = "none"
  BY DEF SchedulerInv, TypeOK, HolderInv, CallInv, Caller
<1>2. DOMAIN queue = 1..Len(queue) /\ Len(queue) \in Nat /\ j \notin Range(queue)
  BY ScheduleFacts, LenProperties DEF Contains, Range
<1>3. at \in 1..(Len(queue) + 1)
  BY <1>1, <1>2
<1>4. Drain(q, state', running, launch)
  BY DEF WithdrawFails
<1> HIDE DEF at
<1>5. /\ q \in Seq(Job) /\ IsInjective(q) /\ Range(q) = Range(queue) \cup {j}
      /\ Len(q) = Len(queue) + 1
  BY <1>1, <1>2, <1>3, ScheduleFacts, InsertOne
<1> HIDE DEF q
<1>6. \A k \in Range(q) : launch[k] = "none"
  BY <1>1, <1>5, ScheduleFacts
<1>7. Settled(q, state', launch)
  BY <1>4, <1>5, <1>6, ScheduleFacts, DrainSettles
<1> QED
  BY <1>4, <1>5, <1>7

\* A withdrawal that is not persisted is rolled back and the queue drained.
LEMMA WithdrawFailsKeeps ==
  ASSUME SchedulerInv, NEW c \in Cancel, WithdrawFails(c)
  PROVE SchedulerInv'
<1> DEFINE j == call[c].job
           slot == call[c].slot
           at == IF slot <= Len(queue) THEN slot ELSE Len(queue) + 1
<1>1. /\ call[c].step \in {"withdraw", "detached"} /\ j \in Job /\ slot \in Nat
      /\ save' = [save EXCEPT ![c] = NoSave]
      /\ call' = Answer(c, j, "refused", "none")
      /\ UNCHANGED <<hostVars, childVars, admission, close, disk, announced>>
  BY DEF WithdrawFails, SchedulerInv, TypeOK, HolderInv, CallInv, Caller
<1>2. /\ call' \in [Cancel -> Caller]
      /\ call'[c].step = "refused"
      /\ \A d \in Cancel \ {c} : call'[d] = call[d]
  BY <1>1 DEF SchedulerInv, TypeOK, Answer, Caller
<1>3. save' \in [Savers -> Persist]
  BY <1>1 DEF SchedulerInv, TypeOK, NoSave, Persist, SavePhase
<1>4. SaveInv'
  BY <1>1, <1>2, ConstantsAssumption DEF SchedulerInv, HolderInv, SaveInv,
     TypeOK, Savers, NoSave
<1>5. CASE UNCHANGED <<jobVars, queueVars>>
  <2>1. TypeOK'
    BY <1>1, <1>2, <1>3, <1>5 DEF SchedulerInv, TypeOK
  <2>2. HolderInv'
    <3>1. LaunchInv'
      BY <1>1, <1>5, ConstantsAssumption DEF SchedulerInv, TypeOK, HolderInv,
         LaunchInv, Active, NoSave, Savers
    <3>2. CallInv'
      BY <1>1, <1>2, <1>5 DEF SchedulerInv, HolderInv, CallInv
    <3>3. AdmissionInv' /\ CloseInv'
      BY <1>1, <1>2, <1>5 DEF SchedulerInv, HolderInv, AdmissionInv, CloseInv,
         Recording, Up
    <3>4. QueueInv'
      BY <1>5 DEF SchedulerInv, HolderInv, QueueInv
    <3> QED
      BY <1>4, <3>1, <3>2, <3>3, <3>4 DEF HolderInv
  <2>3. ConcurrencyBound'
    BY <1>5 DEF SchedulerInv, ConcurrencyBound, Launches, Active
  <2> QED
    BY <2>1, <2>2, <2>3 DEF SchedulerInv
<1>6. CASE /\ call[c].step = "withdraw"
           /\ state' = [state EXCEPT ![j] = "queued"]
           /\ intent' = [intent EXCEPT ![j] = "none"]
           /\ cancelId' = [cancelId EXCEPT ![j] = None]
           /\ IF slot > 0 /\ ~Contains(queue, j)
              THEN Drain(InsertAt(queue, at, j), state', running, launch)
              ELSE UNCHANGED queueVars
  <2>1. /\ state[j] = "cancelled" /\ launch[j] = "none"
        /\ slot > 0 /\ admission.step = "saving" => admission.job # j
        /\ close.step \in {"open", "admission", "cancels"}
    BY <1>1, <1>6 DEF SchedulerInv, HolderInv, CallInv, CloseInv
  <2>2. /\ state' \in [Job -> JobState \cup {"absent"}]
        /\ state'[j] = "queued" /\ \A k \in Job \ {j} : state'[k] = state[k]
    BY <1>1, <1>6 DEF SchedulerInv, TypeOK, JobState
  <2>3. \A d \in Cancel \ {c} : call[d].step \in {"withdraw", "record"} => call[d].job # j
    BY <1>6 DEF SchedulerInv, HolderInv, CallInv
  <2>4. ASSUME /\ queue' \in Seq(Job) /\ IsInjective(queue')
               /\ Range(queue') \subseteq Range(queue) \cup {j}
               /\ j \in Range(queue') => (admission.step = "saving" => admission.job # j),
               \A k \in Range(queue') : launch'[k] = "none",
               launch' \in [Job -> LaunchStep], running' \in Nat,
               \A k \in Job : \/ launch'[k] = launch[k]
                              \/ /\ launch[k] = "none" /\ launch'[k] = "check"
                                 /\ state'[k] = "queued"
                                 /\ admission.step = "saving" => admission.job # k,
               ConcurrencyBound'
        PROVE  SchedulerInv'
    <3>1. TypeOK'
      BY <1>1, <1>2, <1>3, <1>6, <2>2, <2>4 DEF SchedulerInv, TypeOK, Intent
    <3>2. LaunchInv'
      <4>1. LaunchInv /\ \A k \in Job : save'[k] = save[k]
        BY <1>1, ConstantsAssumption DEF SchedulerInv, TypeOK, HolderInv,
           Savers
      <4>2. ASSUME NEW k \in Job, launch'[k] = "none" PROVE save'[k] = NoSave
        BY <2>4, <4>1, <4>2 DEF LaunchInv, Active
      <4>3. ASSUME NEW k \in Job, launch'[k] # "none" PROVE state'[k] # "absent"
        BY <2>2, <2>4, <4>1, <4>3 DEF LaunchInv, Active
      <4> QED
        BY <4>2, <4>3 DEF LaunchInv, Active, NoSave
    <3>3. CallInv'
      BY <1>1, <1>2, <2>2, <2>3, <2>4 DEF SchedulerInv, HolderInv, CallInv
    <3>4. CloseInv'
      BY <1>1, <1>2, <2>2 DEF SchedulerInv, HolderInv, CloseInv
    <3>5. QueueInv'
      BY <2>1, <2>2, <2>4, ScheduleFacts DEF QueueInv
    <3>6. AdmissionInv'
      BY <1>1, <1>2, <2>1, <2>2, <2>4, ScheduleFacts DEF SchedulerInv,
         HolderInv, AdmissionInv, Recording, Up
    <3> QED
      BY <1>4, <2>4, <3>1, <3>2, <3>3, <3>4, <3>5, <3>6 DEF SchedulerInv,
         HolderInv
  <2>5. CASE slot > 0 /\ ~Contains(queue, j)
    <3>4. PICK q \in Seq(Job) : /\ Range(q) = Range(queue) \cup {j}
                                /\ Settled(q, state', launch)
      BY <1>6, <2>5, RollbackSettles
    <3>6. Settled(q, state', launch)
      BY <3>4
    <3>7. ConcurrencyBound'
      BY <3>6, SettledCount
    <3>8. admission.step = "saving" => admission.job \notin Range(q)
      BY <2>1, <2>5, <3>4 DEF SchedulerInv, HolderInv, AdmissionInv
    <3> QED
      BY <2>4, <3>4, <3>6, <3>7, <3>8 DEF Settled
  <2>6. CASE ~(slot > 0 /\ ~Contains(queue, j))
    <3>1. UNCHANGED queueVars
      BY <1>6, <2>6
    <3>2. ConcurrencyBound'
      BY <3>1 DEF SchedulerInv, ConcurrencyBound, Launches, Active
    <3>3. j \in Range(queue) => (admission.step = "saving" => admission.job # j)
      BY DEF SchedulerInv, HolderInv, AdmissionInv
    <3> QED
      BY <2>4, <3>1, <3>2, <3>3, ScheduleFacts
  <2> QED
    BY <2>5, <2>6
<1> QED
  BY <1>1, <1>5, <1>6 DEF WithdrawFails

\* The steps of the cancel callers keep the invariant.
LEMMA CallKeeps ==
  ASSUME SchedulerInv, NEW i \in Cancel, Calling(i)
  PROVE  SchedulerInv'
<1>1. ASSUME NEW c \in Cancel, NEW j \in Job, CancelAnswered(c, j)
      PROVE  SchedulerInv'
  <2>1. TypeOK'
    BY <1>1, ConstantsAssumption DEF SchedulerInv, TypeOK, CancelAnswered,
       CancelBegin, Closing, Answer, Caller, JobState, Terminal, Outcome
  <2>2. HolderInv'
    BY <1>1, ConstantsAssumption DEF SchedulerInv, TypeOK, HolderInv,
       AdmissionInv, QueueInv, LaunchInv, CallInv, CloseInv, SaveInv,
       Recording, Up, Active, NoSave, Savers, CancelAnswered, CancelBegin,
       Closing, Cancelling, Answer, Caller
  <2>3. ConcurrencyBound'
    BY <1>1 DEF SchedulerInv, ConcurrencyBound, Launches, Active,
       CancelAnswered
  <2> QED
    BY <2>1, <2>2, <2>3 DEF SchedulerInv
<1>2. ASSUME NEW c \in Cancel, NEW j \in Job, RecordBegin(c, j)
      PROVE  SchedulerInv'
  <2>1. TypeOK'
    <3>1. call \in [Cancel -> Caller] /\ call[c] \in Caller
      BY DEF SchedulerInv, TypeOK
    <3>2. Verifiable(j) \in BOOLEAN
      BY DEF Verifiable
    <3>3. call' \in [Cancel -> Caller]
      BY <1>2, <3>1, <3>2 DEF RecordBegin, Caller
    <3>4. save' \in [Savers -> Persist]
      BY <1>2 DEF SchedulerInv, TypeOK, RecordBegin, Saving, Persist,
         SavePhase, Savers
    <3>5. cancelId' \in [Job -> Cancel \cup {None}]
      BY <1>2 DEF SchedulerInv, TypeOK, RecordBegin
    <3> QED
      BY <1>2, <3>1, <3>2, <3>3, <3>4, <3>5 DEF SchedulerInv, TypeOK,
         RecordBegin
  <2>2. HolderInv'
    BY SMTT(20), <1>2, ConstantsAssumption DEF SchedulerInv, TypeOK, HolderInv,
       AdmissionInv, QueueInv, LaunchInv, CallInv, CloseInv, SaveInv,
       Recording, Up, Active, NoSave, Savers, RecordBegin, CancelBegin,
       Closing, Cancelling, Verifiable, Saving, Caller, Persist
  <2>3. ConcurrencyBound'
    BY <1>2 DEF SchedulerInv, ConcurrencyBound, Launches, Active, RecordBegin
  <2> QED
    BY <2>1, <2>2, <2>3 DEF SchedulerInv
<1>3. ASSUME NEW c \in Cancel, WithdrawSaved(c)
      PROVE  SchedulerInv'
  <2>1. TypeOK'
    <3>1. call' \in [Cancel -> Caller]
      BY <1>3, ConstantsAssumption DEF SchedulerInv, TypeOK, WithdrawSaved,
         HolderInv, CallInv, Answer, Caller, JobState, Terminal, Outcome
    <3>2. save' \in [Savers -> Persist]
      BY <1>3, ConstantsAssumption DEF SchedulerInv, TypeOK, WithdrawSaved,
         HolderInv, CallInv, Answer, Persist, SavePhase, Savers, Saving,
         NoSave
    <3>3. announced' \in [Job -> JobState \cup {"none"}]
      BY <1>3, ConstantsAssumption DEF SchedulerInv, TypeOK, WithdrawSaved,
         HolderInv, CallInv, Answer, JobState, Terminal, Outcome
    <3> QED
      BY <1>3, <3>1, <3>2, <3>3 DEF SchedulerInv, TypeOK, WithdrawSaved
  <2>2. HolderInv'
    BY <1>3, ConstantsAssumption DEF SchedulerInv, TypeOK, HolderInv,
       AdmissionInv, QueueInv, LaunchInv, CallInv, CloseInv, SaveInv,
       Recording, Up, Active, NoSave, Savers, WithdrawSaved, Saved, Answer,
       Caller, Persist
  <2>3. ConcurrencyBound'
    BY <1>3 DEF SchedulerInv, ConcurrencyBound, Launches, Active,
       WithdrawSaved
  <2> QED
    BY <2>1, <2>2, <2>3 DEF SchedulerInv
<1>4. ASSUME NEW c \in Cancel, RecordSaved(c)
      PROVE  SchedulerInv'
  <2>1. TypeOK'
    <3>1. intent' \in [Job -> Intent]
      BY <1>4, ConstantsAssumption DEF SchedulerInv, TypeOK, RecordSaved,
         HolderInv, CallInv, Answer, Intent
    <3>2. escalating' \in [Job -> BOOLEAN]
      BY <1>4, ConstantsAssumption DEF SchedulerInv, TypeOK, RecordSaved,
         HolderInv, CallInv, Answer
    <3>3. call' \in [Cancel -> Caller]
      BY <1>4, ConstantsAssumption DEF SchedulerInv, TypeOK, RecordSaved,
         HolderInv, CallInv, Answer, Caller, JobState, Terminal, Outcome
    <3>4. save' \in [Savers -> Persist]
      BY <1>4, ConstantsAssumption DEF SchedulerInv, TypeOK, RecordSaved,
         HolderInv, CallInv, Answer, Persist, SavePhase, Savers, Saving,
         NoSave
    <3> QED
      BY <1>4, <3>1, <3>2, <3>3, <3>4 DEF SchedulerInv, TypeOK, RecordSaved
  <2>2. HolderInv'
    BY <1>4, ConstantsAssumption DEF SchedulerInv, TypeOK, HolderInv,
       AdmissionInv, QueueInv, LaunchInv, CallInv, CloseInv, SaveInv,
       Recording, Up, Active, NoSave, Savers, RecordSaved, Saved, Answer,
       Terminates, Verifiable, Stopped, Caller, Persist
  <2>3. ConcurrencyBound'
    BY <1>4 DEF SchedulerInv, ConcurrencyBound, Launches, Active, RecordSaved
  <2> QED
    BY <2>1, <2>2, <2>3 DEF SchedulerInv
<1>5. ASSUME NEW c \in Cancel, RecordFails(c)
      PROVE  SchedulerInv'
  <2>1. TypeOK'
    <3>1. cancelId' \in [Job -> Cancel \cup {None}]
      BY <1>5, ConstantsAssumption DEF SchedulerInv, TypeOK, RecordFails,
         HolderInv, CallInv, Answer
    <3>2. call' \in [Cancel -> Caller]
      BY <1>5, ConstantsAssumption DEF SchedulerInv, TypeOK, RecordFails,
         HolderInv, CallInv, Answer, Caller, JobState, Terminal, Outcome
    <3>3. save' \in [Savers -> Persist]
      BY <1>5, ConstantsAssumption DEF SchedulerInv, TypeOK, RecordFails,
         HolderInv, CallInv, Answer, Persist, SavePhase, Savers, Saving,
         NoSave
    <3> QED
      BY <1>5, <3>1, <3>2, <3>3 DEF SchedulerInv, TypeOK, RecordFails
  <2>2. HolderInv'
    BY <1>5, ConstantsAssumption DEF SchedulerInv, TypeOK, HolderInv,
       AdmissionInv, QueueInv, LaunchInv, CallInv, CloseInv, SaveInv,
       Recording, Up, Active, NoSave, Savers, RecordFails, SaveFails, Answer,
       Caller, Persist
  <2>3. ConcurrencyBound'
    BY <1>5 DEF SchedulerInv, ConcurrencyBound, Launches, Active, RecordFails
  <2> QED
    BY <2>1, <2>2, <2>3 DEF SchedulerInv
<1>6. ASSUME NEW c \in Cancel, NEW j \in Job, Withdraw(c, j)
      PROVE  SchedulerInv'
  BY <1>6, WithdrawKeeps
<1>7. ASSUME NEW c \in Cancel, WithdrawFails(c)
      PROVE  SchedulerInv'
  BY <1>7, WithdrawFailsKeeps
<1> QED
  BY <1>1, <1>2, <1>3, <1>4, <1>5, <1>6, <1>7 DEF Calling

\* close() moves on only when what it waits for is over.
LEMMA CloseWaitsKeeps ==
  ASSUME SchedulerInv, CloseWaits
  PROVE SchedulerInv'
<1>1. UNCHANGED <<hostVars, jobVars, queueVars, childVars, admission, call,
                 diskVars, announced>>
  BY DEF CloseWaits
<1>2. close \in Closer
  BY DEF SchedulerInv, TypeOK
<1>3. /\ admission.step = "idle"
      /\ close.step # "admission" \/ close'.step = "cancels"
      /\ close'.step \notin {"open", "admission", "cancels"} =>
           \A c \in Cancel : call[c].step \notin {"withdraw", "record"}
  BY DEF SchedulerInv, TypeOK, Closer, HolderInv, CloseInv, CallInv,
     CloseWaits, Cancelling
<1>4. close' \in Closer
      /\ close.step \notin {"saving", "publish", "republish"}
      /\ close'.step \notin {"saving", "publish", "republish"}
  <2>1. CASE close.step = "admission" /\ close' = [close EXCEPT !.step = "cancels"]
    BY <1>2, <2>1 DEF Closer
  <2>2. CASE /\ close.step = "cancels"
             /\ close' = [close EXCEPT !.step = "sweep",
                                       !.todo = {j \in Job : state[j] # "absent"}]
    BY <1>2, <2>2 DEF Closer
  <2>3. CASE close.step = "sweep" /\ close' = [close EXCEPT !.step = "draining"]
    BY <1>2, <2>3 DEF Closer
  <2>4. CASE close.step = "draining" /\ close' = [close EXCEPT !.step = "closed"]
    BY <1>2, <2>4 DEF Closer
  <2> QED
    BY <2>1, <2>2, <2>3, <2>4 DEF CloseWaits
<1>5. TypeOK'
  BY <1>1, <1>4 DEF SchedulerInv, TypeOK
<1>6. HolderInv'
  BY <1>1, <1>3, <1>4 DEF SchedulerInv, HolderInv, AdmissionInv, QueueInv,
     LaunchInv, CallInv, CloseInv, SaveInv, Recording, Up, Active
<1>7. ConcurrencyBound'
  BY <1>1 DEF SchedulerInv, ConcurrencyBound, Launches, Active
<1> QED
  BY <1>5, <1>6, <1>7 DEF SchedulerInv

\* A persist of close() that rejects.
LEMMA CloseSaveFailsKeeps ==
  ASSUME SchedulerInv, CloseSaveFails
  PROVE SchedulerInv'
<1>1. UNCHANGED <<hostVars, intent, cancelId, queueVars, childVars, admission,
                 call, disk, announced>>
  BY DEF CloseSaveFails
<1>2. close \in Closer /\ save \in [Savers -> Persist] /\ close.job \in Job /\ state[close.job] # "absent"
   /\ admission.step = "idle"
  BY DEF SchedulerInv, TypeOK, HolderInv, CloseInv, CloseSaveFails
<1>3. ConcurrencyBound'
  BY <1>1 DEF SchedulerInv, ConcurrencyBound, Launches, Active
<1>4. CASE /\ close.step = "saving"
           /\ close' = [close EXCEPT !.step = "failed"]
           /\ save' = [save EXCEPT !["close"] = NoSave]
           /\ UNCHANGED state
  <2>1. close' \in Closer /\ close'.step = "failed"
    BY <1>2, <1>4 DEF Closer
  <2>2. TypeOK'
    BY <1>1, <1>2, <1>4, <2>1 DEF SchedulerInv, TypeOK, NoSave, Persist,
       SavePhase
  <2>3. HolderInv'
    BY <1>1, <1>2, <1>4, <2>1, ConstantsAssumption DEF SchedulerInv, TypeOK,
       HolderInv, AdmissionInv, QueueInv, LaunchInv, CallInv, CloseInv,
       SaveInv, Recording, Up, Active, NoSave, Savers
  <2> QED
    BY <1>3, <2>2, <2>3 DEF SchedulerInv
<1>5. CASE /\ close.step = "publish"
           /\ close' = [close EXCEPT !.step = "republish"]
           /\ save' = [save EXCEPT !["close"] = Saving(close.job)]
           /\ state' = [state EXCEPT ![close.job] = "unknown"]
  <2>1. close' \in Closer /\ close'.step = "republish" /\ close'.job = close.job
    BY <1>2, <1>5 DEF Closer
  <2>2. TypeOK'
    BY <1>1, <1>2, <1>5, <2>1 DEF SchedulerInv, TypeOK, Saving, Persist,
       SavePhase, JobState, Terminal, Outcome
  <2>3. \A k \in Job : state[k] = "absent" <=> state'[k] = "absent"
    BY <1>2, <1>5 DEF SchedulerInv, TypeOK
  <2>4. LaunchInv' /\ QueueInv' /\ AdmissionInv'
    BY <1>1, <1>2, <1>5, <2>3, ConstantsAssumption DEF SchedulerInv, TypeOK,
       HolderInv, AdmissionInv, QueueInv, LaunchInv, Active, NoSave, Saving,
       Savers
  <2>5. CallInv'
    BY <1>1, <1>2, <1>5, <2>3 DEF SchedulerInv, HolderInv, CallInv, CloseInv,
       TypeOK
  <2>6. CloseInv'
    BY <1>1, <1>2, <1>5, <2>1, <2>3 DEF SchedulerInv, HolderInv, CloseInv
  <2>7. SaveInv'
    BY <1>1, <1>2, <1>5, <2>1, ConstantsAssumption DEF SchedulerInv,
       HolderInv, SaveInv, Saving, Savers
  <2> QED
    BY <1>3, <2>2, <2>4, <2>5, <2>6, <2>7 DEF SchedulerInv, HolderInv
<1> QED
  BY <1>4, <1>5 DEF CloseSaveFails

\* The steps of close() keep the invariant.
LEMMA ShutKeeps ==
  ASSUME SchedulerInv, Shutting
  PROVE  SchedulerInv'
<1>1. ASSUME CloseBegin
      PROVE  SchedulerInv'
  <2>1. TypeOK'
    <3>1. close \in Closer
      BY DEF SchedulerInv, TypeOK
    <3>2. close' \in Closer
      BY <1>1, <3>1 DEF CloseBegin, Closer
    <3> QED
      BY <1>1, <3>1, <3>2 DEF SchedulerInv, TypeOK, CloseBegin
  <2>2. HolderInv'
    BY <1>1, ConstantsAssumption DEF SchedulerInv, TypeOK, HolderInv,
       AdmissionInv, QueueInv, LaunchInv, CallInv, CloseInv, SaveInv,
       Recording, Up, Active, NoSave, Savers, CloseBegin, Closing, Closer
  <2>3. ConcurrencyBound'
    BY <1>1 DEF SchedulerInv, ConcurrencyBound, Launches, Active, CloseBegin
  <2> QED
    BY <2>1, <2>2, <2>3 DEF SchedulerInv
<1>2. ASSUME CloseSaved
      PROVE  SchedulerInv'
  <2>1. TypeOK'
    <3>1. close \in Closer
      BY DEF SchedulerInv, TypeOK
    <3>2. close' \in Closer
      BY <1>2, <3>1 DEF CloseSaved, Closer
    <3>3. save' \in [Savers -> Persist]
      BY <1>2 DEF SchedulerInv, TypeOK, CloseSaved, NoSave, Persist, SavePhase
    <3>4. close.job \in Job /\ state[close.job] \in JobState
      BY <1>2 DEF SchedulerInv, TypeOK, HolderInv, CloseInv, CloseSaved
    <3>5. announced' \in [Job -> JobState \cup {"none"}]
      BY <1>2, <3>4 DEF SchedulerInv, TypeOK, CloseSaved
    <3> QED
      BY <1>2, <3>1, <3>2, <3>3, <3>4, <3>5 DEF SchedulerInv, TypeOK,
         CloseSaved
  <2>2. HolderInv'
    BY <1>2, ConstantsAssumption DEF SchedulerInv, TypeOK, HolderInv,
       AdmissionInv, QueueInv, LaunchInv, CallInv, CloseInv, SaveInv,
       Recording, Up, Active, NoSave, Savers, CloseSaved, Saved, SaveFails,
       Closer, Persist
  <2>3. ConcurrencyBound'
    BY <1>2 DEF SchedulerInv, ConcurrencyBound, Launches, Active, CloseSaved
  <2> QED
    BY <2>1, <2>2, <2>3 DEF SchedulerInv
<1>3. ASSUME NEW j \in Job, CloseVisit(j)
      PROVE  SchedulerInv'
  <2>1. TypeOK'
    BY <1>3, ConstantsAssumption DEF SchedulerInv, TypeOK, CloseVisit,
       Terminates, Verifiable, Stopped, Saving, NoSave, Intent, Persist,
       SavePhase, Savers, JobState, Terminal, Outcome, Closer
  <2>2. HolderInv'
    BY <1>3, ConstantsAssumption DEF SchedulerInv, TypeOK, HolderInv,
       AdmissionInv, QueueInv, LaunchInv, CallInv, CloseInv, SaveInv,
       Recording, Up, Active, NoSave, Savers, CloseVisit, Waiting, Terminates,
       Verifiable, Stopped, Saving, Closer, Persist, JobState, Terminal,
       Outcome
  <2>3. ConcurrencyBound'
    BY <1>3 DEF SchedulerInv, ConcurrencyBound, Launches, Active, CloseVisit
  <2> QED
    BY <2>1, <2>2, <2>3 DEF SchedulerInv
<1>4. ASSUME CloseWaits
      PROVE  SchedulerInv'
  BY <1>4, CloseWaitsKeeps
<1>5. ASSUME CloseSaveFails
      PROVE  SchedulerInv'
  BY <1>5, CloseSaveFailsKeeps
<1> QED
  BY <1>1, <1>2, <1>3, <1>4, <1>5 DEF Shutting

\* The end of a generation: the memory of the manager is gone.
LEMMA StopKeeps ==
  ASSUME SchedulerInv, Stop
  PROVE SchedulerInv'
<1>1. /\ daemon' = "down" /\ state' = [j \in Job |-> "absent"]
      /\ intent' = [j \in Job |-> "none"] /\ cancelId' = [j \in Job |-> None]
      /\ queue' = <<>> /\ running' = 0 /\ launch' = [j \in Job |-> "none"]
      /\ timer' = [j \in Job |-> FALSE] /\ escalating' = [j \in Job |-> FALSE]
      /\ admission' = [step |-> "idle", job |-> None]
      /\ close' = [step |-> "open", todo |-> {}, job |-> None]
      /\ save' = [p \in Savers |-> NoSave]
      /\ announced' = [j \in Job |-> "none"]
      /\ UNCHANGED <<boots, proc, spawns, disk>>
  BY DEF Stop
<1>2. \A c \in Cancel : call[c] \in Caller
  BY DEF SchedulerInv, TypeOK
<1>3. /\ call' \in [Cancel -> Caller]
      /\ \A c \in Cancel : call'[c].step \notin {"withdraw", "detached", "record"}
  BY ZenonT(30), <1>2 DEF Stop, Caller
<1>4. TypeOK'
  BY <1>1, <1>3 DEF SchedulerInv, TypeOK, Intent, LaunchStep, Admission,
     Closer, NoSave, Persist, SavePhase
<1>5. Range(<<>>) = {} /\ IsInjective(<<>>)
  BY DEF Range, IsInjective
<1>6. HolderInv'
  BY <1>1, <1>3, <1>5 DEF HolderInv, AdmissionInv, QueueInv, LaunchInv,
     CallInv, CloseInv, SaveInv, Recording, Up, Active, NoSave, Savers
<1>7. ConcurrencyBound'
  <2>1. Launches' = {}
    BY <1>1 DEF Launches, Active
  <2> QED
    BY <1>1, <2>1, FS_EmptySet, ConstantsAssumption DEF ConcurrencyBound
<1> QED
  BY <1>4, <1>6, <1>7 DEF SchedulerInv

\* The steps of the host and of load() keep the invariant.
LEMMA BootKeeps ==
  ASSUME SchedulerInv, Booting
  PROVE  SchedulerInv'
<1>1. ASSUME Start
      PROVE  SchedulerInv'
  <2>1. TypeOK'
    BY <1>1, ConstantsAssumption DEF SchedulerInv, TypeOK, Start
  <2>2. HolderInv'
    BY <1>1, ConstantsAssumption DEF SchedulerInv, TypeOK, HolderInv,
       AdmissionInv, QueueInv, LaunchInv, CallInv, CloseInv, SaveInv,
       Recording, Up, Active, NoSave, Savers, Start
  <2>3. ConcurrencyBound'
    BY <1>1 DEF SchedulerInv, ConcurrencyBound, Launches, Active, Start
  <2> QED
    BY <2>1, <2>2, <2>3 DEF SchedulerInv
<1>2. ASSUME NEW j \in Job, LoadJob(j)
      PROVE  SchedulerInv'
  <2>1. TypeOK'
    BY <1>2, ConstantsAssumption DEF SchedulerInv, TypeOK, LoadJob, Record,
       JobState, Terminal, Outcome
  <2>2. HolderInv'
    BY <1>2, ConstantsAssumption DEF SchedulerInv, TypeOK, HolderInv,
       AdmissionInv, QueueInv, LaunchInv, CallInv, CloseInv, SaveInv,
       Recording, Up, Active, NoSave, Savers, LoadJob, JobState, Terminal,
       Outcome
  <2>3. ConcurrencyBound'
    BY <1>2 DEF SchedulerInv, ConcurrencyBound, Launches, Active, LoadJob
  <2> QED
    BY <2>1, <2>2, <2>3 DEF SchedulerInv
<1>3. ASSUME Loaded
      PROVE  SchedulerInv'
  <2>1. TypeOK'
    BY <1>3, ConstantsAssumption DEF SchedulerInv, TypeOK, Loaded
  <2>2. HolderInv'
    BY <1>3, ConstantsAssumption DEF SchedulerInv, TypeOK, HolderInv,
       AdmissionInv, QueueInv, LaunchInv, CallInv, CloseInv, SaveInv,
       Recording, Up, Active, NoSave, Savers, Loaded
  <2>3. ConcurrencyBound'
    BY <1>3 DEF SchedulerInv, ConcurrencyBound, Launches, Active, Loaded
  <2> QED
    BY <2>1, <2>2, <2>3 DEF SchedulerInv
<1>4. ASSUME Stop
      PROVE  SchedulerInv'
  BY <1>4, StopKeeps
<1> QED
  BY <1>1, <1>2, <1>3, <1>4 DEF Booting, Crash, Exit

\* Every step keeps the invariant.
LEMMA SchedulerKept ==
  ASSUME SchedulerInv, [Next]_vars
  PROVE  SchedulerInv'
<1>1. CASE Next
  BY <1>1, PersistKeeps, SubmitKeeps, LaunchKeeps, TerminateKeeps, CallKeeps,
     ShutKeeps, BootKeeps
     DEF Next
<1>2. CASE UNCHANGED vars
  BY <1>2
     DEF vars, SchedulerInv, TypeOK, HolderInv, AdmissionInv, QueueInv, LaunchInv,
     CallInv, CloseInv, SaveInv, ConcurrencyBound, Launches, Active, Recording, Up
<1> QED
  BY <1>1, <1>2

-----------------------------------------------------------------------------
(* SchedulerInv is an invariant: the handlers of the JobManager never lose *)
(* track of a job across an await in a way that breaks the schedule.       *)
THEOREM SchedulerCorrect == Spec => []SchedulerInv
<1>1. SchedulerInv /\ [Next]_vars => SchedulerInv'
  BY SchedulerKept
<1> QED
  BY InitHolds, <1>1, PTL DEF Spec

(* Every variable of the manager keeps its type.                           *)
THEOREM TypeCorrect == Spec => []TypeOK
<1>1. SchedulerInv => TypeOK
  BY DEF SchedulerInv
<1> QED
  BY SchedulerCorrect, <1>1, PTL

(* policy.maxConcurrent bounds the launches in progress, for every policy  *)
(* and any number of jobs, whatever persists fail and whenever the daemon  *)
(* crashes; the counter of drain() never drifts from the launches.         *)
THEOREM ConcurrencyBounded == Spec => []ConcurrencyBound
<1>1. SchedulerInv => ConcurrencyBound
  BY DEF SchedulerInv
<1> QED
  BY SchedulerCorrect, <1>1, PTL
=============================================================================
