-------------------------- MODULE RtosKernel_proofs --------------------------
(***************************************************************************)
(* Theorems about the queues and mutexes of the kernel, for any tasks of   *)
(* any priorities, any mutexes and any length of the queue.                *)
(***************************************************************************)
EXTENDS RtosKernel, FiniteSetTheorems, SequenceTheorems, TLAPS

-----------------------------------------------------------------------------
(* The event lists: inserting, taking the head, removing *)

\* How far the walk of vListInsert comes: the places up to the first entry of a
\* lower priority are an interval, whose end is the place it finds.
LEMMA FirstLowerFound ==
  ASSUME NEW list \in Seq(Task), NEW t \in Task, prio \in [Task -> Nat]
  PROVE  LET k == FirstLower(list, t) IN
           /\ k \in 1..Len(list) + 1
           /\ k <= Len(list) => prio[list[k]] < prio[t]
           /\ \A j \in 1..k - 1 : prio[list[j]] >= prio[t]
<1>1. /\ Len(list) \in Nat
      /\ \A j \in 1..Len(list) : list[j] \in Task /\ prio[list[j]] \in Nat
      /\ prio[t] \in Nat
  OBVIOUS
<1>2. PICK Reached : Reached = {k \in 1..Len(list) + 1 : \A j \in 1..k - 1 : prio[list[j]] >= prio[t]}
  OBVIOUS
<1>3. PICK c : c = Cardinality(Reached)
  OBVIOUS
<1>4. IsFiniteSet(Reached) /\ c \in Nat
  <2>1. Reached \in SUBSET (1..Len(list) + 1) /\ IsFiniteSet(1..Len(list) + 1)
    BY <1>1, <1>2, FS_Interval
  <2> QED
    BY <2>1, <1>3, FS_Subset, FS_CardinalityType
<1>5. ASSUME NEW k \in Reached PROVE k \in Nat \ {0} /\ k <= c
  <2>1. 1..k \in SUBSET Reached /\ k \in Nat \ {0}
    BY <1>1, <1>2
  <2>2. Cardinality(1..k) = k
    BY <2>1, FS_Interval
  <2>3. Cardinality(1..k) <= c
    BY <2>1, <1>3, <1>4, FS_Subset
  <2> QED
    BY <2>1, <2>2, <2>3
<1>6. 1 \in Reached
  BY <1>1, <1>2
<1>7. c \in Nat \ {0}
  BY <1>4, <1>5, <1>6
<1>8. c \in Reached
  <2> SUFFICES ASSUME c \notin Reached PROVE FALSE
    OBVIOUS
  <2>1. Reached \in SUBSET (1..c - 1)
    BY <1>5, <1>7
  <2>2. PICK d \in Nat : d = c - 1
    BY <1>7
  <2>3. IsFiniteSet(1..d) /\ Cardinality(1..d) = d
    <3>1. /\ IsFiniteSet(1..d)
          /\ Cardinality(1..d) = IF 1 > d THEN 0 ELSE d - 1 + 1
      BY 1 \in Int, d \in Int, FS_Interval
    <3> QED
      BY <3>1
  <2>4. Cardinality(Reached) <= Cardinality(1..d)
    BY <2>1, <2>2, <2>3, FS_Subset
  <2> QED
    BY <1>3, <1>7, <2>2, <2>3, <2>4
<1>9. c \in 1..Len(list) + 1 /\ \A j \in 1..c - 1 : prio[list[j]] >= prio[t]
  BY <1>2, <1>8
<1>10. c <= Len(list) => prio[list[c]] < prio[t]
  <2> SUFFICES ASSUME c <= Len(list), ~(prio[list[c]] < prio[t]) PROVE FALSE
    OBVIOUS
  <2>1. c \in 1..Len(list) /\ prio[list[c]] >= prio[t]
    BY <1>1, <1>7
  <2>2. \A j \in 1..(c + 1) - 1 : prio[list[j]] >= prio[t]
    BY <2>1, <1>7, <1>9
  <2>3. c + 1 \in Reached
    BY <2>1, <2>2, <1>1, <1>2
  <2> QED
    BY <2>3, <1>5, <1>7
<1>11. \E k \in 1..Len(list) + 1 : /\ k <= Len(list) => prio[list[k]] < prio[t]
                                   /\ \A j \in 1..k - 1 : prio[list[j]] >= prio[t]
  BY <1>9, <1>10
<1> QED
  BY <1>11 DEF FirstLower

\* What the insertion of t at a place does to a list.
LEMMA InsertFacts ==
  ASSUME NEW list \in Seq(Task), NEW t \in Task, NEW k \in 1..Len(list) + 1
  PROVE  LET new == InsertAt(list, k, t) IN
           /\ new \in Seq(Task) /\ Len(new) = Len(list) + 1
           /\ \A j \in 1..k - 1 : new[j] = list[j]
           /\ new[k] = t
           /\ \A j \in k + 1..Len(list) + 1 : new[j] = list[j - 1]
<1> DEFINE front == SubSeq(list, 1, k - 1)
           back  == SubSeq(list, k, Len(list))
<1>1. Len(list) \in Nat /\ \A j \in 1..Len(list) : list[j] \in Task
  OBVIOUS
<1>2. front \in Seq(Task) /\ Len(front) = k - 1 /\ \A j \in 1..k - 1 : front[j] = list[j]
  <2>1. \A j \in 1..k - 1 : list[j] \in Task
    BY <1>1
  <2> QED
    BY <1>1, <2>1, SubSeqProperties
<1>3. back \in Seq(Task) /\ Len(back) = Len(list) - k + 1
      /\ \A j \in 1..Len(list) - k + 1 : back[j] = list[k + j - 1]
  <2>1. \A j \in k..Len(list) : list[j] \in Task
    BY <1>1
  <2> QED
    BY <1>1, <2>1, SubSeqProperties
<1>4. <<t>> \in Seq(Task) /\ Len(<<t>>) = 1 /\ <<t>>[1] = t
  OBVIOUS
<1> HIDE DEF front, back
<1>5. PICK upto : upto = front \o <<t>>
  OBVIOUS
<1>6. /\ upto \in Seq(Task) /\ Len(upto) = k
      /\ \A i \in 1..k : upto[i] = IF i <= k - 1 THEN front[i] ELSE <<t>>[i - (k - 1)]
  <2>1. /\ upto \in Seq(Task) /\ Len(upto) = Len(front) + Len(<<t>>)
        /\ \A i \in 1..Len(front) + Len(<<t>>) :
             upto[i] = IF i <= Len(front) THEN front[i] ELSE <<t>>[i - Len(front)]
    BY <1>2, <1>4, <1>5, ConcatProperties
  <2>2. Len(front) = k - 1 /\ Len(front) + Len(<<t>>) = k
    BY <1>1, <1>2, <1>4
  <2> QED
    BY <2>1, <2>2
<1>7. /\ upto \o back \in Seq(Task) /\ Len(upto \o back) = Len(list) + 1
      /\ \A i \in 1..Len(list) + 1 : (upto \o back)[i] = IF i <= k THEN upto[i] ELSE back[i - k]
  <2>1. /\ upto \o back \in Seq(Task) /\ Len(upto \o back) = Len(upto) + Len(back)
        /\ \A i \in 1..Len(upto) + Len(back) :
             (upto \o back)[i] = IF i <= Len(upto) THEN upto[i] ELSE back[i - Len(upto)]
    BY <1>3, <1>6, ConcatProperties
  <2>2. Len(upto) = k /\ Len(upto) + Len(back) = Len(list) + 1
    BY <1>1, <1>3, <1>6
  <2> QED
    BY <2>1, <2>2
<1>8. InsertAt(list, k, t) = upto \o back
  BY <1>5 DEF InsertAt, front, back
<1>9. PICK new : new = upto \o back
  OBVIOUS
<1>10. \A j \in 1..k - 1 : new[j] = list[j]
  BY <1>1, <1>2, <1>6, <1>7, <1>9
<1>11. new[k] = t
  BY <1>1, <1>4, <1>6, <1>7, <1>9
<1>12. \A j \in k + 1..Len(list) + 1 : new[j] = list[j - 1]
  <2> TAKE j \in k + 1..Len(list) + 1
  <2>1. new[j] = back[j - k] /\ j - k \in 1..Len(list) - k + 1 /\ k + (j - k) - 1 = j - 1
    BY <1>1, <1>7, <1>9, SMTT(40)
  <2> QED
    BY <2>1, <1>3
<1> QED
  BY <1>7, <1>8, <1>9, <1>10, <1>11, <1>12


\* A list that is sorted as far as inheritance, which raises priorities of tasks
\* that are already in it, allows.
InOrder(list, p) == \A i, j \in DOMAIN list : i < j => p[list[i]] >= Priority[list[j]]

LEMMA InsertionFacts ==
  ASSUME NEW list \in Seq(Task), NEW t \in Task \ Range(list), IsInjective(list),
         prio \in [Task -> Nat]
  PROVE  LET new == InsertByPriority(list, t) IN
           /\ new \in Seq(Task) /\ new # <<>>
           /\ Range(new) = Range(list) \cup {t}
           /\ IsInjective(new)
           /\ InOrder(list, prio) /\ (\A u \in Task : prio[u] >= Priority[u]) => InOrder(new, prio)
           /\ new[1] = IF list # <<>> /\ prio[list[1]] >= prio[t] THEN list[1] ELSE t
<1>1. /\ Len(list) \in Nat /\ DOMAIN list = 1..Len(list)
      /\ \A j \in 1..Len(list) : list[j] \in Task
      /\ \A j \in 1..Len(list) : list[j] # t
      /\ prio[t] \in Nat
      /\ \A u \in Task : prio[u] \in Nat /\ Priority[u] \in Nat
  BY KernelAssumption DEF Range
<1>2. PICK k \in 1..Len(list) + 1 : /\ k = FirstLower(list, t)
                                    /\ k <= Len(list) => prio[list[k]] < prio[t]
                                    /\ \A j \in 1..k - 1 : prio[list[j]] >= prio[t]
  BY FirstLowerFound
<1>3. PICK new : new = InsertByPriority(list, t)
  OBVIOUS
<1>4. /\ new \in Seq(Task) /\ Len(new) = Len(list) + 1
      /\ \A j \in 1..k - 1 : new[j] = list[j]
      /\ new[k] = t
      /\ \A j \in k + 1..Len(list) + 1 : new[j] = list[j - 1]
  <2>1. new = InsertAt(list, k, t)
    BY <1>2, <1>3 DEF InsertByPriority
  <2> QED
    <3>1. /\ InsertAt(list, k, t) \in Seq(Task) /\ Len(InsertAt(list, k, t)) = Len(list) + 1
          /\ \A j \in 1..k - 1 : InsertAt(list, k, t)[j] = list[j]
          /\ InsertAt(list, k, t)[k] = t
          /\ \A j \in k + 1..Len(list) + 1 : InsertAt(list, k, t)[j] = list[j - 1]
      BY InsertFacts
    <3> QED
      BY <2>1, <3>1
<1>5. DOMAIN new = 1..Len(list) + 1 /\ new # <<>>
  BY <1>1, <1>4
<1>6. \A j \in 1..Len(list) + 1 :
        \/ j < k /\ j \in 1..Len(list) /\ new[j] = list[j]
        \/ j = k /\ new[j] = t
        \/ j > k /\ j - 1 \in 1..Len(list) /\ new[j] = list[j - 1]
  BY <1>1, <1>4
<1>7. \A j \in 1..Len(list) :
        \/ j < k /\ new[j] = list[j]
        \/ j >= k /\ j + 1 \in 1..Len(list) + 1 /\ new[j + 1] = list[j]
  <2> TAKE j \in 1..Len(list)
  <2>1. CASE j < k
    <3>1. j \in 1..k - 1
      BY <1>1, <2>1
    <3> QED
      BY <1>4, <2>1, <3>1
  <2>2. CASE j >= k
    <3>1. j + 1 \in k + 1..Len(list) + 1 /\ (j + 1) - 1 = j
      BY <1>1, <2>2
    <3>2. new[j + 1] = list[(j + 1) - 1]
      BY <1>4, <3>1
    <3> QED
      BY <1>1, <2>2, <3>1, <3>2
  <2> QED
    BY <1>1, <2>1, <2>2
<1>8. Range(new) = Range(list) \cup {t}
  <2>1. Range(new) \subseteq Range(list) \cup {t}
    BY <1>1, <1>5, <1>6 DEF Range
  <2>2. ASSUME NEW j \in 1..Len(list) PROVE list[j] \in Range(new)
    <3>1. j \in 1..Len(list) + 1
      BY <1>1
    <3> QED
      BY <1>5, <1>7, <3>1 DEF Range
  <2>3. Range(list) \subseteq Range(new)
    BY <1>1, <2>2 DEF Range
  <2>4. t \in Range(new)
    BY <1>2, <1>4, <1>5 DEF Range
  <2> QED
    BY <2>1, <2>3, <2>4
<1>9. IsInjective(new)
  <2> SUFFICES ASSUME NEW i \in 1..Len(list) + 1, NEW j \in 1..Len(list) + 1, new[i] = new[j]
               PROVE  i = j
    BY <1>5 DEF IsInjective
  <2>1. \A m, n \in 1..Len(list) : list[m] = list[n] => m = n
    BY <1>1 DEF IsInjective
  <2> QED
    BY <1>1, <1>6, <2>1
<1>10. ASSUME InOrder(list, prio), \A u \in Task : prio[u] >= Priority[u] PROVE InOrder(new, prio)
  <2> SUFFICES ASSUME NEW i \in 1..Len(list) + 1, NEW j \in 1..Len(list) + 1, i < j
               PROVE  prio[new[i]] >= Priority[new[j]]
    BY <1>5 DEF InOrder
  <2>1. \A m, n \in 1..Len(list) : m < n => prio[list[m]] >= Priority[list[n]]
    BY <1>1, <1>10 DEF InOrder
  <2>2. CASE j = k
    <3>1. i \in 1..k - 1 /\ new[i] = list[i] /\ i \in 1..Len(list) /\ new[j] = t
      BY <1>1, <1>4, <2>2
    <3>2. prio[list[i]] >= prio[t] /\ prio[t] >= Priority[t]
      BY <1>2, <1>10, <3>1
    <3> QED
      BY <1>1, <3>1, <3>2
  <2>3. CASE i = k
    <3>1. j - 1 \in 1..Len(list) /\ k <= j - 1 /\ k \in 1..Len(list) /\ new[j] = list[j - 1] /\ new[i] = t
      BY <1>1, <1>4, <1>6, <2>3
    <3>2. prio[list[k]] < prio[t]
      BY <1>1, <1>2, <3>1
    <3>3. prio[list[k]] >= Priority[list[j - 1]]
      <4>1. CASE k = j - 1
        BY <1>1, <1>10, <3>1, <4>1
      <4>2. CASE k < j - 1
        BY <2>1, <3>1, <4>2
      <4> QED
        BY <1>1, <3>1, <4>1, <4>2
    <3> QED
      BY <1>1, <3>1, <3>2, <3>3
  <2>4. CASE i # k /\ j # k
    <3>1. PICK m \in 1..Len(list), n \in 1..Len(list) : m < n /\ new[i] = list[m] /\ new[j] = list[n]
      <4>1. PICK m \in 1..Len(list) : ((m = i /\ i < k) \/ (m = i - 1 /\ i > k)) /\ new[i] = list[m]
        BY <1>1, <1>6, <2>4
      <4>2. PICK n \in 1..Len(list) : ((n = j /\ j < k) \/ (n = j - 1 /\ j > k)) /\ new[j] = list[n]
        BY <1>1, <1>6, <2>4
      <4>3. m < n
        BY <1>1, <4>1, <4>2
      <4> QED
        BY <4>1, <4>2, <4>3
    <3> QED
      BY <2>1, <3>1
  <2> QED
    BY <2>2, <2>3, <2>4
<1>11. new[1] = IF list # <<>> /\ prio[list[1]] >= prio[t] THEN list[1] ELSE t
  <2>1. CASE list = <<>>
    BY <1>1, <1>2, <1>4, <2>1
  <2>2. CASE list # <<>> /\ prio[list[1]] >= prio[t]
    <3>1. k # 1 /\ 1 \in 1..Len(list)
      BY <1>1, <1>2, <2>2
    <3>2. 1 \in 1..k - 1
      BY <1>2, <3>1
    <3> QED
      BY <1>4, <2>2, <3>2
  <2>3. CASE list # <<>> /\ ~(prio[list[1]] >= prio[t])
    <3>1. k = 1
      BY <1>1, <1>2, <2>3
    <3> QED
      BY <1>4, <2>3, <3>1
  <2> QED
    BY <2>1, <2>2, <2>3
<1> QED
  BY <1>3, <1>4, <1>5, <1>8, <1>9, <1>10, <1>11


\* The numbering of the entries that stay: every number up to how many they are
\* belongs to exactly one of them.
LEMMA RanksFacts ==
  ASSUME NEW n \in Nat, NEW S \in SUBSET (1..n)
  PROVE  /\ IsFiniteSet(S) /\ Cardinality(S) \in Nat
         /\ \A m \in 1..Cardinality(S) : \E i \in S : Cardinality({k \in S : k <= i}) = m
         /\ \A i \in S : Cardinality({k \in S : k <= i}) \in 1..Cardinality(S)
         /\ \A i, j \in S : Cardinality({k \in S : k <= i}) = Cardinality({k \in S : k <= j}) => i = j
<1> DEFINE Upto(i) == {k \in S : k <= i}
<1>1. IsFiniteSet(S) /\ Cardinality(S) \in Nat
  BY 1 \in Int, n \in Int, FS_Interval, FS_Subset, FS_CardinalityType
<1>2. ASSUME NEW i \in S
      PROVE  IsFiniteSet(Upto(i)) /\ Cardinality(Upto(i)) \in 1..Cardinality(S)
  <2>1. Upto(i) \in SUBSET S /\ i \in Upto(i)
    OBVIOUS
  <2> HIDE DEF Upto
  <2>2. IsFiniteSet(Upto(i)) /\ Cardinality(Upto(i)) <= Cardinality(S) /\ Cardinality(Upto(i)) \in Nat
    BY <1>1, <2>1, FS_Subset, FS_CardinalityType
  <2>3. Cardinality(Upto(i)) # 0
    BY <2>1, <2>2, FS_EmptySet
  <2> QED
    BY <1>1, <2>2, <2>3
<1>3. ASSUME NEW i \in S, NEW j \in S, i < j
      PROVE  Cardinality(Upto(i)) < Cardinality(Upto(j))
  <2>1. Upto(i) \in SUBSET Upto(j) /\ j \in Upto(j) /\ j \notin Upto(i)
    <3>1. \A k \in S : k \in Nat
      OBVIOUS
    <3>2. \A k \in S : k <= i => k <= j
      BY <1>3, <3>1
    <3>3. j <= j /\ ~(j <= i)
      BY <1>3, <3>1
    <3> QED
      BY <3>2, <3>3
  <2> HIDE DEF Upto
  <2>2. /\ Cardinality(Upto(i)) <= Cardinality(Upto(j))
        /\ Cardinality(Upto(j)) = Cardinality(Upto(i)) => Upto(j) = Upto(i)
    BY <1>2, <2>1, FS_Subset
  <2> QED
    BY <1>2, <2>1, <2>2
<1>4. \A i, j \in S : Cardinality(Upto(i)) = Cardinality(Upto(j)) => i = j
  <2> SUFFICES ASSUME NEW i \in S, NEW j \in S, Cardinality(Upto(i)) = Cardinality(Upto(j)), i # j
               PROVE  FALSE
    OBVIOUS
  <2>1. i < j \/ j < i
    OBVIOUS
  <2> HIDE DEF Upto
  <2> QED
    BY <1>2, <1>3, <2>1
<1>5. PICK number : number = [i \in S |-> Cardinality(Upto(i))]
  OBVIOUS
<1>6. PICK m : m = Cardinality(S)
  OBVIOUS
<1>7. number \in Surjection(S, 1..m)
  <2> HIDE DEF Upto
  <2>1. number \in [S -> 1..m] /\ IsInjective(number)
    BY <1>2, <1>4, <1>5, <1>6 DEF IsInjective
  <2>2. number \in Injection(S, 1..m)
    BY <2>1 DEF Injection
  <2>3. IsFiniteSet(1..m) /\ Cardinality(1..m) = m
    <3>1. /\ IsFiniteSet(1..m)
          /\ Cardinality(1..m) = IF 1 > m THEN 0 ELSE m - 1 + 1
      BY <1>1, <1>6, 1 \in Int, m \in Int, FS_Interval
    <3> QED
      BY <1>1, <1>6, <3>1
  <2> QED
    BY <1>6, <2>2, <2>3, FS_Injection
<1>8. ASSUME NEW x \in 1..m PROVE \E i \in S : Cardinality(Upto(i)) = x
  <2> HIDE DEF Upto
  <2>1. PICK i \in S : number[i] = x
    BY <1>7 DEF Surjection
  <2> QED
    BY <1>5, <2>1
<1> QED
  BY <1>1, <1>2, <1>4, <1>6, <1>8

\* Removing tasks from a list leaves the others, in their order, and the list as
\* it is if there is nothing to remove.
LEMMA KeptFacts ==
  ASSUME NEW list \in Seq(Task), IsInjective(list), NEW due
  PROVE  LET new == Kept(list, due) IN
           /\ new \in Seq(Task)
           /\ Range(new) = Range(list) \ due
           /\ IsInjective(new)
           /\ Range(list) \cap due = {} => new = list
<1>1. Len(list) \in Nat /\ DOMAIN list = 1..Len(list) /\ \A i \in 1..Len(list) : list[i] \in Task
  OBVIOUS
<1>2. PICK kept : kept = {i \in DOMAIN list : list[i] \notin due}
  OBVIOUS
<1> DEFINE Number(i) == Cardinality({k \in kept : k <= i})
<1>3. kept \in SUBSET (1..Len(list))
  BY <1>1, <1>2
<1>4. PICK n : n = Cardinality(kept)
  OBVIOUS
<1>5. /\ n \in Nat
      /\ \A m \in 1..n : \E i \in kept : Number(i) = m
      /\ \A i \in kept : Number(i) \in 1..n
      /\ \A i, j \in kept : Number(i) = Number(j) => i = j
  BY <1>1, <1>3, <1>4, RanksFacts, ZenonT(40)
<1>6. PICK new : new = Kept(list, due)
  OBVIOUS
<1>7. new = [m \in 1..n |-> list[CHOOSE i \in kept : Number(i) = m]]
  BY <1>2, <1>4, <1>6 DEF Kept
<1> HIDE DEF Number
<1>8. \A m \in 1..n : (CHOOSE i \in kept : Number(i) = m) \in kept
                      /\ Number(CHOOSE i \in kept : Number(i) = m) = m
  BY <1>5
<1>9. \A m \in 1..n : \E i \in kept : Number(i) = m /\ new[m] = list[i]
  BY <1>7, <1>8
<1>10. new \in [1..n -> Task] /\ Len(new) = n /\ new \in Seq(Task) /\ DOMAIN new = 1..n
  <2>1. new \in [1..n -> Task]
    BY <1>1, <1>3, <1>7, <1>8
  <2> QED
    BY <1>5, <2>1
<1>11. Range(new) = Range(list) \ due
  <2>1. Range(new) \subseteq Range(list) \ due
    BY <1>2, <1>9, <1>10 DEF Range
  <2>2. ASSUME NEW u \in Range(list) \ due PROVE u \in Range(new)
    <3>1. PICK i \in kept : list[i] = u
      BY <1>2 DEF Range
    <3>2. PICK j \in kept : Number(j) = Number(i) /\ new[Number(i)] = list[j]
      BY <1>5, <1>9
    <3>3. new[Number(i)] = u
      BY <1>5, <3>1, <3>2
    <3> QED
      BY <1>5, <1>10, <3>3 DEF Range
  <2> QED
    BY <2>1, <2>2
<1>12. IsInjective(new)
  <2> SUFFICES ASSUME NEW x \in 1..n, NEW y \in 1..n, new[x] = new[y] PROVE x = y
    BY <1>10 DEF IsInjective
  <2>1. PICK i \in kept : Number(i) = x /\ new[x] = list[i]
    BY <1>9
  <2>2. PICK j \in kept : Number(j) = y /\ new[y] = list[j]
    BY <1>9
  <2>3. i = j
    BY <1>2, <2>1, <2>2 DEF IsInjective
  <2> QED
    BY <2>1, <2>2, <2>3
<1>13. ASSUME Range(list) \cap due = {} PROVE new = list
  <2>1. kept = 1..Len(list)
    BY <1>1, <1>2, <1>13 DEF Range
  <2>2. ASSUME NEW i \in Nat PROVE Cardinality(1..i) = i
    <3>1. Cardinality(1..i) = IF 1 > i THEN 0 ELSE i - 1 + 1
      BY 1 \in Int, i \in Int, FS_Interval
    <3> QED
      BY <3>1
  <2>3. n = Len(list)
    BY <1>1, <1>4, <2>1, <2>2
  <2>4. ASSUME NEW i \in kept PROVE Number(i) = i
    <3>1. {k \in kept : k <= i} = 1..i /\ i \in Nat
      BY <1>1, <2>1
    <3> QED
      BY <2>2, <3>1 DEF Number
  <2>5. \A m \in 1..n : new[m] = list[m]
    BY <1>9, <2>4
  <2> QED
    BY <1>1, <1>10, <2>3, <2>5
<1> QED
  BY <1>6, <1>10, <1>11, <1>12, <1>13


-----------------------------------------------------------------------------
(* Types, and who is on which list *)

Sleeping(w) == {t \in Task : call[t].for = w /\ call[t].at = "blocked"}

Variables ==
  /\ queue \in Seq(Task) /\ Len(queue) <= QueueLength
  /\ holder \in [Mutex -> Task \cup {NONE}]
  /\ waiting \in [Object -> Seq(Task)]
  /\ prio \in [Task -> Nat]
  /\ call \in [Task -> Calls]
  /\ running \in Task \cup {IDLE}

\* An event list holds the tasks that sleep for its object, each once, and a call
\* that is not asleep waits for an object.
ListInv ==
  \A w \in Object : Range(waiting[w]) = Sleeping(w) /\ IsInjective(waiting[w])
AwakeInv == \A t \in Task : call[t].at \in {"retry", "last", "check"} => call[t].for \in Object

TypeInv == Variables /\ ListInv /\ AwakeInv

LEMMA TypeInvIsType == TypeInv => TypeOK
  BY DEF TypeInv, Variables, ListInv, TypeOK, Range, Sleeping

LEMMA Names ==
  /\ "delay" \notin Object /\ NONE \notin Object
  /\ "send" \notin Mutex /\ "receive" \notin Mutex
  BY KernelAssumption DEF Object

LEMMA CallFields ==
  ASSUME NEW c \in Calls
  PROVE  \/ c = NoCall /\ c.for = NONE /\ c.left = 0 /\ c.at = "none"
         \/ /\ c # NoCall /\ c = [for |-> c.for, left |-> c.left, at |-> c.at]
            /\ c.for \in Object \cup {"delay"}
            /\ c.left \in 0..MaxTicks \cup {FOREVER}
            /\ c.at \in {"retry", "last", "check", "blocked"}
  BY DEF Calls, NoCall

LEMMA NoCallFields == NoCall \in Calls /\ NoCall.for = NONE /\ NoCall.left = 0 /\ NoCall.at = "none"
  BY DEF Calls, NoCall

\* A call goes on to another place.
LEMMA CallMoves ==
  ASSUME NEW c \in Calls, c.at # "none", NEW a \in {"retry", "last", "check", "blocked"}
  PROVE  /\ [c EXCEPT !.at = a] \in Calls
         /\ [c EXCEPT !.at = a].for = c.for
         /\ [c EXCEPT !.at = a].left = c.left
         /\ [c EXCEPT !.at = a].at = a
  BY CallFields DEF Calls, NoCall

LEMMA NewCall ==
  ASSUME NEW w \in Object \cup {"delay"}, NEW n \in 0..MaxTicks \cup {FOREVER},
         NEW a \in {"retry", "last", "check", "blocked"}
  PROVE  LET d == [for |-> w, left |-> n, at |-> a] IN
           d \in Calls /\ d.for = w /\ d.left = n /\ d.at = a /\ d # NoCall
  BY DEF Calls, NoCall

LEMMA InitType == Init => TypeInv
<1> SUFFICES ASSUME Init PROVE TypeInv
  OBVIOUS
<1>1. Variables
  BY KernelAssumption, NoCallFields DEF Init, Variables
<1>2. ListInv
  BY NoCallFields DEF Init, ListInv, Range, IsInjective, Sleeping
<1>3. AwakeInv
  BY NoCallFields DEF Init, AwakeInv
<1> QED
  BY <1>1, <1>2, <1>3 DEF TypeInv

LEMMA SelectedType == \A c, p : Selected(c, p) \subseteq Task \cup {IDLE}
  BY DEF Selected

-----------------------------------------------------------------------------
(* What the steps do to calls and lists *)

\* The call of t ends and the first task on the list of w wakes up, if any.
Wakes(w, t) ==
  IF waiting[w] = <<>>
  THEN call' = [call EXCEPT ![t] = NoCall] /\ UNCHANGED waiting
  ELSE /\ call' = [[call EXCEPT ![t] = NoCall] EXCEPT ![Head(waiting[w])].at = "retry"]
       /\ waiting' = [waiting EXCEPT ![w] = Tail(@)]

LEMMA WakesFacts ==
  ASSUME TypeInv, NEW w \in Object, NEW t \in Task, call[t].at # "blocked", Wakes(w, t)
  PROVE  /\ call' \in [Task -> Calls] /\ waiting' \in [Object -> Seq(Task)]
         /\ ListInv' /\ AwakeInv'
         /\ call'[t] = NoCall
         /\ waiting[w] = <<>> =>
              waiting' = waiting /\ \A u \in Task \ {t} : call'[u] = call[u]
         /\ waiting[w] # <<>> =>
              /\ waiting[w][1] \in Sleeping(w) \ {t}
              /\ call'[waiting[w][1]] = [call[waiting[w][1]] EXCEPT !.at = "retry"]
              /\ \A u \in Task \ {t, waiting[w][1]} : call'[u] = call[u]
              /\ waiting'[w] = Tail(waiting[w])
              /\ \A v \in Object \ {w} : waiting'[v] = waiting[v]
<1>1. /\ call \in [Task -> Calls] /\ waiting \in [Object -> Seq(Task)]
      /\ \A v \in Object : Range(waiting[v]) = Sleeping(v) /\ IsInjective(waiting[v])
  BY DEF TypeInv, Variables, ListInv
<1>2. CASE waiting[w] = <<>>
  <2>1. call' = [call EXCEPT ![t] = NoCall] /\ waiting' = waiting
    BY <1>2 DEF Wakes
  <2>2. call' \in [Task -> Calls] /\ call'[t] = NoCall /\ \A u \in Task \ {t} : call'[u] = call[u]
    BY <1>1, <2>1, NoCallFields
  <2>3. \A v \in Object : Sleeping(v)' = Sleeping(v)
    BY <2>2, NoCallFields DEF Sleeping
  <2>4. ListInv'
    BY <1>1, <2>1, <2>3 DEF ListInv
  <2>5. AwakeInv'
    BY <2>2, NoCallFields DEF AwakeInv, TypeInv
  <2> QED
    BY <1>1, <1>2, <2>1, <2>2, <2>4, <2>5
<1>3. CASE waiting[w] # <<>>
  <2>1. PICK u : u = waiting[w][1]
    OBVIOUS
  <2>2. /\ Len(waiting[w]) \in Nat \ {0} /\ Head(waiting[w]) = u /\ u \in Range(waiting[w])
        /\ DOMAIN waiting[w] = 1..Len(waiting[w])
    BY <1>1, <1>3, <2>1 DEF Range
  <2>3. u \in Sleeping(w) /\ u \in Task /\ u # t /\ call[u].at = "blocked" /\ call[u].for = w
    BY <1>1, <2>2 DEF Sleeping
  <2>4. /\ call' = [[call EXCEPT ![t] = NoCall] EXCEPT ![u].at = "retry"]
        /\ waiting' = [waiting EXCEPT ![w] = Tail(@)]
    BY <1>3, <2>2 DEF Wakes
  <2>5. /\ call'[t] = NoCall /\ call'[u] = [call[u] EXCEPT !.at = "retry"]
        /\ \A v \in Task \ {t, u} : call'[v] = call[v]
    BY <1>1, <2>3, <2>4
  <2>6. /\ call'[u] \in Calls /\ call'[u].for = w /\ call'[u].at = "retry"
    <3>1. PICK c \in Calls : c = call[u] /\ c.at # "none" /\ c.for = w
      BY <1>1, <2>3
    <3>2. [c EXCEPT !.at = "retry"] \in Calls /\ [c EXCEPT !.at = "retry"].for = w
          /\ [c EXCEPT !.at = "retry"].at = "retry"
      BY <3>1, CallMoves
    <3> QED
      BY <2>5, <3>1, <3>2
  <2>7. call' \in [Task -> Calls]
    <3>1. \A v \in Task : call'[v] \in Calls
      BY <1>1, <2>5, <2>6, NoCallFields
    <3>2. DOMAIN call' = Task
      BY <1>1, <2>4
    <3>3. call' = [v \in Task |-> call'[v]]
      BY <1>1, <2>4, <3>2
    <3> QED
      BY <3>1, <3>3
  <2>8. /\ Tail(waiting[w]) \in Seq(Task) /\ DOMAIN Tail(waiting[w]) = 1..Len(waiting[w]) - 1
        /\ \A i \in 1..Len(waiting[w]) - 1 : Tail(waiting[w])[i] = waiting[w][i + 1]
    BY <1>1, <1>3, <2>2, HeadTailProperties
  <2>9. waiting' \in [Object -> Seq(Task)] /\ waiting'[w] = Tail(waiting[w])
        /\ \A v \in Object \ {w} : waiting'[v] = waiting[v]
    BY <1>1, <2>4, <2>8
  <2>10. \A v \in Object \ {w} : Sleeping(v)' = Sleeping(v)
    BY <2>3, <2>5, <2>6, NoCallFields, ZenonT(40) DEF Sleeping
  <2>11. Sleeping(w)' = Sleeping(w) \ {u}
    BY <2>3, <2>5, <2>6, NoCallFields DEF Sleeping
  <2>12. \A i, j \in 1..Len(waiting[w]) : waiting[w][i] = waiting[w][j] => i = j
    BY <1>1, <2>2 DEF IsInjective
  <2>13. IsInjective(Tail(waiting[w]))
    BY <2>2, <2>8, <2>12 DEF IsInjective
  <2>14. Range(Tail(waiting[w])) = Range(waiting[w]) \ {u}
    <3>1. ASSUME NEW i \in 1..Len(waiting[w]) - 1
          PROVE  Tail(waiting[w])[i] \in Range(waiting[w]) \ {u}
      <4>1. i + 1 \in 1..Len(waiting[w]) /\ 1 \in 1..Len(waiting[w]) /\ i + 1 # 1
        BY <2>2
      <4> QED
        BY <4>1, <2>1, <2>2, <2>8, <2>12 DEF Range
    <3>2. ASSUME NEW i \in 1..Len(waiting[w]), waiting[w][i] # u
          PROVE  waiting[w][i] \in Range(Tail(waiting[w]))
      <4>1. i - 1 \in 1..Len(waiting[w]) - 1 /\ (i - 1) + 1 = i
        BY <2>1, <2>2, <3>2
      <4>2. Tail(waiting[w])[i - 1] = waiting[w][i]
        BY <2>8, <4>1
      <4> QED
        BY <2>8, <4>1, <4>2 DEF Range
    <3> QED
      BY <2>2, <2>8, <3>1, <3>2 DEF Range
  <2>15. ListInv'
    <3> SUFFICES ASSUME NEW v \in Object
                 PROVE  Range(waiting'[v]) = Sleeping(v)' /\ IsInjective(waiting'[v])
      BY DEF ListInv
    <3>1. CASE v = w
      BY <1>1, <2>9, <2>11, <2>13, <2>14, <3>1
    <3>2. CASE v # w
      BY <1>1, <2>9, <2>10, <3>2
    <3> QED
      BY <3>1, <3>2
  <2>16. AwakeInv'
    BY <2>5, <2>6, NoCallFields DEF AwakeInv, TypeInv
  <2> QED
    BY <1>3, <2>1, <2>3, <2>5, <2>7, <2>9, <2>15, <2>16
<1> QED
  BY <1>2, <1>3


\* The call of a task that is awake ends or goes on, or a delay begins.
LEMMA RecallFacts ==
  ASSUME TypeInv, NEW t \in Task, call[t].at # "blocked", NEW c \in Calls,
         c.at = "blocked" => c.for \notin Object,
         c.at \in {"retry", "last", "check"} => c.for \in Object,
         call' = [call EXCEPT ![t] = c], waiting' = waiting
  PROVE  /\ call' \in [Task -> Calls] /\ waiting' \in [Object -> Seq(Task)]
         /\ ListInv' /\ AwakeInv'
         /\ call'[t] = c /\ \A u \in Task \ {t} : call'[u] = call[u]
<1>1. /\ call \in [Task -> Calls] /\ waiting \in [Object -> Seq(Task)]
      /\ \A v \in Object : Range(waiting[v]) = Sleeping(v) /\ IsInjective(waiting[v])
  BY DEF TypeInv, Variables, ListInv
<1>2. call' \in [Task -> Calls] /\ call'[t] = c /\ \A u \in Task \ {t} : call'[u] = call[u]
  BY <1>1
<1>3. \A v \in Object : Sleeping(v)' = Sleeping(v)
  BY <1>2 DEF Sleeping
<1>4. ListInv'
  BY <1>1, <1>3 DEF ListInv
<1>5. AwakeInv'
  BY <1>2 DEF AwakeInv, TypeInv
<1> QED
  BY <1>1, <1>2, <1>4, <1>5

\* A task goes to sleep.
LEMMA SleepsFacts ==
  ASSUME TypeInv, NEW w \in Object, NEW t \in Task, call[t].for = w, call[t].at = "check",
         PlaceOnEventList(t, w)
  PROVE  /\ call' \in [Task -> Calls] /\ waiting' \in [Object -> Seq(Task)]
         /\ ListInv' /\ AwakeInv'
         /\ call'[t] = [call[t] EXCEPT !.at = "blocked"]
         /\ call'[t].for = w /\ call'[t].left = call[t].left /\ call'[t].at = "blocked"
         /\ \A u \in Task \ {t} : call'[u] = call[u]
         /\ t \notin Range(waiting[w])
         /\ waiting'[w] = InsertByPriority(waiting[w], t)
         /\ \A v \in Object \ {w} : waiting'[v] = waiting[v]
         /\ running' \in Selected(call', prio')
<1>1. /\ call \in [Task -> Calls] /\ waiting \in [Object -> Seq(Task)] /\ prio \in [Task -> Nat]
      /\ \A v \in Object : Range(waiting[v]) = Sleeping(v) /\ IsInjective(waiting[v])
  BY DEF TypeInv, Variables, ListInv
<1>2. /\ waiting' = [waiting EXCEPT ![w] = InsertByPriority(@, t)]
      /\ call' = [call EXCEPT ![t].at = "blocked"]
      /\ running' \in Selected(call', prio')
  BY DEF PlaceOnEventList, Yield
<1>3. call'[t] = [call[t] EXCEPT !.at = "blocked"] /\ \A u \in Task \ {t} : call'[u] = call[u]
  BY <1>1, <1>2
<1>4. call'[t] \in Calls /\ call'[t].for = w /\ call'[t].left = call[t].left /\ call'[t].at = "blocked"
  <2>1. PICK c \in Calls : c = call[t] /\ c.at # "none" /\ c.for = w
    BY <1>1
  <2>2. [c EXCEPT !.at = "blocked"] \in Calls /\ [c EXCEPT !.at = "blocked"].for = w
        /\ [c EXCEPT !.at = "blocked"].left = c.left
        /\ [c EXCEPT !.at = "blocked"].at = "blocked"
    BY <2>1, CallMoves
  <2> QED
    BY <1>3, <2>1, <2>2
<1>5. call' \in [Task -> Calls]
  BY <1>1, <1>2, <1>3, <1>4
<1>6. t \notin Range(waiting[w])
  BY <1>1 DEF Sleeping
<1>7. PICK new : new = InsertByPriority(waiting[w], t)
  OBVIOUS
<1>8. new \in Seq(Task) /\ Range(new) = Range(waiting[w]) \cup {t} /\ IsInjective(new)
  BY <1>1, <1>6, <1>7, InsertionFacts
<1>9. waiting' \in [Object -> Seq(Task)] /\ waiting'[w] = new
      /\ \A v \in Object \ {w} : waiting'[v] = waiting[v]
  BY <1>1, <1>2, <1>7, <1>8
<1>10. Sleeping(w)' = Sleeping(w) \cup {t} /\ \A v \in Object \ {w} : Sleeping(v)' = Sleeping(v)
  BY <1>3, <1>4, ZenonT(40) DEF Sleeping
<1>11. ListInv'
  <2> SUFFICES ASSUME NEW v \in Object
               PROVE  Range(waiting'[v]) = Sleeping(v)' /\ IsInjective(waiting'[v])
    BY DEF ListInv
  <2>1. CASE v = w
    BY <1>1, <1>8, <1>9, <1>10, <2>1
  <2>2. CASE v # w
    BY <1>1, <1>9, <1>10, <2>2
  <2> QED
    BY <2>1, <2>2
<1>12. AwakeInv'
  BY <1>3, <1>4 DEF AwakeInv, TypeInv
<1> QED
  BY <1>2, <1>3, <1>4, <1>5, <1>6, <1>7, <1>9, <1>11, <1>12

\* The tasks that a tick wakes up, and what it does to a call.
Due == {t \in Task : call[t].at = "blocked" /\ call[t].left \in {0, 1}}

LEMMA TickFacts ==
  ASSUME TypeInv, Tick
  PROVE  /\ call' \in [Task -> Calls] /\ waiting' \in [Object -> Seq(Task)]
         /\ ListInv' /\ AwakeInv'
         /\ \A t \in Due :
              IF call[t].for = "delay" THEN call'[t] = NoCall
              ELSE call'[t].for = call[t].for /\ call'[t].left = 0 /\ call'[t].at = "retry"
         /\ \A t \in Task \ Due :
              /\ call'[t].for = call[t].for /\ call'[t].at = call[t].at
              /\ call'[t].left = IF call[t].left \in {0, FOREVER} THEN call[t].left ELSE call[t].left - 1
              /\ call[t] = NoCall => call'[t] = NoCall
         /\ \A w \in Object : waiting'[w] = Kept(waiting[w], Due)
         /\ \/ running' \in Selected(call', prio')
            \/ /\ running' = running
               /\ IF running = IDLE THEN Due = {} ELSE \A t \in Due : ~(prio[t] >= prio[running])
<1>1. /\ call \in [Task -> Calls] /\ waiting \in [Object -> Seq(Task)]
      /\ \A v \in Object : Range(waiting[v]) = Sleeping(v) /\ IsInjective(waiting[v])
  BY DEF TypeInv, Variables, ListInv
<1>2. PICK older : older = [t \in Task |->
        IF call[t].left \in {0, FOREVER} THEN call[t] ELSE [call[t] EXCEPT !.left = @ - 1]]
  OBVIOUS
<1>3. ASSUME NEW t \in Task
      PROVE  /\ older[t] \in Calls
             /\ older[t].for = call[t].for /\ older[t].at = call[t].at
             /\ older[t].left = IF call[t].left \in {0, FOREVER} THEN call[t].left ELSE call[t].left - 1
             /\ call[t] = NoCall => older[t] = NoCall
  <2>1. CASE call[t].left \in {0, FOREVER}
    BY <1>1, <1>2, <2>1
  <2>2. CASE call[t].left \notin {0, FOREVER}
    <3>1. PICK c \in Calls : c = call[t]
      BY <1>1
    <3>2. /\ c # NoCall /\ c = [for |-> c.for, left |-> c.left, at |-> c.at]
          /\ c.for \in Object \cup {"delay"}
          /\ c.left \in 0..MaxTicks /\ c.left # 0
          /\ c.at \in {"retry", "last", "check", "blocked"}
      BY <2>2, <3>1, CallFields
    <3>3. older[t] = [for |-> c.for, left |-> c.left - 1, at |-> c.at]
      BY <1>2, <2>2, <3>1, <3>2
    <3>4. c.left - 1 \in 0..MaxTicks
      BY <3>2, KernelAssumption
    <3>5. older[t] \in Calls
      BY <3>2, <3>3, <3>4 DEF Calls
    <3> QED
      BY <2>2, <3>1, <3>2, <3>3, <3>5
  <2> QED
    BY <2>1, <2>2
<1>4. {t \in Task : older[t].at = "blocked" /\ older[t].left = 0} = Due
  <2>1. ASSUME NEW t \in Task
        PROVE  older[t].left = 0 <=> call[t].left \in {0, 1}
    <3>1. call[t].left = FOREVER \/ call[t].left \in Nat
      BY <1>1, CallFields, KernelAssumption
    <3>2. FOREVER # 0 /\ FOREVER # 1
      BY KernelAssumption
    <3> QED
      BY <1>3, <3>1, <3>2
  <2> QED
    BY <1>3, <2>1 DEF Due
<1>5. /\ call' = [t \in Task |->
            IF t \notin Due THEN older[t]
            ELSE IF older[t].for = "delay" THEN NoCall ELSE [older[t] EXCEPT !.at = "retry"]]
      /\ waiting' = [w \in Object |-> Kept(waiting[w], Due)]
  BY <1>2, <1>4 DEF Tick
<1>6. ASSUME NEW t \in Due
      PROVE  /\ call'[t] \in Calls
             /\ IF call[t].for = "delay" THEN call'[t] = NoCall
                ELSE /\ call'[t].for = call[t].for /\ call'[t].left = 0 /\ call'[t].at = "retry"
                     /\ call[t].for \in Object
  <2>1. PICK c \in Calls : c = older[t] /\ c.for = call[t].for /\ c.at = "blocked" /\ c.left = 0
    BY <1>3, <1>4 DEF Due
  <2>2. call'[t] = IF c.for = "delay" THEN NoCall ELSE [c EXCEPT !.at = "retry"]
    BY <1>5, <2>1 DEF Due
  <2>3. [c EXCEPT !.at = "retry"] \in Calls /\ [c EXCEPT !.at = "retry"].for = c.for
        /\ [c EXCEPT !.at = "retry"].left = c.left
        /\ [c EXCEPT !.at = "retry"].at = "retry"
    BY <2>1, CallMoves
  <2>4. c.for \in Object \cup {"delay"}
    BY <2>1, CallFields
  <2> QED
    BY <2>1, <2>2, <2>3, <2>4, NoCallFields
<1>7. ASSUME NEW t \in Task \ Due
      PROVE  /\ call'[t] \in Calls
             /\ call'[t].for = call[t].for /\ call'[t].at = call[t].at
             /\ call'[t].left = IF call[t].left \in {0, FOREVER} THEN call[t].left ELSE call[t].left - 1
             /\ call[t] = NoCall => call'[t] = NoCall
  BY <1>3, <1>5
<1>8. call' \in [Task -> Calls]
  <2>1. \A t \in Task : call'[t] \in Calls
    BY <1>6, <1>7
  <2>2. call' = [t \in Task |-> call'[t]]
    BY <1>5
  <2> QED
    BY <2>1, <2>2
<1>9. ASSUME NEW w \in Object
      PROVE  /\ waiting'[w] \in Seq(Task) /\ waiting'[w] = Kept(waiting[w], Due)
             /\ Range(waiting'[w]) = Sleeping(w)' /\ IsInjective(waiting'[w])
  <2>1. PICK list \in Seq(Task) : list = waiting[w] /\ IsInjective(list) /\ Range(list) = Sleeping(w)
    BY <1>1
  <2>2. Kept(list, Due) \in Seq(Task) /\ Range(Kept(list, Due)) = Range(list) \ Due /\ IsInjective(Kept(list, Due))
    BY <2>1, KeptFacts
  <2>3. waiting'[w] = Kept(list, Due)
    BY <1>5, <2>1
  <2>4. Sleeping(w)' = Sleeping(w) \ Due
    BY <1>6, <1>7, NoCallFields DEF Sleeping
  <2> QED
    BY <2>1, <2>2, <2>3, <2>4
<1>10. waiting' \in [Object -> Seq(Task)] /\ ListInv'
  BY <1>5, <1>9 DEF ListInv
<1>11. AwakeInv'
  BY <1>6, <1>7, NoCallFields DEF AwakeInv, TypeInv
<1>12. \/ running' \in Selected(call', prio')
       \/ /\ running' = running
          /\ IF running = IDLE THEN Due = {} ELSE \A t \in Due : ~(prio[t] >= prio[running])
  BY <1>2, <1>4 DEF Tick, Yield
<1> QED
  BY <1>6, <1>7, <1>8, <1>9, <1>10, <1>11, <1>12


\* A task is about to enter the critical section for w, at the beginning of a call
\* or again.
Comes(t, w) ==
  /\ running = t /\ call[t].at # "blocked"
  /\ \/ /\ call[t] = NoCall /\ w \in Uses[t]
        /\ IF w = LOG THEN LOG \notin Held(t) ELSE Held(t) = {}
     \/ call[t].for = w /\ call[t].at \in {"retry", "last"}

LEMMA TaskCases ==
  ASSUME TypeInv, NEW t \in Task, TaskStep(t)
  PROVE  \/ \E w \in Object : Comes(t, w) /\ Succeed(t, w)
         \/ \E w \in Object, n \in Ticks :
              /\ Comes(t, w) /\ call[t] = NoCall
              /\ w \in Mutex => n = FOREVER
              /\ Fail(t, w, [for |-> w, left |-> n, at |-> "check"])
         \/ /\ Comes(t, call[t].for) /\ call[t].for \in Object /\ call[t].at = "last"
            /\ Fail(t, call[t].for, NoCall)
         \/ /\ Comes(t, call[t].for) /\ call[t].for \in Object /\ call[t].at = "retry"
            /\ Fail(t, call[t].for, [call[t] EXCEPT !.at = "check"])
         \/ Check(t)
         \/ \E m \in Mutex : Give(t, m)
         \/ \E n \in Ticks : Delay(t, n)
<1>1. ASSUME NEW w \in Object, NEW n \in Ticks, Begin(t, w, n)
      PROVE  /\ Comes(t, w) /\ call[t] = NoCall
             /\ w \in Mutex => n = FOREVER
             /\ Succeed(t, w) \/ Fail(t, w, [for |-> w, left |-> n, at |-> "check"])
  <2>1. w # LOG => Held(t) = {}
    BY <1>1 DEF Begin
  <2>2. call[t].at # "blocked"
    BY <1>1, NoCallFields DEF Begin
  <2> QED
    BY <1>1, <2>1, <2>2 DEF Begin, Comes
<1>2. CASE Retry(t)
  <2>1. call[t].for \in Object /\ Comes(t, call[t].for)
    BY <1>2 DEF Retry, Comes, TypeInv, AwakeInv
  <2> QED
    BY <1>2, <2>1 DEF Retry
<1> QED
  BY <1>1, <1>2 DEF TaskStep

LEMMA SucceedFacts ==
  ASSUME NEW t \in Task, NEW w \in Object, Succeed(t, w)
  PROVE  /\ Available(w) /\ prio' = prio
         /\ w = "send" => queue' = Append(queue, t) /\ holder' = holder /\ Signal("receive", t, FALSE)
         /\ w = "receive" => queue' = Tail(queue) /\ holder' = holder /\ Signal("send", t, FALSE)
         /\ w \in Mutex =>
              /\ holder' = [holder EXCEPT ![w] = t] /\ call' = [call EXCEPT ![t] = NoCall]
              /\ UNCHANGED <<queue, waiting, running>>
         /\ w \in {"send", "receive"} \cup Mutex
<1>1. /\ Available(w) /\ prio' = prio
  BY DEF Succeed
<1>2. CASE w = "send"
  BY <1>2, Names DEF Succeed
<1>3. CASE w = "receive"
  BY <1>3, Names DEF Succeed
<1>4. CASE w \in Mutex
  BY <1>4, Names DEF Succeed
<1> QED
  BY <1>1, <1>2, <1>3, <1>4, Names DEF Object

LEMMA AvailableFacts ==
  /\ Available("send") <=> Len(queue) < QueueLength
  /\ Available("receive") <=> queue # <<>>
  /\ \A m \in Mutex : Available(m) <=> holder[m] = NONE
  BY Names DEF Available

LEMMA TypeStep == TypeInv /\ [Next]_vars => TypeInv'
<1> SUFFICES ASSUME TypeInv, [Next]_vars PROVE TypeInv'
  OBVIOUS
<1> USE DEF TypeInv
<1>1. /\ queue \in Seq(Task) /\ Len(queue) <= QueueLength
      /\ holder \in [Mutex -> Task \cup {NONE}]
      /\ waiting \in [Object -> Seq(Task)] /\ prio \in [Task -> Nat]
      /\ call \in [Task -> Calls] /\ running \in Task \cup {IDLE}
  BY DEF Variables
<1>2. ASSUME NEW t \in Task, NEW w \in Object, Comes(t, w), Succeed(t, w) PROVE TypeInv'
  <2>1. call[t].at # "blocked"
    BY <1>2 DEF Comes
  <2>2. CASE w = "send"
    <3>1. /\ queue' = Append(queue, t) /\ holder' = holder /\ Signal("receive", t, FALSE) /\ prio' = prio
          /\ Len(queue) < QueueLength
      BY <1>2, <2>2, SucceedFacts, AvailableFacts
    <3>2. Wakes("receive", t) /\ running' \in Task \cup {IDLE}
      BY <1>1, <3>1, SelectedType DEF Signal, Wakes, Yield
    <3>3. queue' \in Seq(Task) /\ Len(queue') <= QueueLength
      BY <1>1, <3>1, KernelAssumption
    <3> QED
      BY <1>1, <2>1, <3>1, <3>2, <3>3, WakesFacts DEF Variables, Object
  <2>3. CASE w = "receive"
    <3>1. /\ queue' = Tail(queue) /\ holder' = holder /\ Signal("send", t, FALSE) /\ prio' = prio
          /\ queue # <<>>
      BY <1>2, <2>3, SucceedFacts, AvailableFacts
    <3>2. Wakes("send", t) /\ running' \in Task \cup {IDLE}
      BY <1>1, <3>1, SelectedType DEF Signal, Wakes, Yield
    <3>3. queue' \in Seq(Task) /\ Len(queue') <= QueueLength
      BY <1>1, <3>1, HeadTailProperties, KernelAssumption
    <3> QED
      BY <1>1, <2>1, <3>1, <3>2, <3>3, WakesFacts DEF Variables, Object
  <2>4. CASE w \in Mutex
    <3>1. /\ holder' = [holder EXCEPT ![w] = t] /\ call' = [call EXCEPT ![t] = NoCall]
          /\ UNCHANGED <<queue, waiting, running, prio>>
      BY <1>2, <2>4, SucceedFacts
    <3>2. call' \in [Task -> Calls] /\ waiting' \in [Object -> Seq(Task)] /\ ListInv' /\ AwakeInv'
      BY <2>1, <3>1, NoCallFields, RecallFacts
    <3> QED
      BY <1>1, <3>1, <3>2 DEF Variables
  <2> QED
    BY <1>2, <2>2, <2>3, <2>4, SucceedFacts
<1>3. ASSUME NEW t \in Task, NEW w \in Object, call[t].at # "blocked",
             NEW c \in Calls, c.at # "blocked", c.at # "none" => c.for \in Object, Fail(t, w, c)
      PROVE  TypeInv'
  <2>1. call' = [call EXCEPT ![t] = c] /\ UNCHANGED <<queue, holder, waiting, prio, running>>
    BY <1>3 DEF Fail
  <2>2. call' \in [Task -> Calls] /\ waiting' \in [Object -> Seq(Task)] /\ ListInv' /\ AwakeInv'
    BY <1>3, <2>1, RecallFacts
  <2> QED
    BY <1>1, <2>1, <2>2 DEF Variables
<1>4. ASSUME NEW t \in Task, NEW w \in Object, NEW n \in Ticks, Comes(t, w),
             Fail(t, w, [for |-> w, left |-> n, at |-> "check"])
      PROVE  TypeInv'
  <2>1. n \in 0..MaxTicks \cup {FOREVER}
    BY KernelAssumption DEF Ticks
  <2>2. PICK c : c = [for |-> w, left |-> n, at |-> "check"]
    OBVIOUS
  <2>3. c \in Calls /\ c.at = "check" /\ c.for = w
    BY <2>1, <2>2, NewCall
  <2> QED
    BY <1>3, <1>4, <2>2, <2>3 DEF Comes
<1>5. ASSUME NEW t \in Task, call[t].for \in Object, call[t].at # "blocked",
             Fail(t, call[t].for, NoCall)
      PROVE  TypeInv'
  BY <1>3, <1>5, NoCallFields
<1>6. ASSUME NEW t \in Task, call[t].for \in Object, call[t].at \in {"retry", "last", "check"},
             NEW a \in {"retry", "last", "check"}
      PROVE  /\ [call[t] EXCEPT !.at = a] \in Calls /\ [call[t] EXCEPT !.at = a].at = a
             /\ [call[t] EXCEPT !.at = a].for = call[t].for
             /\ [call[t] EXCEPT !.at = a].left = call[t].left
  <2>1. PICK c \in Calls : c = call[t] /\ c.at # "none"
    BY <1>1, <1>6
  <2>2. [c EXCEPT !.at = a] \in Calls /\ [c EXCEPT !.at = a].for = c.for
        /\ [c EXCEPT !.at = a].left = c.left /\ [c EXCEPT !.at = a].at = a
    BY <2>1, CallFields DEF Calls, NoCall
  <2> QED
    BY <2>1, <2>2
<1>7. ASSUME NEW t \in Task, Check(t) PROVE TypeInv'
  <2>1. /\ call[t].at = "check" /\ call[t].for \in Object
        /\ queue' = queue /\ holder' = holder
    BY <1>7 DEF Check, AwakeInv
  <2>2. PICK w \in Object : w = call[t].for
    BY <2>1
  <2>3. ASSUME NEW c \in Calls, c.at # "blocked", c.at # "none" => c.for \in Object,
               call' = [call EXCEPT ![t] = c], UNCHANGED <<waiting, prio, running>>
        PROVE  TypeInv'
    <3>1. call' \in [Task -> Calls] /\ waiting' \in [Object -> Seq(Task)] /\ ListInv' /\ AwakeInv'
      BY <2>1, <2>3, RecallFacts
    <3> QED
      BY <1>1, <2>1, <2>3, <3>1 DEF Variables
  <2>4. CASE PlaceOnEventList(t, w) /\ (IF w \in Mutex THEN Inherit(t, w) ELSE UNCHANGED prio)
    <3>1. /\ call' \in [Task -> Calls] /\ waiting' \in [Object -> Seq(Task)] /\ ListInv' /\ AwakeInv'
          /\ running' \in Selected(call', prio')
      BY <2>1, <2>2, <2>4, SleepsFacts
    <3>2. prio' \in [Task -> Nat]
      BY <1>1, <2>4 DEF Inherit
    <3>3. running' \in Task \cup {IDLE}
      BY <3>1, SelectedType
    <3> QED
      BY <1>1, <2>1, <3>1, <3>2, <3>3 DEF Variables
  <2>5. \/ UNCHANGED <<waiting, prio, running>> /\ call' = [call EXCEPT ![t] = NoCall]
        \/ UNCHANGED <<waiting, prio, running>> /\ call' = [call EXCEPT ![t] = [call[t] EXCEPT !.at = "last"]]
        \/ UNCHANGED <<waiting, prio, running>> /\ call' = [call EXCEPT ![t] = [call[t] EXCEPT !.at = "retry"]]
        \/ PlaceOnEventList(t, w) /\ (IF w \in Mutex THEN Inherit(t, w) ELSE UNCHANGED prio)
    BY <1>1, <1>7, <2>2 DEF Check
  <2> QED
    BY <1>6, <2>1, <2>3, <2>4, <2>5, NoCallFields
<1>8. ASSUME NEW t \in Task, NEW m \in Mutex, Give(t, m) PROVE TypeInv'
  <2>1. /\ call[t] = NoCall /\ queue' = queue /\ holder' = [holder EXCEPT ![m] = NONE]
        /\ Disinherit(t, m) /\ Signal(m, t, prio' # prio) /\ m \in Object
    BY <1>8 DEF Give, Object
  <2>2. Wakes(m, t) /\ running' \in Task \cup {IDLE}
    BY <1>1, <2>1, SelectedType DEF Signal, Wakes, Yield
  <2>3. prio' \in [Task -> Nat] /\ holder' \in [Mutex -> Task \cup {NONE}]
    BY <1>1, <2>1, KernelAssumption DEF Disinherit
  <2> QED
    BY <1>1, <2>1, <2>2, <2>3, WakesFacts, NoCallFields DEF Variables
<1>9. ASSUME NEW t \in Task, NEW n \in Ticks, Delay(t, n) PROVE TypeInv'
  <2>1. n \in 0..MaxTicks \cup {FOREVER}
    BY KernelAssumption DEF Ticks
  <2>2. PICK c : c = [for |-> "delay", left |-> n, at |-> "blocked"]
    OBVIOUS
  <2>5. c \in Calls /\ c.at = "blocked" /\ c.for = "delay"
    BY <2>1, <2>2, NewCall
  <2>3. /\ call[t] = NoCall /\ call' = [call EXCEPT ![t] = c]
        /\ UNCHANGED <<queue, holder, waiting, prio>> /\ running' \in Task \cup {IDLE}
    BY <1>9, <2>2, SelectedType DEF Delay, Yield
  <2>4. call' \in [Task -> Calls] /\ waiting' \in [Object -> Seq(Task)] /\ ListInv' /\ AwakeInv'
    BY <2>3, <2>5, NoCallFields, RecallFacts, Names
  <2> QED
    BY <1>1, <2>3, <2>4 DEF Variables
<1>10. CASE Tick
  BY <1>1, <1>10, TickFacts, SelectedType DEF Tick, Variables
<1>11. CASE UNCHANGED vars
  BY <1>1, <1>11 DEF vars, Variables, ListInv, AwakeInv, Sleeping
<1>12. ASSUME NEW t \in Task, call[t].for \in Object, call[t].at = "retry",
              Fail(t, call[t].for, [call[t] EXCEPT !.at = "check"])
       PROVE  TypeInv'
  <2>1. PICK c \in Calls : c = [call[t] EXCEPT !.at = "check"] /\ c.at = "check" /\ c.for = call[t].for
    BY <1>6, <1>12
  <2> QED
    BY <1>3, <1>12, <2>1
<1>13. ASSUME NEW t \in Task, TaskStep(t) PROVE TypeInv'
  <2>1. \A w \in Object : Comes(t, w) => call[t].at # "blocked"
    BY DEF Comes
  <2> QED
    BY <1>2, <1>4, <1>5, <1>7, <1>8, <1>9, <1>12, <1>13, <2>1, TaskCases
<1> QED
  BY <1>10, <1>11, <1>13 DEF Next

\* Queues, lists and calls have their types, the queue never gets longer than it
\* is, and exactly the tasks that sleep for an object are on its list.
THEOREM TypeCorrect == Spec => []TypeOK
<1>1. TypeInv => TypeOK
  BY TypeInvIsType
<1> QED
  BY <1>1, InitType, TypeStep, PTL DEF Spec


-----------------------------------------------------------------------------
(* No wakeup is lost *)

There(w) ==
  CASE w = "send"    -> QueueLength - Len(queue)
    [] w = "receive" -> Len(queue)
    [] OTHER         -> IF holder[w] = NONE THEN 1 ELSE 0

\* The tasks that were woken up and go back to the critical section for w.  What
\* a task finds there after it has looked once more, with the scheduler
\* suspended, is not for it: others have been woken up for that.
Returning(w) == {t \in Task : call[t].for = w /\ call[t].at \in {"retry", "last"}}

WakeInv == \A w \in Object : waiting[w] # <<>> => There(w) <= Cardinality(Returning(w))

LEMMA ThereFacts ==
  /\ There("send") = QueueLength - Len(queue)
  /\ There("receive") = Len(queue)
  /\ \A m \in Mutex : There(m) = IF holder[m] = NONE THEN 1 ELSE 0
  BY Names DEF There

LEMMA ThereNext ==
  (/\ There("send") = QueueLength - Len(queue)
   /\ There("receive") = Len(queue)
   /\ \A m \in Mutex : There(m) = IF holder[m] = NONE THEN 1 ELSE 0)'
  BY ThereFacts, PTL

LEMMA ThereType == TypeInv => \A w \in Object : There(w) \in Nat
<1> SUFFICES ASSUME TypeInv PROVE \A w \in Object : There(w) \in Nat
  OBVIOUS
<1>1. queue \in Seq(Task) /\ Len(queue) <= QueueLength /\ Len(queue) \in Nat /\ QueueLength \in Nat
  BY KernelAssumption DEF TypeInv, Variables
<1> QED
  BY <1>1, ThereFacts DEF Object

LEMMA ThereTypeNext == (TypeInv => \A w \in Object : There(w) \in Nat)'
  BY ThereType, PTL

\* What is not available is not there.
LEMMA NothingThere ==
  ASSUME TypeInv, NEW w \in Object, ~Available(w)
  PROVE  There(w) = 0
<1>1. queue \in Seq(Task) /\ Len(queue) <= QueueLength /\ Len(queue) \in Nat /\ QueueLength \in Nat
  BY KernelAssumption DEF TypeInv, Variables
<1>2. queue = <<>> => Len(queue) = 0
  BY <1>1
<1> QED
  BY <1>1, <1>2, ThereFacts, AvailableFacts DEF Object

LEMMA ReturningSize ==
  /\ \A w : IsFiniteSet(Returning(w)) /\ Cardinality(Returning(w)) \in Nat
<1>1. \A w : Returning(w) \in SUBSET Task
  BY DEF Returning
<1> QED
  BY <1>1, KernelAssumption, FS_Subset, FS_CardinalityType

LEMMA ReturningSizeNext ==
  (\A w : IsFiniteSet(Returning(w)) /\ Cardinality(Returning(w)) \in Nat)'
  BY ReturningSize, PTL

\* A step that takes no object and lets no task go to sleep keeps the invariant.
LEMMA WakeKept ==
  ASSUME TypeInv, TypeInv', WakeInv, NEW w \in Object,
         waiting'[w] # <<>> => waiting[w] # <<>>,
         There(w)' <= There(w), Returning(w) \subseteq Returning(w)'
  PROVE  waiting'[w] # <<>> => There(w)' <= Cardinality(Returning(w)')
<1> SUFFICES ASSUME waiting'[w] # <<>> PROVE There(w)' <= Cardinality(Returning(w)')
  OBVIOUS
<1>1. There(w) <= Cardinality(Returning(w))
  BY DEF WakeInv
<1>2. Cardinality(Returning(w)) <= Cardinality(Returning(w)')
  BY ReturningSizeNext, FS_Subset
<1> QED
  BY <1>1, <1>2, ThereType, ThereTypeNext, ReturningSize, ReturningSizeNext

\* What is put or given wakes up a task for it ...
LEMMA WakeMore ==
  ASSUME TypeInv, TypeInv', WakeInv, NEW w \in Object, NEW t \in Task, call[t].for # w,
         call[t].at # "blocked", Wakes(w, t), There(w)' <= There(w) + 1
  PROVE  waiting'[w] # <<>> => There(w)' <= Cardinality(Returning(w)')
<1> SUFFICES ASSUME waiting'[w] # <<>> PROVE There(w)' <= Cardinality(Returning(w)')
  OBVIOUS
<1>1. waiting[w] # <<>>
  BY WakesFacts
<1>2. There(w) <= Cardinality(Returning(w))
  BY <1>1 DEF WakeInv
<1>3. PICK u \in Task : u = waiting[w][1] /\ u # t /\ call[u].for = w /\ call[u].at = "blocked"
  BY <1>1, WakesFacts DEF Sleeping
<1>4. call'[u].for = w /\ call'[u].at = "retry" /\ \A v \in Task \ {t, u} : call'[v] = call[v]
  <2>1. call'[u] = [call[u] EXCEPT !.at = "retry"] /\ call[u] \in Calls
    BY <1>1, <1>3, WakesFacts DEF TypeInv, Variables
  <2>2. PICK c \in Calls : c = call[u] /\ c.at # "none"
    BY <1>3, <2>1
  <2>3. [c EXCEPT !.at = "retry"].for = c.for /\ [c EXCEPT !.at = "retry"].at = "retry"
    BY <2>2, CallMoves
  <2> QED
    BY <1>1, <1>3, <2>1, <2>2, <2>3, WakesFacts
<1>5. call'[t] = NoCall
  BY WakesFacts
<1>6. Returning(w)' = Returning(w) \cup {u} /\ u \notin Returning(w)
  BY <1>3, <1>4, <1>5, NoCallFields, Names DEF Returning
<1>7. Cardinality(Returning(w)') = Cardinality(Returning(w)) + 1
  BY <1>6, ReturningSize, FS_AddElement
<1> QED
  BY <1>2, <1>7, ThereType, ThereTypeNext, ReturningSize

\* ... and what is taken is taken by one task.
LEMMA WakeLess ==
  ASSUME TypeInv, TypeInv', WakeInv, NEW w \in Object, NEW t \in Task,
         waiting'[w] = waiting[w], There(w)' = There(w) - 1, Returning(w)' = Returning(w) \ {t}
  PROVE  waiting'[w] # <<>> => There(w)' <= Cardinality(Returning(w)')
<1> SUFFICES ASSUME waiting'[w] # <<>> PROVE There(w)' <= Cardinality(Returning(w)')
  OBVIOUS
<1>1. There(w) <= Cardinality(Returning(w))
  BY DEF WakeInv
<1>2. PICK S : S = Returning(w) /\ IsFiniteSet(S) /\ Cardinality(S) \in Nat
  BY ReturningSize
<1>3. Cardinality(S \ {t}) = IF t \in S THEN Cardinality(S) - 1 ELSE Cardinality(S)
  BY <1>2, FS_RemoveElement
<1>4. PICK k \in Nat, m \in Nat : k = Cardinality(S) /\ m = There(w)
  BY <1>2, ThereType
<1>5. Cardinality(S \ {t}) >= k - 1
  BY <1>2, <1>3, <1>4
<1>6. There(w)' = m - 1 /\ Cardinality(Returning(w)') = Cardinality(S \ {t}) /\ m <= k
  BY <1>1, <1>2, <1>4
<1>7. Cardinality(S \ {t}) \in Int
  BY <1>2, <1>3
<1> QED
  BY <1>5, <1>6, <1>7

\* Where a wakeup for w leaves the tasks that come back for another object.
LEMMA WakesReturning ==
  ASSUME TypeInv, NEW w \in Object, NEW t \in Task, call[t].at # "blocked", Wakes(w, t),
         NEW v \in Object, v # w
  PROVE  Returning(v)' = Returning(v) \ {t} /\ waiting'[v] = waiting[v]
<1>1. call'[t] = NoCall /\ call'[t].for = NONE
  BY WakesFacts, NoCallFields
<1>2. CASE waiting[w] = <<>>
  <2>1. waiting' = waiting /\ \A u \in Task \ {t} : call'[u] = call[u]
    BY <1>2, WakesFacts
  <2> QED
    BY <1>1, <2>1, Names DEF Returning
<1>3. CASE waiting[w] # <<>>
  <2>0. waiting[w][1] \in Sleeping(w) \ {t}
    BY <1>3, WakesFacts
  <2>1. PICK u \in Task : u = waiting[w][1] /\ u # t /\ call[u].for = w /\ call[u].at = "blocked"
    BY <2>0 DEF Sleeping
  <2>2. call'[u] = [call[u] EXCEPT !.at = "retry"] /\ call[u] \in Calls
        /\ \A x \in Task \ {t, u} : call'[x] = call[x]
    BY <1>3, <2>1, WakesFacts, ZenonT(40) DEF TypeInv, Variables
  <2>3. call'[u].for = w
    <3>1. PICK c \in Calls : c = call[u] /\ c.at # "none"
      BY <2>1, <2>2
    <3>2. [c EXCEPT !.at = "retry"].for = c.for
      BY <3>1, CallMoves
    <3> QED
      BY <2>1, <2>2, <3>1, <3>2
  <2>4. waiting'[v] = waiting[v]
    <3>1. \A x \in Object \ {w} : waiting'[x] = waiting[x]
      BY <1>3, WakesFacts
    <3> QED
      BY <3>1
  <2>5. \A x \in Task : x \in Returning(v)' <=> x \in Returning(v) \ {t}
    BY <1>1, <2>1, <2>2, <2>3, Names DEF Returning
  <2> QED
    BY <2>4, <2>5 DEF Returning
<1> QED
  BY <1>2, <1>3

LEMMA WakeStep == TypeInv /\ TypeInv' /\ WakeInv /\ [Next]_vars => WakeInv'
<1> SUFFICES ASSUME TypeInv, TypeInv', WakeInv, [Next]_vars, NEW v \in Object
             PROVE  waiting'[v] # <<>> => There(v)' <= Cardinality(Returning(v)')
  BY DEF WakeInv
<1>1. /\ queue \in Seq(Task) /\ Len(queue) <= QueueLength /\ Len(queue) \in Nat
      /\ holder \in [Mutex -> Task \cup {NONE}]
      /\ waiting \in [Object -> Seq(Task)] /\ call \in [Task -> Calls]
      /\ QueueLength \in Nat
  BY KernelAssumption DEF TypeInv, Variables
<1>2. There(v) \in Nat
  BY ThereType
<1>0. ASSUME There(v)' = There(v), waiting'[v] # <<>> => waiting[v] # <<>>,
             Returning(v) \subseteq Returning(v)'
      PROVE  waiting'[v] # <<>> => There(v)' <= Cardinality(Returning(v)')
  <2>1. There(v)' <= There(v)
    BY <1>0, <1>2
  <2> QED
    BY <1>0, <2>1, WakeKept
<1>3. ASSUME NEW t \in Task, NEW w \in Object, Comes(t, w), Succeed(t, w)
      PROVE  waiting'[v] # <<>> => There(v)' <= Cardinality(Returning(v)')
  <2>1. call[t].at # "blocked" /\ (call[t].for = w \/ call[t].for = NONE)
    BY <1>3, NoCallFields DEF Comes
  <2>2. CASE w = "send"
    <3>1. /\ queue' = Append(queue, t) /\ holder' = holder /\ Signal("receive", t, FALSE)
          /\ Len(queue) < QueueLength
      BY <1>3, <2>2, SucceedFacts, AvailableFacts
    <3>2. Wakes("receive", t) /\ Len(queue') = Len(queue) + 1
      <4>1. Wakes("receive", t)
        BY <3>1 DEF Signal, Wakes
      <4>2. Len(queue') = Len(queue) + 1
        BY <1>1, <3>1
      <4> QED
        BY <4>1, <4>2
    <3>3. CASE v = "receive"
      <4>1. There(v)' <= There(v) + 1
        BY <1>1, <3>2, <3>3, ThereFacts, ThereNext
      <4> QED
        BY <2>1, <2>2, <3>2, <3>3, <4>1, WakeMore, Names
    <3>4. CASE v = "send"
      <4>1. There(v)' = There(v) - 1
        BY <1>1, <3>2, <3>4, ThereFacts, ThereNext
      <4>2. Returning(v)' = Returning(v) \ {t} /\ waiting'[v] = waiting[v]
        BY <2>1, <3>2, <3>4, WakesReturning DEF Object
      <4> QED
        BY <4>1, <4>2, WakeLess
    <3>5. CASE v \in Mutex
      <4>1. There(v)' = There(v)
        BY <3>1, <3>5, ThereFacts, ThereNext
      <4>2. Returning(v)' = Returning(v) \ {t} /\ waiting'[v] = waiting[v]
        BY <2>1, <3>2, <3>5, Names, WakesReturning DEF Object
      <4>3. t \notin Returning(v)
        BY <2>1, <2>2, <3>5, Names DEF Returning
      <4> QED
        BY <4>1, <4>2, <4>3, <1>0
    <3> QED
      BY <3>3, <3>4, <3>5 DEF Object
  <2>3. CASE w = "receive"
    <3>1. /\ queue' = Tail(queue) /\ holder' = holder /\ Signal("send", t, FALSE)
          /\ queue # <<>>
      BY <1>3, <2>3, SucceedFacts, AvailableFacts
    <3>2. Wakes("send", t) /\ Len(queue') = Len(queue) - 1
      BY <1>1, <3>1, HeadTailProperties DEF Signal, Wakes
    <3>3. CASE v = "send"
      <4>1. There(v)' <= There(v) + 1
        BY <1>1, <3>2, <3>3, ThereFacts, ThereNext
      <4> QED
        BY <2>1, <2>3, <3>2, <3>3, <4>1, WakeMore, Names
    <3>4. CASE v = "receive"
      <4>1. There(v)' = There(v) - 1
        BY <1>1, <3>2, <3>4, ThereFacts, ThereNext
      <4>2. Returning(v)' = Returning(v) \ {t} /\ waiting'[v] = waiting[v]
        BY <2>1, <3>2, <3>4, WakesReturning DEF Object
      <4> QED
        BY <4>1, <4>2, WakeLess
    <3>5. CASE v \in Mutex
      <4>1. There(v)' = There(v)
        BY <3>1, <3>5, ThereFacts, ThereNext
      <4>2. Returning(v)' = Returning(v) \ {t} /\ waiting'[v] = waiting[v]
        BY <2>1, <3>2, <3>5, Names, WakesReturning DEF Object
      <4>3. t \notin Returning(v)
        BY <2>1, <2>3, <3>5, Names DEF Returning
      <4> QED
        BY <4>1, <4>2, <4>3, <1>0
    <3> QED
      BY <3>3, <3>4, <3>5 DEF Object
  <2>4. CASE w \in Mutex
    <3>1. /\ holder' = [holder EXCEPT ![w] = t] /\ call' = [call EXCEPT ![t] = NoCall]
          /\ UNCHANGED <<queue, waiting>> /\ holder[w] = NONE
      BY <1>3, <2>4, SucceedFacts, AvailableFacts
    <3>2. Returning(v)' = Returning(v) \ {t}
      BY <1>1, <3>1, NoCallFields, Names DEF Returning
    <3>3. CASE v = w
      <4>1. There(v)' = 0
        <5>1. holder'[v] = t /\ t # NONE
          BY <1>1, <2>4, <3>1, <3>3, KernelAssumption
        <5> QED
          BY <2>4, <3>3, <5>1, ThereNext
      <4> QED
        BY <4>1, ReturningSizeNext
    <3>4. CASE v # w
      <4>1. There(v)' = There(v)
        BY <1>1, <2>4, <3>1, <3>4, ThereFacts, ThereNext DEF Object
      <4>2. t \notin Returning(v)
        BY <2>1, <3>4, Names DEF Returning
      <4> QED
        BY <3>1, <3>2, <4>1, <4>2, <1>0
    <3> QED
      BY <3>3, <3>4
  <2> QED
    BY <1>3, <2>2, <2>3, <2>4, SucceedFacts
<1>4. ASSUME UNCHANGED <<queue, holder>>,
             waiting'[v] # <<>> => waiting[v] # <<>>, Returning(v) \subseteq Returning(v)'
      PROVE  waiting'[v] # <<>> => There(v)' <= Cardinality(Returning(v)')
  <2>1. There(v)' = There(v)
    BY <1>4, ThereFacts, ThereNext DEF Object
  <2> QED
    BY <1>0, <1>4, <2>1
<1>5. ASSUME There(v)' = 0
      PROVE  waiting'[v] # <<>> => There(v)' <= Cardinality(Returning(v)')
  BY <1>5, ReturningSizeNext
<1>6. ASSUME NEW t \in Task, NEW w \in Object, Comes(t, w), NEW c, Fail(t, w, c), c.for = w \/ c = NoCall
      PROVE  waiting'[v] # <<>> => There(v)' <= Cardinality(Returning(v)')
  <2>1. /\ call' = [call EXCEPT ![t] = c] /\ UNCHANGED <<queue, holder, waiting>> /\ ~Available(w)
    BY <1>6 DEF Fail
  <2>2. CASE v = w
    <3>1. There(v)' = There(v) /\ There(v) = 0
      BY <2>1, <2>2, NothingThere, ThereFacts, ThereNext DEF Object
    <3> QED
      BY <1>5, <3>1
  <2>3. CASE v # w
    <3>1. call[t].for # v /\ c.for # v
      BY <1>6, <2>3, NoCallFields, Names DEF Comes
    <3>2. Returning(v) \subseteq Returning(v)'
      BY <1>1, <2>1, <3>1 DEF Returning
    <3> QED
      BY <1>4, <2>1, <3>2
  <2> QED
    BY <2>2, <2>3
<1>7. ASSUME NEW t \in Task, Check(t)
      PROVE  waiting'[v] # <<>> => There(v)' <= Cardinality(Returning(v)')
  <2>1. /\ call[t].at = "check" /\ call[t].for \in Object
        /\ queue' = queue /\ holder' = holder
    BY <1>7 DEF Check, TypeInv, AwakeInv
  <2>2. t \notin Returning(v)
    BY <2>1 DEF Returning
  <2>3. \A u \in Task \ {t} : call'[u] = call[u]
    BY <1>1, <1>7 DEF Check, PlaceOnEventList
  <2>4. Returning(v) \subseteq Returning(v)'
    BY <2>2, <2>3 DEF Returning
  <2>5. CASE waiting' = waiting
    BY <1>4, <2>1, <2>4, <2>5
  <2>6. CASE PlaceOnEventList(t, call[t].for) /\ ~Available(call[t].for)
    <3>1. PICK w \in Object : w = call[t].for
      BY <2>1
    <3>2. CASE v = w
      <4>1. There(v)' = There(v) /\ There(v) = 0
        BY <2>1, <2>6, <3>1, <3>2, NothingThere, ThereFacts, ThereNext DEF Object
      <4> QED
        BY <1>5, <4>1
    <3>3. CASE v # w
      <4>1. waiting'[v] = waiting[v]
        BY <1>1, <2>6, <3>1, <3>3 DEF PlaceOnEventList
      <4> QED
        BY <1>4, <2>1, <2>4, <4>1
    <3> QED
      BY <3>2, <3>3
  <2> QED
    BY <1>7, <2>5, <2>6 DEF Check
<1>8. ASSUME NEW t \in Task, NEW m \in Mutex, Give(t, m)
      PROVE  waiting'[v] # <<>> => There(v)' <= Cardinality(Returning(v)')
  <2>1. /\ call[t] = NoCall /\ queue' = queue /\ holder' = [holder EXCEPT ![m] = NONE]
        /\ Wakes(m, t) /\ m \in Object /\ call[t].for = NONE /\ call[t].at = "none" /\ holder[m] = t
    BY <1>8, NoCallFields DEF Give, Signal, Wakes, Object
  <2>2. CASE v = m
    <3>1. There(v)' <= There(v) + 1
      <4>1. There(v)' \in {0, 1}
        BY <2>2, ThereNext
      <4> QED
        BY <1>2, <4>1
    <3> QED
      BY <2>1, <2>2, <3>1, WakeMore, Names
  <2>3. CASE v # m
    <3>1. There(v)' = There(v)
      BY <1>1, <2>1, <2>3, ThereFacts, ThereNext DEF Object
    <3>2. Returning(v)' = Returning(v) \ {t} /\ waiting'[v] = waiting[v]
      BY <2>1, <2>3, WakesReturning
    <3>3. t \notin Returning(v)
      BY <2>1 DEF Returning
    <3> QED
      BY <3>1, <3>2, <3>3, <1>0
  <2> QED
    BY <2>2, <2>3
<1>9. ASSUME NEW t \in Task, NEW n \in Ticks, Delay(t, n)
      PROVE  waiting'[v] # <<>> => There(v)' <= Cardinality(Returning(v)')
  <2>1. /\ call[t].at = "none" /\ UNCHANGED <<queue, holder, waiting>>
        /\ \A u \in Task \ {t} : call'[u] = call[u]
    BY <1>1, <1>9, NoCallFields DEF Delay
  <2>2. Returning(v) \subseteq Returning(v)'
    BY <2>1 DEF Returning
  <2> QED
    BY <1>4, <2>1, <2>2
<1>10. CASE Tick
  <2>1. UNCHANGED <<queue, holder>>
    BY <1>10 DEF Tick
  <2>2. waiting'[v] # <<>> => waiting[v] # <<>>
    <3>1. PICK list \in Seq(Task) : list = waiting[v] /\ IsInjective(list)
      BY <1>1 DEF TypeInv, ListInv
    <3>2. \A w \in Object : waiting'[w] = Kept(waiting[w], Due)
      BY <1>10, TickFacts
    <3>3. list = <<>> => Range(list) \cap Due = {}
      BY DEF Range
    <3>4. Range(list) \cap Due = {} => Kept(list, Due) = list
      BY <3>1, KeptFacts
    <3> QED
      BY <3>1, <3>2, <3>3, <3>4
  <2>3. Returning(v) \subseteq Returning(v)'
    BY <1>10, TickFacts DEF Returning, Due
  <2> QED
    BY <1>4, <2>1, <2>2, <2>3
<1>11. CASE UNCHANGED vars
  BY <1>4, <1>11 DEF vars, Returning
<1>12. ASSUME NEW t \in Task, TaskStep(t)
       PROVE  waiting'[v] # <<>> => There(v)' <= Cardinality(Returning(v)')
  <2>1. ASSUME NEW w \in Object, NEW n \in Ticks, Comes(t, w),
               Fail(t, w, [for |-> w, left |-> n, at |-> "check"])
        PROVE  waiting'[v] # <<>> => There(v)' <= Cardinality(Returning(v)')
    <3>1. PICK c : c = [for |-> w, left |-> n, at |-> "check"]
      OBVIOUS
    <3>2. c.for = w
      BY <3>1
    <3> QED
      BY <1>6, <2>1, <3>1, <3>2
  <2>2. ASSUME Comes(t, call[t].for), call[t].for \in Object, Fail(t, call[t].for, NoCall)
        PROVE  waiting'[v] # <<>> => There(v)' <= Cardinality(Returning(v)')
    BY <1>6, <2>2
  <2>3. ASSUME Comes(t, call[t].for), call[t].for \in Object, call[t].at = "retry",
               Fail(t, call[t].for, [call[t] EXCEPT !.at = "check"])
        PROVE  waiting'[v] # <<>> => There(v)' <= Cardinality(Returning(v)')
    <3>1. PICK c \in Calls : c = call[t] /\ c.at # "none"
      BY <1>1, <2>3
    <3>2. PICK d : d = [c EXCEPT !.at = "check"]
      OBVIOUS
    <3>3. d.for = c.for
      BY <3>1, <3>2, CallMoves
    <3> QED
      BY <1>6, <2>3, <3>1, <3>2, <3>3
  <2> QED
    BY <1>3, <1>7, <1>8, <1>9, <1>12, <2>1, <2>2, <2>3, TaskCases
<1> QED
  BY <1>10, <1>11, <1>12 DEF Next

\* Nobody sleeps for what is there, unless a task that is awake has come for it:
\* the second look with the scheduler suspended is enough, whatever comes between
\* the two sections of a call and however many calls time out.
THEOREM WakeupsArrive == Spec => []NoLostWakeup
<1>1. Init => WakeInv
  BY DEF Init, WakeInv
<1>2. TypeInv /\ WakeInv => NoLostWakeup
  <2> SUFFICES ASSUME TypeInv, WakeInv, NEW w \in Object, waiting[w] # <<>>
               PROVE  There(w) <= Cardinality({t \in Task : call[t].for = w /\ call[t].at \in {"retry", "last", "check"}})
    BY DEF NoLostWakeup, There
  <2>1. PICK awake : awake = {t \in Task : call[t].for = w /\ call[t].at \in {"retry", "last", "check"}}
    OBVIOUS
  <2>2. awake \in SUBSET Task /\ Returning(w) \in SUBSET awake
    BY <2>1 DEF Returning
  <2>3. IsFiniteSet(awake) /\ Cardinality(awake) \in Nat
    BY <2>2, KernelAssumption, FS_Subset, FS_CardinalityType
  <2>4. Cardinality(Returning(w)) <= Cardinality(awake)
    BY <2>2, <2>3, FS_Subset
  <2> QED
    BY <2>1, <2>3, <2>4, ThereType, ReturningSize DEF WakeInv
<1> QED
  BY <1>1, <1>2, InitType, TypeStep, WakeStep, PTL DEF Spec


-----------------------------------------------------------------------------
(* How mutexes nest *)

\* A task has at most one mutex besides LOG, and waits for LOG alone while it has
\* one; it waits for mutexes without a timeout.
CallOf(t) ==
  /\ call[t].for \in Mutex => call[t].left = FOREVER /\ call[t].for \in Uses[t] \ Held(t)
  /\ call[t].for \notin {NONE, LOG} => Held(t) = {}
HoldsOf(t) == Held(t) \subseteq Uses[t] /\ \A m, n \in Held(t) \ {LOG} : m = n

NestInv == \A t \in Task : CallOf(t) /\ HoldsOf(t)

\* What a step keeps of a call: it ends, or goes on for the same object.
GoesOn(t) == call'[t] = NoCall \/ (call'[t].for = call[t].for /\ call'[t].left = call[t].left)

LEMMA CallOfKept ==
  ASSUME NEW t \in Task, CallOf(t), GoesOn(t), Held(t)' = Held(t)
  PROVE  CallOf(t)'
  BY NoCallFields, Names DEF CallOf, GoesOn, Object

LEMMA WakesGoesOn ==
  ASSUME TypeInv, NEW w \in Object, NEW t \in Task, call[t].at # "blocked", Wakes(w, t)
  PROVE  \A u \in Task : GoesOn(u)
<1>1. call'[t] = NoCall
  BY WakesFacts
<1>2. CASE waiting[w] = <<>>
  <2>1. \A u \in Task \ {t} : call'[u] = call[u]
    BY <1>2, WakesFacts
  <2> QED
    BY <1>1, <2>1 DEF GoesOn
<1>3. CASE waiting[w] # <<>>
  <2>0. waiting[w][1] \in Sleeping(w) \ {t}
    BY <1>3, WakesFacts
  <2>1. PICK u \in Task : u = waiting[w][1] /\ call[u].at = "blocked"
    BY <2>0 DEF Sleeping
  <2>2. call'[u] = [call[u] EXCEPT !.at = "retry"] /\ call[u] \in Calls
        /\ \A x \in Task \ {t, u} : call'[x] = call[x]
    BY <1>3, <2>1, WakesFacts DEF TypeInv, Variables
  <2>3. call'[u].for = call[u].for /\ call'[u].left = call[u].left
    <3>1. PICK c \in Calls : c = call[u] /\ c.at # "none"
      BY <2>1, <2>2
    <3>2. [c EXCEPT !.at = "retry"].for = c.for /\ [c EXCEPT !.at = "retry"].left = c.left
      BY <3>1, CallMoves
    <3> QED
      BY <2>2, <3>1, <3>2
  <2> QED
    BY <1>1, <2>2, <2>3 DEF GoesOn
<1> QED
  BY <1>2, <1>3

LEMMA NestStep == TypeInv /\ NestInv /\ [Next]_vars => NestInv'
<1> SUFFICES ASSUME TypeInv, NestInv, [Next]_vars PROVE NestInv'
  OBVIOUS
<1>1. /\ holder \in [Mutex -> Task \cup {NONE}] /\ call \in [Task -> Calls]
      /\ \A t \in Task : CallOf(t) /\ HoldsOf(t)
  BY DEF TypeInv, Variables, NestInv
<1>2. ASSUME holder' = holder, \A u \in Task : GoesOn(u) PROVE NestInv'
  <2>1. \A u \in Task : Held(u)' = Held(u)
    BY <1>2 DEF Held
  <2> QED
    BY <1>1, <1>2, <2>1, CallOfKept DEF NestInv, HoldsOf
<1>3. ASSUME NEW t \in Task, NEW w \in Object, Comes(t, w), Succeed(t, w) PROVE NestInv'
  <2>1. call[t].at # "blocked"
    BY <1>3 DEF Comes
  <2>2. CASE w = "send"
    <3>1. holder' = holder /\ Signal("receive", t, FALSE)
      BY <1>3, <2>2, SucceedFacts
    <3>2. Wakes("receive", t)
      BY <3>1 DEF Signal, Wakes
    <3> QED
      BY <1>2, <2>1, <3>1, <3>2, WakesGoesOn DEF Object
  <2>3. CASE w = "receive"
    <3>1. holder' = holder /\ Signal("send", t, FALSE)
      BY <1>3, <2>3, SucceedFacts
    <3>2. Wakes("send", t)
      BY <3>1 DEF Signal, Wakes
    <3> QED
      BY <1>2, <2>1, <3>1, <3>2, WakesGoesOn DEF Object
  <2>4. CASE w \in Mutex
    <3>1. holder' = [holder EXCEPT ![w] = t] /\ call' = [call EXCEPT ![t] = NoCall] /\ holder[w] = NONE
      BY <1>3, <2>4, SucceedFacts, AvailableFacts
    <3>2. Held(t)' = Held(t) \cup {w} /\ \A u \in Task \ {t} : Held(u)' = Held(u)
      BY <1>1, <2>4, <3>1, KernelAssumption DEF Held
    <3>3. call'[t] = NoCall /\ \A u \in Task \ {t} : call'[u] = call[u]
      BY <1>1, <3>1
    <3>4. w \in Uses[t] /\ (w # LOG => Held(t) = {})
      BY <1>1, <1>3, <2>4, Names DEF Comes, CallOf
    <3>5. CallOf(t)' /\ HoldsOf(t)'
      BY <1>1, <3>2, <3>3, <3>4, NoCallFields, Names DEF CallOf, HoldsOf, Object
    <3>6. ASSUME NEW u \in Task \ {t} PROVE CallOf(u)' /\ HoldsOf(u)'
      <4>1. Held(u)' = Held(u) /\ call'[u] = call[u]
        BY <3>2, <3>3
      <4> QED
        BY <1>1, <4>1, CallOfKept DEF GoesOn, HoldsOf
    <3> QED
      BY <3>5, <3>6 DEF NestInv
  <2> QED
    BY <1>3, <2>2, <2>3, <2>4, SucceedFacts
<1>4. ASSUME NEW t \in Task, NEW c, Fail(t, call[t].for, c),
             (c.for = call[t].for /\ c.left = call[t].left) \/ c = NoCall
      PROVE  NestInv'
  <2>1. holder' = holder /\ call'[t] = c /\ \A u \in Task \ {t} : call'[u] = call[u]
    BY <1>1, <1>4 DEF Fail
  <2> QED
    BY <1>2, <1>4, <2>1 DEF GoesOn
<1>5. ASSUME NEW t \in Task, NEW w \in Object, NEW n \in Ticks, Comes(t, w), call[t] = NoCall,
             w \in Mutex => n = FOREVER,
             Fail(t, w, [for |-> w, left |-> n, at |-> "check"])
      PROVE  NestInv'
  <2>1. PICK c : c = [for |-> w, left |-> n, at |-> "check"]
    OBVIOUS
  <2>2. c.for = w /\ c.left = n
    BY <2>1
  <2>3. holder' = holder /\ call'[t] = c /\ \A u \in Task \ {t} : call'[u] = call[u]
    BY <1>1, <1>5, <2>1 DEF Fail
  <2>4. \A u \in Task : Held(u)' = Held(u)
    BY <2>3 DEF Held
  <2>5. w \in Uses[t] /\ IF w = LOG THEN LOG \notin Held(t) ELSE Held(t) = {}
    BY <1>5, NoCallFields DEF Comes
  <2>6. CallOf(t)'
    BY <1>5, <2>2, <2>3, <2>4, <2>5 DEF CallOf
  <2>7. ASSUME NEW u \in Task \ {t} PROVE CallOf(u)'
    BY <1>1, <2>3, <2>4, CallOfKept DEF GoesOn
  <2> QED
    BY <1>1, <2>4, <2>6, <2>7 DEF NestInv, HoldsOf
<1>6. ASSUME NEW t \in Task, call[t].at # "none", NEW a \in {"retry", "last", "check", "blocked"}
      PROVE  [call[t] EXCEPT !.at = a].for = call[t].for /\ [call[t] EXCEPT !.at = a].left = call[t].left
  <2>1. PICK c \in Calls : c = call[t] /\ c.at # "none"
    BY <1>1, <1>6
  <2>2. [c EXCEPT !.at = a].for = c.for /\ [c EXCEPT !.at = a].left = c.left
    BY <2>1, CallFields DEF Calls, NoCall
  <2> QED
    BY <2>1, <2>2
<1>7. ASSUME NEW t \in Task, Check(t) PROVE NestInv'
  <2>1. call[t].at = "check" /\ holder' = holder /\ \A u \in Task \ {t} : call'[u] = call[u]
    BY <1>1, <1>7 DEF Check, PlaceOnEventList
  <2>2. \/ call'[t] = NoCall
        \/ call'[t] = [call[t] EXCEPT !.at = "last"]
        \/ call'[t] = [call[t] EXCEPT !.at = "retry"]
        \/ call'[t] = [call[t] EXCEPT !.at = "blocked"]
    BY <1>1, <1>7 DEF Check, PlaceOnEventList
  <2>3. GoesOn(t)
    BY <1>6, <2>1, <2>2 DEF GoesOn
  <2> QED
    BY <1>2, <2>1, <2>3 DEF GoesOn
<1>8. ASSUME NEW t \in Task, NEW m \in Mutex, Give(t, m) PROVE NestInv'
  <2>1. /\ call[t] = NoCall /\ holder' = [holder EXCEPT ![m] = NONE] /\ Wakes(m, t) /\ m \in Object
        /\ holder[m] = t /\ call[t].at # "blocked"
    BY <1>8, NoCallFields DEF Give, Signal, Wakes, Object
  <2>2. Held(t)' = Held(t) \ {m} /\ \A u \in Task \ {t} : Held(u)' = Held(u)
    BY <1>1, <2>1, KernelAssumption DEF Held
  <2>3. call'[t] = NoCall /\ \A u \in Task : GoesOn(u)
    BY <2>1, WakesFacts, WakesGoesOn
  <2>4. CallOf(t)' /\ HoldsOf(t)'
    BY <1>1, <2>2, <2>3, NoCallFields, Names DEF CallOf, HoldsOf, Object
  <2>5. ASSUME NEW u \in Task \ {t} PROVE CallOf(u)' /\ HoldsOf(u)'
    <3>1. Held(u)' = Held(u)
      BY <2>2
    <3> QED
      BY <1>1, <2>3, <3>1, CallOfKept DEF HoldsOf
  <2> QED
    BY <2>4, <2>5 DEF NestInv
<1>9. ASSUME NEW t \in Task, NEW n \in Ticks, Delay(t, n) PROVE NestInv'
  <2>1. /\ Held(t) = {} /\ holder' = holder /\ call'[t].for = "delay"
        /\ \A u \in Task \ {t} : call'[u] = call[u]
    BY <1>1, <1>9 DEF Delay
  <2>2. \A u \in Task : Held(u)' = Held(u)
    BY <2>1 DEF Held
  <2>3. CallOf(t)'
    BY <2>1, <2>2, Names DEF CallOf, Object
  <2>4. ASSUME NEW u \in Task \ {t} PROVE CallOf(u)'
    BY <1>1, <2>1, <2>2, CallOfKept DEF GoesOn
  <2> QED
    BY <1>1, <2>2, <2>3, <2>4 DEF NestInv, HoldsOf
<1>10. CASE Tick
  <2>1. holder' = holder
    BY <1>10 DEF Tick
  <2>2. \A u \in Task : Held(u)' = Held(u)
    BY <2>1 DEF Held
  <2>3. ASSUME NEW t \in Task PROVE CallOf(t)'
    <3>1. CASE t \in Due
      <4>1. IF call[t].for = "delay" THEN call'[t] = NoCall ELSE call'[t].for = call[t].for
        BY <1>10, <3>1, TickFacts
      <4>2. call[t].for \notin Mutex
        BY <1>1, <3>1, KernelAssumption DEF Due, CallOf
      <4> QED
        BY <1>1, <2>2, <4>1, <4>2, NoCallFields, Names DEF CallOf, Object
    <3>2. CASE t \notin Due
      <4>1. call'[t].for = call[t].for /\ (call[t].left = FOREVER => call'[t].left = FOREVER)
        BY <1>10, <3>2, TickFacts
      <4> QED
        BY <1>1, <2>2, <4>1 DEF CallOf
    <3> QED
      BY <3>1, <3>2
  <2> QED
    BY <1>1, <2>2, <2>3 DEF NestInv, HoldsOf
<1>11. CASE UNCHANGED vars
  BY <1>2, <1>11 DEF vars, GoesOn
<1>12. ASSUME NEW t \in Task, TaskStep(t) PROVE NestInv'
  <2>1. ASSUME Fail(t, call[t].for, [call[t] EXCEPT !.at = "check"]), call[t].at = "retry" PROVE NestInv'
    BY <1>4, <1>6, <2>1
  <2>2. ASSUME Fail(t, call[t].for, NoCall) PROVE NestInv'
    BY <1>4, <2>2
  <2> QED
    BY <1>3, <1>5, <1>7, <1>8, <1>9, <1>12, <2>1, <2>2, TaskCases
<1> QED
  BY <1>10, <1>11, <1>12 DEF Next


-----------------------------------------------------------------------------
(* Where priorities come from *)

\* A priority above a task's own is inherited, through a mutex it still has, and
\* in the end from a task that uses mutexes.
BoostOf(t) ==
  /\ prio[t] >= Priority[t]
  /\ Held(t) = {} => prio[t] = Priority[t]
  /\ prio[t] > Priority[t] => \E v \in Task : MutexUser(v) /\ prio[t] <= Priority[v]

BoostInv == \A t \in Task : BoostOf(t)

\* Who waits for a mutex is not its holder, and the holder inherits.
LEMMA InheritFacts ==
  ASSUME TypeInv, NestInv, BoostInv, NEW t \in Task, NEW m \in Mutex, call[t].for = m,
         ~Available(m), Inherit(t, m)
  PROVE  /\ holder[m] \in Task \ {t} /\ m \in Held(holder[m]) /\ MutexUser(t)
         /\ prio'[holder[m]] = IF prio[holder[m]] < prio[t] THEN prio[t] ELSE prio[holder[m]]
         /\ \A u \in Task \ {holder[m]} : prio'[u] = prio[u]
         /\ \A u \in Task : prio'[u] >= prio[u]
<1>1. holder[m] \in Task /\ prio \in [Task -> Nat] /\ call \in [Task -> Calls]
  BY AvailableFacts DEF TypeInv, Variables
<1>2. m \in Uses[t] \ Held(t) /\ m \in Held(holder[m])
  BY <1>1 DEF NestInv, CallOf, Held
<1>3. holder[m] # t
  BY <1>1, <1>2
<1>4. prio' = [prio EXCEPT ![holder[m]] = IF @ < prio[t] THEN prio[t] ELSE @]
  BY DEF Inherit
<1> QED
  BY <1>1, <1>2, <1>3, <1>4 DEF MutexUser

LEMMA BoostStep == TypeInv /\ TypeInv' /\ NestInv /\ BoostInv /\ [Next]_vars => BoostInv'
<1> SUFFICES ASSUME TypeInv, TypeInv', NestInv, BoostInv, [Next]_vars PROVE BoostInv'
  OBVIOUS
<1>1. /\ holder \in [Mutex -> Task \cup {NONE}] /\ call \in [Task -> Calls]
      /\ prio \in [Task -> Nat] /\ prio' \in [Task -> Nat]
      /\ \A t \in Task : BoostOf(t)
      /\ \A t \in Task : Priority[t] \in Nat
  BY KernelAssumption DEF TypeInv, Variables, BoostInv
<1>2. ASSUME prio' = prio, \A u \in Task : Held(u)' = {} => Held(u) = {} PROVE BoostInv'
  BY <1>1, <1>2 DEF BoostInv, BoostOf
<1>3. ASSUME prio' = prio, holder' = holder PROVE BoostInv'
  BY <1>2, <1>3 DEF Held
<1>4. ASSUME NEW t \in Task, NEW w \in Object, Succeed(t, w) PROVE BoostInv'
  <2>1. prio' = prio
    BY <1>4, SucceedFacts
  <2>2. CASE w \in {"send", "receive"}
    <3>1. holder' = holder
      BY <1>4, <2>2, SucceedFacts
    <3> QED
      BY <1>3, <2>1, <3>1
  <2>3. CASE w \in Mutex
    <3>1. holder' = [holder EXCEPT ![w] = t] /\ holder[w] = NONE
      BY <1>4, <2>3, SucceedFacts, AvailableFacts
    <3>2. \A u \in Task : Held(u) \subseteq Held(u)'
      BY <1>1, <2>3, <3>1, KernelAssumption DEF Held
    <3> QED
      BY <1>2, <2>1, <3>2
  <2> QED
    BY <1>4, <2>2, <2>3, SucceedFacts
<1>5. ASSUME NEW t \in Task, NEW w, NEW c, Fail(t, w, c) PROVE BoostInv'
  BY <1>3, <1>5 DEF Fail
<1>6. ASSUME NEW t \in Task, Check(t) PROVE BoostInv'
  <2>1. holder' = holder /\ \A u \in Task : Held(u)' = Held(u)
    BY <1>6 DEF Check, Held
  <2>2. CASE prio' = prio
    BY <1>3, <2>1, <2>2
  <2>3. CASE call[t].for \in Mutex /\ ~Available(call[t].for) /\ Inherit(t, call[t].for)
    <3>1. PICK m \in Mutex : m = call[t].for
      BY <2>3
    <3>2. PICK x \in Task : x = holder[m] /\ x # t /\ m \in Held(x) /\ MutexUser(t)
      BY <2>3, <3>1, InheritFacts
    <3>3. /\ prio'[x] = IF prio[x] < prio[t] THEN prio[t] ELSE prio[x]
          /\ \A u \in Task \ {x} : prio'[u] = prio[u]
      BY <2>3, <3>1, <3>2, InheritFacts
    <3>4. \A u \in Task \ {x} : BoostOf(u)'
      BY <1>1, <2>1, <3>3 DEF BoostOf
    <3>5. ASSUME prio[x] < prio[t] PROVE \E v \in Task : MutexUser(v) /\ prio[t] <= Priority[v]
      <4>1. CASE prio[t] = Priority[t]
        BY <1>1, <3>2, <4>1
      <4>2. CASE prio[t] > Priority[t]
        BY <1>1, <4>2 DEF BoostOf
      <4> QED
        BY <1>1, <4>1, <4>2 DEF BoostOf
    <3>6. BoostOf(x)'
      <4>1. Held(x)' # {}
        BY <2>1, <3>2
      <4>2. prio'[x] >= Priority[x]
        BY <1>1, <3>3 DEF BoostOf
      <4>3. ASSUME prio'[x] > Priority[x] PROVE \E v \in Task : MutexUser(v) /\ prio'[x] <= Priority[v]
        <5>1. CASE prio[x] < prio[t]
          BY <3>3, <3>5, <5>1
        <5>2. CASE ~(prio[x] < prio[t])
          BY <1>1, <3>3, <4>3, <5>2 DEF BoostOf
        <5> QED
          BY <5>1, <5>2
      <4> QED
        BY <4>1, <4>2, <4>3 DEF BoostOf, MutexUser
    <3> QED
      BY <3>4, <3>6 DEF BoostInv
  <2> QED
    BY <1>6, <2>2, <2>3 DEF Check
<1>7. ASSUME NEW t \in Task, NEW m \in Mutex, Give(t, m) PROVE BoostInv'
  <2>1. /\ holder' = [holder EXCEPT ![m] = NONE] /\ holder[m] = t
        /\ prio' = [prio EXCEPT ![t] = IF Held(t) = {m} THEN Priority[t] ELSE @]
    BY <1>7 DEF Give, Disinherit
  <2>2. Held(t)' = Held(t) \ {m} /\ m \in Held(t) /\ \A u \in Task \ {t} : Held(u)' = Held(u)
    BY <1>1, <2>1, KernelAssumption DEF Held
  <2>3. \A u \in Task \ {t} : BoostOf(u)'
    BY <1>1, <2>1, <2>2 DEF BoostOf
  <2>4. BoostOf(t)'
    <3>1. CASE Held(t) = {m}
      BY <1>1, <2>1, <2>2, <3>1 DEF BoostOf
    <3>2. CASE Held(t) # {m}
      BY <1>1, <2>1, <2>2, <3>2 DEF BoostOf
    <3> QED
      BY <3>1, <3>2
  <2> QED
    BY <2>3, <2>4 DEF BoostInv
<1>8. ASSUME NEW t \in Task, NEW n \in Ticks, Delay(t, n) PROVE BoostInv'
  BY <1>3, <1>8 DEF Delay
<1>9. CASE Tick
  BY <1>3, <1>9 DEF Tick
<1>10. CASE UNCHANGED vars
  BY <1>3, <1>10 DEF vars
<1>11. ASSUME NEW t \in Task, TaskStep(t) PROVE BoostInv'
  BY <1>4, <1>5, <1>6, <1>7, <1>8, <1>11, TaskCases
<1> QED
  BY <1>9, <1>10, <1>11 DEF Next


LEMMA InitNest == Init => NestInv
<1> SUFFICES ASSUME Init PROVE NestInv
  OBVIOUS
<1>1. \A t \in Task : Held(t) = {} /\ call[t] = NoCall
  BY KernelAssumption DEF Init, Held
<1> QED
  BY <1>1, NoCallFields, Names DEF NestInv, CallOf, HoldsOf, Object

LEMMA InitBoost == Init => BoostInv
<1> SUFFICES ASSUME Init PROVE BoostInv
  OBVIOUS
<1>1. \A t \in Task : prio[t] = Priority[t] /\ Priority[t] \in Nat
  BY KernelAssumption DEF Init
<1> QED
  BY <1>1 DEF BoostInv, BoostOf

-----------------------------------------------------------------------------
(* The highest task runs, and holders inherit *)

Awake(t) == call[t].at # "blocked"

\* Event lists are sorted by the priorities their tasks have had.
Sorted == \A m \in Mutex : InOrder(waiting[m], prio)

\* A mutex that somebody sleeps for is held at his priority or about to be taken
\* at his priority.
Boosted ==
  \A m \in Mutex : \A v \in Sleeping(m) :
    IF holder[m] # NONE THEN prio[holder[m]] >= Priority[v]
    ELSE \E u \in Task : call[u].for = m /\ Awake(u) /\ prio[u] >= Priority[v]

\* A task that has inherited through its only mutex has inherited from the first
\* of its list, unless it had LOG as well.
HeadOf(t, m) ==
  Held(t) = {m} /\ (m = LOG \/ LOG \notin Uses[t]) /\ prio[t] > Priority[t]
    => waiting[m] # <<>> /\ prio[waiting[m][1]] >= prio[t]
HeadInv == \A t \in Task, m \in Mutex : HeadOf(t, m)

RunInv == Sorted /\ Boosted /\ HeadInv /\ HighestRuns

LEMMA TopRuns ==
  ASSUME TypeInv, HighestRuns, NEW t \in Task, running = t
  PROVE  Awake(t) /\ \A u \in Task : Awake(u) => prio[u] <= prio[t]
  BY KernelAssumption DEF HighestRuns, Selected, Awake

LEMMA StaysTop ==
  ASSUME TypeInv, NEW t \in Task, running' = t, Awake(t)',
         \A u \in Task : Awake(u)' => prio'[u] <= prio'[t]
  PROVE  HighestRuns'
  BY DEF HighestRuns, Selected, Awake

\* Nothing but who is awake and the priorities matters to the selection.
LEMMA SameRuns ==
  ASSUME HighestRuns, prio' = prio, running' = running,
         \A u \in Task : Awake(u)' <=> Awake(u)
  PROVE  HighestRuns'
<1>1. {t \in Task : call'[t].at # "blocked"} = {t \in Task : call[t].at # "blocked"}
  BY DEF Awake
<1> QED
  BY <1>1 DEF HighestRuns, Selected


\* What a step means to the mutexes: nothing, or one is taken, slept for, or given.
Quiet ==
  /\ prio' = prio /\ holder' = holder
  /\ \A m \in Mutex :
       /\ waiting'[m] = waiting[m]
       /\ holder[m] = NONE =>
            \A u \in Task : call[u].for = m /\ Awake(u) => call'[u].for = m /\ Awake(u)'
Takes(t, m) ==
  /\ Comes(t, m) /\ holder[m] = NONE
  /\ holder' = [holder EXCEPT ![m] = t] /\ call' = [call EXCEPT ![t] = NoCall]
  /\ UNCHANGED <<waiting, prio>>
Blocks(t, m) ==
  /\ call[t].for = m /\ call[t].at = "check" /\ ~Available(m)
  /\ holder' = holder /\ Inherit(t, m) /\ PlaceOnEventList(t, m)

LEMMA MutexCases ==
  ASSUME TypeInv, NestInv, [Next]_vars
  PROVE  Quiet \/ \E t \in Task, m \in Mutex : Takes(t, m) \/ Blocks(t, m) \/ Give(t, m)
<1>1. /\ holder \in [Mutex -> Task \cup {NONE}] /\ call \in [Task -> Calls]
      /\ waiting \in [Object -> Seq(Task)] /\ Mutex \subseteq Object
      /\ \A u \in Task : CallOf(u)
  BY DEF TypeInv, Variables, NestInv, Object
<1>2. ASSUME NEW t \in Task, prio' = prio, holder' = holder,
             \A m \in Mutex : waiting'[m] = waiting[m],
             \A m \in Mutex : holder[m] = NONE => call[t].for # m \/ (call'[t].for = m /\ Awake(t)'),
             \A u \in Task \ {t} : call'[u] = call[u]
      PROVE  Quiet
  BY <1>2 DEF Quiet, Awake
<1>3. ASSUME NEW t \in Task, NEW w \in {"send", "receive"}, call[t].at # "blocked", Wakes(w, t),
             call[t].for \notin Mutex, prio' = prio, holder' = holder
      PROVE  Quiet
  <2>1. \A u \in Task : GoesOn(u)
    BY <1>3, WakesGoesOn DEF Object
  <2>2. \A m \in Mutex : waiting'[m] = waiting[m]
    BY <1>1, <1>3, Names DEF Wakes
  <2>3. ASSUME NEW m \in Mutex, NEW u \in Task, call[u].for = m, Awake(u)
        PROVE  call'[u].for = m /\ Awake(u)'
    <3>1. w \in Object /\ w # m /\ u # t
      BY <1>3, <2>3, Names DEF Object
    <3>2. call'[u] = call[u]
      <4>1. CASE waiting[w] = <<>>
        <5>1. \A x \in Task \ {t} : call'[x] = call[x]
          BY <1>3, <3>1, <4>1, WakesFacts
        <5> QED
          BY <3>1, <5>1
      <4>2. CASE waiting[w] # <<>>
        <5>1. waiting[w][1] # u
          BY <1>3, <2>3, <3>1, <4>2, WakesFacts DEF Sleeping
        <5>2. \A x \in Task \ {t, waiting[w][1]} : call'[x] = call[x]
          BY <1>3, <3>1, <4>2, WakesFacts
        <5> QED
          BY <3>1, <5>1, <5>2
      <4> QED
        BY <4>1, <4>2
    <3> QED
      BY <2>3, <3>2 DEF Awake
  <2> QED
    BY <1>3, <2>2, <2>3 DEF Quiet
<1>4. ASSUME NEW t \in Task, NEW w \in Object, Comes(t, w), Succeed(t, w)
      PROVE  Quiet \/ \E m \in Mutex : Takes(t, m)
  <2>1. w \notin Mutex => call[t].for \notin Mutex
    BY <1>4, NoCallFields, Names DEF Comes, Object
  <2>2. CASE w = "send"
    <3>1. holder' = holder /\ Signal("receive", t, FALSE) /\ prio' = prio /\ Wakes("receive", t)
      BY <1>4, <2>2, SucceedFacts DEF Signal, Wakes
    <3> QED
      BY <1>3, <1>4, <2>1, <2>2, <3>1, Names DEF Comes
  <2>3. CASE w = "receive"
    <3>1. holder' = holder /\ Signal("send", t, FALSE) /\ prio' = prio /\ Wakes("send", t)
      BY <1>4, <2>3, SucceedFacts DEF Signal, Wakes
    <3> QED
      BY <1>3, <1>4, <2>1, <2>3, <3>1, Names DEF Comes
  <2>4. CASE w \in Mutex
    BY <1>4, <2>4, SucceedFacts, AvailableFacts DEF Takes
  <2> QED
    BY <1>4, <2>2, <2>3, <2>4, SucceedFacts
<1>5. ASSUME NEW t \in Task, NEW w \in Object, NEW c, Fail(t, w, c),
             call[t].for \in {NONE, w}
      PROVE  Quiet
  <2>1. /\ prio' = prio /\ holder' = holder /\ waiting' = waiting
        /\ \A u \in Task \ {t} : call'[u] = call[u]
    BY <1>1, <1>5 DEF Fail
  <2>2. w \in Mutex => holder[w] # NONE
    BY <1>5, AvailableFacts DEF Fail
  <2> QED
    BY <1>2, <1>5, <2>1, <2>2, KernelAssumption
<1>6. ASSUME NEW t \in Task, Check(t) PROVE Quiet \/ \E m \in Mutex : Blocks(t, m)
  <2>1. /\ call[t].at = "check" /\ call[t].for \in Object /\ holder' = holder
        /\ call[t].for \in Mutex => call[t].left = FOREVER /\ call[t].left # 0
    BY <1>1, <1>6, KernelAssumption DEF Check, TypeInv, AwakeInv, CallOf
  <2>2. PICK w \in Object : w = call[t].for
    BY <2>1
  <2>3. CASE w \in Mutex
    <3>1. CASE Available(w)
      <4>1. call' = [call EXCEPT ![t].at = "retry"] /\ UNCHANGED <<waiting, prio, running>>
        BY <1>6, <2>1, <2>2, <2>3, <3>1 DEF Check
      <4>2. PICK c \in Calls : c = call[t] /\ c.at # "none"
        BY <1>1, <2>1
      <4>3. [c EXCEPT !.at = "retry"].for = c.for /\ [c EXCEPT !.at = "retry"].at = "retry"
        BY <4>2, CallMoves
      <4>4. call'[t].for = w /\ call'[t].at = "retry" /\ \A u \in Task \ {t} : call'[u] = call[u]
        BY <1>1, <2>2, <4>1, <4>2, <4>3
      <4> QED
        BY <1>2, <2>1, <2>2, <4>1, <4>4 DEF Awake
    <3>2. CASE ~Available(w)
      <4>1. Inherit(t, w) /\ PlaceOnEventList(t, w)
        BY <1>6, <2>1, <2>2, <2>3, <3>2 DEF Check
      <4> QED
        BY <2>1, <2>2, <2>3, <3>2, <4>1 DEF Blocks
    <3> QED
      BY <3>1, <3>2
  <2>4. CASE w \notin Mutex
    <3>1. prio' = prio /\ \A m \in Mutex : waiting'[m] = waiting[m]
      BY <1>1, <1>6, <2>2, <2>4 DEF Check, PlaceOnEventList
    <3>2. \A u \in Task \ {t} : call'[u] = call[u]
      BY <1>1, <1>6 DEF Check, PlaceOnEventList
    <3> QED
      BY <1>2, <2>1, <2>2, <2>4, <3>1, <3>2
  <2> QED
    BY <2>3, <2>4
<1>7. ASSUME NEW t \in Task, NEW n \in Ticks, Delay(t, n) PROVE Quiet
  <2>1. /\ call[t].for = NONE /\ prio' = prio /\ holder' = holder /\ waiting' = waiting
        /\ \A u \in Task \ {t} : call'[u] = call[u]
    BY <1>1, <1>7, NoCallFields DEF Delay
  <2> QED
    BY <1>2, <2>1, Names DEF Object
<1>8. CASE Tick
  <2>1. holder' = holder /\ prio' = prio
    BY <1>8 DEF Tick
  <2>2. ASSUME NEW u \in Task, Awake(u)
        PROVE  call'[u].for = call[u].for /\ Awake(u)'
    BY <1>8, <2>2, TickFacts DEF Awake, Due
  <2>3. ASSUME NEW m \in Mutex PROVE waiting'[m] = waiting[m]
    <3>1. PICK list \in Seq(Task) : list = waiting[m] /\ IsInjective(list) /\ Range(list) = Sleeping(m)
      BY <1>1 DEF TypeInv, ListInv
    <3>2. Sleeping(m) \cap Due = {}
      BY <1>1, KernelAssumption DEF Sleeping, Due, CallOf
    <3>3. Kept(list, Due) = list
      BY <3>1, <3>2, KeptFacts
    <3> QED
      BY <1>1, <1>8, <3>1, <3>3, TickFacts
  <2> QED
    BY <2>1, <2>2, <2>3 DEF Quiet
<1>9. CASE UNCHANGED vars
  BY <1>9 DEF vars, Quiet, Awake
<1>10. ASSUME NEW t \in Task, TaskStep(t)
       PROVE  Quiet \/ \E m \in Mutex : Takes(t, m) \/ Blocks(t, m) \/ Give(t, m)
  <2>1. ASSUME NEW w \in Object, NEW c, Comes(t, w), Fail(t, w, c) PROVE Quiet
    <3>1. call[t].for \in {NONE, w}
      BY <2>1, NoCallFields DEF Comes
    <3> QED
      BY <1>5, <2>1, <3>1
  <2> QED
    BY <1>4, <1>6, <1>7, <1>10, <2>1, TaskCases
<1> QED
  BY <1>8, <1>9, <1>10 DEF Next


LEMMA GiveFacts ==
  ASSUME TypeInv, NEW t \in Task, NEW m \in Mutex, Give(t, m)
  PROVE  /\ call[t] = NoCall /\ running = t /\ holder[m] = t /\ (m = LOG \/ LOG \notin Held(t))
         /\ holder'[m] = NONE /\ \A n \in Mutex \ {m} : holder'[n] = holder[n]
         /\ Held(t)' = Held(t) \ {m} /\ m \in Held(t) /\ \A u \in Task \ {t} : Held(u)' = Held(u)
         /\ prio'[t] = (IF Held(t) = {m} THEN Priority[t] ELSE prio[t])
         /\ \A u \in Task \ {t} : prio'[u] = prio[u]
         /\ Wakes(m, t) /\ m \in Object /\ Awake(t)
<1>1. holder \in [Mutex -> Task \cup {NONE}] /\ prio \in [Task -> Nat]
  BY DEF TypeInv, Variables
<1>2. /\ call[t] = NoCall /\ running = t /\ holder[m] = t /\ (m = LOG \/ LOG \notin Held(t))
      /\ holder' = [holder EXCEPT ![m] = NONE]
      /\ prio' = [prio EXCEPT ![t] = IF Held(t) = {m} THEN Priority[t] ELSE @]
      /\ Wakes(m, t) /\ m \in Object
  BY DEF Give, Disinherit, Signal, Wakes, Object
<1>3. /\ holder'[m] = NONE /\ \A n \in Mutex \ {m} : holder'[n] = holder[n]
      /\ Held(t)' = Held(t) \ {m} /\ m \in Held(t) /\ \A u \in Task \ {t} : Held(u)' = Held(u)
  BY <1>1, <1>2, KernelAssumption DEF Held
<1> QED
  BY <1>1, <1>2, <1>3, NoCallFields DEF Awake

\* A task on a list is asleep, and tasks with other calls are not on it.
LEMMA OnList ==
  ASSUME TypeInv, NEW w \in Object
  PROVE  /\ waiting[w] \in Seq(Task)
         /\ \A i \in DOMAIN waiting[w] : waiting[w][i] \in Task /\ waiting[w][i] \in Sleeping(w)
         /\ \A t \in Sleeping(w) : \E i \in DOMAIN waiting[w] : waiting[w][i] = t
         /\ waiting[w] # <<>> => 1 \in DOMAIN waiting[w]
<1>1. waiting[w] \in Seq(Task) /\ Range(waiting[w]) = Sleeping(w)
  BY DEF TypeInv, Variables, ListInv
<1> QED
  BY <1>1 DEF Range

\* Tasks that are on a list keep their place when no priority of theirs falls.
LEMMA StaysInOrder ==
  ASSUME NEW list \in Seq(Task), prio \in [Task -> Nat], prio' \in [Task -> Nat],
         InOrder(list, prio), \A i \in DOMAIN list : prio'[list[i]] >= prio[list[i]]
  PROVE  InOrder(list, prio')
<1>1. \A i \in DOMAIN list : list[i] \in Task /\ Priority[list[i]] \in Nat
  BY KernelAssumption
<1> QED
  BY <1>1 DEF InOrder

LEMMA TailInOrder ==
  ASSUME NEW list \in Seq(Task), list # <<>>, NEW p, InOrder(list, p)
  PROVE  InOrder(Tail(list), p)
<1>1. /\ Len(list) \in Nat /\ Len(Tail(list)) = Len(list) - 1 /\ Tail(list) \in Seq(Task)
      /\ \A i \in 1..Len(list) - 1 : Tail(list)[i] = list[i + 1]
  BY HeadTailProperties
<1>2. DOMAIN Tail(list) = 1..Len(list) - 1 /\ DOMAIN list = 1..Len(list)
  BY <1>1
<1> QED
  BY <1>1, <1>2 DEF InOrder

LEMMA SortedStep ==
  ASSUME TypeInv, TypeInv', NestInv, BoostInv, Sorted, [Next]_vars PROVE Sorted'
<1>1. /\ prio \in [Task -> Nat] /\ prio' \in [Task -> Nat] /\ Mutex \subseteq Object
      /\ waiting \in [Object -> Seq(Task)]
      /\ \A m \in Mutex : InOrder(waiting[m], prio)
  BY DEF TypeInv, Variables, Sorted, Object
<1>2. CASE Quiet
  BY <1>1, <1>2 DEF Quiet, Sorted
<1>3. ASSUME NEW t \in Task, NEW m \in Mutex, Takes(t, m) PROVE Sorted'
  BY <1>1, <1>3 DEF Takes, Sorted
<1>4. ASSUME NEW t \in Task, NEW m \in Mutex, Blocks(t, m) PROVE Sorted'
  <2>1. \A u \in Task : prio'[u] >= prio[u] /\ prio[u] >= Priority[u]
    BY <1>4, InheritFacts DEF Blocks, BoostInv, BoostOf
  <2>2. /\ t \notin Range(waiting[m])
        /\ waiting'[m] = InsertByPriority(waiting[m], t)
        /\ \A v \in Object \ {m} : waiting'[v] = waiting[v]
    BY <1>1, <1>4, SleepsFacts DEF Blocks
  <2>3. PICK list \in Seq(Task) : list = waiting[m] /\ IsInjective(list) /\ InOrder(list, prio)
    BY <1>1 DEF TypeInv, ListInv
  <2>4. PICK new : new = InsertByPriority(list, t)
    OBVIOUS
  <2>5. new \in Seq(Task) /\ InOrder(new, prio)
    BY <1>1, <2>1, <2>2, <2>3, <2>4, InsertionFacts
  <2>6. InOrder(new, prio')
    <3>1. \A i \in DOMAIN new : prio'[new[i]] >= prio[new[i]]
      BY <2>1, <2>5
    <3> QED
      BY <1>1, <2>5, <3>1, StaysInOrder
  <2>7. ASSUME NEW n \in Mutex \ {m} PROVE InOrder(waiting'[n], prio')
    <3>1. PICK other \in Seq(Task) : other = waiting[n] /\ InOrder(other, prio) /\ waiting'[n] = other
      BY <1>1, <2>2
    <3>2. \A i \in DOMAIN other : prio'[other[i]] >= prio[other[i]]
      BY <2>1, <3>1
    <3>3. InOrder(other, prio')
      BY <1>1, <3>1, <3>2, StaysInOrder
    <3> QED
      BY <3>1, <3>3
  <2> QED
    BY <2>2, <2>3, <2>4, <2>6, <2>7 DEF Sorted
<1>5. ASSUME NEW t \in Task, NEW m \in Mutex, Give(t, m) PROVE Sorted'
  <2>1. /\ call[t] = NoCall /\ \A u \in Task \ {t} : prio'[u] = prio[u]
        /\ Wakes(m, t) /\ m \in Object
    BY <1>5, GiveFacts
  <2>2. ASSUME NEW n \in Mutex PROVE InOrder(waiting[n], prio')
    <3>1. PICK list \in Seq(Task) : list = waiting[n] /\ InOrder(list, prio)
                                    /\ \A i \in DOMAIN list : list[i] \in Task \ {t}
      BY <1>1, <2>1, OnList, NoCallFields DEF Sleeping
    <3>2. \A i \in DOMAIN list : prio'[list[i]] >= prio[list[i]]
      BY <1>1, <2>1, <3>1
    <3> QED
      BY <1>1, <3>1, <3>2, StaysInOrder
  <2>3. CASE waiting[m] = <<>>
    BY <2>1, <2>2, <2>3 DEF Wakes, Sorted
  <2>4. CASE waiting[m] # <<>>
    <3>1. waiting'[m] = Tail(waiting[m]) /\ \A n \in Mutex \ {m} : waiting'[n] = waiting[n]
      BY <1>1, <2>1, <2>4 DEF Wakes
    <3>2. PICK p : p = prio'
      OBVIOUS
    <3>3. InOrder(Tail(waiting[m]), p)
      BY <1>1, <2>1, <2>2, <2>4, <3>2, TailInOrder
    <3> QED
      BY <2>2, <3>1, <3>2, <3>3 DEF Sorted
  <2> QED
    BY <2>3, <2>4
<1> QED
  BY <1>2, <1>3, <1>4, <1>5, MutexCases


LEMMA BoostedStep ==
  ASSUME TypeInv, TypeInv', NestInv, BoostInv, RunInv, [Next]_vars PROVE Boosted'
<1>1. /\ holder \in [Mutex -> Task \cup {NONE}] /\ call \in [Task -> Calls]
      /\ prio \in [Task -> Nat] /\ prio' \in [Task -> Nat]
      /\ waiting \in [Object -> Seq(Task)] /\ Mutex \subseteq Object
      /\ \A m \in Mutex : InOrder(waiting[m], prio)
      /\ \A u \in Task : prio[u] >= Priority[u] /\ Priority[u] \in Nat
      /\ NONE \notin Task
  BY KernelAssumption DEF TypeInv, Variables, RunInv, Sorted, Object, BoostInv, BoostOf
<1>2. ASSUME NEW m \in Mutex, NEW v \in Sleeping(m)
      PROVE  /\ v \in Task
             /\ IF holder[m] # NONE THEN prio[holder[m]] >= Priority[v]
                ELSE \E u \in Task : call[u].for = m /\ Awake(u) /\ prio[u] >= Priority[v]
  BY <1>2 DEF RunInv, Boosted, Sleeping
\* Who sleeps after the step and has slept before.
<1>3. ASSUME NEW m \in Mutex, waiting'[m] = waiting[m] PROVE Sleeping(m)' = Sleeping(m)
  <2>1. Range(waiting'[m]) = Sleeping(m)' /\ Range(waiting[m]) = Sleeping(m)
    BY <1>1 DEF TypeInv, ListInv
  <2> QED
    BY <1>3, <2>1
<1>4. CASE Quiet
  <2> SUFFICES ASSUME NEW m \in Mutex, NEW v \in Sleeping(m)
               PROVE  IF holder'[m] # NONE THEN prio'[holder'[m]] >= Priority[v]
                      ELSE \E u \in Task : call'[u].for = m /\ Awake(u)' /\ prio'[u] >= Priority[v]
    BY <1>3, <1>4 DEF Quiet, Boosted
  <2>1. CASE holder[m] # NONE
    BY <1>2, <1>4, <2>1 DEF Quiet
  <2>2. CASE holder[m] = NONE
    <3>1. PICK u \in Task : call[u].for = m /\ Awake(u) /\ prio[u] >= Priority[v]
      BY <1>2, <2>2
    <3> QED
      BY <1>4, <2>2, <3>1 DEF Quiet
  <2> QED
    BY <2>1, <2>2
<1>5. ASSUME NEW t \in Task, NEW m \in Mutex, Takes(t, m) PROVE Boosted'
  <2>1. /\ holder' = [holder EXCEPT ![m] = t] /\ call' = [call EXCEPT ![t] = NoCall]
        /\ waiting' = waiting /\ prio' = prio /\ running = t /\ holder[m] = NONE
        /\ call[t].for \in {NONE, m}
    BY <1>5, NoCallFields DEF Takes, Comes
  <2> SUFFICES ASSUME NEW n \in Mutex, NEW v \in Sleeping(n)
               PROVE  IF holder'[n] # NONE THEN prio[holder'[n]] >= Priority[v]
                      ELSE \E u \in Task : call'[u].for = n /\ Awake(u)' /\ prio[u] >= Priority[v]
    BY <1>3, <2>1 DEF Boosted
  <2>2. CASE n = m
    <3>1. PICK u \in Task : Awake(u) /\ prio[u] >= Priority[v]
      BY <1>2, <2>1, <2>2
    <3>2. prio[t] >= prio[u]
      BY <2>1, <3>1, TopRuns DEF RunInv
    <3> QED
      BY <1>1, <1>2, <2>1, <2>2, <3>1, <3>2
  <2>3. CASE n # m
    <3>1. holder'[n] = holder[n]
      BY <1>1, <2>1, <2>3
    <3>2. CASE holder[n] # NONE
      BY <1>2, <3>1, <3>2
    <3>3. CASE holder[n] = NONE
      <4>1. PICK u \in Task : call[u].for = n /\ Awake(u) /\ prio[u] >= Priority[v]
        BY <1>2, <3>3
      <4>2. u # t
        BY <2>1, <2>3, <4>1, KernelAssumption
      <4>3. call'[u] = call[u]
        BY <1>1, <2>1, <4>2
      <4> QED
        BY <3>1, <3>3, <4>1, <4>3 DEF Awake
    <3> QED
      BY <3>2, <3>3
  <2> QED
    BY <2>2, <2>3
<1>6. ASSUME NEW t \in Task, NEW m \in Mutex, Blocks(t, m) PROVE Boosted'
  <2>1. PICK x \in Task : x = holder[m] /\ x # t
    BY <1>6, InheritFacts DEF Blocks
  <2>2. /\ prio'[x] = (IF prio[x] < prio[t] THEN prio[t] ELSE prio[x])
        /\ \A u \in Task : prio'[u] >= prio[u]
    BY <1>6, <2>1, InheritFacts DEF Blocks
  <2>3. /\ call[t].for = m /\ holder' = holder /\ call'[t].for = m
        /\ \A u \in Task \ {t} : call'[u] = call[u]
        /\ \A v \in Object \ {m} : waiting'[v] = waiting[v]
    BY <1>1, <1>6, SleepsFacts DEF Blocks
  <2> SUFFICES ASSUME NEW n \in Mutex, NEW v \in Sleeping(n)'
               PROVE  IF holder[n] # NONE THEN prio'[holder[n]] >= Priority[v]
                      ELSE \E u \in Task : call'[u].for = n /\ Awake(u)' /\ prio'[u] >= Priority[v]
    BY <2>3 DEF Boosted
  <2>4. CASE n = m
    <3>1. v \in Sleeping(m) \/ v = t
      BY <2>3, <2>4 DEF Sleeping
    <3>2. CASE v = t
      BY <1>1, <2>1, <2>2, <2>4, <3>2
    <3>3. CASE v \in Sleeping(m)
      <4>1. v \in Task /\ prio[x] >= Priority[v]
        BY <1>1, <1>2, <2>1, <3>3
      <4> QED
        BY <1>1, <2>1, <2>2, <2>4, <4>1
    <3> QED
      BY <3>1, <3>2, <3>3
  <2>5. CASE n # m
    <3>1. v \in Sleeping(n)
      BY <1>1, <1>3, <2>3, <2>5
    <3>2. CASE holder[n] # NONE
      <4>1. v \in Task /\ prio[holder[n]] >= Priority[v] /\ holder[n] \in Task
        BY <1>1, <1>2, <3>1, <3>2
      <4> QED
        BY <1>1, <2>2, <3>2, <4>1
    <3>3. CASE holder[n] = NONE
      <4>1. PICK u \in Task : call[u].for = n /\ Awake(u) /\ prio[u] >= Priority[v]
        BY <1>2, <3>1, <3>3
      <4>2. call'[u] = call[u]
        BY <2>3, <2>5, <4>1
      <4>3. prio'[u] >= Priority[v]
        BY <1>1, <1>2, <2>2, <3>1, <4>1
      <4> QED
        BY <3>3, <4>1, <4>2, <4>3 DEF Awake
    <3> QED
      BY <3>2, <3>3
  <2> QED
    BY <2>4, <2>5
<1>7. ASSUME NEW t \in Task, NEW m \in Mutex, Give(t, m) PROVE Boosted'
  <2>1. /\ call[t] = NoCall /\ holder[m] = t
        /\ holder'[m] = NONE /\ \A n \in Mutex \ {m} : holder'[n] = holder[n]
        /\ prio'[t] = (IF Held(t) = {m} THEN Priority[t] ELSE prio[t])
        /\ \A u \in Task \ {t} : prio'[u] = prio[u]
        /\ m \in Held(t) /\ Wakes(m, t) /\ m \in Object /\ call[t].at # "blocked"
    BY <1>7, GiveFacts, NoCallFields
  <2>2. CASE waiting[m] = <<>>
    <3>1. Sleeping(m)' = {}
      <4>1. waiting' = waiting /\ Range(waiting'[m]) = Sleeping(m)'
        BY <2>1, <2>2, WakesFacts DEF TypeInv, ListInv
      <4> QED
        BY <2>2, <4>1 DEF Range
    <3>2. waiting' = waiting /\ \A u \in Task \ {t} : call'[u] = call[u]
      BY <2>1, <2>2, WakesFacts
    <3>3. ASSUME NEW n \in Mutex \ {m}, NEW v \in Sleeping(n)
          PROVE  IF holder'[n] # NONE THEN prio'[holder'[n]] >= Priority[v]
                 ELSE \E u \in Task : call'[u].for = n /\ Awake(u)' /\ prio'[u] >= Priority[v]
      <4>1. CASE holder[n] # NONE
        <5>1. holder[n] = t => Held(t) # {m}
          BY <4>1 DEF Held
        <5> QED
          BY <1>1, <1>2, <2>1, <4>1, <5>1
      <4>2. CASE holder[n] = NONE
        <5>1. PICK u \in Task : call[u].for = n /\ Awake(u) /\ prio[u] >= Priority[v]
          BY <1>2, <4>2
        <5>2. u # t
          BY <2>1, <5>1, NoCallFields, KernelAssumption
        <5> QED
          BY <2>1, <3>2, <4>2, <5>1, <5>2 DEF Awake
      <4> QED
        BY <4>1, <4>2
    <3>4. ASSUME NEW n \in Mutex, NEW v \in Sleeping(n)' PROVE n # m /\ v \in Sleeping(n)
      BY <1>3, <3>1, <3>2, <3>4
    <3> QED
      BY <3>3, <3>4 DEF Boosted
  <2>3. CASE waiting[m] # <<>>
    <3>1. PICK u \in Task : u = waiting[m][1] /\ u # t /\ u \in Sleeping(m)
      <4>1. waiting[m][1] \in Sleeping(m) \ {t}
        BY <2>1, <2>3, WakesFacts
      <4> QED
        BY <4>1 DEF Sleeping
    <3>2. /\ call'[u] = [call[u] EXCEPT !.at = "retry"]
          /\ \A x \in Task \ {t, u} : call'[x] = call[x]
          /\ waiting'[m] = Tail(waiting[m])
          /\ \A n \in Object \ {m} : waiting'[n] = waiting[n]
      BY <2>1, <2>3, <3>1, WakesFacts
    <3>3. call'[u].for = m /\ Awake(u)'
      <4>1. PICK c \in Calls : c = call[u] /\ c.at # "none" /\ c.for = m
        BY <1>1, <3>1 DEF Sleeping
      <4>2. [c EXCEPT !.at = "retry"].for = c.for /\ [c EXCEPT !.at = "retry"].at = "retry"
        BY <4>1, CallMoves
      <4> QED
        BY <3>2, <4>1, <4>2 DEF Awake
    <3>4. ASSUME NEW v \in Sleeping(m)' PROVE prio'[u] >= Priority[v]
      <4>1. v \in Sleeping(m) /\ v # t
        <5>1. call'[t] = NoCall
          BY <2>1, WakesFacts
        <5>2. v # t /\ v # u
          BY <3>3, <3>4, <5>1, NoCallFields DEF Sleeping, Awake
        <5> QED
          BY <3>2, <3>4, <5>2 DEF Sleeping
      <4>2. PICK i \in DOMAIN waiting[m] : waiting[m][i] = v
        BY <2>1, <4>1, OnList
      <4>3. 1 \in DOMAIN waiting[m] /\ i \in Nat /\ i >= 1
        BY <1>1, <2>1, <2>3, OnList
      <4>4. prio[u] >= Priority[v]
        <5>1. CASE i = 1
          BY <1>1, <3>1, <4>2, <5>1
        <5>2. CASE i # 1
          <6>1. \A k, j \in DOMAIN waiting[m] : k < j => prio[waiting[m][k]] >= Priority[waiting[m][j]]
            BY <1>1 DEF InOrder
          <6> QED
            BY <3>1, <4>2, <4>3, <5>2, <6>1
        <5> QED
          BY <5>1, <5>2
      <4> QED
        BY <2>1, <3>1, <4>4
    <3>5. ASSUME NEW n \in Mutex \ {m}, NEW v \in Sleeping(n)
          PROVE  IF holder'[n] # NONE THEN prio'[holder'[n]] >= Priority[v]
                 ELSE \E x \in Task : call'[x].for = n /\ Awake(x)' /\ prio'[x] >= Priority[v]
      <4>1. CASE holder[n] # NONE
        <5>1. holder[n] = t => Held(t) # {m}
          BY <4>1 DEF Held
        <5> QED
          BY <1>1, <1>2, <2>1, <4>1, <5>1
      <4>2. CASE holder[n] = NONE
        <5>1. PICK x \in Task : call[x].for = n /\ Awake(x) /\ prio[x] >= Priority[v]
          BY <1>2, <4>2
        <5>2. x # t /\ x # u
          BY <2>1, <3>1, <5>1, NoCallFields, KernelAssumption DEF Sleeping, Awake
        <5> QED
          BY <2>1, <3>2, <4>2, <5>1, <5>2 DEF Awake
      <4> QED
        BY <4>1, <4>2
    <3>6. ASSUME NEW n \in Mutex \ {m} PROVE Sleeping(n)' = Sleeping(n)
      BY <1>1, <1>3, <3>2
    <3> QED
      BY <2>1, <3>3, <3>4, <3>5, <3>6 DEF Boosted
  <2> QED
    BY <2>2, <2>3
<1> QED
  BY <1>4, <1>5, <1>6, <1>7, MutexCases


LEMMA HeadStep ==
  ASSUME TypeInv, TypeInv', NestInv, BoostInv, HeadInv, [Next]_vars PROVE HeadInv'
<1>1. /\ holder \in [Mutex -> Task \cup {NONE}]
      /\ prio \in [Task -> Nat] /\ prio' \in [Task -> Nat]
      /\ waiting \in [Object -> Seq(Task)] /\ Mutex \subseteq Object /\ NONE \notin Task
      /\ \A u \in Task : Priority[u] \in Nat /\ BoostOf(u) /\ HoldsOf(u)
      /\ \A u \in Task, m \in Mutex : HeadOf(u, m)
  BY KernelAssumption DEF TypeInv, Variables, HeadInv, BoostInv, NestInv, Object
<1>2. CASE Quiet
  <2>1. prio' = prio /\ (\A m \in Mutex : waiting'[m] = waiting[m]) /\ \A u \in Task : Held(u)' = Held(u)
    BY <1>2 DEF Quiet, Held
  <2> QED
    BY <1>1, <2>1 DEF HeadInv, HeadOf
<1>3. ASSUME NEW t \in Task, NEW w \in Mutex, Takes(t, w) PROVE HeadInv'
  <2>1. holder' = [holder EXCEPT ![w] = t] /\ holder[w] = NONE /\ waiting' = waiting /\ prio' = prio
    BY <1>3 DEF Takes
  <2>2. Held(t)' = Held(t) \cup {w} /\ w \notin Held(t) /\ \A u \in Task \ {t} : Held(u)' = Held(u)
    BY <1>1, <2>1 DEF Held
  <2>3. \A m \in Mutex : HeadOf(t, m)'
    <3>1. ASSUME NEW m \in Mutex, Held(t)' = {m} PROVE prio'[t] = Priority[t]
      <4>1. Held(t) = {}
        BY <2>2, <3>1
      <4> QED
        BY <1>1, <2>1, <4>1 DEF BoostOf
    <3> QED
      BY <1>1, <3>1 DEF HeadOf
  <2>4. \A u \in Task \ {t}, m \in Mutex : HeadOf(u, m)'
    BY <1>1, <2>1, <2>2 DEF HeadOf
  <2> QED
    BY <2>3, <2>4 DEF HeadInv
<1>4. ASSUME NEW t \in Task, NEW m \in Mutex, Blocks(t, m) PROVE HeadInv'
  <2>1. PICK x \in Task : x = holder[m] /\ x # t /\ m \in Held(x)
    BY <1>4, InheritFacts DEF Blocks
  <2>2. /\ prio'[x] = (IF prio[x] < prio[t] THEN prio[t] ELSE prio[x])
        /\ \A u \in Task : prio'[u] >= prio[u]
        /\ \A u \in Task \ {x} : prio'[u] = prio[u]
    BY <1>4, <2>1, InheritFacts DEF Blocks
  <2>3. /\ t \notin Range(waiting[m])
        /\ waiting'[m] = InsertByPriority(waiting[m], t)
        /\ \A v \in Object \ {m} : waiting'[v] = waiting[v]
    BY <1>1, <1>4, SleepsFacts DEF Blocks
  <2>4. \A u \in Task : Held(u)' = Held(u)
    BY <1>4 DEF Blocks, Held
  <2>5. PICK list \in Seq(Task) : list = waiting[m] /\ IsInjective(list)
    BY <1>1 DEF TypeInv, ListInv
  <2>6. PICK new : new = InsertByPriority(list, t)
    OBVIOUS
  <2>7. new # <<>> /\ new[1] = IF list # <<>> /\ prio[list[1]] >= prio[t] THEN list[1] ELSE t
    BY <1>1, <2>3, <2>5, <2>6, InsertionFacts
  <2>8. list # <<>> => list[1] \in Task
    BY <2>5
  <2>9. HeadOf(x, m)'
    <3> SUFFICES ASSUME Held(x) = {m}, m = LOG \/ LOG \notin Uses[x], prio'[x] > Priority[x]
                 PROVE  prio'[new[1]] >= prio'[x]
      BY <2>3, <2>4, <2>5, <2>6, <2>7 DEF HeadOf
    <3>1. CASE prio[x] < prio[t]
      <4>1. prio[new[1]] >= prio[t] /\ new[1] \in Task
        BY <1>1, <2>7, <2>8
      <4> QED
        BY <1>1, <2>2, <3>1, <4>1
    <3>2. CASE ~(prio[x] < prio[t])
      <4>1. prio'[x] = prio[x]
        BY <2>2, <3>2
      <4>2. list # <<>> /\ prio[list[1]] >= prio[x]
        BY <1>1, <2>5, <4>1 DEF HeadOf
      <4>3. prio[new[1]] >= prio[x] /\ new[1] \in Task
        BY <1>1, <2>7, <2>8, <4>2
      <4> QED
        BY <1>1, <2>2, <4>1, <4>3
    <3> QED
      BY <3>1, <3>2
  <2>10. ASSUME NEW n \in Mutex \ {m} PROVE HeadOf(x, n)'
    BY <2>1, <2>4 DEF HeadOf
  <2>11. ASSUME NEW u \in Task \ {x}, NEW n \in Mutex PROVE HeadOf(u, n)'
    <3>1. CASE n = m
      <4>1. m \notin Held(u)
        BY <2>1 DEF Held
      <4> QED
        BY <2>4, <3>1, <4>1 DEF HeadOf
    <3>2. CASE n # m
      <4>1. waiting'[n] = waiting[n] /\ prio'[u] = prio[u] /\ HeadOf(u, n)
        BY <1>1, <2>2, <2>3, <3>2
      <4>2. waiting[n] # <<>> => waiting[n][1] \in Task
        BY <1>1
      <4> QED
        BY <1>1, <2>2, <2>4, <4>1, <4>2 DEF HeadOf
    <3> QED
      BY <3>1, <3>2
  <2> QED
    BY <2>9, <2>10, <2>11 DEF HeadInv
<1>5. ASSUME NEW t \in Task, NEW m \in Mutex, Give(t, m) PROVE HeadInv'
  <2>1. /\ call[t] = NoCall /\ (m = LOG \/ LOG \notin Held(t))
        /\ Held(t)' = Held(t) \ {m} /\ m \in Held(t) /\ \A u \in Task \ {t} : Held(u)' = Held(u)
        /\ \A u \in Task \ {t} : prio'[u] = prio[u]
        /\ Wakes(m, t) /\ m \in Object
    BY <1>5, GiveFacts
  <2>2. \A n \in Mutex \ {m} : waiting'[n] = waiting[n]
    BY <1>1, <2>1 DEF Wakes
  <2>3. ASSUME NEW n \in Mutex PROVE HeadOf(t, n)'
    <3>1. ASSUME Held(t)' = {n} PROVE n # LOG /\ LOG \in Uses[t]
      <4>1. n \in Held(t) /\ n # m /\ Held(t) \subseteq Uses[t] /\ \A p, q \in Held(t) \ {LOG} : p = q
        BY <1>1, <2>1, <3>1 DEF HoldsOf
      <4> QED
        BY <2>1, <4>1
    <3> QED
      BY <3>1 DEF HeadOf
  <2>4. ASSUME NEW u \in Task \ {t}, NEW n \in Mutex PROVE HeadOf(u, n)'
    <3>1. CASE n = m
      <4>1. m \notin Held(u)
        BY <2>1 DEF Held
      <4> QED
        BY <2>1, <3>1, <4>1 DEF HeadOf
    <3>2. CASE n # m
      <4>1. HeadOf(u, n) /\ waiting'[n] = waiting[n] /\ prio'[u] = prio[u] /\ Held(u)' = Held(u)
        BY <1>1, <2>1, <2>2, <3>2
      <4>2. waiting[n] # <<>> => waiting[n][1] \in Task \ {t}
        <5>1. waiting[n] # <<>> => waiting[n][1] \in Sleeping(n) /\ waiting[n][1] \in Task
          BY <1>1, OnList
        <5> QED
          BY <2>1, <5>1, NoCallFields DEF Sleeping
      <4> QED
        BY <2>1, <4>1, <4>2 DEF HeadOf
    <3> QED
      BY <3>1, <3>2
  <2> QED
    BY <2>3, <2>4 DEF HeadInv
<1> QED
  BY <1>2, <1>3, <1>4, <1>5, MutexCases


\* What a signal without a yield leaves awake, when nobody's priority has risen.
LEMMA NoYieldStaysTop ==
  ASSUME TypeInv, TypeInv', HighestRuns, NEW w \in Object, NEW t \in Task, running = t, running' = t,
         call[t].at # "blocked", Wakes(w, t), prio' = prio,
         waiting[w] # <<>> => prio[waiting[w][1]] <= prio[t]
  PROVE  HighestRuns'
<1>1. prio \in [Task -> Nat] /\ \A u \in Task : Awake(u) => prio[u] <= prio[t]
  BY TopRuns DEF TypeInv, Variables
<1>2. call'[t] = NoCall /\ Awake(t)'
  BY WakesFacts, NoCallFields DEF Awake
<1>3. ASSUME NEW u \in Task, Awake(u)' PROVE prio[u] <= prio[t]
  <2>1. CASE waiting[w] = <<>>
    <3>1. \A x \in Task \ {t} : call'[x] = call[x]
      BY <2>1, WakesFacts
    <3> QED
      BY <1>1, <1>3, <3>1 DEF Awake
  <2>2. CASE waiting[w] # <<>>
    <3>1. \A x \in Task \ {t, waiting[w][1]} : call'[x] = call[x]
      BY <2>2, WakesFacts
    <3> QED
      BY <1>1, <1>3, <2>2, <3>1 DEF Awake
  <2> QED
    BY <2>1, <2>2
<1> QED
  BY <1>2, <1>3, StaysTop

\* Without a yield the task that gives a mutex has lost no priority that matters:
\* it has kept the first of the list below itself.
LEMMA GiveLosesNothing ==
  ASSUME YieldsSuffice, TypeInv, NestInv, BoostInv, HeadInv,
         NEW t \in Task, NEW m \in Mutex, Give(t, m),
         waiting[m] # <<>>, prio'[waiting[m][1]] <= prio'[t]
  PROVE  prio' = prio
<1>1. /\ prio \in [Task -> Nat] /\ \A u \in Task : Priority[u] \in Nat /\ BoostOf(u) /\ HoldsOf(u) /\ CallOf(u)
  BY KernelAssumption DEF TypeInv, Variables, BoostInv, NestInv
<1>2. /\ prio'[t] = (IF Held(t) = {m} THEN Priority[t] ELSE prio[t])
      /\ \A u \in Task \ {t} : prio'[u] = prio[u]
      /\ prio' = [prio EXCEPT ![t] = IF Held(t) = {m} THEN Priority[t] ELSE @]
      /\ Wakes(m, t) /\ m \in Object /\ m \in Held(t) /\ call[t].at # "blocked"
  <2>1. prio' = [prio EXCEPT ![t] = IF Held(t) = {m} THEN Priority[t] ELSE @]
    BY DEF Give, Disinherit
  <2>2. /\ prio'[t] = (IF Held(t) = {m} THEN Priority[t] ELSE prio[t])
        /\ \A u \in Task \ {t} : prio'[u] = prio[u]
        /\ Wakes(m, t) /\ m \in Object /\ m \in Held(t) /\ call[t] = NoCall
    BY GiveFacts
  <2>3. call[t].at # "blocked"
    BY <2>2, NoCallFields
  <2> QED
    BY <2>1, <2>2, <2>3
<1>3. PICK u \in Task : u = waiting[m][1] /\ u # t /\ call[u].for = m
  <2>1. waiting[m][1] \in Sleeping(m) \ {t}
    BY <1>2, WakesFacts
  <2> QED
    BY <2>1 DEF Sleeping
<1>4. prio[u] <= prio'[t]
  BY <1>2, <1>3
<1>5. CASE Held(t) = {m} /\ prio[t] # Priority[t]
  <2>1. prio[t] > Priority[t] /\ prio'[t] = Priority[t]
    BY <1>1, <1>2, <1>5 DEF BoostOf
  <2>2. CASE m = LOG \/ LOG \notin Uses[t]
    <3>1. prio[u] >= prio[t]
      BY <1>3, <1>5, <2>1, <2>2 DEF HeadInv, HeadOf
    <3> QED
      BY <1>1, <1>4, <2>1, <3>1
  <2>3. CASE m # LOG /\ LOG \in Uses[t]
    <3>1. m \in Uses[t] \cap Uses[u]
      BY <1>1, <1>2, <1>3 DEF CallOf, HoldsOf
    <3>2. Priority[u] <= Priority[t]
      BY <1>1, <1>4, <2>1 DEF BoostOf
    <3>3. \A v \in Task : MutexUser(v) => Priority[v] <= Priority[t]
      BY <1>3, <2>3, <3>1, <3>2 DEF YieldsSuffice
    <3>4. PICK v \in Task : MutexUser(v) /\ prio[t] <= Priority[v]
      BY <1>1, <2>1 DEF BoostOf
    <3> QED
      BY <1>1, <2>1, <3>3, <3>4
  <2> QED
    BY <2>2, <2>3
<1>6. CASE ~(Held(t) = {m} /\ prio[t] # Priority[t])
  <2>1. (IF Held(t) = {m} THEN Priority[t] ELSE prio[t]) = prio[t]
    BY <1>6
  <2> QED
    BY <1>1, <1>2, <2>1
<1> QED
  BY <1>5, <1>6

LEMMA TopStep ==
  ASSUME YieldsSuffice, TypeInv, TypeInv', NestInv, BoostInv, RunInv, [Next]_vars PROVE HighestRuns'
<1>1. /\ prio \in [Task -> Nat] /\ call \in [Task -> Calls] /\ HighestRuns /\ HeadInv
      /\ \A u \in Task : CallOf(u)
  BY DEF TypeInv, Variables, RunInv, NestInv
<1>2. ASSUME NEW t \in Task, Awake(t), Awake(t)', \A u \in Task \ {t} : call'[u] = call[u],
             prio' = prio, running' = running
      PROVE  HighestRuns'
  <2>1. \A u \in Task : Awake(u)' <=> Awake(u)
    BY <1>2 DEF Awake
  <2> QED
    BY <1>1, <1>2, <2>1, SameRuns
<1>3. ASSUME NEW t \in Task, NEW w \in {"send", "receive"}, running = t, call[t].at # "blocked",
             Signal(w, t, FALSE), prio' = prio
      PROVE  HighestRuns'
  <2>1. Wakes(w, t) /\ w \in Object
    BY <1>3 DEF Signal, Wakes, Object
  <2>2. CASE waiting[w] = <<>>
    <3>1. running' = t
      BY <1>3, <2>2 DEF Signal, Yield
    <3> QED
      BY <1>1, <1>3, <2>1, <2>2, <3>1, NoYieldStaysTop
  <2>3. CASE waiting[w] # <<>>
    <3>1. waiting[w][1] \in Task
      BY <1>3, <2>1, <2>3, WakesFacts DEF Sleeping
    <3>2. Yield(prio'[waiting[w][1]] > prio'[t])
      BY <1>3, <2>3 DEF Signal
    <3>3. CASE prio[waiting[w][1]] > prio[t]
      BY <1>3, <3>2, <3>3 DEF Yield, HighestRuns
    <3>4. CASE ~(prio[waiting[w][1]] > prio[t])
      <4>1. running' = t /\ prio[waiting[w][1]] <= prio[t]
        BY <1>1, <1>3, <3>1, <3>2, <3>4 DEF Yield
      <4> QED
        BY <1>1, <1>3, <2>1, <4>1, NoYieldStaysTop
    <3> QED
      BY <3>3, <3>4
  <2> QED
    BY <2>2, <2>3
<1>4. ASSUME NEW t \in Task, NEW w \in Object, Comes(t, w), Succeed(t, w) PROVE HighestRuns'
  <2>1. running = t /\ call[t].at # "blocked" /\ prio' = prio
    BY <1>4, SucceedFacts DEF Comes
  <2>2. CASE w = "send"
    BY <1>3, <1>4, <2>1, <2>2, SucceedFacts
  <2>3. CASE w = "receive"
    BY <1>3, <1>4, <2>1, <2>3, SucceedFacts
  <2>4. CASE w \in Mutex
    <3>1. call' = [call EXCEPT ![t] = NoCall] /\ running' = running
      BY <1>4, <2>4, SucceedFacts
    <3>2. call'[t] = NoCall /\ \A u \in Task \ {t} : call'[u] = call[u]
      BY <1>1, <3>1
    <3> QED
      BY <1>2, <2>1, <3>1, <3>2, NoCallFields DEF Awake
  <2> QED
    BY <1>4, <2>2, <2>3, <2>4, SucceedFacts
<1>5. ASSUME NEW t \in Task, NEW w, NEW c, call[t].at # "blocked", c.at # "blocked", Fail(t, w, c)
      PROVE  HighestRuns'
  <2>1. prio' = prio /\ running' = running /\ call'[t] = c /\ \A u \in Task \ {t} : call'[u] = call[u]
    BY <1>1, <1>5 DEF Fail
  <2> QED
    BY <1>2, <1>5, <2>1 DEF Awake
<1>6. ASSUME NEW t \in Task, call[t].at \in {"retry", "last", "check"}, NEW a \in {"retry", "last", "check"}
      PROVE  [call[t] EXCEPT !.at = a].at = a
  <2>1. PICK c \in Calls : c = call[t] /\ c.at # "none"
    BY <1>1, <1>6
  <2> QED
    BY <2>1, CallMoves
<1>7. ASSUME NEW t \in Task, Check(t) PROVE HighestRuns'
  <2>1. call[t].at = "check"
    BY <1>7 DEF Check
  <2>2. CASE PlaceOnEventList(t, call[t].for)
    BY <2>2 DEF PlaceOnEventList, Yield, HighestRuns
  <2>3. CASE ~PlaceOnEventList(t, call[t].for)
    <3>1. /\ prio' = prio /\ running' = running /\ \A u \in Task \ {t} : call'[u] = call[u]
          /\ \/ call'[t] = NoCall
             \/ call'[t] = [call[t] EXCEPT !.at = "last"]
             \/ call'[t] = [call[t] EXCEPT !.at = "retry"]
      BY <1>1, <1>7, <2>3 DEF Check
    <3>2. Awake(t) /\ Awake(t)'
      BY <1>6, <2>1, <3>1, NoCallFields DEF Awake
    <3> QED
      BY <1>2, <3>1, <3>2
  <2> QED
    BY <2>2, <2>3
<1>8. ASSUME NEW t \in Task, NEW m \in Mutex, Give(t, m) PROVE HighestRuns'
  <2>1. /\ running = t /\ Wakes(m, t) /\ m \in Object /\ call[t].at # "blocked"
        /\ Signal(m, t, prio' # prio)
    BY <1>8, GiveFacts DEF Give, Awake
  <2>2. CASE waiting[m] = <<>>
    <3>1. Yield(prio' # prio)
      BY <2>1, <2>2 DEF Signal
    <3>2. CASE prio' # prio
      BY <3>1, <3>2 DEF Yield, HighestRuns
    <3>3. CASE prio' = prio
      <4>1. running' = t
        BY <2>1, <3>1, <3>3 DEF Yield
      <4> QED
        BY <1>1, <2>1, <2>2, <3>3, <4>1, NoYieldStaysTop
    <3> QED
      BY <3>2, <3>3
  <2>3. CASE waiting[m] # <<>>
    <3>1. waiting[m][1] \in Task
      BY <2>1, <2>3, WakesFacts DEF Sleeping
    <3>2. Yield(prio'[waiting[m][1]] > prio'[t]) /\ prio' \in [Task -> Nat]
      BY <2>1, <2>3 DEF Signal, TypeInv, Variables
    <3>3. CASE prio'[waiting[m][1]] > prio'[t]
      BY <3>2, <3>3 DEF Yield, HighestRuns
    <3>4. CASE ~(prio'[waiting[m][1]] > prio'[t])
      <4>1. running' = t /\ prio'[waiting[m][1]] <= prio'[t]
        BY <2>1, <3>1, <3>2, <3>4 DEF Yield
      <4>2. prio' = prio
        BY <1>1, <1>8, <2>3, <4>1, GiveLosesNothing
      <4> QED
        BY <1>1, <2>1, <4>1, <4>2, NoYieldStaysTop
    <3> QED
      BY <3>3, <3>4
  <2> QED
    BY <2>2, <2>3
<1>9. ASSUME NEW t \in Task, NEW n \in Ticks, Delay(t, n) PROVE HighestRuns'
  BY <1>9 DEF Delay, Yield, HighestRuns
<1>10. CASE Tick
  <2>1. CASE running' \in Selected(call', prio')
    BY <2>1 DEF HighestRuns
  <2>2. CASE /\ running' = running
             /\ IF running = IDLE THEN Due = {} ELSE \A t \in Due : ~(prio[t] >= prio[running])
    <3>1. prio' = prio
      BY <1>10 DEF Tick
    <3>2. \A u \in Task \ Due : Awake(u)' <=> Awake(u)
      BY <1>10, TickFacts DEF Awake
    <3>3. CASE running = IDLE
      <4>1. \A u \in Task : Awake(u)' <=> Awake(u)
        BY <2>2, <3>2, <3>3
      <4> QED
        BY <1>1, <2>2, <3>1, <4>1, SameRuns
    <3>4. CASE running # IDLE
      <4>1. PICK t \in Task : t = running
        BY <3>4 DEF TypeInv, Variables
      <4>2. Awake(t) /\ \A u \in Task : Awake(u) => prio[u] <= prio[t]
        BY <1>1, <4>1, TopRuns
      <4>3. t \notin Due /\ \A u \in Due : prio[u] <= prio[t]
        BY <1>1, <2>2, <3>4, <4>1, <4>2 DEF Due, Awake
      <4> QED
        BY <2>2, <3>1, <3>2, <4>1, <4>2, <4>3, StaysTop
    <3> QED
      BY <3>3, <3>4
  <2> QED
    BY <1>10, <2>1, <2>2, TickFacts
<1>11. CASE UNCHANGED vars
  BY <1>1, <1>11, SameRuns DEF vars, Awake
<1>12. ASSUME NEW t \in Task, TaskStep(t) PROVE HighestRuns'
  <2>1. ASSUME NEW w \in Object, NEW n \in Ticks, Comes(t, w),
               Fail(t, w, [for |-> w, left |-> n, at |-> "check"])
        PROVE  HighestRuns'
    <3>1. PICK c : c = [for |-> w, left |-> n, at |-> "check"]
      OBVIOUS
    <3> QED
      BY <1>5, <2>1, <3>1 DEF Comes
  <2>2. ASSUME Fail(t, call[t].for, NoCall), call[t].at = "last" PROVE HighestRuns'
    BY <1>5, <2>2, NoCallFields
  <2>3. ASSUME Fail(t, call[t].for, [call[t] EXCEPT !.at = "check"]), call[t].at = "retry" PROVE HighestRuns'
    BY <1>5, <1>6, <2>3
  <2> QED
    BY <1>4, <1>7, <1>8, <1>9, <1>12, <2>1, <2>2, <2>3, TaskCases
<1> QED
  BY <1>10, <1>11, <1>12 DEF Next


LEMMA InitRun == Init => RunInv
<1> SUFFICES ASSUME Init PROVE RunInv
  OBVIOUS
<1>1. /\ prio = Priority /\ \A t \in Task : call[t] = NoCall /\ Held(t) = {}
      /\ \A w \in Object : waiting[w] = <<>>
      /\ Mutex \subseteq Object /\ \A t \in Task : Priority[t] \in Nat
  BY KernelAssumption DEF Init, Held, Object
<1>2. Sorted
  BY <1>1 DEF Sorted, InOrder
<1>3. Boosted
  BY <1>1, NoCallFields DEF Boosted, Sleeping
<1>4. HeadInv
  BY <1>1 DEF HeadInv, HeadOf
<1>5. HighestRuns
  <2>1. \A t \in Task : call[t].at # "blocked"
    BY <1>1, NoCallFields
  <2>2. running \in Task /\ \A u \in Task : prio[u] <= prio[running]
    BY <1>1 DEF Init
  <2> QED
    BY <2>1, <2>2 DEF HighestRuns, Selected
<1> QED
  BY <1>2, <1>3, <1>4, <1>5 DEF RunInv

LEMMA RunStep ==
  ASSUME YieldsSuffice
  PROVE  TypeInv /\ TypeInv' /\ NestInv /\ BoostInv /\ RunInv /\ [Next]_vars => RunInv'
<1> SUFFICES ASSUME TypeInv, TypeInv', NestInv, BoostInv, RunInv, [Next]_vars PROVE RunInv'
  OBVIOUS
<1>1. Sorted' /\ Boosted' /\ HeadInv' /\ HighestRuns'
  BY SortedStep, BoostedStep, HeadStep, TopStep DEF RunInv
<1> QED
  BY <1>1 DEF RunInv

\* Every step yields when it must: with mutexes nested as YieldsSuffice says, no
\* task is ever ready above the one that runs (xTaskRemoveFromEventList,
\* xTaskPriorityDisinherit and xTaskIncrementTick report every switch that is due).
THEOREM HighestAlwaysRuns ==
  ASSUME YieldsSuffice
  PROVE  Spec => []HighestRuns
<1>1. RunInv => HighestRuns
  BY DEF RunInv
<1> QED
  BY <1>1, InitType, InitNest, InitBoost, InitRun, TypeStep, NestStep, BoostStep, RunStep, PTL DEF Spec

\* Who holds a mutex has at least the own priority of every task that sleeps for it,
\* and gives back what it has inherited with its last mutex
\* (xTaskPriorityInherit, xTaskPriorityDisinherit).
THEOREM HoldersInherit ==
  ASSUME YieldsSuffice
  PROVE  Spec => []Inherits
<1>1. TypeInv /\ BoostInv /\ RunInv => Inherits
  <2> SUFFICES ASSUME BoostInv, RunInv PROVE Inherits
    OBVIOUS
  <2>1. \A t \in Task : Held(t) = {} => prio[t] = Priority[t]
    BY DEF BoostInv, BoostOf
  <2>2. \A m \in Mutex, t \in Task :
          call[t].for = m /\ call[t].at = "blocked" /\ holder[m] # NONE
            => prio[holder[m]] >= Priority[t]
    BY DEF RunInv, Boosted, Sleeping
  <2> QED
    BY <2>1, <2>2 DEF Inherits
<1> QED
  BY <1>1, InitType, InitNest, InitBoost, InitRun, TypeStep, NestStep, BoostStep, RunStep, PTL DEF Spec


-----------------------------------------------------------------------------
(* The queue implements TimedQueue *)

\* The last try is made for a message when the time is up.
LastInv == \A t \in Task : call[t].at = "last" => call[t].for = "receive" /\ call[t].left = 0

Served == [op |-> NONE, left |-> 0]
PendOf(c) == IF c.for \in {"send", "receive"} THEN [op |-> c.for, left |-> c.left] ELSE Served

LEMMA PendOfFields ==
  ASSUME NEW c
  PROVE  /\ c.for \in {"send", "receive"} => PendOf(c).op = c.for /\ PendOf(c).left = c.left
         /\ c.for \notin {"send", "receive"} => PendOf(c) = Served
  BY DEF PendOf

LEMMA PendingFacts ==
  /\ Pending = [t \in Task |-> PendOf(call[t])]
  /\ \A t \in Task : Pending[t] = PendOf(call[t])
  BY DEF Pending, PendOf, Served

LEMMA PendingFactsNext ==
  (/\ Pending = [t \in Task |-> PendOf(call[t])]
   /\ \A t \in Task : Pending[t] = PendOf(call[t]))'
  BY PendingFacts, PTL

\* What a step does to the call of one task, it does to what is pending.
LEMMA PendingMoves ==
  ASSUME NEW t \in Task, NEW p, PendOf(call'[t]) = p,
         \A u \in Task \ {t} : PendOf(call'[u]) = PendOf(call[u])
  PROVE  Pending' = [Pending EXCEPT ![t] = p]
  BY PendingFacts, PendingFactsNext

LEMMA PendingKept ==
  ASSUME \A u \in Task : PendOf(call'[u]) = PendOf(call[u])
  PROVE  Pending' = Pending
  BY PendingFacts, PendingFactsNext

\* Who wakes up waits for the same with the time it has left.
LEMMA WakesPending ==
  ASSUME TypeInv, NEW w \in Object, NEW t \in Task, call[t].at # "blocked", Wakes(w, t)
  PROVE  /\ PendOf(call'[t]) = Served
         /\ \A u \in Task \ {t} : PendOf(call'[u]) = PendOf(call[u])
<1>1. PendOf(call'[t]) = Served
  <2>1. call'[t] = NoCall
    BY WakesFacts
  <2> QED
    BY <2>1, NoCallFields, KernelAssumption DEF PendOf
<1>2. CASE waiting[w] = <<>>
  <2>1. \A u \in Task \ {t} : call'[u] = call[u]
    BY <1>2, WakesFacts
  <2> QED
    BY <1>1, <2>1
<1>3. CASE waiting[w] # <<>>
  <2>0. waiting[w][1] \in Sleeping(w) \ {t}
    BY <1>3, WakesFacts
  <2>1. PICK u \in Task : u = waiting[w][1] /\ call[u].at = "blocked"
    BY <2>0 DEF Sleeping
  <2>2. call'[u] = [call[u] EXCEPT !.at = "retry"] /\ call[u] \in Calls
        /\ \A x \in Task \ {t, u} : call'[x] = call[x]
    BY <1>3, <2>1, WakesFacts DEF TypeInv, Variables
  <2>3. call'[u].for = call[u].for /\ call'[u].left = call[u].left
    <3>1. PICK c \in Calls : c = call[u] /\ c.at # "none"
      BY <2>1, <2>2
    <3>2. [c EXCEPT !.at = "retry"].for = c.for /\ [c EXCEPT !.at = "retry"].left = c.left
      BY <3>1, CallMoves
    <3> QED
      BY <2>2, <3>1, <3>2
  <2> QED
    BY <1>1, <2>2, <2>3 DEF PendOf
<1> QED
  BY <1>2, <1>3

LEMMA InitLast == Init => LastInv
  BY NoCallFields DEF Init, LastInv


LEMMA LastStep == TypeInv /\ NestInv /\ LastInv /\ [Next]_vars => LastInv'
<1> SUFFICES ASSUME TypeInv, NestInv, LastInv, [Next]_vars PROVE LastInv'
  OBVIOUS
<1>1. call \in [Task -> Calls] /\ \A u \in Task : CallOf(u)
  BY DEF TypeInv, Variables, NestInv
<1>2. ASSUME NEW t \in Task, \A u \in Task \ {t} : call'[u] = call[u] \/ call'[u].at # "last",
             call'[t].at # "last"
      PROVE  LastInv'
  BY <1>2 DEF LastInv
<1>3. ASSUME NEW w \in Object, NEW t \in Task, call[t].at # "blocked", Wakes(w, t) PROVE LastInv'
  <2>1. call'[t].at # "last"
    <3>1. call'[t] = NoCall
      BY <1>3, WakesFacts
    <3> QED
      BY <3>1, NoCallFields
  <2>2. CASE waiting[w] = <<>>
    <3>1. \A u \in Task \ {t} : call'[u] = call[u]
      BY <1>3, <2>2, WakesFacts
    <3> QED
      BY <1>2, <2>1, <3>1
  <2>3. CASE waiting[w] # <<>>
    <3>1. PICK u \in Task : u = waiting[w][1] /\ call[u].at = "blocked"
      <4>1. waiting[w][1] \in Sleeping(w) \ {t}
        BY <1>3, <2>3, WakesFacts
      <4> QED
        BY <4>1 DEF Sleeping
    <3>2. call'[u] = [call[u] EXCEPT !.at = "retry"] /\ \A x \in Task \ {t, u} : call'[x] = call[x]
      BY <1>3, <2>3, <3>1, WakesFacts
    <3>3. PICK c \in Calls : c = call[u] /\ c.at # "none"
      BY <1>1, <3>1
    <3>4. call'[u].at = "retry"
      BY <3>2, <3>3, CallMoves
    <3> QED
      BY <1>2, <2>1, <3>2, <3>4
  <2> QED
    BY <2>2, <2>3
<1>4. ASSUME NEW t \in Task, NEW w \in Object, Comes(t, w), Succeed(t, w) PROVE LastInv'
  <2>1. call[t].at # "blocked"
    BY <1>4 DEF Comes
  <2>2. CASE w = "send"
    <3>1. Wakes("receive", t)
      BY <1>4, <2>2, SucceedFacts DEF Signal, Wakes
    <3> QED
      BY <1>3, <2>1, <3>1 DEF Object
  <2>3. CASE w = "receive"
    <3>1. Wakes("send", t)
      BY <1>4, <2>3, SucceedFacts DEF Signal, Wakes
    <3> QED
      BY <1>3, <2>1, <3>1 DEF Object
  <2>4. CASE w \in Mutex
    <3>1. call'[t] = NoCall /\ \A u \in Task \ {t} : call'[u] = call[u]
      BY <1>1, <1>4, <2>4, SucceedFacts
    <3> QED
      BY <1>2, <3>1, NoCallFields
  <2> QED
    BY <1>4, <2>2, <2>3, <2>4, SucceedFacts
<1>5. ASSUME NEW t \in Task, NEW w, NEW c, c.at # "last", Fail(t, w, c) PROVE LastInv'
  BY <1>1, <1>2, <1>5 DEF Fail
<1>6. ASSUME NEW t \in Task, call[t].at # "none", NEW a \in {"retry", "last", "check", "blocked"}
      PROVE  [call[t] EXCEPT !.at = a].at = a /\ [call[t] EXCEPT !.at = a].for = call[t].for
             /\ [call[t] EXCEPT !.at = a].left = call[t].left
  <2>1. PICK c \in Calls : c = call[t] /\ c.at # "none"
    BY <1>1, <1>6
  <2> QED
    BY <2>1, CallMoves
<1>7. ASSUME NEW t \in Task, Check(t) PROVE LastInv'
  <2>1. call[t].at = "check" /\ \A u \in Task \ {t} : call'[u] = call[u]
    BY <1>1, <1>7 DEF Check, PlaceOnEventList
  <2>2. \/ call'[t] = NoCall
        \/ call'[t] = [call[t] EXCEPT !.at = "last"] /\ call[t].for = "receive" /\ call[t].left = 0
        \/ call'[t] = [call[t] EXCEPT !.at = "retry"]
        \/ call'[t] = [call[t] EXCEPT !.at = "blocked"]
    BY <1>1, <1>7 DEF Check, PlaceOnEventList
  <2>3. CASE call'[t] = [call[t] EXCEPT !.at = "last"] /\ call[t].for = "receive" /\ call[t].left = 0
    <3>1. call'[t].for = "receive" /\ call'[t].left = 0
      BY <1>6, <2>1, <2>3
    <3> QED
      BY <2>1, <3>1 DEF LastInv
  <2>4. CASE ~(call'[t] = [call[t] EXCEPT !.at = "last"] /\ call[t].for = "receive" /\ call[t].left = 0)
    <3>1. call'[t].at # "last"
      BY <1>6, <2>1, <2>2, <2>4, NoCallFields
    <3> QED
      BY <1>2, <2>1, <3>1
  <2> QED
    BY <2>3, <2>4
<1>8. ASSUME NEW t \in Task, NEW m \in Mutex, Give(t, m) PROVE LastInv'
  BY <1>3, <1>8, GiveFacts DEF Awake
<1>9. ASSUME NEW t \in Task, NEW n \in Ticks, Delay(t, n) PROVE LastInv'
  <2>1. call'[t].at = "blocked" /\ \A u \in Task \ {t} : call'[u] = call[u]
    BY <1>1, <1>9 DEF Delay
  <2> QED
    BY <1>2, <2>1
<1>10. CASE Tick
  <2> SUFFICES ASSUME NEW t \in Task, call'[t].at = "last" PROVE call'[t].for = "receive" /\ call'[t].left = 0
    BY DEF LastInv
  <2>1. CASE t \in Due
    BY <1>10, <2>1, TickFacts, NoCallFields
  <2>2. CASE t \notin Due
    BY <1>10, <2>2, TickFacts DEF LastInv
  <2> QED
    BY <2>1, <2>2
<1>11. CASE UNCHANGED vars
  BY <1>11 DEF vars, LastInv
<1>12. ASSUME NEW t \in Task, TaskStep(t) PROVE LastInv'
  <2>1. ASSUME NEW w \in Object, NEW n \in Ticks,
               Fail(t, w, [for |-> w, left |-> n, at |-> "check"])
        PROVE  LastInv'
    <3>1. PICK c : c = [for |-> w, left |-> n, at |-> "check"]
      OBVIOUS
    <3> QED
      BY <1>5, <2>1, <3>1
  <2>2. ASSUME Fail(t, call[t].for, NoCall) PROVE LastInv'
    BY <1>5, <2>2, NoCallFields
  <2>3. ASSUME Fail(t, call[t].for, [call[t] EXCEPT !.at = "check"]), call[t].at = "retry" PROVE LastInv'
    BY <1>5, <1>6, <2>3
  <2> QED
    BY <1>4, <1>7, <1>8, <1>9, <1>12, <2>1, <2>2, <2>3, TaskCases
<1> QED
  BY <1>10, <1>11, <1>12 DEF Next


\* The steps of TimedQueue, by what they do to the queue and to what is pending.
LEMMA TimedPut ==
  ASSUME NEW t \in Task, Pending[t] = Served \/ Pending[t].op = "send", Len(queue) < QueueLength,
         queue' = Append(queue, t), Pending' = [Pending EXCEPT ![t] = Served]
  PROVE  Timed!Next
<1>1. Timed!Put(t)
  BY DEF Timed!Put, Timed!May, Timed!Served, Served
<1> QED
  BY <1>1 DEF Timed!Next

LEMMA TimedGet ==
  ASSUME NEW t \in Task, Pending[t] = Served \/ Pending[t].op = "receive", queue # <<>>,
         queue' = Tail(queue), Pending' = [Pending EXCEPT ![t] = Served]
  PROVE  Timed!Next
<1>1. Timed!Get(t)
  BY DEF Timed!Get, Timed!May, Timed!Served, Served
<1> QED
  BY <1>1 DEF Timed!Next

LEMMA TimedWait ==
  ASSUME NEW t \in Task, NEW op \in {"send", "receive"}, NEW n \in Ticks, Pending[t] = Served,
         IF op = "send" THEN Len(queue) = QueueLength ELSE queue = <<>>,
         queue' = queue, Pending' = [Pending EXCEPT ![t] = [op |-> op, left |-> n]]
  PROVE  Timed!Next
<1>1. Timed!Wait(t, op, n)
  BY DEF Timed!Wait, Timed!Served, Served
<1> QED
  BY <1>1 DEF Timed!Next, Ticks

LEMMA TimedGiveUp ==
  ASSUME NEW t \in Task, Pending[t].op # NONE, Pending[t].left = 0,
         Pending[t].op = "receive" => queue = <<>>,
         queue' = queue, Pending' = [Pending EXCEPT ![t] = Served]
  PROVE  Timed!Next
<1>1. Timed!GiveUp(t)
  BY DEF Timed!GiveUp, Timed!Served, Served
<1> QED
  BY <1>1 DEF Timed!Next

\* A tick changes what is left of the pending calls, and of no other.
LEMMA TimedTick == TypeInv /\ Tick => Timed!Next
<1> SUFFICES ASSUME TypeInv, Tick PROVE Timed!Next
  OBVIOUS
<1>1. call \in [Task -> Calls] /\ queue' = queue
  BY DEF TypeInv, Variables, Tick
<1>2. ASSUME NEW t \in Task
      PROVE  PendOf(call'[t]) = IF Pending[t].left \in {0, FOREVER} THEN Pending[t]
                                ELSE [Pending[t] EXCEPT !.left = @ - 1]
  <2>1. PICK c \in Calls : c = call[t]
    BY <1>1
  <2>2. PICK d : d = call'[t]
    OBVIOUS
  <2>3. Pending[t] = PendOf(c)
    BY <2>1, PendingFacts
  <2>4. ASSUME c.for \in {"send", "receive"}
        PROVE  d.for = c.for /\ d.left = IF c.left \in {0, FOREVER} THEN c.left ELSE c.left - 1
    <3>1. CASE t \in Due
      <4>1. d.for = c.for /\ d.left = 0 /\ c.left \in {0, 1}
        BY <2>1, <2>2, <2>4, <3>1, TickFacts DEF Due
      <4> QED
        BY <4>1, KernelAssumption
    <3>2. CASE t \notin Due
      BY <2>1, <2>2, <3>2, TickFacts
    <3> QED
      BY <3>1, <3>2
  <2>5. CASE c.for \in {"send", "receive"}
    <3>1. PendOf(c) = [op |-> c.for, left |-> c.left] /\ PendOf(d) = [op |-> d.for, left |-> d.left]
      BY <2>4, <2>5 DEF PendOf
    <3>2. CASE c.left \in {0, FOREVER}
      BY <2>2, <2>3, <2>4, <2>5, <3>1, <3>2
    <3>3. CASE c.left \notin {0, FOREVER}
      <4>1. [PendOf(c) EXCEPT !.left = @ - 1] = [op |-> c.for, left |-> c.left - 1]
        BY <3>1
      <4>2. PendOf(c).left = c.left
        BY <3>1
      <4> QED
        BY <2>2, <2>3, <2>4, <2>5, <3>1, <3>3, <4>1, <4>2
    <3> QED
      BY <3>2, <3>3
  <2>6. CASE c.for \notin {"send", "receive"}
    <3>1. d.for \notin {"send", "receive"}
      <4>1. CASE t \in Due
        BY <2>1, <2>2, <2>6, <4>1, TickFacts, NoCallFields, KernelAssumption
      <4>2. CASE t \notin Due
        BY <2>1, <2>2, <2>6, <4>2, TickFacts
      <4> QED
        BY <4>1, <4>2
    <3> QED
      BY <2>2, <2>3, <2>6, <3>1 DEF PendOf, Served
  <2> QED
    BY <2>5, <2>6
<1>3. Pending' = [t \in Task |-> IF Pending[t].left \in {0, FOREVER} THEN Pending[t]
                                  ELSE [Pending[t] EXCEPT !.left = @ - 1]]
  BY <1>2, PendingFactsNext
<1>4. Timed!Elapse
  BY <1>1, <1>3 DEF Timed!Elapse
<1> QED
  BY <1>4 DEF Timed!Next


LEMMA TimedStep == TypeInv /\ NestInv /\ LastInv /\ [Next]_vars => [Timed!Next]_(Timed!timedVars)
<1> SUFFICES ASSUME TypeInv, NestInv, LastInv, [Next]_vars
             PROVE  Timed!Next \/ (queue' = queue /\ Pending' = Pending)
  BY DEF Timed!timedVars
<1>1. /\ call \in [Task -> Calls] /\ queue \in Seq(Task) /\ Len(queue) <= QueueLength
      /\ QueueLength \in Nat /\ NONE \notin {"send", "receive"} /\ NoCall.for = NONE
      /\ \A u \in Task : Pending[u] = PendOf(call[u])
      /\ \A u \in Task : CallOf(u)
  BY KernelAssumption, NoCallFields, PendingFacts DEF TypeInv, Variables, NestInv
<1>2. PendOf(NoCall) = Served /\ Served.op = NONE
  BY <1>1 DEF PendOf, Served
\* Nothing pends for what is not a call of the queue, and its end changes nothing.
<1>3. ASSUME NEW t \in Task, PendOf(call'[t]) = PendOf(call[t]), queue' = queue,
             \A u \in Task \ {t} : PendOf(call'[u]) = PendOf(call[u])
      PROVE  queue' = queue /\ Pending' = Pending
  BY <1>3, PendingKept
<1>4. ASSUME NEW t \in Task, NEW w \in Object, Comes(t, w), Succeed(t, w)
      PROVE  Timed!Next \/ (queue' = queue /\ Pending' = Pending)
  <2>1. call[t].at # "blocked" /\ call[t].for \in {NONE, w}
    BY <1>1, <1>4 DEF Comes
  <2>2. CASE w = "send"
    <3>1. queue' = Append(queue, t) /\ Wakes("receive", t) /\ Len(queue) < QueueLength
      BY <1>4, <2>2, SucceedFacts, AvailableFacts DEF Signal, Wakes
    <3>2. Pending' = [Pending EXCEPT ![t] = Served]
      BY <2>1, <3>1, WakesPending, PendingMoves DEF Object
    <3>3. Pending[t] = Served \/ Pending[t].op = "send"
      BY <1>1, <2>1, <2>2, PendOfFields
    <3> QED
      BY <3>1, <3>2, <3>3, TimedPut
  <2>3. CASE w = "receive"
    <3>1. queue' = Tail(queue) /\ Wakes("send", t) /\ queue # <<>>
      BY <1>4, <2>3, SucceedFacts, AvailableFacts DEF Signal, Wakes
    <3>2. Pending' = [Pending EXCEPT ![t] = Served]
      BY <2>1, <3>1, WakesPending, PendingMoves DEF Object
    <3>3. Pending[t] = Served \/ Pending[t].op = "receive"
      BY <1>1, <2>1, <2>3, PendOfFields
    <3> QED
      BY <3>1, <3>2, <3>3, TimedGet
  <2>4. CASE w \in Mutex
    <3>1. queue' = queue /\ call'[t] = NoCall /\ \A u \in Task \ {t} : call'[u] = call[u]
      BY <1>1, <1>4, <2>4, SucceedFacts
    <3>2. PendOf(call[t]) = Served
      BY <1>1, <2>1, <2>4, Names DEF PendOf
    <3> QED
      BY <1>2, <1>3, <3>1, <3>2
  <2> QED
    BY <1>4, <2>2, <2>3, <2>4, SucceedFacts
\* A call that fails at once begins to wait.
<1>5. ASSUME NEW t \in Task, NEW w \in Object, NEW n \in Ticks, call[t] = NoCall,
             Fail(t, w, [for |-> w, left |-> n, at |-> "check"])
      PROVE  Timed!Next \/ (queue' = queue /\ Pending' = Pending)
  <2>1. PICK c : c = [for |-> w, left |-> n, at |-> "check"]
    OBVIOUS
  <2>2. c.for = w /\ c.left = n
    BY <2>1
  <2>3. queue' = queue /\ call'[t] = c /\ (\A u \in Task \ {t} : call'[u] = call[u]) /\ ~Available(w)
    BY <1>1, <1>5, <2>1 DEF Fail
  <2>4. CASE w \in {"send", "receive"}
    <3>1. PendOf(c) = [op |-> w, left |-> n]
      BY <2>2, <2>4 DEF PendOf
    <3>2. Pending' = [Pending EXCEPT ![t] = [op |-> w, left |-> n]]
      BY <2>3, <3>1, PendingMoves
    <3>3. IF w = "send" THEN Len(queue) = QueueLength ELSE queue = <<>>
      BY <1>1, <2>3, <2>4, AvailableFacts
    <3> QED
      BY <1>1, <1>2, <1>5, <2>3, <2>4, <3>2, <3>3, TimedWait
  <2>5. CASE w \notin {"send", "receive"}
    <3>1. PendOf(c) = Served /\ PendOf(call[t]) = Served
      BY <1>2, <1>5, <2>2, <2>5 DEF PendOf
    <3> QED
      BY <1>3, <2>3, <3>1
  <2> QED
    BY <2>4, <2>5
<1>6. ASSUME NEW t \in Task, call[t].at # "none", NEW a \in {"retry", "last", "check", "blocked"}
      PROVE  PendOf([call[t] EXCEPT !.at = a]) = PendOf(call[t])
  <2>1. PICK c \in Calls : c = call[t] /\ c.at # "none"
    BY <1>1, <1>6
  <2>2. [c EXCEPT !.at = a].for = c.for /\ [c EXCEPT !.at = a].left = c.left
    BY <2>1, CallMoves
  <2> QED
    BY <2>1, <2>2 DEF PendOf
<1>7. ASSUME NEW t \in Task, call[t].for \in {"send", "receive"}, call[t].left = 0,
             call[t].for = "receive" => queue = <<>>,
             queue' = queue, call'[t] = NoCall, \A u \in Task \ {t} : call'[u] = call[u]
      PROVE  Timed!Next
  <2>1. Pending[t].op = call[t].for /\ Pending[t].left = 0
    BY <1>1, <1>7, PendOfFields
  <2>2. Pending' = [Pending EXCEPT ![t] = Served]
    BY <1>2, <1>7, PendingMoves
  <2> QED
    BY <1>1, <1>7, <2>1, <2>2, TimedGiveUp
<1>8. ASSUME NEW t \in Task, call[t].at = "last", Fail(t, call[t].for, NoCall)
      PROVE  Timed!Next
  <2>1. call[t].for = "receive" /\ call[t].left = 0
    BY <1>8 DEF LastInv
  <2>2. /\ queue' = queue /\ call'[t] = NoCall /\ queue = <<>>
        /\ \A u \in Task \ {t} : call'[u] = call[u]
    BY <1>1, <1>8, <2>1, AvailableFacts DEF Fail
  <2> QED
    BY <1>7, <2>1, <2>2
<1>9. ASSUME NEW t \in Task, call[t].at = "retry", Fail(t, call[t].for, [call[t] EXCEPT !.at = "check"])
      PROVE  queue' = queue /\ Pending' = Pending
  <2>1. queue' = queue /\ call'[t] = [call[t] EXCEPT !.at = "check"] /\ \A u \in Task \ {t} : call'[u] = call[u]
    BY <1>1, <1>9 DEF Fail
  <2> QED
    BY <1>3, <1>6, <1>9, <2>1
<1>10. ASSUME NEW t \in Task, Check(t) PROVE Timed!Next \/ (queue' = queue /\ Pending' = Pending)
  <2>1. call[t].at = "check" /\ queue' = queue /\ \A u \in Task \ {t} : call'[u] = call[u]
    BY <1>1, <1>10 DEF Check, PlaceOnEventList
  <2>2. \/ /\ call[t].left = 0 /\ call'[t] = NoCall
           /\ ~(call[t].for = "receive" /\ queue # <<>>)
        \/ call'[t] = [call[t] EXCEPT !.at = "last"]
        \/ call'[t] = [call[t] EXCEPT !.at = "retry"]
        \/ call'[t] = [call[t] EXCEPT !.at = "blocked"]
    BY <1>1, <1>10 DEF Check, PlaceOnEventList
  <2>3. CASE call[t].left = 0 /\ call'[t] = NoCall /\ ~(call[t].for = "receive" /\ queue # <<>>)
    <3>1. CASE call[t].for \in {"send", "receive"}
      BY <1>7, <2>1, <2>3, <3>1
    <3>2. CASE call[t].for \notin {"send", "receive"}
      BY <1>2, <1>3, <2>1, <2>3, <3>2 DEF PendOf
    <3> QED
      BY <3>1, <3>2
  <2>4. CASE \E a \in {"last", "retry", "blocked"} : call'[t] = [call[t] EXCEPT !.at = a]
    <3>1. PendOf(call'[t]) = PendOf(call[t])
      BY <1>6, <2>1, <2>4
    <3> QED
      BY <1>3, <2>1, <3>1
  <2> QED
    BY <2>2, <2>3, <2>4
<1>11. ASSUME NEW t \in Task, NEW m \in Mutex, Give(t, m) PROVE queue' = queue /\ Pending' = Pending
  <2>1. queue' = queue /\ call[t] = NoCall /\ Wakes(m, t) /\ m \in Object /\ call[t].at # "blocked"
    BY <1>11, GiveFacts DEF Give, Awake
  <2> QED
    BY <1>2, <1>3, <2>1, WakesPending
<1>12. ASSUME NEW t \in Task, NEW n \in Ticks, Delay(t, n) PROVE queue' = queue /\ Pending' = Pending
  <2>1. /\ queue' = queue /\ call[t] = NoCall /\ call'[t].for = "delay"
        /\ \A u \in Task \ {t} : call'[u] = call[u]
    BY <1>1, <1>12 DEF Delay
  <2> QED
    BY <1>2, <1>3, <2>1 DEF PendOf
<1>13. CASE UNCHANGED vars
  BY <1>13, PendingKept DEF vars
<1>14. ASSUME NEW t \in Task, TaskStep(t) PROVE Timed!Next \/ (queue' = queue /\ Pending' = Pending)
  BY <1>4, <1>5, <1>8, <1>9, <1>10, <1>11, <1>12, <1>14, TaskCases
<1> QED
  BY <1>13, <1>14, TimedTick DEF Next

\* The queue keeps the promise of TimedQueue: its messages are put and taken one at
\* a time within its bounds, and a call gives up only when its time has run out, a
\* receive only when the queue is empty, whatever happens between the critical
\* section of a call and the one with the scheduler suspended (xQueueGenericSend,
\* xQueueReceive, xTaskIncrementTick).
THEOREM QueueIsTimed == Spec => RefinesTimedQueue
<1>1. Init => Timed!Init
  <2> SUFFICES ASSUME Init PROVE Timed!Init
    OBVIOUS
  <2>1. \A t \in Task : call[t] = NoCall
    BY DEF Init
  <2>2. Pending = [t \in Task |-> Served]
    BY <2>1, NoCallFields, KernelAssumption, PendingFacts DEF PendOf
  <2> QED
    BY <2>2 DEF Init, Timed!Init, Timed!Served, Served
<1> QED
  BY <1>1, InitType, InitNest, InitLast, TypeStep, NestStep, LastStep, TimedStep, PTL
     DEF Spec, RefinesTimedQueue, Timed!Spec

=============================================================================
