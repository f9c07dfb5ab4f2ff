-------------------------- MODULE RtosTimer_proofs --------------------------
(***************************************************************************)
(* The software timers, for every width of the tick count and every        *)
(* period: what prvInsertTimerInActiveList decides from three times that   *)
(* may lie on either side of an overflow, what the daemon, its lists and   *)
(* its queue always hold, and that the timers keep the promises of         *)
(* TimerService as long as they are late by less than a whole wrap.        *)
(***************************************************************************)
EXTENDS RtosTimer, FiniteSetTheorems, SequenceTheorems, TLAPS

\* Sums and differences of TickType_t stay in range, and undo one another.
LEMMA TickArithmetic ==
  ASSUME NEW a \in TickType, NEW n \in TickType
  PROVE  /\ Plus(a, n) \in TickType
         /\ Minus(a, n) \in TickType
         /\ Minus(Plus(a, n), a) = n
<1>1. TickLimit \in Nat \ {0}
  BY TimerAssumption
<1>2. a \in Int /\ 0 <= a /\ a < TickLimit /\ n \in Int /\ 0 <= n /\ n < TickLimit
  BY <1>1 DEF TickType
<1>3. Plus(a, n) \in TickType
  BY <1>1, <1>2 DEF Plus, TickType
<1>4. Minus(a, n) \in TickType
  BY <1>1, <1>2 DEF Minus, TickType
<1>5. Minus(Plus(a, n), a) = n
  <2>1. CASE a + n >= TickLimit
    BY <1>1, <1>2, <2>1 DEF Plus, Minus
  <2>2. CASE ~(a + n >= TickLimit)
    BY <1>1, <1>2, <2>2 DEF Plus, Minus
  <2> QED
    BY <2>1, <2>2
<1> QED
  BY <1>3, <1>4, <1>5

\* prvInsertTimerInActiveList has a timer processed at once if and only if its
\* period has passed since the command was issued, whether or not the tick count
\* has overflowed since, before the expiry time or after it.
THEOREM PassedCorrect ==
  ASSUME NEW t \in Timer, NEW cmd \in TickType, NEW age \in TickType
  PROVE  Passed(t, Plus(cmd, Period[t]), Plus(cmd, age), cmd) <=> age >= Period[t]
<1> DEFINE P == Period[t]
           now == Plus(cmd, age)
           next == Plus(cmd, P)
<1>1. TickLimit \in Nat \ {0} /\ P \in 1..(TickLimit - 1)
  BY TimerAssumption
<1>2. /\ cmd \in Int /\ 0 <= cmd /\ cmd < TickLimit
      /\ age \in Int /\ 0 <= age /\ age < TickLimit
      /\ P \in Int /\ 0 < P /\ P < TickLimit
  BY <1>1 DEF TickType
<1>3. Minus(now, cmd) = age
  BY TickArithmetic
<1>4. CASE next <= now
  BY <1>3, <1>4 DEF Passed
<1>5. CASE ~(next <= now)
  <2>1. Passed(t, next, now, cmd) <=> now < cmd /\ next >= cmd
    BY <1>5 DEF Passed
  <2> HIDE DEF P
  <2>2. now < cmd /\ next >= cmd <=> age >= P
    BY <1>1, <1>2, <1>5 DEF Plus
  <2> QED
    BY <2>1, <2>2 DEF P
<1> QED
  BY <1>4, <1>5

\* A timer that is not processed at once is inserted in the right list with the
\* right value: it is due Period - age ticks from now, in the overflow list if that
\* is after the next overflow, in the current list if it is before.
THEOREM InsertionCorrect ==
  ASSUME NEW t \in Timer, NEW cmd \in TickType, NEW age \in TickType,
         ~Passed(t, Plus(cmd, Period[t]), Plus(cmd, age), cmd)
  PROVE  LET next == Plus(cmd, Period[t])
             now  == Plus(cmd, age)
         IN  /\ next <= now <=> now + (Period[t] - age) >= TickLimit
             /\ Period[t] - age = IF next <= now THEN next + TickLimit - now ELSE next - now
             /\ Period[t] - age > 0
<1> DEFINE P == Period[t]
<1>1. TickLimit \in Nat \ {0} /\ P \in 1..(TickLimit - 1)
  BY TimerAssumption
<1>2. /\ cmd \in Int /\ 0 <= cmd /\ cmd < TickLimit
      /\ age \in Int /\ 0 <= age /\ age < TickLimit
      /\ P \in Int /\ 0 < P /\ P < TickLimit
  BY <1>1 DEF TickType
<1>3. age < P
  BY <1>2, PassedCorrect
<1> HIDE DEF P
<1> DEFINE now == Plus(cmd, age)
           next == Plus(cmd, P)
<1>4. next <= now <=> now + (P - age) >= TickLimit
  BY <1>1, <1>2, <1>3 DEF Plus
<1>5. P - age = IF next <= now THEN next + TickLimit - now ELSE next - now
  BY <1>1, <1>2, <1>3 DEF Plus
<1>6. P - age > 0
  BY <1>2, <1>3
<1> QED
  BY <1>4, <1>5, <1>6 DEF P

-----------------------------------------------------------------------------
(* The lists of active timers *)

Entry == [timer : Timer, value : TickType]

LEMMA TickNat ==
  /\ TickLimit \in Nat /\ TickLimit > 0
  /\ \A a \in TickType : a \in Nat /\ a < TickLimit
BY TimerAssumption DEF TickType

\* vListInsert finds a place.
LEMMA FirstLaterFound ==
  ASSUME NEW list \in Seq(Entry), NEW v \in TickType
  PROVE  LET k == FirstLater(list, v) IN
           /\ k \in 1..Len(list) + 1
           /\ k <= Len(list) => list[k].value > v
           /\ \A j \in 1..k - 1 : list[j].value <= v
<1>1. /\ Len(list) \in Nat
      /\ \A j \in 1..Len(list) : list[j] \in Entry /\ list[j].value \in Nat
      /\ v \in Nat
  <2>1. \A e \in Entry : e.value \in Nat
    BY TickNat DEF Entry
  <2>2. Len(list) \in Nat /\ \A j \in 1..Len(list) : list[j] \in Entry
    OBVIOUS
  <2> QED
    BY <2>1, <2>2, TickNat
<1>2. PICK Reached : Reached = {k \in 1..Len(list) + 1 : \A j \in 1..k - 1 : list[j].value <= v}
  OBVIOUS
<1>3. PICK c : c = Cardinality(Reached)
  OBVIOUS
<1>4. IsFiniteSet(Reached) /\ c \in Nat
  <2>1. Reached \in SUBSET (1..Len(list) + 1) /\ IsFiniteSet(1..Len(list) + 1)
    BY <1>1, <1>2, FS_Interval
  <2> QED
    BY <2>1, <1>3, FS_Subset, FS_CardinalityType
<1>5. ASSUME NEW k \in Reached PROVE k \in Nat \ {0} /\ k <= c
  <2>1. 1..k \in SUBSET Reached /\ k \in Nat \ {0}
    BY <1>1, <1>2
  <2>2. Cardinality(1..k) = k
    BY <2>1, FS_Interval
  <2>3. Cardinality(1..k) <= c
    BY <2>1, <1>3, <1>4, FS_Subset
  <2> QED
    BY <2>1, <2>2, <2>3
<1>6. 1 \in Reached
  BY <1>1, <1>2
<1>7. c \in Nat \ {0}
  BY <1>4, <1>5, <1>6
<1>8. c \in Reached
  <2> SUFFICES ASSUME c \notin Reached PROVE FALSE
    OBVIOUS
  <2>1. Reached \in SUBSET (1..c - 1)
    BY <1>5, <1>7
  <2>2. PICK d \in Nat : d = c - 1
    BY <1>7
  <2>3. IsFiniteSet(1..d) /\ Cardinality(1..d) = d
    <3>1. /\ IsFiniteSet(1..d)
          /\ Cardinality(1..d) = IF 1 > d THEN 0 ELSE d - 1 + 1
      BY 1 \in Int, d \in Int, FS_Interval
    <3> QED
      BY <3>1
  <2>4. Cardinality(Reached) <= Cardinality(1..d)
    BY <2>1, <2>2, <2>3, FS_Subset
  <2> QED
    BY <1>3, <1>7, <2>2, <2>3, <2>4
<1>9. c \in 1..Len(list) + 1 /\ \A j \in 1..c - 1 : list[j].value <= v
  BY <1>2, <1>8
<1>10. c <= Len(list) => list[c].value > v
  <2> SUFFICES ASSUME c <= Len(list), ~(list[c].value > v) PROVE FALSE
    OBVIOUS
  <2>1. c \in 1..Len(list) /\ list[c].value <= v
    BY <1>1, <1>7
  <2>2. \A j \in 1..(c + 1) - 1 : list[j].value <= v
    BY <2>1, <1>7, <1>9
  <2>3. c + 1 \in Reached
    BY <2>1, <2>2, <1>1, <1>2
  <2> QED
    BY <2>3, <1>5, <1>7
<1>11. \E k \in 1..Len(list) + 1 : /\ k <= Len(list) => list[k].value > v
                                   /\ \A j \in 1..k - 1 : list[j].value <= v
  BY <1>9, <1>10
<1> QED
  BY <1>11 DEF FirstLater

\* What the insertion of t at a place does to a list.
LEMMA InsertFacts ==
  ASSUME NEW S, NEW list \in Seq(S), NEW t \in S, NEW k \in 1..Len(list) + 1
  PROVE  LET new == InsertAt(list, k, t) IN
           /\ new \in Seq(S) /\ Len(new) = Len(list) + 1
           /\ \A j \in 1..k - 1 : new[j] = list[j]
           /\ new[k] = t
           /\ \A j \in k + 1..Len(list) + 1 : new[j] = list[j - 1]
<1> DEFINE front == SubSeq(list, 1, k - 1)
           back  == SubSeq(list, k, Len(list))
<1>1. Len(list) \in Nat /\ \A j \in 1..Len(list) : list[j] \in S
  OBVIOUS
<1>2. front \in Seq(S) /\ Len(front) = k - 1 /\ \A j \in 1..k - 1 : front[j] = list[j]
  <2>1. \A j \in 1..k - 1 : list[j] \in S
    BY <1>1
  <2> QED
    BY <1>1, <2>1, SubSeqProperties
<1>3. back \in Seq(S) /\ Len(back) = Len(list) - k + 1
      /\ \A j \in 1..Len(list) - k + 1 : back[j] = list[k + j - 1]
  <2>1. \A j \in k..Len(list) : list[j] \in S
    BY <1>1
  <2> QED
    BY <1>1, <2>1, SubSeqProperties
<1>4. <<t>> \in Seq(S) /\ Len(<<t>>) = 1 /\ <<t>>[1] = t
  OBVIOUS
<1> HIDE DEF front, back
<1>5. PICK upto : upto = front \o <<t>>
  OBVIOUS
<1>6. /\ upto \in Seq(S) /\ Len(upto) = k
      /\ \A i \in 1..k : upto[i] = IF i <= k - 1 THEN front[i] ELSE <<t>>[i - (k - 1)]
  <2>1. /\ upto \in Seq(S) /\ Len(upto) = Len(front) + Len(<<t>>)
        /\ \A i \in 1..Len(front) + Len(<<t>>) :
             upto[i] = IF i <= Len(front) THEN front[i] ELSE <<t>>[i - Len(front)]
    BY <1>2, <1>4, <1>5, ConcatProperties
  <2>2. Len(front) = k - 1 /\ Len(front) + Len(<<t>>) = k
    BY <1>1, <1>2, <1>4
  <2> QED
    BY <2>1, <2>2
<1>7. /\ upto \o back \in Seq(S) /\ Len(upto \o back) = Len(list) + 1
      /\ \A i \in 1..Len(list) + 1 : (upto \o back)[i] = IF i <= k THEN upto[i] ELSE back[i - k]
  <2>1. /\ upto \o back \in Seq(S) /\ Len(upto \o back) = Len(upto) + Len(back)
        /\ \A i \in 1..Len(upto) + Len(back) :
             (upto \o back)[i] = IF i <= Len(upto) THEN upto[i] ELSE back[i - Len(upto)]
    BY <1>3, <1>6, ConcatProperties
  <2>2. Len(upto) = k /\ Len(upto) + Len(back) = Len(list) + 1
    BY <1>1, <1>3, <1>6
  <2> QED
    BY <2>1, <2>2
<1>8. InsertAt(list, k, t) = upto \o back
  BY <1>5 DEF InsertAt, front, back
<1>9. PICK new : new = upto \o back
  OBVIOUS
<1>10. \A j \in 1..k - 1 : new[j] = list[j]
  BY <1>1, <1>2, <1>6, <1>7, <1>9
<1>11. new[k] = t
  BY <1>1, <1>4, <1>6, <1>7, <1>9
<1>12. \A j \in k + 1..Len(list) + 1 : new[j] = list[j - 1]
  <2> TAKE j \in k + 1..Len(list) + 1
  <2>1. new[j] = back[j - k] /\ j - k \in 1..Len(list) - k + 1 /\ k + (j - k) - 1 = j - 1
    BY <1>1, <1>7, <1>9, SMTT(40)
  <2> QED
    BY <2>1, <1>3
<1> QED
  BY <1>7, <1>8, <1>9, <1>10, <1>11, <1>12



\* A list is sorted, and no timer is in it twice.
Good(list) ==
  /\ list \in Seq(Entry)
  /\ \A i, j \in 1..Len(list) :
       i < j => list[i].value <= list[j].value /\ list[i].timer # list[j].timer

LEMMA EntryFacts == \A e \in Entry : e.timer \in Timer /\ e.value \in TickType /\ e.value \in Nat
BY TickNat DEF Entry

LEMMA GoodFacts ==
  ASSUME NEW list, Good(list)
  PROVE  /\ Len(list) \in Nat /\ ToSet(list) \in SUBSET Entry
         /\ ToSet(list) = {list[i] : i \in 1..Len(list)}
         /\ \A x, y \in ToSet(list) : x.timer = y.timer => x = y
         /\ list = <<>> <=> ToSet(list) = {}
<1>1. Len(list) \in Nat /\ DOMAIN list = 1..Len(list) /\ \A i \in 1..Len(list) : list[i] \in Entry
  BY DEF Good
<1>2. ToSet(list) = {list[i] : i \in 1..Len(list)}
  BY <1>1 DEF ToSet
<1>3. ASSUME NEW i \in 1..Len(list), NEW j \in 1..Len(list), list[i].timer = list[j].timer
      PROVE  i = j
  <2>1. ~(i < j) /\ ~(j < i)
    BY <1>3 DEF Good
  <2> QED
    BY <2>1
<1>4. \A x, y \in ToSet(list) : x.timer = y.timer => x = y
  BY <1>2, <1>3
<1>5. list = <<>> <=> Len(list) = 0
  BY DEF Good
<1> QED
  BY <1>1, <1>2, <1>4, <1>5

LEMMA InsertGood ==
  ASSUME NEW list, Good(list), NEW t \in Timer, NEW v \in TickType,
         \A e \in ToSet(list) : e.timer # t
  PROVE  /\ Good(ListInsert(list, t, v))
         /\ ToSet(ListInsert(list, t, v)) = ToSet(list) \cup {[timer |-> t, value |-> v]}
<1>1. PICK entry \in Entry : entry = [timer |-> t, value |-> v]
  BY DEF Entry
<1>2. entry.timer = t /\ entry.value = v
  BY <1>1
<1>3. list \in Seq(Entry) /\ Len(list) \in Nat
  BY DEF Good
<1>4. PICK k \in 1..Len(list) + 1 : /\ k = FirstLater(list, v)
                                    /\ k <= Len(list) => list[k].value > v
                                    /\ \A j \in 1..k - 1 : list[j].value <= v
  BY <1>3, FirstLaterFound
<1>5. PICK new : new = ListInsert(list, t, v)
  OBVIOUS
<1>6. new = InsertAt(list, k, entry)
  BY <1>1, <1>4, <1>5 DEF ListInsert
<1>7. /\ new \in Seq(Entry) /\ Len(new) = Len(list) + 1
      /\ \A j \in 1..k - 1 : new[j] = list[j]
      /\ new[k] = entry
      /\ \A j \in k + 1..Len(list) + 1 : new[j] = list[j - 1]
  <2>1. /\ InsertAt(list, k, entry) \in Seq(Entry)
        /\ Len(InsertAt(list, k, entry)) = Len(list) + 1
        /\ \A j \in 1..k - 1 : InsertAt(list, k, entry)[j] = list[j]
        /\ InsertAt(list, k, entry)[k] = entry
        /\ \A j \in k + 1..Len(list) + 1 : InsertAt(list, k, entry)[j] = list[j - 1]
    BY <1>3, InsertFacts
  <2> QED
    BY <1>6, <2>1
<1>8. \A j \in 1..Len(list) : list[j] \in Entry /\ list[j].value \in Nat /\ list[j].timer # t
  <2>1. \A j \in 1..Len(list) : list[j] \in Entry /\ list[j] \in ToSet(list)
    BY <1>3 DEF ToSet
  <2> QED
    BY <2>1, EntryFacts
<1>9. \A j \in k..Len(list) : list[j].value > v
  <2> SUFFICES ASSUME NEW j \in k..Len(list) PROVE list[j].value > v
    OBVIOUS
  <2>1. k \in 1..Len(list) /\ j \in 1..Len(list) /\ (k < j \/ k = j)
    BY <1>3
  <2>2. list[k].value <= list[j].value
    BY <1>8, <2>1 DEF Good
  <2> QED
    BY <1>4, <1>8, <2>1, <2>2, TickNat
<1>10. ASSUME NEW i \in 1..Len(new), NEW j \in 1..Len(new), i < j
       PROVE  new[i].value <= new[j].value /\ new[i].timer # new[j].timer
  <2>1. v \in Nat
    BY TickNat
  <2>2. CASE j < k
    <3>1. i \in 1..k - 1 /\ j \in 1..k - 1 /\ i \in 1..Len(list) /\ j \in 1..Len(list)
      BY <1>3, <1>10, <2>2
    <3> QED
      BY <1>7, <1>10, <3>1 DEF Good
  <2>3. CASE j = k
    <3>1. i \in 1..k - 1 /\ i \in 1..Len(list)
      BY <1>3, <1>10, <2>3
    <3>2. new[i] = list[i] /\ new[j] = entry
      BY <1>7, <2>3, <3>1
    <3> QED
      BY <1>2, <1>4, <1>8, <3>1, <3>2
  <2>4. CASE j > k /\ i = k
    <3>1. j - 1 \in k..Len(list) /\ j - 1 \in 1..Len(list) /\ j \in k + 1..Len(list) + 1
      BY <1>3, <1>7, <2>4
    <3>2. new[i] = entry /\ new[j] = list[j - 1]
      BY <1>7, <2>4, <3>1
    <3>3. list[j - 1].value > v /\ list[j - 1].value \in Nat /\ list[j - 1].timer # t
      BY <1>8, <1>9, <3>1
    <3> QED
      BY <1>2, <2>1, <3>2, <3>3
  <2>5. CASE j > k /\ i < k
    <3>1. j - 1 \in 1..Len(list) /\ j \in k + 1..Len(list) + 1 /\ i \in 1..k - 1
          /\ i \in 1..Len(list) /\ i < j - 1
      BY <1>3, <1>7, <2>5
    <3>2. new[i] = list[i] /\ new[j] = list[j - 1]
      BY <1>7, <3>1
    <3> QED
      BY <3>1, <3>2 DEF Good
  <2>6. CASE j > k /\ i > k
    <3>1. j - 1 \in 1..Len(list) /\ j \in k + 1..Len(list) + 1 /\ i \in k + 1..Len(list) + 1
          /\ i - 1 \in 1..Len(list) /\ i - 1 < j - 1
      BY <1>3, <1>7, <1>10, <2>6
    <3>2. new[i] = list[i - 1] /\ new[j] = list[j - 1]
      BY <1>7, <3>1
    <3> QED
      BY <3>1, <3>2 DEF Good
  <2> QED
    BY <1>3, <1>7, <2>2, <2>3, <2>4, <2>5, <2>6
<1>11. Good(new)
  BY <1>7, <1>10 DEF Good
<1>12. ToSet(new) = ToSet(list) \cup {entry}
  <2>1. ToSet(new) = {new[i] : i \in 1..Len(new)} /\ ToSet(list) = {list[i] : i \in 1..Len(list)}
    BY <1>11, GoodFacts
  <2>2. ASSUME NEW i \in 1..Len(new) PROVE new[i] \in ToSet(list) \cup {entry}
    <3>1. \/ i \in 1..k - 1 /\ i \in 1..Len(list)
          \/ i = k
          \/ i \in k + 1..Len(list) + 1 /\ i - 1 \in 1..Len(list)
      BY <1>3, <1>7
    <3> QED
      BY <1>7, <2>1, <3>1
  <2>3. entry \in ToSet(new)
    <3>1. k \in 1..Len(new)
      BY <1>7
    <3> QED
      BY <1>7, <2>1, <3>1
  <2>4. ASSUME NEW i \in 1..Len(list) PROVE list[i] \in ToSet(new)
    <3>1. CASE i < k
      <4>1. i \in 1..k - 1 /\ i \in 1..Len(new)
        BY <1>3, <1>7, <3>1
      <4> QED
        BY <1>7, <2>1, <4>1
    <3>2. CASE ~(i < k)
      <4>1. i + 1 \in k + 1..Len(list) + 1 /\ i + 1 \in 1..Len(new) /\ (i + 1) - 1 = i
        BY <1>3, <1>7, <3>2
      <4>2. new[i + 1] = list[i]
        BY <1>7, <4>1
      <4> QED
        BY <2>1, <4>1, <4>2
    <3> QED
      BY <3>1, <3>2
  <2> QED
    BY <2>1, <2>2, <2>3, <2>4
<1> QED
  BY <1>1, <1>5, <1>11, <1>12

LEMMA RemoveGood ==
  ASSUME NEW list, Good(list), NEW t
  PROVE  /\ Good(ListRemove(list, t))
         /\ ToSet(ListRemove(list, t)) = {e \in ToSet(list) : e.timer # t}
<1>1. list \in Seq(Entry) /\ Len(list) \in Nat /\ ToSet(list) = {list[i] : i \in 1..Len(list)}
  BY GoodFacts DEF Good
<1>2. PICK places : places = {i \in 1..Len(list) : list[i].timer = t}
  OBVIOUS
<1>3. CASE places = {}
  <2>1. ListRemove(list, t) = list
    BY <1>2, <1>3 DEF ListRemove
  <2>2. \A e \in ToSet(list) : e.timer # t
    BY <1>1, <1>2, <1>3
  <2> QED
    BY <2>1, <2>2
<1>4. CASE places # {}
  <2>1. PICK k \in 1..Len(list) : list[k].timer = t /\ k = CHOOSE i \in places : TRUE
    BY <1>2, <1>4
  <2>2. PICK front : front = SubSeq(list, 1, k - 1)
    OBVIOUS
  <2>3. PICK back : back = SubSeq(list, k + 1, Len(list))
    OBVIOUS
  <2>4. front \in Seq(Entry) /\ Len(front) = k - 1 /\ \A j \in 1..k - 1 : front[j] = list[j]
    <3>1. \A j \in 1..k - 1 : list[j] \in Entry
      BY <1>1
    <3> QED
      BY <1>1, <2>2, <3>1, SubSeqProperties
  <2>5. back \in Seq(Entry) /\ Len(back) = Len(list) - k
        /\ \A j \in 1..Len(list) - k : back[j] = list[k + j]
    <3>1. \A j \in k + 1..Len(list) : list[j] \in Entry
      BY <1>1
    <3> QED
      BY <1>1, <2>3, <3>1, SubSeqProperties
  <2>6. PICK new : new = ListRemove(list, t)
    OBVIOUS
  <2>7. new = front \o back
    BY <1>2, <1>4, <2>1, <2>2, <2>3, <2>6 DEF ListRemove, RemoveAt
  <2>8. /\ new \in Seq(Entry) /\ Len(new) = Len(list) - 1
        /\ \A i \in 1..Len(list) - 1 : new[i] = IF i <= k - 1 THEN front[i] ELSE back[i - (k - 1)]
    <3>1. /\ new \in Seq(Entry) /\ Len(new) = Len(front) + Len(back)
          /\ \A i \in 1..Len(front) + Len(back) :
               new[i] = IF i <= Len(front) THEN front[i] ELSE back[i - Len(front)]
      BY <2>4, <2>5, <2>7, ConcatProperties
    <3>2. Len(front) = k - 1 /\ Len(front) + Len(back) = Len(list) - 1
      BY <1>1, <2>4, <2>5
    <3> QED
      BY <3>1, <3>2
  <2>9. \A i \in 1..k - 1 : i \in 1..Len(list) - 1 /\ new[i] = list[i]
    BY <1>1, <2>4, <2>8
  <2>10. \A i \in k..Len(list) - 1 : new[i] = list[i + 1]
    <3> TAKE i \in k..Len(list) - 1
    <3>1. /\ i \in 1..Len(list) - 1 /\ ~(i <= k - 1)
          /\ i - (k - 1) \in 1..Len(list) - k /\ k + (i - (k - 1)) = i + 1
      BY <1>1
    <3> QED
      BY <2>5, <2>8, <3>1
  <2>11. PICK from : from = [i \in 1..Len(list) - 1 |-> IF i < k THEN i ELSE i + 1]
    OBVIOUS
  <2>12. \A i \in 1..Len(list) - 1 : from[i] \in 1..Len(list) /\ from[i] # k /\ new[i] = list[from[i]]
    <3> TAKE i \in 1..Len(list) - 1
    <3>1. CASE i < k
      <4>1. i \in 1..k - 1 /\ from[i] = i
        BY <1>1, <2>11, <3>1
      <4> QED
        BY <1>1, <2>9, <4>1
    <3>2. CASE ~(i < k)
      <4>1. i \in k..Len(list) - 1 /\ from[i] = i + 1 /\ i + 1 \in 1..Len(list) /\ i + 1 # k
        BY <1>1, <2>11, <3>2
      <4> QED
        BY <2>10, <4>1
    <3> QED
      BY <3>1, <3>2
  <2>13. \A i, j \in 1..Len(list) - 1 : i < j => from[i] < from[j]
    BY <1>1, <2>11
  <2>14. \A p \in 1..Len(list) : p # k => \E i \in 1..Len(list) - 1 : from[i] = p
    <3> TAKE p \in 1..Len(list)
    <3>1. CASE p < k
      <4>1. p \in 1..Len(list) - 1 /\ from[p] = p
        BY <1>1, <2>11, <3>1
      <4> QED
        BY <4>1
    <3>2. CASE p > k
      <4>1. p - 1 \in 1..Len(list) - 1 /\ ~(p - 1 < k) /\ (p - 1) + 1 = p
        BY <1>1, <3>2
      <4>2. from[p - 1] = p
        BY <2>11, <4>1
      <4> QED
        BY <4>1, <4>2
    <3> QED
      BY <1>1, <3>1, <3>2
  <2>15. Good(new)
    <3> SUFFICES ASSUME NEW i \in 1..Len(list) - 1, NEW j \in 1..Len(list) - 1, i < j
                 PROVE  new[i].value <= new[j].value /\ new[i].timer # new[j].timer
      BY <2>8 DEF Good
    <3>1. from[i] \in 1..Len(list) /\ from[j] \in 1..Len(list) /\ from[i] < from[j]
          /\ new[i] = list[from[i]] /\ new[j] = list[from[j]]
      BY <2>12, <2>13
    <3> QED
      BY <3>1 DEF Good
  <2>16. \A i \in 1..Len(list) : list[i].timer = t => i = k
    <3> SUFFICES ASSUME NEW i \in 1..Len(list), list[i].timer = t, i # k PROVE FALSE
      OBVIOUS
    <3>1. i < k \/ k < i
      BY <1>1
    <3> QED
      BY <2>1, <3>1 DEF Good
  <2>17. ToSet(new) = {new[i] : i \in 1..Len(list) - 1}
    BY <2>8, <2>15, GoodFacts
  <2>18. \A i \in 1..Len(list) - 1 : new[i] \in ToSet(list) /\ new[i].timer # t
    BY <1>1, <2>12, <2>16
  <2>19. \A i \in 1..Len(list) : list[i].timer # t => list[i] \in ToSet(new)
    <3> SUFFICES ASSUME NEW i \in 1..Len(list), list[i].timer # t PROVE list[i] \in ToSet(new)
      OBVIOUS
    <3>1. PICK j \in 1..Len(list) - 1 : from[j] = i
      BY <2>1, <2>14
    <3>2. new[j] = list[i]
      BY <2>12, <3>1
    <3> QED
      BY <2>17, <3>2
  <2>20. ToSet(new) \subseteq {e \in ToSet(list) : e.timer # t}
    BY <2>17, <2>18
  <2>21. {e \in ToSet(list) : e.timer # t} \subseteq ToSet(new)
    BY <1>1, <2>19
  <2> QED
    BY <2>6, <2>15, <2>20, <2>21
<1> QED
  BY <1>3, <1>4

LEMMA TailGood ==
  ASSUME NEW list, Good(list), list # <<>>
  PROVE  /\ Good(Tail(list))
         /\ Head(list) \in ToSet(list)
         /\ ToSet(Tail(list)) = {e \in ToSet(list) : e.timer # Head(list).timer}
         /\ \A e \in ToSet(list) : Head(list).value <= e.value
<1>1. list \in Seq(Entry) /\ Len(list) \in Nat \ {0} /\ ToSet(list) = {list[i] : i \in 1..Len(list)}
  BY GoodFacts DEF Good
<1>2. PICK new \in Seq(Entry) : new = Tail(list)
  BY <1>1, HeadTailProperties
<1>3. /\ Len(new) = Len(list) - 1 /\ \A i \in 1..Len(new) : new[i] = list[i + 1]
      /\ Head(list) = list[1]
  BY <1>1, <1>2, HeadTailProperties
<1>4. Good(new)
  <2> SUFFICES ASSUME NEW i \in 1..Len(new), NEW j \in 1..Len(new), i < j
               PROVE  new[i].value <= new[j].value /\ new[i].timer # new[j].timer
    BY DEF Good
  <2>1. i + 1 \in 1..Len(list) /\ j + 1 \in 1..Len(list) /\ i + 1 < j + 1
    BY <1>1, <1>3
  <2>2. new[i] = list[i + 1] /\ new[j] = list[j + 1]
    BY <1>3
  <2> QED
    BY <2>1, <2>2 DEF Good
<1>5. ToSet(new) = {new[i] : i \in 1..Len(new)}
  BY <1>4, GoodFacts
<1>6. Head(list) \in ToSet(list)
  BY <1>1, <1>3
<1>7. \A i \in 2..Len(list) : list[i].timer # list[1].timer /\ list[1].value <= list[i].value
  <2> TAKE i \in 2..Len(list)
  <2>1. 1 \in 1..Len(list) /\ i \in 1..Len(list) /\ 1 < i
    BY <1>1
  <2> QED
    BY <2>1 DEF Good
<1>8. list[1].value \in Nat
  <2>1. list[1] \in Entry
    BY <1>1
  <2> QED
    BY <2>1, EntryFacts
<1>9. \A i \in 1..Len(list) : i = 1 \/ i \in 2..Len(list)
  BY <1>1
<1>10. \A e \in ToSet(list) : Head(list).value <= e.value
  BY <1>1, <1>3, <1>7, <1>8, <1>9
<1>11. \A i \in 1..Len(new) : i + 1 \in 2..Len(list) /\ i + 1 \in 1..Len(list)
  BY <1>1, <1>3
<1>12. \A i \in 2..Len(list) : i - 1 \in 1..Len(new) /\ (i - 1) + 1 = i
  BY <1>1, <1>3
<1>13. ToSet(new) = {e \in ToSet(list) : e.timer # Head(list).timer}
  <2>1. \A i \in 1..Len(new) : new[i] \in ToSet(list) /\ new[i].timer # Head(list).timer
    BY <1>1, <1>3, <1>7, <1>11
  <2>2. \A i \in 2..Len(list) : list[i] = new[i - 1]
    BY <1>3, <1>12
  <2>3. \A i \in 2..Len(list) : list[i] \in ToSet(new)
    BY <1>5, <1>12, <2>2
  <2>4. ToSet(new) \subseteq {e \in ToSet(list) : e.timer # Head(list).timer}
    BY <1>5, <2>1
  <2>5. ASSUME NEW e \in ToSet(list), e.timer # Head(list).timer PROVE e \in ToSet(new)
    <3>1. PICK i \in 1..Len(list) : e = list[i]
      BY <1>1
    <3>2. i \in 2..Len(list)
      BY <1>3, <1>9, <2>5, <3>1
    <3> QED
      BY <2>3, <3>1, <3>2
  <2> QED
    BY <2>4, <2>5
<1> QED
  BY <1>2, <1>4, <1>6, <1>10, <1>13


-----------------------------------------------------------------------------
(* The times at which the timers are due *)

\* Both lists are sorted, and no timer is in both.
Lists ==
  /\ Good(current) /\ Good(overflow)
  /\ \A x \in ToSet(current), y \in ToSet(overflow) : x.timer # y.timer

\* t is listed for the time d, counted like Now.
DueAt(t, d) ==
  \/ \E e \in ToSet(current) : e.timer = t /\ e.value = d
  \/ \E e \in ToSet(overflow) : e.timer = t /\ e.value + TickLimit = d

LEMMA ListTypes ==
  ASSUME Lists
  PROVE  /\ \A e \in ToSet(current) \cup ToSet(overflow) :
              e.timer \in Timer /\ e.value \in TickType /\ e.value \in Nat
         /\ TickLimit \in Nat
BY GoodFacts, EntryFacts, TickNat DEF Lists

LEMMA DueFacts ==
  ASSUME Lists
  PROVE  /\ \A t, d : DueAt(t, d) => t \in Timer /\ d \in Nat
         /\ \A t : Listed(t) <=> \E d \in Nat : DueAt(t, d)
         /\ \A t, c, d : DueAt(t, c) /\ DueAt(t, d) => c = d
<1>1. ASSUME NEW t, NEW d, DueAt(t, d) PROVE t \in Timer /\ d \in Nat
  BY <1>1, ListTypes DEF DueAt
<1>2. ASSUME NEW t PROVE Listed(t) <=> \E d \in Nat : DueAt(t, d)
  <2>1. ASSUME NEW e \in ToSet(current), e.timer = t PROVE e.value \in Nat /\ DueAt(t, e.value)
    BY <2>1, ListTypes DEF DueAt
  <2>2. ASSUME NEW e \in ToSet(overflow), e.timer = t
        PROVE  e.value + TickLimit \in Nat /\ DueAt(t, e.value + TickLimit)
    BY <2>2, ListTypes DEF DueAt
  <2>3. (\E d \in Nat : DueAt(t, d)) => Listed(t)
    BY DEF DueAt, Listed, Holds
  <2>4. Listed(t) => \E d \in Nat : DueAt(t, d)
    BY <2>1, <2>2 DEF Listed, Holds
  <2> QED
    BY <2>3, <2>4
<1>3. ASSUME NEW t, NEW c, NEW d, DueAt(t, c), DueAt(t, d) PROVE c = d
  <2>1. /\ \A x, y \in ToSet(current) : x.timer = y.timer => x = y
        /\ \A x, y \in ToSet(overflow) : x.timer = y.timer => x = y
        /\ \A x \in ToSet(current), y \in ToSet(overflow) : x.timer # y.timer
    BY GoodFacts DEF Lists
  <2>2. CASE \E x \in ToSet(current) : x.timer = t /\ x.value = c
    BY <1>3, <2>1, <2>2 DEF DueAt
  <2>3. CASE \E x \in ToSet(overflow) : x.timer = t /\ x.value + TickLimit = c
    BY <1>3, <2>1, <2>3 DEF DueAt
  <2> QED
    BY <1>3, <2>2, <2>3 DEF DueAt
<1> QED
  BY <1>1, <1>2, <1>3

LEMMA DuesAreTimes ==
  Lists => (\A u : Listed(u) <=> \E d \in Nat : DueAt(u, d)) /\ (\A u, d : DueAt(u, d) => d \in Nat)
BY DueFacts

LEMMA DuesAreTimesNext ==
  (Lists => (\A u : Listed(u) <=> \E d \in Nat : DueAt(u, d)) /\ (\A u, d : DueAt(u, d) => d \in Nat))'
BY DuesAreTimes, PTL

\* What a step does to these times.
SameDues    == \A u, d : DueAt(u, d)' <=> DueAt(u, d)
Drops(t)    == \A u, d : DueAt(u, d)' <=> DueAt(u, d) /\ u # t
Gains(t, x) == \A u, d : DueAt(u, d)' <=> DueAt(u, d) \/ (u = t /\ d = x)
Shifts      == \A u, d : DueAt(u, d)' <=> d \in Nat /\ DueAt(u, d + TickLimit)

LEMMA ListsStay ==
  ASSUME Lists, current' = current, overflow' = overflow
  PROVE  Lists' /\ SameDues
BY DEF Lists, SameDues, DueAt

LEMMA HeadTaken ==
  ASSUME Lists, current # <<>>, current' = Tail(current), overflow' = overflow
  PROVE  /\ Lists'
         /\ Head(current).timer \in Timer /\ Head(current).value \in TickType
         /\ DueAt(Head(current).timer, Head(current).value)
         /\ Drops(Head(current).timer)
         /\ \A e \in ToSet(current) : Head(current).value <= e.value
<1>1. PICK h : h = Head(current)
  OBVIOUS
<1>2. /\ Good(current') /\ h \in ToSet(current)
      /\ ToSet(current') = {e \in ToSet(current) : e.timer # h.timer}
      /\ \A e \in ToSet(current) : h.value <= e.value
  BY <1>1, TailGood DEF Lists
<1>3. h.timer \in Timer /\ h.value \in TickType /\ DueAt(h.timer, h.value)
  BY <1>2, ListTypes DEF DueAt
<1>4. Lists'
  BY <1>2 DEF Lists
<1>5. \A y \in ToSet(overflow) : y.timer # h.timer
  BY <1>2 DEF Lists
<1>6. ASSUME NEW u, NEW d PROVE DueAt(u, d)' <=> DueAt(u, d) /\ u # h.timer
  BY <1>2, <1>5 DEF DueAt
<1> QED
  BY <1>1, <1>2, <1>3, <1>4, <1>6 DEF Drops

LEMMA TimerInserted ==
  ASSUME Lists, NEW t \in Timer, NEW next \in TickType, NEW now \in TickType,
         ~Listed(t), InsertTimer(t, next, now)
  PROVE  /\ Lists'
         /\ Gains(t, IF next <= now THEN next + TickLimit ELSE next)
<1>1. PICK entry : entry = [timer |-> t, value |-> next]
  OBVIOUS
<1>2. entry.timer = t /\ entry.value = next
  BY <1>1
<1>3. /\ \A e \in ToSet(current) : e.timer # t
      /\ \A e \in ToSet(overflow) : e.timer # t
  BY DEF Listed, Holds
<1>4. CASE next <= now
  <2>1. overflow' = ListInsert(overflow, t, next) /\ current' = current
    BY <1>4 DEF InsertTimer
  <2>2. Good(overflow') /\ ToSet(overflow') = ToSet(overflow) \cup {entry}
    BY <1>1, <1>3, <2>1, InsertGood DEF Lists
  <2>3. Lists'
    BY <1>2, <1>3, <2>1, <2>2 DEF Lists
  <2>4. ASSUME NEW u, NEW d
        PROVE  DueAt(u, d)' <=> DueAt(u, d) \/ (u = t /\ d = next + TickLimit)
    BY <1>2, <2>1, <2>2 DEF DueAt
  <2> QED
    BY <1>4, <2>3, <2>4 DEF Gains
<1>5. CASE ~(next <= now)
  <2>1. current' = ListInsert(current, t, next) /\ overflow' = overflow
    BY <1>5 DEF InsertTimer
  <2>2. Good(current') /\ ToSet(current') = ToSet(current) \cup {entry}
    BY <1>1, <1>3, <2>1, InsertGood DEF Lists
  <2>3. Lists'
    BY <1>2, <1>3, <2>1, <2>2 DEF Lists
  <2>4. ASSUME NEW u, NEW d
        PROVE  DueAt(u, d)' <=> DueAt(u, d) \/ (u = t /\ d = next)
    BY <1>2, <2>1, <2>2 DEF DueAt
  <2> QED
    BY <1>5, <2>3, <2>4 DEF Gains
<1> QED
  BY <1>4, <1>5

LEMMA TimerRemoved ==
  ASSUME Lists, NEW t, current' = ListRemove(current, t), overflow' = ListRemove(overflow, t)
  PROVE  Lists' /\ Drops(t)
<1>1. /\ Good(current') /\ ToSet(current') = {e \in ToSet(current) : e.timer # t}
      /\ Good(overflow') /\ ToSet(overflow') = {e \in ToSet(overflow) : e.timer # t}
  BY RemoveGood DEF Lists
<1>2. Lists'
  BY <1>1 DEF Lists
<1>3. ASSUME NEW u, NEW d PROVE DueAt(u, d)' <=> DueAt(u, d) /\ u # t
  BY <1>1 DEF DueAt
<1> QED
  BY <1>2, <1>3 DEF Drops

LEMMA ListsSwitched ==
  ASSUME Lists, current = <<>>, current' = overflow, overflow' = <<>>
  PROVE  /\ Lists' /\ Shifts
         /\ \A u, d : DueAt(u, d) => d >= TickLimit
<1>1. Good(<<>>) /\ ToSet(<<>>) = {}
  <2>1. <<>> \in Seq(Entry) /\ Len(<<>>) = 0
    OBVIOUS
  <2>2. Good(<<>>)
    BY <2>1 DEF Good
  <2> QED
    BY <2>2, GoodFacts
<1>2. Lists'
  BY <1>1 DEF Lists
<1>3. \A u, d : DueAt(u, d)' <=> \E e \in ToSet(overflow) : e.timer = u /\ e.value = d
  BY <1>1 DEF DueAt
<1>4. \A u, d : DueAt(u, d) <=> \E e \in ToSet(overflow) : e.timer = u /\ e.value + TickLimit = d
  BY <1>1 DEF DueAt
<1>5. \A e \in ToSet(overflow) : e.value \in Nat /\ TickLimit \in Nat
  BY ListTypes
<1>6. \A u, d : DueAt(u, d) => d >= TickLimit
  BY <1>4, <1>5
<1>7. Shifts
  BY <1>3, <1>4, <1>5 DEF Shifts
<1> QED
  BY <1>2, <1>6, <1>7

-----------------------------------------------------------------------------
(* The inductive invariant *)

TypeInv ==
  /\ xTickCount \in TickType /\ xLastTime \in TickType
  /\ Lists
  /\ xTimerQueue \in Seq(Commands) /\ Len(xTimerQueue) <= QueueLength
  /\ memory \in [Timer -> {"free", "created", "use", "back", "lost"}]
  /\ stamp \in [Timer -> TickType]
  /\ active \subseteq Timer
  /\ daemon \in Daemon

\* Where the daemon is tells what it carries.
InCallback == {"fire", "delete", "deleting", "callback"}
PhaseInv ==
  /\ daemon.at \in InCallback <=> daemon.fire # NULL
  /\ daemon.at \in {"delete", "deleting"} => daemon.fire \notin Periodic
  /\ daemon.then = "switch" => daemon.at \in InCallback \cup {"switch"}
  /\ daemon.at = "switch" => daemon.then = "switch"
  /\ daemon.hand # NULL => daemon.at = "apply" \/ daemon.then = "switch"
  /\ daemon.at = "apply" => daemon.hand # NULL
  /\ daemon.at = "deleting" => daemon.left <= DeleteWait
  /\ \A t \in Timer : daemon.fire = t /\ (daemon.at = "fire" \/ t \notin Periodic) => ~Listed(t)

\* A timer is started once, before it is stopped or deleted; nothing comes after
\* its delete, and it is not armed before its start or after its delete.
Idles(t) == ~Listed(t) /\ (daemon.fire = t => daemon.at = "callback" /\ t \notin Periodic)
Runs(t) == memory[t] = "use" \/ (t \in Periodic /\ memory[t] = "back")
QueueInv ==
  \A i \in 1..Len(xTimerQueue), t \in Timer : xTimerQueue[i].timer = t =>
    /\ memory[t] \in {"use", "back"}
    /\ xTimerQueue[i].op = "DELETE" =>
         memory[t] = "back" /\ \A j \in 1..Len(xTimerQueue) : j > i => xTimerQueue[j].timer # t
    /\ xTimerQueue[i].op = "START" =>
         /\ Idles(t) /\ Runs(t)
         /\ \A j \in 1..Len(xTimerQueue) : j < i => xTimerQueue[j].timer # t
         /\ daemon.hand # NULL => daemon.hand.timer # t
CommandInv ==
  \A t \in Timer : daemon.hand # NULL /\ daemon.hand.timer = t =>
    /\ memory[t] \in {"use", "back"}
    /\ daemon.hand.op = "START" => Idles(t) /\ Runs(t)
    /\ daemon.hand.op = "DELETE" =>
         /\ memory[t] = "back" /\ Idles(t)
         /\ \A j \in 1..Len(xTimerQueue) : xTimerQueue[j].timer # t
MemoryInv == \A t \in Timer : ~Idles(t) => Runs(t)

\* How late the daemon and the tasks may be: as the ticks are bounded, and by the
\* deletes that have waited in vain.
Lost   == {t \in Timer \ Periodic : memory[t] = "lost"}
Waited == DeleteWait * Cardinality(Lost)
            + IF daemon.at = "deleting" THEN DeleteWait - daemon.left ELSE 0
Lag    == 2 * MaxLate + Waited

\* The last time at which a timer may have been inserted.
Sampled == IF daemon.then = "switch" THEN TickLimit - 1 ELSE xLastTime

TimeInv ==
  \A t \in Timer, d \in Nat : DueAt(t, d) => Now - d <= Lag /\ d <= Sampled + Period[t]

\* How old a command is.
AgeInv ==
  /\ \A i \in 1..Len(xTimerQueue), c \in Commands : xTimerQueue[i] = c => Age(c) <= Lag
  /\ \A t \in Timer : memory[t] = "created" => Minus(xTickCount, stamp[t]) <= Lag

\* The command that is about to be carried out, and the callback that is due: both
\* are compared with the sample, and no overflow since is overlooked.
HandInv ==
  /\ \A c \in Commands : daemon.hand = c =>
       /\ Age(c) <= Lag
       /\ c.op = "START" =>
            Minus(daemon.now, c.value) + Minus(xTickCount, daemon.now) = Minus(xTickCount, c.value)
  /\ daemon.at = "apply" => daemon.now = xLastTime
FireInv ==
  \A t \in Timer : Firing(t) =>
    IF daemon.then = "switch"
    THEN xTickCount < daemon.exp /\ xTickCount + TickLimit - daemon.exp <= Lag
    ELSE /\ daemon.now = xLastTime
         /\ Minus(daemon.now, daemon.exp) + Minus(xTickCount, daemon.now) = Minus(xTickCount, daemon.exp)
         /\ Minus(xTickCount, daemon.exp) <= Lag
SwitchInv ==
  daemon.then = "switch" /\ Armed # {} => daemon.now <= xTickCount

\* The daemon does not sleep longer than until the next timer is due.
SleepInv ==
  daemon.at = "asleep" =>
    \A t \in Timer, d \in Nat : DueAt(t, d) => d - Now >= 1 /\ d - Now >= daemon.left

-----------------------------------------------------------------------------
(* What the steps do *)

\* The daemon has moved on.
Moves(at, now, hand, fire, exp, then, left) ==
  daemon' = [at |-> at, now |-> now, hand |-> hand, fire |-> fire, exp |-> exp,
             then |-> then, left |-> left]

LEMMA MovesFields ==
  ASSUME NEW at, NEW now, NEW hand, NEW fire, NEW exp, NEW then, NEW left,
         Moves(at, now, hand, fire, exp, then, left)
  PROVE  /\ daemon'.at = at /\ daemon'.now = now /\ daemon'.hand = hand /\ daemon'.fire = fire
         /\ daemon'.exp = exp /\ daemon'.then = then /\ daemon'.left = left
BY DEF Moves

LEMMA ToFields ==
  ASSUME NEW a
  PROVE  To(a) = [at |-> a, now |-> 0, hand |-> NULL, fire |-> NULL, exp |-> 0,
                  then |-> "commands", left |-> 0]
BY DEF To, Idle

LEMMA DaemonFields ==
  ASSUME TypeInv
  PROVE  /\ daemon = [at |-> daemon.at, now |-> daemon.now, hand |-> daemon.hand,
                      fire |-> daemon.fire, exp |-> daemon.exp, then |-> daemon.then,
                      left |-> daemon.left]
         /\ daemon.at \in {"loop", "switch", "fire", "delete", "deleting", "callback", "commands", "apply", "asleep"}
         /\ daemon.now \in TickType /\ daemon.hand \in Commands \cup {NULL}
         /\ daemon.fire \in Timer \cup {NULL} /\ daemon.exp \in TickType
         /\ daemon.then \in {"switch", "commands"} /\ daemon.left \in 0..Forever
BY DEF TypeInv, Daemon

\* Where nothing else is said, the daemon has no command, no callback and does
\* not switch the lists.
LEMMA AtRest ==
  ASSUME TypeInv, PhaseInv, daemon.at \in {"loop", "commands", "asleep"}
  PROVE  daemon.hand = NULL /\ daemon.fire = NULL /\ daemon.then = "commands"
BY DaemonFields DEF PhaseInv, InCallback

LEMMA FindOverflowFacts ==
  ASSUME TypeInv, PhaseInv, FindOverflow
  PROVE  /\ daemon.at = "loop" /\ Overflowed
         /\ Moves("switch", xTickCount, NULL, NULL, 0, "switch", 0)
         /\ Lists' /\ SameDues
         /\ UNCHANGED <<xTickCount, xLastTime, active, xTimerQueue, memory, stamp>>
<1>1. PICK r : r = [at |-> "switch", now |-> 0, hand |-> NULL, fire |-> NULL, exp |-> 0,
                    then |-> "commands", left |-> 0]
  OBVIOUS
<1>2. r = To("switch")
  BY <1>1, ToFields
<1>3. daemon' = [r EXCEPT !.then = "switch", !.now = xTickCount]
  BY <1>2 DEF FindOverflow
<1>4. Moves("switch", xTickCount, NULL, NULL, 0, "switch", 0)
  BY <1>1, <1>3 DEF Moves
<1> QED
  BY <1>4, ListsStay DEF FindOverflow, TypeInv, listVars, taskVars

LEMMA FindExpiredFacts ==
  ASSUME TypeInv, PhaseInv, FindExpired
  PROVE  \E t \in Timer, v \in TickType :
           /\ daemon.at = "loop" /\ ~Overflowed
           /\ DueAt(t, v) /\ v <= xTickCount /\ xLastTime' = xTickCount
           /\ Moves("fire", xTickCount, NULL, t, v, "commands", 0)
           /\ Lists' /\ Drops(t)
           /\ UNCHANGED <<xTickCount, active, xTimerQueue, memory, stamp>>
<1>1. PICK r : r = [at |-> "fire", now |-> 0, hand |-> NULL, fire |-> NULL, exp |-> 0,
                    then |-> "commands", left |-> 0]
  OBVIOUS
<1>2. r = To("fire")
  BY <1>1, ToFields
<1>3. /\ Lists' /\ Drops(Head(current).timer) /\ DueAt(Head(current).timer, Head(current).value)
      /\ Head(current).timer \in Timer /\ Head(current).value \in TickType
  BY HeadTaken DEF FindExpired, HeadExpired, TypeInv
<1>4. PICK t \in Timer, v \in TickType : t = Head(current).timer /\ v = Head(current).value
  BY <1>3
<1>5. daemon' = [r EXCEPT !.now = xTickCount, !.fire = t, !.exp = v]
  BY <1>2, <1>4 DEF FindExpired
<1>6. Moves("fire", xTickCount, NULL, t, v, "commands", 0)
  BY <1>1, <1>5 DEF Moves
<1> QED
  BY <1>3, <1>4, <1>6 DEF FindExpired, HeadExpired, taskVars

\* If no timer has expired, each is due later than now, and not before the time the
\* daemon sleeps.
LEMMA NothingExpired ==
  ASSUME TypeInv, ~HeadExpired
  PROVE  /\ TicksToWait \in 0..Forever
         /\ \A t, d : DueAt(t, d) => d > xTickCount /\ d - xTickCount >= TicksToWait
<1>1. xTickCount \in Nat /\ xTickCount < TickLimit /\ TickLimit \in Nat \ {0}
  BY TickNat DEF TypeInv
<1>2. /\ \A e \in ToSet(current) \cup ToSet(overflow) : e.value \in Nat /\ e.value < TickLimit
      /\ Good(current) /\ Good(overflow)
  BY ListTypes, TickNat DEF TypeInv, Lists
<1>3. CASE current # <<>>
  <2>1. PICK h : h = Head(current).value
    OBVIOUS
  <2>2. h \in Nat /\ h < TickLimit /\ \A e \in ToSet(current) : h <= e.value
    BY <1>2, <1>3, <2>1, TailGood
  <2>3. h > xTickCount
    BY <1>1, <1>3, <2>1, <2>2 DEF HeadExpired
  <2>4. TicksToWait = h - xTickCount
    BY <1>3, <2>1 DEF TicksToWait
  <2>5. h - xTickCount \in 0..Forever
    BY <1>1, <2>2, <2>3 DEF Forever
  <2>6. ASSUME NEW t, NEW d, DueAt(t, d) PROVE d > xTickCount /\ d - xTickCount >= h - xTickCount
    <3>1. CASE \E e \in ToSet(current) : e.value = d
      BY <1>1, <1>2, <2>2, <2>3, <3>1
    <3>2. CASE \E e \in ToSet(overflow) : e.value + TickLimit = d
      BY <1>1, <1>2, <2>2, <2>3, <3>2
    <3> QED
      BY <2>6, <3>1, <3>2 DEF DueAt
  <2> QED
    BY <2>4, <2>5, <2>6
<1>4. CASE current = <<>>
  <2>1. ToSet(current) = {}
    BY <1>2, <1>4, GoodFacts
  <2>2. CASE overflow # <<>>
    <3>1. TicksToWait = Minus(0, xTickCount)
      BY <1>4, <2>2 DEF TicksToWait
    <3>2. Minus(0, xTickCount) \in 0..Forever /\ Minus(0, xTickCount) <= TickLimit - xTickCount
      BY <1>1 DEF Minus, Forever
    <3>3. PICK w : w = Minus(0, xTickCount)
      OBVIOUS
    <3>4. ASSUME NEW t, NEW d, DueAt(t, d) PROVE d > xTickCount /\ d - xTickCount >= w
      <4>1. PICK e \in ToSet(overflow) : e.value + TickLimit = d
        BY <2>1, <3>4 DEF DueAt
      <4>2. e.value \in Nat /\ w \in Nat /\ w <= TickLimit - xTickCount
        BY <1>1, <1>2, <3>2, <3>3 DEF Forever
      <4> QED
        BY <1>1, <4>1, <4>2
    <3> QED
      BY <3>1, <3>2, <3>3, <3>4
  <2>3. CASE overflow = <<>>
    <3>1. ToSet(overflow) = {}
      BY <1>2, <2>3, GoodFacts
    <3>2. TicksToWait \in 0..Forever
      BY <1>1, <1>4, <2>3 DEF TicksToWait, Forever
    <3> QED
      BY <2>1, <3>1, <3>2 DEF DueAt
  <2> QED
    BY <2>2, <2>3
<1> QED
  BY <1>3, <1>4

LEMMA BlockTaskFacts ==
  ASSUME TypeInv, PhaseInv, BlockTask
  PROVE  /\ daemon.at = "loop" /\ ~Overflowed /\ ~HeadExpired
         /\ xLastTime' = xTickCount
         /\ \/ xTimerQueue = <<>> /\ Moves("asleep", 0, NULL, NULL, 0, "commands", TicksToWait)
            \/ xTimerQueue # <<>> /\ Moves("commands", 0, NULL, NULL, 0, "commands", 0)
         /\ Lists' /\ SameDues
         /\ UNCHANGED <<xTickCount, active, xTimerQueue, memory, stamp>>
<1>1. /\ To("asleep") = [at |-> "asleep", now |-> 0, hand |-> NULL, fire |-> NULL, exp |-> 0,
                         then |-> "commands", left |-> 0]
      /\ To("commands") = [at |-> "commands", now |-> 0, hand |-> NULL, fire |-> NULL, exp |-> 0,
                         then |-> "commands", left |-> 0]
  BY ToFields
<1>2. \/ xTimerQueue = <<>> /\ Moves("asleep", 0, NULL, NULL, 0, "commands", TicksToWait)
      \/ xTimerQueue # <<>> /\ Moves("commands", 0, NULL, NULL, 0, "commands", 0)
  BY <1>1 DEF BlockTask, Moves
<1> QED
  BY <1>2, ListsStay DEF BlockTask, TypeInv, listVars, taskVars

LEMMA SwitchExpiredFacts ==
  ASSUME TypeInv, PhaseInv, SwitchExpired
  PROVE  \E t \in Timer, v \in TickType :
           /\ daemon.at = "switch" /\ daemon.then = "switch" /\ daemon.fire = NULL
           /\ DueAt(t, v)
           /\ Moves("fire", daemon.now, daemon.hand, t, v, "switch", daemon.left)
           /\ Lists' /\ Drops(t)
           /\ UNCHANGED <<xTickCount, xLastTime, active, xTimerQueue, memory, stamp>>
<1>1. /\ Lists' /\ Drops(Head(current).timer) /\ DueAt(Head(current).timer, Head(current).value)
      /\ Head(current).timer \in Timer /\ Head(current).value \in TickType
  BY HeadTaken DEF SwitchExpired, TypeInv
<1>2. PICK t \in Timer, v \in TickType : t = Head(current).timer /\ v = Head(current).value
  BY <1>1
<1>3. daemon.at = "switch" /\ daemon.then = "switch" /\ daemon.fire = NULL
  BY DEF SwitchExpired, PhaseInv, InCallback
<1>4. daemon' = [daemon EXCEPT !.at = "fire", !.fire = t, !.exp = v]
  BY <1>2 DEF SwitchExpired
<1>5. Moves("fire", daemon.now, daemon.hand, t, v, "switch", daemon.left)
  BY <1>3, <1>4, DaemonFields DEF Moves
<1> QED
  BY <1>1, <1>2, <1>3, <1>5 DEF SwitchExpired, taskVars

LEMMA SwitchListsFacts ==
  ASSUME TypeInv, PhaseInv, SwitchLists
  PROVE  /\ daemon.at = "switch" /\ daemon.then = "switch" /\ daemon.fire = NULL
         /\ xLastTime' = daemon.now
         /\ \/ daemon.hand = NULL /\ Moves("commands", 0, NULL, NULL, 0, "commands", 0)
            \/ daemon.hand # NULL /\ Moves("apply", daemon.now, daemon.hand, NULL, daemon.exp, "commands", daemon.left)
         /\ Lists' /\ Shifts
         /\ \A u, d : DueAt(u, d) => d >= TickLimit
         /\ UNCHANGED <<xTickCount, active, xTimerQueue, memory, stamp>>
<1>1. To("commands") = [at |-> "commands", now |-> 0, hand |-> NULL, fire |-> NULL, exp |-> 0,
                        then |-> "commands", left |-> 0]
  BY ToFields
<1>2. daemon.at = "switch" /\ daemon.then = "switch" /\ daemon.fire = NULL
  BY DEF SwitchLists, PhaseInv, InCallback
<1>3. Lists' /\ Shifts /\ \A u, d : DueAt(u, d) => d >= TickLimit
  BY ListsSwitched DEF SwitchLists, TypeInv
<1>4. \/ daemon.hand = NULL /\ Moves("commands", 0, NULL, NULL, 0, "commands", 0)
      \/ daemon.hand # NULL /\ Moves("apply", daemon.now, daemon.hand, NULL, daemon.exp, "commands", daemon.left)
  BY <1>1, <1>2, DaemonFields DEF SwitchLists, Moves
<1> QED
  BY <1>2, <1>3, <1>4 DEF SwitchLists, taskVars

\* The time with which prvReloadTimer compares.
FireNow == IF daemon.then = "switch" THEN TickLimit - 1 ELSE daemon.now

LEMMA FireFacts ==
  ASSUME TypeInv, PhaseInv, Fire
  PROVE  \E t \in Timer, next \in TickType :
           /\ daemon.at = "fire" /\ t = daemon.fire /\ ~Listed(t)
           /\ next = Plus(daemon.exp, Period[t])
           /\ Moves(IF t \in Periodic THEN "callback" ELSE "delete", daemon.now, daemon.hand, t, next,
                    daemon.then, daemon.left)
           /\ active' = IF t \in Periodic THEN active ELSE active \ {t}
           /\ Lists'
           /\ IF t \in Periodic /\ ~Passed(t, next, FireNow, daemon.exp)
              THEN Gains(t, IF next <= FireNow THEN next + TickLimit ELSE next) ELSE SameDues
           /\ UNCHANGED <<xTickCount, xLastTime, xTimerQueue, memory, stamp>>
<1>1. daemon.at = "fire" /\ daemon.fire \in Timer /\ ~Listed(daemon.fire) /\ daemon.exp \in TickType
  BY DaemonFields DEF Fire, PhaseInv, InCallback
<1>2. PICK t \in Timer : t = daemon.fire
  BY <1>1
<1>3. Period[t] \in TickType
  BY TimerAssumption DEF TickType
<1>4. PICK next \in TickType : next = Plus(daemon.exp, Period[t])
  BY <1>1, <1>3, TickArithmetic
<1>5. FireNow \in TickType
  BY DaemonFields, TickNat DEF FireNow, TickType
<1>6. /\ daemon' = [daemon EXCEPT !.at = IF t \in Periodic THEN "callback" ELSE "delete", !.exp = next]
      /\ IF t \in Periodic
         THEN /\ IF Passed(t, next, FireNow, daemon.exp) THEN UNCHANGED <<current, overflow>>
                 ELSE InsertTimer(t, next, FireNow)
              /\ UNCHANGED active
         ELSE active' = active \ {t} /\ UNCHANGED <<current, overflow>>
      /\ UNCHANGED <<xTickCount, xLastTime, xTimerQueue, memory, stamp>>
  BY <1>2, <1>4 DEF Fire, FireNow, taskVars
<1>7. Moves(IF t \in Periodic THEN "callback" ELSE "delete", daemon.now, daemon.hand, t, next,
            daemon.then, daemon.left)
  BY <1>2, <1>6, DaemonFields DEF Moves
<1>8. CASE t \in Periodic /\ ~Passed(t, next, FireNow, daemon.exp)
  <2>1. InsertTimer(t, next, FireNow) /\ active' = active
    BY <1>6, <1>8
  <2>2. Lists' /\ Gains(t, IF next <= FireNow THEN next + TickLimit ELSE next)
    BY <1>1, <1>2, <1>5, <2>1, TimerInserted DEF TypeInv
  <2> QED
    BY <1>1, <1>2, <1>4, <1>6, <1>7, <1>8, <2>1, <2>2
<1>9. CASE ~(t \in Periodic /\ ~Passed(t, next, FireNow, daemon.exp))
  <2>1. UNCHANGED <<current, overflow>> /\ active' = IF t \in Periodic THEN active ELSE active \ {t}
    BY <1>6, <1>9
  <2>2. Lists' /\ SameDues
    BY <2>1, ListsStay DEF TypeInv
  <2> QED
    BY <1>1, <1>2, <1>4, <1>6, <1>7, <1>9, <2>1, <2>2
<1> QED
  BY <1>8, <1>9

LEMMA CallbackDeletesFacts ==
  ASSUME TypeInv, PhaseInv, CallbackDeletes
  PROVE  /\ daemon.at = "delete" /\ ~Full /\ daemon.fire \in Timer \ Periodic
         /\ xTimerQueue' = Append(xTimerQueue, Command("DELETE", daemon.fire, 0))
         /\ memory' = [memory EXCEPT ![daemon.fire] = "back"]
         /\ Moves("callback", daemon.now, daemon.hand, daemon.fire, daemon.exp, daemon.then, daemon.left)
         /\ Lists' /\ SameDues
         /\ UNCHANGED <<xTickCount, xLastTime, active, stamp>>
<1>1. daemon.at = "delete" /\ daemon.fire \in Timer \ Periodic
  BY DaemonFields DEF CallbackDeletes, PhaseInv, InCallback
<1>2. Moves("callback", daemon.now, daemon.hand, daemon.fire, daemon.exp, daemon.then, daemon.left)
  BY DaemonFields DEF CallbackDeletes, Moves
<1> QED
  BY <1>1, <1>2, ListsStay DEF CallbackDeletes, TypeInv, listVars

LEMMA CallbackDeleteWaitsFacts ==
  ASSUME TypeInv, PhaseInv, CallbackDeleteWaits
  PROVE  /\ daemon.at = "delete" /\ daemon.fire \in Timer \ Periodic
         /\ Moves("deleting", daemon.now, daemon.hand, daemon.fire, daemon.exp, daemon.then, DeleteWait)
         /\ Lists' /\ SameDues
         /\ UNCHANGED <<xTickCount, xLastTime, active, xTimerQueue, memory, stamp>>
<1>1. daemon.at = "delete" /\ daemon.fire \in Timer \ Periodic
  BY DaemonFields DEF CallbackDeleteWaits, PhaseInv, InCallback
<1>2. Moves("deleting", daemon.now, daemon.hand, daemon.fire, daemon.exp, daemon.then, DeleteWait)
  BY DaemonFields DEF CallbackDeleteWaits, Moves
<1> QED
  BY <1>1, <1>2, ListsStay DEF CallbackDeleteWaits, TypeInv, listVars, taskVars

LEMMA CallbackDeleteFailsFacts ==
  ASSUME TypeInv, PhaseInv, CallbackDeleteFails
  PROVE  /\ daemon.at \in {"delete", "deleting"} /\ daemon.fire \in Timer \ Periodic
         /\ daemon.at = "deleting" => daemon.left = 0
         /\ memory' = [memory EXCEPT ![daemon.fire] = "lost"]
         /\ Moves("callback", daemon.now, daemon.hand, daemon.fire, daemon.exp, daemon.then, daemon.left)
         /\ Lists' /\ SameDues
         /\ UNCHANGED <<xTickCount, xLastTime, active, xTimerQueue, stamp>>
<1>1. daemon.at \in {"delete", "deleting"} /\ daemon.fire \in Timer \ Periodic
      /\ (daemon.at = "deleting" => daemon.left = 0)
  BY DaemonFields DEF CallbackDeleteFails, PhaseInv, InCallback
<1>2. Moves("callback", daemon.now, daemon.hand, daemon.fire, daemon.exp, daemon.then, daemon.left)
  BY DaemonFields DEF CallbackDeleteFails, Moves
<1> QED
  BY <1>1, <1>2, ListsStay DEF CallbackDeleteFails, TypeInv, listVars

LEMMA CallbackReturnsFacts ==
  ASSUME TypeInv, PhaseInv, CallbackReturns
  PROVE  /\ daemon.at = "callback" /\ daemon.fire \in Timer
         /\ \/ /\ daemon.fire \in Periodic /\ ~Listed(daemon.fire)
               /\ Moves("fire", daemon.now, daemon.hand, daemon.fire, daemon.exp, daemon.then, daemon.left)
            \/ /\ ~(daemon.fire \in Periodic /\ ~Listed(daemon.fire)) /\ daemon.then = "switch"
               /\ Moves("switch", daemon.now, daemon.hand, NULL, 0, "switch", daemon.left)
            \/ /\ ~(daemon.fire \in Periodic /\ ~Listed(daemon.fire)) /\ daemon.then = "commands"
               /\ daemon.hand = NULL
               /\ Moves("commands", 0, NULL, NULL, 0, "commands", 0)
         /\ Lists' /\ SameDues
         /\ UNCHANGED <<xTickCount, xLastTime, active, xTimerQueue, memory, stamp>>
<1>1. daemon.at = "callback" /\ daemon.fire \in Timer
      /\ (daemon.then # "switch" => daemon.then = "commands" /\ daemon.hand = NULL)
  BY DaemonFields DEF CallbackReturns, PhaseInv, InCallback
<1>2. Firing(daemon.fire) <=> daemon.fire \in Periodic /\ ~Listed(daemon.fire)
  BY <1>1 DEF Firing
<1>3. To("commands") = [at |-> "commands", now |-> 0, hand |-> NULL, fire |-> NULL, exp |-> 0,
                        then |-> "commands", left |-> 0]
  BY ToFields
<1>4. daemon' = IF Firing(daemon.fire) THEN [daemon EXCEPT !.at = "fire"]
                ELSE IF daemon.then = "switch" THEN [daemon EXCEPT !.at = "switch", !.fire = NULL, !.exp = 0]
                ELSE To("commands")
  BY DEF CallbackReturns
<1>5. Lists' /\ SameDues /\ UNCHANGED <<xTickCount, xLastTime, active, xTimerQueue, memory, stamp>>
  BY ListsStay DEF CallbackReturns, TypeInv, listVars, taskVars
<1>6. CASE Firing(daemon.fire)
  <2>1. Moves("fire", daemon.now, daemon.hand, daemon.fire, daemon.exp, daemon.then, daemon.left)
    BY <1>4, <1>6, DaemonFields DEF Moves
  <2> QED
    BY <1>1, <1>2, <1>5, <1>6, <2>1
<1>7. CASE ~Firing(daemon.fire) /\ daemon.then = "switch"
  <2>1. daemon' = [daemon EXCEPT !.at = "switch", !.fire = NULL, !.exp = 0]
    BY <1>4, <1>7
  <2>2. Moves("switch", daemon.now, daemon.hand, NULL, 0, "switch", daemon.left)
    BY <1>7, <2>1, DaemonFields DEF Moves
  <2> QED
    BY <1>1, <1>2, <1>5, <1>7, <2>2
<1>8. CASE ~Firing(daemon.fire) /\ daemon.then # "switch"
  <2>1. Moves("commands", 0, NULL, NULL, 0, "commands", 0)
    BY <1>3, <1>4, <1>8 DEF Moves
  <2> QED
    BY <1>1, <1>2, <1>5, <1>8, <2>1
<1> QED
  BY <1>6, <1>7, <1>8

LEMMA ReceiveCommandFacts ==
  ASSUME TypeInv, PhaseInv, ReceiveCommand
  PROVE  \E c \in Commands :
           /\ daemon.at = "commands"
           /\ xTimerQueue # <<>> /\ c = Head(xTimerQueue) /\ xTimerQueue' = Tail(xTimerQueue)
           /\ \/ /\ Overflowed /\ xLastTime' = xLastTime
                 /\ Moves("switch", xTickCount, c, NULL, 0, "switch", 0)
              \/ /\ ~Overflowed /\ xLastTime' = xTickCount
                 /\ Moves("apply", xTickCount, c, NULL, 0, "commands", 0)
           /\ Lists' /\ Drops(c.timer)
           /\ UNCHANGED <<xTickCount, active, memory, stamp>>
<1>1. PICK q : q = [at |-> "switch", now |-> 0, hand |-> NULL, fire |-> NULL, exp |-> 0,
                    then |-> "commands", left |-> 0]
  OBVIOUS
<1>2. PICK r : r = [at |-> "apply", now |-> 0, hand |-> NULL, fire |-> NULL, exp |-> 0,
                    then |-> "commands", left |-> 0]
  OBVIOUS
<1>3. q = To("switch") /\ r = To("apply")
  BY <1>1, <1>2, ToFields
<1>4. xTimerQueue # <<>> /\ Head(xTimerQueue) \in Commands
  BY DEF ReceiveCommand, TypeInv
<1>5. PICK c \in Commands : c = Head(xTimerQueue)
  BY <1>4
<1>6. /\ daemon.at = "commands" /\ xTimerQueue' = Tail(xTimerQueue)
      /\ current' = ListRemove(current, c.timer) /\ overflow' = ListRemove(overflow, c.timer)
      /\ IF Overflowed
         THEN /\ daemon' = [q EXCEPT !.then = "switch", !.now = xTickCount, !.hand = c]
              /\ UNCHANGED xLastTime
         ELSE /\ daemon' = [r EXCEPT !.now = xTickCount, !.hand = c]
              /\ xLastTime' = xTickCount
      /\ UNCHANGED <<xTickCount, active, memory, stamp>>
  BY <1>3, <1>5 DEF ReceiveCommand, taskVars
<1>7. \/ /\ Overflowed /\ xLastTime' = xLastTime
         /\ Moves("switch", xTickCount, c, NULL, 0, "switch", 0)
      \/ /\ ~Overflowed /\ xLastTime' = xTickCount
         /\ Moves("apply", xTickCount, c, NULL, 0, "commands", 0)
  BY <1>1, <1>2, <1>6 DEF Moves
<1>8. Lists' /\ Drops(c.timer)
  BY <1>6, TimerRemoved DEF TypeInv
<1> QED
  BY <1>4, <1>5, <1>6, <1>7, <1>8

LEMMA QueueEmptiedFacts ==
  ASSUME TypeInv, PhaseInv, QueueEmptied
  PROVE  /\ daemon.at = "commands" /\ xTimerQueue = <<>>
         /\ Moves("loop", 0, NULL, NULL, 0, "commands", 0)
         /\ Lists' /\ SameDues
         /\ UNCHANGED <<xTickCount, xLastTime, active, xTimerQueue, memory, stamp>>
<1>1. Moves("loop", 0, NULL, NULL, 0, "commands", 0)
  BY DEF QueueEmptied, Moves, Idle
<1> QED
  BY <1>1, ListsStay DEF QueueEmptied, TypeInv, listVars, taskVars

LEMMA CommandFields ==
  \A c \in Commands : /\ c.op \in {"START", "STOP", "DELETE"} /\ c.timer \in Timer /\ c.value \in TickType
                      /\ c.op # "START" => c.value = 0
                      /\ c.op = "STOP" => c.timer \in Periodic
BY TickNat, TimerAssumption DEF Commands, Command, TickType

LEMMA ApplyStartFacts ==
  ASSUME TypeInv, PhaseInv, CommandInv, ApplyStart
  PROVE  \E c \in Commands, next \in TickType :
           /\ daemon.at = "apply" /\ daemon.then = "commands" /\ daemon.fire = NULL
           /\ c = daemon.hand /\ c.op = "START" /\ ~Listed(c.timer)
           /\ next = Plus(c.value, Period[c.timer])
           /\ active' = active \cup {c.timer}
           /\ \/ /\ Passed(c.timer, next, daemon.now, c.value)
                 /\ Moves("fire", daemon.now, NULL, c.timer, next, "commands", 0)
                 /\ SameDues
              \/ /\ ~Passed(c.timer, next, daemon.now, c.value)
                 /\ Moves("commands", 0, NULL, NULL, 0, "commands", 0)
                 /\ Gains(c.timer, IF next <= daemon.now THEN next + TickLimit ELSE next)
           /\ Lists'
           /\ UNCHANGED <<xTickCount, xLastTime, xTimerQueue, memory, stamp>>
<1>1. PICK q : q = [at |-> "fire", now |-> 0, hand |-> NULL, fire |-> NULL, exp |-> 0,
                    then |-> "commands", left |-> 0]
  OBVIOUS
<1>2. PICK r : r = [at |-> "commands", now |-> 0, hand |-> NULL, fire |-> NULL, exp |-> 0,
                    then |-> "commands", left |-> 0]
  OBVIOUS
<1>3. q = To("fire") /\ r = To("commands")
  BY <1>1, <1>2, ToFields
<1>4. /\ daemon.at = "apply" /\ daemon.hand \in Commands /\ daemon.then = "commands"
      /\ daemon.fire = NULL /\ daemon.now \in TickType
  BY DaemonFields DEF ApplyStart, PhaseInv, InCallback
<1>5. PICK c \in Commands : c = daemon.hand
  BY <1>4
<1>6. c.timer \in Timer /\ c.value \in TickType /\ Period[c.timer] \in TickType
  BY CommandFields, TimerAssumption DEF TickType
<1>7. PICK next \in TickType : next = Plus(c.value, Period[c.timer])
  BY <1>6, TickArithmetic
<1>8. /\ c.op = "START" /\ active' = active \cup {c.timer}
      /\ IF Passed(c.timer, next, daemon.now, c.value)
         THEN /\ daemon' = [q EXCEPT !.now = daemon.now, !.fire = c.timer, !.exp = next]
              /\ UNCHANGED <<current, overflow>>
         ELSE /\ daemon' = r
              /\ InsertTimer(c.timer, next, daemon.now)
      /\ UNCHANGED <<xTickCount, xLastTime, xTimerQueue, memory, stamp>>
  BY <1>3, <1>5, <1>7 DEF ApplyStart, taskVars
<1>9. ~Listed(c.timer)
  BY <1>5, <1>6, <1>8, NullIsNoCommand DEF CommandInv, Idles
<1>10. CASE Passed(c.timer, next, daemon.now, c.value)
  <2>1. Moves("fire", daemon.now, NULL, c.timer, next, "commands", 0)
    BY <1>1, <1>8, <1>10 DEF Moves
  <2>2. Lists' /\ SameDues
    BY <1>8, <1>10, ListsStay DEF TypeInv
  <2> QED
    BY <1>4, <1>5, <1>7, <1>8, <1>9, <1>10, <2>1, <2>2
<1>11. CASE ~Passed(c.timer, next, daemon.now, c.value)
  <2>1. Moves("commands", 0, NULL, NULL, 0, "commands", 0)
    BY <1>2, <1>8, <1>11 DEF Moves
  <2>2. Lists' /\ Gains(c.timer, IF next <= daemon.now THEN next + TickLimit ELSE next)
    BY <1>4, <1>6, <1>8, <1>9, <1>11, TimerInserted DEF TypeInv
  <2> QED
    BY <1>4, <1>5, <1>7, <1>8, <1>9, <1>11, <2>1, <2>2
<1> QED
  BY <1>10, <1>11

LEMMA ApplyStopFacts ==
  ASSUME TypeInv, PhaseInv, ApplyStop
  PROVE  /\ daemon.at = "apply" /\ daemon.hand \in Commands /\ daemon.hand.op \in {"STOP", "DELETE"}
         /\ daemon.then = "commands" /\ daemon.fire = NULL
         /\ active' = active \ {daemon.hand.timer}
         /\ memory' = IF daemon.hand.op = "DELETE" THEN [memory EXCEPT ![daemon.hand.timer] = "free"]
                      ELSE memory
         /\ Moves("commands", 0, NULL, NULL, 0, "commands", 0)
         /\ Lists' /\ SameDues
         /\ UNCHANGED <<xTickCount, xLastTime, xTimerQueue, stamp>>
<1>1. To("commands") = [at |-> "commands", now |-> 0, hand |-> NULL, fire |-> NULL, exp |-> 0,
                        then |-> "commands", left |-> 0]
  BY ToFields
<1>2. daemon.at = "apply" /\ daemon.hand \in Commands /\ daemon.then = "commands" /\ daemon.fire = NULL
  BY DaemonFields DEF ApplyStop, PhaseInv, InCallback
<1>3. Moves("commands", 0, NULL, NULL, 0, "commands", 0)
  BY <1>1 DEF ApplyStop, Moves
<1> QED
  BY <1>2, <1>3, ListsStay DEF ApplyStop, TypeInv

\* A task that sends a command, and may wake up the daemon.
LEMMA SendFacts ==
  ASSUME TypeInv, PhaseInv, TasksRun, NEW op, NEW t, NEW v, Send(op, t, v)
  PROVE  /\ ~Full /\ xTimerQueue' = Append(xTimerQueue, Command(op, t, v))
         /\ \/ daemon.at = "asleep" /\ Moves("commands", 0, NULL, NULL, 0, "commands", 0)
            \/ daemon.at \in {"callback", "deleting"} /\ daemon' = daemon
<1>1. To("commands") = [at |-> "commands", now |-> 0, hand |-> NULL, fire |-> NULL, exp |-> 0,
                        then |-> "commands", left |-> 0]
  BY ToFields
<1> QED
  BY <1>1 DEF Send, TasksRun, Moves

\* What a task does to one timer.
TaskSteps == \E t \in Timer : TimerCreate(t) \/ TimerStart(t) \/ TimerStop(t) \/ TimerDelete(t)

LEMMA TaskFacts ==
  ASSUME TypeInv, PhaseInv, NEW t \in Timer,
         TimerCreate(t) \/ TimerStart(t) \/ TimerStop(t) \/ TimerDelete(t)
  PROVE  /\ daemon.at \in {"asleep", "callback", "deleting"} /\ ~Suspended
         /\ \/ daemon.at = "asleep" /\ xTimerQueue' # xTimerQueue
               /\ Moves("commands", 0, NULL, NULL, 0, "commands", 0)
            \/ (daemon.at = "asleep" => xTimerQueue' = xTimerQueue) /\ daemon' = daemon
         /\ \/ /\ memory[t] = "free" /\ memory' = [memory EXCEPT ![t] = "created"]
               /\ stamp' = [stamp EXCEPT ![t] = xTickCount] /\ xTimerQueue' = xTimerQueue
            \/ /\ memory[t] = "created" /\ memory' = [memory EXCEPT ![t] = "use"]
               /\ stamp' = [stamp EXCEPT ![t] = 0]
               /\ ~Full /\ xTimerQueue' = Append(xTimerQueue, Command("START", t, stamp[t]))
            \/ /\ memory[t] = "created" /\ memory' = [memory EXCEPT ![t] = "lost"]
               /\ stamp' = [stamp EXCEPT ![t] = 0] /\ xTimerQueue' = xTimerQueue
            \/ /\ t \in Periodic /\ memory[t] = "use" /\ UNCHANGED <<memory, stamp>>
               /\ ~Full /\ xTimerQueue' = Append(xTimerQueue, Command("STOP", t, 0))
            \/ /\ t \in Periodic /\ memory[t] = "use" /\ memory' = [memory EXCEPT ![t] = "back"]
               /\ stamp' = stamp
               /\ ~Full /\ xTimerQueue' = Append(xTimerQueue, Command("DELETE", t, 0))
         /\ Lists' /\ SameDues
         /\ UNCHANGED <<xTickCount, xLastTime, active>>
<1>1. TasksRun /\ daemon.at \in {"asleep", "callback", "deleting"} /\ ~Suspended
  BY DEF TimerCreate, TimerStart, TimerStop, TimerDelete, TasksRun
<1>2. Lists' /\ SameDues /\ UNCHANGED <<xTickCount, xLastTime, active>>
  <2>1. UNCHANGED <<xTickCount, xLastTime, listVars>>
    BY DEF TimerCreate, TimerStart, TimerStop, TimerDelete
  <2> QED
    BY <2>1, ListsStay DEF TypeInv, listVars
<1>3. ASSUME NEW c, xTimerQueue' = Append(xTimerQueue, c) PROVE xTimerQueue' # xTimerQueue
  <2>1. Len(Append(xTimerQueue, c)) = Len(xTimerQueue) + 1 /\ Len(xTimerQueue) \in Nat
    BY DEF TypeInv
  <2> QED
    BY <1>3, <2>1
<1>4. CASE TimerCreate(t)
  BY <1>1, <1>2, <1>4 DEF TimerCreate
<1>5. CASE TimerStart(t) /\ Send("START", t, stamp[t]) /\ memory' = [memory EXCEPT ![t] = "use"]
  <2>1. memory[t] = "created" /\ stamp' = [stamp EXCEPT ![t] = 0]
    BY <1>5 DEF TimerStart
  <2> QED
    BY <1>1, <1>2, <1>3, <1>5, <2>1, SendFacts
<1>6. CASE TimerStart(t) /\ Full /\ memory' = [memory EXCEPT ![t] = "lost"] /\ UNCHANGED <<xTimerQueue, daemon>>
  <2>1. memory[t] = "created" /\ stamp' = [stamp EXCEPT ![t] = 0]
    BY <1>6 DEF TimerStart
  <2> QED
    BY <1>1, <1>2, <1>6, <2>1
<1>7. CASE TimerStop(t)
  <2>1. t \in Periodic /\ memory[t] = "use" /\ UNCHANGED <<memory, stamp>> /\ Send("STOP", t, 0)
    BY <1>7 DEF TimerStop, taskVars
  <2> QED
    BY <1>1, <1>2, <1>3, <2>1, SendFacts
<1>8. CASE TimerDelete(t)
  <2>1. t \in Periodic /\ memory[t] = "use" /\ memory' = [memory EXCEPT ![t] = "back"] /\ stamp' = stamp
        /\ Send("DELETE", t, 0)
    BY <1>8 DEF TimerDelete
  <2> QED
    BY <1>1, <1>2, <1>3, <2>1, SendFacts
<1> QED
  BY <1>4, <1>5, <1>6, <1>7, <1>8 DEF TimerStart

LEMMA TickFacts ==
  ASSUME TypeInv, PhaseInv, Tick
  PROVE  /\ ~Suspended
         /\ ~Behind \/ (daemon.at = "deleting" /\ daemon.left > 0)
         /\ xTickCount' = Plus(xTickCount, 1)
         /\ \/ /\ daemon.at = "asleep" /\ daemon.left <= 1
               /\ Moves("commands", 0, NULL, NULL, 0, "commands", 0)
            \/ daemon.at = "asleep" /\ daemon.left = Forever /\ daemon.left > 1 /\ daemon' = daemon
            \/ /\ daemon.at = "asleep" => daemon.left > 1
               /\ Moves(daemon.at, daemon.now, daemon.hand, daemon.fire, daemon.exp, daemon.then,
                        IF daemon.left = 0 THEN 0 ELSE daemon.left - 1)
         /\ Lists' /\ SameDues
         /\ UNCHANGED <<xLastTime, active, xTimerQueue, memory, stamp>>
<1>1. To("commands") = [at |-> "commands", now |-> 0, hand |-> NULL, fire |-> NULL, exp |-> 0,
                        then |-> "commands", left |-> 0]
  BY ToFields
<1>2. daemon.left \in Nat
  BY DaemonFields, TickNat DEF Forever
<1>3. CASE daemon.at = "asleep" /\ daemon.left <= 1
  <2>1. Moves("commands", 0, NULL, NULL, 0, "commands", 0)
    BY <1>1, <1>3 DEF Tick, Moves
  <2> QED
    BY <1>3, <2>1, ListsStay DEF Tick, TypeInv, listVars, taskVars
<1>4. CASE ~(daemon.at = "asleep" /\ daemon.left <= 1) /\ daemon.at = "asleep" /\ daemon.left = Forever
  <2>1. daemon' = daemon /\ daemon.left > 1
    BY <1>2, <1>4 DEF Tick
  <2> QED
    BY <1>4, <2>1, ListsStay DEF Tick, TypeInv, listVars, taskVars
<1>5. CASE ~(daemon.at = "asleep" /\ daemon.left <= 1) /\ ~(daemon.at = "asleep" /\ daemon.left = Forever)
  <2>1. daemon' = [daemon EXCEPT !.left = IF daemon.left = 0 THEN 0 ELSE daemon.left - 1]
    BY <1>5 DEF Tick
  <2>2. Moves(daemon.at, daemon.now, daemon.hand, daemon.fire, daemon.exp, daemon.then,
              IF daemon.left = 0 THEN 0 ELSE daemon.left - 1)
    BY <2>1, DaemonFields DEF Moves
  <2>3. daemon.at = "asleep" => daemon.left > 1
    BY <1>2, <1>5
  <2> QED
    BY <2>2, <2>3, ListsStay DEF Tick, TypeInv, listVars, taskVars
<1> QED
  BY <1>3, <1>4, <1>5


\* Which timers are listed after a step.
LEMMA ListedAfter ==
  ASSUME Lists, Lists'
  PROVE  /\ SameDues => \A u : Listed(u)' <=> Listed(u)
         /\ \A t : Drops(t) => \A u : Listed(u)' <=> Listed(u) /\ u # t
         /\ \A t : \A x \in Nat : Gains(t, x) => \A u : Listed(u)' <=> Listed(u) \/ u = t
         /\ Shifts /\ (\A u, d : DueAt(u, d) => d >= TickLimit) => \A u : Listed(u)' <=> Listed(u)
<1>1. /\ \A u : Listed(u) <=> \E d \in Nat : DueAt(u, d)
      /\ \A u, d : DueAt(u, d) => d \in Nat
  BY DueFacts
<1>2. /\ \A u : Listed(u)' <=> \E d \in Nat : DueAt(u, d)'
      /\ \A u, d : DueAt(u, d)' => d \in Nat
  BY DuesAreTimesNext
<1>3. SameDues => \A u : Listed(u)' <=> Listed(u)
  BY <1>1, <1>2 DEF SameDues
<1>4. ASSUME NEW t, Drops(t) PROVE \A u : Listed(u)' <=> Listed(u) /\ u # t
  BY <1>1, <1>2, <1>4 DEF Drops
<1>5. ASSUME NEW t, NEW x \in Nat, Gains(t, x) PROVE \A u : Listed(u)' <=> Listed(u) \/ u = t
  BY <1>1, <1>2, <1>5 DEF Gains
<1>6. ASSUME Shifts, \A u, d : DueAt(u, d) => d >= TickLimit PROVE \A u : Listed(u)' <=> Listed(u)
  <2>1. ASSUME NEW u, NEW d \in Nat, DueAt(u, d) PROVE \E e \in Nat : DueAt(u, e)'
    <3>1. d >= TickLimit
      BY <1>6, <2>1
    <3>2. PICK e \in Nat : e = d - TickLimit
      BY <3>1, TickNat
    <3>3. e + TickLimit = d
      BY <3>2, TickNat
    <3> QED
      BY <1>6, <2>1, <3>3 DEF Shifts
  <2>2. ASSUME NEW u, NEW d \in Nat, DueAt(u, d)' PROVE \E e \in Nat : DueAt(u, e)
    <3>1. DueAt(u, d + TickLimit) /\ d + TickLimit \in Nat
      BY <1>6, <2>2, TickNat DEF Shifts
    <3> QED
      BY <3>1
  <2> QED
    BY <1>1, <1>2, <2>1, <2>2
<1> QED
  BY <1>3, <1>4, <1>5, <1>6

\* A daemon that has moved has its type.
LEMMA MovesTyped ==
  ASSUME NEW at \in {"loop", "switch", "fire", "delete", "deleting", "callback", "commands", "apply", "asleep"},
         NEW now \in TickType, NEW hand \in Commands \cup {NULL}, NEW fire \in Timer \cup {NULL},
         NEW exp \in TickType, NEW then \in {"switch", "commands"}, NEW left \in 0..Forever,
         Moves(at, now, hand, fire, exp, then, left)
  PROVE  daemon' \in Daemon
BY DEF Moves, Daemon

LEMMA Zeros == 0 \in TickType /\ 0 \in 0..Forever /\ DeleteWait \in 0..Forever
BY TimerAssumption DEF TickType, Forever

LEMMA CommandTyped ==
  ASSUME NEW t \in Timer, NEW v \in TickType
  PROVE  Command("START", t, v) \in Commands /\ Command("DELETE", t, 0) \in Commands
         /\ (t \in Periodic => Command("STOP", t, 0) \in Commands)
BY DEF Commands

\* A command is appended while there is room.
LEMMA Appended ==
  ASSUME TypeInv, ~Full, NEW c \in Commands, xTimerQueue' = Append(xTimerQueue, c)
  PROVE  /\ xTimerQueue' \in Seq(Commands) /\ Len(xTimerQueue') <= QueueLength
         /\ Len(xTimerQueue') = Len(xTimerQueue) + 1
         /\ xTimerQueue'[Len(xTimerQueue) + 1] = c
         /\ \A i \in 1..Len(xTimerQueue) : xTimerQueue'[i] = xTimerQueue[i]
<1>1. Len(xTimerQueue) \in Nat /\ Len(xTimerQueue) <= QueueLength /\ Len(xTimerQueue) # QueueLength
      /\ QueueLength \in Nat
  BY TimerAssumption DEF TypeInv, Full
<1>2. /\ xTimerQueue' \in Seq(Commands) /\ Len(xTimerQueue') = Len(xTimerQueue) + 1
      /\ xTimerQueue'[Len(xTimerQueue) + 1] = c
      /\ \A i \in 1..Len(xTimerQueue) : xTimerQueue'[i] = xTimerQueue[i]
  BY AppendProperties DEF TypeInv
<1> QED
  BY <1>1, <1>2

\* The first command is taken.
LEMMA Taken ==
  ASSUME TypeInv, xTimerQueue # <<>>, xTimerQueue' = Tail(xTimerQueue)
  PROVE  /\ xTimerQueue' \in Seq(Commands) /\ Len(xTimerQueue') <= QueueLength
         /\ Len(xTimerQueue) \in Nat \ {0} /\ Len(xTimerQueue') = Len(xTimerQueue) - 1
         /\ Head(xTimerQueue) = xTimerQueue[1]
         /\ \A i \in 1..Len(xTimerQueue') : xTimerQueue'[i] = xTimerQueue[i + 1]
<1>1. Len(xTimerQueue) \in Nat \ {0} /\ Len(xTimerQueue) <= QueueLength /\ QueueLength \in Nat
  BY TimerAssumption DEF TypeInv
<1>2. /\ xTimerQueue' \in Seq(Commands) /\ Len(xTimerQueue') = Len(xTimerQueue) - 1
      /\ Head(xTimerQueue) = xTimerQueue[1]
      /\ \A i \in 1..Len(xTimerQueue') : xTimerQueue'[i] = xTimerQueue[i + 1]
  BY HeadTailProperties DEF TypeInv
<1> QED
  BY <1>1, <1>2

LEMMA TypeStep ==
  ASSUME TypeInv, PhaseInv, CommandInv, Next
  PROVE  TypeInv'
<1>0. /\ daemon.at \in {"loop", "switch", "fire", "delete", "deleting", "callback", "commands", "apply", "asleep"}
      /\ daemon.now \in TickType /\ daemon.hand \in Commands \cup {NULL}
      /\ daemon.fire \in Timer \cup {NULL} /\ daemon.exp \in TickType
      /\ daemon.then \in {"switch", "commands"} /\ daemon.left \in 0..Forever
  BY DaemonFields
<1> USE <1>0, Zeros DEF TypeInv
<1>1. CASE FindOverflow
  BY <1>1, FindOverflowFacts, MovesTyped
<1>2. CASE FindExpired
  BY <1>2, FindExpiredFacts, MovesTyped
<1>3. CASE BlockTask
  BY <1>3, BlockTaskFacts, NothingExpired, MovesTyped
<1>4. CASE SwitchExpired
  BY <1>4, SwitchExpiredFacts, MovesTyped
<1>5. CASE SwitchLists
  BY <1>5, SwitchListsFacts, MovesTyped
<1>6. CASE Fire
  <2>1. PICK t \in Timer, next \in TickType :
          /\ Moves(IF t \in Periodic THEN "callback" ELSE "delete", daemon.now, daemon.hand, t, next,
                   daemon.then, daemon.left)
          /\ active' = IF t \in Periodic THEN active ELSE active \ {t}
          /\ Lists'
          /\ UNCHANGED <<xTickCount, xLastTime, xTimerQueue, memory, stamp>>
    BY <1>6, FireFacts
  <2>2. (IF t \in Periodic THEN "callback" ELSE "delete") \in {"callback", "delete"}
    OBVIOUS
  <2>3. daemon' \in Daemon
    BY <2>1, <2>2 DEF Moves, Daemon
  <2> QED
    BY <2>1, <2>3
<1>7. CASE CallbackDeletes
  <2>1. /\ ~Full /\ daemon.fire \in Timer
        /\ xTimerQueue' = Append(xTimerQueue, Command("DELETE", daemon.fire, 0))
        /\ memory' = [memory EXCEPT ![daemon.fire] = "back"]
        /\ Moves("callback", daemon.now, daemon.hand, daemon.fire, daemon.exp, daemon.then, daemon.left)
        /\ Lists' /\ UNCHANGED <<xTickCount, xLastTime, active, stamp>>
    BY <1>7, CallbackDeletesFacts
  <2>2. xTimerQueue' \in Seq(Commands) /\ Len(xTimerQueue') <= QueueLength
    BY <2>1, CommandTyped, Appended
  <2>3. daemon' \in Daemon
    BY <2>1 DEF Moves, Daemon
  <2> QED
    BY <2>1, <2>2, <2>3
<1>8. CASE CallbackDeleteWaits
  <2>1. /\ Moves("deleting", daemon.now, daemon.hand, daemon.fire, daemon.exp, daemon.then, DeleteWait)
        /\ Lists' /\ UNCHANGED <<xTickCount, xLastTime, active, xTimerQueue, memory, stamp>>
    BY <1>8, CallbackDeleteWaitsFacts
  <2>2. daemon' \in Daemon
    BY <2>1 DEF Moves, Daemon
  <2> QED
    BY <2>1, <2>2
<1>9. CASE CallbackDeleteFails
  <2>1. /\ memory' = [memory EXCEPT ![daemon.fire] = "lost"]
        /\ Moves("callback", daemon.now, daemon.hand, daemon.fire, daemon.exp, daemon.then, daemon.left)
        /\ Lists' /\ UNCHANGED <<xTickCount, xLastTime, active, xTimerQueue, stamp>>
    BY <1>9, CallbackDeleteFailsFacts
  <2>2. daemon' \in Daemon
    BY <2>1 DEF Moves, Daemon
  <2> QED
    BY <2>1, <2>2
<1>10. CASE CallbackReturns
  <2>1. /\ \/ Moves("fire", daemon.now, daemon.hand, daemon.fire, daemon.exp, daemon.then, daemon.left)
           \/ Moves("switch", daemon.now, daemon.hand, NULL, 0, "switch", daemon.left)
           \/ Moves("commands", 0, NULL, NULL, 0, "commands", 0)
        /\ Lists' /\ UNCHANGED <<xTickCount, xLastTime, active, xTimerQueue, memory, stamp>>
    BY <1>10, CallbackReturnsFacts
  <2>2. daemon' \in Daemon
    BY <2>1 DEF Moves, Daemon
  <2> QED
    BY <2>1, <2>2
<1>11. CASE ReceiveCommand
  BY <1>11, ReceiveCommandFacts, MovesTyped, Taken
<1>12. CASE QueueEmptied
  BY <1>12, QueueEmptiedFacts, MovesTyped
<1>13. CASE ApplyStart
  <2>1. PICK c \in Commands, next \in TickType :
          /\ active' = active \cup {c.timer}
          /\ \/ Moves("fire", daemon.now, NULL, c.timer, next, "commands", 0)
             \/ Moves("commands", 0, NULL, NULL, 0, "commands", 0)
          /\ Lists'
          /\ UNCHANGED <<xTickCount, xLastTime, xTimerQueue, memory, stamp>>
    BY <1>13, ApplyStartFacts
  <2> QED
    BY <2>1, CommandFields, MovesTyped
<1>14. CASE ApplyStop
  BY <1>14, ApplyStopFacts, MovesTyped
<1>15. ASSUME NEW t \in Timer, TimerCreate(t) \/ TimerStart(t) \/ TimerStop(t) \/ TimerDelete(t)
       PROVE  TypeInv'
  <2>1. daemon' \in Daemon /\ Lists' /\ UNCHANGED <<xTickCount, xLastTime, active>>
    BY <1>15, TaskFacts, MovesTyped
  <2>2. stamp[t] \in TickType
    OBVIOUS
  <2>3. xTimerQueue' \in Seq(Commands) /\ Len(xTimerQueue') <= QueueLength
    BY <1>15, <2>2, TaskFacts, CommandTyped, Appended
  <2>4. memory' \in [Timer -> {"free", "created", "use", "back", "lost"}] /\ stamp' \in [Timer -> TickType]
    BY <1>15, TaskFacts
  <2> QED
    BY <2>1, <2>3, <2>4
<1>16. CASE Tick
  <2>1. xTickCount' \in TickType
    <3>1. Plus(xTickCount, 1) \in TickType
      BY TickNat DEF Plus, TickType
    <3> QED
      BY <1>16, <3>1 DEF Tick
  <2>2. (IF daemon.left = 0 THEN 0 ELSE daemon.left - 1) \in 0..Forever
    BY TickNat DEF Forever
  <2>3. /\ \/ Moves("commands", 0, NULL, NULL, 0, "commands", 0)
           \/ daemon' = daemon
           \/ Moves(daemon.at, daemon.now, daemon.hand, daemon.fire, daemon.exp, daemon.then,
                    IF daemon.left = 0 THEN 0 ELSE daemon.left - 1)
        /\ Lists' /\ UNCHANGED <<xLastTime, active, xTimerQueue, memory, stamp>>
    BY <1>16, TickFacts
  <2>4. daemon' \in Daemon
    BY <2>2, <2>3 DEF Moves, Daemon
  <2> QED
    BY <2>1, <2>3, <2>4
<1> QED
  BY <1>1, <1>2, <1>3, <1>4, <1>5, <1>6, <1>7, <1>8, <1>9, <1>10, <1>11, <1>12, <1>13, <1>14, <1>15, <1>16
     DEF Next, DaemonStep

LEMMA PhaseStep ==
  ASSUME TypeInv, PhaseInv, CommandInv, Next
  PROVE  PhaseInv'
<1>0. /\ daemon.at \in {"loop", "switch", "fire", "delete", "deleting", "callback", "commands", "apply", "asleep"}
      /\ daemon.fire \in Timer \cup {NULL} /\ daemon.then \in {"switch", "commands"}
      /\ daemon.left \in Nat /\ DeleteWait \in Nat
      /\ NULL \notin Timer /\ NULL \notin Commands
  BY DaemonFields, TickNat, TimerAssumption, NullIsNoCommand DEF Forever
<1>17. Lists /\ Lists'
  BY TypeStep DEF TypeInv
<1> USE <1>0
<1>1. CASE FindOverflow
  <2>1. \A u : Listed(u)' <=> Listed(u)
    BY <1>1, <1>17, FindOverflowFacts, ListedAfter
  <2> QED
    BY <1>1, <2>1, FindOverflowFacts DEF Moves, PhaseInv, InCallback
<1>2. CASE FindExpired
  <2>1. PICK s \in Timer, v \in TickType :
          /\ Moves("fire", xTickCount, NULL, s, v, "commands", 0)
          /\ Drops(s)
    BY <1>2, FindExpiredFacts
  <2>2. \A u : Listed(u)' <=> Listed(u) /\ u # s
    BY <1>17, <2>1, ListedAfter
  <2> QED
    BY <2>1, <2>2 DEF Moves, PhaseInv, InCallback
<1>3. CASE BlockTask
  <2>1. \A u : Listed(u)' <=> Listed(u)
    BY <1>3, <1>17, BlockTaskFacts, ListedAfter
  <2> QED
    BY <1>3, <2>1, BlockTaskFacts DEF Moves, PhaseInv, InCallback
<1>4. CASE SwitchExpired
  <2>1. PICK s \in Timer, v \in TickType :
          /\ daemon.at = "switch"
          /\ Moves("fire", daemon.now, daemon.hand, s, v, "switch", daemon.left)
          /\ Drops(s)
    BY <1>4, SwitchExpiredFacts
  <2>2. \A u : Listed(u)' <=> Listed(u) /\ u # s
    BY <1>17, <2>1, ListedAfter
  <2> QED
    BY <2>1, <2>2 DEF Moves, PhaseInv, InCallback
<1>5. CASE SwitchLists
  <2>1. \A u : Listed(u)' <=> Listed(u)
    BY <1>5, <1>17, SwitchListsFacts, ListedAfter
  <2> QED
    BY <1>5, <2>1, SwitchListsFacts DEF Moves, PhaseInv, InCallback
<1>6. CASE Fire
  <2>1. PICK s \in Timer, next \in TickType :
          /\ daemon.at = "fire" /\ s = daemon.fire /\ ~Listed(s)
          /\ Moves(IF s \in Periodic THEN "callback" ELSE "delete", daemon.now, daemon.hand, s, next,
                   daemon.then, daemon.left)
          /\ IF s \in Periodic /\ ~Passed(s, next, FireNow, daemon.exp)
             THEN Gains(s, IF next <= FireNow THEN next + TickLimit ELSE next) ELSE SameDues
    BY <1>6, FireFacts
  <2>2. PICK x \in Nat : x = IF next <= FireNow THEN next + TickLimit ELSE next
    BY TickNat
  <2>3. \A u : Listed(u)' <=> Listed(u) \/ (u = s /\ s \in Periodic /\ ~Passed(s, next, FireNow, daemon.exp))
    BY <1>17, <2>1, <2>2, ListedAfter
  <2> QED
    BY <2>1, <2>3 DEF Moves, PhaseInv, InCallback
<1>7. CASE CallbackDeletes
  <2>1. \A u : Listed(u)' <=> Listed(u)
    BY <1>7, <1>17, CallbackDeletesFacts, ListedAfter
  <2> QED
    BY <1>7, <2>1, CallbackDeletesFacts DEF Moves, PhaseInv, InCallback
<1>8. CASE CallbackDeleteWaits
  <2>1. \A u : Listed(u)' <=> Listed(u)
    BY <1>8, <1>17, CallbackDeleteWaitsFacts, ListedAfter
  <2> QED
    BY <1>8, <2>1, CallbackDeleteWaitsFacts DEF Moves, PhaseInv, InCallback
<1>9. CASE CallbackDeleteFails
  <2>1. \A u : Listed(u)' <=> Listed(u)
    BY <1>9, <1>17, CallbackDeleteFailsFacts, ListedAfter
  <2> QED
    BY <1>9, <2>1, CallbackDeleteFailsFacts DEF Moves, PhaseInv, InCallback
<1>10. CASE CallbackReturns
  <2>1. \A u : Listed(u)' <=> Listed(u)
    BY <1>10, <1>17, CallbackReturnsFacts, ListedAfter
  <2> QED
    BY <1>10, <2>1, CallbackReturnsFacts DEF Moves, PhaseInv, InCallback
<1>11. CASE ReceiveCommand
  <2>1. PICK c \in Commands :
          /\ daemon.at = "commands" /\ Drops(c.timer)
          /\ \/ Moves("switch", xTickCount, c, NULL, 0, "switch", 0)
             \/ Moves("apply", xTickCount, c, NULL, 0, "commands", 0)
    BY <1>11, ReceiveCommandFacts
  <2> QED
    BY <2>1 DEF Moves, PhaseInv, InCallback
<1>12. CASE QueueEmptied
  <2>1. \A u : Listed(u)' <=> Listed(u)
    BY <1>12, <1>17, QueueEmptiedFacts, ListedAfter
  <2> QED
    BY <1>12, <2>1, QueueEmptiedFacts DEF Moves, PhaseInv, InCallback
<1>13. CASE ApplyStart
  <2>1. PICK c \in Commands, next \in TickType :
          /\ ~Listed(c.timer)
          /\ \/ Moves("fire", daemon.now, NULL, c.timer, next, "commands", 0) /\ SameDues
             \/ Moves("commands", 0, NULL, NULL, 0, "commands", 0)
    BY <1>13, ApplyStartFacts
  <2>2. c.timer \in Timer
    BY CommandFields
  <2>3. SameDues => \A u : Listed(u)' <=> Listed(u)
    BY <1>17, ListedAfter
  <2> QED
    BY <2>1, <2>2, <2>3 DEF Moves, PhaseInv, InCallback
<1>14. CASE ApplyStop
  <2>1. \A u : Listed(u)' <=> Listed(u)
    BY <1>14, <1>17, ApplyStopFacts, ListedAfter
  <2> QED
    BY <1>14, <2>1, ApplyStopFacts DEF Moves, PhaseInv, InCallback
<1>15. ASSUME NEW t \in Timer, TimerCreate(t) \/ TimerStart(t) \/ TimerStop(t) \/ TimerDelete(t)
       PROVE  PhaseInv'
  <2>1. /\ \/ daemon.at = "asleep" /\ Moves("commands", 0, NULL, NULL, 0, "commands", 0)
           \/ daemon' = daemon
        /\ SameDues
    BY <1>15, TaskFacts
  <2>2. \A u : Listed(u)' <=> Listed(u)
    BY <1>17, <2>1, ListedAfter
  <2> QED
    BY <2>1, <2>2 DEF Moves, PhaseInv, InCallback
<1>16. CASE Tick
  <2>1. /\ \/ daemon.at = "asleep" /\ Moves("commands", 0, NULL, NULL, 0, "commands", 0)
           \/ daemon' = daemon
           \/ Moves(daemon.at, daemon.now, daemon.hand, daemon.fire, daemon.exp, daemon.then,
                    IF daemon.left = 0 THEN 0 ELSE daemon.left - 1)
        /\ SameDues
    BY <1>16, TickFacts
  <2>2. \A u : Listed(u)' <=> Listed(u)
    BY <1>17, <2>1, ListedAfter
  <2>3. (IF daemon.left = 0 THEN 0 ELSE daemon.left - 1) <= daemon.left
    OBVIOUS
  <2> QED
    BY <2>1, <2>2, <2>3 DEF Moves, PhaseInv, InCallback
<1> QED
  BY <1>1, <1>2, <1>3, <1>4, <1>5, <1>6, <1>7, <1>8, <1>9, <1>10, <1>11, <1>12, <1>13, <1>14, <1>15, <1>16
     DEF Next, DaemonStep

\* A timer that is not armed is armed only by its start.
LEMMA IdlesStay ==
  ASSUME TypeInv, PhaseInv, CommandInv, Next, NEW t \in Timer, Idles(t),
         ~(ApplyStart /\ daemon.hand.timer = t) \/ daemon'.hand = daemon.hand
  PROVE  Idles(t)'
<1>0. daemon.fire \in Timer \cup {NULL} /\ daemon.then \in {"switch", "commands"} /\ NULL \notin Timer
  BY DaemonFields, TimerAssumption
<1>17. Lists /\ Lists'
  BY TypeStep DEF TypeInv
<1> USE <1>0
<1>1. CASE FindOverflow
  <2>1. \A u : Listed(u)' <=> Listed(u)
    BY <1>1, <1>17, FindOverflowFacts, ListedAfter
  <2> QED
    BY <1>1, <2>1, FindOverflowFacts DEF Moves, Idles, PhaseInv, InCallback
<1>2. CASE FindExpired
  <2>1. PICK s \in Timer, v \in TickType :
          DueAt(s, v) /\ Moves("fire", xTickCount, NULL, s, v, "commands", 0) /\ Drops(s)
    BY <1>2, FindExpiredFacts
  <2>2. Listed(s) /\ \A u : Listed(u)' <=> Listed(u) /\ u # s
    BY <1>17, <2>1, ListedAfter, DueFacts, TickNat
  <2> QED
    BY <2>1, <2>2 DEF Moves, Idles
<1>3. CASE BlockTask
  <2>1. \A u : Listed(u)' <=> Listed(u)
    BY <1>3, <1>17, BlockTaskFacts, ListedAfter
  <2> QED
    BY <1>3, <2>1, BlockTaskFacts DEF Moves, Idles, PhaseInv, InCallback
<1>4. CASE SwitchExpired
  <2>1. PICK s \in Timer, v \in TickType :
          DueAt(s, v) /\ Moves("fire", daemon.now, daemon.hand, s, v, "switch", daemon.left) /\ Drops(s)
    BY <1>4, SwitchExpiredFacts
  <2>2. Listed(s) /\ \A u : Listed(u)' <=> Listed(u) /\ u # s
    BY <1>17, <2>1, ListedAfter, DueFacts, TickNat
  <2> QED
    BY <2>1, <2>2 DEF Moves, Idles
<1>5. CASE SwitchLists
  <2>1. \A u : Listed(u)' <=> Listed(u)
    BY <1>5, <1>17, SwitchListsFacts, ListedAfter
  <2> QED
    BY <1>5, <2>1, SwitchListsFacts DEF Moves, Idles, PhaseInv, InCallback
<1>6. CASE Fire
  <2>1. PICK s \in Timer, next \in TickType :
          /\ daemon.at = "fire" /\ s = daemon.fire
          /\ Moves(IF s \in Periodic THEN "callback" ELSE "delete", daemon.now, daemon.hand, s, next,
                   daemon.then, daemon.left)
          /\ IF s \in Periodic /\ ~Passed(s, next, FireNow, daemon.exp)
             THEN Gains(s, IF next <= FireNow THEN next + TickLimit ELSE next) ELSE SameDues
    BY <1>6, FireFacts
  <2>2. PICK x \in Nat : x = IF next <= FireNow THEN next + TickLimit ELSE next
    BY TickNat
  <2>3. \A u : Listed(u)' <=> Listed(u) \/ (u = s /\ s \in Periodic /\ ~Passed(s, next, FireNow, daemon.exp))
    BY <1>17, <2>1, <2>2, ListedAfter
  <2> QED
    BY <2>1, <2>3 DEF Moves, Idles
<1>7. CASE CallbackDeletes
  <2>1. \A u : Listed(u)' <=> Listed(u)
    BY <1>7, <1>17, CallbackDeletesFacts, ListedAfter
  <2> QED
    BY <1>7, <2>1, CallbackDeletesFacts DEF Moves, Idles, PhaseInv, InCallback
<1>8. CASE CallbackDeleteWaits
  <2>1. \A u : Listed(u)' <=> Listed(u)
    BY <1>8, <1>17, CallbackDeleteWaitsFacts, ListedAfter
  <2> QED
    BY <1>8, <2>1, CallbackDeleteWaitsFacts DEF Moves, Idles, PhaseInv, InCallback
<1>9. CASE CallbackDeleteFails
  <2>1. \A u : Listed(u)' <=> Listed(u)
    BY <1>9, <1>17, CallbackDeleteFailsFacts, ListedAfter
  <2> QED
    BY <1>9, <2>1, CallbackDeleteFailsFacts DEF Moves, Idles, PhaseInv, InCallback
<1>10. CASE CallbackReturns
  <2>1. \A u : Listed(u)' <=> Listed(u)
    BY <1>10, <1>17, CallbackReturnsFacts, ListedAfter
  <2> QED
    BY <1>10, <2>1, CallbackReturnsFacts DEF Moves, Idles, PhaseInv, InCallback
<1>11. CASE ReceiveCommand
  <2>1. PICK c \in Commands :
          /\ daemon.at = "commands" /\ Drops(c.timer)
          /\ \/ Moves("switch", xTickCount, c, NULL, 0, "switch", 0)
             \/ Moves("apply", xTickCount, c, NULL, 0, "commands", 0)
    BY <1>11, ReceiveCommandFacts
  <2>2. \A u : Listed(u)' <=> Listed(u) /\ u # c.timer
    BY <1>17, <2>1, ListedAfter
  <2> QED
    BY <2>1, <2>2 DEF Moves, Idles
<1>12. CASE QueueEmptied
  <2>1. \A u : Listed(u)' <=> Listed(u)
    BY <1>12, <1>17, QueueEmptiedFacts, ListedAfter
  <2> QED
    BY <1>12, <2>1, QueueEmptiedFacts DEF Moves, Idles, PhaseInv, InCallback
<1>13. CASE ApplyStart
  <2>1. PICK c \in Commands, next \in TickType :
          /\ c = daemon.hand
          /\ \/ Moves("fire", daemon.now, NULL, c.timer, next, "commands", 0) /\ SameDues
             \/ /\ Moves("commands", 0, NULL, NULL, 0, "commands", 0)
                /\ Gains(c.timer, IF next <= daemon.now THEN next + TickLimit ELSE next)
    BY <1>13, ApplyStartFacts
  <2>2. PICK x \in Nat : x = IF next <= daemon.now THEN next + TickLimit ELSE next
    BY TickNat
  <2>3. c.timer # t
    BY <1>13, <2>1, NullIsNoCommand DEF Moves
  <2>4. Listed(t)' <=> Listed(t)
    BY <1>17, <2>1, <2>2, <2>3, ListedAfter
  <2> QED
    BY <2>1, <2>3, <2>4 DEF Moves, Idles
<1>14. CASE ApplyStop
  <2>1. \A u : Listed(u)' <=> Listed(u)
    BY <1>14, <1>17, ApplyStopFacts, ListedAfter
  <2> QED
    BY <1>14, <2>1, ApplyStopFacts DEF Moves, Idles, PhaseInv, InCallback
<1>15. ASSUME NEW s \in Timer, TimerCreate(s) \/ TimerStart(s) \/ TimerStop(s) \/ TimerDelete(s)
       PROVE  Idles(t)'
  <2>1. /\ \/ daemon.at = "asleep" /\ Moves("commands", 0, NULL, NULL, 0, "commands", 0)
           \/ daemon' = daemon
        /\ SameDues
    BY <1>15, TaskFacts
  <2>2. \A u : Listed(u)' <=> Listed(u)
    BY <1>17, <2>1, ListedAfter
  <2> QED
    BY <2>1, <2>2 DEF Moves, Idles
<1>16. CASE Tick
  <2>1. /\ \/ daemon.at = "asleep" /\ Moves("commands", 0, NULL, NULL, 0, "commands", 0)
           \/ daemon' = daemon
           \/ Moves(daemon.at, daemon.now, daemon.hand, daemon.fire, daemon.exp, daemon.then,
                    IF daemon.left = 0 THEN 0 ELSE daemon.left - 1)
        /\ SameDues
    BY <1>16, TickFacts
  <2>2. \A u : Listed(u)' <=> Listed(u)
    BY <1>17, <2>1, ListedAfter
  <2> QED
    BY <2>1, <2>2 DEF Moves, Idles
<1> QED
  BY <1>1, <1>2, <1>3, <1>4, <1>5, <1>6, <1>7, <1>8, <1>9, <1>10, <1>11, <1>12, <1>13, <1>14, <1>15, <1>16
     DEF Next, DaemonStep

\* The steps that leave the commands and the memory of the timers alone.
Quiet ==
  \/ FindOverflow \/ FindExpired \/ BlockTask \/ SwitchExpired \/ SwitchLists \/ Fire
  \/ CallbackDeleteWaits \/ CallbackReturns \/ QueueEmptied \/ Tick

LEMMA QuietSteps ==
  ASSUME TypeInv, PhaseInv, Quiet
  PROVE  /\ xTimerQueue' = xTimerQueue /\ memory' = memory /\ stamp' = stamp
         /\ daemon'.hand = daemon.hand
<1>0. daemon.at \in {"loop", "commands", "asleep"} => daemon.hand = NULL
  BY AtRest
<1>1. CASE FindOverflow
  BY <1>0, <1>1, FindOverflowFacts DEF Moves
<1>2. CASE FindExpired
  BY <1>0, <1>2, FindExpiredFacts DEF Moves
<1>3. CASE BlockTask
  BY <1>0, <1>3, BlockTaskFacts DEF Moves
<1>4. CASE SwitchExpired
  BY <1>4, SwitchExpiredFacts DEF Moves
<1>5. CASE SwitchLists
  BY <1>5, SwitchListsFacts DEF Moves
<1>6. CASE Fire
  <2>1. PICK s \in Timer, next \in TickType :
          /\ Moves(IF s \in Periodic THEN "callback" ELSE "delete", daemon.now, daemon.hand, s, next,
                   daemon.then, daemon.left)
          /\ UNCHANGED <<xTimerQueue, memory, stamp>>
    BY <1>6, FireFacts
  <2> QED
    BY <2>1 DEF Moves
<1>7. CASE CallbackDeleteWaits
  BY <1>7, CallbackDeleteWaitsFacts DEF Moves
<1>8. CASE CallbackReturns
  BY <1>8, CallbackReturnsFacts DEF Moves
<1>9. CASE QueueEmptied
  BY <1>0, <1>9, QueueEmptiedFacts DEF Moves
<1>10. CASE Tick
  BY <1>0, <1>10, TickFacts DEF Moves
<1> QED
  BY <1>1, <1>2, <1>3, <1>4, <1>5, <1>6, <1>7, <1>8, <1>9, <1>10 DEF Quiet

Custody == QueueInv /\ CommandInv /\ MemoryInv

LEMMA QueueTyped ==
  ASSUME TypeInv
  PROVE  /\ Len(xTimerQueue) \in Nat
         /\ \A i \in 1..Len(xTimerQueue) :
              /\ xTimerQueue[i] \in Commands /\ xTimerQueue[i].timer \in Timer
              /\ xTimerQueue[i].op \in {"START", "STOP", "DELETE"}
              /\ xTimerQueue[i].op = "STOP" => xTimerQueue[i].timer \in Periodic
<1>1. Len(xTimerQueue) \in Nat /\ \A i \in 1..Len(xTimerQueue) : xTimerQueue[i] \in Commands
  BY DEF TypeInv
<1> QED
  BY <1>1, CommandFields

LEMMA NewCommand ==
  ASSUME NEW t \in Timer, NEW v \in TickType, NEW op \in {"START", "STOP", "DELETE"}
  PROVE  Command(op, t, v).op = op /\ Command(op, t, v).timer = t /\ Command(op, t, v).value = v
BY DEF Command

LEMMA CustodyStep ==
  ASSUME TypeInv, PhaseInv, Custody, Next
  PROVE  Custody'
<1>0. /\ memory \in [Timer -> {"free", "created", "use", "back", "lost"}]
      /\ Len(xTimerQueue) \in Nat
      /\ \A i \in 1..Len(xTimerQueue) :
           /\ xTimerQueue[i].timer \in Timer
           /\ xTimerQueue[i].op \in {"START", "STOP", "DELETE"}
           /\ xTimerQueue[i].op = "STOP" => xTimerQueue[i].timer \in Periodic
      /\ daemon.hand # NULL => /\ daemon.hand.timer \in Timer
                               /\ daemon.hand.op \in {"START", "STOP", "DELETE"}
                               /\ daemon.hand.op = "STOP" => daemon.hand.timer \in Periodic
      /\ daemon.fire \in Timer \cup {NULL} /\ NULL \notin Timer
  BY QueueTyped, DaemonFields, CommandFields, TimerAssumption DEF TypeInv
<1>1. QueueInv /\ CommandInv /\ MemoryInv
  BY DEF Custody
<1>2. CASE Quiet
  <2>1. xTimerQueue' = xTimerQueue /\ memory' = memory /\ daemon'.hand = daemon.hand
    BY <1>2, QuietSteps
  <2>2. \A t \in Timer : Idles(t) => Idles(t)'
    BY <1>1, <2>1, IdlesStay
  <2>3. \A t \in Timer : Runs(t)' <=> Runs(t)
    BY <2>1 DEF Runs
  <2> QED
    BY <1>1, <2>1, <2>2, <2>3 DEF Custody, QueueInv, CommandInv, MemoryInv
<1>3. CASE CallbackDeletes
  <2>1. PICK s \in Timer \ Periodic : s = daemon.fire
    BY <1>3, CallbackDeletesFacts
  <2>2. /\ daemon.at = "delete" /\ ~Full
        /\ xTimerQueue' = Append(xTimerQueue, Command("DELETE", s, 0))
        /\ memory' = [memory EXCEPT ![s] = "back"]
        /\ daemon'.hand = daemon.hand /\ daemon'.fire = s /\ daemon'.at = "callback"
        /\ SameDues
    BY <1>3, <2>1, CallbackDeletesFacts DEF Moves
  <2>3. PICK c \in Commands : c = Command("DELETE", s, 0) /\ c.op = "DELETE" /\ c.timer = s
    BY Zeros, CommandTyped, NewCommand
  <2>4. /\ Len(xTimerQueue') = Len(xTimerQueue) + 1
        /\ xTimerQueue'[Len(xTimerQueue) + 1] = c
        /\ \A i \in 1..Len(xTimerQueue) : xTimerQueue'[i] = xTimerQueue[i]
    BY <2>2, <2>3, Appended
  <2>5. \A t \in Timer : Idles(t) => Idles(t)'
    BY <1>1, <2>2, IdlesStay
  <2>6. ~Idles(s) /\ memory[s] = "use"
    BY <1>1, <2>1, <2>2 DEF Idles, Runs, MemoryInv
  <2>7. Idles(s)'
    <3>1. ~Listed(s)
      BY <2>1, <2>2 DEF PhaseInv
    <3>2. Lists /\ Lists'
      BY TypeStep, <1>1 DEF TypeInv
    <3>3. ~Listed(s)'
      BY <2>2, <3>1, <3>2, ListedAfter
    <3> QED
      BY <2>1, <2>2, <3>3 DEF Idles
  <2>8. \A t \in Timer : t # s => memory'[t] = memory[t] /\ (Runs(t)' <=> Runs(t))
    BY <1>0, <2>2 DEF Runs
  <2>9. memory'[s] = "back"
    BY <1>0, <2>2
  <2>10. \A i \in 1..Len(xTimerQueue) : xTimerQueue[i].timer # s
    BY <1>0, <1>1, <2>6, <2>1 DEF QueueInv
  <2>11. daemon.hand # NULL => daemon.hand.timer # s
    BY <1>0, <1>1, <2>6, <2>1 DEF CommandInv
  <2>12. QueueInv'
    BY <1>0, <1>1, <2>2, <2>3, <2>4, <2>5, <2>8, <2>9, <2>10 DEF QueueInv
  <2>13. CommandInv'
    BY <1>0, <1>1, <2>2, <2>3, <2>4, <2>5, <2>8, <2>11 DEF CommandInv
  <2>14. MemoryInv'
    BY <1>1, <2>5, <2>7, <2>8 DEF MemoryInv
  <2> QED
    BY <2>12, <2>13, <2>14 DEF Custody
<1>4. CASE CallbackDeleteFails
  <2>1. PICK s \in Timer \ Periodic : s = daemon.fire
    BY <1>4, CallbackDeleteFailsFacts
  <2>2. /\ daemon.at \in {"delete", "deleting"}
        /\ xTimerQueue' = xTimerQueue
        /\ memory' = [memory EXCEPT ![s] = "lost"]
        /\ daemon'.hand = daemon.hand /\ daemon'.fire = s /\ daemon'.at = "callback"
        /\ SameDues
    BY <1>4, <2>1, CallbackDeleteFailsFacts DEF Moves
  <2>5. \A t \in Timer : Idles(t) => Idles(t)'
    BY <1>1, <2>2, IdlesStay
  <2>6. ~Idles(s) /\ memory[s] = "use"
    BY <1>1, <2>1, <2>2 DEF Idles, Runs, MemoryInv
  <2>7. Idles(s)'
    <3>1. ~Listed(s)
      BY <2>1, <2>2 DEF PhaseInv
    <3>2. Lists /\ Lists'
      BY TypeStep, <1>1 DEF TypeInv
    <3>3. ~Listed(s)'
      BY <2>2, <3>1, <3>2, ListedAfter
    <3> QED
      BY <2>1, <2>2, <3>3 DEF Idles
  <2>8. \A t \in Timer : t # s => memory'[t] = memory[t] /\ (Runs(t)' <=> Runs(t))
    BY <1>0, <2>2 DEF Runs
  <2>10. \A i \in 1..Len(xTimerQueue) : xTimerQueue[i].timer # s
    BY <1>0, <1>1, <2>6, <2>1 DEF QueueInv
  <2>11. daemon.hand # NULL => daemon.hand.timer # s
    BY <1>0, <1>1, <2>6, <2>1 DEF CommandInv
  <2>12. QueueInv'
    BY <1>0, <1>1, <2>2, <2>5, <2>8, <2>10 DEF QueueInv
  <2>13. CommandInv'
    BY <1>0, <1>1, <2>2, <2>5, <2>8, <2>11 DEF CommandInv
  <2>14. MemoryInv'
    BY <1>1, <2>5, <2>7, <2>8 DEF MemoryInv
  <2> QED
    BY <2>12, <2>13, <2>14 DEF Custody
<1>5. CASE ReceiveCommand
  <2>1. PICK c \in Commands :
          /\ daemon.at = "commands" /\ Drops(c.timer)
          /\ xTimerQueue # <<>> /\ c = Head(xTimerQueue) /\ xTimerQueue' = Tail(xTimerQueue)
          /\ daemon'.hand = c /\ daemon'.fire = NULL
          /\ memory' = memory
    BY <1>5, ReceiveCommandFacts DEF Moves
  <2>2. daemon.hand = NULL /\ c # NULL
    BY <2>1, AtRest, NullIsNoCommand
  <2>3. /\ Len(xTimerQueue) \in Nat \ {0} /\ Len(xTimerQueue') = Len(xTimerQueue) - 1
        /\ c = xTimerQueue[1]
        /\ \A i \in 1..Len(xTimerQueue') : xTimerQueue'[i] = xTimerQueue[i + 1]
    BY <2>1, Taken
  <2>4. \A i \in 1..Len(xTimerQueue') : i + 1 \in 1..Len(xTimerQueue) /\ i + 1 > 1
                                     /\ \A j \in 1..Len(xTimerQueue') : (j < i <=> j + 1 < i + 1)
                                                                   /\ (j > i <=> j + 1 > i + 1)
    BY <2>3
  <2>5. \A t \in Timer : Idles(t) => Idles(t)'
    BY <1>1, <2>2, <1>5, IdlesStay DEF PhaseInv, ReceiveCommand, ApplyStart
  <2>6. Idles(c.timer)' /\ c.timer \in Timer
    <3>1. Lists /\ Lists'
      BY TypeStep, <1>1 DEF TypeInv
    <3>2. PICK u \in Timer : u = c.timer
      BY CommandFields
    <3>3. ~Listed(u)'
      BY <2>1, <3>1, <3>2, ListedAfter
    <3> QED
      BY <1>0, <2>1, <3>2, <3>3 DEF Idles
  <2>7. \A t \in Timer : Runs(t)' <=> Runs(t)
    BY <2>1 DEF Runs
  <2>8. 1 \in 1..Len(xTimerQueue)
    BY <2>3
  <2>9. QueueInv'
    <3> SUFFICES ASSUME NEW i \in 1..Len(xTimerQueue'), NEW t \in Timer, xTimerQueue'[i].timer = t
                 PROVE  /\ memory'[t] \in {"use", "back"}
                        /\ xTimerQueue'[i].op = "DELETE" =>
                             memory'[t] = "back" /\ \A j \in 1..Len(xTimerQueue') : j > i => xTimerQueue'[j].timer # t
                        /\ xTimerQueue'[i].op = "START" =>
                             /\ Idles(t)' /\ Runs(t)'
                             /\ \A j \in 1..Len(xTimerQueue') : j < i => xTimerQueue'[j].timer # t
                             /\ daemon'.hand.timer # t
      BY DEF QueueInv
    <3>1. PICK k \in 1..Len(xTimerQueue) : k = i + 1 /\ k > 1 /\ xTimerQueue'[i] = xTimerQueue[k]
      BY <2>3, <2>4
    <3>2. /\ memory[t] \in {"use", "back"}
          /\ xTimerQueue[k].op = "DELETE" =>
               memory[t] = "back" /\ \A j \in 1..Len(xTimerQueue) : j > k => xTimerQueue[j].timer # t
          /\ xTimerQueue[k].op = "START" =>
               /\ Idles(t) /\ Runs(t)
               /\ \A j \in 1..Len(xTimerQueue) : j < k => xTimerQueue[j].timer # t
      BY <1>1, <3>1 DEF QueueInv
    <3>3. \A j \in 1..Len(xTimerQueue') : j + 1 \in 1..Len(xTimerQueue) /\ (j > i => j + 1 > k) /\ (j < i => j + 1 < k)
      BY <2>4, <3>1
    <3>4. \A j \in 1..Len(xTimerQueue') : xTimerQueue'[j] = xTimerQueue[j + 1]
      BY <2>3
    <3>5. ASSUME xTimerQueue[k].op = "DELETE"
          PROVE  \A j \in 1..Len(xTimerQueue') : j > i => xTimerQueue'[j].timer # t
      BY <3>2, <3>3, <3>4, <3>5
    <3>6. ASSUME xTimerQueue[k].op = "START"
          PROVE  \A j \in 1..Len(xTimerQueue') : j < i => xTimerQueue'[j].timer # t
      BY <3>2, <3>3, <3>4, <3>6
    <3>7. xTimerQueue[k].op = "START" => c.timer # t
      BY <2>3, <2>8, <3>1, <3>2
    <3> QED
      BY <2>1, <2>5, <2>7, <3>1, <3>2, <3>5, <3>6, <3>7
  <2>10. CommandInv'
    <3> SUFFICES ASSUME NEW t \in Timer, c.timer = t
                 PROVE  /\ memory[t] \in {"use", "back"}
                        /\ c.op = "START" => Idles(t)' /\ Runs(t)'
                        /\ c.op = "DELETE" =>
                             /\ memory[t] = "back" /\ Idles(t)'
                             /\ \A j \in 1..Len(xTimerQueue') : xTimerQueue'[j].timer # t
      BY <2>1 DEF CommandInv
    <3>1. /\ memory[t] \in {"use", "back"}
          /\ c.op = "DELETE" =>
               memory[t] = "back" /\ \A j \in 1..Len(xTimerQueue) : j > 1 => xTimerQueue[j].timer # t
          /\ c.op = "START" => Idles(t) /\ Runs(t)
      BY <1>1, <2>3, <2>8 DEF QueueInv
    <3>2. Idles(t)'
      <4>1. PICK u \in Timer : u = c.timer
        BY <2>6
      <4>2. ~Listed(u)'
        <5>1. Lists /\ Lists'
          BY TypeStep, <1>1 DEF TypeInv
        <5> QED
          BY <2>1, <4>1, <5>1, ListedAfter
      <4> QED
        BY <1>0, <2>1, <4>1, <4>2 DEF Idles
    <3> QED
      BY <2>3, <2>4, <2>7, <3>1, <3>2
  <2>11. MemoryInv'
    BY <1>1, <2>5, <2>7 DEF MemoryInv
  <2> QED
    BY <2>9, <2>10, <2>11 DEF Custody
<1>6. CASE ApplyStart
  <2>1. PICK c \in Commands :
          /\ daemon.at = "apply" /\ c = daemon.hand /\ c.op = "START"
          /\ daemon'.hand = NULL
          /\ xTimerQueue' = xTimerQueue /\ memory' = memory
    BY <1>1, <1>6, ApplyStartFacts DEF Moves
  <2>2. c.timer \in Timer /\ c # NULL
    BY CommandFields, NullIsNoCommand
  <2>3. \A t \in Timer : t # c.timer /\ Idles(t) => Idles(t)'
    BY <1>1, <2>1, IdlesStay
  <2>4. \A t \in Timer : Runs(t)' <=> Runs(t)
    BY <2>1 DEF Runs
  <2>5. Runs(c.timer)
    BY <1>1, <2>1, <2>2 DEF CommandInv
  <2>6. QueueInv'
    BY <1>1, <2>1, <2>2, <2>3, <2>4 DEF QueueInv
  <2>7. CommandInv'
    BY <2>1 DEF CommandInv
  <2>8. MemoryInv'
    BY <1>1, <2>3, <2>4, <2>5 DEF MemoryInv
  <2> QED
    BY <2>6, <2>7, <2>8 DEF Custody
<1>7. CASE ApplyStop
  <2>1. /\ daemon.at = "apply" /\ daemon.hand \in Commands /\ daemon.hand.op \in {"STOP", "DELETE"}
        /\ memory' = IF daemon.hand.op = "DELETE" THEN [memory EXCEPT ![daemon.hand.timer] = "free"]
                     ELSE memory
        /\ daemon'.hand = NULL /\ xTimerQueue' = xTimerQueue
    BY <1>7, ApplyStopFacts DEF Moves
  <2>2. PICK s \in Timer : s = daemon.hand.timer /\ daemon.hand # NULL
    BY <2>1, CommandFields, NullIsNoCommand
  <2>3. \A t \in Timer : Idles(t) => Idles(t)'
    BY <1>1, <2>1, <1>7, IdlesStay DEF ApplyStart
  <2>4. CASE daemon.hand.op = "STOP"
    <3>1. memory' = memory
      BY <2>1, <2>4
    <3>2. \A t \in Timer : Runs(t)' <=> Runs(t)
      BY <3>1 DEF Runs
    <3> QED
      BY <1>1, <2>1, <2>3, <3>1, <3>2 DEF Custody, QueueInv, CommandInv, MemoryInv
  <2>5. CASE daemon.hand.op = "DELETE"
    <3>1. memory' = [memory EXCEPT ![s] = "free"]
      BY <2>1, <2>2, <2>5
    <3>2. Idles(s) /\ \A j \in 1..Len(xTimerQueue) : xTimerQueue[j].timer # s
      BY <1>1, <2>2, <2>5 DEF CommandInv
    <3>3. \A t \in Timer : t # s => memory'[t] = memory[t] /\ (Runs(t)' <=> Runs(t))
      BY <1>0, <3>1 DEF Runs
    <3>4. QueueInv'
      BY <1>0, <1>1, <2>1, <2>3, <3>2, <3>3 DEF QueueInv
    <3>5. CommandInv'
      BY <2>1 DEF CommandInv
    <3>6. MemoryInv'
      BY <1>1, <2>3, <3>2, <3>3 DEF MemoryInv
    <3> QED
      BY <3>4, <3>5, <3>6 DEF Custody
  <2> QED
    BY <2>1, <2>4, <2>5
<1>8. ASSUME NEW s \in Timer, TimerCreate(s) \/ TimerStart(s) \/ TimerStop(s) \/ TimerDelete(s)
      PROVE  Custody'
  <2>1. /\ daemon'.hand = daemon.hand /\ daemon.at \in {"asleep", "callback", "deleting"}
        /\ \/ /\ memory[s] = "free" /\ memory' = [memory EXCEPT ![s] = "created"]
              /\ xTimerQueue' = xTimerQueue
           \/ /\ memory[s] = "created" /\ memory' = [memory EXCEPT ![s] = "use"]
              /\ ~Full /\ xTimerQueue' = Append(xTimerQueue, Command("START", s, stamp[s]))
           \/ /\ memory[s] = "created" /\ memory' = [memory EXCEPT ![s] = "lost"]
              /\ xTimerQueue' = xTimerQueue
           \/ /\ s \in Periodic /\ memory[s] = "use" /\ memory' = memory
              /\ ~Full /\ xTimerQueue' = Append(xTimerQueue, Command("STOP", s, 0))
           \/ /\ s \in Periodic /\ memory[s] = "use" /\ memory' = [memory EXCEPT ![s] = "back"]
              /\ ~Full /\ xTimerQueue' = Append(xTimerQueue, Command("DELETE", s, 0))
    <3>1. daemon.at = "asleep" => daemon.hand = NULL
      BY AtRest
    <3> QED
      BY <1>8, <3>1, TaskFacts DEF Moves
  <2>2. \A t \in Timer : Idles(t) => Idles(t)'
    BY <1>1, <2>1, IdlesStay
  <2>3. \A t \in Timer : t # s => memory'[t] = memory[t] /\ (Runs(t)' <=> Runs(t))
    BY <1>0, <2>1 DEF Runs
  <2>4. CASE /\ memory[s] \in {"free", "created"} /\ xTimerQueue' = xTimerQueue
             /\ \/ memory' = [memory EXCEPT ![s] = "created"]
                \/ memory' = [memory EXCEPT ![s] = "lost"]
    <3>1. Idles(s)
      BY <1>1, <2>4 DEF MemoryInv, Runs
    <3>2. \A i \in 1..Len(xTimerQueue) : xTimerQueue[i].timer # s
      BY <1>1, <2>4 DEF QueueInv
    <3>3. daemon.hand # NULL => daemon.hand.timer # s
      BY <1>1, <2>4 DEF CommandInv
    <3>4. QueueInv'
      BY <1>0, <1>1, <2>1, <2>2, <2>3, <2>4, <3>2 DEF QueueInv
    <3>5. CommandInv'
      BY <1>0, <1>1, <2>1, <2>2, <2>3, <2>4, <3>3 DEF CommandInv
    <3>6. MemoryInv'
      BY <1>1, <2>2, <2>3, <3>1 DEF MemoryInv
    <3> QED
      BY <3>4, <3>5, <3>6 DEF Custody
  <2>5. CASE /\ memory[s] = "created" /\ memory' = [memory EXCEPT ![s] = "use"]
             /\ ~Full /\ xTimerQueue' = Append(xTimerQueue, Command("START", s, stamp[s]))
    <3>1. Idles(s)
      BY <1>1, <2>5 DEF MemoryInv, Runs
    <3>2. \A i \in 1..Len(xTimerQueue) : xTimerQueue[i].timer # s
      BY <1>1, <2>5 DEF QueueInv
    <3>3. daemon.hand # NULL => daemon.hand.timer # s
      BY <1>1, <2>5 DEF CommandInv
    <3>4. PICK c \in Commands : c = Command("START", s, stamp[s]) /\ c.op = "START" /\ c.timer = s
      <4>1. PICK v \in TickType : v = stamp[s]
        BY DEF TypeInv
      <4> QED
        BY <4>1, CommandTyped, NewCommand
    <3>5. /\ Len(xTimerQueue') = Len(xTimerQueue) + 1
          /\ xTimerQueue'[Len(xTimerQueue) + 1] = c
          /\ \A i \in 1..Len(xTimerQueue) : xTimerQueue'[i] = xTimerQueue[i]
      BY <2>5, <3>4, Appended
    <3>6. memory'[s] = "use" /\ Runs(s)' /\ Idles(s)'
      BY <1>0, <2>2, <2>5, <3>1 DEF Runs
    <3>7. QueueInv'
      BY <1>0, <1>1, <2>1, <2>2, <2>3, <3>2, <3>3, <3>4, <3>5, <3>6 DEF QueueInv
    <3>8. CommandInv'
      BY <1>0, <1>1, <2>1, <2>2, <2>3, <3>3, <3>4, <3>5, <3>6 DEF CommandInv
    <3>9. MemoryInv'
      BY <1>1, <2>2, <2>3, <3>6 DEF MemoryInv
    <3> QED
      BY <3>7, <3>8, <3>9 DEF Custody
  <2>6. CASE /\ s \in Periodic /\ memory[s] = "use" /\ memory' = memory
             /\ ~Full /\ xTimerQueue' = Append(xTimerQueue, Command("STOP", s, 0))
    <3>1. PICK c \in Commands : c = Command("STOP", s, 0) /\ c.op = "STOP" /\ c.timer = s
      BY <2>6, Zeros, CommandTyped, NewCommand
    <3>2. /\ Len(xTimerQueue') = Len(xTimerQueue) + 1
          /\ xTimerQueue'[Len(xTimerQueue) + 1] = c
          /\ \A i \in 1..Len(xTimerQueue) : xTimerQueue'[i] = xTimerQueue[i]
      BY <2>6, <3>1, Appended
    <3>3. \A t \in Timer : Runs(t)' <=> Runs(t)
      BY <2>6 DEF Runs
    <3>4. QueueInv'
      BY <1>0, <1>1, <2>1, <2>2, <2>6, <3>1, <3>2, <3>3 DEF QueueInv
    <3>5. CommandInv'
      BY <1>0, <1>1, <2>1, <2>2, <2>6, <3>1, <3>2, <3>3 DEF CommandInv
    <3>6. MemoryInv'
      BY <1>1, <2>2, <3>3 DEF MemoryInv
    <3> QED
      BY <3>4, <3>5, <3>6 DEF Custody
  <2>7. CASE /\ s \in Periodic /\ memory[s] = "use" /\ memory' = [memory EXCEPT ![s] = "back"]
             /\ ~Full /\ xTimerQueue' = Append(xTimerQueue, Command("DELETE", s, 0))
    <3>1. PICK c \in Commands : c = Command("DELETE", s, 0) /\ c.op = "DELETE" /\ c.timer = s
      BY Zeros, CommandTyped, NewCommand
    <3>2. /\ Len(xTimerQueue') = Len(xTimerQueue) + 1
          /\ xTimerQueue'[Len(xTimerQueue) + 1] = c
          /\ \A i \in 1..Len(xTimerQueue) : xTimerQueue'[i] = xTimerQueue[i]
      BY <2>7, <3>1, Appended
    <3>3. \A t \in Timer : Runs(t) => Runs(t)'
      BY <1>0, <2>7 DEF Runs
    <3>4. memory'[s] = "back"
      BY <1>0, <2>7
    <3>5. /\ \A i \in 1..Len(xTimerQueue) : xTimerQueue[i].timer = s => xTimerQueue[i].op # "DELETE"
          /\ daemon.hand # NULL /\ daemon.hand.timer = s => daemon.hand.op # "DELETE"
      BY <1>1, <2>7 DEF QueueInv, CommandInv
    <3>6. QueueInv'
      BY <1>0, <1>1, <2>1, <2>2, <2>3, <3>1, <3>2, <3>3, <3>4, <3>5 DEF QueueInv
    <3>7. CommandInv'
      BY <1>0, <1>1, <2>1, <2>2, <2>3, <3>1, <3>2, <3>3, <3>4, <3>5 DEF CommandInv
    <3>8. MemoryInv'
      BY <1>1, <2>2, <3>3 DEF MemoryInv
    <3> QED
      BY <3>6, <3>7, <3>8 DEF Custody
  <2> QED
    BY <2>1, <2>4, <2>5, <2>6, <2>7
<1> QED
  BY <1>2, <1>3, <1>4, <1>5, <1>6, <1>7, <1>8 DEF Next, DaemonStep, Quiet

-----------------------------------------------------------------------------
(* How far behind the daemon and the tasks are *)

LEMMA Products ==
  \A n, m \in Nat : /\ DeleteWait * n \in Nat
                    /\ DeleteWait * (n + 1) = DeleteWait * n + DeleteWait
                    /\ n <= m => DeleteWait * n <= DeleteWait * m
<1>1. DeleteWait \in Nat
  BY TimerAssumption
<1>2. PICK w \in Nat : w = DeleteWait
  BY <1>1
<1>3. ASSUME NEW n \in Nat, NEW m \in Nat
      PROVE  w * n \in Nat /\ w * (n + 1) = w * n + w /\ (n <= m => w * n <= w * m)
  <2>1. w * n \in Nat /\ w * (n + 1) = w * n + w
    OBVIOUS
  <2>2. ASSUME n <= m PROVE w * n <= w * m
    <3>1. PICK k \in Nat : k = m - n
      BY <2>2
    <3>2. m = n + k /\ w * m = w * n + w * k /\ w * k \in Nat /\ w * n \in Nat
      BY <3>1
    <3> QED
      BY <3>2
  <2> QED
    BY <2>1, <2>2
<1> QED
  BY <1>2, <1>3

LEMMA LostFinite ==
  ASSUME LagIsShort
  PROVE  /\ \A S \in SUBSET (Timer \ Periodic) :
              IsFiniteSet(S) /\ Cardinality(S) \in Nat
              /\ Cardinality(S) <= Cardinality(Timer \ Periodic)
         /\ \A S, R \in SUBSET (Timer \ Periodic) : S \subseteq R => Cardinality(S) <= Cardinality(R)
         /\ \A S \in SUBSET (Timer \ Periodic) : \A t \in (Timer \ Periodic) \ S :
              Cardinality(S \cup {t}) = Cardinality(S) + 1
         /\ Cardinality(Timer \ Periodic) \in Nat
<1>1. IsFiniteSet(Timer \ Periodic)
  BY FS_Subset DEF LagIsShort
<1>2. \A S \in SUBSET (Timer \ Periodic) : IsFiniteSet(S) /\ Cardinality(S) \in Nat
  BY <1>1, FS_Subset, FS_CardinalityType
<1>3. \A S, R \in SUBSET (Timer \ Periodic) : S \subseteq R => Cardinality(S) <= Cardinality(R)
  BY <1>2, FS_Subset
<1>4. ASSUME NEW S \in SUBSET (Timer \ Periodic), NEW t \in (Timer \ Periodic) \ S
      PROVE  Cardinality(S \cup {t}) = Cardinality(S) + 1
  BY <1>2, FS_AddElement
<1> QED
  BY <1>2, <1>3, <1>4

\* No period, with all that may come on top of it, is as long as the tick count.
LEMMA LagFacts ==
  ASSUME LagIsShort, TypeInv, PhaseInv, Custody
  PROVE  /\ MaxLate \in Nat \ {0} /\ Lag \in Nat /\ Lag >= 2 * MaxLate
         /\ \A t \in Timer : Period[t] \in Nat /\ Period[t] > 0 /\ Period[t] + Lag + 1 < TickLimit
<1>1. PICK n \in Nat : n = Cardinality(Lost)
  BY LostFinite DEF Lost
<1>2. PICK N \in Nat : N = Cardinality(Timer \ Periodic)
  BY LostFinite
<1>3. PICK w \in Nat : w = DeleteWait
  BY TimerAssumption
<1>4. PICK m \in Nat \ {0} : m = MaxLate
  BY TimerAssumption
<1>5. n <= N /\ Lost \in SUBSET (Timer \ Periodic)
  BY <1>1, <1>2, LostFinite DEF Lost
<1>6. w * n \in Nat /\ w * n <= w * N /\ w * N \in Nat /\ w * (n + 1) = w * n + w
  BY <1>3, <1>5, Products
<1>7. daemon.left \in Nat /\ (daemon.at = "deleting" => daemon.left <= w)
  BY <1>3, DaemonFields, TickNat DEF PhaseInv, Forever
<1>8. daemon.at = "deleting" => w * (n + 1) <= w * N
  <2> SUFFICES ASSUME daemon.at = "deleting" PROVE w * (n + 1) <= w * N
    OBVIOUS
  <2>1. PICK f \in Timer \ Periodic : f = daemon.fire
    BY DaemonFields DEF PhaseInv, InCallback
  <2>2. f \notin Lost
    <3>1. ~Idles(f)
      BY <2>1 DEF Idles
    <3> QED
      BY <2>1, <3>1 DEF Custody, MemoryInv, Runs, Lost
  <2>3. Cardinality(Lost \cup {f}) = n + 1 /\ Lost \cup {f} \in SUBSET (Timer \ Periodic)
    BY <1>1, <1>5, <2>1, <2>2, LostFinite
  <2>4. n + 1 <= N
    BY <1>2, <2>3, LostFinite
  <2> QED
    BY <1>3, <2>4, Products
<1>9. Waited \in Nat /\ Waited <= w * N
  <2>1. Waited = w * n + IF daemon.at = "deleting" THEN w - daemon.left ELSE 0
    BY <1>1, <1>3 DEF Waited
  <2> QED
    BY <1>6, <1>7, <1>8, <2>1
<1>10. Lag = 2 * m + Waited
  BY <1>4 DEF Lag
<1>11. ASSUME NEW t \in Timer PROVE Period[t] \in Nat /\ Period[t] > 0 /\ Period[t] + Lag + 1 < TickLimit
  <2>1. Period[t] \in Nat /\ Period[t] > 0 /\ TickLimit \in Nat
    BY TimerAssumption
  <2>2. Period[t] + 2 * m + w * N + 1 < TickLimit
    BY <1>2, <1>3, <1>4 DEF LagIsShort
  <2> QED
    BY <1>6, <1>9, <1>10, <2>1, <2>2
<1> QED
  BY <1>4, <1>9, <1>10, <1>11

LEMMA LostStays ==
  ASSUME TypeInv, PhaseInv, Custody, Next
  PROVE  Lost \subseteq Lost'
<1>1. memory \in [Timer -> {"free", "created", "use", "back", "lost"}]
  BY DEF TypeInv
<1>2. CASE Quiet
  BY <1>2, QuietSteps DEF Lost
<1>3. CASE CallbackDeletes
  <2>1. /\ daemon.fire \in Timer /\ daemon.at = "delete"
        /\ memory' = [memory EXCEPT ![daemon.fire] = "back"]
    BY <1>3, CallbackDeletesFacts
  <2>2. memory[daemon.fire] # "lost"
    BY <2>1 DEF Custody, MemoryInv, Runs, Idles
  <2> QED
    BY <1>1, <2>1, <2>2 DEF Lost
<1>4. CASE CallbackDeleteFails
  BY <1>1, <1>4, CallbackDeleteFailsFacts DEF Lost
<1>5. CASE ReceiveCommand
  BY <1>5, ReceiveCommandFacts DEF Lost
<1>6. CASE ApplyStart
  <2>1. memory' = memory
    BY <1>6 DEF ApplyStart, taskVars
  <2> QED
    BY <2>1 DEF Lost
<1>7. CASE ApplyStop
  <2>1. /\ daemon.hand \in Commands
        /\ memory' = IF daemon.hand.op = "DELETE" THEN [memory EXCEPT ![daemon.hand.timer] = "free"]
                     ELSE memory
    BY <1>7, ApplyStopFacts
  <2>2. memory[daemon.hand.timer] # "lost"
    BY <2>1, CommandFields, NullIsNoCommand DEF Custody, CommandInv
  <2> QED
    BY <1>1, <2>1, <2>2 DEF Lost
<1>8. ASSUME NEW s \in Timer, TimerCreate(s) \/ TimerStart(s) \/ TimerStop(s) \/ TimerDelete(s)
      PROVE  Lost \subseteq Lost'
  <2>1. \A t \in Timer : memory[t] = "lost" => memory'[t] = "lost"
    BY <1>1, <1>8, TaskFacts
  <2> QED
    BY <2>1 DEF Lost
<1> QED
  BY <1>2, <1>3, <1>4, <1>5, <1>6, <1>7, <1>8 DEF Next, DaemonStep, Quiet

\* What is behind does not catch up by itself, and while a delete waits for room
\* everything falls behind.
LEMMA LagStep ==
  ASSUME LagIsShort, TypeInv, PhaseInv, Custody, Next
  PROVE  /\ Lag' \in Nat /\ Lag \in Nat /\ Lag' >= Lag
         /\ Tick /\ daemon.at = "deleting" /\ daemon.left > 0 => Lag' >= Lag + 1
<1>1. PICK n \in Nat : n = Cardinality(Lost)
  BY LostFinite DEF Lost
<1>2. PICK k \in Nat : k = Cardinality(Lost')
  BY LostFinite DEF Lost
<1>3. PICK w \in Nat : w = DeleteWait
  BY TimerAssumption
<1>4. PICK m \in Nat \ {0} : m = MaxLate
  BY TimerAssumption
<1>5. PICK p : p = IF daemon.at = "deleting" THEN w - daemon.left ELSE 0
  OBVIOUS
<1>6. PICK q : q = IF daemon'.at = "deleting" THEN w - daemon'.left ELSE 0
  OBVIOUS
<1>7. Lag = 2 * m + w * n + p /\ Lag' = 2 * m + w * k + q
  BY <1>1, <1>2, <1>3, <1>4, <1>5, <1>6 DEF Lag, Waited
<1>8. n <= k /\ w * n \in Nat /\ w * k \in Nat /\ w * n <= w * k
  <2>1. Lost \in SUBSET (Timer \ Periodic) /\ Lost' \in SUBSET (Timer \ Periodic)
    BY DEF Lost
  <2>2. n <= k
    BY <1>1, <1>2, <2>1, LostStays, LostFinite
  <2> QED
    BY <1>3, <2>2, Products
<1>9. p \in Nat /\ q \in Nat
  <2>1. daemon.left \in Nat /\ (daemon.at = "deleting" => daemon.left <= w)
    BY <1>3, DaemonFields, TickNat DEF PhaseInv, Forever
  <2>2. PhaseInv' /\ daemon' \in Daemon
    BY PhaseStep, TypeStep DEF TypeInv, Custody
  <2>3. daemon'.left \in Nat /\ (daemon'.at = "deleting" => daemon'.left <= w)
    BY <1>3, <2>2, TickNat DEF PhaseInv, Forever, Daemon
  <2> QED
    BY <1>5, <1>6, <2>1, <2>3
<1>10. CASE p <= q /\ (Tick /\ daemon.at = "deleting" /\ daemon.left > 0 => q = p + 1)
  BY <1>7, <1>8, <1>9, <1>10
<1>11. CASE daemon.at # "deleting"
  <2>1. p = 0
    BY <1>5, <1>11
  <2> QED
    BY <1>9, <1>10, <1>11, <2>1
<1>12. CASE daemon.at = "deleting"
  <2>1. CASE CallbackDeleteFails
    <3>1. PICK f \in Timer \ Periodic : f = daemon.fire
      BY <2>1, CallbackDeleteFailsFacts
    <3>2. memory' = [memory EXCEPT ![f] = "lost"] /\ daemon'.at = "callback" /\ daemon.left = 0 /\ ~Tick
      <4>1. daemon'.at = "callback"
        BY <2>1, CallbackDeleteFailsFacts DEF Moves
      <4>2. Tick => daemon'.at = "deleting"
        BY <1>12, TickFacts DEF Moves
      <4> QED
        BY <1>12, <2>1, <3>1, <4>1, <4>2, CallbackDeleteFailsFacts
    <3>3. memory[f] = "use"
      BY <1>12, <3>1 DEF Custody, MemoryInv, Runs, Idles
    <3>4. Lost' = Lost \cup {f} /\ f \notin Lost /\ Lost \in SUBSET (Timer \ Periodic)
      BY <3>1, <3>2, <3>3 DEF Lost, TypeInv
    <3>5. k = n + 1
      BY <1>1, <1>2, <3>1, <3>4, LostFinite
    <3>6. w * k = w * n + w /\ p = w /\ q = 0
      BY <1>3, <1>5, <1>6, <1>12, <3>2, <3>5, Products
    <3> QED
      BY <1>3, <1>7, <1>8, <3>2, <3>6
  <2>2. CASE Tick
    <3>1. Moves(daemon.at, daemon.now, daemon.hand, daemon.fire, daemon.exp, daemon.then,
                IF daemon.left = 0 THEN 0 ELSE daemon.left - 1)
      BY <1>12, <2>2, TickFacts
    <3>2. daemon'.at = "deleting" /\ daemon'.left = IF daemon.left = 0 THEN 0 ELSE daemon.left - 1
      BY <1>12, <3>1 DEF Moves
    <3>3. daemon.left \in Nat
      BY DaemonFields, TickNat DEF Forever
    <3>4. p <= q /\ (daemon.left > 0 => q = p + 1)
      BY <1>3, <1>5, <1>6, <1>12, <3>2, <3>3
    <3> QED
      BY <1>10, <3>4
  <2>3. ASSUME NEW s \in Timer, TimerCreate(s) \/ TimerStart(s) \/ TimerStop(s) \/ TimerDelete(s)
        PROVE  p = q
    <3>1. daemon' = daemon
      BY <1>12, <2>3, TaskFacts
    <3> QED
      BY <1>5, <1>6, <3>1
  <2>4. ~DaemonStep \/ CallbackDeleteFails
    BY <1>12 DEF DaemonStep, FindOverflow, FindExpired, BlockTask, SwitchExpired, SwitchLists, Fire,
                 CallbackDeletes, CallbackDeleteWaits, CallbackReturns, ReceiveCommand, QueueEmptied,
                 ApplyStart, ApplyStop
  <2>5. CASE ~DaemonStep /\ ~Tick
    <3>1. p = q
      BY <2>3, <2>5 DEF Next
    <3> QED
      BY <1>9, <1>10, <2>5, <3>1
  <2> QED
    BY <2>1, <2>2, <2>4, <2>5
<1> QED
  BY <1>11, <1>12

-----------------------------------------------------------------------------
(* Times *)

LEMMA TickSums ==
  /\ TickLimit \in Nat \ {0}
  /\ \A a, b \in TickType :
       /\ a \in Nat /\ a < TickLimit
       /\ Minus(a, b) \in Nat /\ Minus(a, b) < TickLimit
       /\ Minus(a, a) = 0
       /\ b <= a => Minus(a, b) = a - b
       /\ a < b => Minus(a, b) = a - b + TickLimit
       /\ Plus(b, Minus(a, b)) = a
       /\ Minus(a, b) < TickLimit - 1 => Minus(Plus(a, 1), b) = Minus(a, b) + 1
  /\ \A a, b, p \in TickType :
       /\ Plus(b, p) \in TickType
       /\ Minus(a, b) >= p => Minus(a, Plus(b, p)) = Minus(a, b) - p
<1>1. TickLimit \in Nat \ {0}
  BY TimerAssumption
<1>2. ASSUME NEW a \in TickType, NEW b \in TickType
      PROVE  /\ a \in Nat /\ a < TickLimit
             /\ Minus(a, b) \in Nat /\ Minus(a, b) < TickLimit
             /\ Minus(a, a) = 0
             /\ b <= a => Minus(a, b) = a - b
             /\ a < b => Minus(a, b) = a - b + TickLimit
             /\ Plus(b, Minus(a, b)) = a
             /\ Minus(a, b) < TickLimit - 1 => Minus(Plus(a, 1), b) = Minus(a, b) + 1
  <2>1. a \in Nat /\ a < TickLimit /\ b \in Nat /\ b < TickLimit
    BY <1>1 DEF TickType
  <2>2. CASE b <= a
    BY <1>1, <2>1, <2>2 DEF Minus, Plus
  <2>3. CASE a < b
    BY <1>1, <2>1, <2>3 DEF Minus, Plus
  <2> QED
    BY <2>1, <2>2, <2>3
<1>3. ASSUME NEW a \in TickType, NEW b \in TickType, NEW p \in TickType
      PROVE  /\ Plus(b, p) \in TickType
             /\ Minus(a, b) >= p => Minus(a, Plus(b, p)) = Minus(a, b) - p
  <2>1. /\ a \in Nat /\ a < TickLimit /\ b \in Nat /\ b < TickLimit /\ p \in Nat /\ p < TickLimit
    BY <1>1 DEF TickType
  <2>2. Plus(b, p) \in TickType
    BY TickArithmetic
  <2>3. CASE b <= a
    BY <1>1, <2>1, <2>2, <2>3 DEF Minus, Plus
  <2>4. CASE a < b
    BY <1>1, <2>1, <2>2, <2>4 DEF Minus, Plus
  <2> QED
    BY <2>1, <2>2, <2>3, <2>4
<1> QED
  BY <1>1, <1>2, <1>3

\* A timer is processed at once, or inserted for a period after the time cmd.
LEMMA InsertedFor ==
  ASSUME NEW t \in Timer, NEW cmd \in TickType, NEW now \in TickType
  PROVE  LET next == Plus(cmd, Period[t]) IN
         /\ Passed(t, next, now, cmd) <=> Minus(now, cmd) >= Period[t]
         /\ ~Passed(t, next, now, cmd) =>
              (IF next <= now THEN next + TickLimit ELSE next) = now + (Period[t] - Minus(now, cmd))
<1>1. Period[t] \in TickType /\ TickLimit \in Nat
  BY TimerAssumption DEF TickType
<1>2. PICK age \in TickType : age = Minus(now, cmd)
  BY TickSums, TickArithmetic
<1>3. Plus(cmd, age) = now
  BY <1>2, TickSums
<1>4. PICK next \in TickType : next = Plus(cmd, Period[t])
  BY <1>1, TickSums
<1>5. Passed(t, next, now, cmd) <=> age >= Period[t]
  BY <1>3, <1>4, PassedCorrect
<1>6. ASSUME ~Passed(t, next, now, cmd)
      PROVE  (IF next <= now THEN next + TickLimit ELSE next) = now + (Period[t] - age)
  <2>1. Period[t] - age = IF next <= now THEN next + TickLimit - now ELSE next - now
    BY <1>3, <1>4, <1>6, InsertionCorrect
  <2>2. next \in Nat /\ now \in Nat /\ age \in Nat /\ Period[t] \in Nat
    BY <1>1, TickSums
  <2> QED
    BY <1>1, <2>1, <2>2
<1> QED
  BY <1>2, <1>4, <1>5, <1>6

LEMMA NowFacts ==
  ASSUME TypeInv
  PROVE  /\ Now \in Nat /\ xTickCount \in Nat /\ xTickCount < TickLimit
         /\ daemon.then = "switch" => Now = xTickCount + TickLimit
         /\ daemon.then # "switch" => Now = xLastTime + Minus(xTickCount, xLastTime) /\ Now >= xLastTime
         /\ Overflowed => Now = xTickCount + TickLimit
         /\ daemon.then # "switch" /\ ~Overflowed => Now = xTickCount
<1>1. /\ xTickCount \in TickType /\ xTickCount \in Nat /\ xTickCount < TickLimit
      /\ xLastTime \in TickType /\ xLastTime \in Nat /\ xLastTime < TickLimit /\ TickLimit \in Nat
  BY TickSums DEF TypeInv
<1>2. /\ xLastTime <= xTickCount => Minus(xTickCount, xLastTime) = xTickCount - xLastTime
      /\ xTickCount < xLastTime => Minus(xTickCount, xLastTime) = xTickCount - xLastTime + TickLimit
  BY <1>1, TickSums
<1> QED
  BY <1>1, <1>2 DEF Now, ListsBehind, Overflowed

\* Where a timer stands.
LEMMA LeftFacts ==
  ASSUME TypeInv, PhaseInv
  PROVE  /\ \A t, d : DueAt(t, d) => ~Firing(t) /\ t \in Armed /\ Left(t) = d - Now
         /\ \A t : Firing(t) => /\ ~Listed(t) /\ t \in Armed /\ daemon.fire = t
                                /\ Left(t) = - Minus(xTickCount, daemon.exp)
         /\ \A t : ~Firing(t) /\ ~Listed(t) => t \notin Armed /\ Left(t) = 0
         /\ \A t \in Armed : t \in Timer /\ Left(t) \in Int
<1>1. Lists /\ NULL \notin Timer /\ daemon.fire \in Timer \cup {NULL}
  BY DaemonFields, TimerAssumption DEF TypeInv
<1>2. ASSUME NEW t, Firing(t)
      PROVE  ~Listed(t) /\ t \in Armed /\ daemon.fire = t /\ Left(t) = - Minus(xTickCount, daemon.exp)
  <2>1. daemon.fire = t /\ t \in Timer
    BY <1>1, <1>2, TimerAssumption DEF Firing, PhaseInv, InCallback
  <2>2. ~Listed(t)
    BY <1>2, <2>1 DEF Firing, PhaseInv
  <2> QED
    BY <1>2, <2>1, <2>2 DEF Armed, Left
<1>3. ASSUME NEW t, NEW d, DueAt(t, d)
      PROVE  ~Firing(t) /\ t \in Armed /\ Left(t) = d - Now
  <2>1. Listed(t) /\ t \in Timer /\ d \in Nat
    BY <1>1, <1>3, DueFacts
  <2>2. ~Firing(t)
    BY <1>2, <2>1
  <2>3. /\ \A x, y \in ToSet(current) : x.timer = y.timer => x = y
        /\ \A x, y \in ToSet(overflow) : x.timer = y.timer => x = y
        /\ \A x \in ToSet(current), y \in ToSet(overflow) : x.timer # y.timer
    BY <1>1, GoodFacts DEF Lists
  <2>4. CASE \E e \in ToSet(current) : e.timer = t /\ e.value = d
    <3>1. PICK e \in ToSet(current) : e.timer = t /\ e.value = d
      BY <2>4
    <3>2. Holds(current, t) /\ (CHOOSE x \in ToSet(current) : x.timer = t) = e
      BY <2>3, <3>1 DEF Holds
    <3> QED
      BY <2>1, <2>2, <3>1, <3>2 DEF Left, Value, Armed
  <2>5. CASE \E e \in ToSet(overflow) : e.timer = t /\ e.value + TickLimit = d
    <3>1. PICK e \in ToSet(overflow) : e.timer = t /\ e.value + TickLimit = d
      BY <2>5
    <3>2. /\ Holds(overflow, t) /\ ~Holds(current, t)
          /\ (CHOOSE x \in ToSet(overflow) : x.timer = t) = e
      BY <2>3, <3>1 DEF Holds
    <3>3. Left(t) = d - Now
      <4>1. Value(overflow, t) = e.value
        BY <3>2 DEF Value
      <4>2. Left(t) = Value(overflow, t) + TickLimit - Now
        BY <2>2, <3>2 DEF Left
      <4>3. PICK v \in Nat : v = e.value
        BY <1>1, <3>1, ListTypes
      <4>4. PICK n \in Nat : n = Now
        BY NowFacts
      <4>5. Left(t) = v + (TickLimit - n)
        BY <4>1, <4>2, <4>3, <4>4
      <4>6. d - n = v + (TickLimit - n)
        BY <3>1, <4>3, TickNat
      <4> QED
        BY <4>4, <4>5, <4>6
    <3>4. t \in Armed
      BY <2>1 DEF Armed
    <3> QED
      BY <2>2, <3>3, <3>4
  <2> QED
    BY <1>3, <2>4, <2>5 DEF DueAt
<1>4. ASSUME NEW t, ~Firing(t), ~Listed(t)
      PROVE  t \notin Armed /\ Left(t) = 0
  BY <1>4 DEF Armed, Left, Listed
<1>5. ASSUME NEW t \in Armed PROVE t \in Timer /\ Left(t) \in Int
  <2>1. t \in Timer /\ (Listed(t) \/ Firing(t))
    BY DEF Armed
  <2>2. xTickCount \in TickType /\ daemon.exp \in TickType /\ Now \in Nat
    BY DaemonFields, NowFacts DEF TypeInv
  <2>3. CASE Firing(t)
    BY <1>2, <2>1, <2>2, <2>3, TickSums
  <2>4. CASE Listed(t)
    <3>1. PICK d \in Nat : DueAt(t, d)
      BY <1>1, <2>4, DueFacts
    <3> QED
      BY <1>3, <2>1, <2>2, <3>1
  <2> QED
    BY <2>1, <2>3, <2>4
<1> QED
  BY <1>2, <1>3, <1>4, <1>5

\* The commands that are not carried out.
LEMMA OutstandingTyped ==
  ASSUME TypeInv
  PROVE  /\ Outstanding \in Seq(Commands)
         /\ ToSet(Outstanding) = {xTimerQueue[i] : i \in 1..Len(xTimerQueue)}
              \cup (IF daemon.hand # NULL /\ daemon.hand.op = "START" THEN {daemon.hand} ELSE {})
<1>1. /\ xTimerQueue \in Seq(Commands) /\ Len(xTimerQueue) \in Nat
      /\ DOMAIN xTimerQueue = 1..Len(xTimerQueue)
  BY DEF TypeInv
<1>2. ToSet(xTimerQueue) = {xTimerQueue[i] : i \in 1..Len(xTimerQueue)}
  BY <1>1 DEF ToSet
<1>3. CASE daemon.hand # NULL /\ daemon.hand.op = "START"
  <2>1. PICK c \in Commands : c = daemon.hand
    BY <1>3, DaemonFields
  <2>2. PICK q \in Seq(Commands) : q = xTimerQueue
    BY <1>1
  <2>3. PICK s : s = <<c>> \o q
    OBVIOUS
  <2>4. /\ s \in Seq(Commands) /\ Len(s) = Len(q) + 1
        /\ \A i \in 1..Len(q) + 1 : s[i] = IF i <= 1 THEN c ELSE q[i - 1]
    <3>1. <<c>> \in Seq(Commands) /\ Len(<<c>>) = 1 /\ <<c>>[1] = c
      OBVIOUS
    <3>2. /\ s \in Seq(Commands) /\ Len(s) = Len(<<c>>) + Len(q)
          /\ \A i \in 1..Len(<<c>>) + Len(q) : s[i] = IF i <= Len(<<c>>) THEN <<c>>[i] ELSE q[i - Len(<<c>>)]
      BY <2>3, <3>1, ConcatProperties
    <3>3. Len(q) \in Nat /\ Len(<<c>>) + Len(q) = Len(q) + 1
      BY <3>1
    <3>4. \A i \in 1..Len(q) + 1 : s[i] = IF i <= 1 THEN c ELSE q[i - 1]
      <4> TAKE i \in 1..Len(q) + 1
      <4>1. i <= 1 => i = 1
        BY <3>3
      <4> QED
        BY <3>1, <3>2, <3>3, <4>1
    <3> QED
      BY <3>1, <3>2, <3>3, <3>4
  <2>5. ToSet(s) = {s[i] : i \in 1..Len(q) + 1}
    <3>1. DOMAIN s = 1..Len(q) + 1
      BY <2>4
    <3> QED
      BY <3>1 DEF ToSet
  <2>6. Len(q) \in Nat
    OBVIOUS
  <2>7. {s[i] : i \in 1..Len(q) + 1} = {q[i] : i \in 1..Len(q)} \cup {c}
    <3>1. \A i \in 1..Len(q) + 1 : i = 1 \/ i - 1 \in 1..Len(q)
      BY <2>6
    <3>2. \A i \in 1..Len(q) : i + 1 \in 1..Len(q) + 1 /\ ~(i + 1 <= 1) /\ (i + 1) - 1 = i
      BY <2>6
    <3>3. s[1] = c /\ 1 \in 1..Len(q) + 1
      BY <2>4, <2>6
    <3>4. \A i \in 1..Len(q) : s[i + 1] = q[i]
      BY <2>4, <3>2
    <3>5. \A i \in 1..Len(q) + 1 : s[i] = c \/ s[i] \in {q[j] : j \in 1..Len(q)}
      BY <2>4, <3>1, <3>3
    <3> QED
      BY <3>2, <3>3, <3>4, <3>5
  <2>8. Outstanding = s
    BY <1>3, <2>1, <2>2, <2>3 DEF Outstanding
  <2> QED
    BY <1>3, <2>1, <2>2, <2>4, <2>5, <2>7, <2>8
<1>4. CASE ~(daemon.hand # NULL /\ daemon.hand.op = "START")
  BY <1>1, <1>2, <1>4 DEF Outstanding
<1> QED
  BY <1>3, <1>4

\* The ticks that are bounded find nothing later than MaxLate.
LEMMA NotBehind ==
  ASSUME TypeInv, PhaseInv, ~Behind
  PROVE  /\ \A t, d : DueAt(t, d) => Now - d < MaxLate
         /\ \A t \in Timer : Firing(t) => Minus(xTickCount, daemon.exp) < MaxLate
         /\ \A t \in Timer : memory[t] = "created" => Minus(xTickCount, stamp[t]) < MaxLate
         /\ \A c \in ToSet(Outstanding) : Age(c) < 2 * MaxLate
<1>1. MaxLate \in Nat /\ Now \in Nat
  BY TimerAssumption, NowFacts
<1>2. \A t \in Armed : Left(t) \in Int /\ ~(Left(t) <= - MaxLate)
  BY LeftFacts DEF Behind
<1>3. ASSUME NEW t, NEW d, DueAt(t, d) PROVE Now - d < MaxLate
  <2>1. t \in Armed /\ Left(t) = d - Now /\ d \in Nat
    BY <1>3, LeftFacts, DueFacts DEF TypeInv
  <2> QED
    BY <1>1, <1>2, <2>1
<1>4. ASSUME NEW t \in Timer, Firing(t) PROVE Minus(xTickCount, daemon.exp) < MaxLate
  <2>1. t \in Armed /\ Left(t) = - Minus(xTickCount, daemon.exp)
    BY <1>4, LeftFacts
  <2>2. Minus(xTickCount, daemon.exp) \in Nat
    BY DaemonFields, TickSums DEF TypeInv
  <2> QED
    BY <1>1, <1>2, <2>1, <2>2
<1>5. ASSUME NEW t \in Timer, memory[t] = "created" PROVE Minus(xTickCount, stamp[t]) < MaxLate
  <2>1. Minus(xTickCount, stamp[t]) \in Nat
    BY TickSums DEF TypeInv
  <2> QED
    BY <1>1, <1>5, <2>1 DEF Behind
<1>6. ASSUME NEW c \in ToSet(Outstanding) PROVE Age(c) < 2 * MaxLate
  <2>1. c \in Commands
    BY OutstandingTyped, QueueTyped, DaemonFields
  <2>2. Age(c) \in Nat
    BY <2>1, CommandFields, TickSums DEF Age, TypeInv
  <2> QED
    BY <1>1, <2>2 DEF Behind
<1> QED
  BY <1>3, <1>4, <1>5, <1>6

\* The step that every timer and every command notices is the tick.
LEMMA ClockStays ==
  ASSUME TypeInv, PhaseInv, CommandInv, Next, ~Tick, ~SwitchLists
  PROVE  xTickCount' = xTickCount /\ Now' = Now /\ Sampled' >= Sampled /\ Sampled \in Nat /\ Sampled' \in Nat
<1>0. /\ xTickCount \in Nat /\ xLastTime \in Nat /\ xLastTime < TickLimit /\ xTickCount < TickLimit
      /\ TickLimit \in Nat \ {0} /\ daemon.then \in {"switch", "commands"}
  BY DaemonFields, TickSums DEF TypeInv
<1>1. daemon.at \in {"loop", "commands", "asleep"} => daemon.then = "commands"
  BY AtRest
<1> USE <1>0 DEF Now, ListsBehind, Overflowed, Sampled, Moves
<1>2. CASE FindOverflow
  BY <1>1, <1>2, FindOverflowFacts
<1>3. CASE FindExpired
  <2>1. /\ xTickCount' = xTickCount /\ xLastTime' = xTickCount /\ daemon'.then = "commands"
        /\ ~Overflowed /\ daemon.then = "commands"
    BY <1>1, <1>3, FindExpiredFacts
  <2> QED
    BY <2>1
<1>4. CASE BlockTask
  BY <1>1, <1>4, BlockTaskFacts
<1>5. CASE SwitchExpired
  <2>1. xTickCount' = xTickCount /\ xLastTime' = xLastTime /\ daemon'.then = daemon.then
    BY <1>5, SwitchExpiredFacts
  <2> QED
    BY <2>1
<1>6. CASE Fire
  <2>1. PICK s \in Timer, next \in TickType :
          /\ Moves(IF s \in Periodic THEN "callback" ELSE "delete", daemon.now, daemon.hand, s, next,
                   daemon.then, daemon.left)
          /\ UNCHANGED <<xTickCount, xLastTime>>
    BY <1>6, FireFacts
  <2> QED
    BY <2>1
<1>7. CASE CallbackDeletes
  BY <1>7, CallbackDeletesFacts
<1>8. CASE CallbackDeleteWaits
  BY <1>8, CallbackDeleteWaitsFacts
<1>9. CASE CallbackDeleteFails
  BY <1>9, CallbackDeleteFailsFacts
<1>10. CASE CallbackReturns
  <2>1. xTickCount' = xTickCount /\ xLastTime' = xLastTime /\ daemon'.then = daemon.then
    BY <1>10, CallbackReturnsFacts
  <2> QED
    BY <2>1
<1>11. CASE ReceiveCommand
  <2>1. /\ xTickCount' = xTickCount
        /\ \/ Overflowed /\ xLastTime' = xLastTime /\ daemon'.then = "switch"
           \/ ~Overflowed /\ xLastTime' = xTickCount /\ daemon'.then = "commands"
        /\ daemon.then = "commands"
    BY <1>1, <1>11, ReceiveCommandFacts
  <2> QED
    BY <2>1
<1>12. CASE QueueEmptied
  BY <1>1, <1>12, QueueEmptiedFacts
<1>13. CASE ApplyStart
  <2>1. xTickCount' = xTickCount /\ xLastTime' = xLastTime /\ daemon'.then = "commands" /\ daemon.then = "commands"
    BY <1>13, ApplyStartFacts
  <2> QED
    BY <2>1
<1>14. CASE ApplyStop
  <2>1. xTickCount' = xTickCount /\ xLastTime' = xLastTime /\ daemon'.then = "commands" /\ daemon.then = "commands"
    BY <1>14, ApplyStopFacts
  <2> QED
    BY <2>1
<1>15. ASSUME NEW s \in Timer, TimerCreate(s) \/ TimerStart(s) \/ TimerStop(s) \/ TimerDelete(s)
       PROVE  xTickCount' = xTickCount /\ xLastTime' = xLastTime /\ daemon'.then = daemon.then
  <2>1. /\ xTickCount' = xTickCount /\ xLastTime' = xLastTime
        /\ \/ daemon.at = "asleep" /\ Moves("commands", 0, NULL, NULL, 0, "commands", 0)
           \/ daemon' = daemon
    BY <1>15, TaskFacts
  <2> QED
    BY <1>1, <2>1
<1>16. CASE xTickCount' = xTickCount /\ xLastTime' = xLastTime /\ daemon'.then = daemon.then
  BY <1>16
<1> QED
  BY <1>2, <1>3, <1>4, <1>5, <1>6, <1>7, <1>8, <1>9, <1>10, <1>11, <1>12, <1>13, <1>14, <1>15, <1>16
     DEF Next, DaemonStep

\* Only an expiry or a start inserts a timer.
LEMMA DuesStay ==
  ASSUME TypeInv, PhaseInv, CommandInv, Next, ~SwitchLists, ~Fire, ~ApplyStart
  PROVE  \A t, d : DueAt(t, d)' => DueAt(t, d)
<1>1. SameDues \/ \E s : Drops(s)
  <2>1. CASE FindOverflow
    BY <2>1, FindOverflowFacts
  <2>2. CASE FindExpired
    BY <2>2, FindExpiredFacts
  <2>3. CASE BlockTask
    BY <2>3, BlockTaskFacts
  <2>4. CASE SwitchExpired
    BY <2>4, SwitchExpiredFacts
  <2>5. CASE CallbackDeletes \/ CallbackDeleteWaits \/ CallbackDeleteFails \/ CallbackReturns
    BY <2>5, CallbackDeletesFacts, CallbackDeleteWaitsFacts, CallbackDeleteFailsFacts, CallbackReturnsFacts
  <2>6. CASE ReceiveCommand
    BY <2>6, ReceiveCommandFacts
  <2>7. CASE QueueEmptied \/ ApplyStop
    BY <2>7, QueueEmptiedFacts, ApplyStopFacts
  <2>8. ASSUME NEW s \in Timer, TimerCreate(s) \/ TimerStart(s) \/ TimerStop(s) \/ TimerDelete(s)
        PROVE  SameDues
    BY <2>8, TaskFacts
  <2>9. CASE Tick
    BY <2>9, TickFacts
  <2> QED
    BY <2>1, <2>2, <2>3, <2>4, <2>5, <2>6, <2>7, <2>8, <2>9 DEF Next, DaemonStep
<1> QED
  BY <1>1 DEF SameDues, Drops

\* While a timer is listed a tick does not take the clock beyond what the lists
\* can tell apart.
LEMMA TickTime ==
  ASSUME LagIsShort, TypeInv, PhaseInv, Custody, TimeInv, Tick, NEW t, NEW d, DueAt(t, d)
  PROVE  Now' = Now + 1 /\ (daemon.then = "switch" => xTickCount' = xTickCount + 1)
<1>1. t \in Timer /\ d \in Nat
  BY DueFacts DEF TypeInv
<1>2. PICK x \in Nat : x = xTickCount
  BY NowFacts
<1>3. PICK s \in Nat : s = xLastTime
  BY TickSums DEF TypeInv
<1>4. PICK lag \in Nat : lag = Lag
  BY LagFacts
<1>5. PICK n \in Nat : n = Now
  BY NowFacts
<1>6. x < TickLimit /\ s < TickLimit /\ TickLimit \in Nat
  BY <1>2, <1>3, TickSums DEF TypeInv
<1>7. Period[t] \in Nat /\ Period[t] + lag + 1 < TickLimit
  BY <1>1, <1>4, LagFacts
<1>8. n - d <= lag /\ d <= Sampled + Period[t]
  BY <1>1, <1>4, <1>5 DEF TimeInv
<1>9. /\ xTickCount' = (IF x + 1 >= TickLimit THEN x + 1 - TickLimit ELSE x + 1)
      /\ xLastTime' = xLastTime
      /\ daemon'.then = daemon.then
  <2>1. xTickCount' = Plus(xTickCount, 1) /\ xLastTime' = xLastTime
    BY TickFacts
  <2>2. daemon.at = "asleep" => daemon.then = "commands"
    BY AtRest
  <2>3. daemon'.then = daemon.then
    BY <2>2, TickFacts DEF Moves
  <2> QED
    BY <1>2, <2>1, <2>3 DEF Plus
<1>10. CASE daemon.then = "switch"
  <2>1. n = x + TickLimit /\ d <= TickLimit - 1 + Period[t]
    BY <1>2, <1>5, <1>8, <1>10, NowFacts DEF Sampled
  <2>2. x + 1 < TickLimit
    BY <1>1, <1>6, <1>7, <1>8, <2>1
  <2>3. xTickCount' = x + 1 /\ Now' = x + 1 + TickLimit
    BY <1>6, <1>9, <1>10, <2>2 DEF Now, ListsBehind
  <2> QED
    BY <1>2, <1>5, <1>6, <2>1, <2>3
<1>11. CASE daemon.then # "switch"
  <2>1. d <= s + Period[t]
    BY <1>3, <1>8, <1>11 DEF Sampled
  <2>2. n = IF x < s THEN x + TickLimit ELSE x
    BY <1>2, <1>3, <1>5, <1>11 DEF Now, ListsBehind, Overflowed
  <2>3. PICK y \in Nat : y = xTickCount' /\ y = IF x + 1 >= TickLimit THEN x + 1 - TickLimit ELSE x + 1
    BY <1>6, <1>9
  <2>4. Now' = IF y < s THEN y + TickLimit ELSE y
    BY <1>3, <1>9, <1>11, <2>3 DEF Now, ListsBehind, Overflowed
  <2>5. n + 1 < s + TickLimit
    BY <1>1, <1>6, <1>7, <1>8, <2>1
  <2>6. (IF y < s THEN y + TickLimit ELSE y) = n + 1
    BY <1>6, <2>2, <2>3, <2>5
  <2> QED
    BY <1>5, <1>11, <2>4, <2>6
<1> QED
  BY <1>10, <1>11

\* What prvInsertTimerInActiveList does with the time of the last sample, in terms
\* of the time now.
LEMMA SampleTime ==
  ASSUME TypeInv, daemon.then # "switch", NEW t \in Timer, NEW cmd \in TickType, NEW next \in TickType,
         next = Plus(cmd, Period[t]),
         Minus(xLastTime, cmd) + Minus(xTickCount, xLastTime) = Minus(xTickCount, cmd)
  PROVE  /\ Passed(t, next, xLastTime, cmd) =>
              /\ Minus(xLastTime, next) + Minus(xTickCount, xLastTime) = Minus(xTickCount, next)
              /\ Minus(xTickCount, next) = Minus(xTickCount, cmd) - Period[t]
              /\ Minus(xTickCount, cmd) >= Period[t]
         /\ ~Passed(t, next, xLastTime, cmd) =>
              LET due == IF next <= xLastTime THEN next + TickLimit ELSE next IN
              due = Now + (Period[t] - Minus(xTickCount, cmd)) /\ due <= xLastTime + Period[t]
<1>1. PICK x \in TickType : x = xTickCount
  BY DEF TypeInv
<1>2. PICK s \in TickType : s = xLastTime
  BY DEF TypeInv
<1>3. PICK n \in Nat : n = Now /\ n = s + Minus(x, s)
  BY <1>1, <1>2, NowFacts
<1>4. PICK p \in TickType : p = Period[t]
  BY TimerAssumption DEF TickType
<1>5. /\ Minus(s, cmd) \in Nat /\ Minus(x, s) \in Nat /\ Minus(x, cmd) \in Nat
      /\ Minus(s, next) \in Nat /\ Minus(x, next) \in Nat /\ p \in Nat /\ s \in Nat
  BY TickSums
<1>6. Minus(s, cmd) + Minus(x, s) = Minus(x, cmd)
  BY <1>1, <1>2
<1>7. ASSUME Passed(t, next, s, cmd)
      PROVE  /\ Minus(s, next) + Minus(x, s) = Minus(x, next)
             /\ Minus(x, next) = Minus(x, cmd) - p
             /\ Minus(x, cmd) >= p
  <2>1. Minus(s, cmd) >= p
    BY <1>4, <1>7, InsertedFor
  <2>2. Minus(s, next) = Minus(s, cmd) - p
    BY <1>4, <2>1, TickSums
  <2>3. Minus(x, cmd) >= p
    BY <1>5, <1>6, <2>1
  <2>4. Minus(x, next) = Minus(x, cmd) - p
    BY <1>4, <2>3, TickSums
  <2> QED
    BY <1>5, <1>6, <2>2, <2>3, <2>4
<1>8. ASSUME ~Passed(t, next, s, cmd)
      PROVE  LET due == IF next <= s THEN next + TickLimit ELSE next IN
             due = n + (p - Minus(x, cmd)) /\ due <= s + p
  <2>1. PICK due : due = IF next <= s THEN next + TickLimit ELSE next
    OBVIOUS
  <2>2. due = s + (p - Minus(s, cmd))
    BY <1>4, <1>8, <2>1, InsertedFor
  <2> QED
    BY <1>3, <1>5, <1>6, <2>1, <2>2
<1> QED
  BY <1>1, <1>2, <1>3, <1>4, <1>7, <1>8

LEMMA FireTime ==
  ASSUME LagIsShort, TypeInv, PhaseInv, FireInv, daemon.at = "fire",
         NEW t \in Timer, t = daemon.fire, NEW next \in TickType, next = Plus(daemon.exp, Period[t])
  PROVE  /\ Firing(t) /\ Minus(xTickCount, daemon.exp) <= Lag
         /\ Passed(t, next, FireNow, daemon.exp) =>
              /\ Minus(xTickCount, next) = Minus(xTickCount, daemon.exp) - Period[t]
              /\ Minus(xTickCount, daemon.exp) >= Period[t]
              /\ IF daemon.then = "switch" THEN xTickCount < next
                 ELSE Minus(daemon.now, next) + Minus(xTickCount, daemon.now) = Minus(xTickCount, next)
         /\ ~Passed(t, next, FireNow, daemon.exp) =>
              LET due == IF next <= FireNow THEN next + TickLimit ELSE next IN
              due = Now + (Period[t] - Minus(xTickCount, daemon.exp)) /\ due <= Sampled + Period[t]
<1>1. Firing(t)
  BY DEF Firing
<1>2. PICK x \in TickType : x = xTickCount
  BY DEF TypeInv
<1>3. PICK e \in TickType : e = daemon.exp
  BY DaemonFields
<1>4. PICK p \in TickType : p = Period[t] /\ p > 0
  BY TimerAssumption DEF TickType
<1>5. PICK n \in Nat : n = Now
  BY NowFacts
<1>6. /\ x \in Nat /\ x < TickLimit /\ e \in Nat /\ e < TickLimit /\ p \in Nat /\ p < TickLimit
      /\ next \in Nat /\ next < TickLimit /\ TickLimit \in Nat /\ TickLimit > 0
  BY TickSums
<1>7. CASE daemon.then = "switch"
  <2>1. x < e /\ x + TickLimit - e <= Lag
    BY <1>1, <1>2, <1>3, <1>7 DEF FireInv
  <2>2. PICK last \in TickType : last = TickLimit - 1 /\ last = FireNow /\ last = Sampled
    BY <1>6, <1>7 DEF TickType, FireNow, Sampled
  <2>3. n = x + TickLimit
    BY <1>2, <1>5, <1>7, NowFacts
  <2>4. Minus(x, e) = x - e + TickLimit /\ Minus(last, e) = last - e /\ last \in Nat
    BY <1>6, <2>1, <2>2, TickSums
  <2>5. Minus(x, e) <= Lag
    <3>1. Minus(x, e) = x + TickLimit - e
      BY <1>6, <2>4
    <3> QED
      BY <2>1, <3>1
  <2>6. ASSUME Passed(t, next, last, e)
        PROVE  Minus(x, next) = Minus(x, e) - p /\ Minus(x, e) >= p /\ x < next
    <3>1. last - e >= p
      BY <1>4, <2>4, <2>6, InsertedFor, <1>3
    <3>2. next = e + p
      BY <1>3, <1>4, <1>6, <2>2, <3>1 DEF Plus
    <3>3. x < next
      BY <1>6, <2>1, <3>2
    <3>4. Minus(x, next) = x - next + TickLimit
      BY <3>3, TickSums
    <3> QED
      BY <1>6, <2>1, <2>2, <2>4, <3>1, <3>2, <3>3, <3>4
  <2>7. ASSUME ~Passed(t, next, last, e)
        PROVE  LET due == IF next <= last THEN next + TickLimit ELSE next IN
               due = n + (p - Minus(x, e)) /\ due <= last + p
    <3>1. PICK due : due = IF next <= last THEN next + TickLimit ELSE next
      OBVIOUS
    <3>2. due = last + (p - (last - e))
      BY <1>3, <1>4, <2>4, <2>7, <3>1, InsertedFor
    <3> QED
      BY <1>6, <2>2, <2>3, <2>4, <3>1, <3>2
  <2> QED
    BY <1>1, <1>2, <1>3, <1>4, <1>5, <1>7, <2>2, <2>5, <2>6, <2>7
<1>8. CASE daemon.then # "switch"
  <2>1. /\ daemon.now = xLastTime
        /\ Minus(daemon.now, e) + Minus(x, daemon.now) = Minus(x, e)
        /\ Minus(x, e) <= Lag
    BY <1>1, <1>2, <1>3, <1>8 DEF FireInv
  <2>2. Minus(xLastTime, e) + Minus(xTickCount, xLastTime) = Minus(xTickCount, e)
    BY <1>2, <2>1
  <2>3. next = Plus(e, Period[t])
    BY <1>3
  <2>4. FireNow = xLastTime /\ Sampled = xLastTime
    BY <1>8, <2>1 DEF FireNow, Sampled
  <2>5. /\ Passed(t, next, xLastTime, e) =>
             /\ Minus(xLastTime, next) + Minus(xTickCount, xLastTime) = Minus(xTickCount, next)
             /\ Minus(xTickCount, next) = Minus(xTickCount, e) - Period[t]
             /\ Minus(xTickCount, e) >= Period[t]
        /\ ~Passed(t, next, xLastTime, e) =>
             LET due == IF next <= xLastTime THEN next + TickLimit ELSE next IN
             due = Now + (Period[t] - Minus(xTickCount, e)) /\ due <= xLastTime + Period[t]
    BY <1>8, <2>2, <2>3, SampleTime
  <2> QED
    BY <1>1, <1>2, <1>3, <1>8, <2>1, <2>4, <2>5
<1> QED
  BY <1>7, <1>8

LEMMA StartTime ==
  ASSUME LagIsShort, TypeInv, PhaseInv, HandInv, daemon.at = "apply",
         NEW c \in Commands, c = daemon.hand, c.op = "START",
         NEW next \in TickType, next = Plus(c.value, Period[c.timer])
  PROVE  /\ daemon.now = xLastTime /\ Age(c) = Minus(xTickCount, c.value) /\ Age(c) <= Lag
         /\ Passed(c.timer, next, daemon.now, c.value) =>
              /\ Minus(daemon.now, next) + Minus(xTickCount, daemon.now) = Minus(xTickCount, next)
              /\ Minus(xTickCount, next) = Age(c) - Period[c.timer]
              /\ Age(c) >= Period[c.timer]
         /\ ~Passed(c.timer, next, daemon.now, c.value) =>
              LET due == IF next <= daemon.now THEN next + TickLimit ELSE next IN
              due = Now + (Period[c.timer] - Age(c)) /\ due <= Sampled + Period[c.timer]
<1>1. daemon.then # "switch" /\ daemon.hand # NULL
  BY NullIsNoCommand DEF PhaseInv, InCallback
<1>2. /\ daemon.now = xLastTime /\ Age(c) <= Lag /\ Age(c) = Minus(xTickCount, c.value)
      /\ Minus(xLastTime, c.value) + Minus(xTickCount, xLastTime) = Minus(xTickCount, c.value)
  <2>1. Age(c) = Minus(xTickCount, c.value)
    BY DEF Age
  <2>2. Age(c) <= Lag
    BY <1>1 DEF HandInv
  <2>3. daemon.now = xLastTime
    BY DEF HandInv
  <2>4. Minus(daemon.now, c.value) + Minus(xTickCount, daemon.now) = Minus(xTickCount, c.value)
    BY DEF HandInv
  <2> QED
    BY <2>1, <2>2, <2>3, <2>4
<1>3. PICK t \in Timer, v \in TickType : t = c.timer /\ v = c.value
  BY CommandFields
<1>4. Sampled = xLastTime
  BY <1>1 DEF Sampled
<1>5. /\ Passed(t, next, xLastTime, v) =>
           /\ Minus(xLastTime, next) + Minus(xTickCount, xLastTime) = Minus(xTickCount, next)
           /\ Minus(xTickCount, next) = Minus(xTickCount, v) - Period[t]
           /\ Minus(xTickCount, v) >= Period[t]
      /\ ~Passed(t, next, xLastTime, v) =>
           LET due == IF next <= xLastTime THEN next + TickLimit ELSE next IN
           due = Now + (Period[t] - Minus(xTickCount, v)) /\ due <= xLastTime + Period[t]
  <2>1. next = Plus(v, Period[t])
    BY <1>3
  <2>2. Minus(xLastTime, v) + Minus(xTickCount, xLastTime) = Minus(xTickCount, v)
    BY <1>2, <1>3
  <2> QED
    BY <1>1, <2>1, <2>2, SampleTime
<1> QED
  BY <1>2, <1>3, <1>4, <1>5

\* When the lists are switched, the times are counted from the next overflow.
LEMMA SwitchTime ==
  ASSUME LagIsShort, TypeInv, PhaseInv, SwitchInv, SwitchLists, NEW t, NEW d, DueAt(t, d)
  PROVE  Now' = xTickCount /\ Now = xTickCount + TickLimit /\ Sampled' = daemon.now /\ d >= TickLimit
<1>1. t \in Armed
  BY LeftFacts
<1>2. /\ daemon.at = "switch" /\ daemon.then = "switch" /\ xLastTime' = daemon.now
      /\ daemon'.then = "commands" /\ xTickCount' = xTickCount /\ d >= TickLimit
  BY SwitchListsFacts DEF Moves
<1>3. daemon.now <= xTickCount
  BY <1>1, <1>2 DEF SwitchInv
<1>4. daemon.now \in Nat /\ xTickCount \in Nat
  BY DaemonFields, TickSums DEF TypeInv
<1> QED
  BY <1>2, <1>3, <1>4, NowFacts DEF Now, ListsBehind, Overflowed, Sampled

Numbers == TimeInv /\ AgeInv /\ HandInv /\ FireInv /\ SwitchInv /\ SleepInv

LEMMA TimeStep ==
  ASSUME LagIsShort, TypeInv, PhaseInv, Custody, Numbers, Next
  PROVE  TimeInv'
<1>1. PICK lag \in Nat : lag = Lag
  BY LagStep
<1>2. PICK after \in Nat : after = Lag' /\ after >= lag
  BY <1>1, LagStep
<1>3. PICK n \in Nat : n = Now
  BY NowFacts
<1>4. PICK s \in Nat : s = Sampled
  BY TickSums DEF Sampled, TypeInv
<1>5. TickLimit \in Nat \ {0} /\ \A t \in Timer : Period[t] \in Nat /\ Period[t] > 0
  BY TickSums, LagFacts
<1>6. \A t \in Timer, d \in Nat : DueAt(t, d) => n - d <= lag /\ d <= s + Period[t]
  BY <1>1, <1>3, <1>4 DEF Numbers, TimeInv
<1>7. SUFFICES ASSUME NEW t \in Timer, NEW d \in Nat, DueAt(t, d)'
               PROVE  Now' - d <= after /\ d <= Sampled' + Period[t]
  BY <1>2 DEF TimeInv
<1>8. PICK p \in Nat : p = Period[t]
  BY <1>5
<1>9. CommandInv
  BY DEF Custody
<1>10. CASE SwitchLists
  <2>1. DueAt(t, d + TickLimit)
    BY <1>7, <1>10, SwitchListsFacts DEF Shifts
  <2>2. Now' = xTickCount /\ Now = xTickCount + TickLimit /\ Sampled' = daemon.now
    BY <1>10, <2>1, SwitchTime DEF Numbers
  <2>3. PICK x \in Nat, now \in Nat : x = xTickCount /\ now = daemon.now
    BY DaemonFields, TickSums DEF TypeInv
  <2>4. s = TickLimit - 1
    BY <1>4, <1>10, SwitchListsFacts DEF Sampled
  <2>5. d + TickLimit \in Nat
    BY <1>5
  <2>6. n - (d + TickLimit) <= lag /\ d + TickLimit <= s + p
    BY <1>6, <1>8, <2>1, <2>5
  <2>7. n = x + TickLimit /\ Now' = x /\ Sampled' = now
    BY <1>3, <2>2, <2>3
  <2>8. x - d <= after /\ d <= now + p
    BY <1>2, <1>5, <2>4, <2>6, <2>7
  <2> QED
    BY <1>8, <2>7, <2>8
<1>11. CASE Tick
  <2>1. DueAt(t, d)
    BY <1>7, <1>11, TickFacts DEF SameDues
  <2>2. Now' = n + 1
    BY <1>3, <1>11, <2>1, TickTime DEF Numbers
  <2>3. Sampled' = s
    <3>1. daemon'.then = daemon.then /\ xLastTime' = xLastTime
      <4>1. daemon.at = "asleep" => daemon.then = "commands"
        BY AtRest
      <4> QED
        BY <1>11, <4>1, TickFacts DEF Moves
    <3> QED
      BY <1>4, <3>1 DEF Sampled
  <2>4. n + 1 - d <= after
    <3>1. CASE ~Behind
      <4>1. PICK m \in Nat \ {0} : m = MaxLate /\ lag >= 2 * m
        BY <1>1, LagFacts
      <4>2. n - d < m
        BY <1>3, <2>1, <3>1, <4>1, NotBehind
      <4> QED
        BY <1>2, <4>1, <4>2
    <3>2. CASE daemon.at = "deleting" /\ daemon.left > 0
      <4>1. after >= lag + 1
        BY <1>1, <1>2, <1>11, <3>2, LagStep
      <4>2. n - d <= lag
        BY <1>6, <2>1
      <4> QED
        BY <1>2, <4>1, <4>2
    <3> QED
      BY <1>11, <3>1, <3>2, TickFacts
  <2>5. d <= s + p
    BY <1>6, <1>8, <2>1
  <2> QED
    BY <1>8, <2>2, <2>3, <2>4, <2>5
<1>12. CASE ~Tick /\ ~SwitchLists
  <2>1. PICK r \in Nat : r = Sampled' /\ r >= s /\ Now' = n
    BY <1>3, <1>4, <1>9, <1>12, ClockStays
  <2>2. CASE DueAt(t, d)
    BY <1>2, <1>6, <1>8, <2>1, <2>2
  <2>3. CASE ~DueAt(t, d) /\ Fire
    <3>1. PICK f \in Timer, next \in TickType :
            /\ daemon.at = "fire" /\ f = daemon.fire
            /\ next = Plus(daemon.exp, Period[f])
            /\ IF f \in Periodic /\ ~Passed(f, next, FireNow, daemon.exp)
               THEN Gains(f, IF next <= FireNow THEN next + TickLimit ELSE next) ELSE SameDues
      BY <2>3, FireFacts
    <3>2. /\ ~Passed(f, next, FireNow, daemon.exp) /\ f = t
          /\ d = IF next <= FireNow THEN next + TickLimit ELSE next
      BY <1>7, <2>3, <3>1 DEF Gains, SameDues
    <3>3. PICK a \in Nat : a = Minus(xTickCount, daemon.exp)
      BY DaemonFields, TickSums DEF TypeInv
    <3>4. a <= lag /\ d = n + (p - a) /\ d <= s + p
      BY <1>1, <1>3, <1>4, <1>8, <3>1, <3>2, <3>3, FireTime DEF Numbers
    <3> QED
      BY <1>2, <1>8, <2>1, <3>4
  <2>4. CASE ~DueAt(t, d) /\ ApplyStart
    <3>1. PICK c \in Commands, next \in TickType :
            /\ daemon.at = "apply" /\ c = daemon.hand /\ c.op = "START"
            /\ next = Plus(c.value, Period[c.timer])
            /\ \/ SameDues
               \/ /\ ~Passed(c.timer, next, daemon.now, c.value)
                  /\ Gains(c.timer, IF next <= daemon.now THEN next + TickLimit ELSE next)
      BY <1>9, <2>4, ApplyStartFacts
    <3>2. /\ ~Passed(c.timer, next, daemon.now, c.value) /\ c.timer = t
          /\ d = IF next <= daemon.now THEN next + TickLimit ELSE next
      BY <1>7, <2>4, <3>1 DEF Gains, SameDues
    <3>3. PICK a \in Nat : a = Age(c)
      <4>1. Age(c) = Minus(xTickCount, c.value) /\ c.value \in TickType
        BY <3>1, CommandFields DEF Age
      <4> QED
        BY <4>1, TickSums DEF TypeInv
    <3>4. a <= lag /\ d = n + (p - a) /\ d <= s + p
      BY <1>1, <1>3, <1>4, <1>8, <3>1, <3>2, <3>3, StartTime DEF Numbers
    <3> QED
      BY <1>2, <1>8, <2>1, <3>4
  <2>5. CASE ~DueAt(t, d) /\ ~Fire /\ ~ApplyStart
    BY <1>7, <1>9, <1>12, <2>5, DuesStay
  <2> QED
    BY <2>2, <2>3, <2>4, <2>5
<1> QED
  BY <1>10, <1>11, <1>12

\* How old a command is after a step.
LEMMA AgeFacts ==
  ASSUME TypeInv, NEW c \in Commands
  PROVE  /\ Age(c) \in Nat
         /\ xTickCount' = xTickCount => Age(c)' = Age(c)
         /\ Tick /\ Age(c) < TickLimit - 1 => Age(c)' = IF c.op = "START" THEN Age(c) + 1 ELSE 0
<1>1. PICK x \in TickType : x = xTickCount
  BY DEF TypeInv
<1>2. PICK v \in TickType : v = c.value
  BY CommandFields
<1>3. Age(c) = IF c.op = "START" THEN Minus(x, v) ELSE 0
  BY <1>1, <1>2 DEF Age
<1>4. Age(c)' = IF c.op = "START" THEN Minus(xTickCount', v) ELSE 0
  BY <1>2 DEF Age
<1>5. Tick => xTickCount' = Plus(x, 1)
  BY <1>1 DEF Tick
<1>6. Minus(x, v) \in Nat /\ (Minus(x, v) < TickLimit - 1 => Minus(Plus(x, 1), v) = Minus(x, v) + 1)
  BY TickSums
<1> QED
  BY <1>1, <1>3, <1>4, <1>5, <1>6

\* A command that is late enough to hold up the ticks is not getting older.
LEMMA AgeTick ==
  ASSUME LagIsShort, TypeInv, PhaseInv, Custody, Tick, NEW c \in Commands, Age(c) <= Lag,
         c \in ToSet(Outstanding) \/ c.op # "START"
  PROVE  Age(c)' <= Lag' /\ Age(c)' = IF c.op = "START" THEN Age(c) + 1 ELSE 0
<1>1. PICK lag \in Nat : lag = Lag
  BY LagFacts
<1>2. Next
  BY DEF Next
<1>3. PICK after \in Nat : after = Lag' /\ after >= lag
  BY <1>1, <1>2, LagStep
<1>4. PICK m \in Nat \ {0} : m = MaxLate /\ lag >= 2 * m
  BY <1>1, LagFacts
<1>5. PICK a \in Nat : a = Age(c) /\ a <= lag
  BY <1>1, AgeFacts
<1>6. a < TickLimit - 1
  <2>1. c.timer \in Timer
    BY CommandFields
  <2>2. PICK p \in Nat : p = Period[c.timer] /\ p + lag + 1 < TickLimit
    BY <1>1, <2>1, LagFacts
  <2> QED
    BY <1>5, <2>2, TickSums
<1>7. Age(c)' = IF c.op = "START" THEN a + 1 ELSE 0
  BY <1>5, <1>6, AgeFacts
<1>8. c.op = "START" => a + 1 <= after
  <2> SUFFICES ASSUME c.op = "START" PROVE a + 1 <= after
    OBVIOUS
  <2>1. CASE ~Behind
    <3>1. a < 2 * m
      BY <1>4, <1>5, <2>1, NotBehind
    <3> QED
      BY <1>3, <1>4, <1>5, <3>1
  <2>2. CASE daemon.at = "deleting" /\ daemon.left > 0
    <3>1. after >= lag + 1
      BY <1>1, <1>2, <1>3, <2>2, LagStep
    <3> QED
      BY <1>3, <1>5, <3>1
  <2> QED
    BY <2>1, <2>2, TickFacts
<1> QED
  BY <1>3, <1>5, <1>7, <1>8

LEMMA AgeStep ==
  ASSUME LagIsShort, TypeInv, PhaseInv, Custody, Numbers, Next
  PROVE  AgeInv'
<1>1. PICK lag \in Nat : lag = Lag
  BY LagStep
<1>2. PICK after \in Nat : after = Lag' /\ after >= lag
  BY <1>1, LagStep
<1>3. CommandInv /\ AgeInv
  BY DEF Custody, Numbers
<1>4. Len(xTimerQueue) \in Nat /\ \A i \in 1..Len(xTimerQueue) : xTimerQueue[i] \in Commands
  BY QueueTyped
<1>5. CASE Tick
  <2>1. xTimerQueue' = xTimerQueue /\ memory' = memory /\ stamp' = stamp /\ xTickCount' = Plus(xTickCount, 1)
    BY <1>5, TickFacts
  <2>2. ASSUME NEW i \in 1..Len(xTimerQueue), NEW c \in Commands, xTimerQueue[i] = c PROVE Age(c)' <= after
    <3>1. c \in ToSet(Outstanding) /\ Age(c) <= Lag
      BY <1>3, <2>2, OutstandingTyped DEF AgeInv
    <3> QED
      BY <1>2, <1>5, <3>1, AgeTick
  <2>3. ASSUME NEW t \in Timer, memory[t] = "created"
        PROVE  Minus(xTickCount', stamp[t]) <= after
    <3>1. PICK x \in TickType, v \in TickType : x = xTickCount /\ v = stamp[t]
      BY DEF TypeInv
    <3>2. PICK a \in Nat : a = Minus(x, v)
      BY TickSums
    <3>3. a <= lag
      BY <1>1, <1>3, <2>3, <3>1, <3>2 DEF AgeInv
    <3>4. a + 1 <= after
      <4>1. CASE ~Behind
        <5>1. PICK m \in Nat \ {0} : m = MaxLate /\ lag >= 2 * m
          BY <1>1, LagFacts
        <5>2. a < m
          BY <2>3, <3>1, <3>2, <4>1, <5>1, NotBehind
        <5> QED
          BY <1>2, <5>1, <5>2
      <4>2. CASE daemon.at = "deleting" /\ daemon.left > 0
        <5>1. after >= lag + 1
          BY <1>1, <1>2, <1>5, <4>2, LagStep
        <5> QED
          BY <1>2, <3>3, <5>1
      <4> QED
        BY <1>5, <4>1, <4>2, TickFacts
    <3>5. a < TickLimit - 1
      <4>1. PICK p \in Nat : p = Period[t] /\ p + lag + 1 < TickLimit
        BY <1>1, LagFacts
      <4> QED
        BY <3>3, <4>1, TickSums
    <3>6. Minus(Plus(x, 1), v) = a + 1
      BY <3>2, <3>5, TickSums
    <3> QED
      BY <2>1, <3>1, <3>4, <3>6
  <2> QED
    BY <1>2, <2>1, <2>2, <2>3 DEF AgeInv
<1>6. CASE ~Tick
  <2>1. xTickCount' = xTickCount
    <3>1. CASE SwitchLists
      BY <3>1 DEF SwitchLists
    <3>2. CASE ~SwitchLists
      BY <1>3, <1>6, <3>2, ClockStays
    <3> QED
      BY <3>1, <3>2
  <2>2. \A c \in Commands : Age(c) \in Nat /\ Age(c)' = Age(c)
    BY <2>1, AgeFacts
  <2>3. CASE xTimerQueue' = xTimerQueue /\ memory' = memory /\ stamp' = stamp
    <3>1. \A i \in 1..Len(xTimerQueue), c \in Commands : xTimerQueue[i] = c => Age(c)' <= after
      BY <1>1, <1>2, <1>3, <2>2 DEF AgeInv
    <3>2. \A t \in Timer : memory[t] = "created" => Minus(xTickCount, stamp[t]) <= after
      <4> TAKE t \in Timer
      <4>1. Minus(xTickCount, stamp[t]) \in Nat
        BY TickSums DEF TypeInv
      <4> QED
        BY <1>1, <1>2, <1>3, <4>1 DEF AgeInv
    <3> QED
      BY <1>2, <2>1, <2>3, <3>1, <3>2 DEF AgeInv
  <2>4. ASSUME NEW c \in Commands, xTimerQueue' = Append(xTimerQueue, c), ~Full, Age(c) <= lag,
               \A t \in Timer : memory'[t] = "created" => memory[t] = "created" /\ stamp'[t] = stamp[t]
        PROVE  AgeInv'
    <3>1. /\ Len(xTimerQueue') = Len(xTimerQueue) + 1
          /\ xTimerQueue'[Len(xTimerQueue) + 1] = c
          /\ \A i \in 1..Len(xTimerQueue) : xTimerQueue'[i] = xTimerQueue[i]
      BY <2>4, Appended
    <3>2. ASSUME NEW i \in 1..Len(xTimerQueue'), NEW b \in Commands, xTimerQueue'[i] = b
          PROVE  Age(b)' <= after
      <4>1. b = c \/ (i \in 1..Len(xTimerQueue) /\ xTimerQueue[i] = b)
        BY <1>4, <3>1, <3>2
      <4>2. Age(b) <= lag
        BY <1>1, <1>3, <2>4, <4>1 DEF AgeInv
      <4> QED
        BY <1>2, <2>2, <4>2
    <3>3. ASSUME NEW t \in Timer, memory'[t] = "created" PROVE Minus(xTickCount', stamp'[t]) <= after
      <4>1. Minus(xTickCount, stamp[t]) \in Nat /\ Minus(xTickCount, stamp[t]) <= lag
        BY <1>1, <1>3, <2>4, <3>3, TickSums DEF AgeInv, TypeInv
      <4> QED
        BY <1>2, <2>1, <2>4, <3>3, <4>1
    <3> QED
      BY <1>2, <3>2, <3>3 DEF AgeInv
  <2>5. CASE CallbackDeletes
    <3>1. PICK f \in Timer : f = daemon.fire
      BY <2>5, CallbackDeletesFacts
    <3>2. PICK c \in Commands : c = Command("DELETE", f, 0) /\ c.op = "DELETE"
      BY Zeros, CommandTyped, NewCommand
    <3>3. xTimerQueue' = Append(xTimerQueue, c) /\ ~Full
          /\ memory' = [memory EXCEPT ![f] = "back"] /\ stamp' = stamp
      BY <2>5, <3>1, <3>2, CallbackDeletesFacts
    <3>4. Age(c) <= lag
      BY <3>2 DEF Age
    <3>5. \A t \in Timer : memory'[t] = "created" => memory[t] = "created" /\ stamp'[t] = stamp[t]
      BY <3>3 DEF TypeInv
    <3> QED
      BY <2>4, <3>3, <3>4, <3>5
  <2>6. CASE CallbackDeleteFails \/ ApplyStop
    <3>1. xTimerQueue' = xTimerQueue /\ stamp' = stamp
          /\ \A t \in Timer : memory'[t] = "created" => memory[t] = "created"
      <4>1. CASE CallbackDeleteFails
        BY <4>1, CallbackDeleteFailsFacts DEF TypeInv
      <4>2. CASE ApplyStop
        BY <4>2, ApplyStopFacts DEF TypeInv
      <4> QED
        BY <2>6, <4>1, <4>2
    <3>2. \A i \in 1..Len(xTimerQueue), c \in Commands : xTimerQueue[i] = c => Age(c)' <= after
      BY <1>1, <1>2, <1>3, <2>2 DEF AgeInv
    <3>3. \A t \in Timer : memory'[t] = "created" => Minus(xTickCount, stamp[t]) <= after
      <4> TAKE t \in Timer
      <4>1. Minus(xTickCount, stamp[t]) \in Nat
        BY TickSums DEF TypeInv
      <4> QED
        BY <1>1, <1>2, <1>3, <3>1, <4>1 DEF AgeInv
    <3> QED
      BY <1>2, <2>1, <3>1, <3>2, <3>3 DEF AgeInv
  <2>7. CASE ReceiveCommand
    <3>1. /\ xTimerQueue # <<>> /\ xTimerQueue' = Tail(xTimerQueue) /\ memory' = memory /\ stamp' = stamp
      BY <2>7, ReceiveCommandFacts
    <3>2. /\ Len(xTimerQueue) \in Nat \ {0} /\ Len(xTimerQueue') = Len(xTimerQueue) - 1
          /\ \A i \in 1..Len(xTimerQueue') : xTimerQueue'[i] = xTimerQueue[i + 1]
      BY <3>1, Taken
    <3>3. \A i \in 1..Len(xTimerQueue') : i + 1 \in 1..Len(xTimerQueue)
      BY <3>2
    <3>4. \A i \in 1..Len(xTimerQueue'), c \in Commands : xTimerQueue'[i] = c => Age(c)' <= after
      BY <1>1, <1>2, <1>3, <2>2, <3>2, <3>3 DEF AgeInv
    <3>5. \A t \in Timer : memory[t] = "created" => Minus(xTickCount, stamp[t]) <= after
      <4> TAKE t \in Timer
      <4>1. Minus(xTickCount, stamp[t]) \in Nat
        BY TickSums DEF TypeInv
      <4> QED
        BY <1>1, <1>2, <1>3, <4>1 DEF AgeInv
    <3> QED
      BY <1>2, <2>1, <3>1, <3>4, <3>5 DEF AgeInv
  <2>8. CASE Quiet
    BY <2>3, <2>8, QuietSteps
  <2>9. CASE ApplyStart
    BY <2>3, <2>9 DEF ApplyStart, taskVars
  <2>10. ASSUME NEW s \in Timer, TimerCreate(s) \/ TimerStart(s) \/ TimerStop(s) \/ TimerDelete(s)
         PROVE  AgeInv'
    <3>1. CASE /\ memory' = [memory EXCEPT ![s] = "created"]
               /\ stamp' = [stamp EXCEPT ![s] = xTickCount] /\ xTimerQueue' = xTimerQueue
      <4>1. \A i \in 1..Len(xTimerQueue), c \in Commands : xTimerQueue[i] = c => Age(c)' <= after
        BY <1>1, <1>2, <1>3, <2>2 DEF AgeInv
      <4>2. ASSUME NEW t \in Timer, memory'[t] = "created" PROVE Minus(xTickCount, stamp'[t]) <= after
        <5>1. CASE t = s
          <6>1. stamp'[t] = xTickCount
            BY <3>1, <5>1 DEF TypeInv
          <6>2. Minus(xTickCount, xTickCount) = 0
            BY TickSums DEF TypeInv
          <6> QED
            BY <6>1, <6>2
        <5>2. CASE t # s
          <6>1. memory[t] = "created" /\ stamp'[t] = stamp[t]
            BY <3>1, <4>2, <5>2 DEF TypeInv
          <6>2. Minus(xTickCount, stamp[t]) \in Nat /\ Minus(xTickCount, stamp[t]) <= lag
            BY <1>1, <1>3, <6>1, TickSums DEF AgeInv, TypeInv
          <6> QED
            BY <1>2, <6>1, <6>2
        <5> QED
          BY <5>1, <5>2
      <4> QED
        BY <1>2, <2>1, <3>1, <4>1, <4>2 DEF AgeInv
    <3>2. CASE /\ memory[s] = "created" /\ memory' = [memory EXCEPT ![s] = "use"]
               /\ stamp' = [stamp EXCEPT ![s] = 0]
               /\ ~Full /\ xTimerQueue' = Append(xTimerQueue, Command("START", s, stamp[s]))
      <4>1. PICK v \in TickType : v = stamp[s]
        BY DEF TypeInv
      <4>2. PICK c \in Commands : c = Command("START", s, v) /\ c.op = "START" /\ c.value = v
        BY CommandTyped, NewCommand
      <4>3. Age(c) <= lag
        BY <1>1, <1>3, <3>2, <4>1, <4>2 DEF AgeInv, Age
      <4>4. \A t \in Timer : memory'[t] = "created" => memory[t] = "created" /\ stamp'[t] = stamp[t]
        BY <3>2 DEF TypeInv
      <4> QED
        BY <2>4, <3>2, <4>1, <4>2, <4>3, <4>4
    <3>3. CASE /\ memory' = [memory EXCEPT ![s] = "lost"]
               /\ stamp' = [stamp EXCEPT ![s] = 0] /\ xTimerQueue' = xTimerQueue
      <4>1. \A i \in 1..Len(xTimerQueue), c \in Commands : xTimerQueue[i] = c => Age(c)' <= after
        BY <1>1, <1>2, <1>3, <2>2 DEF AgeInv
      <4>2. ASSUME NEW t \in Timer, memory'[t] = "created" PROVE Minus(xTickCount, stamp'[t]) <= after
        <5>1. memory[t] = "created" /\ stamp'[t] = stamp[t]
          BY <3>3, <4>2 DEF TypeInv
        <5>2. Minus(xTickCount, stamp[t]) \in Nat /\ Minus(xTickCount, stamp[t]) <= lag
          BY <1>1, <1>3, <5>1, TickSums DEF AgeInv, TypeInv
        <5> QED
          BY <1>2, <5>1, <5>2
      <4> QED
        BY <1>2, <2>1, <3>3, <4>1, <4>2 DEF AgeInv
    <3>4. ASSUME NEW op \in {"STOP", "DELETE"}, s \in Periodic,
                 ~Full, xTimerQueue' = Append(xTimerQueue, Command(op, s, 0)), stamp' = stamp,
                 memory' = memory \/ memory' = [memory EXCEPT ![s] = "back"]
          PROVE  AgeInv'
      <4>1. PICK c \in Commands : c = Command(op, s, 0) /\ c.op # "START"
        BY <3>4, Zeros, CommandTyped, NewCommand
      <4>2. Age(c) <= lag
        BY <4>1 DEF Age
      <4>3. \A t \in Timer : memory'[t] = "created" => memory[t] = "created" /\ stamp'[t] = stamp[t]
        BY <3>4 DEF TypeInv
      <4> QED
        BY <2>4, <3>4, <4>1, <4>2, <4>3
    <3> QED
      BY <2>10, <3>1, <3>2, <3>3, <3>4, TaskFacts
  <2> QED
    BY <1>6, <2>5, <2>6, <2>7, <2>8, <2>9, <2>10 DEF Next, DaemonStep, Quiet
<1> QED
  BY <1>5, <1>6

LEMMA HandStep ==
  ASSUME LagIsShort, TypeInv, PhaseInv, Custody, Numbers, Next
  PROVE  HandInv'
<1>1. PICK lag \in Nat : lag = Lag
  BY LagStep
<1>2. PICK after \in Nat : after = Lag' /\ after >= lag
  BY <1>1, LagStep
<1>3. CommandInv /\ HandInv /\ AgeInv
  BY DEF Custody, Numbers
<1>4. CASE Tick
  <2>1. xTickCount' = Plus(xTickCount, 1) /\ xLastTime' = xLastTime
    BY <1>4, TickFacts
  <2>2. CASE daemon'.hand = NULL /\ daemon'.at # "apply"
    BY <2>2, NullIsNoCommand DEF HandInv
  <2>3. CASE daemon'.hand = daemon.hand /\ daemon'.now = daemon.now /\ daemon'.at = daemon.at
    <3>1. ASSUME NEW c \in Commands, daemon.hand = c
          PROVE  /\ Age(c)' <= after
                 /\ c.op = "START" =>
                      Minus(daemon.now, c.value) + Minus(xTickCount', daemon.now) = Minus(xTickCount', c.value)
      <4>1. Age(c) <= Lag
        BY <1>3, <3>1 DEF HandInv
      <4>2. c \in ToSet(Outstanding) \/ c.op # "START"
        BY <3>1, NullIsNoCommand, OutstandingTyped
      <4>3. Age(c)' <= after
        BY <1>2, <1>4, <4>1, <4>2, AgeTick
      <4>4. ASSUME c.op = "START"
            PROVE  Minus(daemon.now, c.value) + Minus(xTickCount', daemon.now) = Minus(xTickCount', c.value)
        <5>1. PICK x \in TickType, n \in TickType, v \in TickType :
                x = xTickCount /\ n = daemon.now /\ v = c.value
          BY DaemonFields, CommandFields DEF TypeInv
        <5>2. Minus(n, v) + Minus(x, n) = Minus(x, v) /\ Minus(x, v) <= lag
          BY <1>1, <1>3, <3>1, <4>1, <4>4, <5>1 DEF HandInv, Age
        <5>3. Minus(n, v) \in Nat /\ Minus(x, n) \in Nat /\ Minus(x, v) \in Nat
          BY TickSums
        <5>4. lag < TickLimit - 1
          <6>1. c.timer \in Timer
            BY CommandFields
          <6>2. PICK p \in Nat : p = Period[c.timer] /\ p + lag + 1 < TickLimit
            BY <1>1, <6>1, LagFacts
          <6> QED
            BY <6>2, TickSums
        <5>5. Minus(x, v) < TickLimit - 1 /\ Minus(x, n) < TickLimit - 1
          BY <5>2, <5>3, <5>4, TickSums
        <5>6. Minus(Plus(x, 1), v) = Minus(x, v) + 1 /\ Minus(Plus(x, 1), n) = Minus(x, n) + 1
          BY <5>5, TickSums
        <5> QED
          BY <2>1, <5>1, <5>2, <5>3, <5>6
      <4> QED
        BY <4>3, <4>4
    <3> QED
      BY <1>2, <1>3, <2>1, <2>3, <3>1 DEF HandInv
  <2>4. CASE daemon' = daemon
    BY <2>3, <2>4
  <2> QED
    BY <1>4, <2>2, <2>3, <2>4, TickFacts, MovesFields, AtRest
<1>5. ASSUME xTickCount' = xTickCount, daemon'.at # "apply",
             daemon'.hand = NULL \/ (daemon'.hand = daemon.hand /\ daemon'.now = daemon.now)
      PROVE  HandInv'
  <2>1. \A c \in Commands : Age(c) \in Nat /\ Age(c)' = Age(c)
    BY <1>5, AgeFacts
  <2>2. CASE daemon'.hand = NULL
    BY <1>5, <2>2, NullIsNoCommand DEF HandInv
  <2>3. CASE daemon'.hand = daemon.hand /\ daemon'.now = daemon.now
    <3>1. \A c \in Commands : daemon'.hand = c => Age(c)' <= after
      BY <1>1, <1>2, <1>3, <2>1, <2>3 DEF HandInv
    <3> QED
      BY <1>2, <1>3, <1>5, <2>3, <3>1 DEF HandInv
  <2> QED
    BY <1>5, <2>2, <2>3
<1>6. CASE ReceiveCommand
  <2>1. PICK c \in Commands :
          /\ xTimerQueue # <<>> /\ c = Head(xTimerQueue) /\ xTimerQueue' = Tail(xTimerQueue)
          /\ daemon'.hand = c /\ daemon'.now = xTickCount /\ xTickCount' = xTickCount
          /\ daemon'.at = "apply" => xLastTime' = xTickCount
    BY <1>6, ReceiveCommandFacts, MovesFields
  <2>2. 1 \in 1..Len(xTimerQueue) /\ xTimerQueue[1] = c
    BY <2>1, Taken
  <2>3. Age(c) <= lag /\ Age(c) \in Nat /\ Age(c)' = Age(c)
    BY <1>1, <1>3, <2>1, <2>2, AgeFacts DEF AgeInv
  <2>4. Minus(xTickCount, xTickCount) = 0 /\ Minus(xTickCount, c.value) \in Nat
    BY TickSums, CommandFields DEF TypeInv
  <2>5. Age(c)' <= after
    BY <1>2, <2>3
  <2>6. \A b \in Commands : daemon'.hand = b => b = c
    BY <2>1
  <2> QED
    BY <1>2, <2>1, <2>4, <2>5, <2>6 DEF HandInv
<1>7. CASE SwitchLists
  <2>1. xTickCount' = xTickCount /\ xLastTime' = daemon.now
    BY <1>7, SwitchListsFacts
  <2>2. CASE daemon'.hand = NULL /\ daemon'.at = "commands"
    BY <1>5, <2>1, <2>2
  <2>3. CASE daemon'.hand = daemon.hand /\ daemon'.now = daemon.now
    <3>1. \A c \in Commands : Age(c) \in Nat /\ Age(c)' = Age(c)
      BY <2>1, AgeFacts
    <3>2. \A c \in Commands : daemon'.hand = c => Age(c)' <= after
      BY <1>1, <1>2, <1>3, <2>3, <3>1 DEF HandInv
    <3> QED
      BY <1>2, <1>3, <2>1, <2>3, <3>2 DEF HandInv
  <2> QED
    BY <1>7, <2>2, <2>3, SwitchListsFacts, MovesFields
<1>8. CASE FindOverflow \/ FindExpired \/ BlockTask
  BY <1>5, <1>8, FindOverflowFacts, FindExpiredFacts, BlockTaskFacts, MovesFields
<1>9. CASE SwitchExpired \/ Fire
  BY <1>5, <1>9, SwitchExpiredFacts, FireFacts, MovesFields
<1>10. CASE CallbackDeletes \/ CallbackDeleteWaits \/ CallbackDeleteFails
  BY <1>5, <1>10, CallbackDeletesFacts, CallbackDeleteWaitsFacts, CallbackDeleteFailsFacts, MovesFields
<1>11. CASE CallbackReturns \/ QueueEmptied
  BY <1>5, <1>11, CallbackReturnsFacts, QueueEmptiedFacts, MovesFields
<1>12. CASE ApplyStart \/ ApplyStop
  BY <1>3, <1>5, <1>12, ApplyStartFacts, ApplyStopFacts, MovesFields
<1>13. ASSUME NEW t \in Timer, TimerCreate(t) \/ TimerStart(t) \/ TimerStop(t) \/ TimerDelete(t)
       PROVE  HandInv'
  BY <1>5, <1>13, TaskFacts, MovesFields
<1> QED
  BY <1>4, <1>6, <1>7, <1>8, <1>9, <1>10, <1>11, <1>12, <1>13 DEF Next, DaemonStep

\* A timer whose callback is due is as late after a tick as the ticks allow.
LEMMA FireTick ==
  ASSUME LagIsShort, TypeInv, PhaseInv, Custody, FireInv, Tick, NEW t \in Timer, Firing(t)
  PROVE  /\ Minus(xTickCount', daemon.exp) = Minus(xTickCount, daemon.exp) + 1
         /\ Minus(xTickCount', daemon.exp) <= Lag'
         /\ daemon.then = "switch" =>
              xTickCount' < daemon.exp /\ xTickCount' + TickLimit - daemon.exp <= Lag'
                /\ xTickCount' = xTickCount + 1
         /\ daemon.then # "switch" =>
              Minus(daemon.now, daemon.exp) + Minus(xTickCount', daemon.now) = Minus(xTickCount', daemon.exp)
<1>1. PICK x \in TickType, n \in TickType, v \in TickType : x = xTickCount /\ n = daemon.now /\ v = daemon.exp
  BY DaemonFields DEF TypeInv
<1>2. PICK m \in Nat \ {0}, after \in Nat : m = MaxLate /\ after = Lag' /\ after >= 2 * m
  <2>1. PICK m \in Nat \ {0} : m = MaxLate /\ Lag >= 2 * m /\ Lag \in Nat
    BY LagFacts
  <2>2. PICK after \in Nat : after = Lag' /\ after >= Lag
    BY LagStep DEF Next
  <2> QED
    BY <2>1, <2>2
<1>3. PICK a \in Nat, b \in Nat, e \in Nat :
        a = Minus(n, v) /\ b = Minus(x, n) /\ e = Minus(x, v) /\ e < TickLimit
  BY TickSums
<1>4. m < TickLimit - 1
  <2>1. PICK lag \in Nat : lag = Lag /\ lag >= 2 * m
    BY <1>2, LagFacts
  <2>2. PICK p \in Nat : p = Period[t] /\ p + lag + 1 < TickLimit
    BY <2>1, LagFacts
  <2> QED
    BY <2>1, <2>2, TickSums
<1>5. e < m
  <2>1. daemon.at # "deleting"
    BY DEF Firing, PhaseInv
  <2>2. ~Behind
    BY <2>1, TickFacts
  <2> QED
    BY <1>1, <1>2, <1>3, <2>2, NotBehind
<1>6. xTickCount' = Plus(x, 1)
  BY <1>1, TickFacts
<1>7. Minus(Plus(x, 1), v) = e + 1 /\ e + 1 <= after
  BY <1>2, <1>3, <1>4, <1>5, TickSums
<1>8. CASE daemon.then = "switch"
  <2>1. x < v
    BY <1>1, <1>8 DEF FireInv
  <2>2. e = x - v + TickLimit /\ x \in Nat /\ v \in Nat /\ v < TickLimit /\ TickLimit \in Nat
    BY <1>3, <2>1, TickSums
  <2>3. x + 1 < v
    BY <1>4, <1>5, <2>2
  <2>4. Plus(x, 1) = x + 1
    BY <2>2, <2>3 DEF Plus
  <2>5. x + 1 + TickLimit - v <= after
    BY <1>7, <2>2
  <2> QED
    BY <1>1, <1>2, <1>3, <1>6, <1>7, <1>8, <2>3, <2>4, <2>5
<1>9. CASE daemon.then # "switch"
  <2>1. a + b = e
    BY <1>1, <1>3, <1>9 DEF FireInv
  <2>2. Minus(Plus(x, 1), n) = b + 1
    BY <1>3, <1>4, <1>5, <2>1, TickSums
  <2> QED
    BY <1>1, <1>2, <1>3, <1>6, <1>7, <1>9, <2>1, <2>2
<1> QED
  BY <1>8, <1>9

LEMMA FireStep ==
  ASSUME LagIsShort, TypeInv, PhaseInv, Custody, Numbers, Next
  PROVE  FireInv'
<1>1. PICK lag \in Nat : lag = Lag
  BY LagStep
<1>2. PICK after \in Nat : after = Lag' /\ after >= lag
  BY <1>1, LagStep
<1>3. CommandInv /\ HandInv /\ FireInv /\ TimeInv
  BY DEF Custody, Numbers
<1>4. PICK x \in TickType : x = xTickCount
  BY DEF TypeInv
<1>5. TypeInv' /\ Lists /\ Lists'
  BY <1>3, TypeStep DEF TypeInv
<1>6. ASSUME \A t \in Timer : ~Firing(t)' PROVE FireInv'
  BY <1>6 DEF FireInv
<1>7. ASSUME xTickCount' = xTickCount, xLastTime' = xLastTime, daemon'.now = daemon.now,
             daemon'.then = daemon.then, daemon'.exp = daemon.exp, \A t \in Timer : Firing(t)' => Firing(t)
      PROVE  FireInv'
  <2> SUFFICES ASSUME NEW t \in Timer, Firing(t)
               PROVE  IF daemon.then = "switch"
                      THEN xTickCount < daemon.exp /\ xTickCount + TickLimit - daemon.exp <= after
                      ELSE /\ daemon.now = xLastTime
                           /\ Minus(daemon.now, daemon.exp) + Minus(xTickCount, daemon.now) = Minus(xTickCount, daemon.exp)
                           /\ Minus(xTickCount, daemon.exp) <= after
    BY <1>2, <1>7 DEF FireInv
  <2>1. PICK v \in TickType : v = daemon.exp
    BY DaemonFields
  <2>2. x \in Nat /\ v \in Nat /\ TickLimit \in Nat /\ Minus(x, v) \in Nat
    BY TickSums
  <2> QED
    BY <1>1, <1>2, <1>3, <1>4, <2>1, <2>2 DEF FireInv
<1>8. CASE Tick
  <2>1. CASE daemon'.fire = NULL
    BY <1>6, <2>1, TimerAssumption DEF Firing
  <2>2. CASE /\ daemon'.fire = daemon.fire /\ daemon'.now = daemon.now /\ daemon'.at = daemon.at
             /\ daemon'.exp = daemon.exp /\ daemon'.then = daemon.then
    <3>1. \A t \in Timer : Firing(t)' => Firing(t)
      BY <1>5, <1>8, <2>2, ListedAfter, TickFacts DEF Firing
    <3>2. xLastTime' = xLastTime
      BY <1>8, TickFacts
    <3>3. \A t \in Timer : Firing(t) /\ daemon.then # "switch" => daemon.now = xLastTime
      BY <1>3 DEF FireInv
    <3> QED
      BY <1>3, <1>8, <2>2, <3>1, <3>2, <3>3, FireTick DEF FireInv
  <2>3. CASE daemon' = daemon
    BY <2>2, <2>3
  <2> QED
    BY <1>8, <2>1, <2>2, <2>3, TickFacts, MovesFields
<1>9. CASE FindExpired
  <2>1. PICK t \in Timer, v \in TickType :
          /\ DueAt(t, v) /\ v <= xTickCount /\ xLastTime' = xTickCount /\ xTickCount' = xTickCount
          /\ daemon'.then = "commands" /\ daemon'.exp = v /\ daemon'.now = xTickCount
          /\ daemon.at = "loop" /\ ~Overflowed
    BY <1>9, FindExpiredFacts, MovesFields
  <2>2. Now = x
    BY <1>4, <2>1, AtRest, NowFacts
  <2>3. x - v <= lag
    BY <1>1, <1>3, <2>1, <2>2, TickSums DEF TimeInv
  <2>4. Minus(x, v) = x - v /\ Minus(x, x) = 0 /\ x \in Nat /\ v \in Nat
    BY <1>4, <2>1, TickSums
  <2> QED
    BY <1>2, <1>4, <2>1, <2>3, <2>4 DEF FireInv
<1>10. CASE SwitchExpired
  <2>1. PICK t \in Timer, v \in TickType :
          /\ DueAt(t, v) /\ daemon.then = "switch" /\ xTickCount' = xTickCount
          /\ daemon'.then = "switch" /\ daemon'.exp = v
    BY <1>10, SwitchExpiredFacts, MovesFields
  <2>2. Now = x + TickLimit /\ x \in Nat /\ v \in Nat /\ v < TickLimit /\ TickLimit \in Nat
    BY <1>4, <2>1, NowFacts, TickSums
  <2>3. x + TickLimit - v <= lag
    BY <1>1, <1>3, <2>1, <2>2 DEF TimeInv
  <2>4. lag < TickLimit
    <3>1. PICK p \in Nat : p = Period[t] /\ p + lag + 1 < TickLimit
      BY <1>1, LagFacts
    <3> QED
      BY <2>2, <3>1
  <2>5. x < v /\ x + TickLimit - v <= after
    BY <1>2, <2>2, <2>3, <2>4
  <2> QED
    BY <1>2, <1>4, <2>1, <2>5 DEF FireInv
<1>11. CASE Fire
  <2>1. PICK t \in Timer, next \in TickType :
          /\ daemon.at = "fire" /\ t = daemon.fire
          /\ next = Plus(daemon.exp, Period[t])
          /\ Moves(IF t \in Periodic THEN "callback" ELSE "delete", daemon.now, daemon.hand, t, next,
                   daemon.then, daemon.left)
          /\ IF t \in Periodic /\ ~Passed(t, next, FireNow, daemon.exp)
             THEN Gains(t, IF next <= FireNow THEN next + TickLimit ELSE next) ELSE SameDues
          /\ xTickCount' = xTickCount /\ xLastTime' = xLastTime
    BY <1>11, FireFacts
  <2>2. /\ daemon'.at = IF t \in Periodic THEN "callback" ELSE "delete"
        /\ daemon'.now = daemon.now /\ daemon'.fire = t /\ daemon'.exp = next /\ daemon'.then = daemon.then
    BY <2>1, MovesFields
  <2>3. CASE t \in Periodic /\ Passed(t, next, FireNow, daemon.exp)
    <3>1. PICK e \in Nat, p \in Nat : e = Minus(x, daemon.exp) /\ p = Period[t]
      BY <1>4, DaemonFields, TickSums, LagFacts
    <3>2. /\ Firing(t) /\ e <= lag /\ Minus(x, next) = e - p /\ e >= p
          /\ IF daemon.then = "switch" THEN x < next
             ELSE Minus(daemon.now, next) + Minus(x, daemon.now) = Minus(x, next)
      BY <1>1, <1>3, <1>4, <2>1, <2>3, <3>1, FireTime
    <3>3. Minus(x, next) <= after
      BY <1>2, <3>1, <3>2
    <3>4. daemon.then # "switch" => daemon.now = xLastTime
      BY <1>3, <3>2 DEF FireInv
    <3>5. daemon.then = "switch" => x + TickLimit - next <= after
      BY <1>2, <2>1, <3>2, <3>3, TickSums
    <3> QED
      BY <1>2, <1>4, <2>1, <2>2, <3>2, <3>3, <3>4, <3>5 DEF FireInv
  <2>4. CASE t \in Periodic /\ ~Passed(t, next, FireNow, daemon.exp)
    <3>1. PICK d : d = (IF next <= FireNow THEN next + TickLimit ELSE next)
      OBVIOUS
    <3>2. next \in Nat /\ TickLimit \in Nat
      BY TickSums
    <3>3. d \in Nat /\ Gains(t, d)
      BY <2>1, <2>4, <3>1, <3>2
    <3>4. Listed(t)'
      BY <1>5, <3>3, ListedAfter
    <3> QED
      BY <1>6, <2>2, <2>4, <3>4 DEF Firing
  <2>5. CASE t \notin Periodic
    BY <1>6, <2>2, <2>5 DEF Firing
  <2> QED
    BY <2>3, <2>4, <2>5
<1>12. CASE CallbackDeletes \/ CallbackDeleteWaits \/ CallbackDeleteFails
  <2>1. daemon'.fire \notin Periodic /\ daemon'.at # "fire"
    BY <1>12, CallbackDeletesFacts, CallbackDeleteWaitsFacts, CallbackDeleteFailsFacts, MovesFields
  <2> QED
    BY <1>6, <2>1 DEF Firing
<1>13. CASE CallbackReturns
  <2>1. CASE /\ daemon.fire \in Periodic /\ ~Listed(daemon.fire)
             /\ Moves("fire", daemon.now, daemon.hand, daemon.fire, daemon.exp, daemon.then, daemon.left)
    <3>1. \A t \in Timer : Firing(t)' => Firing(t)
      BY <2>1, MovesFields DEF Firing
    <3> QED
      BY <1>7, <1>13, <2>1, <3>1, MovesFields, CallbackReturnsFacts
  <2>2. CASE daemon'.fire = NULL
    BY <1>6, <2>2, TimerAssumption DEF Firing
  <2> QED
    BY <1>13, <2>1, <2>2, CallbackReturnsFacts, MovesFields
<1>14. CASE ApplyStart
  <2>1. PICK c \in Commands, next \in TickType :
          /\ daemon.at = "apply" /\ daemon.then = "commands"
          /\ c = daemon.hand /\ c.op = "START"
          /\ next = Plus(c.value, Period[c.timer])
          /\ \/ /\ Passed(c.timer, next, daemon.now, c.value)
                /\ Moves("fire", daemon.now, NULL, c.timer, next, "commands", 0)
             \/ Moves("commands", 0, NULL, NULL, 0, "commands", 0)
          /\ xTickCount' = xTickCount /\ xLastTime' = xLastTime
    BY <1>3, <1>14, ApplyStartFacts
  <2>2. CASE daemon'.fire = NULL
    BY <1>6, <2>2, TimerAssumption DEF Firing
  <2>3. CASE /\ Passed(c.timer, next, daemon.now, c.value)
             /\ Moves("fire", daemon.now, NULL, c.timer, next, "commands", 0)
    <3>1. PICK a \in Nat, p \in Nat : a = Age(c) /\ p = Period[c.timer]
      BY AgeFacts, CommandFields, LagFacts
    <3>2. /\ daemon.now = xLastTime /\ a <= lag /\ a >= p
          /\ Minus(daemon.now, next) + Minus(x, daemon.now) = Minus(x, next)
          /\ Minus(x, next) = a - p
      BY <1>1, <1>3, <1>4, <2>1, <2>3, <3>1, StartTime
    <3>3. Minus(x, next) <= after
      BY <1>2, <3>1, <3>2
    <3> QED
      BY <1>2, <1>4, <2>1, <2>3, <3>2, <3>3, MovesFields DEF FireInv
  <2> QED
    BY <2>1, <2>2, <2>3, MovesFields
<1>15. CASE FindOverflow \/ BlockTask \/ SwitchLists \/ ReceiveCommand \/ QueueEmptied \/ ApplyStop
  <2>1. daemon'.fire = NULL
    BY <1>15, FindOverflowFacts, BlockTaskFacts, SwitchListsFacts, ReceiveCommandFacts,
       QueueEmptiedFacts, ApplyStopFacts, MovesFields
  <2> QED
    BY <1>6, <2>1, TimerAssumption DEF Firing
<1>16. ASSUME NEW s \in Timer, TimerCreate(s) \/ TimerStart(s) \/ TimerStop(s) \/ TimerDelete(s)
       PROVE  FireInv'
  <2>1. CASE daemon'.fire = NULL
    BY <1>6, <2>1, TimerAssumption DEF Firing
  <2>2. CASE daemon' = daemon
    <3>1. \A t \in Timer : Firing(t)' => Firing(t)
      BY <1>5, <1>16, <2>2, ListedAfter, TaskFacts DEF Firing
    <3> QED
      BY <1>7, <1>16, <2>2, <3>1, TaskFacts
  <2> QED
    BY <1>16, <2>1, <2>2, TaskFacts, MovesFields
<1> QED
  BY <1>8, <1>9, <1>10, <1>11, <1>12, <1>13, <1>14, <1>15, <1>16 DEF Next, DaemonStep

LEMMA SwitchStep ==
  ASSUME LagIsShort, TypeInv, PhaseInv, Custody, Numbers, Next
  PROVE  SwitchInv'
<1>1. CommandInv /\ SwitchInv /\ FireInv /\ TimeInv
  BY DEF Custody, Numbers
<1>2. PICK x \in TickType, n \in TickType : x = xTickCount /\ n = daemon.now
  BY DaemonFields DEF TypeInv
<1>3. TypeInv' /\ Lists /\ Lists' /\ x \in Nat /\ n \in Nat
  BY <1>1, TypeStep, TickSums DEF TypeInv
<1>4. ASSUME daemon'.then # "switch" PROVE SwitchInv'
  BY <1>4 DEF SwitchInv
<1>5. ASSUME daemon'.now = daemon.now, daemon'.then = daemon.then, xTickCount' = xTickCount,
             (\E t \in Timer : Listed(t)' \/ Firing(t)') => \E t \in Timer : Listed(t) \/ Firing(t)
      PROVE  SwitchInv'
  BY <1>1, <1>5 DEF SwitchInv, Armed
<1>6. CASE FindOverflow \/ ReceiveCommand
  <2>1. xTickCount' = xTickCount /\ (daemon'.then = "switch" => daemon'.now = xTickCount)
    BY <1>6, FindOverflowFacts, ReceiveCommandFacts, MovesFields
  <2> QED
    BY <1>2, <1>3, <2>1 DEF SwitchInv
<1>7. CASE SwitchExpired
  <2>1. PICK t \in Timer, v \in TickType :
          /\ DueAt(t, v) /\ xTickCount' = xTickCount /\ daemon.then = "switch"
          /\ daemon'.now = daemon.now /\ daemon'.then = "switch"
    BY <1>7, SwitchExpiredFacts, MovesFields
  <2>2. v \in Nat
    BY TickSums
  <2>3. Listed(t)
    BY <1>3, <2>1, <2>2, DuesAreTimes
  <2> QED
    BY <1>5, <2>1, <2>3
<1>8. CASE Fire
  <2>1. PICK t \in Timer, next \in TickType :
          /\ daemon.at = "fire" /\ t = daemon.fire /\ next = Plus(daemon.exp, Period[t])
          /\ daemon'.now = daemon.now /\ daemon'.then = daemon.then /\ xTickCount' = xTickCount
    BY <1>8, FireFacts, MovesFields
  <2>2. Firing(t)
    BY <1>1, <2>1, FireTime
  <2> QED
    BY <1>5, <2>1, <2>2
<1>9. CASE CallbackDeletes \/ CallbackDeleteWaits \/ CallbackDeleteFails
  <2>1. /\ daemon'.fire \notin Periodic /\ daemon'.at # "fire" /\ SameDues
        /\ daemon'.now = daemon.now /\ daemon'.then = daemon.then /\ xTickCount' = xTickCount
    BY <1>9, CallbackDeletesFacts, CallbackDeleteWaitsFacts, CallbackDeleteFailsFacts, MovesFields
  <2>2. \A t \in Timer : Listed(t)' => Listed(t)
    BY <1>3, <2>1, ListedAfter
  <2>3. \A t \in Timer : ~Firing(t)'
    BY <2>1 DEF Firing
  <2> QED
    BY <1>5, <2>1, <2>2, <2>3
<1>10. CASE CallbackReturns
  <2>1. SameDues /\ xTickCount' = xTickCount /\ daemon.fire \in Timer
    BY <1>10, CallbackReturnsFacts
  <2>2. \A t \in Timer : Listed(t)' => Listed(t)
    BY <1>3, <2>1, ListedAfter
  <2>3. CASE /\ daemon.fire \in Periodic /\ ~Listed(daemon.fire)
             /\ daemon'.now = daemon.now /\ daemon'.then = daemon.then
    BY <1>5, <2>1, <2>3 DEF Firing
  <2>4. CASE daemon'.fire = NULL /\ daemon'.now = daemon.now /\ daemon'.then = daemon.then
    <3>1. \A t \in Timer : ~Firing(t)'
      BY <2>4, TimerAssumption DEF Firing
    <3> QED
      BY <1>5, <2>1, <2>2, <2>4, <3>1
  <2>5. CASE daemon'.then # "switch"
    BY <1>4, <2>5
  <2> QED
    BY <1>10, <2>3, <2>4, <2>5, CallbackReturnsFacts, MovesFields
<1>11. CASE Tick
  <2>1. CASE daemon'.then # "switch"
    BY <1>4, <2>1
  <2>2. CASE /\ daemon'.fire = daemon.fire /\ daemon'.now = daemon.now /\ daemon'.at = daemon.at
             /\ daemon'.then = daemon.then
    <3> SUFFICES ASSUME daemon.then = "switch", NEW t \in Timer, Listed(t)' \/ Firing(t)'
                 PROVE  n <= xTickCount'
      BY <1>2, <2>2 DEF SwitchInv, Armed
    <3>1. (Listed(t)' => Listed(t)) /\ (Firing(t)' => Firing(t))
      BY <1>3, <1>11, <2>2, ListedAfter, TickFacts DEF Firing
    <3>2. n <= x
      BY <1>1, <1>2, <3>1 DEF SwitchInv, Armed
    <3>3. xTickCount' = x + 1
      <4>1. CASE Firing(t)
        BY <1>1, <1>2, <1>11, <4>1, FireTick
      <4>2. CASE Listed(t)
        <5>1. PICK d \in Nat : DueAt(t, d)
          BY <1>3, <4>2, DuesAreTimes
        <5> QED
          BY <1>1, <1>2, <1>11, <5>1, TickTime
      <4> QED
        BY <3>1, <4>1, <4>2
    <3> QED
      BY <1>3, <3>2, <3>3
  <2>3. CASE daemon' = daemon
    BY <2>2, <2>3
  <2> QED
    BY <1>11, <2>1, <2>2, <2>3, TickFacts, MovesFields
<1>12. CASE FindExpired \/ BlockTask \/ SwitchLists \/ QueueEmptied \/ ApplyStart \/ ApplyStop
  <2>1. daemon'.then = "commands"
    BY <1>1, <1>12, FindExpiredFacts, BlockTaskFacts, SwitchListsFacts, QueueEmptiedFacts,
       ApplyStartFacts, ApplyStopFacts, MovesFields
  <2> QED
    BY <1>4, <2>1
<1>13. ASSUME NEW s \in Timer, TimerCreate(s) \/ TimerStart(s) \/ TimerStop(s) \/ TimerDelete(s)
       PROVE  SwitchInv'
  <2>1. CASE daemon'.then = "commands"
    BY <1>4, <2>1
  <2>2. CASE daemon' = daemon
    <3>1. \A t \in Timer : (Listed(t)' => Listed(t)) /\ (Firing(t)' => Firing(t))
      BY <1>3, <1>13, <2>2, ListedAfter, TaskFacts DEF Firing
    <3> QED
      BY <1>5, <1>13, <2>2, <3>1, TaskFacts
  <2> QED
    BY <1>13, <2>1, <2>2, TaskFacts, MovesFields
<1> QED
  BY <1>6, <1>7, <1>8, <1>9, <1>10, <1>11, <1>12, <1>13 DEF Next, DaemonStep

LEMMA SleepStep ==
  ASSUME LagIsShort, TypeInv, PhaseInv, Custody, Numbers, Next
  PROVE  SleepInv'
<1>1. CommandInv /\ TimeInv /\ SleepInv
  BY DEF Custody, Numbers
<1>2. ASSUME daemon'.at # "asleep" PROVE SleepInv'
  BY <1>2 DEF SleepInv
<1>3. PICK now \in Nat : now = Now
  BY NowFacts
<1>4. Lists
  BY DEF TypeInv
<1>5. CASE BlockTask
  <2>1. Now' = now
    <3>1. daemon.then = "commands" /\ daemon'.then = "commands"
      BY <1>5, BlockTaskFacts, AtRest, MovesFields
    <3>2. ~Overflowed /\ ~(xTickCount < xTickCount)
      BY <1>5, BlockTaskFacts, TickSums DEF TypeInv
    <3> QED
      BY <1>3, <1>5, <3>1, <3>2, BlockTaskFacts DEF Now, ListsBehind, Overflowed
  <2>2. now = xTickCount /\ SameDues /\ ~HeadExpired
    BY <1>3, <1>5, AtRest, NowFacts, BlockTaskFacts
  <2>3. PICK w \in 0..Forever : w = TicksToWait
    BY <2>2, NothingExpired
  <2>4. \A t, d : DueAt(t, d) => d > now /\ d - now >= w
    BY <2>2, <2>3, NothingExpired
  <2>5. daemon'.at = "asleep" => daemon'.left = w
    BY <1>5, <2>3, BlockTaskFacts, MovesFields
  <2>6. \A t, d : DueAt(t, d)' => DueAt(t, d)
    BY <2>2 DEF SameDues
  <2>7. \A t \in Timer, d \in Nat : DueAt(t, d) => d - now >= 1
    BY <2>4
  <2> QED
    BY <2>1, <2>4, <2>5, <2>6, <2>7 DEF SleepInv
<1>6. CASE Tick
  <2> SUFFICES ASSUME daemon'.at = "asleep", NEW t \in Timer, NEW d \in Nat, DueAt(t, d)
               PROVE  d - Now' >= 1 /\ d - Now' >= daemon'.left
    <3>1. \A t, d : DueAt(t, d)' => DueAt(t, d)
      BY <1>6, TickFacts DEF SameDues
    <3> QED
      BY <3>1 DEF SleepInv
  <2>1. Now' = now + 1
    BY <1>1, <1>3, <1>6, TickTime
  <2>2. daemon.at = "asleep"
    BY <1>6, TickFacts, MovesFields
  <2>3. PICK w \in Nat : w = daemon.left /\ w <= Forever
    <3>1. PICK w \in 0..Forever : w = daemon.left
      BY DaemonFields
    <3> QED
      BY <3>1, TickSums DEF Forever
  <2>4. d - now >= w
    BY <1>1, <1>3, <2>2, <2>3 DEF SleepInv
  <2>5. w # Forever
    <3>1. daemon.then = "commands"
      BY <2>2, AtRest
    <3>2. PICK l \in Nat : l = xLastTime /\ now >= l /\ Sampled = l
      BY <1>3, <3>1, NowFacts, TickSums DEF TypeInv, Sampled
    <3>3. PICK p \in Nat, lag \in Nat : p = Period[t] /\ lag = Lag /\ p + lag + 1 < TickLimit
      <4>1. PICK lag \in Nat : lag = Lag
        BY LagFacts
      <4> QED
        BY <4>1, LagFacts
    <3>4. d <= l + p
      BY <1>1, <3>2, <3>3 DEF TimeInv
    <3>5. d - now < TickLimit
      BY <3>2, <3>3, <3>4, TickSums
    <3> QED
      BY <2>4, <3>5 DEF Forever
  <2>6. w > 1 /\ daemon'.left = w - 1
    BY <1>6, <2>2, <2>3, <2>5, TickFacts, MovesFields
  <2> QED
    BY <2>1, <2>3, <2>4, <2>6
<1>7. ASSUME NEW s \in Timer, TimerCreate(s) \/ TimerStart(s) \/ TimerStop(s) \/ TimerDelete(s)
      PROVE  SleepInv'
  <2>1. CASE daemon'.at = "commands"
    BY <1>2, <2>1
  <2>2. CASE daemon' = daemon
    <3>1. Now' = now
      BY <1>3, <1>7, <2>2, TaskFacts DEF Now, ListsBehind, Overflowed
    <3>2. \A t, d : DueAt(t, d)' => DueAt(t, d)
      BY <1>7, TaskFacts DEF SameDues
    <3> QED
      BY <1>1, <1>3, <2>2, <3>1, <3>2 DEF SleepInv
  <2> QED
    BY <1>7, <2>1, <2>2, TaskFacts, MovesFields
<1>8. CASE FindOverflow \/ FindExpired \/ SwitchExpired \/ SwitchLists \/ Fire
  <2>1. daemon'.at # "asleep"
    BY <1>8, FindOverflowFacts, FindExpiredFacts, SwitchExpiredFacts, SwitchListsFacts, FireFacts, MovesFields
  <2> QED
    BY <1>2, <2>1
<1>9. CASE CallbackDeletes \/ CallbackDeleteWaits \/ CallbackDeleteFails \/ CallbackReturns
  <2>1. daemon'.at # "asleep"
    BY <1>9, CallbackDeletesFacts, CallbackDeleteWaitsFacts, CallbackDeleteFailsFacts, CallbackReturnsFacts,
       MovesFields
  <2> QED
    BY <1>2, <2>1
<1>10. CASE ReceiveCommand \/ QueueEmptied \/ ApplyStart \/ ApplyStop
  <2>1. daemon'.at # "asleep"
    BY <1>1, <1>10, ReceiveCommandFacts, QueueEmptiedFacts, ApplyStartFacts, ApplyStopFacts, MovesFields
  <2> QED
    BY <1>2, <2>1
<1> QED
  BY <1>5, <1>6, <1>7, <1>8, <1>9, <1>10 DEF Next, DaemonStep

-----------------------------------------------------------------------------
(* The invariant holds *)

LEMMA StutterFacts ==
  ASSUME UNCHANGED vars
  PROVE  /\ TypeInv => TypeInv'
         /\ PhaseInv => PhaseInv'
         /\ Custody => Custody'
         /\ Numbers => Numbers'
<1>1. TypeInv => TypeInv'
  BY DEF vars, listVars, taskVars, TypeInv, Lists
<1>2. PhaseInv => PhaseInv'
  BY DEF vars, listVars, taskVars, PhaseInv, Listed, Holds
<1>3. Custody => Custody'
  BY DEF vars, listVars, taskVars, Custody, QueueInv, CommandInv, MemoryInv, Idles, Runs, Listed, Holds
<1>4. Numbers => Numbers'
  <2>1. /\ Lag' = Lag /\ Now' = Now /\ Sampled' = Sampled
        /\ \A t, d : DueAt(t, d)' <=> DueAt(t, d)
        /\ \A t : (Firing(t)' <=> Firing(t)) /\ (Listed(t)' <=> Listed(t))
        /\ \A c : Age(c)' = Age(c)
    BY DEF vars, listVars, taskVars, Lag, Waited, Lost, Now, ListsBehind, Overflowed, Sampled, DueAt, Firing,
           Listed, Holds, Age
  <2>2. TimeInv => TimeInv'
    BY <2>1 DEF TimeInv
  <2>3. AgeInv => AgeInv'
    BY <2>1 DEF vars, listVars, taskVars, AgeInv
  <2>4. HandInv => HandInv'
    BY <2>1 DEF vars, listVars, taskVars, HandInv
  <2>5. FireInv => FireInv'
    BY <2>1 DEF vars, listVars, taskVars, FireInv
  <2>6. SwitchInv => SwitchInv'
    BY <2>1 DEF vars, listVars, taskVars, SwitchInv, Armed
  <2>7. SleepInv => SleepInv'
    BY <2>1 DEF vars, listVars, taskVars, SleepInv
  <2> QED
    BY <2>2, <2>3, <2>4, <2>5, <2>6, <2>7 DEF Numbers
<1> QED
  BY <1>1, <1>2, <1>3, <1>4

LEMMA InitFacts ==
  ASSUME Init
  PROVE  TypeInv /\ PhaseInv /\ Custody /\ Numbers
<1>1. daemon = [at |-> "loop", now |-> 0, hand |-> NULL, fire |-> NULL, exp |-> 0,
                then |-> "commands", left |-> 0]
  BY DEF Init, Idle
<1>2. ToSet(<<>>) = {}
  BY EmptySeq DEF ToSet
<1>3. \A t, d : ~DueAt(t, d) /\ ~Listed(t)
  BY <1>2 DEF Init, DueAt, Listed, Holds
<1>4. TypeInv
  <2>1. Lists
    BY <1>2, EmptySeq DEF Init, Lists, Good
  <2>2. daemon \in Daemon
    BY <1>1, Zeros DEF Daemon
  <2>3. xTimerQueue \in Seq(Commands) /\ Len(xTimerQueue) <= QueueLength
    BY EmptySeq, TimerAssumption DEF Init
  <2> QED
    BY <2>1, <2>2, <2>3, Zeros DEF Init, TypeInv
<1>5. PhaseInv
  BY <1>1, <1>3, TimerAssumption DEF PhaseInv, InCallback
<1>6. Len(xTimerQueue) = 0
  BY EmptySeq DEF Init
<1>7. \A t \in Timer : Idles(t)
  BY <1>1, <1>3, TimerAssumption DEF Idles
<1>8. Custody
  BY <1>1, <1>6, <1>7 DEF Custody, QueueInv, CommandInv, MemoryInv
<1>9. Numbers
  <2>1. \A t \in Timer : ~Firing(t) /\ memory[t] # "created"
    BY <1>1, TimerAssumption DEF Firing, Init
  <2> QED
    BY <1>1, <1>3, <1>6, <2>1, NullIsNoCommand
       DEF Numbers, TimeInv, AgeInv, HandInv, FireInv, SwitchInv, SleepInv
<1> QED
  BY <1>4, <1>5, <1>8, <1>9

\* Nothing is assumed of the widths for what the daemon and the queue hold.
LEMMA Placed == Spec => [](TypeInv /\ PhaseInv /\ Custody)
<1>1. Init => TypeInv /\ PhaseInv /\ Custody
  BY InitFacts
<1>2. TypeInv /\ PhaseInv /\ Custody /\ [Next]_vars => (TypeInv /\ PhaseInv /\ Custody)'
  BY TypeStep, PhaseStep, CustodyStep, StutterFacts DEF Custody
<1> QED
  BY <1>1, <1>2, PTL DEF Spec

\* The type invariant: the lists hold each timer once at most and in the order of
\* the expiry times, which are values of TickType_t, the queue holds well-formed
\* commands and no more than its length, and the daemon is in one of its places.
\* Of a START command this needs that its timer is in no list when the command is
\* carried out: prvProcessReceivedCommands inserts it without looking.
THEOREM TypeCorrect == Spec => []TypeOK
<1>1. TypeInv => TypeOK
  <2> SUFFICES ASSUME TypeInv PROVE TypeOK
    OBVIOUS
  <2>1. ToSet(current) \cup ToSet(overflow) \subseteq Entry
    BY GoodFacts DEF TypeInv, Lists
  <2>2. ToSet(xTimerQueue) \subseteq Commands
    BY QueueTyped DEF ToSet, TypeInv
  <2> QED
    BY <2>1, <2>2 DEF TypeInv, TypeOK, Entry
<1> QED
  BY <1>1, Placed, PTL

Inv == TypeInv /\ PhaseInv /\ Custody /\ Numbers

LEMMA Invariant ==
  ASSUME LagIsShort
  PROVE  Spec => []Inv
<1>1. Init => Inv
  BY InitFacts DEF Inv
<1>2. Inv /\ [Next]_vars => Inv'
  <2>1. ASSUME TypeInv, PhaseInv, Custody, Numbers, Next PROVE Numbers'
    BY <2>1, TimeStep, AgeStep, HandStep, FireStep, SwitchStep, SleepStep DEF Numbers
  <2> QED
    BY <2>1, TypeStep, PhaseStep, CustodyStep, StutterFacts DEF Custody, Inv
<1> QED
  BY <1>1, <1>2, PTL DEF Spec

-----------------------------------------------------------------------------
(* What TimerService sees of the timers *)

ServiceLeft == [t \in Timer |-> Left(t)]
Asked(c)    == [op |-> c.op, timer |-> c.timer, age |-> Age(c)]
Requests    == [i \in DOMAIN Outstanding |-> Asked(Outstanding[i])]
Running     == IF daemon.at \in {"delete", "deleting", "callback"} THEN daemon.fire ELSE NULL
Resting     == daemon.at = "asleep"

LEMMA LeftOfAll ==
  TypeInv /\ PhaseInv =>
    /\ Lists
    /\ \A t, d : DueAt(t, d) => ~Firing(t) /\ t \in Armed /\ Left(t) = d - Now
    /\ \A t : Firing(t) => /\ ~Listed(t) /\ t \in Armed /\ daemon.fire = t
                           /\ Left(t) = - Minus(xTickCount, daemon.exp)
    /\ \A t : ~Firing(t) /\ ~Listed(t) => t \notin Armed /\ Left(t) = 0
    /\ \A t : Listed(t) <=> \E d \in Nat : DueAt(t, d)
BY LeftFacts, DuesAreTimes DEF TypeInv

LEMMA LeftOfAllNext ==
  (TypeInv /\ PhaseInv =>
    /\ Lists
    /\ \A t, d : DueAt(t, d) => ~Firing(t) /\ t \in Armed /\ Left(t) = d - Now
    /\ \A t : Firing(t) => /\ ~Listed(t) /\ t \in Armed /\ daemon.fire = t
                           /\ Left(t) = - Minus(xTickCount, daemon.exp)
    /\ \A t : ~Firing(t) /\ ~Listed(t) => t \notin Armed /\ Left(t) = 0
    /\ \A t : Listed(t) <=> \E d \in Nat : DueAt(t, d))'
BY LeftOfAll, PTL

\* A timer for which nothing has changed.
StaysPut(t) == (t \in Armed' <=> t \in Armed) /\ Left(t)' = Left(t)

LEMMA SameStand ==
  ASSUME TypeInv, PhaseInv, TypeInv', PhaseInv', NEW t,
         Now' = Now, xTickCount' = xTickCount,
         \A d : DueAt(t, d)' <=> DueAt(t, d),
         Firing(t)' <=> Firing(t), Firing(t) => daemon'.exp = daemon.exp
  PROVE  StaysPut(t)
<1>1. CASE Firing(t)
  BY <1>1, LeftOfAll, LeftOfAllNext DEF StaysPut
<1>2. CASE ~Firing(t) /\ Listed(t)
  <2>1. PICK d \in Nat : DueAt(t, d)
    BY <1>2, LeftOfAll
  <2> QED
    BY <2>1, LeftOfAll, LeftOfAllNext DEF StaysPut
<1>3. CASE ~Firing(t) /\ ~Listed(t)
  <2>1. ~Listed(t)'
    BY <1>3, LeftOfAll, LeftOfAllNext
  <2> QED
    BY <1>3, <2>1, LeftOfAll, LeftOfAllNext DEF StaysPut
<1> QED
  BY <1>1, <1>2, <1>3

LEMMA AllStay ==
  ASSUME \A t \in Timer : StaysPut(t)
  PROVE  Armed' = Armed /\ ServiceLeft' = ServiceLeft
BY DEF StaysPut, ServiceLeft, Armed

\* What is asked for depends on the commands, and on the clock.
Asks == [op : {"START", "STOP", "DELETE"}, timer : Timer, age : Nat]

LEMMA AskedTyped ==
  ASSUME TypeInv, NEW c \in Commands
  PROVE  /\ Asked(c) \in Asks
         /\ xTickCount' = xTickCount => Asked(c)' = Asked(c)
BY AgeFacts, CommandFields DEF Asked, Asks

LEMMA RequestFacts ==
  TypeInv =>
    /\ Outstanding \in Seq(Commands) /\ Requests \in Seq(Asks)
    /\ Len(Outstanding) \in Nat /\ Len(Requests) = Len(Outstanding)
    /\ \A i \in 1..Len(Outstanding), c \in Commands : Outstanding[i] = c => Requests[i] = Asked(c)
<1> SUFFICES ASSUME TypeInv
             PROVE  /\ Outstanding \in Seq(Commands) /\ Requests \in Seq(Asks)
                    /\ Len(Outstanding) \in Nat /\ Len(Requests) = Len(Outstanding)
                    /\ \A i \in 1..Len(Outstanding), c \in Commands : Outstanding[i] = c => Requests[i] = Asked(c)
  OBVIOUS
<1>1. PICK s \in Seq(Commands) : s = Outstanding
  BY OutstandingTyped
<1>2. Len(s) \in Nat /\ DOMAIN s = 1..Len(s) /\ \A i \in 1..Len(s) : s[i] \in Commands
  OBVIOUS
<1>3. Requests = [i \in 1..Len(s) |-> Asked(s[i])]
  BY <1>1, <1>2 DEF Requests
<1>4. \A i \in 1..Len(s) : Asked(s[i]) \in Asks
  BY <1>2, AskedTyped
<1>5. Requests \in [1..Len(s) -> Asks]
  BY <1>3, <1>4
<1>6. Requests \in Seq(Asks) /\ Len(Requests) = Len(s)
  BY <1>2, <1>5, SeqDef, LenProperties
<1> QED
  BY <1>1, <1>2, <1>3, <1>6

LEMMA RequestFactsNext ==
  (TypeInv =>
    /\ Outstanding \in Seq(Commands) /\ Requests \in Seq(Asks)
    /\ Len(Outstanding) \in Nat /\ Len(Requests) = Len(Outstanding)
    /\ \A i \in 1..Len(Outstanding), c \in Commands : Outstanding[i] = c => Requests[i] = Asked(c))'
BY RequestFacts, PTL

LEMMA SameSequence ==
  ASSUME NEW S, NEW r \in Seq(S), NEW s \in Seq(S), Len(r) = Len(s), \A i \in 1..Len(s) : r[i] = s[i]
  PROVE  r = s
<1>1. r \in [1..Len(s) -> S] /\ s \in [1..Len(s) -> S]
  BY LenProperties
<1> QED
  BY <1>1

LEMMA RequestsStay ==
  ASSUME TypeInv, TypeInv', xTickCount' = xTickCount, Outstanding' = Outstanding
  PROVE  Requests' = Requests
<1>1. PICK r \in Seq(Asks), after \in Seq(Asks), s \in Seq(Commands) :
        r = Requests /\ after = Requests' /\ s = Outstanding
  BY RequestFacts, RequestFactsNext
<1>2. Len(r) = Len(s) /\ Len(after) = Len(s)
  BY <1>1, RequestFacts, RequestFactsNext
<1>3. \A i \in 1..Len(s) : s[i] \in Commands /\ r[i] = Asked(s[i]) /\ after[i] = Asked(s[i])'
  BY <1>1, RequestFacts, RequestFactsNext
<1>4. \A i \in 1..Len(s) : after[i] = r[i]
  BY <1>3, AskedTyped
<1> QED
  BY <1>1, <1>2, <1>4, SameSequence

LEMMA RequestAppended ==
  ASSUME TypeInv, TypeInv', xTickCount' = xTickCount, NEW c \in Commands,
         Outstanding' = Append(Outstanding, c)
  PROVE  Requests' = Append(Requests, Asked(c))
<1>1. PICK r \in Seq(Asks), after \in Seq(Asks), s \in Seq(Commands), a \in Asks :
        r = Requests /\ after = Requests' /\ s = Outstanding /\ a = Asked(c)
  BY RequestFacts, RequestFactsNext, AskedTyped
<1>2. Len(r) = Len(s) /\ Len(after) = Len(s) + 1 /\ Len(s) \in Nat
  BY <1>1, RequestFacts, RequestFactsNext, AppendProperties
<1>3. \A i \in 1..Len(s) : s[i] \in Commands /\ r[i] = Asked(s[i]) /\ after[i] = Asked(s[i])'
  <2>1. \A i \in 1..Len(s) : s[i] \in Commands /\ Append(s, c)[i] = s[i] /\ i \in 1..Len(s) + 1
    BY <1>2
  <2> QED
    BY <1>1, <1>2, <2>1, RequestFacts, RequestFactsNext
<1>4. after[Len(s) + 1] = Asked(c)'
  <2>1. Append(s, c)[Len(s) + 1] = c /\ Len(s) + 1 \in 1..Len(s) + 1
    BY <1>2
  <2> QED
    BY <1>1, <1>2, <2>1, RequestFacts, RequestFactsNext
<1>5. \A i \in 1..Len(s) : after[i] = r[i]
  BY <1>3, AskedTyped
<1>6. after[Len(s) + 1] = a
  BY <1>1, <1>4, AskedTyped
<1>7. Append(r, a) \in Seq(Asks) /\ Len(Append(r, a)) = Len(s) + 1
      /\ \A i \in 1..Len(s) + 1 : Append(r, a)[i] = IF i = Len(s) + 1 THEN a ELSE r[i]
  BY <1>2
<1>8. \A i \in 1..Len(s) + 1 : after[i] = Append(r, a)[i]
  BY <1>2, <1>5, <1>6, <1>7
<1> QED
  BY <1>1, <1>2, <1>7, <1>8, SameSequence

LEMMA RequestServed ==
  ASSUME TypeInv, TypeInv', xTickCount' = xTickCount, NEW c \in Commands, Outstanding # <<>>,
         c = Head(Outstanding), Outstanding' = Tail(Outstanding)
  PROVE  Requests # <<>> /\ Head(Requests) = Asked(c) /\ Requests' = Tail(Requests)
<1>1. PICK r \in Seq(Asks), after \in Seq(Asks), s \in Seq(Commands) :
        r = Requests /\ after = Requests' /\ s = Outstanding
  BY RequestFacts, RequestFactsNext
<1>2. s # <<>> /\ Len(s) \in Nat \ {0} /\ Len(r) = Len(s)
  BY <1>1, RequestFacts, EmptySeq
<1>3. /\ Len(Tail(s)) = Len(s) - 1 /\ s[1] = c
      /\ \A i \in 1..Len(s) - 1 : Tail(s)[i] = s[i + 1] /\ i + 1 \in 1..Len(s) /\ s[i + 1] \in Commands
  BY <1>1, <1>2
<1>4. Len(after) = Len(s) - 1
  BY <1>1, <1>3, RequestFactsNext
<1>5. r # <<>> /\ r[1] = Asked(c) /\ Head(r) = r[1]
  BY <1>1, <1>2, <1>3, RequestFacts
<1>6. \A i \in 1..Len(s) - 1 : r[i + 1] = Asked(s[i + 1])
  BY <1>1, <1>3, RequestFacts
<1>7. \A i \in 1..Len(s) - 1 : after[i] = Asked(s[i + 1])'
  BY <1>1, <1>3, RequestFactsNext
<1>8. \A i \in 1..Len(s) - 1 : after[i] = r[i + 1]
  BY <1>3, <1>6, <1>7, AskedTyped
<1>9. Tail(r) \in Seq(Asks) /\ Len(Tail(r)) = Len(s) - 1
      /\ \A i \in 1..Len(s) - 1 : Tail(r)[i] = r[i + 1]
  BY <1>2, <1>5
<1>10. PICK rest \in Seq(Asks) : rest = Tail(r)
  BY <1>9
<1>11. Len(rest) = Len(after) /\ \A i \in 1..Len(after) : rest[i] = after[i]
  BY <1>4, <1>8, <1>9, <1>10
<1>12. after = Tail(r)
  BY <1>10, <1>11, SameSequence
<1> QED
  BY <1>1, <1>5, <1>12

LEMMA RequestsAge ==
  ASSUME LagIsShort, TypeInv, TypeInv', PhaseInv, Custody, Numbers, Tick, Outstanding' = Outstanding
  PROVE  Requests' = [i \in DOMAIN Requests |->
           [Requests[i] EXCEPT !.age = IF Requests[i].op = "START" THEN @ + 1 ELSE 0]]
<1>1. PICK r \in Seq(Asks), after \in Seq(Asks), s \in Seq(Commands) :
        r = Requests /\ after = Requests' /\ s = Outstanding
  BY RequestFacts, RequestFactsNext
<1>2. Len(r) = Len(s) /\ Len(after) = Len(s) /\ DOMAIN r = 1..Len(s) /\ after \in [1..Len(s) -> Asks]
  BY <1>1, RequestFacts, RequestFactsNext
<1>3. ASSUME NEW i \in 1..Len(s)
      PROVE  after[i] = [r[i] EXCEPT !.age = IF r[i].op = "START" THEN @ + 1 ELSE 0]
  <2>1. PICK c \in Commands : c = s[i]
    OBVIOUS
  <2>2. r[i] = Asked(c) /\ after[i] = Asked(c)'
    BY <1>1, <1>2, <1>3, <2>1, RequestFacts, RequestFactsNext
  <2>3. c \in ToSet(Outstanding)
    BY <1>1, <1>3, <2>1 DEF ToSet
  <2>4. Age(c) <= Lag
    <3>1. CASE daemon.hand = c
      BY <3>1 DEF Numbers, HandInv
    <3>2. CASE daemon.hand # c
      <4>1. PICK j \in 1..Len(xTimerQueue) : xTimerQueue[j] = c
        BY <2>3, <3>2, OutstandingTyped
      <4> QED
        BY <4>1 DEF Numbers, AgeInv
    <3> QED
      BY <3>1, <3>2
  <2>5. Age(c)' = IF c.op = "START" THEN Age(c) + 1 ELSE 0
    BY <2>3, <2>4, AgeTick
  <2>6. Asked(c)' = [op |-> c.op, timer |-> c.timer, age |-> IF c.op = "START" THEN Age(c) + 1 ELSE 0]
    BY <2>5 DEF Asked
  <2>7. Asked(c) = [op |-> c.op, timer |-> c.timer, age |-> Age(c)]
    BY DEF Asked
  <2> QED
    BY <2>2, <2>6, <2>7
<1>4. after = [i \in 1..Len(s) |-> [r[i] EXCEPT !.age = IF r[i].op = "START" THEN @ + 1 ELSE 0]]
  BY <1>2, <1>3
<1> QED
  BY <1>1, <1>2, <1>4

\* What becomes of the commands that are not carried out.
Starting == daemon.hand # NULL /\ daemon.hand.op = "START"
LEMMA SameOutstanding ==
  ASSUME xTimerQueue' = xTimerQueue,
         daemon'.hand = daemon.hand \/ (~Starting /\ daemon'.hand = NULL)
  PROVE  Outstanding' = Outstanding
BY DEF Outstanding, Starting

LEMMA OutstandingAppended ==
  ASSUME TypeInv, PhaseInv, NEW c \in Commands, xTimerQueue' = Append(xTimerQueue, c),
         daemon'.hand = daemon.hand
  PROVE  Outstanding' = Append(Outstanding, c)
<1>1. PICK q \in Seq(Commands) : q = xTimerQueue
  BY DEF TypeInv
<1>2. CASE Starting
  <2>1. PICK h \in Commands : h = daemon.hand
    BY <1>2, DaemonFields DEF Starting
  <2>2. <<h>> \in Seq(Commands) /\ <<c>> \in Seq(Commands)
    OBVIOUS
  <2>3. <<h>> \o Append(q, c) = Append(<<h>> \o q, c)
    <3>1. Append(q, c) = q \o <<c>>
      BY AppendIsConcat
    <3>2. <<h>> \o q \in Seq(Commands)
      BY <2>2, ConcatProperties
    <3>3. Append(<<h>> \o q, c) = (<<h>> \o q) \o <<c>>
      BY <3>2, AppendIsConcat
    <3>4. (<<h>> \o q) \o <<c>> = <<h>> \o (q \o <<c>>)
      BY <2>2, ConcatAssociative
    <3> QED
      BY <3>1, <3>3, <3>4
  <2> QED
    BY <1>1, <1>2, <2>1, <2>3 DEF Outstanding, Starting
<1>3. CASE ~Starting
  BY <1>3 DEF Outstanding, Starting
<1> QED
  BY <1>2, <1>3

\* A command that starts a timer is not carried out when it is received.
LEMMA OutstandingTaken ==
  ASSUME TypeInv, daemon.hand = NULL, NEW c \in Commands, xTimerQueue # <<>>, c = Head(xTimerQueue),
         xTimerQueue' = Tail(xTimerQueue), daemon'.hand = c
  PROVE  /\ Outstanding = xTimerQueue
         /\ Outstanding' = IF c.op = "START" THEN Outstanding ELSE Tail(Outstanding)
<1>1. PICK q \in Seq(Commands) : q = xTimerQueue /\ q # <<>>
  BY DEF TypeInv
<1>2. Outstanding = q
  BY <1>1 DEF Outstanding
<1>3. <<Head(q)>> \o Tail(q) = q
  <2>1. /\ Len(q) \in Nat \ {0} /\ Tail(q) \in Seq(Commands) /\ Len(Tail(q)) = Len(q) - 1
        /\ <<Head(q)>> \in Seq(Commands) /\ Head(q) = q[1]
        /\ \A i \in 1..Len(q) - 1 : Tail(q)[i] = q[i + 1]
    BY <1>1
  <2>2. PICK p \in Seq(Commands) : p = <<Head(q)>> \o Tail(q)
    BY <2>1, ConcatProperties
  <2>3. Len(p) = Len(q) /\ \A i \in 1..Len(q) : p[i] = q[i]
    <3>1. PICK h \in Seq(Commands), u \in Seq(Commands) : h = <<Head(q)>> /\ u = Tail(q) /\ Len(h) = 1 /\ h[1] = q[1]
      BY <2>1
    <3>2. Len(p) = 1 + Len(u) /\ \A i \in 1..1 + Len(u) : p[i] = IF i <= 1 THEN h[i] ELSE u[i - 1]
      BY <2>2, <3>1, ConcatProperties
    <3> QED
      BY <2>1, <3>1, <3>2
  <2> QED
    BY <2>2, <2>3, SameSequence
<1>4. Outstanding' = IF c.op = "START" THEN <<c>> \o Tail(q) ELSE Tail(q)
  BY <1>1, NullIsNoCommand DEF Outstanding
<1> QED
  BY <1>1, <1>2, <1>3, <1>4

LEMMA OutstandingServed ==
  ASSUME TypeInv, Starting, xTimerQueue' = xTimerQueue, daemon'.hand = NULL
  PROVE  /\ Outstanding # <<>> /\ Head(Outstanding) = daemon.hand
         /\ Outstanding' = Tail(Outstanding)
<1>1. PICK q \in Seq(Commands), h \in Commands : q = xTimerQueue /\ h = daemon.hand
  BY DaemonFields DEF TypeInv, Starting
<1>2. Outstanding = <<h>> \o q /\ Outstanding' = q
  BY <1>1 DEF Outstanding, Starting
<1>3. <<h>> \o q # <<>> /\ Head(<<h>> \o q) = h /\ Tail(<<h>> \o q) = q
  <2>0. <<h>> \in Seq(Commands) /\ Len(<<h>>) = 1 /\ <<h>>[1] = h
    OBVIOUS
  <2>1. PICK s \in Seq(Commands) : s = <<h>> \o q
    BY <2>0, ConcatProperties
  <2>2. Len(s) = 1 + Len(q) /\ \A i \in 1..1 + Len(q) : s[i] = IF i <= 1 THEN h ELSE q[i - 1]
    <3>1. PICK b \in Seq(Commands) : b = <<h>> /\ Len(b) = 1 /\ b[1] = h
      BY <2>0
    <3>2. Len(s) = 1 + Len(q) /\ \A i \in 1..1 + Len(q) : s[i] = IF i <= 1 THEN b[i] ELSE q[i - 1]
      BY <2>1, <3>1, ConcatProperties
    <3>3. \A i \in 1..1 + Len(q) : i <= 1 => b[i] = h
      BY <3>1
    <3> QED
      BY <3>2, <3>3
  <2>3. s # <<>> /\ Head(s) = h
    BY <2>2
  <2>4. /\ Tail(s) \in Seq(Commands) /\ Len(Tail(s)) = Len(q)
        /\ \A i \in 1..Len(q) : Tail(s)[i] = q[i]
    BY <2>2, <2>3
  <2>5. Tail(s) = q
    BY <2>4, SameSequence
  <2> QED
    BY <2>1, <2>3, <2>5
<1> QED
  BY <1>1, <1>2, <1>3

\* The steps of TimerService, as they are seen.
LEMMA SeesNothing ==
  ASSUME \A t \in Timer : StaysPut(t), Requests' = Requests, Running' = Running, Resting' = Resting
  PROVE  UNCHANGED Service!serviceVars
<1>1. Armed' = Armed /\ ServiceLeft' = ServiceLeft
  BY AllStay
<1> QED
  BY <1>1 DEF Service!serviceVars, ServiceLeft, Requests, Asked, Running, Resting

LEMMA SeesRequest ==
  ASSUME NEW c \in Commands, NEW age, age = Age(c),
         \A t \in Timer : StaysPut(t), Requests' = Append(Requests, Asked(c)), Running' = Running, ~Resting'
  PROVE  Service!Request(c.timer, c.op, age)
<1>1. Armed' = Armed /\ ServiceLeft' = ServiceLeft
  BY AllStay
<1>2. Requests' = Append(Requests, [op |-> c.op, timer |-> c.timer, age |-> age])
  BY DEF Asked
<1>3. Resting' = FALSE
  BY DEF Resting
<1> QED
  BY <1>1, <1>2, <1>3 DEF Service!Request, ServiceLeft, Requests, Asked, Running, Resting

LEMMA SeesServed ==
  ASSUME NEW c \in Commands, Requests # <<>>, Head(Requests) = Asked(c), Requests' = Tail(Requests),
         Running = NULL, Running' = NULL, Resting' = Resting,
         \A u \in Timer \ {c.timer} : StaysPut(u)
  PROVE  /\ c.op = "START" /\ c.timer \in Armed' /\ Left(c.timer)' = Period[c.timer] - Age(c) => Service!ServeStart
         /\ c.op # "START" /\ c.timer \notin Armed' /\ Left(c.timer)' = 0 => Service!ServeStop
<1>1. c.timer \in Timer /\ c.op \in {"START", "STOP", "DELETE"}
  BY CommandFields
<1>2. Head(Requests).op = c.op /\ Head(Requests).timer = c.timer /\ Head(Requests).age = Age(c)
  BY DEF Asked
<1>3. ASSUME c.op = "START", c.timer \in Armed', Left(c.timer)' = Period[c.timer] - Age(c)
      PROVE  Service!ServeStart
  <2>1. Armed' = Armed \cup {c.timer}
    BY <1>1, <1>3 DEF StaysPut, Armed
  <2>2. ServiceLeft' = [ServiceLeft EXCEPT ![c.timer] = Period[c.timer] - Age(c)]
    BY <1>1, <1>3 DEF StaysPut, ServiceLeft
  <2>3. /\ Armed' = Armed \cup {Head(Requests).timer}
        /\ ServiceLeft' = [ServiceLeft EXCEPT ![Head(Requests).timer] =
                             Period[Head(Requests).timer] - Head(Requests).age]
        /\ Head(Requests).op = "START"
    BY <1>2, <1>3, <2>1, <2>2
  <2> QED
    BY <2>3 DEF Service!ServeStart, ServiceLeft, Requests, Asked, Running, Resting
<1>4. ASSUME c.op # "START", c.timer \notin Armed', Left(c.timer)' = 0
      PROVE  Service!ServeStop
  <2>1. Armed' = Armed \ {c.timer}
    BY <1>1, <1>4 DEF StaysPut, Armed
  <2>2. ServiceLeft' = [ServiceLeft EXCEPT ![c.timer] = 0]
    BY <1>1, <1>4 DEF StaysPut, ServiceLeft
  <2>3. /\ Armed' = Armed \ {Head(Requests).timer}
        /\ ServiceLeft' = [ServiceLeft EXCEPT ![Head(Requests).timer] = 0]
        /\ Head(Requests).op \in {"STOP", "DELETE"}
    BY <1>1, <1>2, <1>4, <2>1, <2>2
  <2> QED
    BY <2>3 DEF Service!ServeStop, ServiceLeft, Requests, Asked, Running, Resting
<1> QED
  BY <1>3, <1>4

LEMMA SeesExpiry ==
  ASSUME NEW t \in Timer, t \in Armed, Left(t) <= 0, Running = NULL, Running' = t,
         Requests' = Requests, Resting' = Resting, \A u \in Timer \ {t} : StaysPut(u),
         IF t \in Periodic THEN t \in Armed' /\ Left(t)' = Left(t) + Period[t]
         ELSE t \notin Armed' /\ Left(t)' = 0
  PROVE  Service!Expire(t)
<1>1. Armed' = IF t \in Periodic THEN Armed ELSE Armed \ {t}
  BY DEF StaysPut, Armed
<1>2. ServiceLeft' = [ServiceLeft EXCEPT ![t] = IF t \in Periodic THEN @ + Period[t] ELSE 0]
  BY DEF StaysPut, ServiceLeft
<1>3. ServiceLeft[t] <= 0
  BY DEF ServiceLeft
<1> QED
  BY <1>1, <1>2, <1>3 DEF Service!Expire, Service!Due, ServiceLeft, Requests, Asked, Running, Resting

LEMMA SeesReturn ==
  ASSUME \A t \in Timer : StaysPut(t), Requests' = Requests, Running # NULL, Running' = NULL, Resting' = Resting
  PROVE  Service!Return
<1>1. Armed' = Armed /\ ServiceLeft' = ServiceLeft
  BY AllStay
<1> QED
  BY <1>1 DEF Service!Return, ServiceLeft, Requests, Asked, Running, Resting

LEMMA SeesRest ==
  ASSUME \A t \in Timer : StaysPut(t), Requests = <<>>, Requests' = Requests,
         Running = NULL, Running' = NULL, Resting',
         \A t \in Armed : Left(t) > 0 /\ Left(t) \in Int
  PROVE  Service!Rest
<1>1. Armed' = Armed /\ ServiceLeft' = ServiceLeft
  BY AllStay
<1>2. {t \in Armed : ServiceLeft[t] <= 0} = {}
  BY DEF ServiceLeft, Armed
<1>3. Resting' = TRUE
  BY DEF Resting
<1> QED
  BY <1>1, <1>2, <1>3 DEF Service!Rest, Service!Due, ServiceLeft, Requests, Asked, Running, Resting

LEMMA SeesTime ==
  ASSUME \A t \in Timer : (t \in Armed' <=> t \in Armed) /\ Left(t)' = (IF t \in Armed THEN Left(t) - 1 ELSE 0),
         Requests' = [i \in DOMAIN Requests |->
           [Requests[i] EXCEPT !.age = IF Requests[i].op = "START" THEN @ + 1 ELSE 0]],
         Running' = Running, Resting' => Resting,
         Resting => \A t \in Armed : Left(t) > 0 /\ Left(t) \in Int
  PROVE  Service!Elapse
<1>1. Armed' = Armed
  BY DEF Armed
<1>2. ServiceLeft' = [t \in Timer |-> IF t \in Armed THEN ServiceLeft[t] - 1 ELSE 0]
  BY DEF ServiceLeft
<1>3. Resting => {t \in Armed : ServiceLeft[t] <= 0} = {}
  BY DEF ServiceLeft, Armed
<1>4. Resting' \in {Resting, FALSE}
  BY DEF Resting
<1> QED
  BY <1>1, <1>2, <1>3, <1>4 DEF Service!Elapse, Service!Due, ServiceLeft, Requests, Asked, Running, Resting

-----------------------------------------------------------------------------
(* The timers keep the promises of TimerService *)

Sees == Service!Next \/ UNCHANGED Service!serviceVars

LEMMA InvParts ==
  ASSUME Inv, Inv'
  PROVE  /\ TypeInv /\ PhaseInv /\ Custody /\ Numbers /\ CommandInv
         /\ TypeInv' /\ PhaseInv' /\ Custody' /\ Numbers' /\ CommandInv'
BY DEF Inv, Custody

LEMMA AllStand ==
  ASSUME Inv, Inv', Now' = Now, xTickCount' = xTickCount, SameDues,
         \A t \in Timer : (Firing(t)' <=> Firing(t)) /\ (Firing(t) => daemon'.exp = daemon.exp)
  PROVE  \A t \in Timer : StaysPut(t)
BY InvParts, SameStand DEF SameDues

LEMMA NoneFires ==
  /\ daemon.fire = NULL => \A t \in Timer : ~Firing(t)
  /\ daemon'.fire = NULL => \A t \in Timer : ~Firing(t)'
BY TimerAssumption DEF Firing

\* The daemon moves on between two timers.
LEMMA QuietView ==
  ASSUME Inv, Inv', Now' = Now, xTickCount' = xTickCount, SameDues,
         daemon.fire = NULL, daemon'.fire = NULL
  PROVE  (\A t \in Timer : StaysPut(t)) /\ Running = NULL /\ Running' = NULL
BY AllStand, NoneFires DEF Running

LEMMA RequestsSame ==
  ASSUME Inv, Inv', xTickCount' = xTickCount, xTimerQueue' = xTimerQueue,
         daemon'.hand = daemon.hand \/ (~Starting /\ daemon'.hand = NULL)
  PROVE  Requests' = Requests
BY InvParts, SameOutstanding, RequestsStay

LEMMA ViewFindOverflow == ASSUME Inv, Inv', FindOverflow PROVE Sees
<1>1. /\ daemon.at = "loop" /\ daemon'.at = "switch" /\ daemon'.fire = NULL /\ daemon'.hand = NULL
      /\ xTickCount' = xTickCount /\ xTimerQueue' = xTimerQueue /\ SameDues /\ Overflowed
      /\ daemon'.then = "switch"
  BY InvParts, FindOverflowFacts, MovesFields
<1>2. daemon.fire = NULL /\ daemon.hand = NULL /\ daemon.then = "commands"
  BY <1>1, InvParts, AtRest
<1>3. Now' = Now
  BY <1>1, <1>2 DEF Now, ListsBehind
<1>4. Requests' = Requests
  BY <1>1, <1>2, RequestsSame
<1>5. Resting' = Resting
  BY <1>1 DEF Resting
<1> QED
  BY <1>1, <1>2, <1>3, <1>4, <1>5, QuietView, SeesNothing DEF Sees

LEMMA ViewFindExpired == ASSUME Inv, Inv', FindExpired PROVE Sees
<1>1. PICK t \in Timer, v \in TickType :
        /\ daemon.at = "loop" /\ ~Overflowed /\ DueAt(t, v) /\ v <= xTickCount /\ Drops(t)
        /\ daemon'.at = "fire" /\ daemon'.fire = t /\ daemon'.exp = v /\ daemon'.hand = NULL
        /\ daemon'.then = "commands" /\ xLastTime' = xTickCount
        /\ xTickCount' = xTickCount /\ xTimerQueue' = xTimerQueue
  BY InvParts, FindExpiredFacts, MovesFields
<1>2. daemon.fire = NULL /\ daemon.hand = NULL /\ daemon.then = "commands"
  BY <1>1, InvParts, AtRest
<1>3. PICK x \in TickType : x = xTickCount
  BY InvParts DEF TypeInv
<1>4. Now = x /\ Now' = x /\ ~(x < x)
  BY <1>1, <1>2, <1>3, TickSums DEF Now, ListsBehind, Overflowed
<1>5. StaysPut(t)
  <2>1. t \in Armed /\ Left(t) = v - x
    BY <1>1, <1>4, InvParts, LeftOfAll
  <2>2. Firing(t)'
    BY <1>1 DEF Firing
  <2>3. t \in Armed' /\ Left(t)' = - Minus(x, v)
    BY <1>1, <1>3, <2>2, InvParts, LeftOfAllNext
  <2>4. - Minus(x, v) = v - x
    BY <1>1, <1>3, TickSums
  <2> QED
    BY <2>1, <2>3, <2>4 DEF StaysPut
<1>6. ASSUME NEW u \in Timer, u # t PROVE StaysPut(u)
  <2>1. ~Firing(u) /\ ~Firing(u)'
    BY <1>1, <1>2, <1>6, NoneFires DEF Firing
  <2>2. \A d : DueAt(u, d)' <=> DueAt(u, d)
    BY <1>1, <1>6 DEF Drops
  <2> QED
    BY <1>1, <1>4, <2>1, <2>2, InvParts, SameStand
<1>7. Requests' = Requests
  BY <1>1, <1>2, RequestsSame
<1>8. Resting' = Resting /\ Running' = Running
  BY <1>1 DEF Resting, Running
<1> QED
  BY <1>5, <1>6, <1>7, <1>8, SeesNothing DEF Sees

LEMMA ViewBlockTask == ASSUME Inv, Inv', BlockTask PROVE Sees
<1>1. /\ daemon.at = "loop" /\ ~Overflowed /\ ~HeadExpired /\ xLastTime' = xTickCount
      /\ (daemon'.at = "asleep" /\ xTimerQueue = <<>>) \/ daemon'.at = "commands"
      /\ daemon'.fire = NULL /\ daemon'.hand = NULL /\ daemon'.then = "commands"
      /\ xTickCount' = xTickCount /\ xTimerQueue' = xTimerQueue /\ SameDues
  BY InvParts, BlockTaskFacts, MovesFields
<1>2. daemon.fire = NULL /\ daemon.hand = NULL /\ daemon.then = "commands"
  BY <1>1, InvParts, AtRest
<1>3. PICK x \in TickType : x = xTickCount
  BY InvParts DEF TypeInv
<1>4. Now = x /\ Now' = x
  BY <1>1, <1>2, <1>3, TickSums DEF Now, ListsBehind, Overflowed
<1>5. Requests' = Requests
  BY <1>1, <1>2, RequestsSame
<1>6. (\A t \in Timer : StaysPut(t)) /\ Running = NULL /\ Running' = NULL
  BY <1>1, <1>2, <1>4, QuietView
<1>7. CASE daemon'.at = "asleep" /\ xTimerQueue = <<>>
  <2>1. Outstanding = <<>>
    BY <1>2, <1>7 DEF Outstanding
  <2>2. Requests = <<>>
    BY <2>1 DEF Requests
  <2>3. ASSUME NEW t \in Armed PROVE Left(t) > 0 /\ Left(t) \in Int
    <3>1. t \in Timer /\ ~Firing(t) /\ Listed(t)
      BY <1>2, NoneFires DEF Armed
    <3>2. PICK d \in Nat : DueAt(t, d)
      BY <3>1, InvParts, LeftOfAll
    <3>3. Left(t) = d - x /\ d > x
      BY <1>1, <1>3, <1>4, <3>2, InvParts, LeftOfAll, NothingExpired
    <3> QED
      BY <3>3, TickSums
  <2>4. Resting'
    BY <1>7 DEF Resting
  <2> QED
    BY <1>5, <1>6, <2>2, <2>3, <2>4, SeesRest DEF Sees, Service!Next
<1>8. CASE daemon'.at = "commands"
  BY <1>1, <1>5, <1>6, <1>8, SeesNothing DEF Sees, Resting
<1> QED
  BY <1>1, <1>7, <1>8

LEMMA ViewSwitchExpired == ASSUME LagIsShort, Inv, Inv', SwitchExpired PROVE Sees
<1>1. PICK t \in Timer, v \in TickType :
        /\ daemon.at = "switch" /\ daemon.then = "switch" /\ daemon.fire = NULL /\ DueAt(t, v) /\ Drops(t)
        /\ daemon'.at = "fire" /\ daemon'.fire = t /\ daemon'.exp = v /\ daemon'.hand = daemon.hand
        /\ daemon'.then = "switch"
        /\ xTickCount' = xTickCount /\ xTimerQueue' = xTimerQueue
  BY InvParts, SwitchExpiredFacts, MovesFields
<1>2. PICK x \in TickType : x = xTickCount
  BY InvParts DEF TypeInv
<1>3. Now = x + TickLimit /\ Now' = x + TickLimit
  BY <1>1, <1>2 DEF Now, ListsBehind
<1>4. Firing(t)'
  BY <1>1 DEF Firing
<1>5. x < v
  BY <1>1, <1>2, <1>4, InvParts DEF Numbers, FireInv
<1>6. StaysPut(t)
  <2>1. t \in Armed /\ Left(t) = v - (x + TickLimit)
    BY <1>1, <1>3, InvParts, LeftOfAll
  <2>2. t \in Armed' /\ Left(t)' = - Minus(x, v)
    BY <1>1, <1>2, <1>4, InvParts, LeftOfAllNext
  <2>3. - Minus(x, v) = v - (x + TickLimit)
    BY <1>5, TickSums
  <2> QED
    BY <2>1, <2>2, <2>3 DEF StaysPut
<1>7. ASSUME NEW u \in Timer, u # t PROVE StaysPut(u)
  <2>1. ~Firing(u) /\ ~Firing(u)'
    BY <1>1, <1>7, NoneFires DEF Firing
  <2>2. \A d : DueAt(u, d)' <=> DueAt(u, d)
    BY <1>1, <1>7 DEF Drops
  <2> QED
    BY <1>1, <1>3, <2>1, <2>2, InvParts, SameStand
<1>8. Requests' = Requests
  BY <1>1, RequestsSame
<1>9. Resting' = Resting /\ Running' = Running
  BY <1>1 DEF Resting, Running
<1> QED
  BY <1>6, <1>7, <1>8, <1>9, SeesNothing DEF Sees

LEMMA ViewSwitchLists == ASSUME LagIsShort, Inv, Inv', SwitchLists PROVE Sees
<1>1. /\ daemon.at = "switch" /\ daemon.fire = NULL /\ Shifts
      /\ daemon'.at \in {"commands", "apply"} /\ daemon'.fire = NULL /\ daemon'.hand = daemon.hand
      /\ xTickCount' = xTickCount /\ xTimerQueue' = xTimerQueue
      /\ \A u, d : DueAt(u, d) => d >= TickLimit
  BY InvParts, SwitchListsFacts, MovesFields
<1>2. ASSUME NEW t \in Timer PROVE StaysPut(t)
  <2>1. ~Firing(t) /\ ~Firing(t)'
    BY <1>1, NoneFires
  <2>2. CASE Listed(t)
    <3>1. PICK d \in Nat : DueAt(t, d)
      BY <2>2, InvParts, LeftOfAll
    <3>2. PICK x \in TickType : x = xTickCount
      BY InvParts DEF TypeInv
    <3>3. Now' = x /\ Now = x + TickLimit /\ d >= TickLimit
      BY <3>1, <3>2, InvParts, SwitchTime DEF Numbers
    <3>4. PICK e \in Nat : d = e + TickLimit
      BY <3>3, TickSums
    <3>5. DueAt(t, e)'
      BY <1>1, <3>1, <3>4 DEF Shifts
    <3>6. t \in Armed /\ Left(t) = d - (x + TickLimit) /\ t \in Armed' /\ Left(t)' = e - x
      BY <3>1, <3>3, <3>5, InvParts, LeftOfAll, LeftOfAllNext
    <3> QED
      BY <3>4, <3>6, TickSums DEF StaysPut
  <2>3. CASE ~Listed(t)
    <3>1. ~Listed(t)'
      BY <1>1, <2>3, InvParts, LeftOfAll, ListedAfter DEF TypeInv
    <3> QED
      BY <2>1, <2>3, <3>1, InvParts, LeftOfAll, LeftOfAllNext DEF StaysPut
  <2> QED
    BY <2>2, <2>3
<1>3. Requests' = Requests
  BY <1>1, RequestsSame
<1>4. Resting' = Resting /\ Running' = Running
  BY <1>1 DEF Resting, Running
<1> QED
  BY <1>2, <1>3, <1>4, SeesNothing DEF Sees

LEMMA ViewFire == ASSUME LagIsShort, Inv, Inv', Fire PROVE Sees
<1>1. PICK t \in Timer, next \in TickType :
        /\ daemon.at = "fire" /\ t = daemon.fire /\ ~Listed(t)
        /\ next = Plus(daemon.exp, Period[t])
        /\ Moves(IF t \in Periodic THEN "callback" ELSE "delete", daemon.now, daemon.hand, t, next,
                 daemon.then, daemon.left)
        /\ IF t \in Periodic /\ ~Passed(t, next, FireNow, daemon.exp)
           THEN Gains(t, IF next <= FireNow THEN next + TickLimit ELSE next) ELSE SameDues
        /\ xTickCount' = xTickCount /\ xLastTime' = xLastTime /\ xTimerQueue' = xTimerQueue
  BY InvParts, FireFacts
<1>2. /\ daemon'.at = IF t \in Periodic THEN "callback" ELSE "delete"
      /\ daemon'.hand = daemon.hand /\ daemon'.fire = t /\ daemon'.exp = next /\ daemon'.then = daemon.then
  BY <1>1, MovesFields
<1>3. PICK x \in TickType, e \in Nat, p \in Nat, now \in Nat :
        x = xTickCount /\ e = Minus(x, daemon.exp) /\ p = Period[t] /\ now = Now
  <2>1. PICK x \in TickType : x = xTickCount
    BY InvParts DEF TypeInv
  <2>2. Minus(x, daemon.exp) \in Nat
    BY InvParts, DaemonFields, TickSums
  <2>3. Period[t] \in Nat
    BY InvParts, LagFacts
  <2>4. Now \in Nat
    BY InvParts, NowFacts
  <2> QED
    BY <2>1, <2>2, <2>3, <2>4
<1>4. Now' = now
  BY <1>1, <1>2, <1>3 DEF Now, ListsBehind, Overflowed
<1>5. Firing(t) /\ t \in Armed /\ Left(t) = - e
  BY <1>1, <1>3, InvParts, LeftOfAll DEF Firing
<1>6. Requests' = Requests
  BY <1>1, <1>2, RequestsSame
<1>7. Resting' = Resting /\ Running = NULL /\ Running' = t
  BY <1>1, <1>2 DEF Resting, Running
<1>8. IF t \in Periodic THEN t \in Armed' /\ Left(t)' = Left(t) + Period[t]
      ELSE t \notin Armed' /\ Left(t)' = 0
  <2>1. CASE t \in Periodic /\ Passed(t, next, FireNow, daemon.exp)
    <3>1. SameDues
      BY <1>1, <2>1
    <3>2. ~Listed(t)'
      BY <1>1, <3>1, InvParts, ListedAfter DEF TypeInv
    <3>3. Firing(t)'
      BY <1>2, <2>1, <3>2 DEF Firing
    <3>4. t \in Armed' /\ Left(t)' = - Minus(x, next)
      BY <1>1, <1>2, <1>3, <3>3, InvParts, LeftOfAllNext
    <3>5. Minus(x, next) = e - p
      BY <1>1, <1>3, <2>1, InvParts, FireTime DEF Numbers
    <3> QED
      BY <1>3, <1>5, <2>1, <3>4, <3>5
  <2>2. CASE t \in Periodic /\ ~Passed(t, next, FireNow, daemon.exp)
    <3>1. PICK d : d = (IF next <= FireNow THEN next + TickLimit ELSE next)
      OBVIOUS
    <3>2. d = now + (p - e)
      BY <1>1, <1>3, <2>2, <3>1, InvParts, FireTime DEF Numbers
    <3>3. DueAt(t, d)'
      BY <1>1, <2>2, <3>1 DEF Gains
    <3>4. t \in Armed' /\ Left(t)' = d - now
      BY <1>4, <3>3, InvParts, LeftOfAllNext
    <3> QED
      BY <1>3, <1>5, <2>2, <3>2, <3>4
  <2>3. CASE t \notin Periodic
    <3>1. ~Listed(t)'
      BY <1>1, <2>3, InvParts, ListedAfter DEF TypeInv
    <3>2. ~Firing(t)'
      BY <1>2, <2>3 DEF Firing
    <3> QED
      BY <2>3, <3>1, <3>2, InvParts, LeftOfAllNext
  <2> QED
    BY <2>1, <2>2, <2>3
<1>9. ASSUME NEW u \in Timer, u # t PROVE StaysPut(u)
  <2>1. ~Firing(u) /\ ~Firing(u)'
    BY <1>1, <1>2, <1>9 DEF Firing
  <2>2. \A d : DueAt(u, d)' <=> DueAt(u, d)
    BY <1>1, <1>9 DEF Gains, SameDues
  <2> QED
    BY <1>1, <1>3, <1>4, <2>1, <2>2, InvParts, SameStand
<1>10. Left(t) <= 0
  BY <1>3, <1>5
<1>11. Service!Expire(t)
  BY <1>5, <1>6, <1>7, <1>8, <1>9, <1>10, SeesExpiry
<1> QED
  BY <1>11 DEF Sees, Service!Next

\* While a callback runs or waits, nothing changes for any timer.
LEMMA CallbackView ==
  ASSUME Inv, Inv', SameDues, daemon.at \in {"delete", "deleting"},
         daemon'.at \in {"deleting", "callback"}, daemon.fire \in Timer \ Periodic,
         daemon'.fire = daemon.fire, daemon'.exp = daemon.exp, daemon'.then = daemon.then,
         xTickCount' = xTickCount, xLastTime' = xLastTime
  PROVE  (\A t \in Timer : StaysPut(t)) /\ Running' = Running /\ ~Resting /\ ~Resting'
<1>1. Now' = Now
  BY DEF Now, ListsBehind, Overflowed
<1>2. \A t \in Timer : ~Firing(t) /\ ~Firing(t)'
  BY DEF Firing
<1> QED
  BY <1>1, <1>2, AllStand DEF Running, Resting

LEMMA ViewCallbackDeletes == ASSUME Inv, Inv', CallbackDeletes PROVE Sees
<1>1. PICK f \in Timer \ Periodic : f = daemon.fire
  BY InvParts, CallbackDeletesFacts
<1>2. PICK c \in Commands : c = Command("DELETE", f, 0) /\ c.op = "DELETE" /\ c.timer = f
  BY Zeros, CommandTyped, NewCommand
<1>3. /\ daemon.at = "delete" /\ daemon'.at = "callback" /\ SameDues
      /\ daemon'.fire = daemon.fire /\ daemon'.exp = daemon.exp /\ daemon'.then = daemon.then
      /\ daemon'.hand = daemon.hand /\ xTimerQueue' = Append(xTimerQueue, c)
      /\ xTickCount' = xTickCount /\ xLastTime' = xLastTime
  BY <1>1, <1>2, InvParts, CallbackDeletesFacts, MovesFields
<1>4. (\A t \in Timer : StaysPut(t)) /\ Running' = Running /\ ~Resting'
  BY <1>1, <1>3, CallbackView
<1>5. Requests' = Append(Requests, Asked(c))
  BY <1>3, InvParts, OutstandingAppended, RequestAppended
<1>6. Age(c) = 0
  BY <1>2 DEF Age
<1>7. Service!Request(c.timer, c.op, 0)
  BY <1>4, <1>5, <1>6, SeesRequest
<1> QED
  BY <1>1, <1>2, <1>7 DEF Sees, Service!Next

LEMMA ViewCallbackWaits == ASSUME Inv, Inv', CallbackDeleteWaits \/ CallbackDeleteFails PROVE Sees
<1>1. /\ daemon.at \in {"delete", "deleting"} /\ daemon'.at \in {"deleting", "callback"} /\ SameDues
      /\ daemon.fire \in Timer \ Periodic
      /\ daemon'.fire = daemon.fire /\ daemon'.exp = daemon.exp /\ daemon'.then = daemon.then
      /\ daemon'.hand = daemon.hand /\ xTimerQueue' = xTimerQueue
      /\ xTickCount' = xTickCount /\ xLastTime' = xLastTime
  BY InvParts, CallbackDeleteWaitsFacts, CallbackDeleteFailsFacts, MovesFields
<1>2. (\A t \in Timer : StaysPut(t)) /\ Running' = Running /\ ~Resting /\ ~Resting'
  BY <1>1, CallbackView
<1>3. Requests' = Requests
  BY <1>1, RequestsSame
<1>4. Resting' = Resting
  BY <1>1 DEF Resting
<1> QED
  BY <1>2, <1>3, <1>4, SeesNothing DEF Sees

LEMMA ViewCallbackReturns == ASSUME Inv, Inv', CallbackReturns PROVE Sees
<1>1. /\ daemon.at = "callback" /\ daemon.fire \in Timer /\ SameDues
      /\ xTickCount' = xTickCount /\ xLastTime' = xLastTime /\ xTimerQueue' = xTimerQueue
  BY InvParts, CallbackReturnsFacts
<1>2. /\ daemon'.at \in {"fire", "switch", "commands"} /\ daemon'.then = daemon.then
      /\ daemon'.hand = daemon.hand
      /\ \/ /\ daemon.fire \in Periodic /\ ~Listed(daemon.fire) /\ daemon'.at = "fire"
            /\ daemon'.fire = daemon.fire /\ daemon'.exp = daemon.exp
         \/ ~(daemon.fire \in Periodic /\ ~Listed(daemon.fire)) /\ daemon'.fire = NULL
  <2>1. CASE Moves("fire", daemon.now, daemon.hand, daemon.fire, daemon.exp, daemon.then, daemon.left)
             /\ daemon.fire \in Periodic /\ ~Listed(daemon.fire)
    BY <2>1, MovesFields
  <2>2. CASE Moves("switch", daemon.now, daemon.hand, NULL, 0, "switch", daemon.left) /\ daemon.then = "switch"
             /\ ~(daemon.fire \in Periodic /\ ~Listed(daemon.fire))
    BY <2>2, MovesFields
  <2>3. CASE Moves("commands", 0, NULL, NULL, 0, "commands", 0) /\ daemon.then = "commands"
             /\ daemon.hand = NULL /\ ~(daemon.fire \in Periodic /\ ~Listed(daemon.fire))
    BY <2>3, MovesFields
  <2> QED
    BY <2>1, <2>2, <2>3, InvParts, CallbackReturnsFacts
<1>3. Now' = Now
  BY <1>1, <1>2 DEF Now, ListsBehind, Overflowed
<1>4. \A t \in Timer : (Firing(t)' <=> Firing(t)) /\ (Firing(t) => daemon'.exp = daemon.exp)
  <2>1. CASE daemon.fire \in Periodic /\ ~Listed(daemon.fire) /\ daemon'.at = "fire"
             /\ daemon'.fire = daemon.fire /\ daemon'.exp = daemon.exp
    BY <2>1 DEF Firing
  <2>2. CASE ~(daemon.fire \in Periodic /\ ~Listed(daemon.fire)) /\ daemon'.fire = NULL
    <3>1. \A t \in Timer : ~Firing(t)
      BY <1>1, <2>2 DEF Firing
    <3> QED
      BY <2>2, <3>1, NoneFires
  <2> QED
    BY <1>2, <2>1, <2>2
<1>5. \A t \in Timer : StaysPut(t)
  BY <1>1, <1>3, <1>4, AllStand
<1>6. Requests' = Requests
  BY <1>1, <1>2, RequestsSame
<1>7. Resting' = Resting /\ Running # NULL /\ Running' = NULL
  BY <1>1, <1>2, TimerAssumption DEF Resting, Running
<1>8. Service!Return
  BY <1>5, <1>6, <1>7, SeesReturn
<1> QED
  BY <1>8 DEF Sees, Service!Next

LEMMA ViewReceiveCommand == ASSUME Inv, Inv', ReceiveCommand PROVE Sees
<1>1. PICK c \in Commands :
        /\ daemon.at = "commands" /\ daemon'.at \in {"switch", "apply"} /\ daemon'.fire = NULL /\ daemon'.hand = c
        /\ xTimerQueue # <<>> /\ c = Head(xTimerQueue) /\ xTimerQueue' = Tail(xTimerQueue)
        /\ \/ Overflowed /\ daemon'.then = "switch"
           \/ ~Overflowed /\ daemon'.then = "commands" /\ xLastTime' = xTickCount
        /\ xTickCount' = xTickCount /\ Drops(c.timer)
  BY InvParts, ReceiveCommandFacts, MovesFields
<1>2. daemon.fire = NULL /\ daemon.hand = NULL /\ daemon.then = "commands"
  BY <1>1, InvParts, AtRest
<1>3. Now' = Now
  <2>1. ~(xTickCount < xTickCount)
    BY InvParts, TickSums DEF TypeInv
  <2> QED
    BY <1>1, <1>2, <2>1 DEF Now, ListsBehind, Overflowed
<1>4. \A t \in Timer : ~Firing(t) /\ ~Firing(t)'
  BY <1>1, <1>2, NoneFires
<1>5. Resting' = Resting /\ Running = NULL /\ Running' = NULL
  BY <1>1 DEF Resting, Running
<1>6. ASSUME NEW u \in Timer, u # c.timer PROVE StaysPut(u)
  <2>1. \A d : DueAt(u, d)' <=> DueAt(u, d)
    BY <1>1, <1>6 DEF Drops
  <2> QED
    BY <1>1, <1>3, <1>4, <2>1, InvParts, SameStand
<1>7. /\ Outstanding = xTimerQueue
      /\ Outstanding' = IF c.op = "START" THEN Outstanding ELSE Tail(Outstanding)
  BY <1>1, <1>2, InvParts, OutstandingTaken
<1>8. CASE c.op = "START"
  <2>1. 1 \in 1..Len(xTimerQueue) /\ xTimerQueue[1] = c
    BY <1>1, InvParts, Taken
  <2>2. c.timer \in Timer /\ ~Listed(c.timer)
    BY <1>8, <2>1, InvParts, CommandFields DEF Custody, QueueInv, Idles
  <2>3. \A d : ~DueAt(c.timer, d)
    BY <2>2, InvParts, LeftOfAll, DueFacts
  <2>4. \A d : DueAt(c.timer, d)' <=> DueAt(c.timer, d)
    BY <1>1, <2>3 DEF Drops
  <2>5. StaysPut(c.timer)
    BY <1>1, <1>3, <1>4, <2>2, <2>4, InvParts, SameStand
  <2>6. Requests' = Requests
    BY <1>1, <1>7, <1>8, InvParts, RequestsStay
  <2> QED
    BY <1>5, <1>6, <2>5, <2>6, SeesNothing DEF Sees
<1>9. CASE c.op # "START"
  <2>1. Requests # <<>> /\ Head(Requests) = Asked(c) /\ Requests' = Tail(Requests)
    BY <1>1, <1>7, <1>9, InvParts, RequestServed
  <2>2. ~Listed(c.timer)'
    BY <1>1, InvParts, ListedAfter DEF TypeInv
  <2>3. c.timer \notin Armed' /\ Left(c.timer)' = 0
    BY <1>4, <2>2, InvParts, LeftOfAllNext, CommandFields
  <2>4. Service!ServeStop
    BY <1>5, <1>6, <1>9, <2>1, <2>3, SeesServed
  <2> QED
    BY <2>4 DEF Sees, Service!Next
<1> QED
  BY <1>8, <1>9

LEMMA ViewQueueEmptied == ASSUME Inv, Inv', QueueEmptied PROVE Sees
<1>1. /\ daemon.at = "commands" /\ daemon'.at = "loop" /\ daemon'.fire = NULL /\ daemon'.hand = NULL
      /\ daemon'.then = "commands" /\ SameDues
      /\ xTickCount' = xTickCount /\ xLastTime' = xLastTime /\ xTimerQueue' = xTimerQueue
  BY InvParts, QueueEmptiedFacts, MovesFields
<1>2. daemon.fire = NULL /\ daemon.hand = NULL /\ daemon.then = "commands"
  BY <1>1, InvParts, AtRest
<1>3. Now' = Now
  BY <1>1, <1>2 DEF Now, ListsBehind, Overflowed
<1>4. Requests' = Requests
  BY <1>1, <1>2, RequestsSame
<1>5. Resting' = Resting
  BY <1>1 DEF Resting
<1> QED
  BY <1>1, <1>2, <1>3, <1>4, <1>5, QuietView, SeesNothing DEF Sees

LEMMA ViewApplyStart == ASSUME LagIsShort, Inv, Inv', ApplyStart PROVE Sees
<1>1. PICK c \in Commands, next \in TickType :
        /\ daemon.at = "apply" /\ daemon.then = "commands" /\ daemon.fire = NULL
        /\ c = daemon.hand /\ c.op = "START"
        /\ next = Plus(c.value, Period[c.timer])
        /\ \/ /\ Passed(c.timer, next, daemon.now, c.value)
              /\ Moves("fire", daemon.now, NULL, c.timer, next, "commands", 0)
              /\ SameDues
           \/ /\ ~Passed(c.timer, next, daemon.now, c.value)
              /\ Moves("commands", 0, NULL, NULL, 0, "commands", 0)
              /\ Gains(c.timer, IF next <= daemon.now THEN next + TickLimit ELSE next)
        /\ xTickCount' = xTickCount /\ xLastTime' = xLastTime /\ xTimerQueue' = xTimerQueue
  BY InvParts, ApplyStartFacts
<1>2. /\ daemon'.at \in {"fire", "commands"} /\ daemon'.hand = NULL /\ daemon'.then = "commands"
      /\ daemon'.fire \in {c.timer, NULL}
  BY <1>1, MovesFields
<1>3. PICK x \in TickType, a \in Nat, p \in Nat, now \in Nat :
        x = xTickCount /\ a = Age(c) /\ p = Period[c.timer] /\ now = Now
  <2>1. PICK x \in TickType : x = xTickCount
    BY InvParts DEF TypeInv
  <2>2. Age(c) \in Nat /\ Period[c.timer] \in Nat /\ Now \in Nat
    BY InvParts, AgeFacts, LagFacts, CommandFields, NowFacts
  <2> QED
    BY <2>1, <2>2
<1>4. Now' = now
  BY <1>1, <1>2, <1>3 DEF Now, ListsBehind, Overflowed
<1>5. Starting
  BY <1>1, NullIsNoCommand DEF Starting
<1>6. Requests # <<>> /\ Head(Requests) = Asked(c) /\ Requests' = Tail(Requests)
  BY <1>1, <1>2, <1>5, InvParts, OutstandingServed, RequestServed
<1>7. Resting' = Resting /\ Running = NULL /\ Running' = NULL
  BY <1>1, <1>2 DEF Resting, Running
<1>8. ASSUME NEW u \in Timer, u # c.timer PROVE StaysPut(u)
  <2>1. ~Firing(u) /\ ~Firing(u)'
    BY <1>1, <1>2, <1>8, TimerAssumption DEF Firing
  <2>2. \A d : DueAt(u, d)' <=> DueAt(u, d)
    BY <1>1, <1>8 DEF Gains, SameDues
  <2> QED
    BY <1>1, <1>3, <1>4, <2>1, <2>2, InvParts, SameStand
<1>9. c.timer \in Armed' /\ Left(c.timer)' = p - a
  <2>1. CASE /\ Passed(c.timer, next, daemon.now, c.value)
             /\ Moves("fire", daemon.now, NULL, c.timer, next, "commands", 0)
    <3>1. Firing(c.timer)' /\ daemon'.exp = next
      BY <2>1, MovesFields DEF Firing
    <3>2. c.timer \in Armed' /\ Left(c.timer)' = - Minus(x, next)
      BY <1>1, <1>3, <3>1, InvParts, LeftOfAllNext
    <3>3. Minus(x, next) = a - p
      BY <1>1, <1>3, <2>1, InvParts, StartTime DEF Numbers
    <3> QED
      BY <1>3, <3>2, <3>3
  <2>2. CASE /\ ~Passed(c.timer, next, daemon.now, c.value)
             /\ Gains(c.timer, IF next <= daemon.now THEN next + TickLimit ELSE next)
    <3>1. PICK d : d = (IF next <= daemon.now THEN next + TickLimit ELSE next)
      OBVIOUS
    <3>2. d = now + (p - a)
      BY <1>1, <1>3, <2>2, <3>1, InvParts, StartTime DEF Numbers
    <3>3. DueAt(c.timer, d)'
      BY <2>2, <3>1 DEF Gains
    <3>4. c.timer \in Armed' /\ Left(c.timer)' = d - now
      BY <1>4, <3>3, InvParts, LeftOfAllNext
    <3> QED
      BY <1>3, <3>2, <3>4
  <2> QED
    BY <1>1, <2>1, <2>2
<1>10. Service!ServeStart
  BY <1>1, <1>3, <1>6, <1>7, <1>8, <1>9, SeesServed
<1> QED
  BY <1>10 DEF Sees, Service!Next

LEMMA ViewApplyStop == ASSUME Inv, Inv', ApplyStop PROVE Sees
<1>1. /\ daemon.at = "apply" /\ daemon.hand.op \in {"STOP", "DELETE"} /\ daemon.fire = NULL
      /\ daemon.then = "commands"
      /\ daemon'.at = "commands" /\ daemon'.fire = NULL /\ daemon'.hand = NULL
      /\ daemon'.then = "commands" /\ SameDues
      /\ xTickCount' = xTickCount /\ xLastTime' = xLastTime /\ xTimerQueue' = xTimerQueue
  BY InvParts, ApplyStopFacts, MovesFields
<1>2. Now' = Now
  BY <1>1 DEF Now, ListsBehind, Overflowed
<1>3. Requests' = Requests
  BY <1>1, RequestsSame DEF Starting
<1>4. Resting' = Resting
  BY <1>1 DEF Resting
<1> QED
  BY <1>1, <1>2, <1>3, <1>4, QuietView, SeesNothing DEF Sees

\* The tasks: what they ask for is seen when it is in the queue.
LEMMA ViewTask ==
  ASSUME Inv, Inv', NEW s \in Timer, TimerCreate(s) \/ TimerStart(s) \/ TimerStop(s) \/ TimerDelete(s)
  PROVE  Sees
<1>1. SameDues /\ xTickCount' = xTickCount /\ xLastTime' = xLastTime
  BY InvParts, TaskFacts
<1>2. /\ (\A t \in Timer : StaysPut(t)) /\ Running' = Running /\ daemon'.hand = daemon.hand
      /\ Resting' => Resting /\ xTimerQueue' = xTimerQueue
      /\ xTimerQueue' = xTimerQueue => Resting' = Resting
  <2>1. CASE /\ daemon.at = "asleep" /\ xTimerQueue' # xTimerQueue
             /\ Moves("commands", 0, NULL, NULL, 0, "commands", 0)
    <3>1. daemon.fire = NULL /\ daemon.hand = NULL /\ daemon.then = "commands"
      BY <2>1, InvParts, AtRest
    <3>2. /\ daemon'.at = "commands" /\ daemon'.fire = NULL /\ daemon'.hand = NULL /\ daemon'.then = "commands"
      BY <2>1, MovesFields
    <3>3. Now' = Now
      BY <1>1, <3>1, <3>2 DEF Now, ListsBehind, Overflowed
    <3> QED
      BY <1>1, <2>1, <3>1, <3>2, <3>3, QuietView DEF Resting
  <2>2. CASE (daemon.at = "asleep" => xTimerQueue' = xTimerQueue) /\ daemon' = daemon
    <3>1. Now' = Now
      BY <1>1, <2>2 DEF Now, ListsBehind, Overflowed
    <3>2. \A t \in Timer : Listed(t)' <=> Listed(t)
      BY <1>1, InvParts, ListedAfter DEF TypeInv
    <3>3. \A t \in Timer : Firing(t)' <=> Firing(t)
      BY <2>2, <3>2 DEF Firing
    <3> QED
      BY <1>1, <2>2, <3>1, <3>3, AllStand DEF Running, Resting
  <2> QED
    BY <2>1, <2>2, InvParts, TaskFacts
<1>3. ASSUME xTimerQueue' = xTimerQueue PROVE Sees
  BY <1>1, <1>2, <1>3, RequestsSame, SeesNothing DEF Sees
<1>4. ASSUME NEW c \in Commands, ~Full, xTimerQueue' = Append(xTimerQueue, c), NEW age, age = Age(c)
      PROVE  Service!Request(c.timer, c.op, age)
  <2>1. Requests' = Append(Requests, Asked(c))
    BY <1>1, <1>2, <1>4, InvParts, OutstandingAppended, RequestAppended
  <2>2. Len(xTimerQueue') = Len(xTimerQueue) + 1 /\ Len(xTimerQueue) \in Nat
    BY <1>4, InvParts, Appended, QueueTyped
  <2>3. ~Resting'
    BY <1>2, <2>2
  <2> QED
    BY <1>2, <1>4, <2>1, <2>3, SeesRequest
<1>5. CASE ~Full /\ xTimerQueue' = Append(xTimerQueue, Command("START", s, stamp[s]))
  <2>1. PICK v \in TickType, x \in TickType : v = stamp[s] /\ x = xTickCount
    BY InvParts DEF TypeInv
  <2>2. PICK c \in Commands : c = Command("START", s, v) /\ c.op = "START" /\ c.timer = s /\ c.value = v
    BY CommandTyped, NewCommand
  <2>3. PICK age \in 0..(TickLimit - 1) : age = Age(c)
    <3>1. Age(c) = Minus(x, v)
      BY <2>1, <2>2 DEF Age
    <3>2. Minus(x, v) \in Nat /\ Minus(x, v) < TickLimit /\ TickLimit \in Nat
      BY TickSums
    <3> QED
      BY <3>1, <3>2
  <2>4. Service!Request(s, "START", age)
    BY <1>4, <1>5, <2>1, <2>2, <2>3
  <2> QED
    BY <2>4 DEF Sees, Service!Next
<1>6. ASSUME NEW op \in {"STOP", "DELETE"}, s \in Periodic, ~Full,
             xTimerQueue' = Append(xTimerQueue, Command(op, s, 0))
      PROVE  Sees
  <2>1. PICK c \in Commands : c = Command(op, s, 0) /\ c.op = op /\ c.timer = s
    BY <1>6, Zeros, CommandTyped, NewCommand
  <2>2. Age(c) = 0
    BY <2>1 DEF Age
  <2>3. Service!Request(s, op, 0)
    BY <1>4, <1>6, <2>1, <2>2
  <2> QED
    BY <2>3 DEF Sees, Service!Next
<1> QED
  BY <1>3, <1>5, <1>6, InvParts, TaskFacts

LEMMA ViewTick == ASSUME LagIsShort, Inv, Inv', Tick PROVE Sees
<1>1. /\ SameDues /\ xTimerQueue' = xTimerQueue /\ xLastTime' = xLastTime
      /\ daemon'.hand = daemon.hand /\ daemon'.fire = daemon.fire /\ Running' = Running
      /\ daemon.at # "asleep" => daemon'.at = daemon.at /\ daemon'.exp = daemon.exp
      /\ Resting' => Resting
      /\ daemon.at = "asleep" => daemon.fire = NULL
  <2>1. daemon.at = "asleep" => daemon.hand = NULL /\ daemon.fire = NULL
    BY InvParts, AtRest
  <2>2. CASE /\ daemon.at = "asleep" /\ Moves("commands", 0, NULL, NULL, 0, "commands", 0)
    BY <2>1, <2>2, InvParts, TickFacts, MovesFields DEF Running, Resting
  <2>3. CASE daemon' = daemon
    BY <2>1, <2>3, InvParts, TickFacts DEF Running, Resting
  <2>4. CASE Moves(daemon.at, daemon.now, daemon.hand, daemon.fire, daemon.exp, daemon.then,
                   IF daemon.left = 0 THEN 0 ELSE daemon.left - 1)
    BY <2>1, <2>4, InvParts, TickFacts, MovesFields DEF Running, Resting
  <2> QED
    BY <2>2, <2>3, <2>4, InvParts, TickFacts
<1>2. \A t \in Timer : (Listed(t)' <=> Listed(t)) /\ (Firing(t)' <=> Firing(t))
  <2>1. \A t \in Timer : Listed(t)' <=> Listed(t)
    BY <1>1, InvParts, ListedAfter DEF TypeInv
  <2>2. CASE daemon.at = "asleep"
    BY <1>1, <2>1, <2>2, NoneFires
  <2>3. CASE daemon.at # "asleep"
    BY <1>1, <2>1, <2>3 DEF Firing
  <2> QED
    BY <2>1, <2>2, <2>3
<1>3. ASSUME NEW t \in Timer
      PROVE  (t \in Armed' <=> t \in Armed) /\ Left(t)' = (IF t \in Armed THEN Left(t) - 1 ELSE 0)
  <2>1. CASE Firing(t)
    <3>1. daemon.at # "asleep"
      BY <1>1, <2>1, NoneFires
    <3>2. PICK e \in Nat : e = Minus(xTickCount, daemon.exp)
      BY InvParts, DaemonFields, TickSums DEF TypeInv
    <3>3. Minus(xTickCount', daemon.exp) = e + 1
      BY <2>1, <3>2, InvParts, FireTick DEF Numbers
    <3>4. t \in Armed /\ Left(t) = - e /\ t \in Armed' /\ Left(t)' = - (e + 1)
      BY <1>1, <1>2, <2>1, <3>1, <3>2, <3>3, InvParts, LeftOfAll, LeftOfAllNext
    <3> QED
      BY <3>4
  <2>2. CASE ~Firing(t) /\ Listed(t)
    <3>1. PICK d \in Nat : DueAt(t, d)
      BY <2>2, InvParts, LeftOfAll
    <3>2. PICK now \in Nat : now = Now
      BY InvParts, NowFacts
    <3>3. Now' = now + 1
      BY <3>1, <3>2, InvParts, TickTime DEF Numbers
    <3>4. DueAt(t, d)'
      BY <1>1, <3>1 DEF SameDues
    <3>5. t \in Armed /\ Left(t) = d - now /\ t \in Armed' /\ Left(t)' = d - (now + 1)
      BY <3>1, <3>2, <3>3, <3>4, InvParts, LeftOfAll, LeftOfAllNext
    <3> QED
      BY <3>5
  <2>3. CASE ~Firing(t) /\ ~Listed(t)
    BY <1>2, <2>3, InvParts, LeftOfAll, LeftOfAllNext
  <2> QED
    BY <2>1, <2>2, <2>3
<1>4. Outstanding' = Outstanding
  BY <1>1, SameOutstanding
<1>5. Requests' = [i \in DOMAIN Requests |->
        [Requests[i] EXCEPT !.age = IF Requests[i].op = "START" THEN @ + 1 ELSE 0]]
  BY <1>4, InvParts, RequestsAge
<1>6. ASSUME Resting, NEW t \in Armed PROVE Left(t) > 0 /\ Left(t) \in Int
  <2>1. daemon.at = "asleep"
    BY <1>6 DEF Resting
  <2>2. t \in Timer /\ ~Firing(t) /\ Listed(t)
    BY <1>1, <2>1, NoneFires DEF Armed
  <2>3. PICK d \in Nat : DueAt(t, d)
    BY <2>2, InvParts, LeftOfAll
  <2>4. PICK now \in Nat : now = Now
    BY InvParts, NowFacts
  <2>5. Left(t) = d - now /\ d - now >= 1
    BY <2>1, <2>2, <2>3, <2>4, InvParts, LeftOfAll DEF Numbers, SleepInv
  <2> QED
    BY <2>5
<1>7. Service!Elapse
  BY <1>1, <1>3, <1>5, <1>6, SeesTime
<1> QED
  BY <1>7 DEF Sees, Service!Next

\* The software timers keep the promises of TimerService: however often the tick
\* count wraps, and however late, within the bounds, a command is carried out or a
\* callback runs, a timer's callback runs once for each period that has passed in
\* real time since its start was stamped, and never before.
\* It needs that no period, with all that a timer may be late, comes up to the
\* width of the tick count; prvInsertTimerInActiveList cannot tell otherwise how
\* often the count has wrapped.
THEOREM TimersKeepPromises ==
  ASSUME LagIsShort
  PROVE  Spec => RefinesTimerService
<1>1. Init => Service!Init
  <2> SUFFICES ASSUME Init PROVE Service!Init
    OBVIOUS
  <2>1. daemon.at = "loop" /\ daemon.fire = NULL /\ daemon.hand = NULL
    BY DEF Init, Idle
  <2>2. TypeInv /\ PhaseInv
    BY InitFacts
  <2>3. \A t \in Timer : ~Firing(t) /\ ~Listed(t)
    BY <2>1, NoneFires, EmptySeq DEF Init, Listed, Holds, ToSet
  <2>4. Armed = {} /\ ServiceLeft = [t \in Timer |-> 0]
    BY <2>2, <2>3, LeftOfAll DEF Armed, ServiceLeft
  <2>5. Outstanding = <<>>
    BY <2>1 DEF Init, Outstanding
  <2>6. Requests = <<>>
    BY <2>5 DEF Requests
  <2>7. Running = NULL /\ Resting = FALSE
    BY <2>1 DEF Running, Resting
  <2> QED
    BY <2>4, <2>6, <2>7 DEF Service!Init, ServiceLeft, Requests, Asked, Running, Resting
<1>2. Inv /\ Inv' /\ [Next]_vars => [Service!Next]_(Service!serviceVars)
  <2> SUFFICES ASSUME Inv, Inv', [Next]_vars PROVE Sees
    BY DEF Sees
  <2>1. CASE Next
    BY <2>1, ViewFindOverflow, ViewFindExpired, ViewBlockTask, ViewSwitchExpired, ViewSwitchLists, ViewFire,
       ViewCallbackDeletes, ViewCallbackWaits, ViewCallbackReturns, ViewReceiveCommand, ViewQueueEmptied,
       ViewApplyStart, ViewApplyStop, ViewTask, ViewTick DEF Next, DaemonStep
  <2>2. CASE UNCHANGED vars
    <3>1. \A t \in Timer : StaysPut(t)
      BY <2>2 DEF vars, listVars, taskVars, StaysPut, Armed, Left, Firing, Listed, Holds, Value, Now,
                  ListsBehind, Overflowed
    <3>2. Outstanding' = Outstanding /\ xTickCount' = xTickCount
      BY <2>2 DEF vars, listVars, taskVars, Outstanding
    <3>3. Requests' = Requests
      BY <3>2, InvParts, RequestsStay
    <3>4. Running' = Running /\ Resting' = Resting
      BY <2>2 DEF vars, listVars, taskVars, Running, Resting
    <3> QED
      BY <3>1, <3>3, <3>4, SeesNothing DEF Sees
  <2> QED
    BY <2>1, <2>2
<1> QED
  BY <1>1, <1>2, Invariant, PTL DEF Spec, RefinesTimerService, Service!Spec
=============================================================================
