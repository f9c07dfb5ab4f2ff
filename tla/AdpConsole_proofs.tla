------------------------- MODULE AdpConsole_proofs -------------------------
(***************************************************************************)
(* Theorems about the console, for any letters, strings of print_info and  *)
(* sizes of the buffer and of the queue: it edits and enters lines as      *)
(* LineEditor does, slips included.                                        *)
(***************************************************************************)
EXTENDS AdpConsole, FiniteSetTheorems, SequenceTheorems, TLAPS

-----------------------------------------------------------------------------
(* The commands among the messages *)

\* f goes through the places in their order.
Goes(f, m, places) ==
  /\ f \in [1..m -> places]
  /\ \A i, j \in 1..m : i < j => f[i] < f[j]
  /\ \A p \in places : \E i \in 1..m : f[i] = p

LEMMA IntervalFacts ==
  ASSUME NEW m \in Nat
  PROVE  IsFiniteSet(1..m) /\ Cardinality(1..m) = m
<1>1. /\ IsFiniteSet(1..m)
      /\ Cardinality(1..m) = IF 1 > m THEN 0 ELSE m - 1 + 1
  BY 1 \in Int, m \in Int, FS_Interval
<1> QED
  BY <1>1

\* The k-th place that f comes to is the k-th place.
LEMMA GoesToNth ==
  ASSUME NEW places \in SUBSET Nat, NEW m \in Nat, NEW f, Goes(f, m, places)
  PROVE  /\ Cardinality(places) = m
         /\ \A k \in 1..m : Nth(places, k) = f[k]
<1>1. /\ f \in [1..m -> places]
      /\ \A i, j \in 1..m : i < j => f[i] < f[j]
      /\ \A p \in places : \E i \in 1..m : f[i] = p
      /\ \A i \in 1..m : f[i] \in places /\ f[i] \in Nat
  BY DEF Goes
<1>2. \A i, j \in 1..m : f[i] = f[j] => i = j
  <2> SUFFICES ASSUME NEW i \in 1..m, NEW j \in 1..m, f[i] = f[j], i # j PROVE FALSE
    OBVIOUS
  <2>1. i < j \/ j < i
    OBVIOUS
  <2>2. f[i] < f[j] \/ f[j] < f[i]
    BY <1>1, <2>1
  <2> QED
    BY <1>1, <2>2
<1>3. ASSUME NEW k \in 0..m
      PROVE  Cardinality({f[j] : j \in 1..k}) = k
  <2>1. PICK g : g = [j \in 1..k |-> f[j]]
    OBVIOUS
  <2>2. PICK S : S = {f[j] : j \in 1..k}
    OBVIOUS
  <2>3. g \in Bijection(1..k, S)
    <3>1. 1..k \subseteq 1..m
      OBVIOUS
    <3>2. g \in [1..k -> S]
      BY <2>1, <2>2
    <3>3. \A i, j \in 1..k : g[i] = g[j] => i = j
      BY <1>2, <2>1, <3>1
    <3>4. \A p \in S : \E i \in 1..k : g[i] = p
      BY <2>1, <2>2
    <3> QED
      BY <3>2, <3>3, <3>4 DEF Bijection, Injection, Surjection, IsInjective
  <2>4. ExistsBijection(1..k, S)
    BY <2>3 DEF ExistsBijection
  <2>5. Cardinality(S) = Cardinality(1..k) /\ Cardinality(1..k) = k
    BY <2>4, FS_Bijection, IntervalFacts
  <2> QED
    BY <2>2, <2>5
<1>4. Cardinality(places) = m
  <2>1. places = {f[j] : j \in 1..m}
    BY <1>1
  <2> QED
    BY <1>3, <2>1
<1>5. ASSUME NEW k \in 1..m
      PROVE  {p \in places : p <= f[k]} = {f[j] : j \in 1..k}
  <2>1. ASSUME NEW j \in 1..m PROVE f[j] <= f[k] <=> j <= k
    <3>1. CASE j < k
      BY <1>1, <3>1
    <3>2. CASE j = k
      BY <1>1, <3>2
    <3>3. CASE j > k
      <4>1. f[k] < f[j]
        BY <1>1, <3>3
      <4> QED
        BY <1>1, <3>3, <4>1
    <3> QED
      BY <3>1, <3>2, <3>3
  <2>2. \A j \in 1..k : j \in 1..m /\ j <= k
    OBVIOUS
  <2>3. \A j \in 1..m : j <= k => j \in 1..k
    OBVIOUS
  <2>4. {p \in places : p <= f[k]} \subseteq {f[j] : j \in 1..k}
    BY <1>1, <2>1, <2>3
  <2>5. {f[j] : j \in 1..k} \subseteq {p \in places : p <= f[k]}
    BY <1>1, <2>1, <2>2
  <2> QED
    BY <2>4, <2>5
<1>6. ASSUME NEW k \in 1..m PROVE Nth(places, k) = f[k]
  <2>1. \A j \in 1..m : Cardinality({p \in places : p <= f[j]}) = j
    BY <1>3, <1>5
  <2>2. \A p \in places : Cardinality({q \in places : q <= p}) = k => p = f[k]
    BY <1>1, <2>1
  <2> QED
    BY <1>1, <2>1, <2>2 DEF Nth
<1> QED
  BY <1>4, <1>6

\* The numbering of the places: every number up to how many they are belongs to
\* exactly one of them, and it grows with the place.
LEMMA NthGoes ==
  ASSUME NEW n \in Nat, NEW S \in SUBSET (1..n)
  PROVE  /\ IsFiniteSet(S) /\ Cardinality(S) \in Nat
         /\ Goes([k \in 1..Cardinality(S) |-> Nth(S, k)], Cardinality(S), S)
<1> DEFINE Upto(i) == {k \in S : k <= i}
<1>1. IsFiniteSet(S) /\ Cardinality(S) \in Nat
  BY 1 \in Int, n \in Int, FS_Interval, FS_Subset, FS_CardinalityType
<1>2. ASSUME NEW i \in S
      PROVE  IsFiniteSet(Upto(i)) /\ Cardinality(Upto(i)) \in 1..Cardinality(S)
  <2>1. Upto(i) \in SUBSET S /\ i \in Upto(i)
    OBVIOUS
  <2> HIDE DEF Upto
  <2>2. IsFiniteSet(Upto(i)) /\ Cardinality(Upto(i)) <= Cardinality(S) /\ Cardinality(Upto(i)) \in Nat
    BY <1>1, <2>1, FS_Subset, FS_CardinalityType
  <2>3. Cardinality(Upto(i)) # 0
    BY <2>1, <2>2, FS_EmptySet
  <2> QED
    BY <1>1, <2>2, <2>3
<1>3. ASSUME NEW i \in S, NEW j \in S, i < j
      PROVE  Cardinality(Upto(i)) < Cardinality(Upto(j))
  <2>1. Upto(i) \in SUBSET Upto(j) /\ j \in Upto(j) /\ j \notin Upto(i)
    <3>1. \A k \in S : k \in Nat
      OBVIOUS
    <3>2. \A k \in S : k <= i => k <= j
      BY <1>3, <3>1
    <3>3. j <= j /\ ~(j <= i)
      BY <1>3, <3>1
    <3> QED
      BY <3>2, <3>3
  <2> HIDE DEF Upto
  <2>2. /\ Cardinality(Upto(i)) <= Cardinality(Upto(j))
        /\ Cardinality(Upto(j)) = Cardinality(Upto(i)) => Upto(j) = Upto(i)
    BY <1>2, <2>1, FS_Subset
  <2> QED
    BY <1>2, <2>1, <2>2
<1>4. \A i, j \in S : Cardinality(Upto(i)) = Cardinality(Upto(j)) => i = j
  <2> SUFFICES ASSUME NEW i \in S, NEW j \in S, Cardinality(Upto(i)) = Cardinality(Upto(j)), i # j
               PROVE  FALSE
    OBVIOUS
  <2>1. i < j \/ j < i
    OBVIOUS
  <2> HIDE DEF Upto
  <2> QED
    BY <1>2, <1>3, <2>1
<1>5. PICK number : number = [i \in S |-> Cardinality(Upto(i))]
  OBVIOUS
<1>6. PICK m : m = Cardinality(S)
  OBVIOUS
<1>7. number \in Surjection(S, 1..m)
  <2> HIDE DEF Upto
  <2>1. number \in [S -> 1..m] /\ IsInjective(number)
    BY <1>2, <1>4, <1>5, <1>6 DEF IsInjective
  <2>2. number \in Injection(S, 1..m)
    BY <2>1 DEF Injection
  <2>3. IsFiniteSet(1..m) /\ Cardinality(1..m) = m
    BY <1>1, <1>6, IntervalFacts
  <2> QED
    BY <1>6, <2>2, <2>3, FS_Injection
<1>8. ASSUME NEW x \in 1..m PROVE Nth(S, x) \in S /\ Cardinality(Upto(Nth(S, x))) = x
  <2>1. \E i \in S : number[i] = x
    BY <1>7 DEF Surjection
  <2>2. \E i \in S : Cardinality({k \in S : k <= i}) = x
    BY <1>5, <2>1
  <2> QED
    BY <2>2 DEF Nth
<1>9. PICK f : f = [k \in 1..m |-> Nth(S, k)]
  OBVIOUS
<1> HIDE DEF Upto
<1>10. f \in [1..m -> S] /\ \A k \in 1..m : f[k] \in S /\ Cardinality(Upto(f[k])) = k
  BY <1>8, <1>9
<1>11. ASSUME NEW i \in 1..m, NEW j \in 1..m, i < j PROVE f[i] < f[j]
  <2>0. Cardinality(Upto(f[i])) = i /\ Cardinality(Upto(f[j])) = j
    BY <1>10
  <2>1. f[i] \in S /\ f[j] \in S /\ f[i] \in Nat /\ f[j] \in Nat
    <3>1. \A x \in S : x \in Nat
      OBVIOUS
    <3>2. f[i] \in S /\ f[j] \in S
      BY <1>10
    <3> QED
      BY <3>1, <3>2
  <2>2. CASE f[i] = f[j]
    BY <1>11, <2>0, <2>2
  <2>3. CASE f[j] < f[i]
    <3>1. Cardinality(Upto(f[j])) < Cardinality(Upto(f[i]))
      BY <1>3, <2>1, <2>3
    <3>2. j < i
      BY <1>10, <3>1
    <3> QED
      BY <1>1, <1>6, <1>11, <3>2
  <2> QED
    BY <2>1, <2>2, <2>3
<1>12. ASSUME NEW p \in S PROVE \E i \in 1..m : f[i] = p
  <2>1. Cardinality(Upto(p)) \in 1..m
    BY <1>2, <1>6
  <2> QED
    BY <1>4, <1>10, <2>1
<1> QED
  BY <1>1, <1>6, <1>9, <1>10, <1>11, <1>12 DEF Goes

\* What there is to know of the commands of a queue: they are at the places that
\* some f goes through in their order, and they are known once such an f is.
LEMMA CommandsGo ==
  ASSUME NEW Message, NEW q \in Seq(Message)
  PROVE  \E m \in Nat : \E f :
           /\ Goes(f, m, Places(q))
           /\ CommandsOf(q) = [k \in 1..m |-> q[f[k]]]
<1>1. Len(q) \in Nat /\ Places(q) \in SUBSET (1..Len(q))
  BY DEF Places
<1>2. PICK S \in SUBSET (1..Len(q)) : S = Places(q)
  BY <1>1
<1>3. /\ Cardinality(S) \in Nat
      /\ Goes([k \in 1..Cardinality(S) |-> Nth(S, k)], Cardinality(S), S)
  BY <1>1, NthGoes
<1>4. PICK m \in Nat : m = Cardinality(S)
  BY <1>3
<1>5. PICK f : f = [k \in 1..m |-> Nth(S, k)]
  OBVIOUS
<1>6. CommandsOf(q) = [k \in 1..m |-> q[f[k]]]
  BY <1>2, <1>4, <1>5 DEF CommandsOf
<1> QED
  BY <1>2, <1>3, <1>4, <1>5, <1>6

LEMMA GoneThrough ==
  ASSUME NEW Message, NEW q \in Seq(Message), NEW m \in Nat, NEW f, Goes(f, m, Places(q))
  PROVE  CommandsOf(q) = [k \in 1..m |-> q[f[k]]]
<1>1. Places(q) \in SUBSET Nat
  BY DEF Places
<1>2. Cardinality(Places(q)) = m /\ \A k \in 1..m : Nth(Places(q), k) = f[k]
  <2>1. PICK S \in SUBSET Nat : S = Places(q)
    BY <1>1
  <2> QED
    BY <2>1, GoesToNth
<1> QED
  BY <1>2 DEF CommandsOf

LEMMA CommandsFacts ==
  ASSUME NEW Message, NEW q \in Seq(Message)
  PROVE  /\ CommandsOf(q) \in Seq(Message)
         /\ \A n \in 1..Len(CommandsOf(q)) :
              \E i \in 1..Len(q) : q[i].topic = "EXECUTE_CMD" /\ CommandsOf(q)[n] = q[i]
<1>0. PICK m \in Nat : \E f : /\ Goes(f, m, Places(q))
                              /\ CommandsOf(q) = [k \in 1..m |-> q[f[k]]]
  BY CommandsGo, Zenon
<1>1. PICK f : /\ Goes(f, m, Places(q))
               /\ CommandsOf(q) = [k \in 1..m |-> q[f[k]]]
  BY <1>0
<1>2. \A k \in 1..m : f[k] \in Places(q)
  BY <1>1 DEF Goes
<1>3. \A k \in 1..m : f[k] \in 1..Len(q) /\ q[f[k]].topic = "EXECUTE_CMD" /\ q[f[k]] \in Message
  BY <1>2 DEF Places
<1>4. PICK c : c = [k \in 1..m |-> q[f[k]]]
  OBVIOUS
<1>5. c \in [1..m -> Message]
  BY <1>3, <1>4
<1>6. c \in Seq(Message) /\ Len(c) = m
  BY <1>5
<1> QED
  BY <1>1, <1>3, <1>4, <1>6

\* A message behind the others is behind their commands if it is a command.
LEMMA CommandsPut ==
  ASSUME NEW Message, NEW q \in Seq(Message), NEW msg \in Message
  PROVE  CommandsOf(Append(q, msg)) =
           IF msg.topic = "EXECUTE_CMD" THEN Append(CommandsOf(q), msg) ELSE CommandsOf(q)
<1>0. PICK m \in Nat : \E f : /\ Goes(f, m, Places(q))
                              /\ CommandsOf(q) = [k \in 1..m |-> q[f[k]]]
  BY CommandsGo, Zenon
<1>1. PICK f : /\ Goes(f, m, Places(q))
               /\ CommandsOf(q) = [k \in 1..m |-> q[f[k]]]
  BY <1>0
<1>2. PICK new \in Seq(Message) : new = Append(q, msg)
  BY AppendProperties
<1>3. /\ Len(new) = Len(q) + 1 /\ new[Len(q) + 1] = msg
      /\ \A i \in 1..Len(q) : new[i] = q[i]
      /\ Len(q) \in Nat
  BY <1>2
<1>4. /\ \A k \in 1..m : f[k] \in 1..Len(q) /\ f[k] \in Places(q)
      /\ \A i, j \in 1..m : i < j => f[i] < f[j]
      /\ \A p \in Places(q) : \E i \in 1..m : f[i] = p
  BY <1>1 DEF Goes, Places
<1>5. CASE msg.topic = "EXECUTE_CMD"
  <2>1. Places(new) = Places(q) \cup {Len(q) + 1}
    BY <1>3, <1>5 DEF Places
  <2>2. PICK g : g = [k \in 1..m + 1 |-> IF k = m + 1 THEN Len(q) + 1 ELSE f[k]]
    OBVIOUS
  <2>3. Goes(g, m + 1, Places(new))
    <3>1. g \in [1..m + 1 -> Places(new)]
      BY <1>4, <2>1, <2>2
    <3>2. \A i, j \in 1..m + 1 : i < j => g[i] < g[j]
      BY <1>3, <1>4, <2>2
    <3>3. \A p \in Places(new) : \E i \in 1..m + 1 : g[i] = p
      <4>1. g[m + 1] = Len(q) + 1 /\ m + 1 \in 1..m + 1
        BY <2>2
      <4>2. \A i \in 1..m : i \in 1..m + 1 /\ g[i] = f[i]
        BY <2>2
      <4> QED
        BY <1>4, <2>1, <4>1, <4>2
    <3> QED
      BY <3>1, <3>2, <3>3 DEF Goes
  <2>4. CommandsOf(new) = [k \in 1..m + 1 |-> new[g[k]]]
    BY <2>3, GoneThrough, m + 1 \in Nat
  <2>5. \A k \in 1..m + 1 : new[g[k]] = IF k = m + 1 THEN msg ELSE q[f[k]]
    BY <1>3, <1>4, <2>2
  <2>6. PICK c \in Seq(Message) : c = CommandsOf(q)
    BY CommandsFacts
  <2>7. Len(c) = m /\ \A k \in 1..m : c[k] = q[f[k]]
    BY <1>1, <2>6
  <2>8. Append(c, msg) = [k \in 1..m + 1 |-> new[g[k]]]
    <3>1. PICK d \in Seq(Message) : d = Append(c, msg)
      BY AppendProperties
    <3>2. Len(d) = m + 1 /\ d[m + 1] = msg /\ \A k \in 1..m : d[k] = c[k]
      BY <2>7, <3>1, AppendProperties
    <3>3. d = [k \in 1..m + 1 |-> d[k]]
      BY <3>2
    <3>4. \A k \in 1..m + 1 : d[k] = new[g[k]]
      BY <2>5, <2>7, <3>2
    <3> QED
      BY <3>1, <3>3, <3>4
  <2> QED
    BY <1>2, <1>5, <2>4, <2>6, <2>8
<1>6. CASE msg.topic # "EXECUTE_CMD"
  <2>1. Places(new) = Places(q)
    BY <1>3, <1>6 DEF Places
  <2>2. CommandsOf(new) = [k \in 1..m |-> new[f[k]]]
    BY <1>1, <2>1, GoneThrough
  <2>3. \A k \in 1..m : new[f[k]] = q[f[k]]
    BY <1>3, <1>4
  <2> QED
    BY <1>1, <1>2, <1>6, <2>2, <2>3
<1> QED
  BY <1>5, <1>6

\* The message that leaves is the first command or none of them.
LEMMA CommandsTake ==
  ASSUME NEW Message, NEW q \in Seq(Message), q # <<>>
  PROVE  IF Head(q).topic = "EXECUTE_CMD"
         THEN CommandsOf(q) # <<>> /\ CommandsOf(Tail(q)) = Tail(CommandsOf(q))
         ELSE CommandsOf(Tail(q)) = CommandsOf(q)
<1>0. PICK m \in Nat : \E f : /\ Goes(f, m, Places(q))
                              /\ CommandsOf(q) = [k \in 1..m |-> q[f[k]]]
  BY CommandsGo, Zenon
<1>1. PICK f : /\ Goes(f, m, Places(q))
               /\ CommandsOf(q) = [k \in 1..m |-> q[f[k]]]
  BY <1>0
<1>2. PICK new \in Seq(Message) : new = Tail(q)
  BY HeadTailProperties
<1>3. /\ Len(q) \in Nat \ {0} /\ Len(new) = Len(q) - 1
      /\ \A i \in 1..Len(new) : new[i] = q[i + 1]
      /\ Head(q) = q[1]
  BY <1>2
<1>4. /\ \A k \in 1..m : f[k] \in 1..Len(q) /\ f[k] \in Places(q)
      /\ \A i, j \in 1..m : i < j => f[i] < f[j]
      /\ \A p \in Places(q) : \E i \in 1..m : f[i] = p
  BY <1>1 DEF Goes, Places
<1>5. \A i \in 1..Len(new) : i \in Places(new) <=> i + 1 \in Places(q)
  BY <1>3 DEF Places
<1>6. \A i \in 2..Len(q) : i - 1 \in 1..Len(new) /\ (i - 1) + 1 = i
  BY <1>3
<1>7. PICK c \in Seq(Message) : c = CommandsOf(q)
  BY CommandsFacts
<1>8. Len(c) = m /\ \A k \in 1..m : c[k] = q[f[k]]
  BY <1>1, <1>7
<1>9. CASE Head(q).topic = "EXECUTE_CMD"
  <2>1. 1 \in Places(q)
    BY <1>3, <1>9 DEF Places
  <2>2. m # 0 /\ f[1] = 1
    <3>1. PICK i \in 1..m : f[i] = 1
      BY <1>4, <2>1
    <3>2. i = 1
      <4> SUFFICES ASSUME i # 1 PROVE FALSE
        OBVIOUS
      <4>1. 1 < i /\ 1 \in 1..m
        OBVIOUS
      <4>2. f[1] < f[i] /\ f[1] \in 1..Len(q)
        BY <1>4, <4>1
      <4> QED
        BY <1>3, <3>1, <4>2
    <3> QED
      BY <3>1, <3>2
  <2>3. \A k \in 2..m : f[k] \in 2..Len(q)
    <3> SUFFICES ASSUME NEW k \in 2..m PROVE f[k] \in 2..Len(q)
      OBVIOUS
    <3>1. 1 \in 1..m /\ k \in 1..m /\ 1 < k
      OBVIOUS
    <3>2. f[1] < f[k] /\ f[k] \in 1..Len(q)
      BY <1>4, <3>1
    <3> QED
      BY <1>3, <2>2, <3>2
  <2>4. PICK g : g = [k \in 1..m - 1 |-> f[k + 1] - 1]
    OBVIOUS
  <2>5. \A k \in 1..m - 1 : k + 1 \in 2..m /\ k + 1 \in 1..m
    OBVIOUS
  <2>6. \A k \in 1..m - 1 : g[k] \in 1..Len(new) /\ g[k] + 1 = f[k + 1] /\ g[k] \in Places(new)
    <3> SUFFICES ASSUME NEW k \in 1..m - 1
                 PROVE  g[k] \in 1..Len(new) /\ g[k] + 1 = f[k + 1] /\ g[k] \in Places(new)
      OBVIOUS
    <3>1. f[k + 1] \in 2..Len(q) /\ f[k + 1] \in Places(q)
      BY <1>4, <2>3, <2>5
    <3>2. g[k] = f[k + 1] - 1
      BY <2>4
    <3> QED
      BY <1>5, <1>6, <3>1, <3>2
  <2>7. Goes(g, m - 1, Places(new))
    <3>1. g \in [1..m - 1 -> Places(new)]
      BY <2>4, <2>6
    <3>2. \A i, j \in 1..m - 1 : i < j => g[i] < g[j]
      <4> SUFFICES ASSUME NEW i \in 1..m - 1, NEW j \in 1..m - 1, i < j PROVE g[i] < g[j]
        OBVIOUS
      <4>1. i + 1 < j + 1
        OBVIOUS
      <4>2. f[i + 1] < f[j + 1]
        BY <1>4, <2>5, <4>1
      <4> QED
        BY <1>3, <2>6, <4>2
    <3>3. \A p \in Places(new) : \E i \in 1..m - 1 : g[i] = p
      <4> SUFFICES ASSUME NEW p \in Places(new) PROVE \E i \in 1..m - 1 : g[i] = p
        OBVIOUS
      <4>1. p \in 1..Len(new) /\ p + 1 \in Places(q)
        BY <1>5 DEF Places
      <4>2. PICK i \in 1..m : f[i] = p + 1
        BY <1>4, <4>1
      <4>3. i # 1
        BY <1>3, <2>2, <4>1, <4>2
      <4>4. i - 1 \in 1..m - 1 /\ (i - 1) + 1 = i
        BY <4>3
      <4>5. g[i - 1] = p
        <5>1. g[i - 1] = f[(i - 1) + 1] - 1 /\ f[(i - 1) + 1] = f[i]
          BY <2>4, <4>4
        <5>2. p \in Nat /\ (p + 1) - 1 = p
          BY <1>3, <4>1
        <5> QED
          BY <4>2, <5>1, <5>2
      <4> QED
        BY <4>4, <4>5
    <3> QED
      BY <3>1, <3>2, <3>3 DEF Goes
  <2>8. CommandsOf(new) = [k \in 1..m - 1 |-> new[g[k]]]
    BY <2>2, <2>7, GoneThrough, m - 1 \in Nat
  <2>9. \A k \in 1..m - 1 : new[g[k]] = c[k + 1]
    BY <1>3, <1>8, <2>5, <2>6, SMTT(40)
  <2>10. c # <<>> /\ Tail(c) = [k \in 1..m - 1 |-> c[k + 1]]
    <3>1. c # <<>>
      BY <1>8, <2>2
    <3>2. PICK d \in Seq(Message) : d = Tail(c)
      BY <3>1, HeadTailProperties
    <3>3. Len(d) = m - 1 /\ \A k \in 1..m - 1 : d[k] = c[k + 1]
      BY <1>8, <3>1, <3>2, HeadTailProperties
    <3>4. d = [k \in 1..m - 1 |-> d[k]]
      BY <3>3
    <3> QED
      BY <3>1, <3>2, <3>3, <3>4
  <2> QED
    BY <1>2, <1>7, <1>9, <2>8, <2>9, <2>10
<1>10. CASE Head(q).topic # "EXECUTE_CMD"
  <2>1. \A k \in 1..m : f[k] \in 2..Len(q)
    <3>1. 1 \notin Places(q)
      BY <1>3, <1>10 DEF Places
    <3> QED
      BY <1>3, <1>4, <3>1
  <2>2. PICK g : g = [k \in 1..m |-> f[k] - 1]
    OBVIOUS
  <2>3. \A k \in 1..m : g[k] \in 1..Len(new) /\ g[k] + 1 = f[k] /\ g[k] \in Places(new)
    <3> SUFFICES ASSUME NEW k \in 1..m
                 PROVE  g[k] \in 1..Len(new) /\ g[k] + 1 = f[k] /\ g[k] \in Places(new)
      OBVIOUS
    <3>1. f[k] \in 2..Len(q) /\ f[k] \in Places(q)
      BY <1>4, <2>1
    <3>2. g[k] = f[k] - 1
      BY <2>2
    <3> QED
      BY <1>5, <1>6, <3>1, <3>2
  <2>4. Goes(g, m, Places(new))
    <3>1. g \in [1..m -> Places(new)]
      BY <2>2, <2>3
    <3>2. \A i, j \in 1..m : i < j => g[i] < g[j]
      <4> SUFFICES ASSUME NEW i \in 1..m, NEW j \in 1..m, i < j PROVE g[i] < g[j]
        OBVIOUS
      <4>1. f[i] < f[j]
        BY <1>4
      <4> QED
        BY <1>3, <2>3, <4>1
    <3>3. \A p \in Places(new) : \E i \in 1..m : g[i] = p
      <4> SUFFICES ASSUME NEW p \in Places(new) PROVE \E i \in 1..m : g[i] = p
        OBVIOUS
      <4>1. p \in 1..Len(new) /\ p + 1 \in Places(q)
        BY <1>5 DEF Places
      <4>2. PICK i \in 1..m : f[i] = p + 1
        BY <1>4, <4>1
      <4> QED
        BY <1>3, <2>2, <4>1, <4>2
    <3> QED
      BY <3>1, <3>2, <3>3 DEF Goes
  <2>5. CommandsOf(new) = [k \in 1..m |-> new[g[k]]]
    BY <2>4, GoneThrough
  <2>6. \A k \in 1..m : new[g[k]] = q[f[k]]
    BY <1>3, <2>3
  <2> QED
    BY <1>1, <1>2, <1>10, <2>5, <2>6
<1> QED
  BY <1>9, <1>10


-----------------------------------------------------------------------------
(* The line and the texts of the commands *)

Symbols == Letter \cup {NUL}
Line(bytes, n) == [i \in 1..n |-> bytes[i - 1]]
Entry(m) == [argc |-> m.argc, text |-> m.text]
Entries(commands) == [i \in 1..Len(commands) |-> Entry(commands[i])]

Message ==
  [topic : {"INPUT_STREAM"}, data : Injected \cup {<<ch>> : ch \in Char}]
    \cup [topic : {"EXECUTE_CMD"}, argc : 0..(ArgcValues - 1), text : Seq(Symbols),
          end : {NUL, FOREIGN}]

LEMMA LimitFacts == /\ BufferSize \in Nat /\ Limit \in Nat /\ Limit >= 2
                    /\ BufferSize = Limit + 1 /\ Cell = 0..(Limit - 1)
BY ConsoleAssumption DEF Limit, Cell

\* A full line has as many symbols as cmd_line has bytes.
LEMMA CellFacts == Cardinality(Cell) = Limit
<1>1. PICK top \in Int : top = Limit - 1
  BY LimitFacts
<1>2. Cardinality(0..top) = IF 0 > top THEN 0 ELSE top - 0 + 1
  BY 0 \in Int, FS_Interval
<1> QED
  BY <1>1, <1>2, LimitFacts

LEMMA LineFacts ==
  ASSUME NEW bytes \in [Cell -> Symbols], NEW n \in 0..Limit
  PROVE  /\ Line(bytes, n) \in Seq(Symbols) /\ Len(Line(bytes, n)) = n
         /\ Line(bytes, n) = <<>> <=> n = 0
         /\ n # 0 => Front(Line(bytes, n)) = Line(bytes, n - 1)
         /\ n # Limit => \A s \in Symbols :
              Line([bytes EXCEPT ![n] = s], n + 1) = Append(Line(bytes, n), s)
<1>1. \A i \in 1..n : i - 1 \in Cell /\ i - 1 # n
  BY LimitFacts
<1>2. PICK line : line = Line(bytes, n)
  OBVIOUS
<1>3. line \in [1..n -> Symbols] /\ \A i \in 1..n : line[i] = bytes[i - 1]
  BY <1>1, <1>2 DEF Line
<1>4. line \in Seq(Symbols) /\ Len(line) = n
  BY <1>3
<1>5. ASSUME n # 0 PROVE Front(line) = Line(bytes, n - 1)
  <2>1. Front(line) = [i \in 1..n - 1 |-> line[i]]
    BY <1>4, <1>5 DEF Front
  <2>2. \A i \in 1..n - 1 : i \in 1..n
    OBVIOUS
  <2> QED
    BY <1>3, <2>1, <2>2 DEF Line
<1>6. ASSUME n # Limit, NEW s \in Symbols
      PROVE  Line([bytes EXCEPT ![n] = s], n + 1) = Append(line, s)
  <2>1. PICK new : new = [bytes EXCEPT ![n] = s]
    OBVIOUS
  <2>2. n \in Cell
    BY <1>6, LimitFacts
  <2>3. new[n] = s /\ \A i \in 1..n : new[i - 1] = bytes[i - 1]
    BY <1>1, <2>1, <2>2
  <2>4. PICK d \in Seq(Symbols) : d = Append(line, s)
    BY <1>4, AppendProperties
  <2>5. Len(d) = n + 1 /\ d[n + 1] = s /\ \A i \in 1..n : d[i] = line[i]
    BY <1>4, <2>4, AppendProperties
  <2>6. d = [i \in 1..n + 1 |-> d[i]]
    BY <2>5
  <2>7. ASSUME NEW i \in 1..n + 1 PROVE d[i] = new[i - 1]
    <3>1. CASE i = n + 1
      <4>1. i - 1 = n
        BY <3>1
      <4> QED
        BY <2>3, <2>5, <3>1, <4>1
    <3>2. CASE i # n + 1
      <4>1. i \in 1..n
        BY <3>2
      <4> QED
        BY <1>3, <2>3, <2>5, <4>1
    <3> QED
      BY <3>1, <3>2
  <2> QED
    BY <2>1, <2>4, <2>6, <2>7 DEF Line
<1>7. line = <<>> <=> n = 0
  BY <1>4
<1> QED
  BY <1>2, <1>4, <1>5, <1>6, <1>7

LEMMA EntriesPut ==
  ASSUME NEW commands \in Seq(Message), NEW msg \in Message
  PROVE  Entries(Append(commands, msg)) = Append(Entries(commands), Entry(msg))
<1>1. PICK d \in Seq(Message) : d = Append(commands, msg)
  BY AppendProperties
<1>2. PICK n \in Nat : n = Len(commands)
  OBVIOUS
<1>3. Len(d) = n + 1 /\ d[n + 1] = msg /\ \A i \in 1..n : d[i] = commands[i]
  BY <1>1, <1>2, AppendProperties
<1>4. PICK T : T = {Entry(commands[i]) : i \in 1..n} \cup {Entry(msg)}
  OBVIOUS
<1>5. PICK t \in Seq(T) : t = Entries(commands) /\ Len(t) = n
  <2>1. \A i \in 1..n : Entry(commands[i]) \in T
    BY <1>4
  <2>2. PICK t : t = [i \in 1..n |-> Entry(commands[i])]
    OBVIOUS
  <2>3. t \in [1..n -> T]
    BY <2>1, <2>2
  <2> QED
    BY <1>2, <2>2, <2>3 DEF Entries
<1>6. \A i \in 1..n : t[i] = Entry(commands[i])
  BY <1>2, <1>5 DEF Entries
<1>7. PICK e \in Seq(T) : e = Append(t, Entry(msg))
  BY <1>4, AppendProperties
<1>8. Len(e) = n + 1 /\ e[n + 1] = Entry(msg) /\ \A i \in 1..n : e[i] = t[i]
  BY <1>4, <1>5, <1>7, AppendProperties
<1>9. e = [i \in 1..n + 1 |-> e[i]]
  BY <1>8
<1>10. \A i \in 1..n + 1 : e[i] = Entry(d[i])
  <2> SUFFICES ASSUME NEW i \in 1..n + 1 PROVE e[i] = Entry(d[i])
    OBVIOUS
  <2>1. i = n + 1 \/ i \in 1..n
    OBVIOUS
  <2> QED
    BY <1>3, <1>6, <1>8, <2>1
<1> QED
  BY <1>1, <1>3, <1>5, <1>7, <1>9, <1>10 DEF Entries

LEMMA EntriesTake ==
  ASSUME NEW commands \in Seq(Message), commands # <<>>
  PROVE  Entries(commands) # <<>> /\ Entries(Tail(commands)) = Tail(Entries(commands))
<1>1. PICK d \in Seq(Message) : d = Tail(commands)
  BY HeadTailProperties
<1>2. PICK n \in Nat \ {0} : n = Len(commands)
  OBVIOUS
<1>3. Len(d) = n - 1 /\ \A i \in 1..n - 1 : d[i] = commands[i + 1]
  BY <1>1, <1>2, HeadTailProperties
<1>4. PICK T : T = {Entry(commands[i]) : i \in 1..n}
  OBVIOUS
<1>5. PICK t \in Seq(T) : t = Entries(commands) /\ Len(t) = n
  <2>1. \A i \in 1..n : Entry(commands[i]) \in T
    BY <1>4
  <2>2. PICK t : t = [i \in 1..n |-> Entry(commands[i])]
    OBVIOUS
  <2>3. t \in [1..n -> T]
    BY <2>1, <2>2
  <2> QED
    BY <1>2, <2>2, <2>3 DEF Entries
<1>6. t # <<>> /\ \A i \in 1..n : t[i] = Entry(commands[i])
  BY <1>2, <1>5 DEF Entries
<1>7. PICK e \in Seq(T) : e = Tail(t)
  BY <1>6, HeadTailProperties
<1>8. Len(e) = n - 1 /\ \A i \in 1..n - 1 : e[i] = t[i + 1]
  BY <1>5, <1>6, <1>7, HeadTailProperties
<1>9. e = [i \in 1..n - 1 |-> e[i]]
  BY <1>8
<1>10. \A i \in 1..n - 1 : e[i] = Entry(d[i])
  <2> SUFFICES ASSUME NEW i \in 1..n - 1 PROVE e[i] = Entry(d[i])
    OBVIOUS
  <2>1. i + 1 \in 1..n
    OBVIOUS
  <2> QED
    BY <1>3, <1>6, <1>8, <2>1
<1> QED
  BY <1>1, <1>3, <1>5, <1>6, <1>7, <1>9, <1>10 DEF Entries


-----------------------------------------------------------------------------
(* The inductive invariant *)

TypeInv ==
  /\ queue \in Seq(Message)
  /\ Len(queue) <= QueueLength
  /\ input \in Seq(Char)
  /\ cmd_line \in [Cell -> Symbols]
  /\ behind \in {FOREIGN, NUL}
  /\ cmd_idx \in 0..Limit
  /\ argc \in 0..(ArgcValues - 1)

\* A command has a line that fits cmd_line and does not begin with a delimiter,
\* and only a full line is not followed by its own NUL.
Named(m) ==
  m.topic = "EXECUTE_CMD" =>
    /\ Len(m.text) \in 1..Limit /\ m.text[1] # NUL
    /\ m.end # NUL => Len(m.text) = Limit

\* Neither the line nor a command that waits begins with a delimiter.
NameInv ==
  /\ cmd_idx # 0 => cmd_line[0] # NUL
  /\ \A i \in 1..Len(queue) : Named(queue[i])

Inv == TypeInv /\ NameInv

LEMMA PlaceFacts ==
  ASSUME TypeInv
  PROVE  /\ Place \in 0..Limit /\ Place # Limit /\ Place + 1 \in 1..Limit /\ Place \in Cell
         /\ Place = 0 <=> cmd_idx = 0
         /\ Place <= cmd_idx
BY LimitFacts DEF TypeInv, Place

\* The line is read from cmd_line alone.
LEMMA BytesFacts ==
  ASSUME cmd_idx \in 0..Limit
  PROVE  Bytes(cmd_idx) = Line(cmd_line, cmd_idx)
<1>1. \A i \in 1..cmd_idx : i - 1 \in Cell
  BY LimitFacts
<1> QED
  BY <1>1 DEF Bytes, Line, Load

LEMMA MessageFacts ==
  /\ \A s \in Injected \cup {<<ch>> : ch \in Char} : s \in Seq(Char) /\ Stream(s) \in Message /\ Named(Stream(s))
  /\ \A m \in Message : m.topic = "INPUT_STREAM" => m.data \in Seq(Char)
<1>1. \A s \in Injected \cup {<<ch>> : ch \in Char} : s \in Seq(Char)
  <2>1. \A s \in Injected : s \in Seq(Char)
    BY ConsoleAssumption DEF Char
  <2>2. \A ch \in Char : <<ch>> \in Seq(Char)
    OBVIOUS
  <2> QED
    BY <2>1, <2>2
<1>2. \A s \in Injected \cup {<<ch>> : ch \in Char} : Stream(s) \in Message /\ Named(Stream(s))
  BY DEF Stream, Message, Named
<1>3. \A m \in Message : m.topic = "INPUT_STREAM" => m.data \in Seq(Char)
  BY <1>1 DEF Message
<1> QED
  BY <1>1, <1>2, <1>3

\* Enter publishes the line.
LEMMA EnterFacts ==
  ASSUME Inv, cmd_idx # 0, NEW end \in End
  PROVE  /\ Command(argc, Bytes(cmd_idx), end) \in Message
         /\ Named(Command(argc, Bytes(cmd_idx), end))
         /\ Command(argc, Bytes(cmd_idx), end).topic = "EXECUTE_CMD"
         /\ Entry(Command(argc, Bytes(cmd_idx), end)) = [argc |-> argc, text |-> Line(cmd_line, cmd_idx)]
<1>1. PICK text : text = Line(cmd_line, cmd_idx)
  OBVIOUS
<1>2. text = Bytes(cmd_idx)
  BY <1>1, BytesFacts DEF Inv, TypeInv
<1>3. cmd_idx \in 1..Limit /\ cmd_line \in [Cell -> Symbols] /\ argc \in 0..(ArgcValues - 1)
  BY LimitFacts DEF Inv, TypeInv
<1>4. text \in Seq(Symbols) /\ Len(text) = cmd_idx
  BY <1>1, <1>3, LineFacts
<1>5. text[1] = cmd_line[0]
  <2>1. 1 \in 1..cmd_idx /\ 1 - 1 = 0
    BY <1>3
  <2> QED
    BY <1>1, <2>1 DEF Line
<1>6. text[1] # NUL
  BY <1>5 DEF Inv, NameInv
<1>7. end \in {NUL, FOREIGN} /\ (end # NUL => cmd_idx = Limit)
  BY <1>3, LimitFacts DEF End
<1> QED
  BY <1>1, <1>2, <1>3, <1>4, <1>6, <1>7 DEF Command, Message, Named, Entry

LEMMA PublishFacts ==
  ASSUME Inv, NEW m \in Message, Named(m), Publish(m)
  PROVE  /\ queue' \in Seq(Message) /\ Len(queue') <= QueueLength
         /\ \A i \in 1..Len(queue') : Named(queue'[i])
         /\ m.topic = "INPUT_STREAM" => CommandsOf(queue') = CommandsOf(queue)
         /\ m.topic = "EXECUTE_CMD" =>
              \/ CommandsOf(queue') = CommandsOf(queue)
              \/ CommandsOf(queue') = Append(CommandsOf(queue), m)
<1>1. PICK q \in Seq(Message) : q = queue
  BY DEF Inv, TypeInv
<1>2. /\ Len(q) \in Nat /\ Len(q) <= QueueLength /\ QueueLength \in Nat
      /\ \A i \in 1..Len(q) : Named(q[i])
  BY <1>1, ConsoleAssumption DEF Inv, TypeInv, NameInv, Named
<1>3. CASE Len(q) < QueueLength
  <2>1. PICK new \in Seq(Message) : new = Append(q, m)
    BY AppendProperties
  <2>2. queue' = new
    BY <1>1, <1>3, <2>1 DEF Publish
  <2>3. Len(new) = Len(q) + 1 /\ new[Len(q) + 1] = m /\ \A i \in 1..Len(q) : new[i] = q[i]
    BY <2>1, AppendProperties
  <2>4. \A i \in 1..Len(new) : i = Len(q) + 1 \/ i \in 1..Len(q)
    BY <1>2, <2>3
  <2>5. CommandsOf(new) = IF m.topic = "EXECUTE_CMD" THEN Append(CommandsOf(q), m) ELSE CommandsOf(q)
    BY <2>1, CommandsPut
  <2>6. \A i \in 1..Len(new) : Named(new[i])
    BY <1>2, <2>3, <2>4
  <2> QED
    BY <1>1, <1>2, <1>3, <2>2, <2>3, <2>5, <2>6
<1>4. CASE ~(Len(q) < QueueLength)
  <2>1. queue' = q
    BY <1>1, <1>4 DEF Publish
  <2> QED
    BY <1>1, <1>2, <2>1
<1> QED
  BY <1>3, <1>4

LEMMA TakeFacts ==
  ASSUME Inv, queue # <<>>, queue' = Tail(queue)
  PROVE  /\ queue' \in Seq(Message) /\ Len(queue') <= QueueLength
         /\ \A i \in 1..Len(queue') : Named(queue'[i])
         /\ Head(queue) \in Message
         /\ Head(queue).topic # "EXECUTE_CMD" => CommandsOf(queue') = CommandsOf(queue)
         /\ Head(queue).topic = "EXECUTE_CMD" =>
              CommandsOf(queue) # <<>> /\ CommandsOf(queue') = Tail(CommandsOf(queue))
<1>1. PICK q \in Seq(Message) : q = queue
  BY DEF Inv, TypeInv
<1>2. /\ Len(q) \in Nat /\ Len(q) <= QueueLength /\ QueueLength \in Nat /\ q # <<>>
      /\ \A i \in 1..Len(q) : Named(q[i])
  BY <1>1, ConsoleAssumption DEF Inv, TypeInv, NameInv, Named
<1>3. PICK new \in Seq(Message) : new = Tail(q)
  BY <1>2, HeadTailProperties
<1>4. /\ Head(q) \in Message /\ Len(new) = Len(q) - 1
      /\ \A i \in 1..Len(new) : new[i] = q[i + 1]
  BY <1>2, <1>3, HeadTailProperties
<1>5. \A i \in 1..Len(new) : Named(new[i])
  <2>1. \A i \in 1..Len(new) : i + 1 \in 1..Len(q)
    BY <1>2, <1>4
  <2> QED
    BY <1>2, <1>4, <2>1
<1>6. IF Head(q).topic = "EXECUTE_CMD"
      THEN CommandsOf(q) # <<>> /\ CommandsOf(new) = Tail(CommandsOf(q))
      ELSE CommandsOf(new) = CommandsOf(q)
  BY <1>2, <1>3, CommandsTake
<1>7. Len(new) <= QueueLength
  BY <1>2, <1>4
<1> QED
  BY <1>1, <1>3, <1>4, <1>5, <1>6, <1>7

LEMMA InitInv == Init => Inv
<1> SUFFICES ASSUME Init PROVE Inv
  OBVIOUS
<1>1. TypeInv
  BY ConsoleAssumption, LimitFacts DEF Init, TypeInv, Symbols
<1>2. NameInv
  BY DEF Init, NameInv
<1> QED
  BY <1>1, <1>2 DEF Inv

LEMMA ReadsFacts ==
  ASSUME Inv, NEW chars, Reads(chars)
  PROVE  input' \in Seq(Char) /\ Head(input) \in chars /\ Head(input) \in Char
<1>1. PICK in \in Seq(Char) : in = input
  BY DEF Inv, TypeInv
<1>2. in # <<>> /\ input' = Tail(in) /\ Head(in) \in chars
  BY <1>1 DEF Reads
<1>3. Tail(in) \in Seq(Char) /\ Head(in) \in Char
  BY <1>2, HeadTailProperties
<1> QED
  BY <1>1, <1>2, <1>3

\* What HandleSpace and HandleLetter have in common.
Puts(s) ==
  /\ Place = 0 => s # NUL
  /\ cmd_line' = [cmd_line EXCEPT ![Place] = s]
  /\ cmd_idx' = Place + 1
  /\ argc' = IF s = NUL THEN (argc + 1) % ArgcValues ELSE argc
  /\ UNCHANGED <<queue, behind>>

LEMMA SpacePuts == TypeInv /\ HandleSpace => Puts(NUL) /\ NUL \in Symbols
BY PlaceFacts DEF HandleSpace, IsSkipped, Store, Puts, Symbols

LEMMA LetterPuts == TypeInv /\ HandleLetter => \E s \in Symbols : Puts(s)
<1> SUFFICES ASSUME TypeInv, HandleLetter PROVE \E s \in Symbols : Puts(s)
  OBVIOUS
<1>1. PICK s \in Letter : s = Head(input)
  BY DEF HandleLetter, Reads
<1>2. s \in Symbols /\ s # NUL
  BY ConsoleAssumption DEF Symbols
<1>3. Puts(s)
  BY <1>1, <1>2, PlaceFacts DEF HandleLetter, Store, Puts
<1> QED
  BY <1>2, <1>3

LEMMA NextInv == Inv /\ [Next]_vars => Inv'
<1> SUFFICES ASSUME Inv, [Next]_vars PROVE Inv'
  OBVIOUS
<1>1. /\ queue \in Seq(Message) /\ Len(queue) <= QueueLength
      /\ input \in Seq(Char) /\ cmd_line \in [Cell -> Symbols] /\ behind \in {FOREIGN, NUL}
      /\ cmd_idx \in 0..Limit /\ argc \in 0..(ArgcValues - 1)
      /\ cmd_idx # 0 => cmd_line[0] # NUL
      /\ \A i \in 1..Len(queue) : Named(queue[i])
  BY DEF Inv, TypeInv, NameInv, Named
<1>3. ASSUME NEW s \in Injected \cup {<<ch>> : ch \in Char}, Publish(Stream(s)),
             UNCHANGED <<input, cmd_line, behind, cmd_idx, argc>>
      PROVE  Inv'
  <2>1. PICK m \in Message : m = Stream(s) /\ Named(m)
    BY MessageFacts
  <2>2. Publish(m)
    BY <1>3, <2>1
  <2> QED
    BY <1>1, <1>3, <2>1, <2>2, PublishFacts DEF Inv, TypeInv, NameInv, Named
<1>4. ASSUME NEW ch \in Char, ConsoleTaskPublishes(ch) PROVE Inv'
  BY <1>3, <1>4 DEF ConsoleTaskPublishes
<1>5. ASSUME NEW s \in Injected, PrintInfoPublishes(s) PROVE Inv'
  BY <1>3, <1>5 DEF PrintInfoPublishes
<1>6. CASE ReceiveStream
  <2>1. queue # <<>> /\ queue' = Tail(queue) /\ input' = Head(queue).data
        /\ Head(queue).topic = "INPUT_STREAM" /\ UNCHANGED <<cmd_line, behind, cmd_idx, argc>>
    BY <1>6 DEF ReceiveStream
  <2>2. Head(queue) \in Message
    BY <2>1, TakeFacts
  <2>3. Head(queue).data \in Seq(Char)
    BY <2>1, <2>2, MessageFacts
  <2> QED
    BY <1>1, <2>1, <2>3, TakeFacts DEF Inv, TypeInv, NameInv, Named
<1>7. CASE ReceiveCommand
  BY <1>1, <1>7, TakeFacts DEF ReceiveCommand, Inv, TypeInv, NameInv, Named
<1>8. CASE HandleEnter
  <2>1. cmd_idx # 0 /\ Reads({ENTER})
    BY <1>8 DEF HandleEnter
  <2>2. PICK end \in End : Publish(Command(argc, Bytes(cmd_idx), end))
    BY <1>8 DEF HandleEnter
  <2>3. PICK m \in Message : m = Command(argc, Bytes(cmd_idx), end) /\ Named(m) /\ Publish(m)
    BY <2>1, <2>2, EnterFacts
  <2>4. /\ cmd_line' \in [Cell -> Symbols] /\ behind' \in {FOREIGN, NUL}
        /\ cmd_idx' \in 0..Limit /\ argc' \in 0..(ArgcValues - 1) /\ cmd_idx' = 0
    BY <1>1, <1>8, LimitFacts, ConsoleAssumption DEF HandleEnter, StoreEnd, Symbols
  <2>5. input' \in Seq(Char)
    BY <2>1, ReadsFacts
  <2> QED
    BY <2>3, <2>4, <2>5, PublishFacts DEF Inv, TypeInv, NameInv, Named
<1>9. CASE HandleBackspace
  <2>1. cmd_idx # 0 /\ Reads({BACKSPACE}) /\ cmd_idx' = cmd_idx - 1 /\ UNCHANGED <<queue, cmd_line, behind, argc>>
    BY <1>9 DEF HandleBackspace
  <2>2. input' \in Seq(Char)
    BY <2>1, ReadsFacts
  <2>3. cmd_idx' \in 0..Limit
    BY <1>1, <2>1, LimitFacts
  <2> QED
    BY <1>1, <2>1, <2>2, <2>3 DEF Inv, TypeInv, NameInv, Named
<1>10. CASE HandleSkipped
  <2>1. Reads(Char) /\ cmd_idx' = Place /\ UNCHANGED <<queue, cmd_line, behind, argc>>
    BY <1>10 DEF HandleSkipped
  <2>2. input' \in Seq(Char)
    BY <2>1, ReadsFacts
  <2>3. cmd_idx' \in 0..Limit /\ (cmd_idx' # 0 => cmd_idx # 0)
    BY <2>1, PlaceFacts DEF Inv
  <2> QED
    BY <1>1, <2>1, <2>2, <2>3 DEF Inv, TypeInv, NameInv, Named
<1>11. ASSUME NEW s \in Symbols, Puts(s), input' \in Seq(Char)
       PROVE  Inv'
  <2>0. /\ Place = 0 => s # NUL
        /\ cmd_line' = [cmd_line EXCEPT ![Place] = s]
        /\ cmd_idx' = Place + 1
        /\ argc' \in 0..(ArgcValues - 1)
        /\ UNCHANGED <<queue, behind>>
    BY <1>1, <1>11, ConsoleAssumption DEF Puts
  <2>1. PICK p \in Cell : p = Place
    BY PlaceFacts DEF Inv
  <2>2. cmd_line' \in [Cell -> Symbols] /\ cmd_idx' \in 0..Limit
    BY <1>1, <2>0, LimitFacts, PlaceFacts DEF Inv
  <2>3. cmd_line'[0] # NUL
    <3>1. CASE p = 0
      BY <1>1, <2>0, <2>1, <3>1
    <3>2. CASE p # 0
      <4>1. cmd_idx # 0
        BY <2>1, <3>2, PlaceFacts DEF Inv
      <4>2. 0 \in Cell
        BY LimitFacts
      <4> QED
        BY <1>1, <2>0, <2>1, <3>2, <4>1, <4>2
    <3> QED
      BY <3>1, <3>2
  <2> QED
    BY <1>1, <1>11, <2>0, <2>2, <2>3 DEF Inv, TypeInv, NameInv, Named
<1>12. CASE HandleSpace
  <2>1. Puts(NUL) /\ NUL \in Symbols
    BY <1>12, SpacePuts DEF Inv
  <2>2. input' \in Seq(Char)
    BY <1>12, ReadsFacts DEF HandleSpace
  <2> QED
    BY <1>11, <2>1, <2>2
<1>13. CASE HandleLetter
  <2>1. PICK s \in Symbols : Puts(s)
    BY <1>13, LetterPuts DEF Inv
  <2>2. input' \in Seq(Char)
    BY <1>13, ReadsFacts DEF HandleLetter
  <2> QED
    BY <1>11, <2>1, <2>2
<1>14. CASE UNCHANGED vars
  BY <1>1, <1>14 DEF vars, Inv, TypeInv, NameInv, Named
<1> QED
  BY <1>4, <1>5, <1>6, <1>7, <1>8, <1>9, <1>10, <1>12, <1>13, <1>14 DEF Next, Handle


LEMMA SpecInv == Spec => []Inv
BY InitInv, NextInv, PTL DEF Spec

\* TypeOK holds of all behaviours: the queue holds characters, strings of
\* print_info and lines that fit the bytes of buffer behind argc, the line never
\* needs more, whatever is typed, and no byte but the NUL of a full line is
\* stored behind the buffer, or copied from there.
THEOREM TypeCorrect == Spec => []TypeOK
<1>1. Inv => TypeOK
  <2> SUFFICES ASSUME Inv PROVE TypeOK
    OBVIOUS
  <2>1. ASSUME NEW i \in 1..Len(queue)
        PROVE  \/ queue[i].topic = "INPUT_STREAM" /\ queue[i].data \in Injected \cup {<<ch>> : ch \in Char}
               \/ /\ queue[i].topic = "EXECUTE_CMD" /\ queue[i].argc \in 0..(ArgcValues - 1)
                  /\ Len(queue[i].text) \in 1..Cardinality(Cell)
                  /\ queue[i].end # NUL => queue[i].end = FOREIGN /\ Len(queue[i].text) = Limit
    <3>1. PICK m \in Message : m = queue[i]
      BY DEF Inv, TypeInv
    <3>2. Named(m)
      BY <3>1 DEF Inv, NameInv
    <3> QED
      BY <3>1, <3>2, CellFacts DEF Message, Named
  <2> QED
    BY <2>1, CellFacts DEF Inv, TypeInv, TypeOK, Symbols
<1> QED
  BY <1>1, SpecInv, PTL

\* Every command that waits for app_cmd_handler has a name: its first argument
\* is not empty.
THEOREM CommandsHaveNames == Spec => []CommandHasName
<1>1. Inv => CommandHasName
  <2> SUFFICES ASSUME Inv, NEW n \in 1..Len(Commands) PROVE Head(Commands[n].text) # NUL
    BY DEF CommandHasName
  <2>1. PICK q \in Seq(Message) : q = queue
    BY DEF Inv, TypeInv
  <2>2. PICK i \in 1..Len(q) : q[i].topic = "EXECUTE_CMD" /\ Commands[n] = q[i]
    BY <2>1, CommandsFacts DEF Commands
  <2>3. PICK m \in Message : m = q[i]
    OBVIOUS
  <2>4. Len(m.text) \in 1..Limit /\ m.text[1] # NUL
    BY <2>1, <2>2, <2>3 DEF Inv, NameInv, Named
  <2>5. m.text \in Seq(Symbols)
    BY <2>2, <2>3 DEF Message
  <2>6. Head(m.text) = m.text[1]
    BY <2>4, <2>5
  <2> QED
    BY <2>2, <2>3, <2>4, <2>6
<1> QED
  BY <1>1, SpecInv, PTL

-----------------------------------------------------------------------------
(* The console edits and enters lines *)

text    == Line(cmd_line, cmd_idx)
entered == Entries(CommandsOf(queue))

LEMMA Mapping ==
  Inv => /\ Bytes(cmd_idx) = text
         /\ [i \in 1..Len(Commands) |-> [argc |-> Commands[i].argc, text |-> Commands[i].text]] = entered
BY BytesFacts DEF Inv, TypeInv, text, Commands, Entries, Entry, entered

LEMMA MappingNext ==
  (Inv => /\ Bytes(cmd_idx) = text
          /\ [i \in 1..Len(Commands) |-> [argc |-> Commands[i].argc, text |-> Commands[i].text]] = entered)'
BY Mapping, PTL

\* The steps of LineEditor with those of its slips that do not differ from them
\* in text, of the line and the entries of the commands.
room      == IF Len(text) = Limit THEN Front(text) ELSE text
Kept      == entered' = entered /\ behind' = behind
Counts(s) == IF s = NUL THEN (argc + 1) % ArgcValues ELSE argc

Inserts(s) ==
  /\ s = NUL => room # <<>>
  /\ text' = Append(room, s) /\ argc' = Counts(s)
  /\ Kept

Erases   == text # <<>> /\ text' = Front(text) /\ argc' = argc /\ Kept
Enters   ==
  /\ text # <<>> /\ text' = <<>> /\ argc' = 0
  /\ entered' \in {entered, Append(entered, [argc |-> argc, text |-> text])}
  /\ behind' = IF Len(text) = Limit THEN NUL ELSE behind
Executes ==
  entered # <<>> /\ entered' = Tail(entered) /\ text' = text /\ argc' = argc /\ behind' = behind
Stutters == text' = text /\ argc' = argc /\ Kept

LEMMA TextFacts ==
  ASSUME Inv
  PROVE  /\ Len(text) = cmd_idx
         /\ text = <<>> <=> cmd_idx = 0
         /\ cmd_idx # 0 => Front(text) = Line(cmd_line, cmd_idx - 1)
         /\ Line(cmd_line, Place) = room
         /\ room = <<>> <=> Place = 0
<1>1. PICK bytes \in [Cell -> Symbols] : bytes = cmd_line
  BY DEF Inv, TypeInv
<1>2. PICK n \in 0..Limit : n = cmd_idx
  BY DEF Inv, TypeInv
<1>3. /\ Len(Line(bytes, n)) = n
      /\ Line(bytes, n) = <<>> <=> n = 0
      /\ n # 0 => Front(Line(bytes, n)) = Line(bytes, n - 1)
  BY LineFacts
<1>4. Place = IF n = Limit THEN n - 1 ELSE n
  BY <1>2 DEF Place
<1>5. Limit # 0
  BY LimitFacts
<1>6. Line(cmd_line, Place) = room
  BY <1>1, <1>2, <1>3, <1>4, <1>5 DEF text, room
<1>7. Line(bytes, Place) = <<>> <=> Place = 0
  BY PlaceFacts, LineFacts DEF Inv
<1> QED
  BY <1>1, <1>2, <1>3, <1>6, <1>7 DEF text

LEMMA PutsInserts ==
  ASSUME Inv, NEW s \in Symbols, Puts(s)
  PROVE  Inserts(s)
<1>1. PICK bytes \in [Cell -> Symbols] : bytes = cmd_line
  BY DEF Inv, TypeInv
<1>2. PICK n \in 0..Limit : n = Place /\ n # Limit
  BY PlaceFacts DEF Inv
<1>3. Line([bytes EXCEPT ![n] = s], n + 1) = Append(Line(bytes, n), s)
  BY <1>2, LineFacts
<1>4. cmd_line' = [bytes EXCEPT ![n] = s] /\ cmd_idx' = n + 1
  BY <1>1, <1>2 DEF Puts
<1>5. text' = Append(Line(cmd_line, Place), s)
  BY <1>1, <1>2, <1>3, <1>4 DEF text
<1>6. Kept /\ argc' = Counts(s)
  BY DEF Puts, Kept, Counts, entered
<1>7. s = NUL => room # <<>>
  BY TextFacts DEF Puts
<1> QED
  BY <1>5, <1>6, <1>7, TextFacts DEF Inserts

LEMMA PublishStutters ==
  ASSUME Inv, NEW s \in Injected \cup {<<ch>> : ch \in Char}, Publish(Stream(s)),
         UNCHANGED <<input, cmd_line, behind, cmd_idx, argc>>
  PROVE  Stutters
<1>1. PICK m \in Message : m = Stream(s) /\ Named(m)
  BY MessageFacts
<1>2. Publish(m) /\ m.topic = "INPUT_STREAM"
  BY <1>1 DEF Stream
<1>3. CommandsOf(queue') = CommandsOf(queue)
  BY <1>1, <1>2, PublishFacts
<1> QED
  BY <1>3 DEF Stutters, Kept, text, entered

LEMMA ReceiveCommandExecutes ==
  ASSUME Inv, ReceiveCommand
  PROVE  Executes
<1>1. queue # <<>> /\ queue' = Tail(queue) /\ Head(queue).topic = "EXECUTE_CMD"
  BY DEF ReceiveCommand
<1>2. CommandsOf(queue) # <<>> /\ CommandsOf(queue') = Tail(CommandsOf(queue))
  BY <1>1, TakeFacts
<1>3. PICK c \in Seq(Message) : c = CommandsOf(queue)
  BY CommandsFacts DEF Inv, TypeInv
<1>4. Entries(c) # <<>> /\ Entries(Tail(c)) = Tail(Entries(c))
  BY <1>2, <1>3, EntriesTake
<1>5. entered # <<>> /\ entered' = Tail(entered)
  BY <1>2, <1>3, <1>4 DEF entered
<1>6. text' = text /\ argc' = argc /\ behind' = behind
  BY DEF ReceiveCommand, text
<1> QED
  BY <1>5, <1>6 DEF Executes

LEMMA EnterEnters ==
  ASSUME Inv, HandleEnter
  PROVE  Enters
<1>1. cmd_idx # 0 /\ cmd_idx' = 0 /\ argc' = 0
  BY DEF HandleEnter
<1>2. PICK end \in End : Publish(Command(argc, Bytes(cmd_idx), end))
  BY DEF HandleEnter
<1>3. PICK m \in Message : /\ m = Command(argc, Bytes(cmd_idx), end) /\ Named(m) /\ Publish(m)
                           /\ m.topic = "EXECUTE_CMD" /\ Entry(m) = [argc |-> argc, text |-> text]
  BY <1>1, <1>2, EnterFacts DEF text
<1>4. CommandsOf(queue') = CommandsOf(queue) \/ CommandsOf(queue') = Append(CommandsOf(queue), m)
  BY <1>3, PublishFacts
<1>5. PICK c \in Seq(Message) : c = CommandsOf(queue)
  BY CommandsFacts DEF Inv, TypeInv
<1>6. Entries(Append(c, m)) = Append(Entries(c), Entry(m))
  BY <1>5, EntriesPut
<1>7. entered' \in {entered, Append(entered, [argc |-> argc, text |-> text])}
  BY <1>3, <1>4, <1>5, <1>6 DEF entered
<1>8. text # <<>>
  BY <1>1, TextFacts
<1>9. text' = <<>>
  BY <1>1 DEF text, Line
<1>10. behind' = IF Len(text) = Limit THEN NUL ELSE behind
  <2>1. cmd_idx \in Cell <=> cmd_idx # Limit
    BY LimitFacts DEF Inv, TypeInv
  <2>2. behind' = IF cmd_idx \in Cell THEN behind ELSE NUL
    BY DEF HandleEnter, StoreEnd
  <2> QED
    BY <2>1, <2>2, TextFacts
<1> QED
  BY <1>1, <1>7, <1>8, <1>9, <1>10 DEF Enters

LEMMA EveryStep ==
  ASSUME Inv, [Next]_vars
  PROVE  (\E s \in Symbols : Inserts(s)) \/ Erases \/ Enters \/ Executes \/ Stutters
<1>1. ASSUME NEW ch \in Char, ConsoleTaskPublishes(ch) PROVE Stutters
  BY <1>1, PublishStutters DEF ConsoleTaskPublishes
<1>2. ASSUME NEW s \in Injected, PrintInfoPublishes(s) PROVE Stutters
  BY <1>2, PublishStutters DEF PrintInfoPublishes
<1>3. ASSUME ReceiveStream PROVE Stutters
  <2>1. /\ queue # <<>> /\ queue' = Tail(queue) /\ Head(queue).topic = "INPUT_STREAM"
        /\ cmd_idx' = cmd_idx /\ cmd_line' = cmd_line /\ argc' = argc /\ behind' = behind
    BY <1>3 DEF ReceiveStream
  <2>2. CommandsOf(queue') = CommandsOf(queue)
    BY <2>1, TakeFacts
  <2> QED
    BY <2>1, <2>2 DEF Stutters, Kept, text, entered
<1>4. ASSUME HandleBackspace PROVE Erases
  <2>1. /\ cmd_idx # 0 /\ cmd_idx' = cmd_idx - 1 /\ queue' = queue /\ cmd_line' = cmd_line
        /\ argc' = argc /\ behind' = behind
    BY <1>4 DEF HandleBackspace
  <2>2. text # <<>> /\ Front(text) = Line(cmd_line, cmd_idx - 1)
    BY <2>1, TextFacts
  <2>3. text' = Line(cmd_line, cmd_idx - 1) /\ Kept
    BY <2>1 DEF text, entered, Kept
  <2> QED
    BY <2>1, <2>2, <2>3 DEF Erases
<1>5. ASSUME HandleSkipped PROVE Erases \/ Stutters
  <2>1. /\ cmd_idx' = Place /\ queue' = queue /\ cmd_line' = cmd_line
        /\ argc' = argc /\ behind' = behind
    BY <1>5 DEF HandleSkipped
  <2>2. text' = IF Len(text) = Limit THEN Front(text) ELSE text
    <3>1. text' = Line(cmd_line, Place)
      BY <2>1 DEF text
    <3> QED
      BY <3>1, TextFacts DEF room
  <2>3. Kept
    BY <2>1 DEF entered, Kept
  <2>4. Len(text) = Limit => text # <<>>
    BY TextFacts, LimitFacts
  <2> QED
    BY <2>1, <2>2, <2>3, <2>4 DEF Erases, Stutters
<1>6. ASSUME UNCHANGED vars PROVE Stutters
  BY <1>6 DEF vars, Stutters, Kept, text, entered
<1>7. TypeInv
  BY DEF Inv
<1> QED
  BY <1>1, <1>2, <1>3, <1>4, <1>5, <1>6, <1>7, SpacePuts, LetterPuts, PutsInserts,
     EnterEnters, ReceiveCommandExecutes DEF Next, Handle

\* cmd_line, with what it holds of older lines, argc, and the messages of two kinds
\* in the queue behave as the line that LineEditor edits, the number of its
\* delimiters and the lines it has entered: what is published is the line as it
\* was typed, and lines are executed whole, once and in their order, whatever
\* print_info publishes in between.  The console breaks what its comments promise
\* in the slips of LineEditor, and in no other step.
THEOREM ConsoleEditsLines == Spec => EditsLines
<1> DEFINE lines == [i \in 1..Len(Commands) |-> [argc |-> Commands[i].argc, text |-> Commands[i].text]]
           seen  == <<Bytes(cmd_idx), argc, lines, behind # FOREIGN>>
<1>1. Init => Editor!Init
  <2> SUFFICES ASSUME Init PROVE Editor!Init
    OBVIOUS
  <2>0. Inv
    BY InitInv
  <2>1. text = <<>> /\ argc = 0 /\ (behind # FOREIGN) = FALSE
    BY DEF Init, text, Line
  <2>2. entered = <<>>
    <3>1. Places(<<>>) = {}
      BY DEF Places
    <3>2. Len(CommandsOf(<<>>)) = 0
      BY <3>1, FS_EmptySet DEF CommandsOf
    <3> QED
      BY <3>2 DEF Init, entered, Entries
  <2> QED
    BY <2>0, <2>1, <2>2, Mapping DEF Editor!Init
<1>2. Inv /\ Inv' /\ [Next]_vars => [Editor!Next \/ Editor!Slip]_seen
  <2> SUFFICES ASSUME Inv, Inv', [Next]_vars
               PROVE  [Editor!Next \/ Editor!Slip]_seen
    OBVIOUS
  <2>0. /\ Bytes(cmd_idx) = text /\ lines = entered
        /\ (Bytes(cmd_idx))' = text' /\ lines' = entered'
    BY Mapping, MappingNext
  <2> HIDE DEF lines
  <2>1. ASSUME Kept PROVE UNCHANGED <<lines, behind # FOREIGN>>
    BY <2>0, <2>1 DEF Kept
  <2>2. ASSUME NEW s \in Symbols, Inserts(s)
        PROVE  Editor!Insert(s) \/ Editor!SlipInsert(s)
    <3>1. /\ s = NUL => room # <<>>
          /\ text' = Append(room, s)
          /\ argc' = Counts(s)
          /\ UNCHANGED <<lines, behind # FOREIGN>>
      BY <2>1, <2>2 DEF Inserts
    <3>2. CASE \/ s = NUL /\ Last(room) = NUL
               \/ Len(text) = Limit /\ text # <<>> /\ Last(text) = NUL
      BY <2>0, <3>1, <3>2
      DEF Editor!SlipInsert, Editor!EndsInSpace, Editor!Room, Editor!More, room, Counts, lines,
          Front, Last, Editor!Front, Editor!Last
    <3>3. CASE ~(s = NUL /\ Last(room) = NUL) /\ ~(Len(text) = Limit /\ text # <<>> /\ Last(text) = NUL)
      <4>1. Editor!Room = room
        BY <2>0 DEF Editor!Room, room, Front, Editor!Front
      <4>2. ~(s = NUL /\ Editor!EndsInSpace(room))
        BY <3>3 DEF Editor!EndsInSpace, Last, Editor!Last
      <4>3. (IF room = text THEN argc ELSE Editor!Fewer(argc, text)) = argc
        <5>1. CASE Len(text) = Limit
          BY <3>3, <5>1 DEF Editor!Fewer, Editor!EndsInSpace, Last, Editor!Last
        <5>2. CASE Len(text) # Limit
          BY <5>2 DEF room
        <5> QED
          BY <5>1, <5>2
      <4>4. argc' = Editor!More(argc, s)
        BY <3>1 DEF Counts, Editor!More
      <4> QED
        <5>1. text' = Append(room, s) /\ UNCHANGED <<lines, behind # FOREIGN>>
          BY <3>1
        <5>2. s = NUL => room # <<>> /\ ~Editor!EndsInSpace(room)
          BY <3>1, <4>2
        <5>3. argc' = Editor!More(IF room = text THEN argc ELSE Editor!Fewer(argc, text), s)
          BY <4>3, <4>4
        <5> QED
          BY <2>0, <4>1, <5>1, <5>2, <5>3 DEF Editor!Insert, lines
    <3> QED
      BY <3>2, <3>3
  <2>3. ASSUME Erases PROVE Editor!Erase \/ Editor!SlipErase
    <3>1. text # <<>> /\ text' = Front(text) /\ argc' = argc /\ UNCHANGED <<lines, behind # FOREIGN>>
      BY <2>1, <2>3 DEF Erases
    <3> QED
      BY <2>0, <3>1
      DEF Editor!Erase, Editor!SlipErase, Editor!EndsInSpace, Editor!Fewer, lines,
          Front, Last, Editor!Front, Editor!Last
  <2>4. ASSUME Enters PROVE Editor!Enter \/ Editor!SlipEnter
    <3>1. Editor!EnterLine
      BY <2>0, <2>4 DEF Enters, Editor!EnterLine, lines
    <3>2. CASE Len(text) = Limit
      <4>1. (behind # FOREIGN)' = TRUE
        BY <2>4, <3>2, ConsoleAssumption DEF Enters
      <4> QED
        BY <2>0, <3>1, <3>2, <4>1 DEF Editor!SlipEnter
    <3>3. CASE Len(text) # Limit
      BY <2>4, <3>1, <3>3 DEF Enters, Editor!Enter
    <3> QED
      BY <3>2, <3>3
  <2>5. Executes => Editor!Execute
    BY <2>0 DEF Executes, Editor!Execute, lines
  <2>6. Stutters => UNCHANGED seen
    BY <2>0, <2>1 DEF Stutters
  <2> QED
    BY <2>2, <2>3, <2>4, <2>5, <2>6, EveryStep DEF Editor!Next, Editor!Slip, Symbols
<1> QED
  BY <1>1, <1>2, SpecInv, PTL DEF Spec, EditsLines, Editor!SlipSpec, Editor!vars


=============================================================================
