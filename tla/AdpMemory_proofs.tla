------------------------- MODULE AdpMemory_proofs -------------------------
(***************************************************************************)
(* The heap, the trace and the tables of print_info, for every size of     *)
(* the heap, of the trace and of the requests.                             *)
(***************************************************************************)
EXTENDS AdpMemory, FiniteSetTheorems, SequenceTheorems, TLAPS

-----------------------------------------------------------------------------
(* Sums of sizes *)

\* Every set of numbers has a least one.
LEMMA Least ==
  ASSUME NEW T \in SUBSET Nat, T # {}
  PROVE  \E m \in T : \A n \in T : m <= n
<1>1. PICK t \in T : TRUE
  OBVIOUS
<1>2. PICK Below : Below = {k \in 0..t : \A n \in T : k <= n}
  OBVIOUS
<1>3. IsFiniteSet(0..t) /\ Below \in SUBSET (0..t) /\ 0 \in Below
  BY <1>1, <1>2, FS_Interval
<1>4. PICK c : c = Cardinality(Below)
  OBVIOUS
<1>5. IsFiniteSet(Below) /\ c \in Nat
  BY <1>3, <1>4, FS_Subset, FS_CardinalityType
<1>6. ASSUME NEW k \in Below PROVE k \in Nat /\ k + 1 <= c
  <2>1. k \in Nat /\ 0..k \in SUBSET Below
    BY <1>1, <1>2
  <2>2. Cardinality(0..k) = k + 1
    BY <2>1, FS_Interval
  <2>3. Cardinality(0..k) <= c
    BY <2>1, <1>4, <1>5, FS_Subset
  <2> QED
    BY <2>1, <2>2, <2>3
<1>7. PICK d \in Nat : c = d + 1
  <2>1. c >= 1
    BY <1>3, <1>5, <1>6
  <2>2. c - 1 \in Nat /\ c = (c - 1) + 1
    BY <2>1, <1>5
  <2> QED
    BY <2>2
<1>8. d \in Below
  <2> SUFFICES ASSUME d \notin Below PROVE FALSE
    OBVIOUS
  <2>1. Below \in SUBSET (0..(d - 1))
    BY <1>6, <1>7
  <2>2. IsFiniteSet(0..(d - 1)) /\ Cardinality(0..(d - 1)) = d
    BY <1>7, FS_Interval
  <2>3. c <= d
    BY <2>1, <2>2, <1>4, FS_Subset
  <2> QED
    BY <2>3, <1>7
<1>9. d \in T
  <2> SUFFICES ASSUME d \notin T PROVE FALSE
    OBVIOUS
  <2>1. \A n \in T : d + 1 <= n
    BY <1>2, <1>7, <1>8
  <2>2. d + 1 \in Below
    BY <2>1, <1>1, <1>2, <1>7
  <2> QED
    BY <2>2, <1>6, <1>7
<1> QED
  BY <1>2, <1>8, <1>9

\* f counts up the sizes of the subsets of S.
Sized(S) == \A e \in S : e.size \in Nat
Adds(f, S) ==
  /\ f \in [SUBSET S -> Nat] /\ f[{}] = 0
  /\ \A s \in SUBSET S : \A x \in s : f[s] = x.size + f[s \ {x}]

LEMMA AdderExists ==
  ASSUME NEW S, IsFiniteSet(S), Sized(S)
  PROVE  \E f : Adds(f, S)
<1> SUFFICES ASSUME ~ \E f : Adds(f, S) PROVE FALSE
  OBVIOUS
<1>1. PICK Bad : Bad = {n \in Nat : \E T \in SUBSET S : Cardinality(T) = n /\ ~ \E f : Adds(f, T)}
  OBVIOUS
<1>2. Cardinality(S) \in Bad
  BY <1>1, FS_CardinalityType
<1>3. PICK n \in Bad : \A k \in Bad : n <= k
  BY <1>1, <1>2, Least
<1>4. PICK T \in SUBSET S : Cardinality(T) = n /\ ~ \E f : Adds(f, T)
  BY <1>1, <1>3
<1>5. IsFiniteSet(T) /\ Sized(T)
  BY FS_Subset DEF Sized
<1>6. T # {}
  <2> SUFFICES ASSUME T = {} PROVE \E f : Adds(f, T)
    BY <1>4
  <2>1. PICK f : f = [s \in SUBSET T |-> 0]
    OBVIOUS
  <2>2. f \in [SUBSET T -> Nat] /\ f[{}] = 0
    BY <2>1
  <2>3. \A s \in SUBSET T : \A x \in s : FALSE
    OBVIOUS
  <2> QED
    BY <2>2, <2>3 DEF Adds
<1>7. PICK y : y \in T
  BY <1>6
<1>8. PICK R : R = T \ {y}
  OBVIOUS
<1>9. R \in SUBSET S /\ Cardinality(R) = n - 1 /\ Cardinality(R) \in Nat
  BY <1>4, <1>5, <1>7, <1>8, FS_RemoveElement, FS_CardinalityType
<1>10. PICK g : Adds(g, R)
  <2>1. Cardinality(R) \notin Bad
    BY <1>1, <1>3, <1>9
  <2> QED
    BY <2>1, <1>1, <1>9
<1>11. PICK f : f = [s \in SUBSET T |-> IF y \in s THEN y.size + g[s \ {y}] ELSE g[s]]
  OBVIOUS
<1>12. y.size \in Nat
  BY <1>5, <1>7 DEF Sized
<1>13. \A s \in SUBSET T : s \ {y} \in SUBSET R /\ (y \notin s => s \in SUBSET R)
  BY <1>8
<1>14. f \in [SUBSET T -> Nat] /\ f[{}] = 0
  <2>1. \A s \in SUBSET R : g[s] \in Nat
    BY <1>10 DEF Adds
  <2>2. \A s \in SUBSET T : f[s] \in Nat
    BY <2>1, <1>11, <1>12, <1>13
  <2> QED
    BY <2>2, <1>10, <1>11 DEF Adds
<1>15. ASSUME NEW s \in SUBSET T, NEW x \in s PROVE f[s] = x.size + f[s \ {x}]
  <2>1. CASE x = y
    BY <2>1, <1>11
  <2>2. CASE x # y /\ y \notin s
    <3>1. s \in SUBSET R /\ s \ {x} \in SUBSET T /\ y \notin s \ {x}
      BY <2>2, <1>13
    <3>2. g[s] = x.size + g[s \ {x}]
      BY <3>1, <1>10 DEF Adds
    <3> QED
      BY <3>1, <3>2, <2>2, <1>11
  <2>3. CASE x # y /\ y \in s
    <3>1. PICK r : r = s \ {y}
      OBVIOUS
    <3>2. r \in SUBSET R /\ x \in r /\ r \ {x} \in SUBSET R /\ (s \ {x}) \ {y} = r \ {x}
      BY <3>1, <2>3, <1>13
    <3>3. g[r] = x.size + g[r \ {x}] /\ g[r \ {x}] \in Nat
      BY <3>2, <1>10 DEF Adds
    <3>4. f[s] = y.size + g[r]
      BY <3>1, <2>3, <1>11
    <3>5. f[s \ {x}] = y.size + g[r \ {x}]
      BY <3>2, <2>3, <1>11
    <3>6. x.size \in Nat
      BY <1>5 DEF Sized
    <3> QED
      BY <3>3, <3>4, <3>5, <3>6, <1>12
  <2> QED
    BY <2>1, <2>2, <2>3
<1>16. Adds(f, T)
  BY <1>14, <1>15 DEF Adds
<1> QED
  BY <1>4, <1>16

\* The recursive function that MapThenSumSet is defined by.
IsSum(iter, S) ==
  iter = [s \in SUBSET S |->
    IF s = {} THEN 0 ELSE (CHOOSE x \in s : TRUE).size + iter[s \ {CHOOSE x \in s : TRUE}]]

LEMMA SumIsChosen == \A S : Sum(S) = (CHOOSE iter : IsSum(iter, S))[S]
BY DEF Sum, MapThenSumSet, MapThenFoldSet, IsSum

LEMMA SumUnique ==
  ASSUME NEW S, IsFiniteSet(S), NEW f, Adds(f, S), NEW g, IsSum(g, S)
  PROVE  \A s \in SUBSET S : g[s] = f[s]
<1> SUFFICES ASSUME NEW b \in SUBSET S, g[b] # f[b] PROVE FALSE
  OBVIOUS
<1>1. PICK Bad : Bad = {n \in Nat : \E s \in SUBSET S : Cardinality(s) = n /\ g[s] # f[s]}
  OBVIOUS
<1>2. Cardinality(b) \in Bad
  BY <1>1, FS_Subset, FS_CardinalityType
<1>3. PICK n \in Bad : \A k \in Bad : n <= k
  BY <1>1, <1>2, Least
<1>4. PICK s \in SUBSET S : Cardinality(s) = n /\ g[s] # f[s]
  BY <1>1, <1>3
<1>5. s # {}
  BY <1>4 DEF Adds, IsSum
<1>6. PICK x \in s : x = CHOOSE y \in s : TRUE
  BY <1>5
<1>7. s \ {x} \in SUBSET S /\ IsFiniteSet(s)
  BY FS_Subset
<1>8. Cardinality(s \ {x}) \in Nat /\ Cardinality(s \ {x}) = n - 1
  BY <1>4, <1>6, <1>7, FS_RemoveElement, FS_CardinalityType
<1>9. n \in Nat
  BY <1>1, <1>3
<1>10. g[s \ {x}] = f[s \ {x}]
  <2>1. Cardinality(s \ {x}) \notin Bad
    BY <1>3, <1>8, <1>9
  <2> QED
    BY <2>1, <1>1, <1>7, <1>8
<1>11. g[s] = x.size + g[s \ {x}]
  BY <1>5, <1>6 DEF IsSum
<1>12. f[s] = x.size + f[s \ {x}]
  BY <1>6 DEF Adds
<1> QED
  BY <1>4, <1>10, <1>11, <1>12

LEMMA SumByAdder ==
  ASSUME NEW S, IsFiniteSet(S), NEW f, Adds(f, S)
  PROVE  Sum(S) = f[S]
<1>1. f = [s \in SUBSET S |->
            IF s = {} THEN 0 ELSE (CHOOSE x \in s : TRUE).size + f[s \ {CHOOSE x \in s : TRUE}]]
  <2>1. \A s \in SUBSET S :
          f[s] = IF s = {} THEN 0 ELSE (CHOOSE x \in s : TRUE).size + f[s \ {CHOOSE x \in s : TRUE}]
    <3> SUFFICES ASSUME NEW s \in SUBSET S, s # {}
                 PROVE  f[s] = (CHOOSE x \in s : TRUE).size + f[s \ {CHOOSE x \in s : TRUE}]
      BY DEF Adds
    <3>1. PICK x \in s : x = CHOOSE y \in s : TRUE
      OBVIOUS
    <3> QED
      BY <3>1 DEF Adds
  <2> QED
    BY <2>1 DEF Adds
<1>2. PICK g : g = CHOOSE iter : IsSum(iter, S)
  OBVIOUS
<1>3. IsSum(f, S)
  BY <1>1 DEF IsSum
<1>4. IsSum(g, S)
  BY <1>2, <1>3
<1>5. g[S] = f[S]
  BY <1>4, SumUnique
<1> QED
  BY <1>2, <1>5, SumIsChosen

\* What is known of Sum in what follows.
LEMMA SumFacts ==
  ASSUME NEW S, IsFiniteSet(S), Sized(S)
  PROVE  /\ Sum(S) \in Nat
         /\ S = {} => Sum(S) = 0
         /\ \A x \in S : Sum(S) = x.size + Sum(S \ {x})
<1>1. PICK f : Adds(f, S)
  BY AdderExists
<1>2. Sum(S) = f[S]
  BY <1>1, SumByAdder
<1>3. ASSUME NEW x \in S PROVE Sum(S) = x.size + Sum(S \ {x})
  <2>1. PICK R : R = S \ {x}
    OBVIOUS
  <2>2. IsFiniteSet(R) /\ R \in SUBSET S
    BY <2>1, FS_Subset
  <2>3. PICK g : g = [s \in SUBSET R |-> f[s]]
    OBVIOUS
  <2>4. \A s \in SUBSET R : g[s] = f[s] /\ s \in SUBSET S /\ \A y \in s : s \ {y} \in SUBSET R
    BY <2>2, <2>3
  <2>5. g \in [SUBSET R -> Nat]
    <3>1. \A s \in SUBSET R : f[s] \in Nat
      BY <2>4, <1>1 DEF Adds
    <3> QED
      BY <2>3, <3>1
  <2>6. Adds(g, R)
    BY <2>4, <2>5, <1>1 DEF Adds
  <2>7. Sum(R) = g[R] /\ g[R] = f[R]
    BY <2>2, <2>4, <2>6, SumByAdder
  <2> QED
    BY <2>1, <2>7, <1>1, <1>2 DEF Adds
<1> QED
  BY <1>1, <1>2, <1>3 DEF Adds

LEMMA SumAdded ==
  ASSUME NEW S, IsFiniteSet(S), Sized(S), NEW x, x \notin S, x.size \in Nat
  PROVE  Sum(S \cup {x}) = Sum(S) + x.size /\ Sum(S) \in Nat
<1>1. PICK T : T = S \cup {x}
  OBVIOUS
<1>2. IsFiniteSet(T) /\ Sized(T) /\ T \ {x} = S
  BY <1>1, FS_AddElement DEF Sized
<1>3. Sum(T) = x.size + Sum(S)
  BY <1>1, <1>2, SumFacts
<1>4. Sum(S) \in Nat
  BY SumFacts
<1> QED
  BY <1>1, <1>3, <1>4

-----------------------------------------------------------------------------
(* Blocks and lists of blocks *)

LEMMA SizesNat == HeapSize \in Nat /\ HeaderSize \in Nat /\ HeaderSize > 0 /\ NULL \notin Nat
BY HeapAssumption

LEMMA BlockFacts ==
  ASSUME NEW b \in Block
  PROVE  /\ b = [addr |-> b.addr, size |-> b.size]
         /\ b.addr \in Nat /\ b.addr \in Unit /\ b.addr < HeapSize
         /\ b.size \in Nat /\ b.size >= 1 /\ b.size <= HeapSize
         /\ End(b) \in Nat /\ End(b) = b.addr + b.size /\ b.addr < End(b)
BY SizesNat DEF Block, Unit, End

LEMMA BlockMade ==
  ASSUME NEW a \in Nat, NEW n \in Nat, n >= 1, a + n <= HeapSize
  PROVE  /\ [addr |-> a, size |-> n] \in Block
         /\ End([addr |-> a, size |-> n]) = a + n
BY SizesNat DEF Block, Unit, End

LEMMA UnitsFacts ==
  ASSUME NEW b \in Block
  PROVE  \A u : u \in Units(b) <=> u \in Nat /\ b.addr <= u /\ u < End(b)
BY BlockFacts DEF Units

\* Blocks that share no unit lie one behind the other.
LEMMA Disjoint ==
  ASSUME NEW b \in Block, NEW c \in Block
  PROVE  Units(b) \cap Units(c) = {} <=> End(b) <= c.addr \/ End(c) <= b.addr
<1>1. /\ b.addr \in Nat /\ End(b) \in Nat /\ b.addr < End(b)
      /\ c.addr \in Nat /\ End(c) \in Nat /\ c.addr < End(c)
  BY BlockFacts
<1>2. ASSUME ~(End(b) <= c.addr \/ End(c) <= b.addr) PROVE Units(b) \cap Units(c) # {}
  <2>1. CASE b.addr <= c.addr
    <3>1. c.addr \in Units(b) /\ c.addr \in Units(c)
      BY <1>1, <1>2, <2>1, UnitsFacts
    <3> QED
      BY <3>1
  <2>2. CASE ~(b.addr <= c.addr)
    <3>1. b.addr \in Units(b) /\ b.addr \in Units(c)
      BY <1>1, <1>2, <2>2, UnitsFacts
    <3> QED
      BY <3>1
  <2> QED
    BY <2>1, <2>2
<1>3. ASSUME End(b) <= c.addr \/ End(c) <= b.addr, NEW u \in Units(b) \cap Units(c) PROVE FALSE
  BY <1>1, <1>3, UnitsFacts
<1> QED
  BY <1>2, <1>3

\* The blocks of a list, and the units of a set of blocks.
Blocks(list) == {list[i] : i \in 1..Len(list)}
Covered(blocks) == UNION {Units(b) : b \in blocks}

\* The list is in the order of the addresses, no two blocks of it touch, and it
\* stays within the heap.
Apart(list) ==
  /\ list \in Seq(Block)
  /\ \A i \in 1..Len(list) : End(list[i]) <= HeapSize
  /\ \A i, j \in 1..Len(list) : i < j => End(list[i]) < list[j].addr

LEMMA ApartFacts ==
  ASSUME NEW list, Apart(list)
  PROVE  /\ Len(list) \in Nat /\ \A i \in 1..Len(list) : list[i] \in Block
         /\ Blocks(list) \in SUBSET Block /\ IsFiniteSet(Blocks(list)) /\ Sized(Blocks(list))
         /\ \A i, j \in 1..Len(list) : list[i] = list[j] => i = j
<1>1. Len(list) \in Nat /\ \A i \in 1..Len(list) : list[i] \in Block
  BY DEF Apart
<1>2. Blocks(list) \in SUBSET Block
  BY <1>1 DEF Blocks
<1>3. Sized(Blocks(list))
  BY <1>2, BlockFacts DEF Sized
<1>4. IsFiniteSet(Blocks(list))
  <2>1. IsFiniteSet(1..Len(list))
    BY <1>1, FS_Interval
  <2>2. PICK f : f = [i \in 1..Len(list) |-> list[i]]
    OBVIOUS
  <2>3. f \in Surjection(1..Len(list), Blocks(list))
    BY <2>2 DEF Surjection, Blocks
  <2> QED
    BY <2>1, <2>3, FS_Surjection
<1>5. ASSUME NEW i \in 1..Len(list), NEW j \in 1..Len(list), list[i] = list[j], i # j PROVE FALSE
  <2>1. /\ list[i].addr \in Nat /\ End(list[i]) \in Nat /\ list[i].addr < End(list[i])
        /\ list[j].addr \in Nat /\ End(list[j]) \in Nat /\ list[j].addr < End(list[j])
    BY <1>1, BlockFacts
  <2>2. CASE i < j
    BY <2>1, <2>2, <1>5 DEF Apart
  <2>3. CASE j < i
    BY <2>1, <2>3, <1>5 DEF Apart
  <2> QED
    BY <2>2, <2>3, <1>1, <1>5
<1> QED
  BY <1>1, <1>2, <1>3, <1>4, <1>5

\* The first block that is not before an address.
Place(list, a) == SelectInSeq(list, LAMBDA c : c.addr >= a)
LEMMA PlaceFound ==
  ASSUME NEW list \in Seq(Block), NEW a \in Nat
  PROVE  LET k == Place(list, a) IN
           \/ k = 0 /\ \A i \in 1..Len(list) : list[i].addr < a
           \/ /\ k \in 1..Len(list) /\ list[k].addr >= a
              /\ \A i \in 1..(k - 1) : list[i].addr < a
<1>1. Len(list) \in Nat /\ \A i \in 1..Len(list) : list[i].addr \in Nat
  BY BlockFacts
<1>2. PICK I : I = {i \in 1..Len(list) : list[i].addr >= a}
  OBVIOUS
<1>3. Place(list, a) = IF I # {} THEN Min(I) ELSE 0
  BY <1>2 DEF Place, SelectInSeq
<1>4. CASE I = {}
  BY <1>1, <1>2, <1>3, <1>4
<1>5. CASE I # {}
  <2>1. I \in SUBSET Nat
    BY <1>1, <1>2
  <2>2. \E m \in I : \A n \in I : m <= n
    BY <2>1, <1>5, Least
  <2>3. Min(I) \in I /\ \A n \in I : Min(I) <= n
    BY <2>2 DEF Min
  <2>4. PICK k \in I : k = Min(I)
    BY <2>3
  <2>5. k \in 1..Len(list) /\ list[k].addr >= a
    BY <1>2
  <2>6. \A i \in 1..(k - 1) : list[i].addr < a
    BY <1>1, <1>2, <2>3, <2>4, <2>5
  <2> QED
    BY <1>3, <1>5, <2>4, <2>5, <2>6
<1> QED
  BY <1>4, <1>5

\* pvPortMalloc finds a block with room if there is one.
LEMMA FitFound ==
  ASSUME freeList \in Seq(Block), NEW n \in Nat
  PROVE  \/ FirstFit(n) = 0 /\ \A i \in 1..Len(freeList) : freeList[i].size < n
         \/ FirstFit(n) \in 1..Len(freeList) /\ freeList[FirstFit(n)].size >= n
<1>1. Len(freeList) \in Nat /\ \A i \in 1..Len(freeList) : freeList[i].size \in Nat
  BY BlockFacts
<1>2. PICK I : I = {i \in 1..Len(freeList) : freeList[i].size >= n}
  OBVIOUS
<1>3. FirstFit(n) = IF I # {} THEN Min(I) ELSE 0
  BY <1>2 DEF FirstFit, SelectInSeq
<1>4. CASE I = {}
  BY <1>1, <1>2, <1>3, <1>4
<1>5. CASE I # {}
  <2>1. I \in SUBSET Nat
    BY <1>1, <1>2
  <2>2. \E m \in I : \A k \in I : m <= k
    BY <2>1, <1>5, Least
  <2>3. Min(I) \in I
    BY <2>2 DEF Min
  <2> QED
    BY <1>2, <1>3, <1>5, <2>3
<1> QED
  BY <1>4, <1>5

\* m in the place of what is in list between p and q.
Splice(list, p, q, m) == SubSeq(list, 1, p) \o (<<m>> \o SubSeq(list, q, Len(list)))

LEMMA SpliceFacts ==
  ASSUME NEW list \in Seq(Block), NEW m \in Block,
         NEW p \in 0..Len(list), NEW q \in (p + 1)..(Len(list) + 1)
  PROVE  LET new == Splice(list, p, q, m) IN
           /\ new \in Seq(Block) /\ Len(new) = p + 1 + (Len(list) + 1 - q)
           /\ \A i \in 1..p : new[i] = list[i]
           /\ new[p + 1] = m
           /\ \A i \in (p + 2)..Len(new) : new[i] = list[i - p - 2 + q]
<1> DEFINE front == SubSeq(list, 1, p)
           back  == SubSeq(list, q, Len(list))
<1>1. Len(list) \in Nat /\ p \in Nat /\ q \in Nat /\ q >= p + 1 /\ q <= Len(list) + 1 /\ p <= Len(list)
  BY LenProperties
<1>2. \A j \in 1..Len(list) : list[j] \in Block
  OBVIOUS
<1>3. front \in Seq(Block) /\ Len(front) = p /\ \A j \in 1..p : front[j] = list[j]
  <2>1. \A j \in 1..p : list[j] \in Block
    BY <1>1, <1>2
  <2> QED
    BY <1>1, <2>1, SubSeqProperties
<1>4. back \in Seq(Block) /\ Len(back) = Len(list) + 1 - q
      /\ \A j \in 1..(Len(list) + 1 - q) : back[j] = list[q + j - 1]
  <2>1. \A j \in q..Len(list) : list[j] \in Block
    BY <1>1, <1>2
  <2> QED
    BY <1>1, <2>1, SubSeqProperties
<1>5. <<m>> \in Seq(Block) /\ Len(<<m>>) = 1 /\ <<m>>[1] = m
  OBVIOUS
<1>6. PICK r \in Nat : r = Len(list) + 1 - q
  BY <1>1
<1> HIDE DEF front, back
<1>7. PICK rest : rest = <<m>> \o back
  OBVIOUS
<1>8. /\ rest \in Seq(Block) /\ Len(rest) = 1 + r
      /\ \A i \in 1..(1 + r) : rest[i] = IF i <= 1 THEN <<m>>[i] ELSE back[i - 1]
  <2>1. /\ rest \in Seq(Block) /\ Len(rest) = Len(<<m>>) + Len(back)
        /\ \A i \in 1..Len(<<m>>) + Len(back) :
             rest[i] = IF i <= Len(<<m>>) THEN <<m>>[i] ELSE back[i - Len(<<m>>)]
    BY <1>4, <1>5, <1>7, ConcatProperties
  <2>2. Len(<<m>>) = 1 /\ Len(back) = r
    BY <1>4, <1>5, <1>6
  <2> QED
    BY <2>1, <2>2
<1>9. PICK new : new = front \o rest
  OBVIOUS
<1>10. /\ new \in Seq(Block) /\ Len(new) = p + (1 + r)
       /\ \A i \in 1..(p + (1 + r)) : new[i] = IF i <= p THEN front[i] ELSE rest[i - p]
  <2>1. /\ new \in Seq(Block) /\ Len(new) = Len(front) + Len(rest)
        /\ \A i \in 1..Len(front) + Len(rest) :
             new[i] = IF i <= Len(front) THEN front[i] ELSE rest[i - Len(front)]
    BY <1>3, <1>8, <1>9, ConcatProperties
  <2>2. Len(front) = p /\ Len(rest) = 1 + r
    BY <1>3, <1>8
  <2> QED
    BY <2>1, <2>2
<1>11. Splice(list, p, q, m) = new
  BY <1>7, <1>9 DEF Splice, front, back
<1>12. Len(new) = p + 1 + (Len(list) + 1 - q)
  BY <1>1, <1>6, <1>10
<1>13. \A i \in 1..p : new[i] = list[i]
  BY <1>1, <1>3, <1>6, <1>10
<1>14. new[p + 1] = m
  <2>1. new[p + 1] = rest[1]
    BY <1>1, <1>6, <1>10
  <2> QED
    BY <2>1, <1>5, <1>6, <1>8
<1>15. ASSUME NEW i \in (p + 2)..Len(new) PROVE new[i] = list[i - p - 2 + q]
  <2>1. new[i] = rest[i - p] /\ i - p \in 2..(1 + r)
    BY <1>1, <1>6, <1>10
  <2>2. PICK j \in 1..r : i - p = j + 1
    BY <2>1, <1>6
  <2>3. rest[j + 1] = back[j]
    <3>1. j \in Nat /\ j >= 1 /\ j + 1 \in 1..(1 + r) /\ ~(j + 1 <= 1) /\ (j + 1) - 1 = j
      BY <1>6
    <3> QED
      BY <3>1, <1>8
  <2>4. back[j] = list[q + j - 1]
    BY <1>4, <1>6
  <2>5. q + j - 1 = i - p - 2 + q
    <3>1. i \in Int /\ j \in Int
      BY <1>1, <1>6, <1>10
    <3> QED
      BY <3>1, <2>2, <1>1
  <2> QED
    BY <2>1, <2>2, <2>3, <2>4, <2>5
<1> QED
  BY <1>10, <1>11, <1>12, <1>13, <1>14, <1>15

\* What becomes of a list if m takes the place of the blocks between p and q.
LEMMA GlueFacts ==
  ASSUME NEW list, Apart(list), NEW m \in Block, End(m) <= HeapSize,
         NEW p \in 0..Len(list), NEW q \in (p + 1)..(Len(list) + 1),
         \A i \in 1..p : End(list[i]) < m.addr,
         \A i \in q..Len(list) : End(m) < list[i].addr
  PROVE  LET new  == Splice(list, p, q, m)
             gone == {list[i] : i \in (p + 1)..(q - 1)}
         IN /\ Apart(new)
            /\ Blocks(new) = (Blocks(list) \ gone) \cup {m}
            /\ m \notin Blocks(list) \ gone
<1>1. /\ Len(list) \in Nat /\ p \in Nat /\ q \in Nat
      /\ q >= p + 1 /\ q <= Len(list) + 1 /\ p <= Len(list)
  BY ApartFacts
<1>2. PICK new : new = Splice(list, p, q, m)
  OBVIOUS
<1>3. PICK d \in Nat : q = p + 1 + d
  <2>1. q - (p + 1) \in Nat /\ q = p + 1 + (q - (p + 1))
    BY <1>1
  <2> QED
    BY <2>1
<1>4. /\ new \in Seq(Block) /\ Len(new) = p + 1 + (Len(list) + 1 - q)
      /\ \A i \in 1..p : new[i] = list[i]
      /\ new[p + 1] = m
      /\ \A i \in (p + 2)..Len(new) : new[i] = list[i - p - 2 + q]
  BY <1>2, SpliceFacts DEF Apart
<1>5. Len(new) \in Nat /\ Len(new) + d = Len(list) + 1
  BY <1>1, <1>3, <1>4
<1>6. ASSUME NEW i \in 1..Len(new)
      PROVE  \/ i \in 1..p /\ i \in 1..Len(list) /\ new[i] = list[i]
             \/ i = p + 1 /\ new[i] = m
             \/ /\ i \in (p + 2)..Len(new)
                /\ i - 1 + d \in q..Len(list) /\ i - 1 + d \in 1..Len(list)
                /\ new[i] = list[i - 1 + d]
  <2>1. CASE i <= p
    BY <2>1, <1>1, <1>4
  <2>2. CASE i = p + 1
    BY <2>2, <1>4
  <2>3. CASE i >= p + 2
    <3>1. i \in (p + 2)..Len(new) /\ i - p - 2 + q = i - 1 + d
      BY <2>3, <1>1, <1>3, <1>5
    <3>2. i - 1 + d \in q..Len(list) /\ i - 1 + d \in 1..Len(list)
      BY <2>3, <1>1, <1>3, <1>5
    <3> QED
      BY <3>1, <3>2, <1>4
  <2> QED
    BY <2>1, <2>2, <2>3, <1>1
<1>7. Apart(new)
  <2>1. ASSUME NEW i \in 1..Len(new) PROVE End(new[i]) <= HeapSize
    BY <1>6 DEF Apart
  <2>2. ASSUME NEW i \in 1..Len(new), NEW j \in 1..Len(new), i < j
        PROVE  End(new[i]) < new[j].addr
    <3>1. CASE i <= p /\ j <= p
      <4>1. new[i] = list[i] /\ new[j] = list[j] /\ i \in 1..Len(list) /\ j \in 1..Len(list)
        BY <3>1, <1>1, <1>6
      <4> QED
        BY <4>1, <2>2 DEF Apart
    <3>2. CASE i <= p /\ j = p + 1
      BY <3>2, <1>1, <1>4
    <3>3. CASE i <= p /\ j >= p + 2
      <4>1. /\ new[i] = list[i] /\ i \in 1..Len(list)
            /\ new[j] = list[j - 1 + d] /\ j - 1 + d \in 1..Len(list) /\ i < j - 1 + d
        BY <3>3, <1>1, <1>3, <1>6
      <4> QED
        BY <4>1 DEF Apart
    <3>4. CASE i = p + 1
      <4>1. new[j] = list[j - 1 + d] /\ j - 1 + d \in q..Len(list)
        BY <3>4, <2>2, <1>1, <1>6
      <4> QED
        BY <4>1, <3>4, <1>4
    <3>5. CASE i >= p + 2
      <4>1. /\ new[i] = list[i - 1 + d] /\ i - 1 + d \in 1..Len(list)
            /\ new[j] = list[j - 1 + d] /\ j - 1 + d \in 1..Len(list) /\ i - 1 + d < j - 1 + d
        BY <3>5, <2>2, <1>1, <1>3, <1>6
      <4> QED
        BY <4>1 DEF Apart
    <3> QED
      BY <3>1, <3>2, <3>3, <3>4, <3>5, <1>1, <2>2
  <2> QED
    BY <2>1, <2>2, <1>4 DEF Apart
<1>8. PICK gone : gone = {list[i] : i \in (p + 1)..(q - 1)}
  OBVIOUS
<1>9. ASSUME NEW i \in 1..Len(list)
      PROVE  list[i] \in gone <=> i \in (p + 1)..(q - 1)
  <2>1. (p + 1)..(q - 1) \in SUBSET (1..Len(list))
    BY <1>1
  <2> QED
    BY <2>1, <1>8, ApartFacts
<1>10. Blocks(new) = (Blocks(list) \ gone) \cup {m}
  <2>1. ASSUME NEW i \in 1..Len(new) PROVE new[i] \in (Blocks(list) \ gone) \cup {m}
    <3>1. CASE i \in 1..p /\ i \in 1..Len(list) /\ new[i] = list[i]
      <4>1. ~(i \in (p + 1)..(q - 1))
        BY <3>1, <1>1
      <4> QED
        BY <4>1, <3>1, <1>9 DEF Blocks
    <3>2. CASE i = p + 1 /\ new[i] = m
      BY <3>2
    <3>3. CASE i - 1 + d \in q..Len(list) /\ i - 1 + d \in 1..Len(list) /\ new[i] = list[i - 1 + d]
      <4>1. ~(i - 1 + d \in (p + 1)..(q - 1))
        BY <3>3, <1>1
      <4> QED
        BY <4>1, <3>3, <1>9 DEF Blocks
    <3> QED
      BY <3>1, <3>2, <3>3, <1>6
  <2>2. m \in Blocks(new)
    <3>1. p + 1 \in 1..Len(new)
      BY <1>1, <1>4
    <3> QED
      BY <3>1, <1>4 DEF Blocks
  <2>3. ASSUME NEW i \in 1..Len(list), list[i] \notin gone PROVE list[i] \in Blocks(new)
    <3>1. i <= p \/ i >= q
      BY <2>3, <1>1, <1>9
    <3>2. CASE i <= p
      <4>1. i \in 1..Len(new) /\ new[i] = list[i]
        BY <3>2, <1>1, <1>4
      <4> QED
        BY <4>1 DEF Blocks
    <3>3. CASE i >= q
      <4>1. PICK j \in (p + 2)..Len(new) : i = j - 1 + d
        <5>1. i - d + 1 \in (p + 2)..Len(new) /\ i = (i - d + 1) - 1 + d
          BY <3>3, <1>1, <1>3, <1>5
        <5> QED
          BY <5>1
      <4>2. j \in 1..Len(new) /\ new[j] = list[i]
        <5>1. j \in 1..Len(new) /\ ~(j \in 1..p) /\ j # p + 1
          BY <1>1, <1>5
        <5> QED
          BY <5>1, <4>1, <1>6
      <4> QED
        BY <4>2 DEF Blocks
    <3> QED
      BY <3>1, <3>2, <3>3
  <2>4. Blocks(new) \subseteq (Blocks(list) \ gone) \cup {m}
    BY <2>1 DEF Blocks
  <2>5. Blocks(list) \ gone \subseteq Blocks(new)
    <3> SUFFICES ASSUME NEW b \in Blocks(list), b \notin gone PROVE b \in Blocks(new)
      OBVIOUS
    <3>1. PICK i \in 1..Len(list) : b = list[i]
      BY DEF Blocks
    <3> QED
      BY <3>1, <2>3
  <2> QED
    BY <2>2, <2>4, <2>5
<1>11. m \notin Blocks(list) \ gone
  <2> SUFFICES ASSUME NEW i \in 1..Len(list), m = list[i], list[i] \notin gone PROVE FALSE
    BY DEF Blocks
  <2>1. i <= p \/ i >= q
    BY <1>1, <1>9
  <2>2. i \in 1..p \/ i \in q..Len(list)
    BY <2>1, <1>1
  <2>3. m.addr < End(m) /\ m.addr \in Nat /\ End(m) \in Nat
    BY BlockFacts
  <2> QED
    BY <2>2, <2>3
<1> QED
  BY <1>2, <1>7, <1>8, <1>10, <1>11

\* new has the units of list and of b.
Grows(new, list, b) ==
  /\ Apart(new)
  /\ Covered(Blocks(new)) = Covered(Blocks(list)) \cup Units(b)
  /\ Sum(Blocks(new)) = Sum(Blocks(list)) + b.size

LEMMA GlueGrows ==
  ASSUME NEW list, Apart(list), NEW b \in Block, NEW m \in Block, End(m) <= HeapSize,
         NEW p \in 0..Len(list), NEW q \in (p + 1)..(Len(list) + 1),
         \A i \in 1..p : End(list[i]) < m.addr,
         \A i \in q..Len(list) : End(m) < list[i].addr,
         NEW gone, gone = {list[i] : i \in (p + 1)..(q - 1)},
         Units(m) = Units(b) \cup Covered(gone),
         Sum(Blocks(list)) + b.size = Sum(Blocks(list) \ gone) + m.size
  PROVE  Grows(Splice(list, p, q, m), list, b)
<1>1. PICK new : new = Splice(list, p, q, m)
  OBVIOUS
<1>2. Apart(new) /\ Blocks(new) = (Blocks(list) \ gone) \cup {m} /\ m \notin Blocks(list) \ gone
  BY <1>1, GlueFacts
<1>3. PICK kept : kept = Blocks(list) \ gone
  OBVIOUS
<1>4. IsFiniteSet(kept) /\ Sized(kept) /\ m.size \in Nat
  <2>1. IsFiniteSet(Blocks(list)) /\ Sized(Blocks(list)) /\ kept \in SUBSET Blocks(list)
    BY <1>3, ApartFacts
  <2> QED
    BY <2>1, FS_Subset, BlockFacts DEF Sized
<1>5. Sum(Blocks(new)) = Sum(kept) + m.size
  BY <1>2, <1>3, <1>4, SumAdded
<1>6. gone \subseteq Blocks(list)
  <2>1. (p + 1)..(q - 1) \in SUBSET (1..Len(list))
    BY ApartFacts
  <2> QED
    BY <2>1 DEF Blocks
<1>7. Covered(Blocks(new)) = Covered(Blocks(list)) \cup Units(b)
  <2>1. Covered(Blocks(new)) = Covered(kept) \cup Units(m)
    BY <1>2, <1>3 DEF Covered
  <2>2. Covered(Blocks(list)) = Covered(kept) \cup Covered(gone)
    BY <1>3, <1>6 DEF Covered
  <2> QED
    BY <2>1, <2>2
<1> QED
  BY <1>1, <1>2, <1>3, <1>5, <1>7 DEF Grows

\* The blocks of a list before and after a place.
LEMMA HalvesFacts ==
  ASSUME NEW list \in Seq(Block), NEW n \in 0..Len(list)
  PROVE  LET before == SubSeq(list, 1, n)
             after  == SubSeq(list, n + 1, Len(list))
         IN /\ before # <<>> <=> n > 0
            /\ n > 0 => Last(before) = list[n] /\ Front(before) = SubSeq(list, 1, n - 1)
            /\ after # <<>> <=> n < Len(list)
            /\ n < Len(list) => Head(after) = list[n + 1] /\ Tail(after) = SubSeq(list, n + 2, Len(list))
<1> DEFINE before == SubSeq(list, 1, n)
           after  == SubSeq(list, n + 1, Len(list))
<1>1. Len(list) \in Nat /\ n \in Nat /\ n <= Len(list) /\ \A j \in 1..Len(list) : list[j] \in Block
  BY LenProperties
<1>2. before \in Seq(Block) /\ Len(before) = n /\ \A j \in 1..n : before[j] = list[j]
  <2>1. \A j \in 1..n : list[j] \in Block
    BY <1>1
  <2> QED
    BY <1>1, <2>1, SubSeqProperties
<1>3. after \in Seq(Block) /\ Len(after) = Len(list) - n
  <2>1. \A j \in (n + 1)..Len(list) : list[j] \in Block
    BY <1>1
  <2> QED
    BY <1>1, <2>1, SubSeqProperties
<1>4. before # <<>> <=> n > 0
  BY <1>1, <1>2, EmptySeq
<1>5. after # <<>> <=> n < Len(list)
  <2>1. Len(after) = 0 <=> ~(n < Len(list))
    BY <1>1, <1>3
  <2>2. after # <<>> => Len(after) \in Nat \ {0}
    BY <1>3, EmptySeq
  <2>3. after = <<>> => Len(after) = 0
    BY EmptySeq
  <2> QED
    BY <2>1, <2>2, <2>3
<1>6. ASSUME n > 0 PROVE Last(before) = list[n] /\ Front(before) = SubSeq(list, 1, n - 1)
  <2>1. Last(before) = list[n]
    BY <1>1, <1>2, <1>6 DEF Last
  <2>2. \A j \in 1..(n - 1) : before[j] \in Block /\ list[j] \in Block
    BY <1>1, <1>2
  <2>3. /\ SubSeq(before, 1, n - 1) \in Seq(Block) /\ Len(SubSeq(before, 1, n - 1)) = n - 1
        /\ \A i \in 1..(n - 1) : SubSeq(before, 1, n - 1)[i] = before[i]
    BY <2>2, <1>1, <1>6, SubSeqProperties
  <2>4. /\ SubSeq(list, 1, n - 1) \in Seq(Block) /\ Len(SubSeq(list, 1, n - 1)) = n - 1
        /\ \A i \in 1..(n - 1) : SubSeq(list, 1, n - 1)[i] = list[i]
    BY <2>2, <1>1, <1>6, SubSeqProperties
  <2>5. \A i \in 1..(n - 1) : before[i] = list[i]
    BY <1>1, <1>2
  <2>6. SubSeq(before, 1, n - 1) = SubSeq(list, 1, n - 1)
    BY <2>3, <2>4, <2>5, SeqEqual
  <2> QED
    BY <2>1, <2>6, <1>2 DEF Front
<1>7. ASSUME n < Len(list)
      PROVE  Head(after) = list[n + 1] /\ Tail(after) = SubSeq(list, n + 2, Len(list))
  <2>1. n + 1 \in 1..Len(list) /\ Len(list) \in (n + 1)..Len(list) /\ (n + 1) + 1 = n + 2
    BY <1>1, <1>7
  <2> QED
    BY <2>1, HeadTailOfSubSeq
<1> QED
  BY <1>4, <1>5, <1>6, <1>7

\* prvInsertBlockIntoFreeList: no unit is lost, whichever neighbours it merges.
LEMMA InsertBlockGrows ==
  ASSUME NEW list, Apart(list), NEW b \in Block, End(b) <= HeapSize,
         \A i \in 1..Len(list) : Units(list[i]) \cap Units(b) = {}
  PROVE  Grows(InsertBlock(list, b), list, b)
<1>1. Len(list) \in Nat /\ list \in Seq(Block) /\ \A i \in 1..Len(list) : list[i] \in Block
  BY ApartFacts DEF Apart
<1>2. /\ b.addr \in Nat /\ b.size \in Nat /\ End(b) \in Nat /\ End(b) = b.addr + b.size /\ b.size >= 1
      /\ b = [addr |-> b.addr, size |-> b.size] /\ b.addr < End(b)
  BY BlockFacts
<1>3. \A i \in 1..Len(list) :
        /\ list[i].addr \in Nat /\ End(list[i]) \in Nat /\ list[i].addr < End(list[i])
        /\ End(list[i]) <= b.addr \/ End(b) <= list[i].addr
  BY <1>1, BlockFacts, Disjoint
<1>4. PICK k : k = Place(list, b.addr)
  OBVIOUS
<1>5. PICK n \in 0..Len(list) : n = IF k = 0 THEN Len(list) ELSE k - 1
  BY <1>1, <1>2, <1>4, PlaceFound
<1>6. /\ n \in Nat /\ n <= Len(list)
      /\ \A i \in 1..n : End(list[i]) <= b.addr
      /\ \A i \in (n + 1)..Len(list) : End(b) <= list[i].addr
  <2>1. \A i \in 1..n : list[i].addr < b.addr
    BY <1>1, <1>2, <1>4, <1>5, PlaceFound
  <2>2. \A i \in 1..n : End(list[i]) <= b.addr
    BY <2>1, <1>1, <1>2, <1>3
  <2>3. ASSUME NEW i \in (n + 1)..Len(list) PROVE End(b) <= list[i].addr
    <3>1. k \in 1..Len(list) /\ k = n + 1 /\ list[k].addr >= b.addr
      BY <1>1, <1>2, <1>4, <1>5, PlaceFound
    <3>2. End(b) <= list[k].addr
      BY <3>1, <1>2, <1>3
    <3>3. CASE i = k
      BY <3>2, <3>3
    <3>4. CASE i > k
      <4>1. i \in 1..Len(list) /\ End(list[k]) < list[i].addr
        BY <3>1, <3>4, <1>1 DEF Apart
      <4> QED
        BY <4>1, <3>1, <3>2, <1>2, <1>3
    <3> QED
      BY <3>1, <3>3, <3>4, <1>1
  <2> QED
    BY <2>2, <2>3, <1>1
<1>7. PICK before : before = SubSeq(list, 1, n)
  OBVIOUS
<1>8. PICK after : after = SubSeq(list, n + 1, Len(list))
  OBVIOUS
<1>9. InsertBlock(list, b) =
        IF before # <<>> /\ End(Last(before)) = b.addr
        THEN Front(before) \o MergeWithNext([Last(before) EXCEPT !.size = @ + b.size], after)
        ELSE before \o MergeWithNext(b, after)
  BY <1>4, <1>5, <1>7, <1>8 DEF InsertBlock, Place
<1>10. /\ before # <<>> <=> n > 0
       /\ n > 0 => Last(before) = list[n] /\ Front(before) = SubSeq(list, 1, n - 1)
       /\ after # <<>> <=> n < Len(list)
       /\ n < Len(list) => Head(after) = list[n + 1] /\ Tail(after) = SubSeq(list, n + 2, Len(list))
  BY <1>1, <1>7, <1>8, HalvesFacts
<1>11. ASSUME NEW i \in 1..n, NEW j \in 1..n, i < j PROVE End(list[i]) < list[j].addr
  BY <1>1, <1>6, <1>11 DEF Apart
<1>12. ASSUME NEW i \in (n + 1)..Len(list), NEW j \in (n + 1)..Len(list), i < j
       PROVE  End(list[i]) < list[j].addr
  BY <1>1, <1>6, <1>12 DEF Apart
<1>13. /\ IsFiniteSet(Blocks(list)) /\ Sized(Blocks(list))
       /\ \A i \in 1..Len(list) : list[i] \in Blocks(list)
  BY ApartFacts DEF Blocks
<1>14. CASE ~(n > 0 /\ End(list[n]) = b.addr) /\ ~(n < Len(list) /\ End(b) = list[n + 1].addr)
  <2>1. InsertBlock(list, b) = Splice(list, n, n + 1, b)
    BY <1>7, <1>8, <1>9, <1>10, <1>14 DEF MergeWithNext, Splice
  <2>2. \A i \in 1..n : End(list[i]) < b.addr
    <3> TAKE i \in 1..n
    <3>1. CASE i = n
      <4>1. i \in 1..Len(list) /\ End(list[i]) <= b.addr /\ n > 0
        BY <3>1, <1>1, <1>6
      <4> QED
        BY <4>1, <3>1, <1>2, <1>3, <1>14
    <3>2. CASE i < n
      <4>1. n \in 1..n /\ n \in 1..Len(list) /\ i \in 1..Len(list)
        BY <3>2, <1>6
      <4>2. End(list[i]) < list[n].addr /\ End(list[n]) <= b.addr
        BY <4>1, <3>2, <1>6, <1>11
      <4> QED
        BY <4>1, <4>2, <1>2, <1>3
    <3> QED
      BY <3>1, <3>2, <1>6
  <2>3. \A i \in (n + 1)..Len(list) : End(b) < list[i].addr
    <3> TAKE i \in (n + 1)..Len(list)
    <3>1. CASE i = n + 1
      <4>1. i \in 1..Len(list) /\ End(b) <= list[i].addr /\ n < Len(list)
        BY <3>1, <1>1, <1>6
      <4> QED
        BY <4>1, <3>1, <1>2, <1>3, <1>14
    <3>2. CASE i > n + 1
      <4>1. n + 1 \in (n + 1)..Len(list) /\ n + 1 \in 1..Len(list) /\ i \in 1..Len(list)
        BY <3>2, <1>1, <1>6
      <4>2. End(list[n + 1]) < list[i].addr /\ End(b) <= list[n + 1].addr
        BY <4>1, <3>2, <1>6, <1>12
      <4> QED
        BY <4>1, <4>2, <1>2, <1>3
    <3> QED
      BY <3>1, <3>2, <1>6
  <2>7. PICK gone : gone = {}
    OBVIOUS
  <2>4. gone = {list[i] : i \in (n + 1)..((n + 1) - 1)}
    <3>1. (n + 1)..((n + 1) - 1) = {}
      BY <1>6
    <3> QED
      BY <3>1, <2>7
  <2>5. Units(b) = Units(b) \cup Covered(gone)
    BY <2>7 DEF Covered
  <2>8. Sum(Blocks(list)) + b.size = Sum(Blocks(list) \ gone) + b.size
    <3>1. Blocks(list) \ gone = Blocks(list)
      BY <2>7
    <3> QED
      BY <3>1
  <2>6. n \in 0..Len(list) /\ n + 1 \in (n + 1)..(Len(list) + 1)
    BY <1>1, <1>6
  <2>9. PICK q \in (n + 1)..(Len(list) + 1) : q = n + 1
    BY <2>6
  <2>10. gone = {list[i] : i \in (n + 1)..(q - 1)}
    BY <2>4, <2>9
  <2>11. \A i \in q..Len(list) : End(b) < list[i].addr
    BY <2>3, <2>9
  <2>12. Grows(Splice(list, n, q, b), list, b)
    BY <2>2, <2>5, <2>6, <2>8, <2>9, <2>10, <2>11, GlueGrows
  <2> QED
    BY <2>1, <2>9, <2>12
<1>15. CASE (n > 0 /\ End(list[n]) = b.addr) /\ ~(n < Len(list) /\ End(b) = list[n + 1].addr)
  <2>2. n \in 1..n /\ n \in 1..Len(list)
    BY <1>1, <1>6, <1>15
  <2>20. PICK l \in Block : l = list[n]
    BY <2>2, <1>1
  <2>21. /\ l.addr \in Nat /\ l.size \in Nat /\ l.size >= 1 /\ End(l) \in Nat /\ End(l) = l.addr + l.size
         /\ l = [addr |-> l.addr, size |-> l.size] /\ End(l) <= HeapSize /\ End(l) = b.addr
    BY <2>2, <2>20, <1>1, <1>15, BlockFacts DEF Apart
  <2>1. PICK m : m = [addr |-> l.addr, size |-> l.size + b.size]
    OBVIOUS
  <2>3. [list[n] EXCEPT !.size = @ + b.size] = m
    BY <2>1, <2>20, <2>21
  <2>4. InsertBlock(list, b) = Splice(list, n - 1, n + 1, m)
    <3>1. End(m) = End(b)
      BY <2>1, <2>21, <1>2 DEF End
    <3>2. MergeWithNext(m, after) = <<m>> \o after
      BY <3>1, <1>10, <1>15 DEF MergeWithNext
    <3> QED
      BY <2>3, <2>2, <3>2, <1>8, <1>9, <1>10, <1>15 DEF Splice
  <2>5. m \in Block /\ End(m) = End(b) /\ m.addr = l.addr /\ m.size = l.size + b.size
    <3>1. PICK z \in Nat : z = l.size + b.size
      BY <2>21, <1>2
    <3>2. l.addr + z = End(b) /\ z >= 1 /\ l.addr + z <= HeapSize
      BY <3>1, <2>21, <1>2
    <3>3. m = [addr |-> l.addr, size |-> z]
      BY <3>1, <2>1
    <3> QED
      BY <3>1, <3>2, <3>3, <2>21, BlockMade
  <2>6. \A i \in 1..(n - 1) : End(list[i]) < m.addr
    <3> TAKE i \in 1..(n - 1)
    <3>1. i \in 1..n /\ i < n
      BY <1>6
    <3> QED
      BY <3>1, <2>2, <2>5, <2>20, <1>11
  <2>7. \A i \in (n + 1)..Len(list) : End(m) < list[i].addr
    <3> TAKE i \in (n + 1)..Len(list)
    <3>1. CASE i = n + 1
      <4>1. i \in 1..Len(list) /\ End(b) <= list[i].addr /\ n < Len(list)
        BY <3>1, <1>1, <1>6
      <4> QED
        BY <4>1, <3>1, <2>5, <1>2, <1>3, <1>15
    <3>2. CASE i > n + 1
      <4>1. n + 1 \in (n + 1)..Len(list) /\ n + 1 \in 1..Len(list) /\ i \in 1..Len(list)
        BY <3>2, <1>1, <1>6
      <4>2. End(list[n + 1]) < list[i].addr /\ End(b) <= list[n + 1].addr
        BY <4>1, <3>2, <1>6, <1>12
      <4> QED
        BY <4>1, <4>2, <2>5, <1>2, <1>3
    <3> QED
      BY <3>1, <3>2, <1>6
  <2>8. PICK gone : gone = {list[n]}
    OBVIOUS
  <2>9. gone = {list[i] : i \in ((n - 1) + 1)..((n + 1) - 1)}
    <3>1. ((n - 1) + 1)..((n + 1) - 1) = {n}
      BY <1>6
    <3> QED
      BY <3>1, <2>8
  <2>10. Units(m) = Units(b) \cup Covered(gone)
    <3>1. Covered(gone) = Units(l)
      BY <2>8, <2>20 DEF Covered
    <3>2. \A u : u \in Units(m) <=> u \in Units(b) \/ u \in Units(l)
      BY <2>5, <2>20, <2>21, <1>2, UnitsFacts
    <3> QED
      BY <3>1, <3>2
  <2>11. Sum(Blocks(list)) + b.size = Sum(Blocks(list) \ gone) + m.size
    <3>1. Sum(Blocks(list)) = list[n].size + Sum(Blocks(list) \ gone)
      BY <2>2, <2>8, <1>13, SumFacts
    <3>2. Sum(Blocks(list) \ gone) \in Nat
      <4>1. IsFiniteSet(Blocks(list) \ gone) /\ Sized(Blocks(list) \ gone)
        BY <1>13, FS_Subset DEF Sized
      <4> QED
        BY <4>1, SumFacts
    <3> QED
      BY <3>1, <3>2, <2>5, <2>20, <2>21, <1>2
  <2>12. n - 1 \in 0..Len(list) /\ n + 1 \in ((n - 1) + 1)..(Len(list) + 1)
    BY <1>1, <1>6, <1>15
  <2> QED
    BY <2>4, <2>5, <2>6, <2>7, <2>9, <2>10, <2>11, <2>12, GlueGrows
<1>16. CASE ~(n > 0 /\ End(list[n]) = b.addr) /\ (n < Len(list) /\ End(b) = list[n + 1].addr)
  <2>2. n + 1 \in (n + 1)..Len(list) /\ n + 1 \in 1..Len(list)
    BY <1>1, <1>6, <1>16
  <2>20. PICK r \in Block : r = list[n + 1]
    BY <2>2, <1>1
  <2>21. /\ r.addr \in Nat /\ r.size \in Nat /\ r.size >= 1 /\ End(r) \in Nat /\ End(r) = r.addr + r.size
         /\ r = [addr |-> r.addr, size |-> r.size] /\ End(r) <= HeapSize /\ r.addr = End(b)
    BY <2>2, <2>20, <1>1, <1>16, BlockFacts DEF Apart
  <2>1. PICK m : m = [addr |-> b.addr, size |-> b.size + r.size]
    OBVIOUS
  <2>3. [b EXCEPT !.size = @ + r.size] = m
    BY <2>1, <1>2
  <2>4. InsertBlock(list, b) = Splice(list, n, n + 2, m)
    <3>1. MergeWithNext(b, after) = <<m>> \o Tail(after)
      BY <2>3, <2>20, <1>10, <1>16 DEF MergeWithNext
    <3> QED
      BY <3>1, <1>7, <1>9, <1>10, <1>16 DEF Splice
  <2>5. m \in Block /\ End(m) = End(r) /\ m.addr = b.addr /\ m.size = b.size + r.size
        /\ End(m) <= HeapSize
    <3>1. PICK z \in Nat : z = b.size + r.size
      BY <2>21, <1>2
    <3>2. b.addr + z = End(r) /\ z >= 1 /\ b.addr + z <= HeapSize
      BY <3>1, <2>21, <1>2
    <3>3. m = [addr |-> b.addr, size |-> z]
      BY <3>1, <2>1
    <3> QED
      BY <3>1, <3>2, <3>3, <2>21, <1>2, BlockMade
  <2>6. \A i \in 1..n : End(list[i]) < m.addr
    <3> TAKE i \in 1..n
    <3>1. CASE i = n
      <4>1. i \in 1..Len(list) /\ End(list[i]) <= b.addr /\ n > 0
        BY <3>1, <1>1, <1>6
      <4> QED
        BY <4>1, <3>1, <2>5, <1>2, <1>3, <1>16
    <3>2. CASE i < n
      <4>1. n \in 1..n /\ n \in 1..Len(list) /\ i \in 1..Len(list)
        BY <3>2, <1>6
      <4>2. End(list[i]) < list[n].addr /\ End(list[n]) <= b.addr
        BY <4>1, <3>2, <1>6, <1>11
      <4> QED
        BY <4>1, <4>2, <2>5, <1>2, <1>3
    <3> QED
      BY <3>1, <3>2, <1>6
  <2>7. \A i \in (n + 2)..Len(list) : End(m) < list[i].addr
    <3> TAKE i \in (n + 2)..Len(list)
    <3>1. i \in (n + 1)..Len(list) /\ n + 1 < i
      BY <1>6
    <3> QED
      BY <3>1, <2>2, <2>5, <2>20, <1>12
  <2>8. PICK gone : gone = {list[n + 1]}
    OBVIOUS
  <2>9. gone = {list[i] : i \in (n + 1)..((n + 2) - 1)}
    <3>1. (n + 1)..((n + 2) - 1) = {n + 1}
      BY <1>6
    <3> QED
      BY <3>1, <2>8
  <2>10. Units(m) = Units(b) \cup Covered(gone)
    <3>1. Covered(gone) = Units(r)
      BY <2>8, <2>20 DEF Covered
    <3>2. \A u : u \in Units(m) <=> u \in Units(b) \/ u \in Units(r)
      BY <2>5, <2>20, <2>21, <1>2, UnitsFacts
    <3> QED
      BY <3>1, <3>2
  <2>11. Sum(Blocks(list)) + b.size = Sum(Blocks(list) \ gone) + m.size
    <3>1. Sum(Blocks(list)) = list[n + 1].size + Sum(Blocks(list) \ gone)
      BY <2>2, <2>8, <1>13, SumFacts
    <3>2. Sum(Blocks(list) \ gone) \in Nat
      <4>1. IsFiniteSet(Blocks(list) \ gone) /\ Sized(Blocks(list) \ gone)
        BY <1>13, FS_Subset DEF Sized
      <4> QED
        BY <4>1, SumFacts
    <3> QED
      BY <3>1, <3>2, <2>5, <2>20, <2>21, <1>2
  <2>12. n + 2 \in (n + 1)..(Len(list) + 1)
    BY <1>1, <1>6, <1>16
  <2> QED
    BY <2>4, <2>5, <2>6, <2>7, <2>9, <2>10, <2>11, <2>12, GlueGrows
<1>17. CASE (n > 0 /\ End(list[n]) = b.addr) /\ (n < Len(list) /\ End(b) = list[n + 1].addr)
  <2>2. n \in 1..n /\ n \in 1..Len(list) /\ n + 1 \in (n + 1)..Len(list) /\ n + 1 \in 1..Len(list)
    BY <1>1, <1>6, <1>17
  <2>20. PICK l \in Block : l = list[n]
    BY <2>2, <1>1
  <2>21. /\ l.addr \in Nat /\ l.size \in Nat /\ l.size >= 1 /\ End(l) \in Nat /\ End(l) = l.addr + l.size
         /\ l = [addr |-> l.addr, size |-> l.size] /\ End(l) <= HeapSize /\ End(l) = b.addr
    BY <2>2, <2>20, <1>1, <1>17, BlockFacts DEF Apart
  <2>22. PICK r \in Block : r = list[n + 1]
    BY <2>2, <1>1
  <2>23. /\ r.addr \in Nat /\ r.size \in Nat /\ r.size >= 1 /\ End(r) \in Nat /\ End(r) = r.addr + r.size
         /\ r = [addr |-> r.addr, size |-> r.size] /\ End(r) <= HeapSize /\ r.addr = End(b)
    BY <2>2, <2>22, <1>1, <1>17, BlockFacts DEF Apart
  <2>1. PICK m : m = [addr |-> l.addr, size |-> l.size + b.size + r.size]
    OBVIOUS
  <2>3. PICK h : h = [addr |-> l.addr, size |-> l.size + b.size]
    OBVIOUS
  <2>4. InsertBlock(list, b) = Splice(list, n - 1, n + 2, m)
    <3>1. [list[n] EXCEPT !.size = @ + b.size] = h
      BY <2>3, <2>20, <2>21
    <3>2. End(h) = End(b)
      BY <2>3, <2>21, <1>2 DEF End
    <3>3. [h EXCEPT !.size = @ + r.size] = m
      BY <2>1, <2>3
    <3>4. MergeWithNext(h, after) = <<m>> \o Tail(after)
      BY <3>2, <3>3, <2>22, <1>10, <1>17 DEF MergeWithNext
    <3> QED
      BY <3>1, <3>4, <2>2, <1>9, <1>10, <1>17 DEF Splice
  <2>5. m \in Block /\ End(m) = End(r) /\ m.addr = l.addr
        /\ m.size = l.size + b.size + r.size /\ End(m) <= HeapSize
    <3>1. PICK z \in Nat : z = l.size + b.size + r.size
      BY <2>21, <2>23, <1>2
    <3>2. l.addr + z = End(r) /\ z >= 1 /\ l.addr + z <= HeapSize
      BY <3>1, <2>21, <2>23, <1>2
    <3>3. m = [addr |-> l.addr, size |-> z]
      BY <3>1, <2>1
    <3> QED
      BY <3>1, <3>2, <3>3, <2>21, <2>23, BlockMade
  <2>6. \A i \in 1..(n - 1) : End(list[i]) < m.addr
    <3> TAKE i \in 1..(n - 1)
    <3>1. i \in 1..n /\ i < n
      BY <1>6
    <3> QED
      BY <3>1, <2>2, <2>5, <2>20, <1>11
  <2>7. \A i \in (n + 2)..Len(list) : End(m) < list[i].addr
    <3> TAKE i \in (n + 2)..Len(list)
    <3>1. i \in (n + 1)..Len(list) /\ n + 1 < i
      BY <1>6
    <3> QED
      BY <3>1, <2>2, <2>5, <2>22, <1>12
  <2>8. PICK gone : gone = {list[n], list[n + 1]}
    OBVIOUS
  <2>9. gone = {list[i] : i \in ((n - 1) + 1)..((n + 2) - 1)}
    <3>1. ((n - 1) + 1)..((n + 2) - 1) = {n, n + 1}
      BY <1>6
    <3> QED
      BY <3>1, <2>8
  <2>10. Units(m) = Units(b) \cup Covered(gone)
    <3>1. Covered(gone) = Units(l) \cup Units(r)
      BY <2>8, <2>20, <2>22 DEF Covered
    <3>2. \A u : u \in Units(m) <=> u \in Units(b) \/ u \in Units(l) \/ u \in Units(r)
      <4>1. \A u : u \in Units(m) <=> u \in Nat /\ l.addr <= u /\ u < End(r)
        BY <2>5, UnitsFacts
      <4>2. \A u : u \in Units(l) <=> u \in Nat /\ l.addr <= u /\ u < b.addr
        BY <2>21, UnitsFacts
      <4>3. \A u : u \in Units(r) <=> u \in Nat /\ End(b) <= u /\ u < End(r)
        BY <2>23, UnitsFacts
      <4>4. \A u : u \in Units(b) <=> u \in Nat /\ b.addr <= u /\ u < End(b)
        BY UnitsFacts
      <4>5. l.addr < b.addr /\ b.addr < End(b) /\ End(b) < End(r)
        BY <2>21, <2>23, <1>2
      <4>6. \A u \in Nat : l.addr <= u /\ u < End(r) <=>
                \/ b.addr <= u /\ u < End(b)
                \/ l.addr <= u /\ u < b.addr
                \/ End(b) <= u /\ u < End(r)
        BY <4>5, <2>21, <2>23, <1>2
      <4> QED
        BY <4>1, <4>2, <4>3, <4>4, <4>6
    <3> QED
      BY <3>1, <3>2
  <2>11. Sum(Blocks(list)) + b.size = Sum(Blocks(list) \ gone) + m.size
    <3>1. PICK rest : rest = Blocks(list) \ {list[n]}
      OBVIOUS
    <3>2. Sum(Blocks(list)) = list[n].size + Sum(rest)
      BY <2>2, <3>1, <1>13, SumFacts
    <3>3. IsFiniteSet(rest) /\ Sized(rest)
      BY <3>1, <1>13, FS_Subset DEF Sized
    <3>4. list[n] # list[n + 1]
      BY <2>2, <1>6, ApartFacts
    <3>5. list[n + 1] \in rest /\ rest \ {list[n + 1]} = Blocks(list) \ gone
      BY <2>2, <2>8, <3>1, <3>4, <1>13
    <3>6. Sum(rest) = list[n + 1].size + Sum(Blocks(list) \ gone)
      BY <3>3, <3>5, SumFacts
    <3>7. Sum(Blocks(list) \ gone) \in Nat
      <4>1. IsFiniteSet(Blocks(list) \ gone) /\ Sized(Blocks(list) \ gone)
        BY <1>13, FS_Subset DEF Sized
      <4> QED
        BY <4>1, SumFacts
    <3>8. PICK y \in Nat : y = Sum(Blocks(list) \ gone)
      BY <3>7
    <3>9. Sum(Blocks(list)) = l.size + (r.size + y)
      BY <3>2, <3>6, <3>8, <2>20, <2>22
    <3>10. (l.size + (r.size + y)) + b.size = y + (l.size + b.size + r.size)
      BY <3>8, <2>21, <2>23, <1>2
    <3> QED
      BY <3>8, <3>9, <3>10, <2>5
  <2>12. n - 1 \in 0..Len(list) /\ n + 2 \in ((n - 1) + 1)..(Len(list) + 1)
    BY <1>1, <1>6, <1>17
  <2> QED
    BY <2>4, <2>5, <2>6, <2>7, <2>9, <2>10, <2>11, <2>12, GlueGrows
<1> QED
  BY <1>14, <1>15, <1>16, <1>17

-----------------------------------------------------------------------------
(* The heap *)

LEMMA RemoveFacts ==
  ASSUME NEW list \in Seq(Block), NEW k \in 1..Len(list)
  PROVE  LET new == RemoveAt(list, k) IN
           /\ new \in Seq(Block) /\ Len(new) \in Nat /\ Len(new) + 1 = Len(list)
           /\ \A i \in 1..(k - 1) : new[i] = list[i]
           /\ \A i \in k..Len(new) : new[i] = list[i + 1]
<1>1. Len(list) \in Nat /\ k \in Nat /\ k >= 1 /\ k <= Len(list)
  BY LenProperties
<1>2. PICK p \in Nat : k = p + 1
  <2>1. k - 1 \in Nat /\ k = (k - 1) + 1
    BY <1>1
  <2> QED
    BY <2>1
<1>3. PICK r \in Nat : Len(list) = k + r
  <2>1. Len(list) - k \in Nat /\ Len(list) = k + (Len(list) - k)
    BY <1>1
  <2> QED
    BY <2>1
<1>4. PICK front : front = SubSeq(list, 1, p)
  OBVIOUS
<1>5. front \in Seq(Block) /\ Len(front) = p /\ \A j \in 1..p : front[j] = list[j]
  <2>1. \A j \in 1..p : list[j] \in Block
    BY <1>1, <1>2
  <2> QED
    BY <1>4, <2>1, SubSeqProperties
<1>6. PICK back : back = SubSeq(list, k + 1, Len(list))
  OBVIOUS
<1>7. back \in Seq(Block) /\ Len(back) = r /\ \A j \in 1..r : back[j] = list[k + j]
  <2>1. \A j \in (k + 1)..Len(list) : list[j] \in Block
    BY <1>1
  <2>2. /\ back \in Seq(Block) /\ Len(back) = IF k + 1 <= Len(list) THEN Len(list) - (k + 1) + 1 ELSE 0
        /\ \A j \in 1..(Len(list) - (k + 1) + 1) : back[j] = list[(k + 1) + j - 1]
    BY <1>1, <1>6, <2>1, SubSeqProperties
  <2>3. Len(list) - (k + 1) + 1 = r /\ (~(k + 1 <= Len(list)) => r = 0)
    BY <1>1, <1>3
  <2>4. \A j \in 1..r : (k + 1) + j - 1 = k + j
    BY <1>1
  <2> QED
    BY <2>2, <2>3, <2>4
<1>8. PICK new : new = front \o back
  OBVIOUS
<1>9. /\ new \in Seq(Block) /\ Len(new) = p + r
      /\ \A i \in 1..(p + r) : new[i] = IF i <= p THEN front[i] ELSE back[i - p]
  <2>1. /\ new \in Seq(Block) /\ Len(new) = Len(front) + Len(back)
        /\ \A i \in 1..Len(front) + Len(back) :
             new[i] = IF i <= Len(front) THEN front[i] ELSE back[i - Len(front)]
    BY <1>5, <1>7, <1>8, ConcatProperties
  <2>2. Len(front) = p /\ Len(back) = r
    BY <1>5, <1>7
  <2> QED
    BY <2>1, <2>2
<1>10. new = RemoveAt(list, k)
  <2>1. k - 1 = p
    BY <1>2
  <2> QED
    BY <2>1, <1>4, <1>6, <1>8 DEF RemoveAt
<1>11. \A i \in 1..(k - 1) : new[i] = list[i]
  BY <1>2, <1>5, <1>9
<1>12. ASSUME NEW i \in k..Len(new) PROVE new[i] = list[i + 1]
  <2>1. PICK j \in 1..r : i = p + j
    <3>1. i - p \in 1..r /\ i = p + (i - p)
      BY <1>2, <1>9
    <3> QED
      BY <3>1
  <2>2. i \in 1..(p + r) /\ ~(i <= p) /\ i - p = j
    BY <2>1
  <2>3. new[i] = back[j]
    BY <2>2, <1>9
  <2>4. k + j = i + 1
    BY <2>1, <1>2
  <2> QED
    BY <2>3, <2>4, <1>7
<1>13. Len(new) \in Nat /\ Len(new) + 1 = Len(list)
  BY <1>2, <1>3, <1>9
<1> QED
  BY <1>9, <1>10, <1>11, <1>12, <1>13

\* What is left of a list if one block is taken from it.
LEMMA BlockTaken ==
  ASSUME NEW list, Apart(list), NEW k \in 1..Len(list)
  PROVE  LET new == RemoveAt(list, k) IN
           /\ Apart(new)
           /\ \A i \in 1..Len(new) : Units(new[i]) \cap Units(list[k]) = {}
           /\ Covered(Blocks(list)) = Covered(Blocks(new)) \cup Units(list[k])
           /\ Covered(Blocks(new)) \cap Units(list[k]) = {}
           /\ Sum(Blocks(list)) = Sum(Blocks(new)) + list[k].size
<1>1. PICK new : new = RemoveAt(list, k)
  OBVIOUS
<1>2. /\ Len(list) \in Nat /\ k \in Nat /\ k >= 1 /\ k <= Len(list)
      /\ \A i \in 1..Len(list) : list[i] \in Block
  BY ApartFacts
<1>3. /\ new \in Seq(Block) /\ Len(new) \in Nat /\ Len(new) + 1 = Len(list)
      /\ \A i \in 1..(k - 1) : new[i] = list[i]
      /\ \A i \in k..Len(new) : new[i] = list[i + 1]
  BY <1>1, RemoveFacts DEF Apart
<1>4. ASSUME NEW i \in 1..Len(new)
      PROVE  \/ i < k /\ i \in 1..Len(list) /\ new[i] = list[i]
             \/ i >= k /\ i + 1 \in 1..Len(list) /\ new[i] = list[i + 1]
  BY <1>2, <1>3
<1>5. Apart(new)
  <2>1. \A i \in 1..Len(new) : End(new[i]) <= HeapSize
    BY <1>4 DEF Apart
  <2>2. ASSUME NEW i \in 1..Len(new), NEW j \in 1..Len(new), i < j
        PROVE  End(new[i]) < new[j].addr
    <3>1. PICK x \in 1..Len(list) : new[i] = list[x] /\ x = IF i < k THEN i ELSE i + 1
      BY <1>2, <1>4
    <3>2. PICK y \in 1..Len(list) : new[j] = list[y] /\ y = IF j < k THEN j ELSE j + 1
      BY <1>2, <1>4
    <3>3. x < y
      BY <2>2, <3>1, <3>2, <1>2, <1>3
    <3> QED
      BY <3>1, <3>2, <3>3 DEF Apart
  <2> QED
    BY <2>1, <2>2, <1>3 DEF Apart
<1>6. Blocks(new) = Blocks(list) \ {list[k]}
  <2>1. ASSUME NEW i \in 1..Len(new) PROVE new[i] \in Blocks(list) \ {list[k]}
    <3>1. PICK x \in 1..Len(list) : new[i] = list[x] /\ x # k
      BY <1>2, <1>4
    <3> QED
      BY <3>1, ApartFacts DEF Blocks
  <2>2. ASSUME NEW x \in 1..Len(list), x # k PROVE list[x] \in Blocks(new)
    <3>1. CASE x < k
      <4>1. x \in 1..Len(new) /\ new[x] = list[x]
        BY <3>1, <1>2, <1>3
      <4> QED
        BY <4>1 DEF Blocks
    <3>2. CASE x > k
      <4>1. PICK i \in k..Len(new) : x = i + 1
        <5>1. x - 1 \in k..Len(new) /\ x = (x - 1) + 1
          BY <3>2, <1>2, <1>3
        <5> QED
          BY <5>1
      <4>2. i \in 1..Len(new) /\ new[i] = list[x]
        BY <4>1, <1>2, <1>3
      <4> QED
        BY <4>2 DEF Blocks
    <3> QED
      BY <3>1, <3>2, <2>2, <1>2
  <2> QED
    BY <2>1, <2>2 DEF Blocks
<1>7. ASSUME NEW i \in 1..Len(new) PROVE Units(new[i]) \cap Units(list[k]) = {}
  <2>1. PICK x \in 1..Len(list) : new[i] = list[x] /\ x # k
    BY <1>2, <1>4
  <2>2. PICK b \in Block : b = list[x]
    BY <1>2
  <2>3. PICK c \in Block : c = list[k]
    BY <1>2
  <2>4. /\ b.addr \in Nat /\ End(b) \in Nat /\ c.addr \in Nat /\ End(c) \in Nat
    BY BlockFacts
  <2>5. End(b) < c.addr \/ End(c) < b.addr
    <3>1. x < k \/ k < x
      BY <2>1, <1>2
    <3> QED
      BY <3>1, <2>2, <2>3 DEF Apart
  <2>6. Units(b) \cap Units(c) = {}
    BY <2>4, <2>5, Disjoint
  <2> QED
    BY <2>1, <2>2, <2>3, <2>6
<1>8. Covered(Blocks(new)) \cap Units(list[k]) = {}
  BY <1>7 DEF Covered, Blocks
<1>9. list[k] \in Blocks(list)
  BY DEF Blocks
<1>10. Covered(Blocks(list)) = Covered(Blocks(new)) \cup Units(list[k])
  <2>1. Blocks(list) = Blocks(new) \cup {list[k]}
    BY <1>6, <1>9
  <2> QED
    BY <2>1 DEF Covered
<1>11. Sum(Blocks(list)) = Sum(Blocks(new)) + list[k].size
  <2>1. Sum(Blocks(list)) = list[k].size + Sum(Blocks(new))
    BY <1>6, <1>9, ApartFacts, SumFacts
  <2>2. Sum(Blocks(new)) \in Nat /\ list[k].size \in Nat
    BY <1>2, <1>5, ApartFacts, SumFacts, BlockFacts
  <2> QED
    BY <2>1, <2>2
<1> QED
  BY <1>1, <1>5, <1>7, <1>8, <1>10, <1>11

LEMMA BlockFinite == IsFiniteSet(Block)
<1>1. IsFiniteSet(Unit) /\ IsFiniteSet(1..HeapSize)
  BY SizesNat, FS_Interval DEF Unit
<1>2. IsFiniteSet(Unit \X (1..HeapSize))
  BY <1>1, FS_Product
<1>3. PICK f : f = [p \in Unit \X (1..HeapSize) |-> [addr |-> p[1], size |-> p[2]]]
  OBVIOUS
<1>4. f \in Surjection(Unit \X (1..HeapSize), Block)
  <2>1. f \in [Unit \X (1..HeapSize) -> Block]
    BY <1>3 DEF Block
  <2>2. ASSUME NEW b \in Block PROVE \E p \in Unit \X (1..HeapSize) : f[p] = b
    <3>1. PICK p : p = <<b.addr, b.size>>
      OBVIOUS
    <3>2. p \in Unit \X (1..HeapSize) /\ p[1] = b.addr /\ p[2] = b.size
      BY <3>1 DEF Block
    <3>3. f[p] = [addr |-> b.addr, size |-> b.size]
      BY <3>2, <1>3
    <3> QED
      BY <3>2, <3>3, BlockFacts
  <2> QED
    BY <2>1, <2>2 DEF Surjection
<1> QED
  BY <1>2, <1>4, FS_Surjection

\* The free blocks of a list and a set of allocated blocks tile the heap; n units
\* are free.
Tiles(list, blocks, n) ==
  /\ Apart(list)
  /\ blocks \subseteq Block
  /\ \A b \in blocks : End(b) <= HeapSize
  /\ \A b, c \in blocks : b # c => Units(b) \cap Units(c) = {}
  /\ Covered(blocks) \cap Covered(Blocks(list)) = {}
  /\ Sum(Blocks(list)) = n
  /\ Sum(Blocks(list)) + Sum(blocks) = HeapSize
  /\ Covered(blocks) \cup Covered(Blocks(list)) = Unit

LEMMA TilesFacts ==
  ASSUME NEW list, NEW blocks, NEW n, Tiles(list, blocks, n)
  PROVE  /\ IsFiniteSet(blocks) /\ Sized(blocks) /\ Sum(blocks) \in Nat /\ n \in Nat /\ n <= HeapSize
         /\ \A b, c \in blocks : b.addr = c.addr => b = c
<1>1. IsFiniteSet(blocks) /\ Sized(blocks)
  BY BlockFinite, FS_Subset, BlockFacts DEF Tiles, Sized
<1>2. Sum(blocks) \in Nat /\ n \in Nat
  BY <1>1, ApartFacts, SumFacts DEF Tiles
<1>3. n <= HeapSize
  BY <1>2, SizesNat DEF Tiles
<1>4. ASSUME NEW b \in blocks, NEW c \in blocks, b.addr = c.addr PROVE b = c
  <2>1. b \in Block /\ c \in Block
    BY DEF Tiles
  <2>2. b.addr \in Units(b) /\ b.addr \in Units(c)
    BY <1>4, <2>1, BlockFacts, UnitsFacts
  <2> QED
    BY <2>2 DEF Tiles
<1> QED
  BY <1>1, <1>2, <1>3, <1>4

\* A free block changes hands.
LEMMA TakenTiles ==
  ASSUME NEW list, NEW blocks, NEW n, Tiles(list, blocks, n),
         NEW t \in Block, End(t) <= HeapSize, NEW new, Apart(new),
         Covered(Blocks(list)) = Covered(Blocks(new)) \cup Units(t),
         Covered(Blocks(new)) \cap Units(t) = {},
         Sum(Blocks(list)) = Sum(Blocks(new)) + t.size
  PROVE  /\ Tiles(new, blocks \cup {t}, n - t.size)
         /\ \A b \in blocks : b.addr # t.addr
<1>1. IsFiniteSet(blocks) /\ Sized(blocks) /\ Sum(blocks) \in Nat /\ n \in Nat
  BY TilesFacts
<1>2. t.size \in Nat /\ t.addr \in Units(t)
  BY BlockFacts, UnitsFacts
<1>3. ASSUME NEW b \in blocks PROVE Units(b) \cap Units(t) = {} /\ b.addr # t.addr
  <2>1. Units(b) \subseteq Covered(blocks)
    BY DEF Covered
  <2>2. Units(b) \cap Units(t) = {}
    BY <2>1 DEF Tiles
  <2>3. b.addr \in Units(b)
    BY BlockFacts, UnitsFacts DEF Tiles
  <2> QED
    BY <2>2, <2>3, <1>2
<1>4. t \notin blocks
  BY <1>3
<1>5. Covered(blocks \cup {t}) = Covered(blocks) \cup Units(t)
  BY DEF Covered
<1>6. Sum(blocks \cup {t}) = Sum(blocks) + t.size
  BY <1>1, <1>2, <1>4, SumAdded
<1>7. Sum(Blocks(new)) \in Nat
  BY ApartFacts, SumFacts
<1>8. Sum(Blocks(new)) = n - t.size /\ Sum(Blocks(new)) + Sum(blocks \cup {t}) = HeapSize
  BY <1>1, <1>2, <1>6, <1>7 DEF Tiles
<1>9. ASSUME NEW b \in blocks \cup {t}, NEW c \in blocks \cup {t}, b # c PROVE Units(b) \cap Units(c) = {}
  BY <1>3, <1>9 DEF Tiles
<1>10. blocks \cup {t} \subseteq Block /\ \A b \in blocks \cup {t} : End(b) <= HeapSize
  BY DEF Tiles
<1>11. /\ Covered(blocks \cup {t}) \cap Covered(Blocks(new)) = {}
       /\ Covered(blocks \cup {t}) \cup Covered(Blocks(new)) = Unit
  BY <1>5 DEF Tiles
<1> QED
  BY <1>3, <1>8, <1>9, <1>10, <1>11 DEF Tiles

\* An allocated block is inserted into the list.
LEMMA FreedTiles ==
  ASSUME NEW list, NEW blocks, NEW n, Tiles(list, blocks, n), NEW b \in blocks
  PROVE  Tiles(InsertBlock(list, b), blocks \ {b}, n + b.size)
<1>1. IsFiniteSet(blocks) /\ Sized(blocks) /\ Sum(blocks) \in Nat /\ n \in Nat
  BY TilesFacts
<1>2. b \in Block /\ End(b) <= HeapSize /\ b.size \in Nat /\ Apart(list)
  BY BlockFacts DEF Tiles
<1>3. Units(b) \subseteq Covered(blocks)
  BY DEF Covered
<1>4. ASSUME NEW i \in 1..Len(list) PROVE Units(list[i]) \cap Units(b) = {}
  <2>1. Units(list[i]) \subseteq Covered(Blocks(list))
    BY DEF Covered, Blocks
  <2> QED
    BY <2>1, <1>3 DEF Tiles
<1>5. Grows(InsertBlock(list, b), list, b)
  BY <1>2, <1>4, InsertBlockGrows
<1>6. Covered(blocks) = Covered(blocks \ {b}) \cup Units(b)
  BY DEF Covered
<1>7. Covered(blocks \ {b}) \cap Units(b) = {}
  BY DEF Covered, Tiles
<1>8. Sum(blocks) = b.size + Sum(blocks \ {b})
  BY <1>1, SumFacts
<1>9. IsFiniteSet(blocks \ {b}) /\ Sized(blocks \ {b})
  BY <1>1, FS_Subset DEF Sized
<1>10. Sum(blocks \ {b}) \in Nat
  BY <1>9, SumFacts
<1>11. PICK new : new = InsertBlock(list, b)
  OBVIOUS
<1>12. /\ Apart(new) /\ Covered(Blocks(new)) = Covered(Blocks(list)) \cup Units(b)
       /\ Sum(Blocks(new)) = Sum(Blocks(list)) + b.size
  BY <1>5, <1>11 DEF Grows
<1>13. Sum(Blocks(new)) = n + b.size /\ Sum(Blocks(new)) + Sum(blocks \ {b}) = HeapSize
  BY <1>1, <1>2, <1>8, <1>10, <1>12 DEF Tiles
<1>14. /\ Covered(blocks \ {b}) \cap Covered(Blocks(new)) = {}
       /\ Covered(blocks \ {b}) \cup Covered(Blocks(new)) = Unit
  BY <1>6, <1>7, <1>12 DEF Tiles
<1>15. /\ blocks \ {b} \subseteq Block /\ \A c \in blocks \ {b} : End(c) <= HeapSize
       /\ \A c, d \in blocks \ {b} : c # d => Units(c) \cap Units(d) = {}
  BY DEF Tiles
<1> QED
  BY <1>11, <1>12, <1>13, <1>14, <1>15 DEF Tiles

\* A gap lies within one free block, since free blocks do not touch: a refused
\* request has no gap.
LEMMA GapIsFree ==
  ASSUME NEW list, NEW blocks, NEW n, Tiles(list, blocks, n), NEW m \in Nat, m >= 1,
         NEW a \in Unit, a + m <= HeapSize,
         \A u \in a..(a + m - 1) : \A b \in blocks : u \notin Units(b)
  PROVE  \E i \in 1..Len(list) : list[i].size >= m
<1>1. a \in Nat /\ Len(list) \in Nat /\ \A i \in 1..Len(list) : list[i] \in Block
  BY ApartFacts DEF Tiles, Unit
<1>2. ASSUME NEW u \in a..(a + m - 1)
      PROVE  \E i \in 1..Len(list) : list[i].addr <= u /\ u < End(list[i])
  <2>1. u \in Unit
    BY <1>1, SizesNat DEF Unit
  <2>2. u \notin Covered(blocks)
    BY DEF Covered
  <2>3. PICK i \in 1..Len(list) : u \in Units(list[i])
    BY <2>1, <2>2 DEF Tiles, Covered, Blocks
  <2> QED
    BY <2>3, <1>1, UnitsFacts
<1>3. a \in a..(a + m - 1)
  BY <1>1
<1>4. PICK i \in 1..Len(list) : list[i].addr <= a /\ a < End(list[i])
  BY <1>2, <1>3
<1>5. PICK b \in Block : b = list[i]
  BY <1>1
<1>6. b.addr \in Nat /\ b.size \in Nat /\ End(b) \in Nat /\ End(b) = b.addr + b.size
  BY BlockFacts
<1>7. a + m <= End(b)
  <2> SUFFICES ASSUME ~(a + m <= End(b)) PROVE FALSE
    OBVIOUS
  <2>1. End(b) \in a..(a + m - 1)
    BY <1>1, <1>4, <1>5, <1>6
  <2>2. PICK j \in 1..Len(list) : list[j].addr <= End(b) /\ End(b) < End(list[j])
    BY <2>1, <1>2
  <2>3. PICK c \in Block : c = list[j]
    BY <1>1
  <2>4. c.addr \in Nat /\ End(c) \in Nat /\ c.addr <= End(b) /\ End(b) < End(c)
    BY <2>2, <2>3, BlockFacts
  <2>5. CASE i = j
    BY <2>3, <2>4, <2>5, <1>5
  <2>6. CASE i < j
    <3>1. End(b) < c.addr
      BY <2>3, <2>6, <1>5 DEF Tiles, Apart
    <3> QED
      BY <3>1, <2>4, <1>6
  <2>7. CASE j < i
    <3>1. End(c) < b.addr
      BY <2>3, <2>7, <1>5 DEF Tiles, Apart
    <3> QED
      BY <3>1, <2>4, <1>6
  <2> QED
    BY <2>5, <2>6, <2>7, <1>1
<1>8. b.size >= m
  BY <1>1, <1>4, <1>5, <1>6, <1>7
<1> QED
  BY <1>5, <1>8

HeapInv == Tiles(freeList, used, xFreeBytesRemaining)

\* A block is never larger than the sum.
LEMMA SizeWithinSum ==
  ASSUME NEW S, IsFiniteSet(S), Sized(S), NEW x \in S
  PROVE  x.size \in Nat /\ Sum(S) \in Nat /\ x.size <= Sum(S)
<1>1. IsFiniteSet(S \ {x}) /\ Sized(S \ {x}) /\ x.size \in Nat
  BY FS_Subset DEF Sized
<1>2. Sum(S) \in Nat /\ Sum(S) = x.size + Sum(S \ {x}) /\ Sum(S \ {x}) \in Nat
  BY <1>1, SumFacts
<1> QED
  BY <1>1, <1>2

LEMMA RefusedIsFull ==
  ASSUME HeapInv, NEW m \in Nat, m >= 1, Refused(m)
  PROVE  ~Gap(m)
<1> SUFFICES ASSUME Gap(m) PROVE FALSE
  OBVIOUS
<1>1. PICK i \in 1..Len(freeList) : freeList[i].size >= m
  BY GapIsFree DEF HeapInv, Gap
<1>2. freeList \in Seq(Block) /\ freeList[i] \in Block
  BY ApartFacts DEF HeapInv, Tiles, Apart
<1>3. FirstFit(m) # 0
  <2> SUFFICES ASSUME FirstFit(m) = 0 PROVE FALSE
    OBVIOUS
  <2>1. Len(freeList) \in Nat /\ ~(0 \in 1..Len(freeList))
    BY <1>2
  <2>2. freeList[i].size < m
    BY <2>1, <1>2, FitFound
  <2> QED
    BY <2>2, <1>1, <1>2, BlockFacts
<1>4. freeList[i].size <= Sum(Blocks(freeList)) /\ freeList[i].size \in Nat
  <2>1. freeList[i] \in Blocks(freeList)
    BY DEF Blocks
  <2> QED
    BY <2>1, ApartFacts, SizeWithinSum DEF HeapInv, Tiles
<1>5. xFreeBytesRemaining \in Nat /\ xFreeBytesRemaining = Sum(Blocks(freeList))
  BY TilesFacts DEF HeapInv, Tiles
<1> QED
  BY <1>1, <1>3, <1>4, <1>5 DEF Refused

LEMMA HeapStarts == HeapInit => HeapInv
<1> SUFFICES ASSUME HeapInit PROVE HeapInv
  OBVIOUS
<1>1. PICK b : b = [addr |-> 0, size |-> HeapSize]
  OBVIOUS
<1>2. b \in Block /\ b.addr = 0 /\ b.size = HeapSize /\ End(b) = HeapSize
  BY <1>1, SizesNat, HeapAssumption, BlockMade
<1>3. PICK list : list = <<b>>
  OBVIOUS
<1>4. list \in Seq(Block) /\ Len(list) = 1 /\ list[1] = b
  BY <1>2, <1>3
<1>5. Apart(list)
  <2>1. \A i \in 1..Len(list) : End(list[i]) <= HeapSize
    BY <1>2, <1>4, SizesNat
  <2>2. \A i, j \in 1..Len(list) : ~(i < j)
    BY <1>4
  <2> QED
    BY <1>4, <2>1, <2>2 DEF Apart
<1>6. Blocks(list) = {b}
  BY <1>4 DEF Blocks
<1>7. Sum({}) = 0
  BY FS_EmptySet, SumFacts DEF Sized
<1>8. Sum(Blocks(list)) = HeapSize
  <2>1. IsFiniteSet({b}) /\ Sized({b}) /\ b \in {b} /\ {b} \ {b} = {}
    BY <1>2, FS_Singleton, SizesNat DEF Sized
  <2>2. Sum({b}) = b.size + Sum({})
    BY <2>1, SumFacts
  <2> QED
    BY <2>2, <1>2, <1>6, <1>7, SizesNat
<1>9. Covered(Blocks(list)) = Unit /\ Covered({}) = {}
  <2>1. Covered({b}) = Units(b)
    BY DEF Covered
  <2>2. \A u : u \in Units(b) <=> u \in Unit
    BY <1>2, UnitsFacts, SizesNat DEF Unit
  <2> QED
    BY <2>1, <2>2, <1>6 DEF Covered
<1>10. Tiles(list, {}, HeapSize)
  BY <1>5, <1>7, <1>8, <1>9, SizesNat DEF Tiles
<1> QED
  BY <1>1, <1>3, <1>10 DEF HeapInit, HeapInv

\* The addresses of the allocated blocks; a block with room for a request.
Addrs == {b.addr : b \in used}
Room(ptr, size) == \E b \in used : b.addr = ptr /\ b.size >= size + HeaderSize

\* pvPortMalloc hands out a block that nobody has, or there is no room.
LEMMA PortMallocTakes ==
  ASSUME HeapInv, NEW size \in Nat, PortMalloc(size)
  PROVE  /\ HeapInv'
         /\ \/ MallocResult(size) = NULL /\ UNCHANGED heapVars /\ ~Gap(size + HeaderSize)
            \/ /\ MallocResult(size) # NULL
               /\ \E t \in Block :
                    /\ used' = used \cup {t}
                    /\ MallocResult(size) = t.addr
                    /\ t.addr \notin Addrs
                    /\ t.size >= size + HeaderSize
<1>1. PICK n \in Nat : n = size + HeaderSize
  BY SizesNat
<1>2. n >= 1
  BY <1>1, SizesNat
<1>3. CASE Refused(n)
  <2>1. MallocResult(size) = NULL
    BY <1>1, <1>3 DEF MallocResult
  <2>2. UNCHANGED heapVars
    BY <1>1, <1>3 DEF PortMalloc
  <2>3. ~Gap(n)
    BY <1>2, <1>3, RefusedIsFull
  <2>4. HeapInv'
    BY <2>2 DEF HeapInv, heapVars
  <2> QED
    BY <1>1, <2>1, <2>2, <2>3, <2>4
<1>4. CASE ~Refused(n)
  <2>1. freeList \in Seq(Block) /\ Apart(freeList)
    BY DEF HeapInv, Tiles, Apart
  <2>2. PICK k \in 1..Len(freeList) : k = FirstFit(n) /\ freeList[k].size >= n
    BY <2>1, <1>4, FitFound DEF Refused
  <2>3. PICK b \in Block : b = freeList[k] /\ End(b) <= HeapSize
    BY <2>1, ApartFacts DEF Apart
  <2>4. /\ b.addr \in Nat /\ b.size \in Nat /\ b.size >= n /\ b = [addr |-> b.addr, size |-> b.size]
        /\ End(b) \in Nat /\ End(b) = b.addr + b.size /\ End(b) <= HeapSize
    BY <2>2, <2>3, BlockFacts
  <2>5. PICK others : others = RemoveAt(freeList, k)
    OBVIOUS
  <2>6. /\ Apart(others)
        /\ \A i \in 1..Len(others) : Units(others[i]) \cap Units(b) = {}
        /\ Covered(Blocks(freeList)) = Covered(Blocks(others)) \cup Units(b)
        /\ Covered(Blocks(others)) \cap Units(b) = {}
        /\ Sum(Blocks(freeList)) = Sum(Blocks(others)) + b.size
    BY <2>1, <2>3, <2>5, BlockTaken
  <2>7. PICK t : t = Taken(b, n)
    OBVIOUS
  <2>8. PICK new : new = IF t = b THEN others
                         ELSE InsertBlock(others, [addr |-> End(t), size |-> b.size - n])
    OBVIOUS
  <2>9. /\ freeList' = new /\ used' = used \cup {t}
        /\ xFreeBytesRemaining' = xFreeBytesRemaining - t.size
    BY <1>1, <1>4, <2>2, <2>3, <2>5, <2>7, <2>8 DEF PortMalloc
  <2>10. /\ t \in Block /\ End(t) <= HeapSize /\ t.addr = b.addr /\ t.size >= n
         /\ Apart(new)
         /\ Covered(Blocks(freeList)) = Covered(Blocks(new)) \cup Units(t)
         /\ Covered(Blocks(new)) \cap Units(t) = {}
         /\ Sum(Blocks(freeList)) = Sum(Blocks(new)) + t.size
    <3>1. CASE t = b
      BY <3>1, <2>3, <2>4, <2>6, <2>8
    <3>2. CASE t # b
      <4>1. t = [addr |-> b.addr, size |-> n] /\ b.size - n > MinimumBlockSize
        <5>1. t = [b EXCEPT !.size = n] /\ b.size - n > MinimumBlockSize
          BY <3>2, <2>7 DEF Taken
        <5> QED
          BY <5>1, <2>4
      <4>2. PICK d \in Nat : d = b.size - n
        BY <2>4
      <4>3. d >= 1 /\ b.size = n + d
        BY <4>1, <4>2, <2>4, SizesNat DEF MinimumBlockSize
      <4>4. t \in Block /\ End(t) = b.addr + n /\ t.addr = b.addr /\ t.size = n
        <5>1. b.addr + n <= HeapSize
          BY <4>2, <4>3, <2>4, SizesNat
        <5> QED
          BY <5>1, <4>1, <1>2, <2>4, BlockMade
      <4>5. PICK e \in Nat : e = b.addr + n
        BY <2>4
      <4>6. e + d = End(b)
        BY <4>3, <4>5, <2>4
      <4>7. PICK c : c = [addr |-> e, size |-> d]
        OBVIOUS
      <4>8. c \in Block /\ End(c) = End(b) /\ c.addr = e /\ c.size = d
        BY <4>3, <4>6, <4>7, <2>4, BlockMade
      <4>9. new = InsertBlock(others, c)
        BY <3>2, <2>8, <4>2, <4>4, <4>5, <4>7
      <4>10. \A u : u \in Units(b) <=> u \in Units(c) \/ u \in Units(t)
        <5>1. \A u : u \in Units(b) <=> u \in Nat /\ b.addr <= u /\ u < End(b)
          BY UnitsFacts
        <5>2. \A u : u \in Units(c) <=> u \in Nat /\ e <= u /\ u < End(b)
          BY <4>8, UnitsFacts
        <5>3. \A u : u \in Units(t) <=> u \in Nat /\ b.addr <= u /\ u < e
          BY <4>4, <4>5, UnitsFacts
        <5>4. \A u \in Nat : b.addr <= u /\ u < End(b) <=>
                \/ e <= u /\ u < End(b)
                \/ b.addr <= u /\ u < e
          BY <4>3, <4>5, <4>6, <2>4
        <5> QED
          BY <5>1, <5>2, <5>3, <5>4
      <4>11. Units(c) \cap Units(t) = {}
        BY <4>4, <4>5, <4>8, Disjoint
      <4>12. \A i \in 1..Len(others) : Units(others[i]) \cap Units(c) = {}
        BY <2>6, <4>10
      <4>13. Grows(new, others, c)
        BY <4>8, <4>9, <4>12, <2>4, <2>6, InsertBlockGrows
      <4>14. Sum(Blocks(others)) \in Nat
        BY <2>6, ApartFacts, SumFacts
      <4>15. Sum(Blocks(freeList)) = Sum(Blocks(new)) + t.size
        <5>1. Sum(Blocks(new)) = Sum(Blocks(others)) + d
          BY <4>8, <4>13 DEF Grows
        <5> QED
          BY <5>1, <4>3, <4>4, <4>14, <2>6
      <4>16. /\ Covered(Blocks(freeList)) = Covered(Blocks(new)) \cup Units(t)
             /\ Covered(Blocks(new)) \cap Units(t) = {}
        BY <4>10, <4>11, <4>13, <2>6 DEF Grows
      <4>17. End(t) <= HeapSize /\ t.size >= n
        BY <4>3, <4>4, <2>4, SizesNat
      <4> QED
        BY <4>4, <4>13, <4>15, <4>16, <4>17 DEF Grows
    <3> QED
      BY <3>1, <3>2
  <2>11. /\ Tiles(new, used \cup {t}, xFreeBytesRemaining - t.size)
         /\ \A c \in used : c.addr # t.addr
    BY <2>10, TakenTiles DEF HeapInv
  <2>12. HeapInv'
    BY <2>9, <2>11 DEF HeapInv
  <2>13. MallocResult(size) = t.addr
    BY <1>1, <1>4, <2>2, <2>3, <2>10 DEF MallocResult
  <2>14. t.addr # NULL
    BY <2>4, <2>10, SizesNat
  <2>15. t.addr \notin Addrs
    BY <2>11 DEF Addrs
  <2> QED
    BY <1>1, <2>9, <2>10, <2>12, <2>13, <2>14, <2>15
<1> QED
  BY <1>3, <1>4

\* vPortFree gives exactly the block back that it is handed.
LEMMA PortFreeGives ==
  ASSUME HeapInv, NEW ptr, ptr \in Addrs, PortFree(ptr)
  PROVE  /\ HeapInv'
         /\ \E b \in used : b.addr = ptr /\ used' = used \ {b}
<1>1. PICK b \in used :
        /\ b.addr = ptr
        /\ freeList' = InsertBlock(freeList, b)
        /\ used' = used \ {b}
        /\ xFreeBytesRemaining' = xFreeBytesRemaining + b.size
  BY DEF PortFree, Addrs
<1>2. Tiles(InsertBlock(freeList, b), used \ {b}, xFreeBytesRemaining + b.size)
  BY FreedTiles DEF HeapInv
<1> QED
  BY <1>1, <1>2 DEF HeapInv

LEMMA NoPortFree ==
  ASSUME NEW ptr, ptr \notin Addrs, PortFree(ptr)
  PROVE  UNCHANGED heapVars
BY DEF PortFree, Addrs

\* What the tiling means for the properties.
LEMMA HeapInvImplies == HeapInv => HeapTiled /\ HeapTypeOK
<1> SUFFICES ASSUME HeapInv PROVE HeapTiled /\ HeapTypeOK
  OBVIOUS
<1>1. PICK list : list = freeList
  OBVIOUS
<1>2. PICK blocks : blocks = used
  OBVIOUS
<1>3. Tiles(list, blocks, xFreeBytesRemaining) /\ Apart(list)
  BY <1>1, <1>2 DEF HeapInv, Tiles
<1>4. Len(list) \in Nat /\ list \in Seq(Block) /\ Blocks(list) \in SUBSET Block
  BY <1>3, ApartFacts DEF Apart
<1>5. PICK free : free = {list[i] : i \in DOMAIN list}
  OBVIOUS
<1>6. free = Blocks(list)
  BY <1>4, <1>5, LenProperties DEF Blocks
<1>7. ASSUME NEW i \in 1..(Len(list) - 1) PROVE End(list[i]) < list[i + 1].addr
  <2>1. i \in 1..Len(list) /\ i + 1 \in 1..Len(list) /\ i < i + 1
    BY <1>4
  <2> QED
    BY <2>1, <1>3 DEF Apart
<1>8. \A b \in free \cup blocks : End(b) <= HeapSize
  BY <1>3, <1>6 DEF Tiles, Apart, Blocks
<1>9. ASSUME NEW b \in free \cup blocks, NEW c \in free \cup blocks, b # c
      PROVE  End(b) <= c.addr \/ End(c) <= b.addr
  <2>1. b \in Block /\ c \in Block
    BY <1>3, <1>4, <1>6 DEF Tiles
  <2>2. CASE b \in free /\ c \in free
    <3>1. PICK i \in 1..Len(list) : b = list[i]
      BY <2>2, <1>6 DEF Blocks
    <3>2. PICK j \in 1..Len(list) : c = list[j]
      BY <2>2, <1>6 DEF Blocks
    <3>3. i < j \/ j < i
      BY <3>1, <3>2, <1>4, <1>9
    <3>4. End(b) < c.addr \/ End(c) < b.addr
      BY <3>1, <3>2, <3>3, <1>3 DEF Apart
    <3> QED
      BY <3>4, <2>1, BlockFacts
  <2>3. CASE b \in blocks /\ c \in blocks
    <3>1. Units(b) \cap Units(c) = {}
      BY <2>3, <1>3, <1>9 DEF Tiles
    <3> QED
      BY <3>1, <2>1, Disjoint
  <2>4. CASE b \in free /\ c \in blocks
    <3>1. Units(b) \subseteq Covered(Blocks(list)) /\ Units(c) \subseteq Covered(blocks)
      BY <2>4, <1>6 DEF Covered
    <3>2. Units(b) \cap Units(c) = {}
      BY <3>1, <1>3 DEF Tiles
    <3> QED
      BY <3>2, <2>1, Disjoint
  <2>5. CASE b \in blocks /\ c \in free
    <3>1. Units(c) \subseteq Covered(Blocks(list)) /\ Units(b) \subseteq Covered(blocks)
      BY <2>5, <1>6 DEF Covered
    <3>2. Units(b) \cap Units(c) = {}
      BY <3>1, <1>3 DEF Tiles
    <3> QED
      BY <3>2, <2>1, Disjoint
  <2> QED
    BY <2>2, <2>3, <2>4, <2>5
<1>10. Sum(free) = xFreeBytesRemaining /\ Sum(free) + Sum(blocks) = HeapSize
  BY <1>3, <1>6 DEF Tiles
<1>11. HeapTiled
  BY <1>1, <1>2, <1>5, <1>7, <1>8, <1>9, <1>10 DEF HeapTiled
<1>12. xFreeBytesRemaining \in 0..HeapSize
  BY <1>3, TilesFacts, SizesNat
<1>13. freeList \in Seq(Block) /\ used \subseteq Block
  BY <1>1, <1>2, <1>3, <1>4 DEF Tiles
<1> QED
  BY <1>11, <1>12, <1>13 DEF HeapTypeOK

-----------------------------------------------------------------------------
(* Who holds what *)

Objs == {"table", "table_lock", "pool", "pool_lock"}
Points == {"sleep", "create", "table_lock", "pool", "pool_lock", "free_table", "assert", "stopped",
           "push", "cells", "del_row", "del_pool", "del_lock", "del_table"}

\* The pointers of a row and of a list of rows; each is there once.
Strs(s) == {s[i] : i \in 1..Len(s)}
RowPtrs(r) == ({r.row, r.node} \cup Strs(r.str)) \ {NULL}
ListPtrs(q) == UNION {RowPtrs(q[i]) : i \in 1..Len(q)}
RowOnce(r) ==
  /\ r.row = r.node => r.row = NULL
  /\ \A i \in 1..Len(r.str) : r.str[i] \in {r.row, r.node} => r.str[i] = NULL
  /\ \A i, j \in 1..Len(r.str) : r.str[i] = r.str[j] /\ i # j => r.str[i] = NULL
ListOnce(q) ==
  /\ \A i \in 1..Len(q) : RowOnce(q[i])
  /\ \A i, j \in 1..Len(q) : i # j => RowPtrs(q[i]) \cap RowPtrs(q[j]) = {}

\* The mutexes, and what else print_info has.
Locks(obj) == {obj["table_lock"], obj["pool_lock"]} \ {NULL}
Plain(obj) == {obj["table"], obj["pool"]} \ {NULL}
Own(obj, r, q) == Plain(obj) \cup RowPtrs(r) \cup ListPtrs(q)
OwnOnce(obj, r, q) ==
  /\ obj \in [Objs -> Ptr] /\ r \in RowType /\ q \in Seq(RowType)
  /\ \A o, p \in Objs : obj[o] = obj[p] /\ o # p => obj[o] = NULL
  /\ RowOnce(r) /\ ListOnce(q)
  /\ RowPtrs(r) \cap ListPtrs(q) = {}
  /\ (Plain(obj) \cup Locks(obj)) \cap (RowPtrs(r) \cup ListPtrs(q)) = {}

HeldPtrs(h) == UNION {h[w] : w \in Worker}
HeldOnce(h) ==
  /\ h \in [Worker -> SUBSET Unit]
  /\ \A v, w \in Worker : v # w => h[v] \cap h[w] = {}

\* The books are right if tasks hold the mutexes L and else P, and X has leaked.
Books(P, L, X) ==
  /\ P \cap L = {} /\ (P \cup L) \cap X = {}
  /\ Addrs = P \cup L \cup X
  /\ \A r \in mem_db : r \in [ptr : Unit, size : Nat \ {0}] /\ Room(r.ptr, r.size)
  /\ \A r, s \in mem_db : r.ptr = s.ptr => r = s
  /\ IsFiniteSet(mem_db) /\ Cardinality(mem_db) <= DbSize
  /\ {r.ptr : r \in mem_db} \cup untraced = P \ Pending
  /\ {r.ptr : r \in mem_db} \cap untraced = {}
  /\ lost \in Nat /\ peak = Sum(mem_db) + lost
  /\ pending \in [Worker \cup {INFO} -> [ptr : Ptr, size : Nat]]
  /\ \A t \in Worker \cup {INFO} : pending[t] # NoCall => pending[t].size >= 1
  /\ \A t \in Worker \cup {INFO} :
       pending[t].ptr # NULL => pending[t].ptr \in P /\ Room(pending[t].ptr, pending[t].size)
  /\ \A s, t \in Worker \cup {INFO} : pending[s].ptr = pending[t].ptr /\ s # t => pending[s].ptr = NULL

\* Where print_info is tells what it has.
Stage ==
  /\ at \in Points
  /\ at \in {"sleep", "create"} => object["table"] = NULL
  /\ at \in {"sleep", "create", "table_lock", "del_table"} => object["table_lock"] = NULL
  /\ at \in {"sleep", "create", "table_lock", "pool", "free_table", "del_lock", "del_table"} =>
       object["pool"] = NULL
  /\ at \in {"sleep", "create", "table_lock", "pool", "free_table", "del_lock", "del_table",
             "pool_lock", "del_pool"} => object["pool_lock"] = NULL
  /\ at \notin {"cells", "del_row"} => row = NoRow
  /\ row.node = NULL
  /\ at \notin {"push", "cells", "del_row"} => pool = <<>>
  /\ at \in {"sleep", "create", "table_lock", "pool", "pool_lock", "free_table"} => count = 0

\* The pool is empty after as many pops as pushes.
Counts ==
  /\ count \in 0..(2 * Rows + 1)
  /\ at = "cells" => count < Rows
  /\ count < Rows => Len(pool) <= count
  /\ count >= Rows /\ at # "del_row" => Len(pool) + count <= 2 * Rows \/ pool = <<>>
  /\ count >= Rows /\ at = "del_row" => Len(pool) + count < 2 * Rows

Flags ==
  /\ logging \in [{INFO, CLI} -> BOOLEAN] /\ locker \in {NONE, INFO, CLI}
  /\ cli \in {"idle", "head", "print"}

Holders ==
  /\ OwnOnce(object, row, pool)
  /\ HeldOnce(held)
  /\ (Own(object, row, pool) \cup Locks(object)) \cap HeldPtrs(held) = {}
  /\ \A w \in Worker : pending[w].ptr \in held[w] \cup {NULL}
  /\ pending[INFO].ptr \in Own(object, row, pool) \cup {NULL}

BooksRight == \E X \in SUBSET Unit :
  /\ Books(Own(object, row, pool) \cup HeldPtrs(held), Locks(object), X)
  /\ at \notin {"assert", "stopped"} => X = {}

\* The inductive invariant: the heap is tiled, no pointer is in two hands, the
\* books agree with the hands, and print_info has what its stage says.
MemInv == HeapInv /\ Holders /\ BooksRight /\ Stage /\ Counts /\ Flags

-----------------------------------------------------------------------------
(* The books, step by step *)

LEMMA TypesHere ==
  /\ SizeOf \in [Kind -> Nat \ {0}] /\ WorkerSize \subseteq Nat \ {0}
  /\ INFO # CLI /\ INFO \notin Worker /\ CLI \notin Worker /\ NONE \notin Worker
  /\ Rows \in Nat /\ Strings \in Nat /\ DbSize \in Nat /\ NULL \notin Unit /\ Unit \in SUBSET Nat
BY MemoryAssumption, SizesNat DEF Unit

LEMMA MallocAddrs ==
  ASSUME HeapInv, NEW size \in Nat, PortMalloc(size), NEW p, p = MallocResult(size)
  PROVE  /\ HeapInv'
         /\ p \in Ptr /\ p \notin Addrs
         /\ Addrs' = Addrs \cup ({p} \ {NULL})
         /\ \A q, s : Room(q, s) => Room(q, s)'
         /\ p # NULL => Room(p, size)'
         /\ p = NULL => ~Gap(size + HeaderSize)
<1>1. NULL \notin Addrs
  BY TypesHere, BlockFacts DEF Addrs, HeapInv, Tiles
<1>2. CASE MallocResult(size) = NULL /\ UNCHANGED heapVars /\ ~Gap(size + HeaderSize)
  <2>1. used' = used /\ p = NULL
    BY <1>2 DEF heapVars
  <2>2. Addrs' = Addrs /\ \A q, s : Room(q, s) => Room(q, s)'
    BY <2>1 DEF Addrs, Room
  <2> QED
    BY <2>1, <2>2, <1>1, <1>2, PortMallocTakes DEF Ptr
<1>3. ASSUME NEW t \in Block, used' = used \cup {t}, MallocResult(size) = t.addr, t.addr \notin Addrs,
             t.size >= size + HeaderSize, MallocResult(size) # NULL
      PROVE  /\ p \in Ptr /\ p \notin Addrs /\ p # NULL
             /\ Addrs' = Addrs \cup ({p} \ {NULL})
             /\ \A q, s : Room(q, s) => Room(q, s)'
             /\ Room(p, size)'
  <2>1. p = t.addr /\ p # NULL /\ p \in Unit
    BY <1>3, BlockFacts
  <2>2. Addrs' = Addrs \cup {p}
    BY <1>3, <2>1 DEF Addrs
  <2>3. \A q, s : Room(q, s) => Room(q, s)'
    BY <1>3 DEF Room
  <2>4. Room(p, size)'
    BY <1>3, <2>1 DEF Room
  <2> QED
    BY <2>1, <2>2, <2>3, <2>4, <1>3 DEF Ptr
<1> QED
  BY <1>2, <1>3, PortMallocTakes

LEMMA FreeAddrs ==
  ASSUME HeapInv, NEW ptr, PortFree(ptr)
  PROVE  /\ HeapInv'
         /\ Addrs' = Addrs \ {ptr}
         /\ \A q, s : q # ptr /\ Room(q, s) => Room(q, s)'
<1>1. CASE ptr \notin Addrs
  <2>1. UNCHANGED heapVars
    BY <1>1, NoPortFree
  <2> QED
    BY <2>1, <1>1 DEF heapVars, HeapInv, Addrs, Room
<1>2. CASE ptr \in Addrs
  <2>1. HeapInv'
    BY <1>2, PortFreeGives
  <2>2. PICK b \in used : b.addr = ptr /\ used' = used \ {b}
    BY <1>2, PortFreeGives
  <2>3. \A c \in used : c.addr = ptr => c = b
    BY <2>2, TilesFacts DEF HeapInv
  <2>4. Addrs' = Addrs \ {ptr}
    BY <2>2, <2>3 DEF Addrs
  <2>5. \A q, s : q # ptr /\ Room(q, s) => Room(q, s)'
    BY <2>2, <2>3 DEF Room
  <2> QED
    BY <2>1, <2>4, <2>5
<1> QED
  BY <1>1, <1>2

\* A step that leaves the blocks and the trace as they are.
LEMMA BooksKept ==
  ASSUME HeapInv, NEW P, NEW L, NEW X, Books(P, L, X), UNCHANGED <<heapVars, traceVars, pending>>
  PROVE  HeapInv' /\ Books(P, L, X)'
<1>1. /\ freeList' = freeList /\ used' = used /\ xFreeBytesRemaining' = xFreeBytesRemaining
      /\ mem_db' = mem_db /\ peak' = peak /\ untraced' = untraced /\ lost' = lost /\ pending' = pending
  BY DEF heapVars, traceVars
<1>2. HeapInv'
  BY <1>1 DEF HeapInv
<1>3. Addrs' = Addrs /\ \A q, s : Room(q, s) => Room(q, s)'
  BY <1>1 DEF Addrs, Room
<1>4. Pending' = Pending
  BY <1>1 DEF Pending
<1> QED
  BY <1>1, <1>2, <1>3, <1>4 DEF Books

\* adp_os_malloc_trace, first half: a block that is held and not yet traced.
LEMMA BooksMalloc ==
  ASSUME HeapInv, NEW P, NEW L, NEW X, Books(P, L, X),
         NEW t \in Worker \cup {INFO}, pending[t] = NoCall,
         NEW size \in Nat, size >= 1, TraceMalloc(t, size), NEW p, p = MallocResult(size)
  PROVE  /\ HeapInv'
         /\ p \in Ptr /\ p \notin P \cup L
         /\ pending' = [pending EXCEPT ![t] = [ptr |-> p, size |-> size]]
         /\ Books(P \cup ({p} \ {NULL}), L, X)'
<1>1. PortMalloc(size) /\ pending' = [pending EXCEPT ![t] = [ptr |-> p, size |-> size]]
      /\ mem_db' = mem_db /\ peak' = peak /\ untraced' = untraced /\ lost' = lost
  BY DEF TraceMalloc, traceVars
<1>2. /\ HeapInv'
      /\ p \in Ptr /\ p \notin Addrs
      /\ Addrs' = Addrs \cup ({p} \ {NULL})
      /\ \A q, s : Room(q, s) => Room(q, s)'
      /\ p # NULL => Room(p, size)'
  BY <1>1, MallocAddrs
<1>3. PICK Q : Q = P \cup ({p} \ {NULL})
  OBVIOUS
<1>4. PICK c : c = [ptr |-> p, size |-> size]
  OBVIOUS
<1>5. c.ptr = p /\ c.size = size /\ c \in [ptr : Ptr, size : Nat]
  BY <1>2, <1>4
<1>6. p \notin P /\ p \notin L /\ p \notin X /\ Addrs = P \cup L \cup X
  BY <1>2 DEF Books
<1>7. pending \in [Worker \cup {INFO} -> [ptr : Ptr, size : Nat]] /\ NoCall.ptr = NULL
  BY DEF Books, NoCall
<1>8. \A s \in Worker \cup {INFO} : pending'[s] = IF s = t THEN c ELSE pending[s]
  BY <1>1, <1>4, <1>7
<1>9. pending' \in [Worker \cup {INFO} -> [ptr : Ptr, size : Nat]]
  BY <1>1, <1>4, <1>5, <1>7
<1>10. Pending' = Pending \cup ({p} \ {NULL})
  BY <1>5, <1>7, <1>8, <1>9 DEF Pending
<1>11. Q \cap L = {} /\ (Q \cup L) \cap X = {} /\ Addrs' = Q \cup L \cup X
  BY <1>2, <1>3, <1>6 DEF Books
<1>12. \A r \in mem_db' : r \in [ptr : Unit, size : Nat \ {0}] /\ Room(r.ptr, r.size)'
  BY <1>1, <1>2 DEF Books
<1>13. /\ {r.ptr : r \in mem_db'} \cup untraced' = Q \ Pending'
       /\ {r.ptr : r \in mem_db'} \cap untraced' = {}
  BY <1>1, <1>3, <1>6, <1>10 DEF Books
<1>14. \A s \in Worker \cup {INFO} : pending'[s] # NoCall => pending'[s].size >= 1
  BY <1>5, <1>8 DEF Books
<1>15. ASSUME NEW s \in Worker \cup {INFO}, pending'[s].ptr # NULL
       PROVE  pending'[s].ptr \in Q /\ Room(pending[s].ptr, pending[s].size)'
  <2>1. PICK q : q = pending'[s].ptr
    OBVIOUS
  <2>2. PICK n : n = pending'[s].size
    OBVIOUS
  <2>3. CASE s = t
    <3>1. q = p /\ n = size
      BY <2>1, <2>2, <2>3, <1>5, <1>8
    <3>2. Room(q, n)' /\ q \in Q
      BY <3>1, <2>1, <1>2, <1>3, <1>15
    <3> QED
      BY <3>2, <2>1, <2>2
  <2>4. CASE s # t
    <3>1. q = pending[s].ptr /\ n = pending[s].size
      BY <2>1, <2>2, <2>4, <1>8
    <3>2. pending[s].ptr # NULL
      BY <3>1, <2>1, <1>15
    <3>3. pending[s].ptr \in P /\ Room(pending[s].ptr, pending[s].size)
      BY <3>2 DEF Books
    <3>4. q \in P /\ Room(q, n)
      BY <3>1, <3>3
    <3>5. Room(q, n)' /\ q \in Q
      BY <3>4, <1>2, <1>3
    <3> QED
      BY <3>5, <2>1, <2>2
  <2> QED
    BY <2>3, <2>4
<1>16. ASSUME NEW s \in Worker \cup {INFO}, NEW u \in Worker \cup {INFO}, s # u,
              pending'[s].ptr = pending'[u].ptr
       PROVE  pending'[s].ptr = NULL
  BY <1>5, <1>6, <1>8, <1>16 DEF Books
<1>17. Books(Q, L, X)'
  BY <1>1, <1>9, <1>11, <1>12, <1>13, <1>14, <1>15, <1>16 DEF Books
<1> QED
  BY <1>1, <1>2, <1>3, <1>6, <1>17

\* A mutex comes straight from the heap.
LEMMA BooksMutex ==
  ASSUME HeapInv, NEW P, NEW L, NEW X, Books(P, L, X),
         NEW size \in Nat, PortMalloc(size), UNCHANGED <<traceVars, pending>>,
         NEW p, p = MallocResult(size)
  PROVE  /\ HeapInv'
         /\ p \in Ptr /\ p \notin P \cup L
         /\ Books(P, L \cup ({p} \ {NULL}), X)'
<1>1. mem_db' = mem_db /\ peak' = peak /\ untraced' = untraced /\ lost' = lost /\ pending' = pending
  BY DEF traceVars
<1>2. /\ HeapInv'
      /\ p \in Ptr /\ p \notin Addrs
      /\ Addrs' = Addrs \cup ({p} \ {NULL})
      /\ \A q, s : Room(q, s) => Room(q, s)'
  BY MallocAddrs
<1>3. PICK M : M = L \cup ({p} \ {NULL})
  OBVIOUS
<1>4. p \notin P /\ p \notin L /\ p \notin X /\ Addrs = P \cup L \cup X
  BY <1>2 DEF Books
<1>5. P \cap M = {} /\ (P \cup M) \cap X = {} /\ Addrs' = P \cup M \cup X
  BY <1>2, <1>3, <1>4 DEF Books
<1>6. Pending' = Pending
  BY <1>1 DEF Pending
<1>7. Books(P, M, X)'
  BY <1>1, <1>2, <1>5, <1>6 DEF Books
<1> QED
  BY <1>2, <1>3, <1>4, <1>7

\* adp_os_free_trace of what nobody is about to trace.
LEMMA BooksFree ==
  ASSUME HeapInv, NEW P, NEW L, NEW X, Books(P, L, X),
         NEW ptr, ptr \in P \cup {NULL}, ptr \notin Pending, NULL \notin P,
         TraceFree(ptr), UNCHANGED pending
  PROVE  /\ HeapInv'
         /\ Books(P \ {ptr}, L, X)'
<1>1. CASE ptr = NULL
  <2>1. UNCHANGED <<heapVars, traceVars, pending>>
    BY <1>1 DEF TraceFree
  <2>2. HeapInv' /\ Books(P, L, X)'
    BY <2>1, BooksKept
  <2>3. P \ {ptr} = P
    BY <1>1
  <2> QED
    BY <2>2, <2>3
<1>2. CASE ptr # NULL
  <2>1. PortFree(ptr)
    BY <1>2 DEF TraceFree
  <2>2. /\ HeapInv'
        /\ Addrs' = Addrs \ {ptr}
        /\ \A q, s : q # ptr /\ Room(q, s) => Room(q, s)'
    BY <2>1, FreeAddrs
  <2>3. PICK Q : Q = P \ {ptr}
    OBVIOUS
  <2>4. ptr \in P /\ ptr \notin L /\ ptr \notin X
    BY <1>2 DEF Books
  <2>5. Q \cap L = {} /\ (Q \cup L) \cap X = {} /\ Addrs' = Q \cup L \cup X
    BY <2>2, <2>3, <2>4 DEF Books
  <2>6. Pending' = Pending /\ pending' = pending
    BY DEF Pending
  <2>7. \A s \in Worker \cup {INFO} : pending[s].ptr # NULL => pending[s].ptr \in Pending
    BY DEF Pending, Books
  <2>8. /\ pending \in [Worker \cup {INFO} -> [ptr : Ptr, size : Nat]]
        /\ \A s \in Worker \cup {INFO} : pending[s] # NoCall => pending[s].size >= 1
        /\ \A s, u \in Worker \cup {INFO} : pending[s].ptr = pending[u].ptr /\ s # u => pending[s].ptr = NULL
    BY DEF Books
  <2>9. ASSUME NEW s \in Worker \cup {INFO}, pending[s].ptr # NULL
        PROVE  pending[s].ptr \in Q /\ Room(pending[s].ptr, pending[s].size)'
    <3>1. PICK q : q = pending[s].ptr
      OBVIOUS
    <3>2. PICK n : n = pending[s].size
      OBVIOUS
    <3>3. q # ptr /\ q \in P /\ Room(q, n)
      BY <2>7, <2>9, <3>1, <3>2 DEF Books
    <3>4. Room(q, n)'
      BY <3>3, <2>2
    <3> QED
      BY <3>1, <3>2, <3>3, <3>4, <2>3, <2>6
  <2>10. CASE Traced(ptr)
    <3>1. PICK r \in mem_db :
            /\ r.ptr = ptr /\ mem_db' = mem_db \ {r} /\ peak' = peak - r.size
            /\ untraced' = untraced /\ lost' = lost
      BY <1>2, <2>10 DEF TraceFree
    <3>2. \A s \in mem_db : s.ptr = ptr => s = r
      BY <3>1 DEF Books
    <3>3. {s.ptr : s \in mem_db'} = {s.ptr : s \in mem_db} \ {ptr}
      BY <3>1, <3>2
    <3>4. ptr \notin untraced
      BY <3>1 DEF Books
    <3>5. /\ {s.ptr : s \in mem_db'} \cup untraced' = Q \ Pending'
          /\ {s.ptr : s \in mem_db'} \cap untraced' = {}
      BY <2>3, <2>6, <3>1, <3>3, <3>4 DEF Books
    <3>6. ASSUME NEW s \in mem_db' PROVE s \in [ptr : Unit, size : Nat \ {0}] /\ Room(s.ptr, s.size)'
      <4>1. s \in mem_db /\ s.ptr # ptr
        BY <3>1, <3>2
      <4>2. s \in [ptr : Unit, size : Nat \ {0}] /\ Room(s.ptr, s.size)
        BY <4>1 DEF Books
      <4> QED
        BY <4>1, <4>2, <2>2
    <3>7. \A s, u \in mem_db' : s.ptr = u.ptr => s = u
      BY <3>1 DEF Books
    <3>8. IsFiniteSet(mem_db) /\ Sized(mem_db) /\ Cardinality(mem_db) <= DbSize /\ r.size \in Nat
      BY <3>1 DEF Books, Sized
    <3>9. IsFiniteSet(mem_db') /\ Sized(mem_db') /\ Cardinality(mem_db') <= DbSize
      <4>1. IsFiniteSet(mem_db \ {r}) /\ Cardinality(mem_db \ {r}) <= Cardinality(mem_db)
        BY <3>8, FS_Subset
      <4>2. Cardinality(mem_db \ {r}) \in Nat /\ Cardinality(mem_db) \in Nat
        BY <4>1, <3>8, FS_CardinalityType
      <4> QED
        BY <4>1, <4>2, <3>1, <3>8, TypesHere DEF Sized
    <3>10. lost' \in Nat /\ peak' = Sum(mem_db)' + lost'
      <4>1. PICK y : y = mem_db \ {r}
        OBVIOUS
      <4>2. Sum(mem_db) = r.size + Sum(y) /\ Sum(y) \in Nat
        BY <4>1, <3>1, <3>8, <3>9, SumFacts
      <4>3. lost \in Nat /\ peak = Sum(mem_db) + lost
        BY DEF Books
      <4>4. peak' = Sum(y) + lost
        BY <4>2, <4>3, <3>1, <3>8
      <4> QED
        BY <4>1, <4>3, <4>4, <3>1
    <3>11. Books(Q, L, X)'
      BY <2>5, <2>6, <2>8, <2>9, <3>5, <3>6, <3>7, <3>9, <3>10 DEF Books
    <3> QED
      BY <3>11, <2>2, <2>3
  <2>11. CASE ~Traced(ptr)
    <3>1. untraced' = untraced \ {ptr} /\ mem_db' = mem_db /\ peak' = peak /\ lost' = lost
      BY <1>2, <2>11 DEF TraceFree
    <3>2. ptr \notin {s.ptr : s \in mem_db}
      BY <2>11 DEF Traced
    <3>3. /\ {s.ptr : s \in mem_db'} \cup untraced' = Q \ Pending'
          /\ {s.ptr : s \in mem_db'} \cap untraced' = {}
      BY <2>3, <2>6, <3>1, <3>2 DEF Books
    <3>4. ASSUME NEW s \in mem_db' PROVE s \in [ptr : Unit, size : Nat \ {0}] /\ Room(s.ptr, s.size)'
      <4>1. s \in mem_db /\ s.ptr # ptr
        BY <3>1, <3>2
      <4>2. s \in [ptr : Unit, size : Nat \ {0}] /\ Room(s.ptr, s.size)
        BY <4>1 DEF Books
      <4> QED
        BY <4>1, <4>2, <2>2
    <3>5. Books(Q, L, X)'
      BY <2>5, <2>6, <2>8, <2>9, <3>1, <3>3, <3>4 DEF Books
    <3> QED
      BY <3>5, <2>2, <2>3
  <2> QED
    BY <2>10, <2>11
<1> QED
  BY <1>1, <1>2

\* vSemaphoreDelete.
LEMMA BooksMutexFree ==
  ASSUME HeapInv, NEW P, NEW L, NEW X, Books(P, L, X),
         NEW ptr, ptr \in L \cup {NULL}, PortFree(ptr), UNCHANGED <<traceVars, pending>>
  PROVE  /\ HeapInv'
         /\ Books(P, L \ {ptr}, X)'
<1>1. mem_db' = mem_db /\ peak' = peak /\ untraced' = untraced /\ lost' = lost /\ pending' = pending
  BY DEF traceVars
<1>2. /\ HeapInv'
      /\ Addrs' = Addrs \ {ptr}
      /\ \A q, s : q # ptr /\ Room(q, s) => Room(q, s)'
  BY FreeAddrs
<1>3. NULL \notin Addrs
  BY TypesHere, BlockFacts DEF Addrs, HeapInv, Tiles
<1>4. PICK M : M = L \ {ptr}
  OBVIOUS
<1>5. ptr \notin P /\ ptr \notin X
  BY <1>3 DEF Books
<1>6. P \cap M = {} /\ (P \cup M) \cap X = {} /\ Addrs' = P \cup M \cup X
  BY <1>2, <1>4, <1>5 DEF Books
<1>7. Pending' = Pending
  BY <1>1 DEF Pending
<1>8. ASSUME NEW s \in mem_db PROVE s \in [ptr : Unit, size : Nat \ {0}] /\ Room(s.ptr, s.size)'
  <2>1. s.ptr \in P
    BY DEF Books
  <2>2. s \in [ptr : Unit, size : Nat \ {0}] /\ Room(s.ptr, s.size)
    BY DEF Books
  <2> QED
    BY <2>1, <2>2, <1>2, <1>5
<1>9. ASSUME NEW s \in Worker \cup {INFO}, pending[s].ptr # NULL
      PROVE  pending[s].ptr \in P /\ Room(pending[s].ptr, pending[s].size)'
  <2>1. pending[s].ptr \in P /\ Room(pending[s].ptr, pending[s].size)
    BY <1>9 DEF Books
  <2>2. PICK q : q = pending[s].ptr
    OBVIOUS
  <2>3. PICK n : n = pending[s].size
    OBVIOUS
  <2>4. q \in P /\ q # ptr /\ Room(q, n)
    BY <2>1, <2>2, <2>3, <1>5
  <2>5. Room(q, n)'
    BY <2>4, <1>2
  <2> QED
    BY <2>2, <2>3, <2>4, <2>5, <1>1
<1>10. Books(P, M, X)'
  BY <1>1, <1>6, <1>7, <1>8, <1>9 DEF Books
<1> QED
  BY <1>2, <1>4, <1>10

\* adp_os_malloc_trace, second half.
LEMMA BooksInsert ==
  ASSUME HeapInv, NEW P, NEW L, NEW X, Books(P, L, X),
         NEW t \in Worker \cup {INFO}, TraceInsert(t)
  PROVE  /\ HeapInv'
         /\ pending' = [pending EXCEPT ![t] = NoCall]
         /\ Books(P, L, X)'
<1>1. PICK c : c = pending[t]
  OBVIOUS
<1>2. PICK full \in BOOLEAN : full = (Cardinality(mem_db) = DbSize)
  OBVIOUS
<1>3. /\ c # NoCall
      /\ peak' = peak + c.size
      /\ mem_db' = IF full \/ c.ptr = NULL THEN mem_db ELSE mem_db \cup {c}
      /\ untraced' = IF full /\ c.ptr # NULL THEN untraced \cup {c.ptr} ELSE untraced
      /\ lost' = IF full \/ c.ptr = NULL THEN lost + c.size ELSE lost
      /\ pending' = [pending EXCEPT ![t] = NoCall]
      /\ freeList' = freeList /\ used' = used /\ xFreeBytesRemaining' = xFreeBytesRemaining
  BY <1>1, <1>2 DEF TraceInsert, InsertInto, heapVars
<1>4. HeapInv'
  BY <1>3 DEF HeapInv
<1>5. Addrs' = Addrs /\ \A q, s : Room(q, s) => Room(q, s)'
  BY <1>3 DEF Addrs, Room
<1>6. /\ pending \in [Worker \cup {INFO} -> [ptr : Ptr, size : Nat]]
      /\ NoCall.ptr = NULL /\ NoCall \in [ptr : Ptr, size : Nat]
  BY DEF Books, NoCall, Ptr
<1>7. /\ c \in [ptr : Ptr, size : Nat] /\ c.size \in Nat /\ c.size >= 1
      /\ c.ptr # NULL => c.ptr \in P /\ c.ptr \in Unit /\ Room(c.ptr, c.size)
      /\ c.ptr # NULL => c.ptr \in Pending
  BY <1>1, <1>3, <1>6 DEF Books, Ptr, Pending
<1>8. \A s \in Worker \cup {INFO} : pending'[s] = IF s = t THEN NoCall ELSE pending[s]
  BY <1>3, <1>6
<1>9. pending' \in [Worker \cup {INFO} -> [ptr : Ptr, size : Nat]]
  BY <1>3, <1>6
<1>10. Pending' = Pending \ {c.ptr}
  <2>1. \A s \in Worker \cup {INFO} : s # t /\ pending[s].ptr = c.ptr => c.ptr = NULL
    BY <1>1 DEF Books
  <2> QED
    BY <2>1, <1>1, <1>6, <1>8, <1>9 DEF Pending
<1>11. ASSUME NEW s \in Worker \cup {INFO}, pending'[s].ptr # NULL
       PROVE  pending'[s].ptr \in P /\ Room(pending[s].ptr, pending[s].size)'
  <2>1. PICK q : q = pending[s].ptr
    OBVIOUS
  <2>2. PICK n : n = pending[s].size
    OBVIOUS
  <2>3. pending'[s] = pending[s] /\ pending[s].ptr # NULL
    BY <1>6, <1>8, <1>11
  <2>4. pending[s].ptr \in P /\ Room(pending[s].ptr, pending[s].size)
    BY <2>3 DEF Books
  <2>5. Room(q, n)' /\ q \in P
    BY <2>1, <2>2, <2>4, <1>5
  <2> QED
    BY <2>1, <2>2, <2>3, <2>5
<1>12. \A s, u \in Worker \cup {INFO} :
          pending'[s].ptr = pending'[u].ptr /\ s # u => pending'[s].ptr = NULL
  BY <1>6, <1>8 DEF Books
<1>13. \A s \in Worker \cup {INFO} : pending'[s] # NoCall => pending'[s].size >= 1
  BY <1>8 DEF Books
<1>14. /\ IsFiniteSet(mem_db) /\ Sized(mem_db) /\ Cardinality(mem_db) <= DbSize
       /\ Cardinality(mem_db) \in Nat /\ Sum(mem_db) \in Nat
       /\ lost \in Nat /\ peak = Sum(mem_db) + lost
  <2>1. IsFiniteSet(mem_db) /\ Sized(mem_db)
    BY DEF Books, Sized
  <2> QED
    BY <2>1, FS_CardinalityType, SumFacts DEF Books
<1>15. CASE full \/ c.ptr = NULL
  <2>1. mem_db' = mem_db /\ peak' = peak + c.size /\ lost' = lost + c.size
    BY <1>3, <1>15
  <2>2. {r.ptr : r \in mem_db'} \cup untraced' = P \ Pending'
    <3>1. {r.ptr : r \in mem_db} \cup untraced = P \ Pending
      BY DEF Books
    <3>2. CASE c.ptr = NULL
      <4>1. Pending' = Pending /\ untraced' = untraced
        BY <3>2, <1>3, <1>10 DEF Pending
      <4> QED
        BY <4>1, <3>1, <2>1
    <3>3. CASE c.ptr # NULL
      <4>1. untraced' = untraced \cup {c.ptr}
        BY <3>3, <1>3, <1>15
      <4>2. P \ Pending' = (P \ Pending) \cup {c.ptr}
        BY <3>3, <1>7, <1>10
      <4> QED
        BY <4>1, <4>2, <3>1, <2>1
    <3> QED
      BY <3>2, <3>3
  <2>3. {r.ptr : r \in mem_db'} \cap untraced' = {}
    BY <2>1, <1>3, <1>7 DEF Books
  <2>4. lost' \in Nat /\ peak' = Sum(mem_db') + lost'
    BY <2>1, <1>7, <1>14
  <2>5. \A r \in mem_db' : r \in [ptr : Unit, size : Nat \ {0}] /\ Room(r.ptr, r.size)'
    BY <2>1, <1>5 DEF Books
  <2> QED
    BY <1>3, <1>4, <1>5, <1>9, <1>11, <1>12, <1>13, <2>1, <2>2, <2>3, <2>4, <2>5 DEF Books
<1>16. CASE ~full /\ c.ptr # NULL
  <2>1. mem_db' = mem_db \cup {c} /\ peak' = peak + c.size /\ lost' = lost /\ untraced' = untraced
    BY <1>3, <1>16
  <2>2. c.ptr \notin {r.ptr : r \in mem_db} \cup untraced
    BY <1>7, <1>16 DEF Books
  <2>3. {r.ptr : r \in mem_db'} = {r.ptr : r \in mem_db} \cup {c.ptr}
    BY <2>1
  <2>4. {r.ptr : r \in mem_db'} \cup untraced' = P \ Pending'
    BY <2>1, <2>3, <1>7, <1>10, <1>16 DEF Books
  <2>5. {r.ptr : r \in mem_db'} \cap untraced' = {}
    BY <2>1, <2>2, <2>3 DEF Books
  <2>6. c \notin mem_db
    BY <2>2
  <2>7. Sum(mem_db \cup {c}) = Sum(mem_db) + c.size
    BY <2>6, <1>7, <1>14, SumAdded
  <2>8. lost' \in Nat /\ peak' = Sum(mem_db') + lost'
    BY <2>1, <2>7, <1>7, <1>14
  <2>9. c \in [ptr : Unit, size : Nat \ {0}]
    BY <1>7, <1>16
  <2>10. ASSUME NEW r \in mem_db' PROVE r \in [ptr : Unit, size : Nat \ {0}] /\ Room(r.ptr, r.size)'
    <3>1. r \in [ptr : Unit, size : Nat \ {0}] /\ Room(r.ptr, r.size)
      BY <2>1, <2>9, <1>7, <1>16 DEF Books
    <3> QED
      BY <3>1, <1>5
  <2>11. \A r, s \in mem_db' : r.ptr = s.ptr => r = s
    BY <2>1, <2>2 DEF Books
  <2>12. IsFiniteSet(mem_db \cup {c}) /\ Cardinality(mem_db \cup {c}) = Cardinality(mem_db) + 1
    BY <2>6, <1>14, FS_AddElement
  <2>13. IsFiniteSet(mem_db') /\ Cardinality(mem_db') <= DbSize
    <3>1. PICK n \in Nat : n = Cardinality(mem_db)
      BY <1>14
    <3>2. n <= DbSize /\ n # DbSize
      BY <3>1, <1>2, <1>14, <1>16
    <3>3. n + 1 <= DbSize
      BY <3>2, TypesHere
    <3> QED
      BY <3>1, <3>3, <2>1, <2>12
  <2> QED
    BY <1>3, <1>4, <1>5, <1>9, <1>11, <1>12, <1>13, <2>1, <2>4, <2>5, <2>8, <2>10, <2>11, <2>13 DEF Books
<1> QED
  BY <1>15, <1>16

-----------------------------------------------------------------------------
(* Rows, lists of rows and objects *)

LEMMA NullFacts == NULL \in Ptr /\ NULL \notin Unit /\ NoRow \in RowType /\ NoRow.row = NULL
                   /\ NoRow.node = NULL /\ NoRow.str = <<>>
BY TypesHere DEF Ptr, NoRow, RowType

LEMMA RowFacts ==
  ASSUME NEW r \in RowType
  PROVE  /\ r.row \in Ptr /\ r.str \in Seq(Ptr) /\ r.node \in Ptr
         /\ Len(r.str) \in Nat /\ \A i \in 1..Len(r.str) : r.str[i] \in Ptr
         /\ RowPtrs(r) \in SUBSET Unit
         /\ \A p : p \in RowPtrs(r) <=>
              p # NULL /\ (p = r.row \/ p = r.node \/ \E i \in 1..Len(r.str) : p = r.str[i])
<1>1. r.row \in Ptr /\ r.str \in Seq(Ptr) /\ r.node \in Ptr
  BY DEF RowType
<1>2. Len(r.str) \in Nat /\ \A i \in 1..Len(r.str) : r.str[i] \in Ptr
  BY <1>1
<1>3. \A p : p \in RowPtrs(r) <=>
        p # NULL /\ (p = r.row \/ p = r.node \/ \E i \in 1..Len(r.str) : p = r.str[i])
  BY DEF RowPtrs, Strs
<1>4. RowPtrs(r) \in SUBSET Unit
  BY <1>1, <1>2 DEF RowPtrs, Strs, Ptr
<1> QED
  BY <1>1, <1>2, <1>3, <1>4

LEMMA NoRowFacts == RowPtrs(NoRow) = {} /\ RowOnce(NoRow)
<1>1. Len(<<>>) = 0 /\ 1..0 = {}
  OBVIOUS
<1> QED
  BY <1>1, NullFacts DEF RowPtrs, Strs, RowOnce

\* adp_mem_table_row_push: the row, ...
LEMMA RowBegun ==
  ASSUME NEW p \in Ptr, NEW r, r = [NoRow EXCEPT !.row = p]
  PROVE  r \in RowType /\ RowOnce(r) /\ RowPtrs(r) = {p} \ {NULL} /\ r.node = NULL
<1>1. r \in RowType /\ r.row = p /\ r.str = <<>> /\ r.node = NULL
  BY NullFacts DEF RowType, NoRow
<1>2. Len(<<>>) = 0 /\ 1..0 = {}
  OBVIOUS
<1> QED
  BY <1>1, <1>2 DEF RowOnce, RowPtrs, Strs

\* ... a string, ...
LEMMA StringAdded ==
  ASSUME NEW r \in RowType, RowOnce(r), NEW p \in Ptr, p \notin RowPtrs(r),
         NEW r2, r2 = [r EXCEPT !.str = Append(@, p)]
  PROVE  r2 \in RowType /\ RowOnce(r2) /\ RowPtrs(r2) = RowPtrs(r) \cup ({p} \ {NULL}) /\ r2.node = r.node
<1>1. r.str \in Seq(Ptr) /\ Len(r.str) \in Nat /\ r2.row = r.row /\ r2.node = r.node
  BY RowFacts DEF RowType
<1>2. PICK n \in Nat : n = Len(r.str)
  BY <1>1
<1>3. /\ r2.str = Append(r.str, p) /\ r2.str \in Seq(Ptr) /\ Len(r2.str) = n + 1
      /\ \A i \in 1..n : r2.str[i] = r.str[i]
      /\ r2.str[n + 1] = p
  BY <1>1, <1>2 DEF RowType
<1>4. r2 \in RowType
  BY <1>1, <1>3 DEF RowType
<1>5. \A i \in 1..(n + 1) : i \in 1..n \/ i = n + 1
  BY <1>2
<1>6. 1..n \subseteq 1..(n + 1) /\ n + 1 \in 1..(n + 1)
  BY <1>2
<1>7. Strs(r2.str) = Strs(r.str) \cup {p}
  BY <1>2, <1>3, <1>5, <1>6 DEF Strs
<1>8. RowPtrs(r2) = RowPtrs(r) \cup ({p} \ {NULL})
  BY <1>1, <1>7 DEF RowPtrs
<1>9. p # NULL => p # r.row /\ p # r.node /\ \A i \in 1..n : r.str[i] # p
  BY <1>2, RowFacts
<1>10. RowOnce(r2)
  <2>1. r2.row = r2.node => r2.row = NULL
    BY <1>1 DEF RowOnce
  <2>2. ASSUME NEW i \in 1..(n + 1), r2.str[i] \in {r2.row, r2.node} PROVE r2.str[i] = NULL
    <3>1. CASE i = n + 1
      BY <3>1, <2>2, <1>1, <1>3, <1>9
    <3>2. CASE i \in 1..n
      BY <3>2, <2>2, <1>1, <1>2, <1>3 DEF RowOnce
    <3> QED
      BY <3>1, <3>2, <1>5
  <2>3. ASSUME NEW i \in 1..(n + 1), NEW j \in 1..(n + 1), r2.str[i] = r2.str[j], i # j PROVE r2.str[i] = NULL
    <3>1. CASE i = n + 1 /\ j \in 1..n
      BY <3>1, <2>3, <1>3, <1>9
    <3>2. CASE i \in 1..n /\ j = n + 1
      BY <3>2, <2>3, <1>3, <1>9
    <3>3. CASE i \in 1..n /\ j \in 1..n
      BY <3>3, <2>3, <1>2, <1>3 DEF RowOnce
    <3> QED
      BY <3>1, <3>2, <3>3, <2>3, <1>5
  <2> QED
    BY <2>1, <2>2, <2>3, <1>3 DEF RowOnce
<1> QED
  BY <1>1, <1>4, <1>8, <1>10

\* ... and the node of the pool.
LEMMA NodeAdded ==
  ASSUME NEW r \in RowType, RowOnce(r), r.node = NULL, NEW p \in Ptr, p \notin RowPtrs(r),
         NEW r2, r2 = [r EXCEPT !.node = p]
  PROVE  r2 \in RowType /\ RowOnce(r2) /\ RowPtrs(r2) = RowPtrs(r) \cup ({p} \ {NULL})
<1>1. r2 \in RowType /\ r2.row = r.row /\ r2.node = p /\ r2.str = r.str
  BY DEF RowType
<1>2. \A q : q \in RowPtrs(r2) <=> q \in RowPtrs(r) \/ (q = p /\ q # NULL)
  BY <1>1 DEF RowPtrs
<1>3. p # NULL => p # r.row /\ \A i \in 1..Len(r.str) : r.str[i] # p
  BY RowFacts
<1>4. RowOnce(r2)
  BY <1>1, <1>3 DEF RowOnce
<1> QED
  BY <1>1, <1>2, <1>4

\* adp_mem_table_row_pop and adp_mem_table_row_del: the node, ...
LEMMA NodeTaken ==
  ASSUME NEW r \in RowType, RowOnce(r), NEW r2, r2 = [r EXCEPT !.node = NULL]
  PROVE  /\ r2 \in RowType /\ RowOnce(r2) /\ RowPtrs(r2) = RowPtrs(r) \ {r.node} /\ r2.node = NULL
         /\ r.node \in RowPtrs(r) \cup {NULL}
<1>1. r2 \in RowType /\ r2.row = r.row /\ r2.node = NULL /\ r2.str = r.str
  BY NullFacts DEF RowType
<1>2. RowOnce(r2)
  BY <1>1 DEF RowOnce
<1>3. r.node # NULL => r.node # r.row /\ \A i \in 1..Len(r.str) : r.str[i] # r.node
  BY DEF RowOnce
<1>4. RowPtrs(r2) = RowPtrs(r) \ {r.node}
  <2>1. r.node # NULL => r.node \notin Strs(r.str)
    BY <1>3 DEF Strs
  <2> QED
    BY <2>1, <1>1, <1>3 DEF RowPtrs
<1>5. r.node \in RowPtrs(r) \cup {NULL}
  BY RowFacts
<1> QED
  BY <1>1, <1>2, <1>4, <1>5

\* ... each string, ...
LEMMA StringDeleted ==
  ASSUME NEW r \in RowType, RowOnce(r), r.str # <<>>, NEW r2, r2 = [r EXCEPT !.str = Tail(@)]
  PROVE  /\ r2 \in RowType /\ RowOnce(r2) /\ RowPtrs(r2) = RowPtrs(r) \ {Head(r.str)} /\ r2.node = r.node
         /\ Head(r.str) \in RowPtrs(r) \cup {NULL}
<1>1. r.str \in Seq(Ptr) /\ r2.row = r.row /\ r2.node = r.node /\ r2.str = Tail(r.str)
  BY RowFacts DEF RowType
<1>2. PICK m \in Nat : Len(r.str) = m + 1
  <2>1. Len(r.str) \in Nat \ {0}
    BY <1>1, EmptySeq
  <2>2. Len(r.str) - 1 \in Nat /\ Len(r.str) = (Len(r.str) - 1) + 1
    BY <2>1
  <2> QED
    BY <2>2
<1>3. /\ r2.str \in Seq(Ptr) /\ Len(r2.str) = m
      /\ \A i \in 1..m : r2.str[i] = r.str[i + 1]
      /\ Head(r.str) = r.str[1]
  BY <1>1, <1>2, HeadTailProperties
<1>4. PICK p : p = Head(r.str)
  OBVIOUS
<1>5. r2 \in RowType
  BY <1>1, <1>3 DEF RowType
<1>6. \A i \in 1..m : i + 1 \in 1..(m + 1) /\ i + 1 # 1
  BY <1>2
<1>7. 1 \in 1..(m + 1) /\ \A i \in 1..(m + 1) : i = 1 \/ \E j \in 1..m : i = j + 1
  <2>1. \A i \in 1..(m + 1) : i = 1 \/ (i - 1 \in 1..m /\ i = (i - 1) + 1)
    BY <1>2
  <2> QED
    BY <2>1, <1>2
<1>8. RowOnce(r2)
  <2>1. ASSUME NEW i \in 1..m, r2.str[i] \in {r2.row, r2.node} PROVE r2.str[i] = NULL
    BY <2>1, <1>1, <1>2, <1>3, <1>6 DEF RowOnce
  <2>2. ASSUME NEW i \in 1..m, NEW j \in 1..m, r2.str[i] = r2.str[j], i # j PROVE r2.str[i] = NULL
    <3>1. i + 1 \in 1..(m + 1) /\ j + 1 \in 1..(m + 1) /\ i + 1 # j + 1
      BY <2>2, <1>2
    <3> QED
      BY <3>1, <2>2, <1>2, <1>3 DEF RowOnce
  <2> QED
    BY <2>1, <2>2, <1>1, <1>3 DEF RowOnce
<1>9. p # NULL => /\ p # r.row /\ p # r.node
                  /\ \A i \in 1..m : r.str[i + 1] # p
  <2>1. p = r.str[1] /\ 1 \in 1..Len(r.str)
    BY <1>2, <1>3, <1>4, <1>7
  <2>2. \A i \in 1..m : i + 1 \in 1..Len(r.str) /\ i + 1 # 1
    BY <1>2, <1>6
  <2> QED
    BY <2>1, <2>2 DEF RowOnce
<1>10. Strs(r.str) = Strs(r2.str) \cup {p}
  <2>1. \A i \in 1..(m + 1) : r.str[i] \in Strs(r2.str) \cup {p}
    BY <1>3, <1>4, <1>7 DEF Strs
  <2>2. \A i \in 1..m : r2.str[i] \in Strs(r.str)
    BY <1>2, <1>3, <1>6 DEF Strs
  <2>3. p \in Strs(r.str)
    BY <1>2, <1>3, <1>4, <1>7 DEF Strs
  <2>4. Strs(r.str) \subseteq Strs(r2.str) \cup {p}
    BY <2>1, <1>2 DEF Strs
  <2>5. Strs(r2.str) \subseteq Strs(r.str)
    BY <2>2, <1>3 DEF Strs
  <2> QED
    BY <2>3, <2>4, <2>5
<1>11. RowPtrs(r2) = RowPtrs(r) \ {p}
  <2>1. p # NULL => p # r.row /\ p # r.node /\ p \notin Strs(r2.str)
    BY <1>3, <1>9 DEF Strs
  <2> QED
    BY <2>1, <1>1, <1>10 DEF RowPtrs
<1>12. p \in RowPtrs(r) \cup {NULL}
  BY <1>2, <1>3, <1>4, <1>7, RowFacts
<1> QED
  BY <1>1, <1>4, <1>5, <1>8, <1>11, <1>12

\* ... and the row.
LEMMA RowEmptied ==
  ASSUME NEW r \in RowType, r.str = <<>>, r.node = NULL
  PROVE  RowPtrs(r) = {r.row} \ {NULL}
<1>1. Len(<<>>) = 0 /\ 1..0 = {}
  OBVIOUS
<1> QED
  BY <1>1 DEF RowPtrs, Strs

\* adp_mem_pool_add: the row is the last one of the pool.
LEMMA ListAppended ==
  ASSUME NEW q \in Seq(RowType), ListOnce(q), NEW r \in RowType, RowOnce(r),
         RowPtrs(r) \cap ListPtrs(q) = {}, NEW q2, q2 = Append(q, r)
  PROVE  /\ q2 \in Seq(RowType) /\ Len(q2) = Len(q) + 1 /\ Len(q) \in Nat
         /\ ListOnce(q2) /\ ListPtrs(q2) = ListPtrs(q) \cup RowPtrs(r)
<1>1. PICK n \in Nat : n = Len(q)
  BY LenProperties
<1>2. /\ q2 \in Seq(RowType) /\ Len(q2) = n + 1
      /\ \A i \in 1..n : q2[i] = q[i]
      /\ q2[n + 1] = r
  BY <1>1
<1>3. \A i \in 1..(n + 1) : i \in 1..n \/ i = n + 1
  BY <1>1
<1>4. 1..n \subseteq 1..(n + 1) /\ n + 1 \in 1..(n + 1)
  BY <1>1
<1>5. \A i \in 1..n : RowPtrs(q[i]) \subseteq ListPtrs(q)
  BY <1>1 DEF ListPtrs
<1>6. ListPtrs(q2) = ListPtrs(q) \cup RowPtrs(r)
  BY <1>1, <1>2, <1>3, <1>4 DEF ListPtrs
<1>7. ASSUME NEW i \in 1..(n + 1) PROVE RowOnce(q2[i])
  BY <1>1, <1>2, <1>3 DEF ListOnce
<1>8. ASSUME NEW i \in 1..(n + 1), NEW j \in 1..(n + 1), i # j PROVE RowPtrs(q2[i]) \cap RowPtrs(q2[j]) = {}
  <2>1. CASE i = n + 1 /\ j \in 1..n
    BY <2>1, <1>2, <1>5
  <2>2. CASE i \in 1..n /\ j = n + 1
    BY <2>2, <1>2, <1>5
  <2>3. CASE i \in 1..n /\ j \in 1..n
    BY <2>3, <1>1, <1>2, <1>8 DEF ListOnce
  <2> QED
    BY <2>1, <2>2, <2>3, <1>3, <1>8
<1> QED
  BY <1>1, <1>2, <1>6, <1>7, <1>8 DEF ListOnce

\* adp_mem_pool_release: the first row of the pool is taken out.
LEMMA ListPopped ==
  ASSUME NEW q \in Seq(RowType), ListOnce(q), q # <<>>
  PROVE  /\ Tail(q) \in Seq(RowType) /\ Len(Tail(q)) + 1 = Len(q) /\ Len(Tail(q)) \in Nat
         /\ Head(q) \in RowType /\ RowOnce(Head(q)) /\ ListOnce(Tail(q))
         /\ ListPtrs(q) = RowPtrs(Head(q)) \cup ListPtrs(Tail(q))
         /\ RowPtrs(Head(q)) \cap ListPtrs(Tail(q)) = {}
<1>1. PICK m \in Nat : Len(q) = m + 1
  <2>1. Len(q) \in Nat \ {0}
    BY EmptySeq
  <2>2. Len(q) - 1 \in Nat /\ Len(q) = (Len(q) - 1) + 1
    BY <2>1
  <2> QED
    BY <2>2
<1>2. PICK t : t = Tail(q)
  OBVIOUS
<1>3. /\ t \in Seq(RowType) /\ Len(t) = m
      /\ \A i \in 1..m : t[i] = q[i + 1]
      /\ Head(q) = q[1]
  BY <1>1, <1>2, HeadTailProperties
<1>4. /\ 1 \in 1..(m + 1)
      /\ \A i \in 1..m : i + 1 \in 1..(m + 1) /\ i + 1 # 1
      /\ \A i \in 1..(m + 1) : i = 1 \/ \E j \in 1..m : i = j + 1
  <2>1. \A i \in 1..(m + 1) : i = 1 \/ (i - 1 \in 1..m /\ i = (i - 1) + 1)
    BY <1>1
  <2> QED
    BY <2>1, <1>1
<1>5. ListPtrs(q) = RowPtrs(Head(q)) \cup ListPtrs(t)
  <2>1. \A p : p \in ListPtrs(q) <=> \E i \in 1..(m + 1) : p \in RowPtrs(q[i])
    BY <1>1 DEF ListPtrs
  <2>2. \A p : p \in ListPtrs(t) <=> \E i \in 1..m : p \in RowPtrs(q[i + 1])
    BY <1>3 DEF ListPtrs
  <2>3. \A p : p \in ListPtrs(q) <=> p \in RowPtrs(Head(q)) \/ p \in ListPtrs(t)
    <3> TAKE p
    <3>1. ASSUME NEW i \in 1..(m + 1), p \in RowPtrs(q[i])
          PROVE  p \in RowPtrs(q[1]) \/ \E j \in 1..m : p \in RowPtrs(q[j + 1])
      BY <3>1, <1>4
    <3>2. p \in RowPtrs(q[1]) => \E i \in 1..(m + 1) : p \in RowPtrs(q[i])
      BY <1>4
    <3>3. (\E j \in 1..m : p \in RowPtrs(q[j + 1])) => \E i \in 1..(m + 1) : p \in RowPtrs(q[i])
      BY <1>4
    <3> QED
      BY <3>1, <3>2, <3>3, <2>1, <2>2, <1>3
  <2> QED
    BY <2>3
<1>6. RowPtrs(Head(q)) \cap ListPtrs(t) = {}
  <2>1. \A i \in 1..m : RowPtrs(q[1]) \cap RowPtrs(q[i + 1]) = {}
    BY <1>1, <1>4 DEF ListOnce
  <2> QED
    BY <2>1, <1>3 DEF ListPtrs
<1>7. ListOnce(t)
  <2>1. \A i \in 1..m : RowOnce(t[i])
    BY <1>1, <1>3, <1>4 DEF ListOnce
  <2>2. ASSUME NEW i \in 1..m, NEW j \in 1..m, i # j PROVE RowPtrs(t[i]) \cap RowPtrs(t[j]) = {}
    <3>1. i + 1 \in 1..(m + 1) /\ j + 1 \in 1..(m + 1) /\ i + 1 # j + 1
      BY <2>2, <1>1
    <3> QED
      BY <3>1, <1>1, <1>3 DEF ListOnce
  <2> QED
    BY <2>1, <2>2, <1>3 DEF ListOnce
<1>8. Head(q) \in RowType /\ RowOnce(Head(q))
  BY <1>1, <1>3, <1>4 DEF ListOnce
<1> QED
  BY <1>1, <1>2, <1>3, <1>5, <1>6, <1>7, <1>8

LEMMA EmptyList == ListPtrs(<<>>) = {} /\ ListOnce(<<>>) /\ <<>> \in Seq(RowType) /\ Len(<<>>) = 0
<1>1. Len(<<>>) = 0 /\ 1..0 = {} /\ <<>> \in Seq(RowType)
  BY EmptySeq
<1> QED
  BY <1>1 DEF ListPtrs, ListOnce

\* An object of the table is created or destroyed.
Put(obj, o, p) == [obj EXCEPT ![o] = p]

LEMMA ObjectSet ==
  ASSUME NEW obj, NEW r, NEW q, OwnOnce(obj, r, q), NEW o \in Objs, obj[o] = NULL,
         NEW p \in Ptr, p \notin Own(obj, r, q) \cup Locks(obj), NEW obj2, obj2 = Put(obj, o, p)
  PROVE  /\ OwnOnce(obj2, r, q)
         /\ o \in {"table", "pool"} =>
              Own(obj2, r, q) = Own(obj, r, q) \cup ({p} \ {NULL}) /\ Locks(obj2) = Locks(obj)
         /\ o \in {"table_lock", "pool_lock"} =>
              Own(obj2, r, q) = Own(obj, r, q) /\ Locks(obj2) = Locks(obj) \cup ({p} \ {NULL})
<1>1. obj \in [Objs -> Ptr] /\ obj2 \in [Objs -> Ptr]
  BY DEF OwnOnce, Put
<1>2. \A x \in Objs : obj2[x] = IF x = o THEN p ELSE obj[x]
  BY <1>1 DEF Put
<1>3. o \in {"table", "pool"} => Plain(obj2) = Plain(obj) \cup ({p} \ {NULL}) /\ Locks(obj2) = Locks(obj)
  BY <1>2 DEF Objs, Plain, Locks
<1>4. o \in {"table_lock", "pool_lock"} =>
        Plain(obj2) = Plain(obj) /\ Locks(obj2) = Locks(obj) \cup ({p} \ {NULL})
  BY <1>2 DEF Objs, Plain, Locks
<1>5. o \in {"table", "pool"} \/ o \in {"table_lock", "pool_lock"}
  BY DEF Objs
<1>6. p # NULL => \A x \in Objs : obj[x] # p
  BY <1>1 DEF Own, Plain, Locks, Objs
<1>7. ASSUME NEW x \in Objs, NEW y \in Objs, obj2[x] = obj2[y], x # y PROVE obj2[x] = NULL
  BY <1>2, <1>6, <1>7 DEF OwnOnce
<1>8. (Plain(obj2) \cup Locks(obj2)) \cap (RowPtrs(r) \cup ListPtrs(q)) = {}
  BY <1>3, <1>4, <1>5 DEF OwnOnce, Own
<1>9. OwnOnce(obj2, r, q)
  BY <1>1, <1>7, <1>8 DEF OwnOnce
<1> QED
  BY <1>3, <1>4, <1>9 DEF Own

LEMMA ObjectCleared ==
  ASSUME NEW obj, NEW r, NEW q, OwnOnce(obj, r, q), NEW o \in Objs, NEW obj2, obj2 = Put(obj, o, NULL)
  PROVE  /\ OwnOnce(obj2, r, q)
         /\ o \in {"table", "pool"} =>
              /\ Own(obj2, r, q) = Own(obj, r, q) \ {obj[o]} /\ Locks(obj2) = Locks(obj)
              /\ obj[o] \in Own(obj, r, q) \cup {NULL}
         /\ o \in {"table_lock", "pool_lock"} =>
              /\ Own(obj2, r, q) = Own(obj, r, q) /\ Locks(obj2) = Locks(obj) \ {obj[o]}
              /\ obj[o] \in Locks(obj) \cup {NULL}
<1>1. obj \in [Objs -> Ptr] /\ obj2 \in [Objs -> Ptr]
  BY NullFacts DEF OwnOnce, Put
<1>2. \A x \in Objs : obj2[x] = IF x = o THEN NULL ELSE obj[x]
  BY <1>1 DEF Put
<1>3. \A x \in Objs : x # o /\ obj[x] = obj[o] => obj[o] = NULL
  BY DEF OwnOnce
<1>4. NULL \notin RowPtrs(r) /\ NULL \notin ListPtrs(q)
  BY DEF RowPtrs, ListPtrs
<1>5. o \in {"table", "pool"} =>
        /\ Plain(obj2) = Plain(obj) \ {obj[o]} /\ Locks(obj2) = Locks(obj)
        /\ obj[o] \in Plain(obj) \cup {NULL}
  BY <1>2, <1>3 DEF Objs, Plain, Locks
<1>6. o \in {"table_lock", "pool_lock"} =>
        /\ Plain(obj2) = Plain(obj) /\ Locks(obj2) = Locks(obj) \ {obj[o]}
        /\ obj[o] \in Locks(obj) \cup {NULL}
  BY <1>2, <1>3 DEF Objs, Plain, Locks
<1>7. o \in {"table", "pool"} \/ o \in {"table_lock", "pool_lock"}
  BY DEF Objs
<1>8. (Plain(obj2) \cup Locks(obj2)) \cap (RowPtrs(r) \cup ListPtrs(q)) = {}
  BY <1>5, <1>6, <1>7 DEF OwnOnce
<1>9. \A x, y \in Objs : obj2[x] = obj2[y] /\ x # y => obj2[x] = NULL
  BY <1>2 DEF OwnOnce
<1>10. OwnOnce(obj2, r, q)
  BY <1>1, <1>8, <1>9 DEF OwnOnce
<1>11. o \in {"table", "pool"} =>
         /\ Own(obj2, r, q) = Own(obj, r, q) \ {obj[o]} /\ Locks(obj2) = Locks(obj)
         /\ obj[o] \in Own(obj, r, q) \cup {NULL}
  BY <1>4, <1>5 DEF Own, OwnOnce
<1> QED
  BY <1>6, <1>10, <1>11 DEF Own

\* Another row is built up or taken down.
LEMMA RowGrown ==
  ASSUME NEW obj, NEW r, NEW q, OwnOnce(obj, r, q), NEW r2 \in RowType, RowOnce(r2), NEW N,
         RowPtrs(r2) = RowPtrs(r) \cup N, N \cap (Own(obj, r, q) \cup Locks(obj)) = {}
  PROVE  OwnOnce(obj, r2, q) /\ Own(obj, r2, q) = Own(obj, r, q) \cup N
<1>1. (Plain(obj) \cup Locks(obj)) \cap (RowPtrs(r2) \cup ListPtrs(q)) = {} /\ RowPtrs(r2) \cap ListPtrs(q) = {}
  BY DEF OwnOnce, Own
<1> QED
  BY <1>1 DEF OwnOnce, Own

LEMMA RowShrunk ==
  ASSUME NEW obj, NEW r, NEW q, OwnOnce(obj, r, q), NEW r2 \in RowType, RowOnce(r2), NEW p,
         RowPtrs(r2) = RowPtrs(r) \ {p}, p \in RowPtrs(r) \cup {NULL}
  PROVE  /\ OwnOnce(obj, r2, q) /\ Own(obj, r2, q) = Own(obj, r, q) \ {p}
         /\ p \in Own(obj, r, q) \cup {NULL}
<1>1. (Plain(obj) \cup Locks(obj)) \cap (RowPtrs(r2) \cup ListPtrs(q)) = {} /\ RowPtrs(r2) \cap ListPtrs(q) = {}
  BY DEF OwnOnce
<1>2. p \notin Plain(obj) \cup ListPtrs(q)
  <2>1. NULL \notin Plain(obj) /\ NULL \notin ListPtrs(q)
    BY DEF Plain, ListPtrs, RowPtrs
  <2> QED
    BY <2>1 DEF OwnOnce
<1> QED
  BY <1>1, <1>2 DEF OwnOnce, Own

-----------------------------------------------------------------------------
(* The steps of print_info *)

Given == at \notin {"assert", "stopped"}

\* A new block is in nobody's hands.
LEMMA FreshBlock ==
  ASSUME MemInv, NEW size \in Nat, PortMalloc(size), NEW p, p = MallocResult(size)
  PROVE  /\ p \in Ptr
         /\ p \notin Own(object, row, pool) \cup HeldPtrs(held) \cup Locks(object)
<1>1. p \in Ptr /\ p \notin Addrs
  BY MallocAddrs DEF MemInv
<1>2. Own(object, row, pool) \cup HeldPtrs(held) \cup Locks(object) \subseteq Addrs
  BY DEF MemInv, BooksRight, Books
<1> QED
  BY <1>1, <1>2

\* While print_info works, nobody is between the heap and the trace.
LEMMA NobodyPends ==
  ASSUME Runs(INFO)
  PROVE  /\ \A t \in Worker \cup {INFO} : pending[t] = NoCall /\ pending[t].ptr = NULL
         /\ DOMAIN pending = Worker \cup {INFO} => Pending = {}
<1>1. \A t \in Worker \cup {INFO} : pending[t] = NoCall
  BY TypesHere DEF Runs
<1> QED
  BY <1>1 DEF NoCall, Pending

LEMMA OwnIsUnits ==
  ASSUME NEW obj, NEW r, NEW q, OwnOnce(obj, r, q)
  PROVE  Own(obj, r, q) \in SUBSET Unit /\ Locks(obj) \in SUBSET Unit
         /\ NULL \notin Own(obj, r, q) /\ NULL \notin Locks(obj)
<1>1. \A o \in Objs : obj[o] \in Ptr
  BY DEF OwnOnce
<1>2. Plain(obj) \in SUBSET Unit /\ Locks(obj) \in SUBSET Unit
  BY <1>1 DEF Plain, Locks, Objs, Ptr
<1>3. RowPtrs(r) \in SUBSET Unit
  BY RowFacts DEF OwnOnce
<1>4. ListPtrs(q) \in SUBSET Unit
  <2>1. \A i \in 1..Len(q) : q[i] \in RowType
    BY DEF OwnOnce
  <2> QED
    BY <2>1, RowFacts DEF ListPtrs
<1> QED
  BY <1>2, <1>3, <1>4, NullFacts DEF Own

\* print_info allocates what is traced ...
LEMMA InfoAllocates ==
  ASSUME MemInv, Given, Runs(INFO), NEW kind \in Kind, TraceMalloc(INFO, SizeOf[kind]), UNCHANGED held,
         NEW p, p = MallocResult(SizeOf[kind]),
         NEW obj2, object' = obj2, NEW r2, row' = r2, NEW q2, pool' = q2, OwnOnce(obj2, r2, q2),
         Own(obj2, r2, q2) = Own(object, row, pool) \cup ({p} \ {NULL}), Locks(obj2) = Locks(object)
  PROVE  HeapInv' /\ Holders' /\ BooksRight'
<1>1. PICK O : O = Own(object, row, pool)
  OBVIOUS
<1>2. PICK H : H = HeldPtrs(held)
  OBVIOUS
<1>3. PICK L : L = Locks(object)
  OBVIOUS
<1>4. Books(O \cup H, L, {}) /\ HeapInv
  BY <1>1, <1>2, <1>3 DEF MemInv, BooksRight, Given
<1>5. PICK size \in Nat : size = SizeOf[kind] /\ size >= 1
  BY TypesHere
<1>6. INFO \in Worker \cup {INFO} /\ pending[INFO] = NoCall
  BY NobodyPends
<1>7. /\ HeapInv'
      /\ p \in Ptr /\ p \notin (O \cup H) \cup L
      /\ pending' = [pending EXCEPT ![INFO] = [ptr |-> p, size |-> size]]
      /\ Books((O \cup H) \cup ({p} \ {NULL}), L, {})'
  BY <1>4, <1>5, <1>6, BooksMalloc
<1>8. held' = held /\ HeldPtrs(held') = H /\ HeldOnce(held')
  BY <1>2 DEF MemInv, Holders
<1>9. PICK O2 : O2 = Own(obj2, r2, q2)
  OBVIOUS
<1>10. O2 = O \cup ({p} \ {NULL}) /\ Locks(obj2) = L
  BY <1>1, <1>3, <1>9
<1>11. pending \in [Worker \cup {INFO} -> [ptr : Ptr, size : Nat]]
  BY <1>4 DEF Books
<1>12. (O2 \cup L) \cap H = {}
  BY <1>1, <1>2, <1>3, <1>7, <1>10 DEF MemInv, Holders
<1>13. ASSUME NEW w \in Worker PROVE pending'[w].ptr \in held'[w] \cup {NULL}
  BY <1>7, <1>8, <1>11, TypesHere DEF MemInv, Holders
<1>14. pending'[INFO].ptr \in O2 \cup {NULL}
  BY <1>7, <1>10, <1>11
<1>15. Holders'
  BY <1>8, <1>9, <1>10, <1>12, <1>13, <1>14 DEF Holders
<1>16. (O \cup H) \cup ({p} \ {NULL}) = O2 \cup H
  BY <1>10
<1>17. Books(O2 \cup H, L, {})'
  BY <1>7, <1>16
<1>18. BooksRight'
  BY <1>8, <1>9, <1>10, <1>17 DEF BooksRight
<1> QED
  BY <1>7, <1>15, <1>18

\* ... or a mutex ...
LEMMA InfoMutexes ==
  ASSUME MemInv, Given, Runs(INFO), PortMalloc(SizeOf["mutex"]), UNCHANGED <<traceVars, pending, held>>,
         NEW p, p = MallocResult(SizeOf["mutex"]),
         NEW obj2, object' = obj2, NEW r2, row' = r2, NEW q2, pool' = q2, OwnOnce(obj2, r2, q2),
         Own(obj2, r2, q2) = Own(object, row, pool), Locks(obj2) = Locks(object) \cup ({p} \ {NULL})
  PROVE  HeapInv' /\ Holders' /\ BooksRight'
<1>1. PICK O : O = Own(object, row, pool)
  OBVIOUS
<1>2. PICK H : H = HeldPtrs(held)
  OBVIOUS
<1>3. PICK L : L = Locks(object)
  OBVIOUS
<1>4. Books(O \cup H, L, {}) /\ HeapInv
  BY <1>1, <1>2, <1>3 DEF MemInv, BooksRight, Given
<1>5. PICK size \in Nat : size = SizeOf["mutex"]
  BY TypesHere DEF Kind
<1>6. PICK M : M = L \cup ({p} \ {NULL})
  OBVIOUS
<1>7. HeapInv' /\ p \in Ptr /\ p \notin (O \cup H) \cup L /\ Books(O \cup H, M, {})'
  BY <1>4, <1>5, <1>6, BooksMutex
<1>8. held' = held /\ HeldPtrs(held') = H /\ HeldOnce(held') /\ pending' = pending
  BY <1>2 DEF MemInv, Holders
<1>9. Own(obj2, r2, q2) = O /\ Locks(obj2) = M
  BY <1>1, <1>3, <1>6
<1>10. (O \cup M) \cap H = {}
  BY <1>1, <1>2, <1>3, <1>6, <1>7 DEF MemInv, Holders
<1>11. Holders'
  BY <1>1, <1>8, <1>9, <1>10 DEF Holders, MemInv
<1>12. BooksRight'
  BY <1>7, <1>8, <1>9 DEF BooksRight
<1> QED
  BY <1>7, <1>11, <1>12

\* ... and frees the one ...
LEMMA InfoFrees ==
  ASSUME MemInv, Given, Runs(INFO), NEW ptr, TraceFree(ptr), UNCHANGED <<pending, held>>,
         ptr \in Own(object, row, pool) \cup {NULL},
         NEW obj2, object' = obj2, NEW r2, row' = r2, NEW q2, pool' = q2, OwnOnce(obj2, r2, q2),
         Own(obj2, r2, q2) = Own(object, row, pool) \ {ptr}, Locks(obj2) = Locks(object)
  PROVE  HeapInv' /\ Holders' /\ BooksRight'
<1>1. PICK O : O = Own(object, row, pool)
  OBVIOUS
<1>2. PICK H : H = HeldPtrs(held)
  OBVIOUS
<1>3. PICK L : L = Locks(object)
  OBVIOUS
<1>4. Books(O \cup H, L, {}) /\ HeapInv
  BY <1>1, <1>2, <1>3 DEF MemInv, BooksRight, Given
<1>5. \A t \in Worker \cup {INFO} : pending[t].ptr = NULL
  BY NobodyPends
<1>6. Pending = {}
  BY <1>4, NobodyPends DEF Books
<1>7. NULL \notin O /\ NULL \notin H /\ O \cap H = {}
  <2>1. NULL \notin O
    BY <1>1, OwnIsUnits DEF MemInv, Holders
  <2> QED
    BY <2>1, <1>1, <1>2, NullFacts DEF MemInv, Holders, HeldOnce, HeldPtrs
<1>8. ptr \in (O \cup H) \cup {NULL}
  BY <1>1
<1>9. HeapInv' /\ Books((O \cup H) \ {ptr}, L, {})'
  BY <1>4, <1>6, <1>7, <1>8, BooksFree
<1>10. PICK O2 : O2 = Own(obj2, r2, q2)
  OBVIOUS
<1>11. O2 = O \ {ptr} /\ Locks(obj2) = L
  BY <1>1, <1>3, <1>10
<1>12. (O \cup H) \ {ptr} = O2 \cup H
  BY <1>1, <1>7, <1>11
<1>13. held' = held /\ HeldPtrs(held') = H /\ HeldOnce(held') /\ pending' = pending
  BY <1>2 DEF MemInv, Holders
<1>14. (O2 \cup L) \cap H = {}
  BY <1>1, <1>2, <1>3, <1>11 DEF MemInv, Holders
<1>15. Holders'
  BY <1>5, <1>10, <1>11, <1>13, <1>14 DEF Holders
<1>16. Books(O2 \cup H, L, {})'
  BY <1>9, <1>12
<1>17. BooksRight'
  BY <1>10, <1>11, <1>13, <1>16 DEF BooksRight
<1> QED
  BY <1>9, <1>15, <1>17

\* ... or the other.
LEMMA InfoMutexFrees ==
  ASSUME MemInv, Given, Runs(INFO), NEW ptr, PortFree(ptr), UNCHANGED <<traceVars, pending, held>>,
         ptr \in Locks(object) \cup {NULL},
         NEW obj2, object' = obj2, NEW r2, row' = r2, NEW q2, pool' = q2, OwnOnce(obj2, r2, q2),
         Own(obj2, r2, q2) = Own(object, row, pool), Locks(obj2) = Locks(object) \ {ptr}
  PROVE  HeapInv' /\ Holders' /\ BooksRight'
<1>1. PICK O : O = Own(object, row, pool)
  OBVIOUS
<1>2. PICK H : H = HeldPtrs(held)
  OBVIOUS
<1>3. PICK L : L = Locks(object)
  OBVIOUS
<1>4. Books(O \cup H, L, {}) /\ HeapInv
  BY <1>1, <1>2, <1>3 DEF MemInv, BooksRight, Given
<1>5. PICK M : M = L \ {ptr}
  OBVIOUS
<1>6. HeapInv' /\ Books(O \cup H, M, {})'
  BY <1>3, <1>4, <1>5, BooksMutexFree
<1>7. held' = held /\ HeldPtrs(held') = H /\ HeldOnce(held') /\ pending' = pending
  BY <1>2 DEF MemInv, Holders
<1>8. Own(obj2, r2, q2) = O /\ Locks(obj2) = M
  BY <1>1, <1>3, <1>5
<1>9. (O \cup M) \cap H = {}
  BY <1>1, <1>2, <1>3, <1>5 DEF MemInv, Holders
<1>10. Holders'
  BY <1>1, <1>7, <1>8, <1>9 DEF Holders, MemInv
<1>11. BooksRight'
  BY <1>6, <1>7, <1>8 DEF BooksRight
<1> QED
  BY <1>6, <1>10, <1>11

\* A step that only moves on.
LEMMA BlocksKept ==
  ASSUME MemInv, UNCHANGED <<heapVars, traceVars, pending, held, object, row, pool>>,
         at' \notin {"assert", "stopped"} => at \notin {"assert", "stopped"}
  PROVE  HeapInv' /\ Holders' /\ BooksRight'
<1>1. PICK P : P = Own(object, row, pool) \cup HeldPtrs(held)
  OBVIOUS
<1>2. PICK L : L = Locks(object)
  OBVIOUS
<1>3. PICK X \in SUBSET Unit : Books(P, L, X) /\ (at \notin {"assert", "stopped"} => X = {})
  BY <1>1, <1>2 DEF MemInv, BooksRight
<1>4. HeapInv' /\ Books(P, L, X)'
  BY <1>3, BooksKept DEF MemInv
<1>5. Own(object', row', pool') \cup HeldPtrs(held') = P /\ Locks(object') = L
  BY <1>1, <1>2
<1>6. BooksRight'
  BY <1>3, <1>4, <1>5 DEF BooksRight
<1>7. Holders'
  BY DEF MemInv, Holders
<1> QED
  BY <1>4, <1>6, <1>7

LEMMA RowTypes ==
  ASSUME MemInv
  PROVE  /\ OwnOnce(object, row, pool)
         /\ object \in [Objs -> Ptr] /\ row \in RowType /\ pool \in Seq(RowType) /\ Len(pool) \in Nat
         /\ RowOnce(row) /\ ListOnce(pool)
         /\ RowPtrs(row) \cap ListPtrs(pool) = {}
         /\ Stage /\ Counts /\ Flags /\ HeapInv /\ Holders
<1>1. OwnOnce(object, row, pool)
  BY DEF MemInv, Holders
<1> QED
  BY <1>1, LenProperties DEF MemInv, OwnOnce

LEMMA FlagsKept ==
  ASSUME Flags, NEW b \in BOOLEAN, Logs(b), UNCHANGED <<locker, cli>>
  PROVE  Flags'
BY DEF Flags, Logs

\* An object of the table is created or not, a mutex is created or not, ...
LEMMA ObjectCreated ==
  ASSUME MemInv, NEW here, NEW o \in {"table", "pool"}, InfoAlloc(here, o), Given, object[o] = NULL,
         object' = [object EXCEPT ![o] = MallocResult(SizeOf[o])], UNCHANGED <<row, pool>>
  PROVE  /\ HeapInv' /\ Holders' /\ BooksRight'
         /\ \A x \in Objs : x # o => object'[x] = object[x]
<1>1. PICK p : p = MallocResult(SizeOf[o])
  OBVIOUS
<1>2. Runs(INFO) /\ TraceMalloc(INFO, SizeOf[o]) /\ UNCHANGED held /\ PortMalloc(SizeOf[o])
  BY DEF InfoAlloc, InfoRuns, TraceMalloc
<1>3. o \in Kind /\ o \in Objs /\ SizeOf[o] \in Nat
  BY TypesHere DEF Kind, Objs
<1>4. p \in Ptr /\ p \notin Own(object, row, pool) \cup Locks(object)
  BY <1>1, <1>2, <1>3, FreshBlock
<1>5. PICK obj2 : obj2 = Put(object, o, p)
  OBVIOUS
<1>6. PICK r : r = row
  OBVIOUS
<1>7. PICK q : q = pool
  OBVIOUS
<1>8. /\ OwnOnce(obj2, r, q) /\ Locks(obj2) = Locks(object)
      /\ Own(obj2, r, q) = Own(object, row, pool) \cup ({p} \ {NULL})
  <2>1. OwnOnce(object, row, pool)
    BY RowTypes
  <2>2. /\ OwnOnce(obj2, row, pool) /\ Locks(obj2) = Locks(object)
        /\ Own(obj2, row, pool) = Own(object, row, pool) \cup ({p} \ {NULL})
    BY <2>1, <1>3, <1>4, <1>5, ObjectSet
  <2> QED
    BY <2>2, <1>6, <1>7
<1>9. object' = obj2 /\ row' = r /\ pool' = q
  BY <1>1, <1>5, <1>6, <1>7 DEF Put
<1>10. HeapInv' /\ Holders' /\ BooksRight'
  BY <1>1, <1>2, <1>3, <1>8, <1>9, InfoAllocates
<1> QED
  BY <1>10, RowTypes

LEMMA LockCreated ==
  ASSUME MemInv, NEW here, InfoMutex(here), Given, NEW o \in {"table_lock", "pool_lock"}, object[o] = NULL,
         object' = [object EXCEPT ![o] = MallocResult(SizeOf["mutex"])], UNCHANGED <<row, pool>>
  PROVE  /\ HeapInv' /\ Holders' /\ BooksRight'
         /\ \A x \in Objs : x # o => object'[x] = object[x]
<1>1. PICK p : p = MallocResult(SizeOf["mutex"])
  OBVIOUS
<1>2. Runs(INFO) /\ PortMalloc(SizeOf["mutex"]) /\ UNCHANGED <<traceVars, pending, held>>
  BY DEF InfoMutex, InfoRuns
<1>3. o \in Objs /\ SizeOf["mutex"] \in Nat
  BY TypesHere DEF Kind, Objs
<1>4. p \in Ptr /\ p \notin Own(object, row, pool) \cup Locks(object)
  BY <1>1, <1>2, <1>3, FreshBlock
<1>5. PICK obj2 : obj2 = Put(object, o, p)
  OBVIOUS
<1>6. PICK r : r = row
  OBVIOUS
<1>7. PICK q : q = pool
  OBVIOUS
<1>8. /\ OwnOnce(obj2, r, q) /\ Own(obj2, r, q) = Own(object, row, pool)
      /\ Locks(obj2) = Locks(object) \cup ({p} \ {NULL})
  <2>1. OwnOnce(object, row, pool)
    BY RowTypes
  <2>2. /\ OwnOnce(obj2, row, pool) /\ Own(obj2, row, pool) = Own(object, row, pool)
        /\ Locks(obj2) = Locks(object) \cup ({p} \ {NULL})
    BY <2>1, <1>3, <1>4, <1>5, ObjectSet
  <2> QED
    BY <2>2, <1>6, <1>7
<1>9. object' = obj2 /\ row' = r /\ pool' = q
  BY <1>1, <1>5, <1>6, <1>7 DEF Put
<1>10. HeapInv' /\ Holders' /\ BooksRight'
  BY <1>1, <1>2, <1>8, <1>9, InfoMutexes
<1> QED
  BY <1>10, RowTypes

\* ... an object is freed, a mutex is deleted.
LEMMA ObjectFreed ==
  ASSUME MemInv, NEW here, NEW o \in {"table", "pool"}, InfoFree(here, object[o]), Given,
         object' = [object EXCEPT ![o] = NULL], UNCHANGED <<row, pool>>
  PROVE  /\ HeapInv' /\ Holders' /\ BooksRight'
         /\ object'[o] = NULL /\ \A x \in Objs : x # o => object'[x] = object[x]
<1>1. PICK ptr : ptr = object[o]
  OBVIOUS
<1>2. Runs(INFO) /\ TraceFree(ptr) /\ UNCHANGED <<pending, held>>
  BY <1>1 DEF InfoFree, InfoRuns
<1>3. o \in Objs
  BY DEF Objs
<1>4. PICK obj2 : obj2 = Put(object, o, NULL)
  OBVIOUS
<1>5. PICK r : r = row
  OBVIOUS
<1>6. PICK q : q = pool
  OBVIOUS
<1>7. /\ OwnOnce(obj2, r, q) /\ Locks(obj2) = Locks(object)
      /\ Own(obj2, r, q) = Own(object, row, pool) \ {ptr}
      /\ ptr \in Own(object, row, pool) \cup {NULL}
  <2>1. OwnOnce(object, row, pool)
    BY RowTypes
  <2>2. /\ OwnOnce(obj2, row, pool) /\ Locks(obj2) = Locks(object)
        /\ Own(obj2, row, pool) = Own(object, row, pool) \ {object[o]}
        /\ object[o] \in Own(object, row, pool) \cup {NULL}
    BY <2>1, <1>3, <1>4, ObjectCleared
  <2> QED
    BY <2>2, <1>1, <1>5, <1>6
<1>8. object' = obj2 /\ row' = r /\ pool' = q
  BY <1>4, <1>5, <1>6 DEF Put
<1>9. HeapInv' /\ Holders' /\ BooksRight'
  BY <1>2, <1>7, <1>8, InfoFrees
<1> QED
  BY <1>3, <1>9, RowTypes

LEMMA LockDeleted ==
  ASSUME MemInv, NEW here, NEW o \in {"table_lock", "pool_lock"}, InfoMutexDel(here, object[o]), Given,
         object' = [object EXCEPT ![o] = NULL], UNCHANGED <<row, pool>>
  PROVE  /\ HeapInv' /\ Holders' /\ BooksRight'
         /\ object'[o] = NULL /\ \A x \in Objs : x # o => object'[x] = object[x]
<1>1. PICK ptr : ptr = object[o]
  OBVIOUS
<1>2. Runs(INFO) /\ PortFree(ptr) /\ UNCHANGED <<traceVars, pending, held>>
  BY <1>1 DEF InfoMutexDel, InfoRuns
<1>3. o \in Objs
  BY DEF Objs
<1>4. PICK obj2 : obj2 = Put(object, o, NULL)
  OBVIOUS
<1>5. PICK r : r = row
  OBVIOUS
<1>6. PICK q : q = pool
  OBVIOUS
<1>7. /\ OwnOnce(obj2, r, q) /\ Own(obj2, r, q) = Own(object, row, pool)
      /\ Locks(obj2) = Locks(object) \ {ptr}
      /\ ptr \in Locks(object) \cup {NULL}
  <2>1. OwnOnce(object, row, pool)
    BY RowTypes
  <2>2. /\ OwnOnce(obj2, row, pool) /\ Own(obj2, row, pool) = Own(object, row, pool)
        /\ Locks(obj2) = Locks(object) \ {object[o]}
        /\ object[o] \in Locks(object) \cup {NULL}
    BY <2>1, <1>3, <1>4, ObjectCleared
  <2> QED
    BY <2>2, <1>1, <1>5, <1>6
<1>8. object' = obj2 /\ row' = r /\ pool' = q
  BY <1>4, <1>5, <1>6 DEF Put
<1>9. HeapInv' /\ Holders' /\ BooksRight'
  BY <1>2, <1>7, <1>8, InfoMutexFrees
<1> QED
  BY <1>3, <1>9, RowTypes

\* A row is built up, or taken down.
LEMMA RowFilled ==
  ASSUME MemInv, NEW here, NEW kind \in Kind, InfoAlloc(here, kind), Given,
         NEW r2 \in RowType, RowOnce(r2), row' = r2,
         RowPtrs(r2) = RowPtrs(row) \cup ({MallocResult(SizeOf[kind])} \ {NULL}), UNCHANGED <<object, pool>>
  PROVE  HeapInv' /\ Holders' /\ BooksRight'
<1>1. PICK p : p = MallocResult(SizeOf[kind])
  OBVIOUS
<1>2. Runs(INFO) /\ TraceMalloc(INFO, SizeOf[kind]) /\ UNCHANGED held /\ PortMalloc(SizeOf[kind])
  BY DEF InfoAlloc, InfoRuns, TraceMalloc
<1>3. SizeOf[kind] \in Nat
  BY TypesHere
<1>4. p \in Ptr /\ p \notin Own(object, row, pool) \cup Locks(object)
  BY <1>1, <1>2, <1>3, FreshBlock
<1>5. PICK obj : obj = object
  OBVIOUS
<1>6. PICK q : q = pool
  OBVIOUS
<1>7. PICK N : N = {p} \ {NULL}
  OBVIOUS
<1>8. RowPtrs(r2) = RowPtrs(row) \cup N /\ N \cap (Own(object, row, pool) \cup Locks(object)) = {}
  BY <1>1, <1>4, <1>7
<1>9. OwnOnce(obj, r2, q) /\ Own(obj, r2, q) = Own(object, row, pool) \cup N
  BY <1>5, <1>6, <1>8, RowTypes, RowGrown
<1>10. object' = obj /\ pool' = q /\ Locks(obj) = Locks(object)
  BY <1>5, <1>6
<1> QED
  BY <1>1, <1>2, <1>7, <1>9, <1>10, InfoAllocates

LEMMA RowDrained ==
  ASSUME MemInv, NEW here, NEW ptr, InfoFree(here, ptr), Given,
         NEW r2 \in RowType, RowOnce(r2), row' = r2,
         RowPtrs(r2) = RowPtrs(row) \ {ptr}, ptr \in RowPtrs(row) \cup {NULL}, UNCHANGED <<object, pool>>
  PROVE  HeapInv' /\ Holders' /\ BooksRight'
<1>1. Runs(INFO) /\ TraceFree(ptr) /\ UNCHANGED <<pending, held>>
  BY DEF InfoFree, InfoRuns
<1>2. PICK obj : obj = object
  OBVIOUS
<1>3. PICK q : q = pool
  OBVIOUS
<1>4. /\ OwnOnce(obj, r2, q) /\ Own(obj, r2, q) = Own(object, row, pool) \ {ptr}
      /\ ptr \in Own(object, row, pool) \cup {NULL}
  <2>1. OwnOnce(object, row, pool)
    BY RowTypes
  <2>2. /\ OwnOnce(object, r2, pool) /\ Own(object, r2, pool) = Own(object, row, pool) \ {ptr}
        /\ ptr \in Own(object, row, pool) \cup {NULL}
    BY <2>1, RowShrunk
  <2> QED
    BY <2>2, <1>2, <1>3
<1>5. object' = obj /\ pool' = q /\ Locks(obj) = Locks(object)
  BY <1>2, <1>3
<1> QED
  BY <1>1, <1>4, <1>5, InfoFrees

-----------------------------------------------------------------------------
(* Each action keeps the invariant *)

LEMMA WakeKeeps == ASSUME MemInv, Wake PROVE MemInv'
<1>1. /\ at = "sleep" /\ at' = "create" /\ Logs(TRUE)
      /\ UNCHANGED <<heapVars, traceVars, object, row, pool, count, pending, held, locker, cli>>
  BY DEF Wake
<1>2. HeapInv' /\ Holders' /\ BooksRight'
  BY <1>1, BlocksKept
<1>3. Stage'
  BY <1>1, RowTypes DEF Stage, Points
<1>4. Counts'
  BY <1>1, RowTypes DEF Counts
<1>5. Flags'
  BY <1>1, RowTypes, FlagsKept
<1> QED
  BY <1>2, <1>3, <1>4, <1>5 DEF MemInv

LEMMA CreateTableKeeps == ASSUME MemInv, CreateTable PROVE MemInv'
<1>1. PICK b \in BOOLEAN : b = (MallocResult(SizeOf["table"]) = NULL)
  OBVIOUS
<1>2. /\ at = "create" /\ InfoAlloc("create", "table") /\ UNCHANGED <<row, pool, count, locker, cli>>
      /\ object' = [object EXCEPT !["table"] = MallocResult(SizeOf["table"])]
      /\ at' = IF b THEN "assert" ELSE "table_lock"
      /\ Logs(b)
  BY <1>1 DEF CreateTable, InfoAlloc
<1>3. Given /\ object["table"] = NULL
  BY <1>2, RowTypes DEF Given, Stage
<1>4. /\ HeapInv' /\ Holders' /\ BooksRight'
      /\ \A x \in Objs : x # "table" => object'[x] = object[x]
  BY <1>2, <1>3, ObjectCreated
<1>5. Stage'
  BY <1>2, <1>4, RowTypes DEF Stage, Points, Objs
<1>6. Counts'
  BY <1>2, RowTypes DEF Counts
<1>7. Flags'
  BY <1>2, RowTypes, FlagsKept
<1> QED
  BY <1>4, <1>5, <1>6, <1>7 DEF MemInv

LEMMA CreatePoolKeeps == ASSUME MemInv, CreatePool PROVE MemInv'
<1>1. PICK b \in BOOLEAN : b = (MallocResult(SizeOf["pool"]) = NULL)
  OBVIOUS
<1>2. /\ at = "pool" /\ InfoAlloc("pool", "pool") /\ UNCHANGED <<row, pool, count, locker, cli>>
      /\ object' = [object EXCEPT !["pool"] = MallocResult(SizeOf["pool"])]
      /\ at' = IF b THEN "free_table" ELSE "pool_lock"
      /\ Logs(b)
  BY <1>1 DEF CreatePool, InfoAlloc
<1>3. Given /\ object["pool"] = NULL
  BY <1>2, RowTypes DEF Given, Stage
<1>4. /\ HeapInv' /\ Holders' /\ BooksRight'
      /\ \A x \in Objs : x # "pool" => object'[x] = object[x]
  BY <1>2, <1>3, ObjectCreated
<1>5. b => object'["pool"] = NULL
  BY <1>1, <1>2, RowTypes DEF Objs
<1>6. Stage'
  BY <1>2, <1>4, <1>5, RowTypes DEF Stage, Points, Objs
<1>7. Counts'
  BY <1>2, RowTypes DEF Counts
<1>8. Flags'
  BY <1>2, RowTypes, FlagsKept
<1> QED
  BY <1>4, <1>6, <1>7, <1>8 DEF MemInv

LEMMA CreateLockKeeps ==
  ASSUME MemInv, CreateLock("table_lock", "pool") \/ CreateLock("pool_lock", "push")
  PROVE  MemInv'
<1>1. PICK b \in BOOLEAN : b = (MallocResult(SizeOf["mutex"]) = NULL)
  OBVIOUS
<1>2. PICK o \in {"table_lock", "pool_lock"} : CreateLock(o, IF o = "table_lock" THEN "pool" ELSE "push")
  OBVIOUS
<1>3. /\ at = o /\ InfoMutex(o) /\ UNCHANGED <<row, pool, count, locker, cli>>
      /\ object' = [object EXCEPT ![o] = MallocResult(SizeOf["mutex"])]
      /\ at' = IF b THEN "assert" ELSE IF o = "table_lock" THEN "pool" ELSE "push"
      /\ Logs(b)
  BY <1>1, <1>2 DEF CreateLock, InfoMutex
<1>4. Given /\ object[o] = NULL
  BY <1>3, RowTypes DEF Given, Stage
<1>5. /\ HeapInv' /\ Holders' /\ BooksRight'
      /\ \A x \in Objs : x # o => object'[x] = object[x]
  BY <1>3, <1>4, LockCreated
<1>6. Stage'
  BY <1>3, <1>5, RowTypes DEF Stage, Points, Objs
<1>7. Counts'
  BY <1>3, RowTypes DEF Counts, Stage
<1>8. Flags'
  BY <1>3, RowTypes, FlagsKept
<1> QED
  BY <1>5, <1>6, <1>7, <1>8 DEF MemInv

LEMMA AbnormalStopKeeps == ASSUME MemInv, AbnormalStop PROVE MemInv'
<1>1. /\ at = "assert" /\ at' = "stopped"
      /\ UNCHANGED <<heapVars, traceVars, object, row, pool, count, pending, held, logging, locker, cli>>
  BY DEF AbnormalStop, logVars
<1>2. HeapInv' /\ Holders' /\ BooksRight'
  BY <1>1, BlocksKept
<1>3. Stage'
  BY <1>1, RowTypes DEF Stage, Points
<1>4. Counts'
  BY <1>1, RowTypes DEF Counts
<1>5. Flags'
  BY <1>1, RowTypes DEF Flags
<1> QED
  BY <1>2, <1>3, <1>4, <1>5 DEF MemInv

LEMMA PushRowKeeps == ASSUME MemInv, PushRow PROVE MemInv'
<1>1. PICK p : p = MallocResult(SizeOf["row"])
  OBVIOUS
<1>2. PICK b \in BOOLEAN : b = (p = NULL)
  OBVIOUS
<1>3. /\ at = "push" /\ count < Rows /\ InfoAlloc("push", "row") /\ UNCHANGED <<object, pool, locker, cli>>
      /\ row' = [row EXCEPT !.row = p]
      /\ IF b THEN count' = count + 1 /\ at' = "push" ELSE at' = "cells" /\ count' = count
      /\ Logs(b)
  BY <1>1, <1>2 DEF PushRow, InfoAlloc
<1>4. Given /\ row = NoRow
  BY <1>3, RowTypes DEF Given, Stage
<1>5. "row" \in Kind /\ SizeOf["row"] \in Nat /\ PortMalloc(SizeOf["row"])
  BY <1>3, TypesHere DEF Kind, InfoAlloc, TraceMalloc
<1>6. p \in Ptr
  BY <1>1, <1>5, FreshBlock
<1>7. PICK r2 : r2 = [NoRow EXCEPT !.row = p]
  OBVIOUS
<1>8. r2 \in RowType /\ RowOnce(r2) /\ RowPtrs(r2) = {p} \ {NULL} /\ r2.node = NULL
  BY <1>6, <1>7, RowBegun
<1>9. row' = r2 /\ RowPtrs(r2) = RowPtrs(row) \cup ({p} \ {NULL})
  BY <1>3, <1>4, <1>7, <1>8, NoRowFacts
<1>10. HeapInv' /\ Holders' /\ BooksRight'
  BY <1>1, <1>3, <1>4, <1>5, <1>8, <1>9, RowFilled
<1>11. b => row' = NoRow
  BY <1>2, <1>3, <1>4 DEF NoRow
<1>12. Stage'
  BY <1>3, <1>8, <1>9, <1>11, RowTypes DEF Stage, Points
<1>13. Counts'
  BY <1>3, RowTypes, TypesHere DEF Counts
<1>14. Flags'
  BY <1>3, RowTypes, FlagsKept
<1> QED
  BY <1>10, <1>12, <1>13, <1>14 DEF MemInv

LEMMA PushStringKeeps == ASSUME MemInv, PushString PROVE MemInv'
<1>1. PICK p : p = MallocResult(SizeOf["string"])
  OBVIOUS
<1>2. PICK b \in BOOLEAN : b = (p = NULL)
  OBVIOUS
<1>3. /\ at = "cells" /\ InfoAlloc("cells", "string") /\ UNCHANGED <<at, count, object, pool, locker, cli>>
      /\ row' = [row EXCEPT !.str = Append(@, p)]
      /\ Logs(b)
  BY <1>1, <1>2 DEF PushString, InfoAlloc
<1>4. Given
  BY <1>3 DEF Given
<1>5. "string" \in Kind /\ SizeOf["string"] \in Nat /\ PortMalloc(SizeOf["string"])
  BY <1>3, TypesHere DEF Kind, InfoAlloc, TraceMalloc
<1>6. p \in Ptr /\ p \notin RowPtrs(row)
  BY <1>1, <1>5, FreshBlock DEF Own
<1>7. PICK r2 : r2 = [row EXCEPT !.str = Append(@, p)]
  OBVIOUS
<1>8. r2 \in RowType /\ RowOnce(r2) /\ RowPtrs(r2) = RowPtrs(row) \cup ({p} \ {NULL}) /\ r2.node = row.node
  BY <1>6, <1>7, RowTypes, StringAdded
<1>9. HeapInv' /\ Holders' /\ BooksRight'
  BY <1>1, <1>3, <1>4, <1>5, <1>7, <1>8, RowFilled
<1>10. Stage'
  BY <1>3, <1>7, <1>8, RowTypes DEF Stage, Points
<1>11. Counts'
  BY <1>3, RowTypes DEF Counts
<1>12. Flags'
  BY <1>3, RowTypes, FlagsKept
<1> QED
  BY <1>9, <1>10, <1>11, <1>12 DEF MemInv

LEMMA PushNodeKeeps == ASSUME MemInv, PushNode PROVE MemInv'
<1>1. PICK p : p = MallocResult(SizeOf["node"])
  OBVIOUS
<1>2. PICK b \in BOOLEAN : b = (p # NULL /\ count + 1 = Rows)
  OBVIOUS
<1>3. /\ at = "cells" /\ InfoAlloc("cells", "node") /\ UNCHANGED <<object, locker, cli>>
      /\ IF p # NULL
         THEN /\ pool' = Append(pool, [row EXCEPT !.node = p])
              /\ row' = NoRow
              /\ at' = "push" /\ count' = count + 1
         ELSE at' = "del_row" /\ UNCHANGED <<row, pool, count>>
      /\ Logs(b)
  BY <1>1, <1>2 DEF PushNode, InfoAlloc
<1>4. Given /\ row.node = NULL
  BY <1>3, RowTypes DEF Given, Stage
<1>5. "node" \in Kind /\ SizeOf["node"] \in Nat /\ PortMalloc(SizeOf["node"])
  BY <1>3, TypesHere DEF Kind, InfoAlloc, TraceMalloc
<1>6. p \in Ptr /\ p \notin Own(object, row, pool) \cup Locks(object) /\ p \notin RowPtrs(row)
  BY <1>1, <1>5, FreshBlock DEF Own
<1>7. Flags'
  BY <1>3, RowTypes, FlagsKept
<1>8. CASE p = NULL
  <2>1. PICK r2 : r2 = row
    OBVIOUS
  <2>2. /\ r2 \in RowType /\ RowOnce(r2) /\ row' = r2
        /\ RowPtrs(r2) = RowPtrs(row) \cup ({p} \ {NULL})
    BY <2>1, <1>3, <1>8, RowTypes
  <2>3. HeapInv' /\ Holders' /\ BooksRight'
    BY <2>2, <1>1, <1>3, <1>4, <1>5, <1>8, RowFilled
  <2>4. Stage'
    BY <1>3, <1>8, RowTypes DEF Stage, Points
  <2>5. Counts'
    BY <1>3, <1>8, RowTypes, TypesHere DEF Counts
  <2> QED
    BY <2>3, <2>4, <2>5, <1>7 DEF MemInv
<1>9. CASE p # NULL
  <2>1. PICK r2 : r2 = [row EXCEPT !.node = p]
    OBVIOUS
  <2>2. r2 \in RowType /\ RowOnce(r2) /\ RowPtrs(r2) = RowPtrs(row) \cup {p}
    BY <2>1, <1>4, <1>6, <1>9, RowTypes, NodeAdded
  <2>3. PICK q2 : q2 = Append(pool, r2)
    OBVIOUS
  <2>4. p \notin ListPtrs(pool) /\ p \notin Plain(object) \cup Locks(object)
    BY <1>6 DEF Own
  <2>5. RowPtrs(r2) \cap ListPtrs(pool) = {}
    BY <2>2, <2>4, RowTypes
  <2>6. /\ q2 \in Seq(RowType) /\ Len(q2) = Len(pool) + 1
        /\ ListOnce(q2) /\ ListPtrs(q2) = ListPtrs(pool) \cup RowPtrs(r2)
    BY <2>2, <2>3, <2>5, RowTypes, ListAppended
  <2>7. PICK obj : obj = object
    OBVIOUS
  <2>8. OwnOnce(obj, NoRow, q2)
    <3>1. (Plain(obj) \cup Locks(obj)) \cap (RowPtrs(NoRow) \cup ListPtrs(q2)) = {}
      BY <2>2, <2>4, <2>6, <2>7, RowTypes, NoRowFacts DEF OwnOnce
    <3> QED
      BY <3>1, <2>6, <2>7, RowTypes, NoRowFacts, NullFacts DEF OwnOnce
  <2>9. Own(obj, NoRow, q2) = Own(object, row, pool) \cup ({p} \ {NULL}) /\ Locks(obj) = Locks(object)
    BY <2>2, <2>6, <2>7, <1>9, NoRowFacts DEF Own
  <2>10. object' = obj /\ row' = NoRow /\ pool' = q2
    BY <2>1, <2>3, <2>7, <1>3, <1>9
  <2>11. Runs(INFO) /\ TraceMalloc(INFO, SizeOf["node"]) /\ UNCHANGED held
    BY <1>3 DEF InfoAlloc, InfoRuns
  <2>12. HeapInv' /\ Holders' /\ BooksRight'
    BY <2>8, <2>9, <2>10, <2>11, <1>1, <1>4, <1>5, InfoAllocates
  <2>13. Stage'
    BY <1>3, <1>9, RowTypes, NullFacts DEF Stage, Points
  <2>14. Counts'
    BY <2>6, <2>10, <1>3, <1>9, RowTypes, TypesHere DEF Counts
  <2> QED
    BY <2>12, <2>13, <2>14, <1>7 DEF MemInv
<1> QED
  BY <1>8, <1>9

LEMMA CreateFailsKeeps == ASSUME MemInv, CreateFails PROVE MemInv'
<1>1. PICK ptr : ptr = object["table"]
  OBVIOUS
<1>2. /\ at = "free_table" /\ Runs(INFO) /\ TraceFree(ptr) /\ UNCHANGED <<pending, held>>
      /\ object' = NoObjects /\ at' = "assert"
      /\ Logs(TRUE) /\ UNCHANGED <<row, pool, count, locker, cli>>
  BY <1>1 DEF CreateFails, InfoFree, InfoRuns
<1>3. Given /\ object["pool"] = NULL /\ object["pool_lock"] = NULL /\ row = NoRow /\ pool = <<>>
  BY <1>2, RowTypes DEF Given, Stage
<1>4. PICK O : O = Own(object, row, pool)
  OBVIOUS
<1>5. PICK H : H = HeldPtrs(held)
  OBVIOUS
<1>6. PICK L : L = Locks(object)
  OBVIOUS
<1>7. Books(O \cup H, L, {}) /\ HeapInv
  BY <1>3, <1>4, <1>5, <1>6 DEF MemInv, BooksRight, Given
<1>8. O = {ptr} \ {NULL}
  BY <1>1, <1>3, <1>4, NoRowFacts, EmptyList DEF Own, Plain
<1>9. Pending = {} /\ \A t \in Worker \cup {INFO} : pending[t].ptr = NULL
  BY <1>2, <1>7, NobodyPends DEF Books
<1>10. NULL \notin O \cup H /\ O \cap H = {}
  BY <1>4, <1>5, <1>8, NullFacts DEF MemInv, Holders, HeldOnce, HeldPtrs
<1>11. HeapInv' /\ Books((O \cup H) \ {ptr}, L, {})'
  BY <1>2, <1>7, <1>8, <1>9, <1>10, BooksFree
<1>12. (O \cup H) \ {ptr} = H
  BY <1>8, <1>10, <1>5, NullFacts DEF HeldPtrs, MemInv, Holders, HeldOnce
<1>13. Books(H, {}, L)'
  BY <1>11, <1>12 DEF Books
<1>14. Own(NoObjects, NoRow, <<>>) = {} /\ Locks(NoObjects) = {}
  BY NoRowFacts, EmptyList DEF Own, Plain, Locks, NoObjects
<1>15. OwnOnce(NoObjects, NoRow, <<>>)
  <2>1. NoObjects \in [Objs -> Ptr] /\ \A o \in Objs : NoObjects[o] = NULL
    BY NullFacts DEF NoObjects, Objs
  <2>2. (Plain(NoObjects) \cup Locks(NoObjects)) \cap (RowPtrs(NoRow) \cup ListPtrs(<<>>)) = {}
    BY NoRowFacts, EmptyList
  <2> QED
    BY <2>1, <2>2, NoRowFacts, NullFacts, EmptyList DEF OwnOnce
<1>16. L \in SUBSET Unit
  BY <1>6, OwnIsUnits, RowTypes
<1>17. object' = NoObjects /\ row' = NoRow /\ pool' = <<>> /\ held' = held /\ pending' = pending
  BY <1>2, <1>3
<1>18. Holders'
  BY <1>9, <1>14, <1>15, <1>17 DEF Holders, MemInv
<1>19. BooksRight'
  <2>1. Books(Own(object, row, pool) \cup HeldPtrs(held), Locks(object), L)'
    BY <1>5, <1>13, <1>14, <1>17
  <2> QED
    BY <2>1, <1>2, <1>16 DEF BooksRight
<1>20. Stage'
  BY <1>2, <1>3, <1>17, RowTypes, NullFacts DEF Stage, Points, NoObjects
<1>21. Counts'
  BY <1>2, RowTypes DEF Counts
<1>22. Flags'
  BY <1>2, RowTypes, FlagsKept
<1> QED
  BY <1>11, <1>18, <1>19, <1>20, <1>21, <1>22 DEF MemInv

LEMMA DelStringKeeps == ASSUME MemInv, DelString PROVE MemInv'
<1>1. /\ at = "del_row" /\ row.str # <<>> /\ InfoFree("del_row", Head(row.str))
      /\ UNCHANGED <<at, count, object, pool, locker, cli>>
      /\ row' = [row EXCEPT !.str = Tail(@)]
      /\ Logs(FALSE)
  BY DEF DelString, InfoFree
<1>2. Given
  BY <1>1 DEF Given
<1>3. PICK r2 : r2 = [row EXCEPT !.str = Tail(@)]
  OBVIOUS
<1>4. /\ r2 \in RowType /\ RowOnce(r2) /\ RowPtrs(r2) = RowPtrs(row) \ {Head(row.str)}
      /\ r2.node = row.node /\ Head(row.str) \in RowPtrs(row) \cup {NULL}
  BY <1>1, <1>3, RowTypes, StringDeleted
<1>5. HeapInv' /\ Holders' /\ BooksRight'
  BY <1>1, <1>2, <1>3, <1>4, RowDrained
<1>6. Stage'
  BY <1>1, <1>3, <1>4, RowTypes DEF Stage, Points
<1>7. Counts'
  BY <1>1, RowTypes DEF Counts
<1>8. Flags'
  BY <1>1, RowTypes, FlagsKept
<1> QED
  BY <1>5, <1>6, <1>7, <1>8 DEF MemInv

LEMMA DelRowKeeps == ASSUME MemInv, DelRow PROVE MemInv'
<1>1. PICK b \in BOOLEAN : b = (count + 1 >= Rows)
  <2>1. (count + 1 >= Rows) \in BOOLEAN
    OBVIOUS
  <2> QED
    BY <2>1
<1>2. /\ at = "del_row" /\ row.str = <<>> /\ InfoFree("del_row", row.row)
      /\ UNCHANGED <<object, pool, locker, cli>>
      /\ row' = NoRow /\ count' = count + 1 /\ at' = "push"
      /\ Logs(b)
  BY <1>1 DEF DelRow, InfoFree
<1>3. Given /\ row.node = NULL
  BY <1>2, RowTypes DEF Given, Stage
<1>4. RowPtrs(row) = {row.row} \ {NULL}
  BY <1>2, <1>3, RowTypes, RowEmptied
<1>5. /\ NoRow \in RowType /\ RowOnce(NoRow) /\ RowPtrs(NoRow) = RowPtrs(row) \ {row.row}
      /\ row.row \in RowPtrs(row) \cup {NULL}
  BY <1>4, NullFacts, NoRowFacts
<1>6. HeapInv' /\ Holders' /\ BooksRight'
  BY <1>2, <1>3, <1>5, RowDrained
<1>7. Stage'
  BY <1>2, RowTypes, NullFacts DEF Stage, Points
<1>8. Counts'
  BY <1>2, RowTypes, TypesHere DEF Counts
<1>9. Flags'
  BY <1>2, RowTypes, FlagsKept
<1> QED
  BY <1>6, <1>7, <1>8, <1>9 DEF MemInv

LEMMA PopRowKeeps == ASSUME MemInv, PopRow PROVE MemInv'
<1>1. CASE pool = <<>>
  <2>1. PICK b \in BOOLEAN : b = (count < 2 * Rows)
    <3>1. (count < 2 * Rows) \in BOOLEAN
      OBVIOUS
    <3> QED
      BY <3>1
  <2>2. /\ count \in Rows..(2 * Rows) /\ at = "push" /\ count' = count + 1 /\ Logs(b)
        /\ UNCHANGED <<heapVars, traceVars, pending, held, locker, cli, at, row, pool, object>>
    BY <2>1, <1>1 DEF PopRow
  <2>3. HeapInv' /\ Holders' /\ BooksRight'
    BY <2>2, BlocksKept
  <2>4. Stage'
    BY <2>2, RowTypes DEF Stage, Points
  <2>5. Counts'
    <3>1. count \in Nat /\ count >= Rows /\ count <= 2 * Rows
      BY <2>2, TypesHere
    <3> QED
      BY <3>1, <2>2, <1>1, RowTypes, TypesHere DEF Counts
  <2>6. Flags'
    BY <2>2, RowTypes, FlagsKept
  <2> QED
    BY <2>3, <2>4, <2>5, <2>6 DEF MemInv
<1>2. CASE pool # <<>>
  <2>1. PICK ptr : ptr = Head(pool).node
    OBVIOUS
  <2>2. /\ count \in Rows..(2 * Rows) /\ at = "push" /\ Runs(INFO) /\ TraceFree(ptr)
        /\ UNCHANGED <<pending, held, locker, cli, object, count>>
        /\ row' = [Head(pool) EXCEPT !.node = NULL]
        /\ pool' = Tail(pool) /\ at' = "del_row" /\ Logs(FALSE)
    BY <2>1, <1>2 DEF PopRow, InfoFree, InfoRuns
  <2>3. Given /\ row = NoRow
    BY <2>2, RowTypes DEF Given, Stage
  <2>4. PICK r : r = Head(pool)
    OBVIOUS
  <2>5. PICK q2 : q2 = Tail(pool)
    OBVIOUS
  <2>6. /\ q2 \in Seq(RowType) /\ Len(q2) + 1 = Len(pool) /\ Len(q2) \in Nat
        /\ r \in RowType /\ RowOnce(r) /\ ListOnce(q2)
        /\ ListPtrs(pool) = RowPtrs(r) \cup ListPtrs(q2)
        /\ RowPtrs(r) \cap ListPtrs(q2) = {}
    BY <2>4, <2>5, <1>2, RowTypes, ListPopped
  <2>7. PICK r2 : r2 = [r EXCEPT !.node = NULL]
    OBVIOUS
  <2>8. /\ r2 \in RowType /\ RowOnce(r2) /\ RowPtrs(r2) = RowPtrs(r) \ {ptr} /\ r2.node = NULL
        /\ ptr \in RowPtrs(r) \cup {NULL}
    BY <2>1, <2>4, <2>6, <2>7, NodeTaken
  <2>9. PICK obj : obj = object
    OBVIOUS
  <2>10. /\ (Plain(obj) \cup Locks(obj)) \cap (RowPtrs(r) \cup ListPtrs(q2)) = {}
         /\ obj \in [Objs -> Ptr] /\ \A o, p \in Objs : obj[o] = obj[p] /\ o # p => obj[o] = NULL
    BY <2>6, <2>9, RowTypes DEF OwnOnce
  <2>11. OwnOnce(obj, r2, q2)
    BY <2>6, <2>8, <2>10 DEF OwnOnce
  <2>12. NULL \notin RowPtrs(r) /\ NULL \notin ListPtrs(q2) /\ NULL \notin Plain(obj)
    BY DEF RowPtrs, ListPtrs, Plain
  <2>13. Own(object, row, pool) = Plain(obj) \cup (RowPtrs(r) \cup ListPtrs(q2))
    BY <2>3, <2>6, <2>9, NoRowFacts DEF Own
  <2>14. Own(obj, r2, q2) = Own(object, row, pool) \ {ptr}
    BY <2>6, <2>8, <2>10, <2>12, <2>13 DEF Own
  <2>15. ptr \in Own(object, row, pool) \cup {NULL} /\ Locks(obj) = Locks(object)
    BY <2>8, <2>9, <2>13
  <2>16. object' = obj /\ row' = r2 /\ pool' = q2 /\ UNCHANGED <<pending, held>>
    BY <2>2, <2>4, <2>5, <2>7, <2>9
  <2>17. HeapInv' /\ Holders' /\ BooksRight'
    BY <2>2, <2>3, <2>11, <2>14, <2>15, <2>16, InfoFrees
  <2>18. Stage'
    BY <2>2, <2>8, <2>16, RowTypes DEF Stage, Points
  <2>19. Counts'
    <3>1. count \in Nat /\ count >= Rows /\ count <= 2 * Rows
      BY <2>2, TypesHere
    <3> QED
      BY <3>1, <2>2, <2>6, <2>16, <1>2, RowTypes, TypesHere DEF Counts
  <2>20. Flags'
    BY <2>2, RowTypes, FlagsKept
  <2> QED
    BY <2>17, <2>18, <2>19, <2>20 DEF MemInv
<1> QED
  BY <1>1, <1>2

LEMMA DestroyLockKeeps ==
  ASSUME MemInv, NEW here, NEW o \in {"table_lock", "pool_lock"}, NEW next,
         DestroyLock(here, o, next),
         \/ here = "push" /\ o = "pool_lock" /\ next = "del_pool" /\ count > 2 * Rows
         \/ here = "del_lock" /\ o = "table_lock" /\ next = "del_table"
  PROVE  MemInv'
<1>1. /\ at = here /\ InfoMutexDel(here, object[o]) /\ object' = [object EXCEPT ![o] = NULL] /\ at' = next
      /\ Logs(FALSE) /\ UNCHANGED <<row, pool, count, locker, cli>>
  BY DEF DestroyLock, InfoMutexDel
<1>2. Given
  BY <1>1 DEF Given
<1>3. /\ HeapInv' /\ Holders' /\ BooksRight'
      /\ object'[o] = NULL /\ \A x \in Objs : x # o => object'[x] = object[x]
  BY <1>1, <1>2, LockDeleted
<1>4. here = "push" => pool = <<>>
  <2>1. CASE here = "push"
    <3>1. count > 2 * Rows /\ count \in Nat /\ Len(pool) \in Nat /\ count >= Rows
      BY <2>1, RowTypes, TypesHere DEF Counts
    <3> QED
      BY <3>1, <2>1, <1>1, RowTypes, TypesHere DEF Counts
  <2> QED
    BY <2>1
<1>5. Stage'
  BY <1>1, <1>3, <1>4, RowTypes DEF Stage, Points, Objs
<1>6. Counts'
  BY <1>1, RowTypes DEF Counts
<1>7. Flags'
  BY <1>1, RowTypes, FlagsKept
<1> QED
  BY <1>3, <1>5, <1>6, <1>7 DEF MemInv

LEMMA DestroyObjectKeeps ==
  ASSUME MemInv, NEW here, NEW o \in {"table", "pool"}, NEW next,
         DestroyObject(here, o, next),
         \/ here = "del_pool" /\ o = "pool" /\ next = "del_lock"
         \/ here = "del_table" /\ o = "table" /\ next = "sleep"
  PROVE  MemInv'
<1>1. /\ at = here /\ InfoFree(here, object[o]) /\ object' = [object EXCEPT ![o] = NULL] /\ at' = next
      /\ count' = IF next = "sleep" THEN 0 ELSE count
      /\ Logs(FALSE) /\ UNCHANGED <<row, pool, locker, cli>>
  BY DEF DestroyObject, InfoFree
<1>2. Given
  BY <1>1 DEF Given
<1>3. /\ HeapInv' /\ Holders' /\ BooksRight'
      /\ object'[o] = NULL /\ \A x \in Objs : x # o => object'[x] = object[x]
  BY <1>1, <1>2, ObjectFreed
<1>4. pool = <<>> /\ Len(pool) = 0
  BY <1>1, RowTypes, EmptyList DEF Stage
<1>5. Stage'
  BY <1>1, <1>3, RowTypes DEF Stage, Points, Objs
<1>6. Counts'
  <2>1. pool' = <<>> /\ Len(pool') = 0 /\ at' \in {"sleep", "del_lock"} /\ at \notin {"cells", "del_row"}
    BY <1>1, <1>4
  <2>2. CASE next = "sleep"
    <3>1. count' = 0
      BY <2>2, <1>1
    <3> QED
      BY <2>1, <3>1, TypesHere DEF Counts
  <2>3. CASE next # "sleep"
    <3>1. count' = count
      BY <2>3, <1>1
    <3> QED
      BY <2>1, <3>1, <1>4, RowTypes, TypesHere DEF Counts
  <2> QED
    BY <2>2, <2>3
<1>7. Flags'
  BY <1>1, RowTypes, FlagsKept
<1> QED
  BY <1>3, <1>5, <1>6, <1>7 DEF MemInv

LEMMA PrintInfoKeeps == ASSUME MemInv, PrintInfo PROVE MemInv'
<1>1. CASE Wake
  BY <1>1, WakeKeeps
<1>2. CASE CreateTable
  BY <1>2, CreateTableKeeps
<1>3. CASE CreateLock("table_lock", "pool") \/ CreateLock("pool_lock", "push")
  BY <1>3, CreateLockKeeps
<1>4. CASE CreatePool
  BY <1>4, CreatePoolKeeps
<1>5. CASE CreateFails
  BY <1>5, CreateFailsKeeps
<1>6. CASE AbnormalStop
  BY <1>6, AbnormalStopKeeps
<1>7. CASE PushRow \/ PushString \/ PushNode
  BY <1>7, PushRowKeeps, PushStringKeeps, PushNodeKeeps
<1>8. CASE PopRow \/ DelString \/ DelRow
  BY <1>8, PopRowKeeps, DelStringKeeps, DelRowKeeps
<1>9. CASE Destroy
  BY <1>9, DestroyLockKeeps DEF Destroy
<1>10. CASE DestroyObject("del_pool", "pool", "del_lock")
  BY <1>10, DestroyObjectKeeps
<1>11. CASE DestroyLock("del_lock", "table_lock", "del_table")
  BY <1>11, DestroyLockKeeps
<1>12. CASE DestroyObject("del_table", "table", "sleep")
  BY <1>12, DestroyObjectKeeps
<1> QED
  BY <1>1, <1>2, <1>3, <1>4, <1>5, <1>6, <1>7, <1>8, <1>9, <1>10, <1>11, <1>12 DEF PrintInfo

-----------------------------------------------------------------------------
(* The steps of the other tasks *)

LEMMA Kept ==
  ASSUME MemInv, UNCHANGED <<heapVars, traceVars, pending, held, at, object, row, pool, count>>, Flags'
  PROVE  MemInv'
<1>1. HeapInv' /\ Holders' /\ BooksRight'
  BY BlocksKept
<1>2. Stage'
  BY RowTypes DEF Stage
<1>3. Counts'
  BY RowTypes DEF Counts
<1> QED
  BY <1>1, <1>2, <1>3 DEF MemInv

LEMMA PrintKeeps == ASSUME MemInv, PrintHead \/ PrintSuspend \/ PrintRows PROVE MemInv'
<1>1. UNCHANGED <<heapVars, traceVars, pending, held, at, object, row, pool, count>>
  BY DEF PrintHead, PrintSuspend, PrintRows, infoVars
<1>2. Flags'
  BY RowTypes DEF PrintHead, PrintSuspend, PrintRows, Flags
<1> QED
  BY <1>1, <1>2, Kept

LEMMA LogKeeps == ASSUME MemInv, NEW t \in {INFO, CLI}, LogTake(t) \/ LogGive(t) PROVE MemInv'
<1>1. UNCHANGED <<heapVars, traceVars, pending, held, at, object, row, pool, count>>
  BY DEF LogTake, LogGive, infoVars
<1>2. Flags'
  BY RowTypes DEF LogTake, LogGive, Flags
<1> QED
  BY <1>1, <1>2, Kept

LEMMA TraceInsertKeeps ==
  ASSUME MemInv, NEW t \in Worker \cup {INFO}, TraceInsert(t)
  PROVE  MemInv'
<1>1. /\ UNCHANGED <<at, object, row, pool, count, locker, cli, held>>
      /\ logging' = logging \/ (t = INFO /\ logging' = [logging EXCEPT ![t] = TRUE])
  BY DEF TraceInsert, InsertInto, infoVars
<1>2. PICK P : P = Own(object, row, pool) \cup HeldPtrs(held)
  OBVIOUS
<1>3. PICK L : L = Locks(object)
  OBVIOUS
<1>4. PICK X \in SUBSET Unit : Books(P, L, X) /\ (at \notin {"assert", "stopped"} => X = {})
  BY <1>2, <1>3 DEF MemInv, BooksRight
<1>5. HeapInv' /\ pending' = [pending EXCEPT ![t] = NoCall] /\ Books(P, L, X)'
  BY <1>4, BooksInsert DEF MemInv
<1>6. Own(object', row', pool') \cup HeldPtrs(held') = P /\ Locks(object') = L
  BY <1>1, <1>2, <1>3
<1>7. BooksRight'
  BY <1>1, <1>4, <1>5, <1>6 DEF BooksRight
<1>8. pending \in [Worker \cup {INFO} -> [ptr : Ptr, size : Nat]] /\ NoCall.ptr = NULL
  BY <1>4 DEF Books, NoCall
<1>9. \A s \in Worker \cup {INFO} : pending'[s].ptr \in {pending[s].ptr, NULL}
  BY <1>5, <1>8
<1>10. Holders'
  BY <1>1, <1>9 DEF MemInv, Holders
<1>11. Stage'
  BY <1>1, RowTypes DEF Stage
<1>12. Counts'
  BY <1>1, RowTypes DEF Counts
<1>13. Flags'
  BY <1>1, RowTypes DEF Flags
<1> QED
  BY <1>5, <1>7, <1>10, <1>11, <1>12, <1>13 DEF MemInv

LEMMA WorkerMallocKeeps ==
  ASSUME MemInv, NEW w \in Worker, WorkerMalloc(w)
  PROVE  MemInv'
<1>1. PICK size \in WorkerSize :
        /\ Runs(w) /\ TraceMalloc(w, size)
        /\ held' = IF MallocResult(size) = NULL THEN held ELSE [held EXCEPT ![w] = @ \cup {MallocResult(size)}]
        /\ UNCHANGED <<at, object, row, pool, count, logging, locker, cli>>
  BY DEF WorkerMalloc, infoVars, logVars
<1>2. PICK p : p = MallocResult(size)
  OBVIOUS
<1>3. size \in Nat /\ size >= 1 /\ PortMalloc(size)
  BY <1>1, TypesHere DEF TraceMalloc
<1>4. pending[w] = NoCall /\ w # INFO
  BY <1>1, TypesHere DEF Runs
<1>5. PICK O : O = Own(object, row, pool)
  OBVIOUS
<1>6. PICK H : H = HeldPtrs(held)
  OBVIOUS
<1>7. PICK L : L = Locks(object)
  OBVIOUS
<1>8. PICK X \in SUBSET Unit : Books(O \cup H, L, X) /\ (at \notin {"assert", "stopped"} => X = {})
  BY <1>5, <1>6, <1>7 DEF MemInv, BooksRight
<1>9. /\ HeapInv'
      /\ p \in Ptr /\ p \notin (O \cup H) \cup L
      /\ pending' = [pending EXCEPT ![w] = [ptr |-> p, size |-> size]]
      /\ Books((O \cup H) \cup ({p} \ {NULL}), L, X)'
  BY <1>1, <1>2, <1>3, <1>4, <1>8, BooksMalloc DEF MemInv
<1>10. /\ held \in [Worker -> SUBSET Unit] /\ (O \cup L) \cap H = {}
       /\ \A v, u \in Worker : v # u => held[v] \cap held[u] = {}
       /\ \A v \in Worker : held[v] \subseteq H
  BY <1>5, <1>6, <1>7 DEF MemInv, Holders, HeldOnce, HeldPtrs
<1>11. PICK h : h = IF p = NULL THEN held ELSE [held EXCEPT ![w] = @ \cup {p}]
  OBVIOUS
<1>12. \A v \in Worker : h[v] = IF v = w THEN held[v] \cup ({p} \ {NULL}) ELSE held[v]
  BY <1>10, <1>11
<1>13. h \in [Worker -> SUBSET Unit]
  BY <1>9, <1>10, <1>11 DEF Ptr
<1>14. HeldPtrs(h) = H \cup ({p} \ {NULL})
  BY <1>6, <1>12 DEF HeldPtrs
<1>15. HeldOnce(h)
  <2>1. ASSUME NEW v \in Worker, NEW u \in Worker, v # u PROVE h[v] \cap h[u] = {}
    <3>1. held[v] \cap held[u] = {} /\ p \notin held[v] /\ p \notin held[u]
      BY <2>1, <1>9, <1>10
    <3>2. h[v] = held[v] \/ (u # w /\ h[v] = held[v] \cup ({p} \ {NULL}))
      BY <2>1, <1>12
    <3>3. h[u] = held[u] \/ (v # w /\ h[u] = held[u] \cup ({p} \ {NULL}))
      BY <2>1, <1>12
    <3>4. h[v] = held[v] \/ h[u] = held[u]
      BY <2>1, <1>12
    <3> QED
      BY <3>1, <3>2, <3>3, <3>4
  <2> QED
    BY <2>1, <1>13 DEF HeldOnce
<1>16. held' = h /\ object' = object /\ row' = row /\ pool' = pool /\ at' = at
  BY <1>1, <1>2, <1>11
<1>17. pending \in [Worker \cup {INFO} -> [ptr : Ptr, size : Nat]]
  BY <1>8 DEF Books
<1>18. ASSUME NEW v \in Worker PROVE pending'[v].ptr \in h[v] \cup {NULL}
  <2>1. pending[v].ptr \in held[v] \cup {NULL}
    BY DEF MemInv, Holders
  <2>2. CASE v = w
    BY <2>2, <1>9, <1>12, <1>17
  <2>3. CASE v # w
    BY <2>1, <2>3, <1>9, <1>12, <1>17
  <2> QED
    BY <2>2, <2>3
<1>19. pending'[INFO] = pending[INFO]
  BY <1>4, <1>9, <1>17
<1>20. (O \cup L) \cap HeldPtrs(h) = {}
  BY <1>9, <1>10, <1>14
<1>21. Holders'
  BY <1>5, <1>7, <1>15, <1>16, <1>18, <1>19, <1>20 DEF MemInv, Holders
<1>22. (O \cup H) \cup ({p} \ {NULL}) = O \cup HeldPtrs(h)
  BY <1>14
<1>23. Books(O \cup HeldPtrs(h), L, X)'
  BY <1>9, <1>22
<1>24. BooksRight'
  BY <1>5, <1>7, <1>8, <1>16, <1>23 DEF BooksRight
<1>25. Stage'
  BY <1>1, RowTypes DEF Stage
<1>26. Counts'
  BY <1>1, RowTypes DEF Counts
<1>27. Flags'
  BY <1>1, RowTypes DEF Flags
<1> QED
  BY <1>9, <1>21, <1>24, <1>25, <1>26, <1>27 DEF MemInv

LEMMA WorkerFreeKeeps ==
  ASSUME MemInv, NEW w \in Worker, WorkerFree(w)
  PROVE  MemInv'
<1>1. PICK ptr \in held[w] :
        /\ Runs(w) /\ TraceFree(ptr)
        /\ held' = [held EXCEPT ![w] = @ \ {ptr}]
        /\ UNCHANGED <<at, object, row, pool, count, logging, locker, cli, pending>>
  BY DEF WorkerFree, infoVars, logVars
<1>2. pending[w] = NoCall /\ pending[w].ptr = NULL
  BY <1>1, TypesHere DEF Runs, NoCall
<1>3. PICK O : O = Own(object, row, pool)
  OBVIOUS
<1>4. PICK H : H = HeldPtrs(held)
  OBVIOUS
<1>5. PICK L : L = Locks(object)
  OBVIOUS
<1>6. PICK X \in SUBSET Unit : Books(O \cup H, L, X) /\ (at \notin {"assert", "stopped"} => X = {})
  BY <1>3, <1>4, <1>5 DEF MemInv, BooksRight
<1>7. /\ held \in [Worker -> SUBSET Unit] /\ (O \cup L) \cap H = {}
      /\ \A v, u \in Worker : v # u => held[v] \cap held[u] = {}
      /\ \A v \in Worker : held[v] \subseteq H
  BY <1>3, <1>4, <1>5 DEF MemInv, Holders, HeldOnce, HeldPtrs
<1>8. ptr \in H /\ ptr \notin O /\ ptr # NULL /\ \A v \in Worker : v # w => ptr \notin held[v]
  BY <1>1, <1>7, NullFacts
<1>9. /\ NULL \notin O
      /\ NULL \notin H
  BY <1>3, <1>4, <1>7, OwnIsUnits, NullFacts DEF MemInv, Holders, HeldPtrs
<1>10. \A v \in Worker : pending[v].ptr \in held[v] \cup {NULL}
  BY DEF MemInv, Holders
<1>11. pending[INFO].ptr \in O \cup {NULL} /\ DOMAIN pending = Worker \cup {INFO}
  BY <1>3, <1>6 DEF MemInv, Holders, Books
<1>12. ptr \notin Pending
  BY <1>2, <1>8, <1>10, <1>11 DEF Pending
<1>13. HeapInv' /\ Books((O \cup H) \ {ptr}, L, X)'
  BY <1>1, <1>6, <1>8, <1>9, <1>12, BooksFree DEF MemInv
<1>14. PICK h : h = [held EXCEPT ![w] = @ \ {ptr}]
  OBVIOUS
<1>15. \A v \in Worker : h[v] = held[v] \ {ptr}
  BY <1>7, <1>8, <1>14
<1>16. h \in [Worker -> SUBSET Unit]
  BY <1>7, <1>14
<1>17. HeldPtrs(h) = H \ {ptr}
  BY <1>4, <1>15 DEF HeldPtrs
<1>18. HeldOnce(h)
  BY <1>7, <1>15, <1>16 DEF HeldOnce
<1>19. held' = h /\ object' = object /\ row' = row /\ pool' = pool /\ at' = at /\ pending' = pending
  BY <1>1, <1>14
<1>20. \A v \in Worker : pending[v].ptr \in h[v] \cup {NULL}
  BY <1>2, <1>8, <1>10, <1>15
<1>21. (O \cup L) \cap HeldPtrs(h) = {}
  BY <1>7, <1>17
<1>22. Holders'
  BY <1>3, <1>5, <1>11, <1>18, <1>19, <1>20, <1>21 DEF MemInv, Holders
<1>23. (O \cup H) \ {ptr} = O \cup HeldPtrs(h)
  BY <1>8, <1>17
<1>24. Books(O \cup HeldPtrs(h), L, X)'
  BY <1>13, <1>23
<1>25. BooksRight'
  BY <1>3, <1>5, <1>6, <1>19, <1>24 DEF BooksRight
<1>26. Stage'
  BY <1>1, RowTypes DEF Stage
<1>27. Counts'
  BY <1>1, RowTypes DEF Counts
<1>28. Flags'
  BY <1>1, RowTypes DEF Flags
<1> QED
  BY <1>13, <1>22, <1>25, <1>26, <1>27, <1>28 DEF MemInv

LEMMA InitMemInv == ASSUME Init PROVE MemInv
<1>1. /\ HeapInit /\ mem_db = {} /\ peak = 0
      /\ pending = [t \in Worker \cup {INFO} |-> NoCall]
      /\ held = [w \in Worker |-> {}]
      /\ at = "sleep" /\ object = NoObjects /\ row = NoRow /\ pool = <<>> /\ count = 0
      /\ logging = [t \in {INFO, CLI} |-> FALSE] /\ locker = NONE /\ cli = "idle"
      /\ untraced = {} /\ lost = 0
  BY DEF Init
<1>2. HeapInv
  BY <1>1, HeapStarts
<1>3. NoObjects \in [Objs -> Ptr] /\ \A o \in Objs : NoObjects[o] = NULL
  BY NullFacts DEF NoObjects, Objs
<1>4. Own(NoObjects, NoRow, <<>>) = {} /\ Locks(NoObjects) = {} /\ Plain(NoObjects) = {}
  BY NoRowFacts, EmptyList DEF Own, Plain, Locks, NoObjects
<1>5. OwnOnce(object, row, pool)
  <2>1. (Plain(NoObjects) \cup Locks(NoObjects)) \cap (RowPtrs(NoRow) \cup ListPtrs(<<>>)) = {}
    BY NoRowFacts, EmptyList
  <2> QED
    BY <1>1, <1>3, <2>1, NoRowFacts, NullFacts, EmptyList DEF OwnOnce
<1>6. HeldOnce(held) /\ HeldPtrs(held) = {}
  BY <1>1 DEF HeldOnce, HeldPtrs
<1>7. /\ NoCall.ptr = NULL /\ NoCall \in [ptr : Ptr, size : Nat]
      /\ \A t \in Worker \cup {INFO} : pending[t] = NoCall
      /\ pending \in [Worker \cup {INFO} -> [ptr : Ptr, size : Nat]]
  BY <1>1 DEF NoCall, Ptr
<1>8. Pending = {}
  BY <1>7 DEF Pending
<1>9. Holders
  BY <1>1, <1>4, <1>5, <1>6, <1>7 DEF Holders
<1>10. Addrs = {}
  BY <1>1 DEF Addrs, HeapInit
<1>11. IsFiniteSet(mem_db) /\ Cardinality(mem_db) = 0 /\ Sum(mem_db) = 0
  BY <1>1, FS_EmptySet, SumFacts DEF Sized
<1>12. Books({}, {}, {})
  <2>1. Cardinality(mem_db) <= DbSize /\ lost \in Nat /\ peak = Sum(mem_db) + lost
    BY <1>1, <1>11, TypesHere
  <2> QED
    BY <1>1, <1>7, <1>8, <1>10, <1>11, <2>1 DEF Books
<1>13. BooksRight
  BY <1>1, <1>4, <1>6, <1>12 DEF BooksRight
<1>14. Stage
  BY <1>1, NullFacts DEF Stage, Points, NoObjects
<1>15. Counts
  <2>1. Len(pool) = 0
    BY <1>1, EmptyList
  <2> QED
    BY <1>1, <2>1, TypesHere DEF Counts
<1>16. Flags
  BY <1>1 DEF Flags
<1> QED
  BY <1>2, <1>9, <1>13, <1>14, <1>15, <1>16 DEF MemInv

LEMMA NextMemInv == ASSUME MemInv, [Next]_vars PROVE MemInv'
<1>1. CASE UNCHANGED vars
  <2>1. UNCHANGED <<heapVars, traceVars, pending, held, at, object, row, pool, count, logging, locker, cli>>
    BY <1>1 DEF vars, infoVars, logVars
  <2>2. Flags'
    BY <2>1, RowTypes DEF Flags
  <2> QED
    BY <2>1, <2>2, Kept
<1>2. CASE PrintInfo
  BY <1>2, PrintInfoKeeps
<1>3. CASE PrintHead \/ PrintSuspend \/ PrintRows
  BY <1>3, PrintKeeps
<1>4. CASE \E t \in {INFO, CLI} : LogTake(t) \/ LogGive(t)
  BY <1>4, LogKeeps
<1>5. CASE \E t \in Worker \cup {INFO} : TraceInsert(t)
  BY <1>5, TraceInsertKeeps
<1>6. CASE \E w \in Worker : WorkerMalloc(w) \/ WorkerFree(w)
  BY <1>6, WorkerMallocKeeps, WorkerFreeKeeps
<1> QED
  BY <1>1, <1>2, <1>3, <1>4, <1>5, <1>6 DEF Next

-----------------------------------------------------------------------------
(* What the invariant says of the references *)

Cell(r, c) == c = <<0, r.row>> \/ c = <<Strings + 1, r.node>> \/ \E i \in 1..Len(r.str) : c = <<i, r.str[i]>>

LEMMA CellsAre ==
  ASSUME NEW r \in RowType
  PROVE  \A c : c \in Cells(r) <=> Cell(r, c)
<1>1. DOMAIN r.str = 1..Len(r.str)
  BY RowFacts
<1> QED
  BY <1>1 DEF Cells, Cell

LEMMA CellPtrs ==
  ASSUME NEW r \in RowType
  PROVE  /\ \A c \in Cells(r) : c[2] # NULL => c[2] \in RowPtrs(r)
         /\ \A p \in RowPtrs(r) : \E c \in Cells(r) : c[2] = p
<1>1. ASSUME NEW c \in Cells(r), c[2] # NULL PROVE c[2] \in RowPtrs(r)
  BY <1>1, CellsAre, RowFacts DEF Cell
<1>2. ASSUME NEW p \in RowPtrs(r) PROVE \E c \in Cells(r) : c[2] = p
  <2>1. p = r.row \/ p = r.node \/ \E i \in 1..Len(r.str) : p = r.str[i]
    BY RowFacts
  <2>2. ASSUME NEW x PROVE <<x, p>>[2] = p
    OBVIOUS
  <2>3. \E x : Cell(r, <<x, p>>)
    BY <2>1 DEF Cell
  <2> QED
    BY <2>2, <2>3, CellsAre
<1> QED
  BY <1>1, <1>2

LEMMA CellOnce ==
  ASSUME NEW r \in RowType, RowOnce(r), NEW c \in Cells(r), NEW d \in Cells(r), c[2] = d[2], c[2] # NULL
  PROVE  c = d
<1>1. Cell(r, c) /\ Cell(r, d)
  BY CellsAre
<1>2. CASE c = <<0, r.row>>
  BY <1>1, <1>2 DEF Cell, RowOnce
<1>3. CASE c = <<Strings + 1, r.node>>
  BY <1>1, <1>3 DEF Cell, RowOnce
<1>4. CASE \E i \in 1..Len(r.str) : c = <<i, r.str[i]>>
  BY <1>1, <1>4 DEF Cell, RowOnce
<1> QED
  BY <1>1, <1>2, <1>3, <1>4 DEF Cell

\* A reference, and the variable it is in.
InObject(r) == \E o \in Objs : r = <<"object", o, object[o]>>
InRow(r)    == \E c \in Cells(row) : r = <<"row", c[1], c[2]>>
InPool(r)   == \E i \in 1..Len(pool) : \E c \in Cells(pool[i]) : r = <<"pool", <<i, c[1]>>, c[2]>>
InHeld(r)   == \E w \in Worker : \E p \in held[w] : r = <<"worker", w, p>>

LEMMA RefsAre ==
  ASSUME MemInv
  PROVE  \A r : r \in Refs <=> r[3] # NULL /\ (InObject(r) \/ InRow(r) \/ InPool(r) \/ InHeld(r))
<1>1. DOMAIN object = Objs /\ DOMAIN pool = 1..Len(pool)
  BY RowTypes
<1> DEFINE
      A == {<<"object", o, object[o]>> : o \in DOMAIN object}
      B == {<<"row", c[1], c[2]>> : c \in Cells(row)}
      C == UNION {{<<"pool", <<i, c[1]>>, c[2]>> : c \in Cells(pool[i])} : i \in DOMAIN pool}
      D == UNION {{<<"worker", w, ptr>> : ptr \in held[w]} : w \in Worker}
<1>2. Refs = {r \in A \cup B \cup C \cup D : r[3] # NULL}
  BY DEF Refs
<1>3. \A r : r \in A <=> InObject(r)
  BY <1>1 DEF InObject
<1>4. \A r : r \in B <=> InRow(r)
  BY DEF InRow
<1>5. \A r : r \in C <=> InPool(r)
  BY <1>1 DEF InPool
<1>6. \A r : r \in D <=> InHeld(r)
  BY DEF InHeld
<1> HIDE DEF A, B, C, D
<1> QED
  BY <1>2, <1>3, <1>4, <1>5, <1>6

LEMMA RefKinds ==
  ASSUME MemInv, NEW r \in Refs
  PROVE  /\ r[3] # NULL
         /\ InObject(r) => r[3] \in Plain(object) \cup Locks(object)
         /\ InRow(r) => r[3] \in RowPtrs(row)
         /\ InPool(r) => r[3] \in ListPtrs(pool)
         /\ InHeld(r) => r[3] \in HeldPtrs(held)
         /\ InObject(r) \/ InRow(r) \/ InPool(r) \/ InHeld(r)
<1>1. r[3] # NULL /\ (InObject(r) \/ InRow(r) \/ InPool(r) \/ InHeld(r))
  BY RefsAre
<1>2. ASSUME NEW o \in Objs, r = <<"object", o, object[o]>>
      PROVE  r[3] \in Plain(object) \cup Locks(object)
  <2>1. r[3] = object[o]
    BY <1>2
  <2> QED
    BY <2>1, <1>1 DEF Objs, Plain, Locks
<1>3. ASSUME NEW c \in Cells(row), r = <<"row", c[1], c[2]>> PROVE r[3] \in RowPtrs(row)
  <2>1. r[3] = c[2]
    BY <1>3
  <2> QED
    BY <2>1, <1>1, CellPtrs, RowTypes
<1>4. ASSUME NEW i \in 1..Len(pool), NEW c \in Cells(pool[i]), r = <<"pool", <<i, c[1]>>, c[2]>>
      PROVE  r[3] \in ListPtrs(pool)
  <2>1. r[3] = c[2] /\ pool[i] \in RowType
    BY <1>4, RowTypes
  <2>2. r[3] \in RowPtrs(pool[i])
    BY <2>1, <1>1, CellPtrs
  <2> QED
    BY <2>2 DEF ListPtrs
<1>5. ASSUME NEW w \in Worker, NEW p \in held[w], r = <<"worker", w, p>> PROVE r[3] \in HeldPtrs(held)
  <2>1. r[3] = p
    BY <1>5
  <2> QED
    BY <2>1 DEF HeldPtrs
<1> QED
  BY <1>1, <1>2, <1>3, <1>4, <1>5 DEF InObject, InRow, InPool, InHeld

LEMMA RefPtrs ==
  ASSUME MemInv
  PROVE  {r[3] : r \in Refs} = Own(object, row, pool) \cup Locks(object) \cup HeldPtrs(held)
<1>1. ASSUME NEW r \in Refs PROVE r[3] \in Own(object, row, pool) \cup Locks(object) \cup HeldPtrs(held)
  BY RefKinds DEF Own
<1>2. ASSUME NEW p \in Own(object, row, pool) \cup Locks(object) \cup HeldPtrs(held)
      PROVE  \E r \in Refs : r[3] = p
  <2>1. p # NULL
    BY RowTypes, OwnIsUnits, NullFacts DEF MemInv, Holders, HeldOnce, HeldPtrs
  <2>2. ASSUME NEW x, NEW y PROVE <<x, y, p>>[3] = p
    OBVIOUS
  <2>3. CASE p \in Plain(object) \cup Locks(object)
    <3>1. PICK o \in Objs : p = object[o]
      BY <2>3 DEF Plain, Locks, Objs
    <3>2. InObject(<<"object", o, p>>)
      BY <3>1 DEF InObject
    <3> QED
      BY <3>2, <2>1, <2>2, RefsAre
  <2>4. CASE p \in RowPtrs(row)
    <3>1. PICK c \in Cells(row) : c[2] = p
      BY <2>4, CellPtrs, RowTypes
    <3>2. InRow(<<"row", c[1], p>>)
      BY <3>1 DEF InRow
    <3> QED
      BY <3>2, <2>1, <2>2, RefsAre
  <2>5. CASE p \in ListPtrs(pool)
    <3>1. PICK i \in 1..Len(pool) : p \in RowPtrs(pool[i])
      BY <2>5 DEF ListPtrs
    <3>2. pool[i] \in RowType
      BY RowTypes
    <3>3. PICK c \in Cells(pool[i]) : c[2] = p
      BY <3>1, <3>2, CellPtrs
    <3>4. InPool(<<"pool", <<i, c[1]>>, p>>)
      BY <3>3 DEF InPool
    <3> QED
      BY <3>4, <2>1, <2>2, RefsAre
  <2>6. CASE p \in HeldPtrs(held)
    <3>1. PICK w \in Worker : p \in held[w]
      BY <2>6 DEF HeldPtrs
    <3>2. InHeld(<<"worker", w, p>>)
      BY <3>1 DEF InHeld
    <3> QED
      BY <3>2, <2>1, <2>2, RefsAre
  <2> QED
    BY <2>3, <2>4, <2>5, <2>6 DEF Own
<1> QED
  BY <1>1, <1>2

LEMMA RefOnce ==
  ASSUME MemInv, NEW r \in Refs, NEW s \in Refs, r[3] = s[3]
  PROVE  r = s
<1>1. /\ (Plain(object) \cup Locks(object)) \cap (RowPtrs(row) \cup ListPtrs(pool)) = {}
      /\ RowPtrs(row) \cap ListPtrs(pool) = {}
      /\ (Plain(object) \cup RowPtrs(row) \cup ListPtrs(pool) \cup Locks(object)) \cap HeldPtrs(held) = {}
  BY RowTypes DEF OwnOnce, Holders, Own
<1>2. CASE InObject(r)
  <2>1. InObject(s)
    BY <1>1, <1>2, RefKinds
  <2>2. PICK o \in Objs : r = <<"object", o, object[o]>>
    BY <1>2 DEF InObject
  <2>3. PICK p \in Objs : s = <<"object", p, object[p]>>
    BY <2>1 DEF InObject
  <2>4. object[o] = object[p] /\ object[o] # NULL
    BY <2>2, <2>3, RefKinds
  <2> QED
    BY <2>2, <2>3, <2>4, RowTypes DEF OwnOnce
<1>3. CASE InRow(r)
  <2>1. InRow(s)
    BY <1>1, <1>3, RefKinds
  <2>2. PICK c \in Cells(row) : r = <<"row", c[1], c[2]>>
    BY <1>3 DEF InRow
  <2>3. PICK d \in Cells(row) : s = <<"row", d[1], d[2]>>
    BY <2>1 DEF InRow
  <2>4. c[2] = d[2] /\ c[2] # NULL
    BY <2>2, <2>3, RefKinds
  <2> QED
    BY <2>2, <2>3, <2>4, RowTypes, CellOnce
<1>4. CASE InPool(r)
  <2>1. InPool(s)
    BY <1>1, <1>4, RefKinds
  <2>2. PICK i \in 1..Len(pool) : \E c \in Cells(pool[i]) : r = <<"pool", <<i, c[1]>>, c[2]>>
    BY <1>4 DEF InPool
  <2>3. PICK c \in Cells(pool[i]) : r = <<"pool", <<i, c[1]>>, c[2]>>
    BY <2>2
  <2>4. PICK j \in 1..Len(pool) : \E d \in Cells(pool[j]) : s = <<"pool", <<j, d[1]>>, d[2]>>
    BY <2>1 DEF InPool
  <2>5. PICK d \in Cells(pool[j]) : s = <<"pool", <<j, d[1]>>, d[2]>>
    BY <2>4
  <2>6. c[2] = d[2] /\ c[2] # NULL
    BY <2>3, <2>5, RefKinds
  <2>7. pool[i] \in RowType /\ pool[j] \in RowType
    BY RowTypes
  <2>8. c[2] \in RowPtrs(pool[i]) /\ c[2] \in RowPtrs(pool[j])
    BY <2>6, <2>7, CellPtrs
  <2>9. i = j /\ RowOnce(pool[i])
    BY <2>8, RowTypes DEF ListOnce
  <2>10. c = d
    BY <2>6, <2>7, <2>9, CellOnce
  <2> QED
    BY <2>3, <2>5, <2>9, <2>10
<1>5. CASE InHeld(r)
  <2>1. InHeld(s)
    BY <1>1, <1>5, RefKinds
  <2>2. PICK w \in Worker : \E p \in held[w] : r = <<"worker", w, p>>
    BY <1>5 DEF InHeld
  <2>3. PICK v \in Worker : \E p \in held[v] : s = <<"worker", v, p>>
    BY <2>1 DEF InHeld
  <2>4. r = <<"worker", w, r[3]>> /\ s = <<"worker", v, s[3]>> /\ r[3] \in held[w] /\ s[3] \in held[v]
    BY <2>2, <2>3
  <2>5. w = v
    BY <2>4 DEF MemInv, Holders, HeldOnce
  <2> QED
    BY <2>4, <2>5
<1> QED
  BY <1>2, <1>3, <1>4, <1>5, RefKinds

LEMMA SameSize ==
  ASSUME NEW S, NEW T, IsFiniteSet(T), NEW f \in [S -> T],
         \A x, y \in S : f[x] = f[y] => x = y,
         \A t \in T : \E x \in S : f[x] = t
  PROVE  Cardinality(S) = Cardinality(T)
<1>1. f \in Injection(S, T)
  BY DEF Injection, IsInjective
<1>2. f \in Surjection(S, T)
  BY DEF Surjection
<1> QED
  BY <1>1, <1>2, FS_Injection

-----------------------------------------------------------------------------
(* What the invariant implies *)

LEMMA MemInvTypes == MemInv => TypeOK
<1> SUFFICES ASSUME MemInv PROVE TypeOK
  OBVIOUS
<1>1. HeapTypeOK
  BY HeapInvImplies, RowTypes
<1>2. PICK X \in SUBSET Unit : Books(Own(object, row, pool) \cup HeldPtrs(held), Locks(object), X)
  BY DEF MemInv, BooksRight
<1>3. ASSUME NEW r \in mem_db PROVE r \in [ptr : Unit, size : 1..HeapSize]
  <2>1. r \in [ptr : Unit, size : Nat \ {0}] /\ Room(r.ptr, r.size)
    BY <1>2 DEF Books
  <2>2. PICK b \in used : b.size >= r.size + HeaderSize
    BY <2>1 DEF Room
  <2>3. b \in Block
    BY <1>1 DEF HeapTypeOK
  <2>4. r.size \in 1..HeapSize
    BY <2>1, <2>2, <2>3, BlockFacts, SizesNat
  <2> QED
    BY <2>1, <2>4
<1>4. Cardinality(mem_db) <= DbSize /\ peak \in Nat /\ lost \in Nat
  <2>1. IsFiniteSet(mem_db) /\ Sized(mem_db)
    BY <1>2 DEF Books, Sized
  <2> QED
    BY <2>1, <1>2, SumFacts DEF Books
<1>5. /\ DOMAIN pending = Worker \cup {INFO}
      /\ \A t \in DOMAIN pending : pending[t].ptr \in Ptr /\ pending[t].size \in Nat
  BY <1>2 DEF Books
<1>6. held \in [Worker -> SUBSET Unit]
  BY RowTypes DEF Holders, HeldOnce
<1>7. DOMAIN NoObjects = Objs
  BY DEF NoObjects, Objs
<1>8. untraced \subseteq Unit
  <2>1. untraced \subseteq Own(object, row, pool) \cup HeldPtrs(held)
    BY <1>2 DEF Books
  <2> QED
    BY <2>1, <1>6, RowTypes, OwnIsUnits DEF HeldPtrs
<1>9. Len(pool) <= Rows /\ count \in 0..(2 * Rows + 1)
  <2>1. /\ count \in Nat /\ Len(pool) \in Nat /\ Rows \in Nat
        /\ count < Rows => Len(pool) <= count
        /\ count >= Rows => Len(pool) + count <= 2 * Rows \/ pool = <<>>
    BY RowTypes, TypesHere DEF Counts
  <2>2. pool = <<>> => Len(pool) = 0
    BY EmptyList
  <2> QED
    BY <2>1, <2>2, RowTypes DEF Counts
<1> QED
  BY <1>1, <1>3, <1>4, <1>5, <1>6, <1>7, <1>8, <1>9, RowTypes DEF TypeOK, Stage, Points, Flags

LEMMA MutexesAre == Mutexes = Locks(object)
BY DEF Mutexes, Locks

LEMMA MemInvOneHolder == MemInv => BlocksHaveOneHolder
<1> SUFFICES ASSUME MemInv, at \notin {"assert", "stopped"}
             PROVE  {b.addr : b \in used} = {r[3] : r \in Refs} /\ Cardinality(used) = Cardinality(Refs)
  BY DEF BlocksHaveOneHolder
<1>1. Books(Own(object, row, pool) \cup HeldPtrs(held), Locks(object), {})
  BY DEF MemInv, BooksRight
<1>2. {b.addr : b \in used} = {r[3] : r \in Refs}
  BY <1>1, RefPtrs DEF Books, Addrs
<1>3. Addrs \subseteq Unit /\ IsFiniteSet(Addrs)
  <2>1. used \subseteq Block
    BY RowTypes, HeapInvImplies DEF HeapTypeOK
  <2>2. Addrs \in SUBSET Unit
    BY <2>1, BlockFacts DEF Addrs
  <2>3. IsFiniteSet(Unit)
    BY SizesNat, FS_Interval DEF Unit
  <2> QED
    BY <2>2, <2>3, FS_Subset
<1>4. Cardinality(used) = Cardinality(Addrs)
  <2>1. PICK f : f = [b \in used |-> b.addr]
    OBVIOUS
  <2>2. f \in [used -> Addrs] /\ \A t \in Addrs : \E b \in used : f[b] = t
    BY <2>1 DEF Addrs
  <2>3. \A b, c \in used : f[b] = f[c] => b = c
    BY <2>1, RowTypes, TilesFacts DEF HeapInv
  <2> QED
    BY <2>2, <2>3, <1>3, SameSize
<1>5. Cardinality(Refs) = Cardinality(Addrs)
  <2>1. PICK R : R = Refs
    OBVIOUS
  <2>2. PICK f : f = [r \in R |-> r[3]]
    OBVIOUS
  <2>3. Addrs = {r[3] : r \in R}
    BY <2>1, <1>2 DEF Addrs
  <2>4. f \in [R -> Addrs] /\ \A t \in Addrs : \E r \in R : f[r] = t
    BY <2>2, <2>3
  <2>5. \A r, s \in R : f[r] = f[s] => r = s
    BY <2>1, <2>2, RefOnce
  <2>6. Cardinality(R) = Cardinality(Addrs)
    BY <2>4, <2>5, <1>3, SameSize
  <2> QED
    BY <2>1, <2>6
<1> QED
  BY <1>2, <1>4, <1>5

LEMMA SumAgain == \A S : Sum(S) = MapThenSumSet(LAMBDA r : r.size, S)
BY DEF Sum

LEMMA MemInvTrace == MemInv => TraceExact
<1> SUFFICES ASSUME MemInv PROVE TraceExact
  OBVIOUS
<1>1. PICK P : P = Own(object, row, pool) \cup HeldPtrs(held)
  OBVIOUS
<1>2. PICK X \in SUBSET Unit : Books(P, Locks(object), X)
  BY <1>1 DEF MemInv, BooksRight
<1>3. ({r[3] : r \in Refs} \ Mutexes) \ Pending = P \ Pending
  <2>1. {r[3] : r \in Refs} = P \cup Locks(object)
    BY <1>1, RefPtrs
  <2>2. P \cap Locks(object) = {}
    BY <1>2 DEF Books
  <2> QED
    BY <2>1, <2>2, MutexesAre
<1>4. /\ {r.ptr : r \in mem_db} \cup untraced = ({r[3] : r \in Refs} \ Mutexes) \ Pending
      /\ {r.ptr : r \in mem_db} \cap untraced = {}
      /\ \A r, s \in mem_db : r.ptr = s.ptr => r = s
  BY <1>2, <1>3 DEF Books
<1>5. \A r \in mem_db : \E b \in used : b.addr = r.ptr /\ b.size >= r.size + HeaderSize
  BY <1>2 DEF Books, Room
<1>6. peak = MapThenSumSet(LAMBDA r : r.size, mem_db) + lost
  <2>1. peak = Sum(mem_db) + lost
    BY <1>2 DEF Books
  <2> QED
    BY <2>1, SumAgain
<1> QED
  BY <1>4, <1>5, <1>6 DEF TraceExact

-----------------------------------------------------------------------------
(* Requests that fail *)

LEMMA Requests ==
  ASSUME MemInv, [Next]_vars
  PROVE  \/ pending' = pending
         \/ \E t \in Worker \cup {INFO} : pending' = [pending EXCEPT ![t] = NoCall]
         \/ \E t \in Worker \cup {INFO}, size \in Nat :
              PortMalloc(size) /\ pending' = [pending EXCEPT ![t] = [ptr |-> MallocResult(size), size |-> size]]
<1>1. CASE UNCHANGED vars
  BY <1>1 DEF vars
<1>2. CASE PrintInfo
  <2>1. ASSUME NEW here, NEW kind \in Kind, InfoAlloc(here, kind)
        PROVE  \E t \in Worker \cup {INFO}, size \in Nat :
                 PortMalloc(size) /\ pending' = [pending EXCEPT ![t] = [ptr |-> MallocResult(size), size |-> size]]
    <3>1. SizeOf[kind] \in Nat
      BY TypesHere
    <3> QED
      BY <2>1, <3>1 DEF InfoAlloc, TraceMalloc
  <2>2. \/ pending' = pending
        \/ \E kind \in Kind, here \in Points : InfoAlloc(here, kind)
    BY <1>2 DEF PrintInfo, Kind, Points, Wake, CreateTable, CreateLock, CreatePool, CreateFails, AbnormalStop,
       PushRow, PushString, PushNode, PopRow, DelString, DelRow, Destroy, DestroyObject, DestroyLock,
       InfoMutex, InfoFree, InfoMutexDel
  <2> QED
    BY <2>1, <2>2
<1>3. CASE PrintHead \/ PrintSuspend \/ PrintRows
  BY <1>3 DEF PrintHead, PrintSuspend, PrintRows
<1>4. CASE \E t \in {INFO, CLI} : LogTake(t) \/ LogGive(t)
  BY <1>4 DEF LogTake, LogGive
<1>5. CASE \E t \in Worker \cup {INFO} : TraceInsert(t)
  BY <1>5 DEF TraceInsert, InsertInto
<1>6. CASE \E w \in Worker : WorkerMalloc(w) \/ WorkerFree(w)
  <2>1. PICK w \in Worker : WorkerMalloc(w) \/ WorkerFree(w)
    BY <1>6
  <2>2. CASE WorkerFree(w)
    BY <2>2 DEF WorkerFree
  <2>3. CASE WorkerMalloc(w)
    <3>1. PICK size \in WorkerSize : TraceMalloc(w, size)
      BY <2>3 DEF WorkerMalloc
    <3>2. size \in Nat
      BY TypesHere
    <3> QED
      BY <3>1, <3>2 DEF TraceMalloc
  <2> QED
    BY <2>1, <2>2, <2>3
<1> QED
  BY <1>1, <1>2, <1>3, <1>4, <1>5, <1>6 DEF Next

LEMMA FailsWhenFull ==
  ASSUME MemInv, [Next]_vars, NEW t \in DOMAIN pending,
         pending'[t] # pending[t], pending'[t] # NoCall, pending'[t].ptr = NULL
  PROVE  ~Gap(pending'[t].size + HeaderSize)
<1>1. \A s \in Worker \cup {INFO} : pending' # [pending EXCEPT ![s] = NoCall]
  OBVIOUS
<1>2. PICK s \in Worker \cup {INFO}, size \in Nat :
        PortMalloc(size) /\ pending' = [pending EXCEPT ![s] = [ptr |-> MallocResult(size), size |-> size]]
  BY <1>1, Requests
<1>3. pending'[t] = [ptr |-> MallocResult(size), size |-> size]
  BY <1>2
<1>4. MallocResult(size) = NULL /\ pending'[t].size = size
  BY <1>3
<1>5. ~Gap(size + HeaderSize)
  BY <1>2, <1>4, MallocAddrs, RowTypes
<1> QED
  BY <1>4, <1>5

-----------------------------------------------------------------------------
(* The theorems *)

LEMMA MemInvAlways == Spec => []MemInv
<1>1. Init => MemInv
  BY InitMemInv
<1>2. MemInv /\ [Next]_vars => MemInv'
  BY NextMemInv
<1> QED
  BY <1>1, <1>2, PTL DEF Spec

\* The heap, the trace, the tables and the tasks are of their types: no pool of
\* print_info grows beyond the rows that it pushes, and no row of the trace
\* tells a size that the heap does not have.
THEOREM TypeCorrect == Spec => []TypeOK
BY MemInvAlways, MemInvTypes, PTL

\* pvPortMalloc and vPortFree keep the heap in one piece: the free list is in the
\* order of the addresses with no two neighbours left apart, each unit is in
\* one block, and xFreeBytesRemaining is the sum of the free blocks.
THEOREM HeapStaysTiled == Spec => []HeapTiled
<1>1. MemInv => HeapTiled
  BY HeapInvImplies DEF MemInv
<1> QED
  BY <1>1, MemInvAlways, PTL

\* adp_os_malloc_trace and adp_os_free_trace keep the trace exact: what the
\* modules hold has one row or found the trace full, and total_peak_size is
\* the sum of the rows and of what was requested in vain.
THEOREM TraceStaysExact == Spec => []TraceExact
BY MemInvAlways, MemInvTrace, PTL

\* adp_mem_table and adp_mem_pool neither leak nor free twice, whichever of the
\* allocations fail: each allocated block has one holder until print_info
\* gives up.
THEOREM BlocksStayHeld == Spec => []BlocksHaveOneHolder
BY MemInvAlways, MemInvOneHolder, PTL

\* adp_os_malloc answers NULL only if the heap has no gap for the request, since
\* free neighbours are always merged.
THEOREM RefusedOnlyWhenFull == Spec => FailsOnlyWhenFull
<1>1. MemInv /\ [Next]_vars =>
        [\A t \in DOMAIN pending :
           pending'[t] # pending[t] /\ pending'[t] # NoCall /\ pending'[t].ptr = NULL
             => ~Gap(pending'[t].size + HeaderSize)]_vars
  BY FailsWhenFull
<1> QED
  BY <1>1, MemInvAlways, PTL DEF Spec, FailsOnlyWhenFull
=============================================================================
