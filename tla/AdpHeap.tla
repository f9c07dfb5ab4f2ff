------------------------------ MODULE AdpHeap ------------------------------
(***************************************************************************)
(* The heap of the Linux port (heap_4.c): first fit over a list of free    *)
(* blocks in the order of their addresses, split on allocation, merged     *)
(* with both neighbours on release.  pvPortMalloc and vPortFree suspend    *)
(* the scheduler while they work on the list: each is one step.            *)
(*                                                                         *)
(* Addresses and sizes count units of portBYTE_ALIGNMENT bytes or of any   *)
(* multiple of it that divides xHeapStructSize; a block is named by the    *)
(* address of its header.                                                  *)
(***************************************************************************)
EXTENDS Naturals, Sequences, FiniteSets, SequencesExt

CONSTANTS
  HeapSize,   \* what prvHeapInit makes of configTOTAL_HEAP_SIZE, without pxEnd
  HeaderSize, \* xHeapStructSize
  NULL

ASSUME HeapAssumption ==
  /\ HeaderSize \in Nat \ {0}
  /\ HeapSize \in Nat /\ HeapSize > 2 * HeaderSize
  /\ NULL \notin Nat

VARIABLES
  freeList,            \* the blocks from xStart to pxEnd
  used,                \* the blocks with xBlockAllocatedBit set
  xFreeBytesRemaining

heapVars == <<freeList, used, xFreeBytesRemaining>>

-----------------------------------------------------------------------------
Unit  == 0..(HeapSize - 1)
Block == [addr : Unit, size : 1..HeapSize]

\* The unit behind block b, and the units b covers.
End(b)   == b.addr + b.size
Units(b) == b.addr..(End(b) - 1)

\* heapMINIMUM_BLOCK_SIZE: what is left of a block is split off if it is larger.
MinimumBlockSize == 2 * HeaderSize

HeapInit ==
  /\ freeList = <<[addr |-> 0, size |-> HeapSize]>>
  /\ used = {}
  /\ xFreeBytesRemaining = HeapSize

\* A mutant of MergeWithNext, and the second half of prvInsertBlockIntoFreeList.
MergeNone(b, after) == <<b>> \o after
MergeWithNext(b, after) ==
  IF after # <<>> /\ End(b) = Head(after).addr
  THEN <<[b EXCEPT !.size = @ + Head(after).size]>> \o Tail(after)
  ELSE <<b>> \o after

\* prvInsertBlockIntoFreeList(b): k is the first block behind it, if there is one.
InsertBlock(list, b) ==
  LET k      == SelectInSeq(list, LAMBDA c : c.addr >= b.addr)
      n      == IF k = 0 THEN Len(list) ELSE k - 1
      before == SubSeq(list, 1, n)
      after  == SubSeq(list, n + 1, Len(list))
  IN IF before # <<>> /\ End(Last(before)) = b.addr
     THEN Front(before)
            \o MergeWithNext([Last(before) EXCEPT !.size = @ + b.size], after)
     ELSE before \o MergeWithNext(b, after)

\* A mutant: a block of just the size is passed over.
FirstFitLarger(n) == SelectInSeq(freeList, LAMBDA b : b.size > n)

\* The index of the first block with room for n units, 0 if there is none.
FirstFit(n) == SelectInSeq(freeList, LAMBDA b : b.size >= n)

\* The part of block b that is given to a request for n units.
Taken(b, n) == IF b.size - n > MinimumBlockSize THEN [b EXCEPT !.size = n] ELSE b

Refused(n) == n > xFreeBytesRemaining \/ FirstFit(n) = 0

\* What pvPortMalloc(size) returns, and what it does.
MallocResult(size) ==
  LET n == size + HeaderSize IN IF Refused(n) THEN NULL ELSE freeList[FirstFit(n)].addr

PortMalloc(size) ==
  LET n == size + HeaderSize
      k == FirstFit(n)
      b == freeList[k]
      t == Taken(b, n)
      others == RemoveAt(freeList, k)
  IN IF Refused(n)
     THEN UNCHANGED heapVars
     ELSE /\ freeList' = IF t = b THEN others
                         ELSE InsertBlock(others, [addr |-> End(t), size |-> b.size - n])
          /\ used' = used \cup {t}
          /\ xFreeBytesRemaining' = xFreeBytesRemaining - t.size

\* vPortFree(ptr): nothing happens unless the block is allocated.
PortFree(ptr) ==
  IF \E b \in used : b.addr = ptr
  THEN \E b \in used :
         /\ b.addr = ptr
         /\ freeList' = InsertBlock(freeList, b)
         /\ used' = used \ {b}
         /\ xFreeBytesRemaining' = xFreeBytesRemaining + b.size
  ELSE UNCHANGED heapVars

-----------------------------------------------------------------------------
HeapTypeOK ==
  /\ freeList \in Seq(Block)
  /\ used \subseteq Block
  /\ xFreeBytesRemaining \in 0..HeapSize

\* The free list is in the order of the addresses and no two free blocks touch;
\* each unit of the heap belongs to one block, free or allocated; and
\* xFreeBytesRemaining is the size of the free ones.
Sum(blocks) == MapThenSumSet(LAMBDA b : b.size, blocks)
HeapTiled ==
  LET free == {freeList[i] : i \in DOMAIN freeList}
  IN /\ \A i \in 1..(Len(freeList) - 1) : End(freeList[i]) < freeList[i + 1].addr
     /\ \A b \in free \cup used : End(b) <= HeapSize
     /\ \A b, c \in free \cup used : b # c => End(b) <= c.addr \/ End(c) <= b.addr
     /\ Sum(free) = xFreeBytesRemaining
     /\ Sum(free) + Sum(used) = HeapSize

\* n units in a row that no allocated block covers.
Gap(n) == \E a \in Unit :
  /\ a + n <= HeapSize
  /\ \A u \in a..(a + n - 1) : \A b \in used : u \notin Units(b)

=============================================================================
