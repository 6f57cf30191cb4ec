------------------------------- MODULE Salloc -------------------------------
(***************************************************************************)
(* The simple allocator of src/salloc.c as operators on memory: the cells  *)
(* of DYN_SIZE_MULT bytes of one region of RAM.  A cell is a block header, *)
(*   next, prev  the neighbouring blocks                                   *)
(*   free        the top bit of the first word                             *)
(* or what the program, or an earlier header, has left there.  A pointer   *)
(* is the number of the cell after the header.                             *)
(***************************************************************************)
EXTENDS Integers, FiniteSets

CONSTANTS
  LastCell,  \* the cells are 0 .. LastCell
  Words,     \* what the program stores: model values
  Junk,      \* what is in RAM at first
  Null

ASSUME SallocAssumption == LastCell \in Nat /\ LastCell >= 4 /\ Null \notin 0 .. LastCell

Header(next, prev, free) == [next |-> next, prev |-> prev, free |-> free]

\* What the program stored, read as a header, is taken to end the chain.
NextBlock(m, b) == IF m[b] \in Words \union {Junk} THEN Null ELSE m[b].next
PrevBlock(m, b) == IF m[b] \in Words \union {Junk} THEN Null ELSE m[b].prev
IsFree(m, b) == m[b] \notin Words \union {Junk} /\ m[b].free

BlockSize(m, b) == IF NextBlock(m, b) = Null THEN 0 ELSE NextBlock(m, b) - b

\* s_act_size of a size and a header, in cells.
ActSize(bytes) == (bytes + 15) \div 8

\* s_init: a guard at either end, one free block between.
InitialMemory ==
  [c \in 0 .. LastCell |->
     CASE c = 0 -> Header(1, Null, FALSE)
       [] c = 1 -> Header(LastCell, 0, TRUE)
       [] c = LastCell -> Header(Null, 1, FALSE)
       [] OTHER -> Junk]

\* The blocks from g1 on, as the walk of s_get_free_block meets them.
Blocks(m) ==
  LET from[b \in 0 .. LastCell] ==
        {b} \union (IF NextBlock(m, b) \in b + 1 .. LastCell THEN from[NextBlock(m, b)] ELSE {})
  IN from[0]

-----------------------------------------------------------------------------
\* Slip: only the block before is looked at.
JoinedBack(m, b) ==
  LET p == PrevBlock(m, b)
  IN IF IsFree(m, p) THEN [m EXCEPT ![p].next = NextBlock(m, b), ![NextBlock(m, b)].prev = p] ELSE m

\* s_compact_free, once the block is marked: the free blocks about it become one.
Joined(m, b) ==
  LET back[p \in 0 .. LastCell] == IF IsFree(m, p) THEN back[PrevBlock(m, p)] ELSE p
      ahead[p \in 0 .. LastCell] == IF IsFree(m, p) THEN ahead[NextBlock(m, p)] ELSE p
      first == NextBlock(m, back[b])
      last == ahead[b]
  IN IF first # b \/ PrevBlock(m, last) # b
       THEN [m EXCEPT ![first].next = last, ![last].prev = first] ELSE m

CompactFree(m, b) == Joined([m EXCEPT ![b].free = TRUE], b)

\* DYN_MIN_SPLIT_SIZE
Splits(m, b, n) == BlockSize(m, b) - n >= 2

\* The block at b cut to n cells.
Cut(m, b, n) ==
  LET rest == b + n
      next == NextBlock(m, b)
  IN CompactFree([m EXCEPT ![rest] = Header(next, b, FALSE), ![next].prev = rest, ![b].next = rest], rest)

\* s_get_free_block: the smallest block that holds the size, the first of those.
Fitting(m, n) == {b \in Blocks(m) : IsFree(m, b) /\ BlockSize(m, b) >= n}

BestFit(m, fitting) ==
  CHOOSE b \in fitting :
    \A c \in fitting \ {b} :
      BlockSize(m, b) < BlockSize(m, c) \/ (BlockSize(m, b) = BlockSize(m, c) /\ b < c)

Result(m, ptr) == [mem |-> m, ptr |-> ptr]

smalloc(m, bytes) ==
  LET n == ActSize(bytes)
      fitting == Fitting(m, n)
      b == BestFit(m, fitting)
      taken == [m EXCEPT ![b].free = FALSE]
  IN IF bytes = 0 \/ fitting = {} THEN Result(m, Null)
     ELSE Result(IF Splits(m, b, n) THEN Cut(taken, b, n) ELSE taken, b + 1)

sfree(m, ptr) == IF ptr = Null THEN m ELSE CompactFree(m, ptr - 1)

\* s_get_actual_block_size, in cells.
ActualSize(m, ptr) == BlockSize(m, ptr - 1) - 1

\* memmove
Moved(m, to, from, n) ==
  [c \in DOMAIN m |-> IF c \in to .. to + n - 1 THEN m[from + c - to] ELSE m[c]]

\* s_shrink_block
Shrunk(m, ptr, bytes) ==
  LET n == ActSize(bytes)
  IN IF n < BlockSize(m, ptr - 1) /\ Splits(m, ptr - 1, n) THEN Cut(m, ptr - 1, n) ELSE m

Grown(m, ptr, bytes) ==
  LET new == smalloc(m, bytes)
  IN IF new.ptr = Null THEN new
     ELSE Result(sfree(Moved(new.mem, new.ptr, ptr, ActualSize(m, ptr)), ptr), new.ptr)

srealloc(m, ptr, bytes) ==
  IF ptr = Null THEN smalloc(m, bytes)
  ELSE IF bytes = 0 THEN Result(sfree(m, ptr), Null)
  ELSE IF bytes = 8 * ActualSize(m, ptr) THEN Result(m, ptr)
  ELSE IF bytes < 8 * ActualSize(m, ptr) THEN Result(Shrunk(m, ptr, bytes), ptr)
  ELSE Grown(m, ptr, bytes)

-----------------------------------------------------------------------------
\* The blocks lie one after the other from guard to guard, each linked to both its
\* neighbours, and no two free ones adjoin.
Tiled(m) ==
  LET bs == Blocks(m)
  IN /\ {0, LastCell} \subseteq bs /\ NextBlock(m, LastCell) = Null /\ PrevBlock(m, 0) = Null
     /\ \A b \in bs \ {LastCell} :
          /\ m[b] \notin Words \union {Junk} /\ NextBlock(m, b) \in bs /\ PrevBlock(m, NextBlock(m, b)) = b
          /\ (b = 0 \/ BlockSize(m, b) >= 2)
          /\ ~(IsFree(m, b) /\ IsFree(m, NextBlock(m, b)))
     /\ ~IsFree(m, 0) /\ ~IsFree(m, LastCell)
=============================================================================
