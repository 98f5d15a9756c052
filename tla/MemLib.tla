------------------------------- MODULE MemLib -------------------------------
(***************************************************************************)
(* memlib.c: the simulated heap and its break.  Addresses are words of a   *)
(* fixed width, as in the 32-bit program.                                  *)
(***************************************************************************)
EXTENDS Integers

CONSTANTS
  Word,      \* 2^32: how many values a pointer or a size_t has
  HeapLo,    \* mem_start_brk
  MAX_HEAP,  \* the bytes the heap may have
  ALIGNMENT

ASSUME MemLibAssumption ==
  /\ Word \in Nat /\ HeapLo \in Nat \ {0} /\ MAX_HEAP \in Nat
  /\ HeapLo + MAX_HEAP < Word
  /\ ALIGNMENT \in Nat \ {0}
  /\ HeapLo % ALIGNMENT = 0 /\ Word % ALIGNMENT = 0

VARIABLE mem_brk

Addresses == 0..(Word - 1)
NULL == 0
Failure == Word - 1  \* (void *)-1

mem_max_addr == HeapLo + MAX_HEAP

\* mem_init, and mem_reset_brk: the heap is empty.
MemInit == mem_brk = HeapLo
mem_reset_brk == mem_brk' = HeapLo

\* A size_t handed over as an int.
ToInt(size) == IF size >= Word \div 2 THEN size - Word ELSE size

\* Mutation: the break moves before the limit is looked at.
SbrkUnlimited(incr, p) ==
  /\ p = IF incr < 0 THEN Failure ELSE mem_brk
  /\ mem_brk' = IF incr < 0 THEN mem_brk ELSE (mem_brk + incr) % Word

\* mem_sbrk(incr) returns p.  The addition of pointers wraps.
mem_sbrk(incr, p) ==
  IF incr < 0 \/ (mem_brk + incr) % Word > mem_max_addr
  THEN p = Failure /\ UNCHANGED mem_brk
  ELSE p = mem_brk /\ mem_brk' = (mem_brk + incr) % Word

\* mem_heap_hi and mem_heapsize for a break.
HeapHi(brk) == (brk - 1) % Word
HeapSize(brk) == brk - HeapLo

=============================================================================
