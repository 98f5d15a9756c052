----------------------------- MODULE Allocator -----------------------------
(***************************************************************************)
(* mm.c: every allocation moves the break, mm_free does nothing, and       *)
(* mm_realloc allocates anew and copies nothing.                           *)
(***************************************************************************)
EXTENDS MemLib

\* Mutation: the size is rounded down.
RoundedDown(size) == (size \div ALIGNMENT) * ALIGNMENT

\* ((size+7)/8)*8 in a size_t: sizes near the largest wrap to zero.
Rounded(size) == (((size + ALIGNMENT - 1) % Word) \div ALIGNMENT) * ALIGNMENT

mm_malloc(size, p) ==
  IF size = 0
  THEN p = NULL /\ UNCHANGED mem_brk
  ELSE mem_sbrk(ToInt(Rounded(size)), p)

mm_free(ptr) == UNCHANGED mem_brk

mm_realloc(ptr, size, p) ==
  IF ptr = NULL THEN mm_malloc(Rounded(size), p)
  ELSE IF Rounded(size) = 0 THEN mm_free(ptr) /\ p = NULL
  ELSE mem_sbrk(ToInt(Rounded(size)), p)

=============================================================================
