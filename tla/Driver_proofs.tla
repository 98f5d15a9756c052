--------------------------- MODULE Driver_proofs ---------------------------
(***************************************************************************)
(* For every heap, every list of traces and every package: what the range  *)
(* list of mdriver.c has in it and which overlaps it keeps out, that mm.c  *)
(* gives out disjoint blocks, and that data and verdicts are right.        *)
(***************************************************************************)
EXTENDS Driver, FiniteSetTheorems, SequenceTheorems, WellFoundedInduction, TLAPS

-----------------------------------------------------------------------------
(* Numbers                                                                 *)

\* A set of natural numbers has a least element.
LEMMA LeastNatural ==
  ASSUME NEW S \in SUBSET Nat, S # {}
  PROVE  \E n \in S : \A m \in S : n <= m
<1> DEFINE R == OpToRel(<, Nat)
<1>1. IsWellFoundedOn(R, Nat)
  BY NatLessThanWellFounded
<1>2. \A x, y \in Nat : x < y => <<x, y>> \in R
  BY DEF OpToRel
<1> HIDE DEF R
<1>3. PICK n \in S : \A m \in S : ~(<<m, n>> \in R)
  BY <1>1, WFMin
<1>4. \A m \in S : m \in Nat /\ n \in Nat /\ ~(m < n)
  BY <1>2, <1>3
<1> QED
  BY <1>4

\* Remainders.
LEMMA ModRange ==
  ASSUME NEW a \in Int, NEW n \in Nat \ {0}
  PROVE  a % n \in 0..n-1
OBVIOUS

LEMMA ModSmall ==
  ASSUME NEW n \in Nat \ {0}, NEW a \in 0..n-1
  PROVE  a % n = a
OBVIOUS

\* One wrap.
LEMMA ModOnce ==
  ASSUME NEW n \in Nat \ {0}, NEW a \in n..(2 * n - 1)
  PROVE  a % n = a - n
<1> DEFINE q == a \div n
           r == a % n
<1>1. a = n * q + r /\ r \in 0..n-1 /\ q \in Int
  OBVIOUS
<1> HIDE DEF q, r
<1>2. CASE q <= 0
  <2>1. n * q <= 0
    BY <1>1, <1>2
  <2> QED
    BY <1>1, <2>1
<1>3. CASE q = 1
  BY <1>1, <1>3 DEF r
<1>4. CASE q >= 2
  <2>1. n * q >= 2 * n
    BY <1>1, <1>4
  <2> QED
    BY <1>1, <2>1
<1> QED
  BY <1>1, <1>2, <1>3, <1>4

-----------------------------------------------------------------------------
(* The range list                                                          *)

Ranges == [lo : Addresses, hi : Addresses]

\* The range at f begins at lo, and without the first such range the list holds
\* the ranges before it and those after it, in their order.
CutAt(list, lo, f) ==
  /\ list[f].lo = lo
  /\ Len(Without(list, lo)) = Len(list) - 1
  /\ \A n \in 1..(Len(list) - 1) :
       Without(list, lo)[n] = IF n < f THEN list[n] ELSE list[n + 1]

\* remove_range takes out the first range that begins at lo, if there is one,
\* and leaves the others in their order.
LEMMA WithoutFirst ==
  ASSUME NEW R, NEW list \in Seq(R), NEW lo
  PROVE  /\ Without(list, lo) \in Seq(R)
         /\ \/ /\ \A n \in DOMAIN list : list[n].lo # lo
               /\ Without(list, lo) = list
            \/ \E f \in DOMAIN list : CutAt(list, lo, f)
<1> DEFINE at == {n \in DOMAIN list : list[n].lo = lo}
           first == CHOOSE n \in at : \A m \in at : n <= m
           W == SubSeq(list, 1, first - 1) \o SubSeq(list, first + 1, Len(list))
<1>1. CASE at = {}
  BY <1>1 DEF Without
<1>2. CASE at # {}
  <2>1. at \in SUBSET Nat
    OBVIOUS
  <2>2. first \in at
    <3>1. \E n \in at : \A m \in at : n <= m
      BY <1>2, <2>1, LeastNatural
    <3> QED
      BY <3>1
  <2>3. first \in 1..Len(list) /\ list[first].lo = lo /\ Len(list) \in Nat
    BY <2>2, LenProperties
  <2>4. Without(list, lo) = W
    BY <1>2 DEF Without
  <2> HIDE DEF first
  <2> DEFINE A == SubSeq(list, 1, first - 1)
             B == SubSeq(list, first + 1, Len(list))
  <2>5. \A n \in 1..Len(list) : list[n] \in R
    BY ElementOfSeq
  <2>6. /\ A \in Seq(R)
        /\ Len(A) = first - 1
        /\ \A n \in 1..(first - 1) : A[n] = list[n]
    BY <2>3, <2>5, SubSeqProperties
  <2>7. /\ B \in Seq(R)
        /\ Len(B) = Len(list) - first
        /\ \A n \in 1..(Len(list) - first) : B[n] = list[first + n]
    BY <2>3, <2>5, SubSeqProperties
  <2> HIDE DEF A, B
  <2>8. W = A \o B
    BY DEF A, B
  <2> HIDE DEF W
  <2>9. /\ W \in Seq(R)
        /\ Len(W) = Len(A) + Len(B)
        /\ \A n \in 1..(Len(A) + Len(B)) : W[n] = IF n <= Len(A) THEN A[n] ELSE B[n - Len(A)]
    BY <2>6, <2>7, <2>8, ConcatProperties, Zenon
  <2>10. Len(W) = Len(list) - 1
    BY <2>3, <2>6, <2>7, <2>9
  <2> HIDE DEF W
  <2>11. ASSUME NEW n \in 1..(Len(list) - 1)
         PROVE  W[n] = IF n < first THEN list[n] ELSE list[n + 1]
    <3>0. /\ n \in 1..(Len(A) + Len(B))
          /\ W[n] = IF n <= Len(A) THEN A[n] ELSE B[n - Len(A)]
      BY <2>3, <2>6, <2>7, <2>9
    <3>1. CASE n < first
      <4>1. n <= Len(A) /\ n \in 1..(first - 1)
        BY <2>3, <2>6, <3>1
      <4> QED
        BY <2>6, <3>0, <3>1, <4>1
    <3>2. CASE n >= first
      <4>0. ~(n <= Len(A)) /\ n - Len(A) = n - (first - 1)
        BY <2>3, <2>6, <3>2
      <4>1. W[n] = B[n - (first - 1)] /\ n - (first - 1) \in 1..(Len(list) - first)
        BY <2>3, <3>0, <3>2, <4>0
      <4>2. first + (n - (first - 1)) = n + 1
        BY <2>3
      <4>3. B[n - (first - 1)] = list[first + (n - (first - 1))]
        BY <2>7, <4>1
      <4> QED
        BY <2>3, <3>2, <4>1, <4>2, <4>3
    <3> QED
      BY <2>3, <3>1, <3>2
  <2>12. CutAt(list, lo, first)
    BY <2>3, <2>4, <2>10, <2>11 DEF CutAt
  <2>13. first \in DOMAIN list
    BY <2>3, LenProperties
  <2>14. Without(list, lo) \in Seq(R)
    BY <2>4, <2>9
  <2> QED
    BY <2>12, <2>13, <2>14, Zenon
<1> QED
  BY <1>1, <1>2

\* Ranges as the list keeps them: each with its ends in order, and of two the
\* younger one, which is nearer the head, is clear of the older or around it.
Kept(list) ==
  /\ list \in Seq(Ranges)
  /\ \A n \in DOMAIN list : list[n].lo <= list[n].hi
  /\ \A n, m \in DOMAIN list :
       n < m => \/ Disjoint(list[n], list[m])
                \/ list[n].lo < list[m].lo /\ list[m].hi < list[n].hi

LEMMA WithoutKept ==
  ASSUME NEW list, Kept(list), NEW lo
  PROVE  Kept(Without(list, lo))
<1> DEFINE W == Without(list, lo)
<1>1. W \in Seq(Ranges) /\ list \in Seq(Ranges)
  BY WithoutFirst, Zenon DEF Kept
<1>2. CASE W = list
  BY <1>2
<1>3. ASSUME NEW f \in DOMAIN list,
             Len(W) = Len(list) - 1,
             \A n \in 1..(Len(list) - 1) : W[n] = IF n < f THEN list[n] ELSE list[n + 1]
      PROVE  Kept(W)
  <2> HIDE DEF W
  <2> DEFINE e(n) == IF n < f THEN n ELSE n + 1
  <2>1. Len(list) \in Nat /\ DOMAIN list = 1..Len(list) /\ DOMAIN W = 1..(Len(list) - 1)
    BY <1>1, <1>3, LenProperties
  <2>2. \A n \in DOMAIN W : e(n) \in DOMAIN list /\ W[n] = list[e(n)]
    BY <1>3, <2>1
  <2>3. \A n, m \in DOMAIN W : n < m => e(n) < e(m)
    BY <2>1
  <2> HIDE DEF e
  <2> QED
    BY <1>1, <2>2, <2>3 DEF Kept
<1>4. W = list \/ \E f \in DOMAIN list : CutAt(list, lo, f)
  BY <1>1, WithoutFirst, Zenon
<1>5. ASSUME NEW f \in DOMAIN list, CutAt(list, lo, f)
      PROVE  Kept(W)
  BY <1>3, <1>5 DEF CutAt
<1>6. CASE \E f \in DOMAIN list : CutAt(list, lo, f)
  BY <1>5, <1>6, Zenon
<1> QED
  BY <1>2, <1>4, <1>6

\* What add_range has made sure of when it finds no fault.  A block of no more
\* bytes than there are below the heap cannot wrap into it.
LEMMA NoFault ==
  ASSUME NEW list, NEW lo \in Addresses, NEW size \in 1..HeapLo, mem_brk' \in Nat,
         Fault(list, lo, size) = "none"
  PROVE  /\ lo % ALIGNMENT = 0
         /\ lo \in HeapLo..HeapHi(mem_brk')
         /\ (lo + size - 1) % Word = lo + size - 1
         /\ lo + size - 1 \in HeapLo..HeapHi(mem_brk')
         /\ lo + size - 1 \in Addresses
         /\ \A n \in DOMAIN list : ~Overlaps(list[n], lo, lo + size - 1)
<1> DEFINE hi == (lo + size - 1) % Word
<1> USE MemLibAssumption
<1>1. /\ lo % ALIGNMENT = 0
      /\ lo \in HeapLo..HeapHi(mem_brk') /\ hi \in HeapLo..HeapHi(mem_brk')
      /\ \A n \in DOMAIN list : ~Overlaps(list[n], lo, hi)
  BY DEF Fault
<1>2. lo + size - 1 \in 0..(2 * Word - 1)
  BY DEF Addresses
<1>3. CASE lo + size - 1 >= Word
  <2> DEFINE a == lo + size - 1
  <2>1. a \in Word..(2 * Word - 1) /\ Word \in Nat \ {0}
    BY <1>2, <1>3
  <2> HIDE DEF a
  <2>2. a % Word = a - Word
    BY <2>1, ModOnce, Zenon
  <2>3. hi = a % Word
    BY DEF a
  <2> HIDE DEF hi
  <2>4. hi < HeapLo
    BY <2>1, <2>2, <2>3 DEF a, Addresses
  <2> QED
    BY <1>1, <2>4
<1>4. CASE lo + size - 1 < Word
  <2>1. hi = lo + size - 1
    BY <1>2, <1>4, ModSmall
  <2> QED
    BY <1>1, <1>2, <1>4, <2>1 DEF Addresses
<1> QED
  BY <1>2, <1>3, <1>4

LEMMA AddedKept ==
  ASSUME NEW list, Kept(list), NEW lo \in Addresses, NEW size \in 1..HeapLo, mem_brk' \in Nat,
         Fault(list, lo, size) = "none", AddRange(list, lo, size)
  PROVE  /\ Kept(ranges')
         /\ Len(ranges') = Len(list) + 1
         /\ ranges'[1] = [lo |-> lo, hi |-> lo + size - 1]
         /\ \A n \in DOMAIN list : ranges'[n + 1] = list[n]
<1> DEFINE new == [lo |-> lo, hi |-> lo + size - 1]
           head == <<new>>
<1>1. /\ lo + size - 1 \in Addresses
      /\ (lo + size - 1) % Word = lo + size - 1
      /\ \A n \in DOMAIN list : ~Overlaps(list[n], lo, lo + size - 1)
  BY NoFault
<1>2. ranges' = head \o list
  BY <1>1 DEF AddRange
<1>3. new \in Ranges /\ new.lo = lo /\ new.hi = lo + size - 1
  BY <1>1 DEF Ranges
<1>4. list \in Seq(Ranges) /\ Len(list) \in Nat /\ DOMAIN list = 1..Len(list)
  BY LenProperties DEF Kept
<1> HIDE DEF new
<1>5. head \in Seq(Ranges) /\ Len(head) = 1 /\ head[1] = new
  BY <1>3
<1> HIDE DEF head
<1>6. /\ ranges' \in Seq(Ranges)
      /\ Len(ranges') = 1 + Len(list)
      /\ \A n \in 1..(1 + Len(list)) :
           ranges'[n] = IF n <= 1 THEN head[n] ELSE list[n - 1]
  <2> DEFINE joined == head \o list
  <2>1. /\ joined \in Seq(Ranges)
        /\ Len(joined) = Len(head) + Len(list)
        /\ \A n \in 1..(Len(head) + Len(list)) :
             joined[n] = IF n <= Len(head) THEN head[n] ELSE list[n - Len(head)]
    BY <1>4, <1>5, ConcatProperties, Zenon
  <2> HIDE DEF joined
  <2>2. ranges' = joined
    BY <1>2 DEF joined
  <2> QED
    BY <1>5, <2>1, <2>2
<1> HIDE DEF Kept
<1>7. DOMAIN ranges' = 1..(Len(list) + 1)
  BY <1>4, <1>6, LenProperties
<1>8. ranges'[1] = new /\ \A n \in 2..(Len(list) + 1) : ranges'[n] = list[n - 1]
  BY <1>4, <1>5, <1>6
<1>9. ASSUME NEW n \in DOMAIN list
      PROVE  \/ Disjoint(new, list[n])
             \/ new.lo < list[n].lo /\ list[n].hi < new.hi
  <2>1. list[n] \in Ranges /\ list[n].lo <= list[n].hi
    BY <1>4, ElementOfSeq DEF Kept
  <2>2. /\ list[n].lo \in Int /\ list[n].hi \in Int /\ lo \in Int /\ size \in Int
    BY <2>1, MemLibAssumption DEF Ranges, Addresses
  <2>3. ~Overlaps(list[n], lo, lo + size - 1)
    BY <1>1, <1>9
  <2> QED
    BY <1>3, <2>1, <2>2, <2>3 DEF Overlaps, Disjoint
<1>10. \A n \in DOMAIN ranges' : ranges'[n].lo <= ranges'[n].hi
  <2>1. new.lo <= new.hi
    BY <1>3, MemLibAssumption DEF Addresses
  <2>2. ASSUME NEW n \in DOMAIN ranges'
        PROVE  ranges'[n] = new \/ \E m \in DOMAIN list : ranges'[n] = list[m]
    <3>1. n = 1 \/ n \in 2..(Len(list) + 1)
      BY <1>4, <1>7, LenProperties
    <3>2. n \in 2..(Len(list) + 1) => n - 1 \in DOMAIN list
      BY <1>4, LenProperties
    <3> QED
      BY <1>8, <3>1, <3>2
  <2>3. \A m \in DOMAIN list : list[m].lo <= list[m].hi
    BY DEF Kept
  <2> QED
    BY <2>1, <2>2, <2>3
<1>11. ASSUME NEW n \in DOMAIN ranges', NEW m \in DOMAIN ranges', n < m
       PROVE  \/ Disjoint(ranges'[n], ranges'[m])
              \/ ranges'[n].lo < ranges'[m].lo /\ ranges'[m].hi < ranges'[n].hi
  <2>1. m - 1 \in DOMAIN list /\ ranges'[m] = list[m - 1]
    BY <1>4, <1>7, <1>8, <1>11
  <2>2. CASE n = 1
    BY <1>8, <1>9, <2>1, <2>2
  <2>3. CASE n # 1
    <3>1. n - 1 \in DOMAIN list /\ ranges'[n] = list[n - 1] /\ n - 1 < m - 1
      BY <1>4, <1>7, <1>8, <1>11, <2>3
    <3> QED
      BY <2>1, <3>1 DEF Kept
  <2> QED
    BY <2>2, <2>3
<1>12. \A n \in DOMAIN list : ranges'[n + 1] = list[n]
  BY <1>4, <1>8
<1> QED
  BY <1>6, <1>8, <1>10, <1>11, <1>12, <1>4 DEF Kept, new


-----------------------------------------------------------------------------
(* The break and the traces                                                *)

\* A request is for no more bytes than there are below the heap.
SmallRequests ==
  \A test \in Tests : \A n \in DOMAIN test.traces : \A j \in DOMAIN test.traces[n] :
    test.traces[n][j].type # "f" => test.traces[n][j].size <= HeapLo

\* The driver is in a trace of a test, and the break is below its limit.
OnTrace ==
  /\ \E test \in Tests : package = test.package /\ traces = test.traces
  /\ tracenum \in 1..Len(traces)
  /\ i \in Nat \ {0}
  /\ mem_brk \in 0..mem_max_addr

LEMMA SbrkBreak ==
  ASSUME mem_brk \in 0..mem_max_addr, NEW incr \in Int, NEW p, mem_sbrk(incr, p)
  PROVE  mem_brk' \in 0..mem_max_addr
<1> DEFINE new == (mem_brk + incr) % Word
<1>1. mem_max_addr \in Nat /\ Word \in Nat \ {0} /\ mem_max_addr < Word
  BY MemLibAssumption DEF mem_max_addr
<1>2. new \in 0..(Word - 1)
  <2>1. mem_brk + incr \in Int
    BY <1>1
  <2> QED
    BY <1>1, <2>1, ModRange
<1>3. mem_brk' = mem_brk \/ (~(new > mem_max_addr) /\ mem_brk' = new)
  BY DEF mem_sbrk
<1> HIDE DEF new
<1> QED
  BY <1>1, <1>2, <1>3

\* Rounding a size gives a multiple of the alignment.
LEMMA RoundedNat ==
  ASSUME NEW size \in Nat
  PROVE  Rounded(size) \in Nat /\ ToInt(Rounded(size)) \in Int
<1> DEFINE up == (size + ALIGNMENT - 1) % Word
<1>1. Word \in Nat \ {0} /\ ALIGNMENT \in Nat \ {0}
  BY MemLibAssumption
<1>2. up \in Nat
  <2>1. size + ALIGNMENT - 1 \in Int
    BY <1>1
  <2> QED
    BY <1>1, <2>1, ModRange
<1>3. Rounded(size) = (up \div ALIGNMENT) * ALIGNMENT
  BY DEF Rounded
<1> HIDE DEF up
<1>4. up \div ALIGNMENT \in Nat
  BY <1>1, <1>2
<1>5. Rounded(size) \in Nat
  BY <1>1, <1>3, <1>4
<1> QED
  BY <1>1, <1>5 DEF ToInt

LEMMA MallocBreak ==
  ASSUME mem_brk \in 0..mem_max_addr, NEW size \in Nat, NEW p, Malloc(size, p)
  PROVE  mem_brk' \in 0..mem_max_addr
<1>1. CASE mm_malloc(size, p)
  BY <1>1, RoundedNat, SbrkBreak DEF mm_malloc
<1>2. CASE Allocate(size, held, p)
  BY <1>2, DriverAssumption, SbrkBreak DEF Allocate
<1> QED
  BY <1>1, <1>2 DEF Malloc

LEMMA ReallocBreak ==
  ASSUME mem_brk \in 0..mem_max_addr, NEW size \in Nat,
         NEW oldp, NEW oldsize, NEW p, NEW mem, Realloc(oldp, oldsize, size, p, mem)
  PROVE  mem_brk' \in 0..mem_max_addr
<1>1. CASE mm_realloc(oldp, size, p)
  <2>1. Rounded(size) \in Nat /\ ToInt(Rounded(size)) \in Int
    BY RoundedNat
  <2>2. Rounded(Rounded(size)) \in Nat /\ ToInt(Rounded(Rounded(size))) \in Int
    BY <2>1, RoundedNat
  <2> QED
    BY <1>1, <2>1, <2>2, SbrkBreak DEF mm_realloc, mm_malloc, mm_free
<1>2. CASE Allocate(size, {b \in held : b.lo # oldp}, p)
  BY <1>2, DriverAssumption, SbrkBreak DEF Allocate
<1> QED
  BY <1>1, <1>2 DEF Realloc

LEMMA TraceTyped ==
  ASSUME OnTrace
  PROVE  /\ traces \in Seq(Seq(Request))
         /\ tracenum \in DOMAIN traces
         /\ Trace \in Seq(Request)
         /\ Len(Trace) \in Nat
         /\ DOMAIN Trace = 1..Len(Trace)
<1>1. traces \in Seq(Seq(Request))
  BY DriverAssumption DEF OnTrace
<1>2. tracenum \in DOMAIN traces
  BY <1>1, LenProperties DEF OnTrace
<1>3. Trace \in Seq(Request)
  BY <1>1, <1>2, LenProperties, ElementOfSeq DEF Trace
<1> QED
  BY <1>1, <1>2, <1>3, LenProperties

LEMMA RequestTyped ==
  ASSUME OnTrace, NEW j \in DOMAIN Trace
  PROVE  /\ Trace[j] \in Request
         /\ Trace[j].type \in {"a", "r", "f"} /\ Trace[j].index \in Nat /\ Trace[j].size \in Nat
         /\ Trace[j].type # "f" => Trace[j].size \in 1..(Word \div 2 - 1)
         /\ SmallRequests /\ Trace[j].type # "f" => Trace[j].size \in 1..HeapLo
         /\ Trace[j].index \in Indices
<1>1. Trace[j] \in Request
  BY TraceTyped, ElementOfSeq
<1>2. Trace[j].type \in {"a", "r", "f"} /\ Trace[j].index \in Nat /\ Trace[j].size \in Nat
  BY <1>1 DEF Request
<1>3. PICK test \in Tests : traces = test.traces
  BY DEF OnTrace
<1>4. tracenum \in DOMAIN test.traces /\ j \in DOMAIN test.traces[tracenum]
  BY <1>3, TraceTyped DEF Trace
<1>5. Trace[j].type # "f" => Trace[j].size \in 1..(Word \div 2 - 1)
  BY <1>3, <1>4, DriverAssumption DEF Trace
<1>6. SmallRequests /\ Trace[j].type # "f" => Trace[j].size <= HeapLo
  BY <1>3, <1>4 DEF Trace, SmallRequests
<1>7. SmallRequests /\ Trace[j].type # "f" => Trace[j].size \in 1..HeapLo
  <2>1. Trace[j].type # "f" => Trace[j].size >= 1
    BY <1>2, <1>5, MemLibAssumption
  <2> QED
    BY <1>2, <1>6, <2>1, MemLibAssumption
<1>8. Trace[j].index \in Indices
  BY DEF Indices, IdsOf
<1> QED
  BY <1>1, <1>2, <1>5, <1>7, <1>8

\* The request that is next.
LEMMA NextRequest ==
  ASSUME OnTrace, NEW ph, NEW type, At(ph, type)
  PROVE  /\ phase = ph /\ i \in DOMAIN Trace /\ Trace[i].type = type
         /\ Trace[i].index \in Nat /\ Trace[i].size \in Nat /\ Trace[i].index \in Indices
         /\ type # "f" => Trace[i].size \in 1..(Word \div 2 - 1)
         /\ SmallRequests /\ type # "f" => Trace[i].size \in 1..HeapLo
<1>1. i \in DOMAIN Trace
  BY TraceTyped DEF At, OnTrace
<1> QED
  BY <1>1, RequestTyped DEF At

LEMMA OnTraceInit == Init => OnTrace
<1> SUFFICES ASSUME Init PROVE OnTrace
  OBVIOUS
<1>1. PICK test \in Tests : package = test.package /\ traces = test.traces
  BY DEF Init
<1>2. traces \in Seq(Seq(Request)) /\ traces # <<>>
  BY <1>1, DriverAssumption
<1>3. Len(traces) \in Nat \ {0}
  BY <1>2, EmptySeq
<1> QED
  BY <1>1, <1>3, MemLibAssumption DEF Init, OnTrace, MemInit, mem_max_addr

LEMMA OnTraceNext == OnTrace /\ [Next]_vars => OnTrace'
<1> SUFFICES ASSUME OnTrace, [Next]_vars
             PROVE  OnTrace'
  OBVIOUS
<1>1. mem_brk \in 0..mem_max_addr /\ HeapLo \in 0..mem_max_addr /\ i \in Nat \ {0}
  BY MemLibAssumption DEF OnTrace, mem_max_addr
<1>2. CASE NextTrace
  <2>1. Len(traces) \in Nat
    BY TraceTyped, LenProperties
  <2> QED
    BY <1>2, <2>1 DEF NextTrace, OnTrace, setup
<1>3. ASSUME UNCHANGED <<setup, tracenum>>, i' \in Nat \ {0}, mem_brk' \in 0..mem_max_addr
      PROVE  OnTrace'
  BY <1>3 DEF OnTrace, setup
<1>4. CASE StartValid \/ StartUtil \/ StartSpeed \/ InitFails
  BY <1>1, <1>3, <1>4
  DEF StartValid, StartUtil, StartSpeed, InitFails, Reject, mem_reset_brk
<1>5. CASE ValidAlloc
  BY <1>1, <1>3, <1>5, NextRequest, MallocBreak DEF ValidAlloc, Proceed, Reject
<1>6. CASE ValidRealloc
  <2>1. UNCHANGED <<setup, tracenum>> /\ At("valid", "r")
    BY <1>6 DEF ValidRealloc
  <2>2. i' = i \/ i' = i + 1
    BY <1>6 DEF ValidRealloc, Proceed, Reject
  <2>3. \E oldp, oldsize, p, mem : Realloc(oldp, oldsize, Trace[i].size, p, mem)
    BY <1>6 DEF ValidRealloc
  <2>4. mem_brk' \in 0..mem_max_addr
    BY <1>1, <2>1, <2>3, NextRequest, ReallocBreak
  <2> QED
    BY <1>1, <1>3, <2>1, <2>2, <2>4
<1>7. CASE ValidFree \/ UtilFree \/ SpeedFree
  BY <1>1, <1>3, <1>7 DEF ValidFree, UtilFree, SpeedFree, Free, mm_free, Proceed
<1>8. CASE UtilAlloc
  BY <1>1, <1>3, <1>8, NextRequest, MallocBreak DEF UtilAlloc, UtilRequest, GivesUp
<1>9. CASE UtilRealloc
  BY <1>1, <1>3, <1>9, NextRequest, ReallocBreak DEF UtilRealloc, UtilRequest, GivesUp
<1>10. CASE SpeedAlloc
  BY <1>1, <1>3, <1>10, NextRequest, MallocBreak DEF SpeedAlloc, SpeedRequest
<1>11. CASE SpeedRealloc
  BY <1>1, <1>3, <1>11, NextRequest, ReallocBreak DEF SpeedRealloc, SpeedRequest
<1>12. CASE EndSpeed
  BY <1>1, <1>3, <1>12 DEF EndSpeed
<1>13. CASE Exit \/ UNCHANGED vars
  BY <1>1, <1>3, <1>13 DEF Exit, vars
<1> QED
  BY <1>2, <1>4, <1>5, <1>6, <1>7, <1>8, <1>9, <1>10, <1>11, <1>12, <1>13 DEF Next


-----------------------------------------------------------------------------
(* No partial overlap                                                      *)

\* A block that has passed, of a new id or of one that is reallocated.
LEMMA AllocKept ==
  ASSUME OnTrace, OnTrace', SmallRequests, Kept(ranges), ValidAlloc
  PROVE  Kept(ranges')
<1>1. At("valid", "a")
  BY DEF ValidAlloc
<1>2. PICK p \in Addresses :
        \/ ranges' = ranges
        \/ Fault(ranges, p, Trace[i].size) = "none" /\ AddRange(ranges, p, Trace[i].size)
  BY DEF ValidAlloc, listVars
<1>3. Trace[i].size \in 1..HeapLo /\ mem_brk' \in Nat
  BY <1>1, NextRequest, MemLibAssumption DEF OnTrace, mem_max_addr
<1> QED
  BY <1>2, <1>3, AddedKept

LEMMA ReallocKept ==
  ASSUME OnTrace, OnTrace', SmallRequests, Kept(ranges), ValidRealloc
  PROVE  Kept(ranges')
<1> DEFINE rest == Without(ranges, blocks[Trace[i].index])
<1>1. At("valid", "r")
  BY DEF ValidRealloc
<1>2. PICK p \in Addresses :
        \/ ranges' = ranges \/ ranges' = rest
        \/ Fault(rest, p, Trace[i].size) = "none" /\ AddRange(rest, p, Trace[i].size)
  BY DEF ValidRealloc
<1>3. Trace[i].size \in 1..HeapLo /\ mem_brk' \in Nat
  BY <1>1, NextRequest, MemLibAssumption DEF OnTrace, mem_max_addr
<1>4. Kept(rest)
  BY WithoutKept
<1> HIDE DEF rest
<1> QED
  BY <1>2, <1>3, <1>4, AddedKept

LEMMA KeptNext ==
  SmallRequests /\ OnTrace /\ OnTrace' /\ Kept(ranges) /\ [Next]_vars => Kept(ranges)'
<1> SUFFICES ASSUME SmallRequests, OnTrace, OnTrace', Kept(ranges), [Next]_vars
             PROVE  Kept(ranges')
  OBVIOUS
<1>1. CASE ValidAlloc
  BY <1>1, AllocKept
<1>2. CASE ValidRealloc
  BY <1>2, ReallocKept
<1>3. CASE StartValid \/ InitFails
  <2>1. CASE ranges' = <<>>
    BY <2>1, EmptySeq DEF Kept
  <2>2. CASE ranges' = ranges
    BY <2>2
  <2> QED
    BY <1>3, <2>1, <2>2 DEF StartValid, InitFails
<1>4. CASE ValidFree
  BY <1>4, WithoutKept DEF ValidFree
<1>5. CASE StartUtil \/ UtilAlloc \/ UtilRealloc \/ UtilFree
  <2>1. ranges' = ranges
    BY <1>5 DEF StartUtil, UtilAlloc, UtilRealloc, UtilFree, listVars
  <2> QED
    BY <2>1
<1>6. CASE StartSpeed \/ SpeedAlloc \/ SpeedRealloc \/ SpeedFree \/ EndSpeed
  <2>1. ranges' = ranges
    BY <1>6 DEF StartSpeed, SpeedAlloc, SpeedRealloc, SpeedRequest, SpeedFree, EndSpeed, listVars
  <2> QED
    BY <2>1
<1>7. CASE NextTrace \/ Exit \/ UNCHANGED vars
  BY <1>7 DEF NextTrace, Exit, vars, listVars
<1> QED
  BY <1>1, <1>2, <1>3, <1>4, <1>5, <1>6, <1>7 DEF Next

LEMMA KeptAlways == SmallRequests => (Spec => [](OnTrace /\ Kept(ranges)))
<1> SUFFICES ASSUME SmallRequests
             PROVE  Spec => [](OnTrace /\ Kept(ranges))
  OBVIOUS
<1>1. Init => OnTrace /\ Kept(ranges)
  BY OnTraceInit, EmptySeq DEF Init, Kept
<1>2. OnTrace /\ Kept(ranges) /\ [Next]_vars => OnTrace' /\ Kept(ranges)'
  BY OnTraceNext, KeptNext
<1> QED
  BY <1>1, <1>2, PTL DEF Spec

\* Of two blocks that add_range has let pass, the younger does not begin or end
\* inside the older, whatever the package answers and whatever is asked of it,
\* as long as no request is for more than what lies below the heap.
THEOREM NoPartialOverlapHolds == SmallRequests => (Spec => []NoPartialOverlap)
<1> SUFFICES ASSUME SmallRequests
             PROVE  Spec => []NoPartialOverlap
  OBVIOUS
<1>1. Kept(ranges) => NoPartialOverlap
  BY DEF Kept, NoPartialOverlap
<1> QED
  BY <1>1, KeptAlways, PTL


-----------------------------------------------------------------------------
(* The ids that are live                                                   *)

\* LiveIds of a trace before its request j.
Live(trace, j) ==
  {k \in IdsOf(trace) :
     \E m \in 1..(j - 1) :
       /\ trace[m].index = k /\ trace[m].type # "f"
       /\ \A l \in (m + 1)..(j - 1) : trace[l].index = k => trace[l].type # "f"}

\* As the files in traces/ are: an id is allocated when it is not live, and
\* reallocated or freed when it is.
WellFormed ==
  \A test \in Tests : \A n \in DOMAIN test.traces : \A j \in DOMAIN test.traces[n] :
    test.traces[n][j].type = "a" <=>
      test.traces[n][j].index \notin Live(test.traces[n], j)

LEMMA LiveIdsIs == LiveIds = Live(Trace, i)
BY DEF LiveIds, Live, Indices

LEMMA LiveFirst == \A trace : Live(trace, 1) = {}
BY DEF Live

LEMMA LiveNext ==
  ASSUME NEW trace, NEW j \in DOMAIN trace, DOMAIN trace \subseteq Nat \ {0}
  PROVE  /\ trace[j].type = "f" => Live(trace, j + 1) = Live(trace, j) \ {trace[j].index}
         /\ trace[j].type # "f" => Live(trace, j + 1) = Live(trace, j) \cup {trace[j].index}
<1> DEFINE id == trace[j].index
           Since(k, m, n) == /\ trace[m].index = k /\ trace[m].type # "f"
                             /\ \A l \in (m + 1)..(n - 1) :
                                  trace[l].index = k => trace[l].type # "f"
<1>1. j \in Nat \ {0} /\ id \in IdsOf(trace)
  BY DEF IdsOf
<1>2. \A k, n : k \in Live(trace, n) <=>
                  k \in IdsOf(trace) /\ \E m \in 1..(n - 1) : Since(k, m, n)
  BY DEF Live
<1>3. /\ \A k, m : Since(k, m, j + 1) <=>
            /\ trace[m].index = k /\ trace[m].type # "f"
            /\ \A l \in (m + 1)..j : trace[l].index = k => trace[l].type # "f"
      /\ \A k, m : Since(k, m, j) <=>
            /\ trace[m].index = k /\ trace[m].type # "f"
            /\ \A l \in (m + 1)..(j - 1) : trace[l].index = k => trace[l].type # "f"
  BY <1>1
<1>4. ASSUME NEW k, NEW m \in 1..(j - 1)
      PROVE  Since(k, m, j + 1) <=> Since(k, m, j) /\ (k = id => trace[j].type # "f")
  <2>1. (m + 1)..j = ((m + 1)..(j - 1)) \cup {j}
    BY <1>1
  <2> HIDE DEF Since
  <2> QED
    BY <1>3, <2>1
<1>5. ASSUME NEW k
      PROVE  Since(k, j, j + 1) <=> k = id /\ trace[j].type # "f"
  BY <1>1
<1>6. 1..(j + 1 - 1) = (1..(j - 1)) \cup {j}
  BY <1>1
<1> HIDE DEF Since
<1>7. \A k : k \in Live(trace, j + 1) <=>
        k \in IdsOf(trace) /\ \/ k \in Live(trace, j) /\ (k = id => trace[j].type # "f")
                              \/ k = id /\ trace[j].type # "f"
  BY <1>2, <1>4, <1>5, <1>6
<1>8. \A k \in Live(trace, j) : k \in IdsOf(trace)
  BY <1>2
<1> QED
  BY <1>1, <1>7, <1>8

\* What the next request does to the live ids.
LEMMA LiveStep ==
  ASSUME OnTrace, NEW ph, NEW type, At(ph, type),
         UNCHANGED <<setup, tracenum>>, i' = i + 1
  PROVE  /\ type = "f" => LiveIds' = LiveIds \ {Trace[i].index}
         /\ type # "f" => LiveIds' = LiveIds \cup {Trace[i].index}
         /\ WellFormed => (type = "a" <=> Trace[i].index \notin LiveIds)
<1>1. i \in DOMAIN Trace /\ Trace[i].type = type
  BY NextRequest
<1>2. LiveIds = Live(Trace, i) /\ LiveIds' = Live(Trace, i + 1)
  <2>1. Trace' = Trace
    BY DEF Trace, setup
  <2>2. LiveIds' = Live(Trace', i')
    BY LiveIdsIs DEF LiveIds, Live, Indices
  <2> QED
    BY <2>1, <2>2, LiveIdsIs
<1>3. DOMAIN Trace \subseteq Nat \ {0}
  BY TraceTyped
<1>4. WellFormed => (type = "a" <=> Trace[i].index \notin Live(Trace, i))
  <2>1. PICK test \in Tests : traces = test.traces
    BY DEF OnTrace
  <2>2. tracenum \in DOMAIN test.traces /\ i \in DOMAIN test.traces[tracenum]
    BY <1>1, <2>1, TraceTyped DEF Trace
  <2> QED
    BY <1>1, <2>1, <2>2 DEF Trace, WellFormed
<1> QED
  BY <1>1, <1>2, <1>3, <1>4, LiveNext


-----------------------------------------------------------------------------
(* The range list has the ranges of the live blocks                        *)

Extent(p, size) == [lo |-> p, hi |-> p + size - 1]

\* The list has the extents of the blocks of the ids in K, each once.
Lists(list, K, B, S) ==
  /\ Kept(list)
  /\ IsFiniteSet(K) /\ Len(list) = Cardinality(K)
  /\ \A n \in DOMAIN list : \E k \in K : list[n] = Extent(B[k], S[k])
  /\ \A k \in K : \E n \in DOMAIN list : list[n] = Extent(B[k], S[k])
  /\ \A k, l \in K : k # l => B[k] # B[l]

LEMMA DistinctLows ==
  ASSUME NEW list, Kept(list), NEW n \in DOMAIN list, NEW m \in DOMAIN list,
         list[n].lo = list[m].lo
  PROVE  n = m
<1>1. list \in Seq(Ranges) /\ DOMAIN list = 1..Len(list) /\ Len(list) \in Nat
  BY LenProperties DEF Kept
<1>2. \A x \in DOMAIN list : list[x].lo \in Int /\ list[x].hi \in Int /\ list[x].lo <= list[x].hi
  <2>1. \A x \in DOMAIN list : list[x] \in Ranges
    BY <1>1, ElementOfSeq
  <2>2. Word \in Int
    BY MemLibAssumption
  <2> QED
    BY <2>1, <2>2 DEF Kept, Ranges, Addresses
<1>3. ASSUME NEW x \in DOMAIN list, NEW y \in DOMAIN list, x < y
      PROVE  list[x].lo # list[y].lo
  <2>1. \/ Disjoint(list[x], list[y])
        \/ list[x].lo < list[y].lo
    BY <1>3 DEF Kept
  <2> QED
    BY <1>2, <2>1 DEF Disjoint
<1> QED
  BY <1>1, <1>3

\* The range that begins at lo goes, and no other.
LEMMA WithoutOne ==
  ASSUME NEW list, Kept(list), NEW x \in DOMAIN list
  PROVE  LET W == Without(list, list[x].lo)
         IN  /\ Len(W) = Len(list) - 1
             /\ \A n \in DOMAIN W : \E m \in DOMAIN list :
                  W[n] = list[m] /\ list[m].lo # list[x].lo
             /\ \A m \in DOMAIN list : list[m].lo # list[x].lo =>
                  \E n \in DOMAIN W : W[n] = list[m]
<1> DEFINE W == Without(list, list[x].lo)
<1>1. list \in Seq(Ranges) /\ DOMAIN list = 1..Len(list) /\ Len(list) \in Nat
  BY LenProperties DEF Kept
<1>2. PICK f \in DOMAIN list :
        /\ list[f].lo = list[x].lo
        /\ Len(W) = Len(list) - 1
        /\ \A n \in 1..(Len(list) - 1) : W[n] = IF n < f THEN list[n] ELSE list[n + 1]
  <2> DEFINE lo == list[x].lo
  <2>1. ~\A n \in DOMAIN list : list[n].lo # lo
    OBVIOUS
  <2> HIDE DEF lo
  <2>2. \/ \A n \in DOMAIN list : list[n].lo # lo
        \/ \E f \in DOMAIN list : CutAt(list, lo, f)
    BY <1>1, WithoutFirst, Zenon
  <2>3. \E f \in DOMAIN list : CutAt(list, lo, f)
    BY <2>1, <2>2, Zenon
  <2> QED
    BY <2>3 DEF lo, CutAt
<1>3. DOMAIN W = 1..(Len(list) - 1)
  <2>1. W \in Seq(Ranges)
    BY <1>1, WithoutFirst, Zenon
  <2> HIDE DEF W
  <2> QED
    BY <1>2, <2>1, LenProperties
<1> HIDE DEF W
<1>4. f = x
  BY <1>2, DistinctLows
<1>5. ASSUME NEW n \in DOMAIN W
      PROVE  \E m \in DOMAIN list : W[n] = list[m] /\ list[m].lo # list[x].lo
  <2> DEFINE m == IF n < f THEN n ELSE n + 1
  <2>1. m \in DOMAIN list /\ m # f /\ W[n] = list[m]
    BY <1>1, <1>2, <1>3
  <2> HIDE DEF m
  <2>2. list[m].lo # list[x].lo
    BY <1>4, <2>1, DistinctLows
  <2> QED
    BY <2>1, <2>2
<1>6. ASSUME NEW m \in DOMAIN list, list[m].lo # list[x].lo
      PROVE  \E n \in DOMAIN W : W[n] = list[m]
  <2> DEFINE n == IF m < f THEN m ELSE m - 1
  <2>1. m # f
    BY <1>4, <1>6
  <2>2. n \in DOMAIN W /\ W[n] = list[m]
    BY <1>1, <1>2, <1>3, <2>1
  <2> HIDE DEF n
  <2> QED
    BY <2>2
<1> QED
  BY <1>2, <1>5, <1>6 DEF W

LEMMA ListsDrop ==
  ASSUME NEW list, NEW K, NEW B, NEW S, Lists(list, K, B, S), NEW k \in K
  PROVE  Lists(Without(list, B[k]), K \ {k}, B, S)
<1> DEFINE W == Without(list, B[k])
<1>1. PICK x \in DOMAIN list : list[x] = Extent(B[k], S[k])
  BY DEF Lists
<1>2. list[x].lo = B[k]
  BY <1>1 DEF Extent
<1>3. /\ Kept(list) /\ IsFiniteSet(K) /\ Len(list) = Cardinality(K)
      /\ \A n \in DOMAIN list : \E l \in K : list[n] = Extent(B[l], S[l])
      /\ \A l \in K : \E n \in DOMAIN list : list[n] = Extent(B[l], S[l])
      /\ \A j, l \in K : j # l => B[j] # B[l]
  BY DEF Lists
<1>4. Kept(W)
  BY <1>3, WithoutKept
<1>5. /\ Len(W) = Len(list) - 1
      /\ \A n \in DOMAIN W : \E m \in DOMAIN list : W[n] = list[m] /\ list[m].lo # B[k]
      /\ \A m \in DOMAIN list : list[m].lo # B[k] => \E n \in DOMAIN W : W[n] = list[m]
  <2> DEFINE V == Without(list, list[x].lo)
  <2>1. /\ Len(V) = Len(list) - 1
        /\ \A n \in DOMAIN V : \E m \in DOMAIN list : V[n] = list[m] /\ list[m].lo # list[x].lo
        /\ \A m \in DOMAIN list : list[m].lo # list[x].lo => \E n \in DOMAIN V : V[n] = list[m]
    BY <1>3, WithoutOne
  <2>2. V = W
    BY <1>2
  <2> HIDE DEF V, W
  <2> QED
    BY <1>2, <2>1, <2>2
<1> HIDE DEF W
<1>6. IsFiniteSet(K \ {k}) /\ Cardinality(K \ {k}) = Cardinality(K) - 1
  BY <1>3, FS_RemoveElement
<1>7. \A l : Extent(B[l], S[l]).lo = B[l]
  BY DEF Extent
<1> HIDE DEF Extent
<1>8. ASSUME NEW n \in DOMAIN W
      PROVE  \E l \in K \ {k} : W[n] = Extent(B[l], S[l])
  <2>1. PICK m \in DOMAIN list : W[n] = list[m] /\ list[m].lo # B[k]
    BY <1>5
  <2>2. PICK l \in K : list[m] = Extent(B[l], S[l])
    BY <1>3
  <2>3. l # k
    BY <1>7, <2>1, <2>2
  <2> QED
    BY <2>1, <2>2, <2>3
<1>9. ASSUME NEW l \in K \ {k}
      PROVE  \E n \in DOMAIN W : W[n] = Extent(B[l], S[l])
  <2>1. PICK m \in DOMAIN list : list[m] = Extent(B[l], S[l])
    BY <1>3
  <2>2. B[l] # B[k]
    BY <1>3
  <2>3. list[m].lo # B[k]
    BY <1>7, <2>1, <2>2
  <2> QED
    BY <1>5, <2>1, <2>3
<1>10. \A j, l \in K \ {k} : j # l => B[j] # B[l]
  BY <1>3
<1>11. Len(W) = Cardinality(K \ {k})
  BY <1>3, <1>5, <1>6
<1> QED
  BY <1>4, <1>6, <1>8, <1>9, <1>10, <1>11 DEF Lists, W

LEMMA ListsAdd ==
  ASSUME NEW list, NEW K, NEW B, NEW S, Lists(list, K, B, S),
         NEW k, k \notin K, K \subseteq DOMAIN B, K \subseteq DOMAIN S,
         k \in DOMAIN B, k \in DOMAIN S,
         NEW p, NEW size, NEW new, Kept(new), Len(new) = Len(list) + 1,
         new[1] = Extent(p, size), \A n \in DOMAIN list : new[n + 1] = list[n]
  PROVE  Lists(new, K \cup {k}, [B EXCEPT ![k] = p], [S EXCEPT ![k] = size])
<1> DEFINE C == [B EXCEPT ![k] = p]
           T == [S EXCEPT ![k] = size]
<1>1. /\ Kept(list) /\ IsFiniteSet(K) /\ Len(list) = Cardinality(K)
      /\ \A n \in DOMAIN list : \E l \in K : list[n] = Extent(B[l], S[l])
      /\ \A l \in K : \E n \in DOMAIN list : list[n] = Extent(B[l], S[l])
      /\ \A j, l \in K : j # l => B[j] # B[l]
  BY DEF Lists
<1>2. /\ DOMAIN list = 1..Len(list) /\ Len(list) \in Nat
      /\ DOMAIN new = 1..(Len(list) + 1)
  BY <1>1, LenProperties DEF Kept
<1>3. /\ C[k] = p /\ T[k] = size
      /\ \A l \in K : C[l] = B[l] /\ T[l] = S[l]
  OBVIOUS
<1> HIDE DEF C, T
<1>4. IsFiniteSet(K \cup {k}) /\ Cardinality(K \cup {k}) = Cardinality(K) + 1
  BY <1>1, FS_AddElement
<1>5. \A b, s : Extent(b, s).lo = b
  BY DEF Extent
<1> HIDE DEF Extent
<1>6. ASSUME NEW l \in K
      PROVE  /\ \E n \in DOMAIN new : new[n] = Extent(C[l], T[l])
             /\ C[l] # p
  <2>1. PICK n \in DOMAIN list : list[n] = Extent(B[l], S[l])
    BY <1>1
  <2>2. n + 1 \in DOMAIN new /\ new[n + 1] = Extent(C[l], T[l]) /\ n + 1 # 1 /\ 1 \in DOMAIN new
    BY <1>2, <1>3, <2>1
  <2>3. new[n + 1].lo # new[1].lo
    BY <2>2, DistinctLows
  <2> QED
    BY <1>5, <2>2, <2>3
<1>7. ASSUME NEW n \in DOMAIN new
      PROVE  \E l \in K \cup {k} : new[n] = Extent(C[l], T[l])
  <2>1. CASE n = 1
    BY <1>3, <2>1
  <2>2. CASE n # 1
    <3>1. n - 1 \in DOMAIN list /\ new[n] = list[n - 1]
      BY <1>2, <2>2
    <3> QED
      BY <1>1, <1>3, <3>1
  <2> QED
    BY <2>1, <2>2
<1>8. \E n \in DOMAIN new : new[n] = Extent(C[k], T[k])
  BY <1>2, <1>3
<1>9. \A j, l \in K \cup {k} : j # l => C[j] # C[l]
  BY <1>1, <1>3, <1>6
<1> QED
  BY <1>1, <1>4, <1>6, <1>7, <1>8, <1>9 DEF Lists, C, T


\* The inductive form of RangesAreLive.
ListInv ==
  /\ DOMAIN blocks = Indices /\ DOMAIN block_sizes = Indices
  /\ phase = "valid" => Lists(ranges, LiveIds, blocks, block_sizes)

LEMMA SameTrace ==
  ASSUME UNCHANGED <<setup, tracenum>>
  PROVE  Trace' = Trace /\ Indices' = Indices
BY DEF setup, Trace, Indices

LEMMA LiveInIndices == LiveIds \subseteq Indices
BY DEF LiveIds

LEMMA AllocLists ==
  ASSUME OnTrace, OnTrace', SmallRequests, WellFormed, ListInv, ValidAlloc, phase' = "valid"
  PROVE  Lists(ranges', LiveIds', blocks', block_sizes')
<1> DEFINE k == Trace[i].index
           size == Trace[i].size
<1>1. At("valid", "a") /\ UNCHANGED <<setup, tracenum>>
  BY DEF ValidAlloc
<1>2. PICK p \in Addresses :
        /\ Fault(ranges, p, size) = "none" /\ AddRange(ranges, p, size) /\ Proceed
        /\ Remember(k, p, size, memory)
  BY DEF ValidAlloc, Reject
<1>3. size \in 1..HeapLo /\ mem_brk' \in Nat /\ k \in Indices /\ phase = "valid"
  BY <1>1, NextRequest, MemLibAssumption DEF OnTrace, mem_max_addr
<1>4. Lists(ranges, LiveIds, blocks, block_sizes)
  BY <1>3 DEF ListInv
<1>5. i' = i + 1
  BY <1>2 DEF Proceed
<1>6. LiveIds' = LiveIds \cup {k} /\ k \notin LiveIds
  BY <1>1, <1>5, LiveStep
<1>7. /\ Kept(ranges') /\ Len(ranges') = Len(ranges) + 1
      /\ ranges'[1] = Extent(p, size)
      /\ \A n \in DOMAIN ranges : ranges'[n + 1] = ranges[n]
  BY <1>2, <1>3, <1>4, AddedKept DEF Lists, Extent
<1>8. blocks' = [blocks EXCEPT ![k] = p] /\ block_sizes' = [block_sizes EXCEPT ![k] = size]
  BY <1>2 DEF Remember
<1> HIDE DEF k, size
<1>9. /\ k \in DOMAIN blocks /\ k \in DOMAIN block_sizes
      /\ LiveIds \subseteq DOMAIN blocks /\ LiveIds \subseteq DOMAIN block_sizes
  BY <1>3, LiveInIndices DEF ListInv
<1>10. Lists(ranges', LiveIds \cup {k}, [blocks EXCEPT ![k] = p], [block_sizes EXCEPT ![k] = size])
  BY <1>4, <1>6, <1>7, <1>9, ListsAdd
<1> QED
  BY <1>6, <1>8, <1>10

LEMMA ReallocLists ==
  ASSUME OnTrace, OnTrace', SmallRequests, WellFormed, ListInv, ValidRealloc, phase' = "valid"
  PROVE  Lists(ranges', LiveIds', blocks', block_sizes')
<1> DEFINE k == Trace[i].index
           size == Trace[i].size
           rest == Without(ranges, blocks[k])
           others == LiveIds \ {k}
<1>1. At("valid", "r") /\ UNCHANGED <<setup, tracenum>>
  BY DEF ValidRealloc
<1>2. PICK p \in Addresses :
        /\ Fault(rest, p, size) = "none" /\ AddRange(rest, p, size) /\ Proceed
        /\ \E mem : Remember(k, p, size, mem)
  BY DEF ValidRealloc, Reject
<1>3. size \in 1..HeapLo /\ mem_brk' \in Nat /\ k \in Indices /\ phase = "valid"
  BY <1>1, NextRequest, MemLibAssumption DEF OnTrace, mem_max_addr
<1>4. Lists(ranges, LiveIds, blocks, block_sizes)
  BY <1>3 DEF ListInv
<1>5. i' = i + 1
  BY <1>2 DEF Proceed
<1>6. LiveIds' = LiveIds \cup {k} /\ k \in LiveIds
  BY <1>1, <1>5, LiveStep
<1>7. blocks' = [blocks EXCEPT ![k] = p] /\ block_sizes' = [block_sizes EXCEPT ![k] = size]
  BY <1>2 DEF Remember
<1>8. Lists(rest, others, blocks, block_sizes)
  BY <1>4, <1>6, ListsDrop
<1> HIDE DEF k, size, rest
<1>9. /\ Kept(ranges') /\ Len(ranges') = Len(rest) + 1
      /\ ranges'[1] = Extent(p, size)
      /\ \A n \in DOMAIN rest : ranges'[n + 1] = rest[n]
  <2>1. Kept(rest)
    BY <1>8 DEF Lists
  <2> QED
    BY <1>2, <1>3, <2>1, AddedKept DEF Extent
<1>10. /\ k \in DOMAIN blocks /\ k \in DOMAIN block_sizes /\ k \notin others
       /\ others \subseteq DOMAIN blocks /\ others \subseteq DOMAIN block_sizes
       /\ LiveIds' = others \cup {k}
  BY <1>3, <1>6, LiveInIndices DEF ListInv
<1> HIDE DEF others
<1>11. Lists(ranges', others \cup {k}, [blocks EXCEPT ![k] = p], [block_sizes EXCEPT ![k] = size])
  BY <1>8, <1>9, <1>10, ListsAdd
<1> QED
  BY <1>7, <1>10, <1>11

LEMMA FreeLists ==
  ASSUME OnTrace, WellFormed, ListInv, ValidFree
  PROVE  Lists(ranges', LiveIds', blocks', block_sizes')
<1> DEFINE k == Trace[i].index
<1>1. /\ At("valid", "f") /\ UNCHANGED <<setup, tracenum>> /\ i' = i + 1
      /\ ranges' = Without(ranges, blocks[k])
      /\ blocks' = blocks /\ block_sizes' = block_sizes
  BY DEF ValidFree, Proceed
<1>2. LiveIds' = LiveIds \ {k} /\ k \in LiveIds
  BY <1>1, LiveStep
<1>3. Lists(ranges, LiveIds, blocks, block_sizes)
  BY <1>1, NextRequest DEF ListInv
<1> HIDE DEF k
<1> QED
  BY <1>1, <1>2, <1>3, ListsDrop

LEMMA StartLists ==
  ASSUME StartValid
  PROVE  Lists(ranges', LiveIds', blocks', block_sizes')
<1>1. ranges' = <<>> /\ i' = 1
  BY DEF StartValid
<1>2. LiveIds' = {}
  <2>1. LiveIds' = Live(Trace', i')
    BY DEF LiveIds, Live, Indices
  <2> QED
    BY <1>1, <2>1, LiveFirst
<1>3. Kept(<<>>) /\ Len(<<>>) = 0 /\ DOMAIN <<>> = {}
  BY EmptySeq DEF Kept
<1> QED
  BY <1>1, <1>2, <1>3, FS_EmptySet DEF Lists

LEMMA ListInvNext ==
  /\ SmallRequests /\ WellFormed /\ OnTrace /\ OnTrace' /\ ListInv /\ [Next]_vars
  => ListInv'
<1> SUFFICES ASSUME SmallRequests, WellFormed, OnTrace, OnTrace', ListInv, [Next]_vars
             PROVE  ListInv'
  OBVIOUS
<1>1. CASE NextTrace
  <2>1. /\ Indices' = IdsOf(traces[tracenum + 1]) /\ phase' = "read"
        /\ DOMAIN blocks' = IdsOf(traces[tracenum + 1])
        /\ DOMAIN block_sizes' = IdsOf(traces[tracenum + 1])
    BY <1>1 DEF NextTrace, Indices, Trace, setup
  <2> QED
    BY <2>1 DEF ListInv
<1>2. ASSUME UNCHANGED <<setup, tracenum>>,
             DOMAIN blocks' = DOMAIN blocks, DOMAIN block_sizes' = DOMAIN block_sizes,
             phase' = "valid" => Lists(ranges', LiveIds', blocks', block_sizes')
      PROVE  ListInv'
  BY <1>2, SameTrace DEF ListInv
<1>3. CASE ValidAlloc
  <2>1. UNCHANGED <<setup, tracenum>> /\ DOMAIN blocks' = DOMAIN blocks
        /\ DOMAIN block_sizes' = DOMAIN block_sizes
    BY <1>3 DEF ValidAlloc, Remember, listVars
  <2> QED
    BY <1>2, <1>3, <2>1, AllocLists
<1>4. CASE ValidRealloc
  <2>1. UNCHANGED <<setup, tracenum>> /\ DOMAIN blocks' = DOMAIN blocks
        /\ DOMAIN block_sizes' = DOMAIN block_sizes
    BY <1>4 DEF ValidRealloc, Remember
  <2> QED
    BY <1>2, <1>4, <2>1, ReallocLists
<1>5. CASE ValidFree
  BY <1>2, <1>5, FreeLists DEF ValidFree
<1>6. CASE StartValid
  BY <1>2, <1>6, StartLists DEF StartValid
<1>7. CASE StartUtil \/ StartSpeed \/ EndSpeed \/ InitFails
  BY <1>2, <1>7 DEF StartUtil, StartSpeed, EndSpeed, InitFails, Reject, listVars
<1>8. CASE UtilAlloc \/ UtilRealloc \/ UtilFree
  <2>1. /\ UNCHANGED <<setup, tracenum>> /\ DOMAIN blocks' = DOMAIN blocks
        /\ DOMAIN block_sizes' = DOMAIN block_sizes /\ phase' \in {"util", "exited"}
    BY <1>8 DEF UtilAlloc, UtilRealloc, UtilFree, UtilRequest, GivesUp, listVars, At
  <2> QED
    BY <1>2, <2>1
<1>9. CASE SpeedAlloc \/ SpeedRealloc \/ SpeedFree
  <2>1. /\ UNCHANGED <<setup, tracenum>> /\ DOMAIN blocks' = DOMAIN blocks
        /\ DOMAIN block_sizes' = DOMAIN block_sizes /\ phase' \in {"speed", "exited"}
    BY <1>9 DEF SpeedAlloc, SpeedRealloc, SpeedFree, SpeedRequest, listVars, At
  <2> QED
    BY <1>2, <2>1
<1>10. CASE Exit \/ UNCHANGED vars
  <2>1. /\ UNCHANGED <<setup, tracenum, listVars, phase, i>>
    BY <1>10 DEF Exit, vars
  <2>2. LiveIds' = LiveIds
    BY <2>1 DEF LiveIds, Indices, Trace, setup
  <2> QED
    BY <1>2, <2>1, <2>2 DEF ListInv, listVars
<1> QED
  BY <1>1, <1>3, <1>4, <1>5, <1>6, <1>7, <1>8, <1>9, <1>10 DEF Next

LEMMA ListInvAlways ==
  SmallRequests /\ WellFormed => (Spec => [](OnTrace /\ ListInv))
<1> SUFFICES ASSUME SmallRequests, WellFormed
             PROVE  Spec => [](OnTrace /\ ListInv)
  OBVIOUS
<1>1. Init => OnTrace /\ ListInv
  BY OnTraceInit DEF Init, ListInv
<1>2. OnTrace /\ ListInv /\ [Next]_vars => OnTrace' /\ ListInv'
  BY OnTraceNext, ListInvNext
<1> QED
  BY <1>1, <1>2, PTL DEF Spec

\* The range list has the extent of every live block of the trace, each once,
\* and no others, whatever the package answers.
THEOREM RangesAreLiveHolds ==
  SmallRequests /\ WellFormed => (Spec => []RangesAreLive)
<1> SUFFICES ASSUME SmallRequests, WellFormed
             PROVE  Spec => []RangesAreLive
  OBVIOUS
<1>1. ListInv => RangesAreLive
  <2> SUFFICES ASSUME ListInv, phase = "valid"
               PROVE  /\ {ranges[n] : n \in DOMAIN ranges} = {RangeOf(k) : k \in LiveIds}
                      /\ Len(ranges) = Cardinality(LiveIds)
    BY DEF RangesAreLive
  <2>1. Lists(ranges, LiveIds, blocks, block_sizes)
    BY DEF ListInv
  <2>2. \A k : RangeOf(k) = Extent(blocks[k], block_sizes[k])
    BY DEF RangeOf, Extent
  <2> QED
    BY <2>1, <2>2 DEF Lists
<1> QED
  BY <1>1, ListInvAlways, PTL


-----------------------------------------------------------------------------
(* The blocks of mm.c                                                      *)

\* No request is so large that the break would wrap: the driver takes a block
\* that ends exactly where the addresses do for one that is in the heap.
Unwrapped ==
  \A test \in Tests : \A n \in DOMAIN test.traces : \A j \in DOMAIN test.traces[n] :
    test.package = "mm" /\ test.traces[n][j].type # "f" =>
      mem_max_addr + test.traces[n][j].size + ALIGNMENT <= Word

LEMMA Division ==
  ASSUME NEW a \in Nat, NEW n \in Nat \ {0}
  PROVE  a = n * (a \div n) + (a % n) /\ a % n \in 0..n-1 /\ a \div n \in Nat
OBVIOUS

LEMMA MultipleMod ==
  ASSUME NEW n \in Nat \ {0}, NEW m \in Nat
  PROVE  (n * m) % n = 0
<1> DEFINE a == n * m
           q == a \div n
           r == a % n
<1>1. a \in Nat
  OBVIOUS
<1> HIDE DEF a
<1>2. a = n * q + r /\ r \in 0..n-1 /\ q \in Nat
  BY <1>1, Division
<1> HIDE DEF q, r
<1>3. n * (m - q) = r
  BY <1>2 DEF a
<1>4. CASE m - q >= 1
  <2>1. n * (m - q) >= n
    BY <1>2, <1>4
  <2> QED
    BY <1>2, <1>3, <2>1
<1>5. CASE m - q <= -1
  <2>1. n * (m - q) <= -n
    BY <1>2, <1>5
  <2> QED
    BY <1>2, <1>3, <2>1
<1>6. CASE m - q = 0
  <2>1. n * (m - q) = 0
    BY <1>6
  <2> QED
    BY <1>3, <2>1 DEF r, a
<1> QED
  BY <1>2, <1>4, <1>5, <1>6

\* Multiples of the alignment.
LEMMA MultipleOf ==
  ASSUME NEW n \in Nat \ {0}, NEW a \in Nat
  PROVE  a % n = 0 <=> \E m \in Nat : a = n * m
<1>1. a % n = 0 => a = n * (a \div n) /\ a \div n \in Nat
  BY Division
<1>2. \A m \in Nat : (n * m) % n = 0
  BY MultipleMod
<1> QED
  BY <1>1, <1>2

LEMMA MultipleSum ==
  ASSUME NEW n \in Nat \ {0}, NEW a \in Nat, NEW b \in Nat, a % n = 0, b % n = 0
  PROVE  (a + b) % n = 0
<1>1. PICK m \in Nat : a = n * m
  BY MultipleOf
<1>2. PICK k \in Nat : b = n * k
  BY MultipleOf
<1>3. a + b = n * (m + k) /\ m + k \in Nat
  BY <1>1, <1>2
<1> QED
  BY <1>3, MultipleMod

LEMMA AlignmentFits == ALIGNMENT \in 1..HeapLo
<1>1. ALIGNMENT \in Nat \ {0} /\ HeapLo \in Nat \ {0} /\ HeapLo % ALIGNMENT = 0
  BY MemLibAssumption
<1>2. PICK m \in Nat : HeapLo = ALIGNMENT * m
  BY <1>1, MultipleOf
<1>3. m >= 1
  BY <1>1, <1>2
<1>4. ALIGNMENT * m >= ALIGNMENT
  BY <1>1, <1>3
<1> QED
  BY <1>1, <1>2, <1>4

\* What a size is rounded to, where nothing wraps.
LEMMA RoundedUp ==
  ASSUME NEW size \in Nat, size + ALIGNMENT <= Word
  PROVE  /\ Rounded(size) \in size..(size + ALIGNMENT - 1)
         /\ Rounded(size) % ALIGNMENT = 0
<1> DEFINE a == size + ALIGNMENT - 1
           q == a \div ALIGNMENT
<1>1. ALIGNMENT \in Nat \ {0} /\ Word \in Nat \ {0}
  BY MemLibAssumption
<1>2. a \in 0..(Word - 1)
  BY <1>1
<1>3. Rounded(size) = ((a % Word) \div ALIGNMENT) * ALIGNMENT
  BY DEF Rounded
<1> HIDE DEF a
<1>4. a % Word = a
  BY <1>1, <1>2, ModSmall
<1>5. Rounded(size) = q * ALIGNMENT
  BY <1>3, <1>4
<1>6. a \in Nat
  BY <1>1, <1>2
<1>7. a = ALIGNMENT * q + (a % ALIGNMENT) /\ a % ALIGNMENT \in 0..ALIGNMENT-1 /\ q \in Nat
  BY <1>1, <1>6, Division
<1> HIDE DEF q
<1>8. q * ALIGNMENT = ALIGNMENT * q /\ ALIGNMENT * q \in Nat
  BY <1>1, <1>7
<1>9. (ALIGNMENT * q) % ALIGNMENT = 0
  BY <1>1, <1>7, MultipleMod
<1>10. ALIGNMENT * q \in size..(size + ALIGNMENT - 1)
  <2> DEFINE m == ALIGNMENT * q
             r == a % ALIGNMENT
  <2>1. m \in Nat /\ r \in 0..ALIGNMENT-1 /\ a = m + r
    BY <1>7, <1>8
  <2> HIDE DEF m, r
  <2>2. m \in size..(size + ALIGNMENT - 1)
    BY <1>1, <2>1 DEF a
  <2> QED
    BY <2>2 DEF m
<1> QED
  BY <1>5, <1>8, <1>9, <1>10

\* What is a multiple of the alignment stays as it is.
LEMMA RoundedAgain ==
  ASSUME NEW size \in Nat, size + ALIGNMENT <= Word, size % ALIGNMENT = 0
  PROVE  Rounded(size) = size
<1>1. ALIGNMENT \in Nat \ {0}
  BY MemLibAssumption
<1>2. PICK m \in Nat : size = ALIGNMENT * m
  BY <1>1, MultipleOf
<1>3. Rounded(size) \in size..(size + ALIGNMENT - 1) /\ Rounded(size) % ALIGNMENT = 0
  BY RoundedUp
<1>4. PICK k \in Nat : Rounded(size) = ALIGNMENT * k
  BY <1>1, <1>3, RoundedNat, MultipleOf
<1>5. CASE k <= m
  <2>1. ALIGNMENT * k <= ALIGNMENT * m
    BY <1>1, <1>5
  <2> QED
    BY <1>2, <1>3, <1>4, <2>1
<1>6. CASE k >= m + 1
  <2>1. ALIGNMENT * k >= ALIGNMENT * m + ALIGNMENT
    BY <1>1, <1>6
  <2> QED
    BY <1>1, <1>2, <1>3, <1>4, <2>1
<1> QED
  BY <1>5, <1>6


\* Whether a request has room, and what it does if it has.
HasRoom(size) ==
  Rounded(size) < Word \div 2 /\ mem_brk + Rounded(size) <= mem_max_addr

Outcome(size, p) ==
  IF HasRoom(size) THEN p = mem_brk /\ mem_brk' = mem_brk + Rounded(size)
  ELSE p = Failure /\ mem_brk' = mem_brk

LEMMA SbrkOutcome ==
  ASSUME mem_brk \in HeapLo..mem_max_addr, NEW size \in Nat \ {0},
         mem_max_addr + size + ALIGNMENT <= Word,
         NEW p, mem_sbrk(ToInt(Rounded(size)), p)
  PROVE  Outcome(size, p)
<1> DEFINE r == Rounded(size)
<1>1. /\ Word \in Nat \ {0} /\ mem_max_addr \in Nat /\ HeapLo \in Nat \ {0}
      /\ ALIGNMENT \in Nat \ {0} /\ Word \div 2 \in Nat
  BY MemLibAssumption DEF mem_max_addr
<1>2. r \in size..(size + ALIGNMENT - 1)
  <2>1. size + ALIGNMENT <= Word
    BY <1>1
  <2> QED
    BY <2>1, RoundedUp
<1>3. mem_sbrk(ToInt(r), p)
  OBVIOUS
<1> HIDE DEF r
<1>4. r \in 1..(Word - 1) /\ mem_brk + r \in 0..(Word - 1)
  BY <1>1, <1>2
<1>5. (mem_brk + r) % Word = mem_brk + r
  BY <1>1, <1>4, ModSmall
<1>6. CASE r >= Word \div 2
  <2>1. ToInt(r) < 0
    BY <1>1, <1>4, <1>6 DEF ToInt
  <2> QED
    BY <1>1, <1>3, <1>4, <1>6, <2>1 DEF mem_sbrk, Outcome, HasRoom, r
<1>7. CASE r < Word \div 2
  <2>1. ToInt(r) = r /\ ~(r < 0)
    BY <1>1, <1>4, <1>7 DEF ToInt
  <2>2. IF mem_brk + r > mem_max_addr THEN p = Failure /\ mem_brk' = mem_brk
        ELSE p = mem_brk /\ mem_brk' = mem_brk + r
    BY <1>3, <1>5, <2>1 DEF mem_sbrk
  <2>3. HasRoom(size) <=> ~(mem_brk + r > mem_max_addr)
    BY <1>1, <1>4, <1>7 DEF HasRoom, r
  <2> QED
    BY <2>2, <2>3 DEF Outcome, r
<1> QED
  BY <1>1, <1>4, <1>6, <1>7

\* mm_malloc, and mm_realloc of any block or none, move the break alike.
LEMMA MmOutcome ==
  ASSUME mem_brk \in HeapLo..mem_max_addr, NEW size \in Nat \ {0},
         mem_max_addr + size + ALIGNMENT <= Word,
         NEW ptr, NEW p, mm_malloc(size, p) \/ mm_realloc(ptr, size, p)
  PROVE  Outcome(size, p)
<1>1. CASE mm_malloc(size, p)
  BY <1>1, SbrkOutcome DEF mm_malloc
<1>2. CASE mm_realloc(ptr, size, p)
  <2> DEFINE r == Rounded(size)
  <2>1. /\ Word \in Nat \ {0} /\ mem_max_addr \in Nat /\ HeapLo \in Nat \ {0}
        /\ ALIGNMENT \in 1..HeapLo /\ HeapLo <= mem_max_addr
    BY MemLibAssumption, AlignmentFits DEF mem_max_addr
  <2>2. r \in size..(size + ALIGNMENT - 1) /\ r % ALIGNMENT = 0
    <3>1. size + ALIGNMENT <= Word
      BY <2>1
    <3> QED
      BY <3>1, RoundedUp
  <2> HIDE DEF r
  <2>3. r \in Nat \ {0} /\ r + ALIGNMENT <= Word
    BY <2>1, <2>2
  <2>4. Rounded(r) = r
    BY <2>2, <2>3, RoundedAgain
  <2>5. mem_sbrk(ToInt(r), p)
    BY <1>2, <2>3, <2>4 DEF mm_realloc, mm_malloc, r
  <2> QED
    BY <2>5, SbrkOutcome DEF r
<1> QED
  BY <1>1, <1>2


\* Where the break is before each of the first n requests of a trace, and after
\* them: all had room.
Course(trace, h, n) ==
  /\ h \in [1..(n + 1) -> HeapLo..mem_max_addr]
  /\ h[1] = HeapLo
  /\ \A j \in 1..n :
       IF trace[j].type = "f" THEN h[j + 1] = h[j]
       ELSE /\ Rounded(trace[j].size) < Word \div 2
            /\ h[j + 1] = h[j] + Rounded(trace[j].size)

\* Blocks that are aligned, in the heap below brk, and disjoint.
Tidy(H, brk) ==
  /\ \A b \in H : /\ b.lo \in HeapLo..brk /\ b.lo % ALIGNMENT = 0
                  /\ b.size \in Nat \ {0} /\ b.lo + b.size <= brk
  /\ \A b, c \in H : b # c => b.lo + b.size <= c.lo \/ c.lo + c.size <= b.lo

\* The inductive form of MmBlocksDisjoint: the later runs of a trace go as the
\* first did, in which every answer was looked at.
MmInv ==
  package = "mm" =>
    /\ phase = "valid" =>
         \E h : /\ Course(Trace, h, i - 1)
                /\ i <= Len(Trace) + 1 /\ mem_brk = h[i]
    /\ phase \in {"util", "speed"} =>
         \E h : /\ Course(Trace, h, Len(Trace))
                /\ i <= Len(Trace) + 1 /\ mem_brk = h[i]
    /\ phase \in {"valid", "util", "speed"} => mem_brk % ALIGNMENT = 0 /\ Tidy(held, mem_brk)

\* A block from the break upward.
LEMMA TidyAdd ==
  ASSUME NEW H, NEW brk \in HeapLo..mem_max_addr, Tidy(H, brk), brk % ALIGNMENT = 0,
         NEW G \in SUBSET H, NEW size \in Nat \ {0}, NEW r \in Nat, size <= r
  PROVE  Tidy(G \cup {[lo |-> brk, size |-> size]}, brk + r)
<1> DEFINE new == [lo |-> brk, size |-> size]
<1>1. HeapLo \in Nat /\ mem_max_addr \in Nat
  BY MemLibAssumption DEF mem_max_addr
<1>2. new.lo = brk /\ new.size = size
  OBVIOUS
<1> HIDE DEF new
<1>3. \A b \in G : /\ b.lo \in HeapLo..brk /\ b.lo % ALIGNMENT = 0
                   /\ b.size \in Nat \ {0} /\ b.lo + b.size <= brk
  BY DEF Tidy
<1>4. \A b \in G \cup {new} :
        /\ b.lo \in HeapLo..(brk + r) /\ b.lo % ALIGNMENT = 0
        /\ b.size \in Nat \ {0} /\ b.lo + b.size <= brk + r
  <2>1. ASSUME NEW b \in G
        PROVE  /\ b.lo \in HeapLo..(brk + r) /\ b.lo % ALIGNMENT = 0
               /\ b.size \in Nat \ {0} /\ b.lo + b.size <= brk + r
    BY <1>1, <1>3
  <2>2. /\ new.lo \in HeapLo..(brk + r) /\ new.lo % ALIGNMENT = 0
        /\ new.size \in Nat \ {0} /\ new.lo + new.size <= brk + r
    BY <1>1, <1>2
  <2> QED
    BY <2>1, <2>2
<1>5. \A b, c \in G \cup {new} :
        b # c => b.lo + b.size <= c.lo \/ c.lo + c.size <= b.lo
  BY <1>2, <1>3 DEF Tidy
<1> QED
  BY <1>4, <1>5 DEF Tidy, new

LEMMA TidySubset ==
  ASSUME NEW H, NEW brk, Tidy(H, brk), NEW G \in SUBSET H
  PROVE  Tidy(G, brk)
BY DEF Tidy

\* A course goes on by a request that has room, and by one that is a free.
LEMMA CourseOn ==
  ASSUME NEW trace, NEW n \in Nat, NEW h, Course(trace, h, n),
         NEW brk \in HeapLo..mem_max_addr,
         IF trace[n + 1].type = "f" THEN brk = h[n + 1]
         ELSE /\ Rounded(trace[n + 1].size) < Word \div 2
              /\ brk = h[n + 1] + Rounded(trace[n + 1].size)
  PROVE  \E g : Course(trace, g, n + 1) /\ g[n + 2] = brk
<1> DEFINE g == [j \in 1..(n + 2) |-> IF j = n + 2 THEN brk ELSE h[j]]
<1>1. /\ h \in [1..(n + 1) -> HeapLo..mem_max_addr] /\ h[1] = HeapLo
      /\ \A j \in 1..n :
           IF trace[j].type = "f" THEN h[j + 1] = h[j]
           ELSE /\ Rounded(trace[j].size) < Word \div 2
                /\ h[j + 1] = h[j] + Rounded(trace[j].size)
  BY DEF Course
<1>2. /\ g[n + 2] = brk
      /\ \A j \in 1..(n + 1) : g[j] = h[j]
      /\ g \in [1..(n + 2) -> HeapLo..mem_max_addr]
  BY <1>1
<1> HIDE DEF g
<1>3. \A j \in 1..(n + 1) :
        IF trace[j].type = "f" THEN g[j + 1] = g[j]
        ELSE /\ Rounded(trace[j].size) < Word \div 2
             /\ g[j + 1] = g[j] + Rounded(trace[j].size)
  <2> SUFFICES ASSUME NEW j \in 1..(n + 1)
               PROVE  IF trace[j].type = "f" THEN g[j + 1] = g[j]
                      ELSE /\ Rounded(trace[j].size) < Word \div 2
                           /\ g[j + 1] = g[j] + Rounded(trace[j].size)
    OBVIOUS
  <2>1. CASE j = n + 1
    BY <1>2, <2>1
  <2>2. CASE j # n + 1
    <3>1. j \in 1..n /\ j \in 1..(n + 1) /\ j + 1 \in 1..(n + 1)
      BY <2>2
    <3> QED
      BY <1>1, <1>2, <3>1
  <2> QED
    BY <2>1, <2>2
<1>4. (n + 1) + 1 = n + 2 /\ 1 \in 1..(n + 1)
  OBVIOUS
<1> QED
  BY <1>1, <1>2, <1>3, <1>4 DEF Course

\* A request of a trace for mm.c.
LEMMA MmRequest ==
  ASSUME OnTrace, Unwrapped, package = "mm", NEW ph, NEW type \in {"a", "r"}, At(ph, type)
  PROVE  /\ Trace[i].size \in Nat \ {0}
         /\ mem_max_addr + Trace[i].size + ALIGNMENT <= Word
<1>1. /\ i \in DOMAIN Trace /\ Trace[i].type # "f" /\ Trace[i].size \in 1..(Word \div 2 - 1)
      /\ Trace[i].size \in Nat
  BY NextRequest
<1>2. Trace[i].size \in Nat \ {0}
  <2> DEFINE half == Word \div 2 - 1
  <2>1. Trace[i].size \in 1..half
    BY <1>1
  <2> HIDE DEF half
  <2> QED
    BY <1>1, <2>1
<1>3. PICK test \in Tests : package = test.package /\ traces = test.traces
  BY DEF OnTrace
<1>4. tracenum \in DOMAIN test.traces /\ i \in DOMAIN test.traces[tracenum]
  BY <1>1, <1>3, TraceTyped DEF Trace
<1> QED
  BY <1>1, <1>2, <1>3, <1>4 DEF Unwrapped, Trace


\* The pointer -1 is found out.
LEMMA FailureFound ==
  ASSUME mem_brk' \in HeapLo..mem_max_addr, NEW list, NEW size
  PROVE  Fault(list, Failure, size) # "none"
<1>1. /\ HeapLo \in Nat \ {0} /\ mem_max_addr \in Nat /\ mem_max_addr < Word
      /\ Word \in Nat \ {0}
  BY MemLibAssumption DEF mem_max_addr
<1>2. ASSUME NEW brk \in HeapLo..mem_max_addr
      PROVE  Failure \notin HeapLo..HeapHi(brk)
  <2>1. brk - 1 \in 0..(Word - 1) /\ brk - 1 < Word - 1
    BY <1>1
  <2>2. HeapHi(brk) = brk - 1
    BY <1>1, <2>1, ModSmall DEF HeapHi
  <2> QED
    BY <1>1, <2>1, <2>2 DEF Failure
<1>3. Failure \notin HeapLo..HeapHi(mem_brk')
  BY <1>2
<1> QED
  BY <1>3 DEF Fault

\* The state between two requests that all had room.
LEMMA MmState ==
  ASSUME OnTrace, MmInv, package = "mm", phase \in {"valid", "util", "speed"}
  PROVE  /\ mem_brk \in HeapLo..mem_max_addr /\ mem_brk % ALIGNMENT = 0
         /\ Tidy(held, mem_brk)
         /\ i \in 1..(Len(Trace) + 1)
<1>1. Len(Trace) \in Nat /\ i \in Nat \ {0}
  BY TraceTyped DEF OnTrace
<1>2. \E h : /\ mem_brk = h[i] /\ i <= Len(Trace) + 1
             /\ Course(Trace, h, i - 1) \/ Course(Trace, h, Len(Trace))
  BY DEF MmInv
<1>3. mem_brk \in HeapLo..mem_max_addr
  BY <1>1, <1>2 DEF Course
<1> QED
  BY <1>1, <1>2, <1>3 DEF MmInv

\* The break and the blocks after a request that had room.
LEMMA MmMoved ==
  ASSUME OnTrace, Unwrapped, MmInv, package = "mm",
         NEW ph \in {"valid", "util", "speed"}, NEW type \in {"a", "r"}, At(ph, type),
         mem_brk' = mem_brk + Rounded(Trace[i].size),
         NEW G \in SUBSET held, held' = G \cup {[lo |-> mem_brk, size |-> Trace[i].size]}
  PROVE  mem_brk' % ALIGNMENT = 0 /\ Tidy(held', mem_brk')
<1>1. /\ mem_brk \in HeapLo..mem_max_addr /\ mem_brk % ALIGNMENT = 0
      /\ Tidy(held, mem_brk)
  BY MmState DEF At
<1>2. Trace[i].size \in Nat \ {0} /\ Trace[i].size + ALIGNMENT <= Word
  <2>1. mem_max_addr \in Nat /\ Word \in Nat /\ ALIGNMENT \in Nat
    BY MemLibAssumption DEF mem_max_addr
  <2> QED
    BY <2>1, MmRequest
<1> DEFINE r == Rounded(Trace[i].size)
<1>3. r \in Nat /\ Trace[i].size <= r /\ r % ALIGNMENT = 0
  BY <1>2, RoundedUp, RoundedNat
<1>4. HeapLo \in Nat /\ ALIGNMENT \in Nat \ {0} /\ mem_brk' = mem_brk + r
  BY MemLibAssumption
<1> HIDE DEF r
<1>5. mem_brk' % ALIGNMENT = 0
  BY <1>1, <1>3, <1>4, MultipleSum
<1> QED
  <2>1. Tidy(G \cup {[lo |-> mem_brk, size |-> Trace[i].size]}, mem_brk + r)
    BY <1>1, <1>2, <1>3, TidyAdd
  <2> QED
    BY <1>4, <1>5, <2>1

\* A request of eval_mm_valid that no fault is found with.
LEMMA MmAsk ==
  ASSUME OnTrace, Unwrapped, MmInv, package = "mm", UNCHANGED <<setup, tracenum>>,
         NEW type \in {"a", "r"}, At("valid", type), i' = i + 1, phase' = "valid",
         NEW ptr, NEW p, mm_malloc(Trace[i].size, p) \/ mm_realloc(ptr, Trace[i].size, p),
         NEW list, Fault(list, p, Trace[i].size) = "none",
         NEW G \in SUBSET held, held' = G \cup {[lo |-> p, size |-> Trace[i].size]}
  PROVE  MmInv'
<1> DEFINE size == Trace[i].size
           n == i - 1
<1>1. /\ mem_brk \in HeapLo..mem_max_addr /\ phase = "valid"
      /\ i \in DOMAIN Trace /\ Trace[i].type # "f" /\ size \in Nat \ {0}
      /\ mem_max_addr + size + ALIGNMENT <= Word
  BY MmState, MmRequest, NextRequest DEF At
<1>2. Outcome(size, p)
  BY <1>1, MmOutcome
<1>3. HasRoom(size) /\ p = mem_brk /\ mem_brk' = mem_brk + Rounded(size)
  BY <1>1, <1>2, FailureFound DEF Outcome
<1>4. mem_brk' % ALIGNMENT = 0 /\ Tidy(held', mem_brk')
  BY <1>3, MmMoved
<1>5. PICK h : Course(Trace, h, n) /\ mem_brk = h[i]
  BY <1>1 DEF MmInv
<1>6. n \in Nat /\ n + 1 = i /\ n + 2 = i + 1 /\ i + 1 <= Len(Trace) + 1
  BY <1>1, TraceTyped
<1>7. mem_brk' \in HeapLo..mem_max_addr
  <2>1. mem_max_addr \in Nat /\ HeapLo \in Nat /\ Rounded(size) \in Nat
    BY <1>1, MemLibAssumption, RoundedNat DEF mem_max_addr
  <2> QED
    BY <1>1, <1>3, <2>1 DEF HasRoom
<1> HIDE DEF n
<1>8. IF Trace[n + 1].type = "f" THEN mem_brk' = h[n + 1]
      ELSE /\ Rounded(Trace[n + 1].size) < Word \div 2
           /\ mem_brk' = h[n + 1] + Rounded(Trace[n + 1].size)
  BY <1>1, <1>3, <1>5, <1>6 DEF HasRoom
<1>9. PICK g : Course(Trace, g, n + 1) /\ g[n + 2] = mem_brk'
  BY <1>5, <1>6, <1>7, <1>8, CourseOn
<1>10. Course(Trace', g, i' - 1) /\ i' <= Len(Trace') + 1 /\ mem_brk' = g[i']
  BY <1>6, <1>9, SameTrace, i' - 1 = i
<1>11. package' = package
  BY DEF setup
<1> QED
  BY <1>4, <1>10, <1>11 DEF MmInv

\* In a later run of the trace there is room where there was in the first.
LEMMA RoomAgain ==
  ASSUME OnTrace, MmInv, package = "mm", NEW ph \in {"util", "speed"},
         NEW type \in {"a", "r"}, At(ph, type)
  PROVE  HasRoom(Trace[i].size)
<1> DEFINE size == Trace[i].size
<1>1. phase = ph /\ i \in DOMAIN Trace /\ Trace[i].type # "f"
  BY NextRequest
<1>2. PICK h : Course(Trace, h, Len(Trace)) /\ mem_brk = h[i]
  BY <1>1 DEF MmInv
<1>3. i \in 1..Len(Trace) /\ Len(Trace) \in Nat
  BY <1>1, TraceTyped
<1>4. /\ Rounded(size) < Word \div 2 /\ h[i + 1] = h[i] + Rounded(size)
      /\ h[i + 1] \in HeapLo..mem_max_addr
  BY <1>1, <1>2, <1>3 DEF Course
<1>5. mem_max_addr \in Nat /\ HeapLo \in Nat
  BY MemLibAssumption DEF mem_max_addr
<1> QED
  BY <1>2, <1>4, <1>5 DEF HasRoom

\* The same request in a later run of the trace.
LEMMA MmAskAgain ==
  ASSUME OnTrace, Unwrapped, MmInv, package = "mm", UNCHANGED <<setup, tracenum>>,
         NEW ph \in {"util", "speed"},
         NEW type \in {"a", "r"}, At(ph, type), i' = i + 1, phase' = ph,
         NEW ptr, NEW p, mm_malloc(Trace[i].size, p) \/ mm_realloc(ptr, Trace[i].size, p),
         NEW G \in SUBSET held, held' = G \cup {[lo |-> p, size |-> Trace[i].size]}
  PROVE  MmInv'
<1> DEFINE size == Trace[i].size
<1>1. /\ mem_brk \in HeapLo..mem_max_addr /\ phase = ph
      /\ i \in DOMAIN Trace /\ Trace[i].type # "f" /\ size \in Nat \ {0}
      /\ mem_max_addr + size + ALIGNMENT <= Word
  BY MmState, MmRequest, NextRequest DEF At
<1>2. Outcome(size, p)
  BY <1>1, MmOutcome
<1>3. PICK h : Course(Trace, h, Len(Trace)) /\ mem_brk = h[i]
  BY <1>1 DEF MmInv
<1>4. i \in 1..Len(Trace) /\ Len(Trace) \in Nat
  BY <1>1, TraceTyped
<1>5. /\ Rounded(size) < Word \div 2 /\ h[i + 1] = h[i] + Rounded(size)
  BY <1>1, <1>3, <1>4 DEF Course
<1>6. HasRoom(size)
  BY RoomAgain
<1>7. p = mem_brk /\ mem_brk' = mem_brk + Rounded(size)
  BY <1>2, <1>6 DEF Outcome
<1>8. mem_brk' % ALIGNMENT = 0 /\ Tidy(held', mem_brk')
  BY <1>7, MmMoved
<1>9. Course(Trace', h, Len(Trace')) /\ i' <= Len(Trace') + 1 /\ mem_brk' = h[i']
  BY <1>3, <1>4, <1>5, <1>7, SameTrace
<1>10. package' = package
  BY DEF setup
<1> QED
  BY <1>8, <1>9, <1>10 DEF MmInv

\* A free moves nothing.
LEMMA MmFreeStep ==
  ASSUME OnTrace, MmInv, package = "mm", UNCHANGED <<setup, tracenum>>,
         NEW ph \in {"valid", "util", "speed"}, At(ph, "f"), i' = i + 1, phase' = ph,
         mem_brk' = mem_brk, held' \subseteq held
  PROVE  MmInv'
<1>1. /\ mem_brk \in HeapLo..mem_max_addr /\ mem_brk % ALIGNMENT = 0
      /\ Tidy(held, mem_brk) /\ phase = ph
  BY MmState DEF At
<1>2. mem_brk' % ALIGNMENT = 0 /\ Tidy(held', mem_brk')
  BY <1>1, TidySubset
<1>3. i \in 1..Len(Trace) /\ Len(Trace) \in Nat /\ Trace[i].type = "f"
  BY NextRequest, TraceTyped
<1>4. package' = package
  BY DEF setup
<1>5. CASE ph = "valid"
  <2> DEFINE n == i - 1
  <2>1. PICK h : Course(Trace, h, n) /\ mem_brk = h[i]
    BY <1>1, <1>5 DEF MmInv
  <2>2. n \in Nat /\ n + 1 = i /\ n + 2 = i + 1
    BY <1>3
  <2> HIDE DEF n
  <2>3. PICK g : Course(Trace, g, n + 1) /\ g[n + 2] = mem_brk'
    BY <1>1, <1>3, <2>1, <2>2, CourseOn
  <2>4. Course(Trace', g, i' - 1) /\ i' <= Len(Trace') + 1 /\ mem_brk' = g[i']
    BY <1>3, <2>2, <2>3, SameTrace, i' - 1 = i
  <2> QED
    BY <1>2, <1>4, <1>5, <2>4 DEF MmInv
<1>6. CASE ph # "valid"
  <2>1. PICK h : Course(Trace, h, Len(Trace)) /\ mem_brk = h[i]
    BY <1>1, <1>6 DEF MmInv
  <2>2. h[i + 1] = h[i]
    BY <1>3, <2>1 DEF Course
  <2>3. Course(Trace', h, Len(Trace')) /\ i' <= Len(Trace') + 1 /\ mem_brk' = h[i']
    BY <1>3, <2>1, <2>2, SameTrace
  <2> QED
    BY <1>2, <1>4, <1>6, <2>3 DEF MmInv
<1> QED
  BY <1>5, <1>6


LEMMA MmAlloc ==
  ASSUME OnTrace, Unwrapped, MmInv, ValidAlloc \/ UtilAlloc \/ SpeedAlloc
  PROVE  MmInv'
<1> SUFFICES ASSUME package = "mm", phase' \in {"valid", "util", "speed"}
             PROVE  MmInv'
  BY DEF MmInv, ValidAlloc, UtilAlloc, SpeedAlloc, SpeedRequest, setup
<1> DEFINE size == Trace[i].size
           Given(p) == held' = held \cup {[lo |-> p, size |-> size]}
<1>1. CASE ValidAlloc
  <2>1. At("valid", "a") /\ UNCHANGED <<setup, tracenum>>
    BY <1>1 DEF ValidAlloc
  <2>2. PICK p \in Addresses : /\ Malloc(size, p) /\ Given(p)
                               /\ Fault(ranges, p, size) = "none" /\ Proceed
    BY <1>1 DEF ValidAlloc, Reject, Holds
  <2>3. mm_malloc(size, p) /\ i' = i + 1 /\ phase' = "valid"
    BY <2>1, <2>2 DEF Malloc, Allocate, Proceed, At
  <2> QED
    BY <2>1, <2>2, <2>3, MmAsk
<1>2. CASE UtilAlloc
  <2>1. At("util", "a") /\ UNCHANGED <<setup, tracenum>>
    BY <1>2 DEF UtilAlloc
  <2>2. PICK p \in Addresses : Malloc(size, p) /\ Given(p) /\ UtilRequest(p, size)
    BY <1>2 DEF UtilAlloc, Holds
  <2>3. mm_malloc(size, p) /\ i' = i + 1 /\ phase' = "util"
    BY <2>1, <2>2 DEF Malloc, Allocate, UtilRequest, GivesUp, At
  <2> QED
    BY <2>1, <2>2, <2>3, MmAskAgain
<1>3. CASE SpeedAlloc
  <2>1. At("speed", "a") /\ UNCHANGED <<setup, tracenum>>
    BY <1>3 DEF SpeedAlloc, SpeedRequest
  <2>2. PICK p \in Addresses : Malloc(size, p) /\ Given(p) /\ SpeedRequest(p)
    BY <1>3 DEF SpeedAlloc, Holds
  <2>3. mm_malloc(size, p) /\ i' = i + 1 /\ phase' = "speed"
    BY <2>1, <2>2 DEF Malloc, Allocate, SpeedRequest, At
  <2> QED
    BY <2>1, <2>2, <2>3, MmAskAgain
<1> QED
  BY <1>1, <1>2, <1>3

LEMMA MmRealloc ==
  ASSUME OnTrace, Unwrapped, MmInv, ValidRealloc \/ UtilRealloc \/ SpeedRealloc
  PROVE  MmInv'
<1>0. UNCHANGED <<setup, tracenum>>
  BY DEF ValidRealloc, UtilRealloc, SpeedRealloc, SpeedRequest
<1> SUFFICES ASSUME package = "mm", phase' \in {"valid", "util", "speed"}
             PROVE  MmInv'
  BY <1>0 DEF MmInv, setup
<1> DEFINE size == Trace[i].size
           k == Trace[i].index
           Others(lo) == {b \in held : b.lo # lo}
           Given(lo, p) == held' = Others(lo) \cup {[lo |-> p, size |-> size]}
<1>1. \A lo : Others(lo) \in SUBSET held
  OBVIOUS
<1> HIDE DEF Others
<1>2. CASE ValidRealloc
  <2>1. At("valid", "r")
    BY <1>2 DEF ValidRealloc
  <2>2. PICK p, mem :
          /\ p \in Addresses
          /\ Realloc(blocks[k], block_sizes[k], size, p, mem) /\ Given(blocks[k], p)
          /\ Fault(Without(ranges, blocks[k]), p, size) = "none" /\ Proceed
    BY <1>2 DEF ValidRealloc, Reject, Holds, Others
  <2>3. mm_realloc(blocks[k], size, p) /\ i' = i + 1 /\ phase' = "valid"
    BY <2>1, <2>2 DEF Realloc, Allocate, Proceed, At
  <2> QED
    BY <1>0, <1>1, <2>1, <2>2, <2>3, MmAsk
<1>3. CASE UtilRealloc
  <2>1. At("util", "r")
    BY <1>3 DEF UtilRealloc
  <2>2. PICK p, mem :
          /\ p \in Addresses
          /\ Realloc(blocks[k], block_sizes[k], size, p, mem) /\ Given(blocks[k], p)
          /\ UtilRequest(p, size - block_sizes[k])
    BY <1>3 DEF UtilRealloc, Holds, Others
  <2>3. mm_realloc(blocks[k], size, p) /\ i' = i + 1 /\ phase' = "util"
    BY <2>1, <2>2 DEF Realloc, Allocate, UtilRequest, GivesUp, At
  <2> QED
    BY <1>0, <1>1, <2>1, <2>2, <2>3, MmAskAgain
<1>4. CASE SpeedRealloc
  <2>1. At("speed", "r")
    BY <1>4 DEF SpeedRealloc
  <2>2. PICK p, mine, mem :
          /\ p \in Addresses /\ mine \in held
          /\ Realloc(mine.lo, mine.size, size, p, mem) /\ Given(mine.lo, p)
          /\ SpeedRequest(p)
    BY <1>4 DEF SpeedRealloc, Holds, Others
  <2>3. mm_realloc(mine.lo, size, p) /\ i' = i + 1 /\ phase' = "speed"
    BY <2>1, <2>2 DEF Realloc, Allocate, SpeedRequest, At
  <2> QED
    BY <1>0, <1>1, <2>1, <2>2, <2>3, MmAskAgain
<1> QED
  BY <1>2, <1>3, <1>4

\* A run begins on the empty heap.
LEMMA MmStart ==
  ASSUME OnTrace, MmInv, StartValid \/ StartUtil \/ StartSpeed
  PROVE  MmInv'
<1>1. /\ UNCHANGED <<setup, tracenum>> /\ i' = 1 /\ mem_brk' = HeapLo /\ held' = {}
      /\ phase' \in {"valid", "util", "speed"}
  BY DEF StartValid, StartUtil, StartSpeed, mem_reset_brk
<1>2. package' = package /\ Trace' = Trace /\ Len(Trace) \in Nat
  BY <1>1, SameTrace, TraceTyped DEF setup
<1>3. mem_brk' % ALIGNMENT = 0 /\ Tidy(held', mem_brk')
  BY <1>1, MemLibAssumption DEF Tidy
<1>4. CASE StartValid
  <2> DEFINE h == [j \in 1..1 |-> HeapLo]
  <2>1. HeapLo \in HeapLo..mem_max_addr
    BY MemLibAssumption DEF mem_max_addr
  <2>2. Course(Trace', h, 0) /\ h[1] = HeapLo
    BY <2>1 DEF Course
  <2> HIDE DEF h
  <2>3. Course(Trace', h, i' - 1) /\ i' <= Len(Trace') + 1 /\ mem_brk' = h[i']
    BY <1>1, <1>2, <2>2
  <2> QED
    BY <1>3, <1>4, <2>3 DEF MmInv, StartValid
<1>5. CASE StartUtil \/ StartSpeed
  <2> SUFFICES ASSUME package = "mm"
               PROVE  MmInv'
    BY <1>2 DEF MmInv
  <2>1. phase' \in {"util", "speed"}
    BY <1>5 DEF StartUtil, StartSpeed
  <2>2. PICK h : Course(Trace, h, Len(Trace))
    <3>1. CASE phase = "valid"
      <4>1. i > Len(Trace)
        BY <1>5, <3>1 DEF StartUtil, StartSpeed
      <4>2. PICK h : Course(Trace, h, i - 1) /\ i <= Len(Trace) + 1
        BY <3>1 DEF MmInv
      <4>3. i - 1 = Len(Trace)
        BY <1>2, <4>1, <4>2 DEF OnTrace
      <4> QED
        BY <4>2, <4>3
    <3>2. CASE phase \in {"util", "speed"}
      BY <3>2 DEF MmInv
    <3> QED
      BY <1>5, <3>1, <3>2 DEF StartUtil, StartSpeed
  <2>3. h[1] = HeapLo
    BY <2>2 DEF Course
  <2>4. Course(Trace', h, Len(Trace')) /\ i' <= Len(Trace') + 1 /\ mem_brk' = h[i']
    BY <1>1, <1>2, <2>2, <2>3
  <2> QED
    BY <1>3, <2>1, <2>4 DEF MmInv
<1> QED
  BY <1>4, <1>5

LEMMA MmFree ==
  ASSUME OnTrace, MmInv, ValidFree \/ UtilFree \/ SpeedFree
  PROVE  MmInv'
<1>1. /\ UNCHANGED <<setup, tracenum>> /\ mem_brk' = mem_brk /\ held' \subseteq held
      /\ i' = i + 1
  BY DEF ValidFree, UtilFree, SpeedFree, Free, mm_free, Proceed
<1>2. PICK ph \in {"valid", "util", "speed"} : At(ph, "f") /\ phase' = ph
  BY DEF ValidFree, UtilFree, SpeedFree, Proceed, At
<1>3. CASE package = "mm"
  BY <1>1, <1>2, <1>3, MmFreeStep
<1>4. CASE package # "mm"
  BY <1>1, <1>4 DEF MmInv, setup
<1> QED
  BY <1>3, <1>4

LEMMA MmInvNext ==
  Unwrapped /\ OnTrace /\ MmInv /\ [Next]_vars => MmInv'
<1> SUFFICES ASSUME Unwrapped, OnTrace, MmInv, [Next]_vars
             PROVE  MmInv'
  OBVIOUS
<1>1. CASE ValidAlloc \/ UtilAlloc \/ SpeedAlloc
  BY <1>1, MmAlloc
<1>2. CASE ValidRealloc \/ UtilRealloc \/ SpeedRealloc
  BY <1>2, MmRealloc
<1>3. CASE ValidFree \/ UtilFree \/ SpeedFree
  BY <1>3, MmFree
<1>4. CASE StartValid \/ StartUtil \/ StartSpeed
  BY <1>4, MmStart
<1>5. CASE EndSpeed \/ NextTrace
  <2>1. phase' \in {"next", "read"}
    BY <1>5 DEF EndSpeed, NextTrace
  <2> QED
    BY <2>1 DEF MmInv
<1>6. CASE Exit \/ UNCHANGED vars
  <2>1. UNCHANGED <<mem_brk, setup, tracenum, i, phase, held>>
    BY <1>6 DEF Exit, vars
  <2>2. Trace' = Trace /\ package' = package
    BY <2>1, SameTrace DEF setup
  <2> QED
    BY <2>1, <2>2 DEF MmInv
<1>7. CASE InitFails
  BY <1>7 DEF InitFails, Reject, setup, MmInv
<1> QED
  BY <1>1, <1>2, <1>3, <1>4, <1>5, <1>6, <1>7 DEF Next

LEMMA MmInvAlways == Unwrapped => (Spec => [](OnTrace /\ MmInv))
<1> SUFFICES ASSUME Unwrapped
             PROVE  Spec => [](OnTrace /\ MmInv)
  OBVIOUS
<1>1. Init => OnTrace /\ MmInv
  BY OnTraceInit DEF Init, MmInv
<1>2. OnTrace /\ MmInv /\ [Next]_vars => OnTrace' /\ MmInv'
  BY OnTraceNext, MmInvNext
<1> QED
  BY <1>1, <1>2, PTL DEF Spec

\* The blocks mm.c gives out in the run of a trace are disjoint, aligned and
\* below the break, in the checked run and in all later ones, however long the
\* trace and whatever it frees and reallocates.
THEOREM MmBlocksDisjointHolds == Unwrapped => (Spec => []MmBlocksDisjoint)
<1> SUFFICES ASSUME Unwrapped
             PROVE  Spec => []MmBlocksDisjoint
  OBVIOUS
<1>1. OnTrace /\ MmInv => MmBlocksDisjoint
  <2> SUFFICES ASSUME OnTrace, MmInv, package = "mm", phase \in {"valid", "util", "speed"},
                      NEW b \in held
               PROVE  /\ b.lo % ALIGNMENT = 0
                      /\ Bytes(b.lo, b.size) \subseteq
                           Bytes(HeapLo, Smaller(mem_brk, mem_max_addr) - HeapLo)
                      /\ \A c \in held \ {b} : Bytes(b.lo, b.size) \cap Bytes(c.lo, c.size) = {}
    BY DEF MmBlocksDisjoint
  <2>1. mem_brk \in HeapLo..mem_max_addr /\ Tidy(held, mem_brk)
    BY MmState
  <2>2. HeapLo \in Nat /\ mem_max_addr \in Nat
    BY MemLibAssumption DEF mem_max_addr
  <2>3. /\ b.lo \in HeapLo..mem_brk /\ b.lo % ALIGNMENT = 0
        /\ b.size \in Nat /\ b.lo + b.size <= mem_brk
    BY <2>1 DEF Tidy
  <2>4. Smaller(mem_brk, mem_max_addr) = mem_brk
    BY <2>1, <2>2 DEF Smaller
  <2>5. Bytes(b.lo, b.size) \subseteq Bytes(HeapLo, mem_brk - HeapLo)
    BY <2>1, <2>2, <2>3 DEF Bytes
  <2>6. ASSUME NEW c \in held \ {b}
        PROVE  Bytes(b.lo, b.size) \cap Bytes(c.lo, c.size) = {}
    <3>1. /\ c.lo \in HeapLo..mem_brk /\ c.size \in Nat
          /\ b.lo + b.size <= c.lo \/ c.lo + c.size <= b.lo
      BY <2>1 DEF Tidy
    <3> QED
      BY <2>1, <2>2, <2>3, <3>1 DEF Bytes
  <2> QED
    BY <2>3, <2>4, <2>5, <2>6
<1> QED
  BY <1>1, MmInvAlways, PTL


=============================================================================
