------------------------------- MODULE Driver -------------------------------
(***************************************************************************)
(* mdriver.c: main goes through the trace files; eval_mm_valid runs each   *)
(* on a malloc package and checks what it answers; if it finds no fault    *)
(* eval_mm_util runs the trace again for the space it needs, and fsecs     *)
(* some more times eval_mm_speed for the time.  One step is one request of *)
(* a trace with all that the driver and the package do.                    *)
(*                                                                         *)
(* The package is mm.c, or one the driver is there to judge: a correct one *)
(* ("good") or one that may answer anything ("any").                       *)
(***************************************************************************)
EXTENDS Allocator, FiniteSets, SequencesExt

CONSTANTS
  Tests,      \* the pairs of a package and a list of trace files to run it on
  Answers,    \* bound: what a package that may answer anything does answer
  Increments, \* bound: by how much a package other than mm.c moves the break
  ByteSize,   \* 256: how many values a byte has
  Repeats     \* 10: how often fsecs has eval_mm_speed called

Request == [type : {"a", "r", "f"}, index : Nat, size : Nat]

ASSUME DriverAssumption ==
  /\ ByteSize \in Nat \ {0} /\ Repeats \in Nat \ {0}
  /\ Answers \subseteq 0..(Word - 1) /\ Increments \subseteq Nat
  /\ \A test \in Tests :
       /\ test.package \in {"mm", "good", "any"}
       /\ test.traces \in Seq(Seq(Request)) \ {<<>>}
       /\ \A n \in DOMAIN test.traces : \A j \in DOMAIN test.traces[n] :
            test.traces[n][j].type # "f" =>
              test.traces[n][j].size \in 1..(Word \div 2 - 1)

VARIABLES
  package,      \* the package under test
  traces,       \* the trace files
  tracenum, i,  \* the trace and the request that is next
  phase,        \* which function runs the trace
  ranges,       \* the range list, its head first
  blocks, block_sizes,        \* of the trace, by index
  memory,       \* the bytes of the heap
  total_size, max_total_size, \* of eval_mm_util
  calls,        \* of eval_mm_speed for the current trace
  errors,       \* malloc errors so far
  message,      \* the fault found in the current trace, or "none"
  held          \* the blocks the package has given out and not got back

listVars == <<ranges, blocks, block_sizes>>
utilVars == <<total_size, max_total_size>>
setup == <<package, traces>>
verdict == <<errors, message>>
vars == <<mem_brk, setup, tracenum, i, phase, listVars, memory, utilVars, calls,
          errors, message, held>>

Trace == traces[tracenum]
IdsOf(trace) == {trace[j].index : j \in DOMAIN trace}
Indices == IdsOf(Trace)

Bytes(lo, size) == lo..(lo + size - 1)

Smaller(a, b) == IF a < b THEN a ELSE b
Larger(a, b) == IF a > b THEN a ELSE b

-----------------------------------------------------------------------------
(* The package under test                                                  *)

\* A correct package: an aligned block in the heap, clear of those held.
Correct(size, others, p) ==
  /\ p % ALIGNMENT = 0
  /\ Bytes(p, size) \subseteq Bytes(HeapLo, mem_brk' - HeapLo)
  /\ \A b \in others : Bytes(b.lo, b.size) \cap Bytes(p, size) = {}

\* The package moves the break if it likes and answers p to a request for size
\* bytes, while it holds `others'.
Allocate(size, others, p) ==
  /\ package \in {"good", "any"}
  /\ \E incr \in Increments : \E lo \in {mem_brk, Failure} : mem_sbrk(incr, lo)
  /\ IF package = "good" THEN p = NULL \/ Correct(size, others, p) ELSE p \in Answers

Malloc(size, p) ==
  \/ package = "mm" /\ mm_malloc(size, p)
  \/ Allocate(size, held, p)

\* What memory is after the old bytes are copied to p.
Copied(oldp, oldsize, size, p) ==
  [a \in DOMAIN memory |->
     IF a \in Bytes(p, Smaller(oldsize, size)) /\ oldp + (a - p) \in DOMAIN memory
     THEN memory[oldp + (a - p)] ELSE memory[a]]

\* ... p, leaving the memory as `mem'.
Realloc(oldp, oldsize, size, p, mem) ==
  \/ package = "mm" /\ mm_realloc(oldp, size, p) /\ mem = memory
  \/ /\ Allocate(size, {b \in held : b.lo # oldp}, p)
     /\ \/ mem = Copied(oldp, oldsize, size, p)
        \/ package = "any" /\ mem = memory

-----------------------------------------------------------------------------
(* The range list                                                          *)

\* Mutation: only the low end of the new block is looked at.
OverlapsLow(r, lo, hi) == lo >= r.lo /\ lo <= r.hi

\* The overlap test of add_range.
Overlaps(r, lo, hi) ==
  \/ lo >= r.lo /\ lo <= r.hi
  \/ hi >= r.lo /\ hi <= r.hi

\* What add_range finds wrong with a block of size bytes at lo.
Fault(list, lo, size) ==
  LET hi == (lo + size - 1) % Word
      inHeap == HeapLo..HeapHi(mem_brk')
  IN  IF lo % ALIGNMENT # 0 THEN "not aligned"
      ELSE IF lo \notin inHeap \/ hi \notin inHeap THEN "outside heap"
      ELSE IF \E n \in DOMAIN list : Overlaps(list[n], lo, hi) THEN "overlaps"
      ELSE "none"

\* Mutation: no range is removed.
RangesKept(list, lo) == list

\* remove_range: the first range that starts at lo goes.
Without(list, lo) ==
  LET at == {n \in DOMAIN list : list[n].lo = lo}
      first == CHOOSE n \in at : \A m \in at : n <= m
  IN  IF at = {} THEN list
      ELSE SubSeq(list, 1, first - 1) \o SubSeq(list, first + 1, Len(list))

-----------------------------------------------------------------------------
(* eval_mm_valid                                                           *)

Init ==
  /\ MemInit
  /\ \E test \in Tests : package = test.package /\ traces = test.traces
  /\ tracenum = 1 /\ i = 1 /\ phase = "read"
  /\ ranges = <<>>
  /\ blocks = [k \in Indices |-> NULL] /\ block_sizes = [k \in Indices |-> 0]
  /\ memory = [a \in Bytes(HeapLo, MAX_HEAP) |-> 0]
  /\ total_size = 0 /\ max_total_size = 0 /\ calls = 0
  /\ errors = 0 /\ message = "none" /\ held = {}

\* The empty heap, the empty list, and mm_init.
StartValid ==
  /\ phase = "read"
  /\ phase' = "valid" /\ i' = 1
  /\ mem_reset_brk
  /\ ranges' = <<>> /\ held' = {}
  /\ UNCHANGED <<setup, tracenum, blocks, block_sizes, memory, utilVars, calls, verdict>>

\* The next request is of this type, and function ph runs the trace.
At(ph, type) == phase = ph /\ i <= Len(Trace) /\ Trace[i].type = type

\* malloc_error, and the trace is invalid.
Reject(fault) ==
  /\ errors' = errors + 1 /\ message' = fault /\ phase' = "next"
  /\ UNCHANGED i

Proceed == i' = i + 1 /\ UNCHANGED <<errors, message, phase>>

\* Mutation: the block is not filled.
RememberOnly(k, p, size, mem) ==
  /\ blocks' = [blocks EXCEPT ![k] = p]
  /\ block_sizes' = [block_sizes EXCEPT ![k] = size]
  /\ memory' = mem

\* The block is remembered and filled with the low byte of its index.
Remember(k, p, size, mem) ==
  /\ blocks' = [blocks EXCEPT ![k] = p]
  /\ block_sizes' = [block_sizes EXCEPT ![k] = size]
  /\ memory' = [a \in DOMAIN mem |-> IF a \in Bytes(p, size) THEN k % ByteSize ELSE mem[a]]

AddRange(list, p, size) ==
  ranges' = <<[lo |-> p, hi |-> (p + size - 1) % Word]>> \o list

Holds(others, p, size) == held' = others \cup {[lo |-> p, size |-> size]}

ValidAlloc ==
  /\ At("valid", "a")
  /\ \E p \in Addresses :
       LET k == Trace[i].index
           size == Trace[i].size
           fault == IF p = NULL THEN "failed" ELSE Fault(ranges, p, size)
       IN  /\ Malloc(size, p)
           /\ Holds(held, p, size)
           /\ IF fault = "none"
              THEN Proceed /\ AddRange(ranges, p, size) /\ Remember(k, p, size, memory)
              ELSE Reject(fault) /\ UNCHANGED <<listVars, memory>>
  /\ UNCHANGED <<setup, tracenum, utilVars, calls>>

\* The comparison newp[j] != (index & 0xFF) is one of a signed char.
AsChar(byte) == IF byte >= ByteSize \div 2 THEN byte - ByteSize ELSE byte

\* Mutation: the size is not the smaller one.
PreservedNew(mem, k, p, size) ==
  \A a \in Bytes(p, size) : AsChar(mem[a]) = k % ByteSize

\* The new block has the bytes of the old one.
Preserved(mem, k, p, size) ==
  \A a \in Bytes(p, Smaller(size, block_sizes[k])) : AsChar(mem[a]) = k % ByteSize

ValidRealloc ==
  /\ At("valid", "r")
  /\ \E p \in Addresses :
       LET k == Trace[i].index
           size == Trace[i].size
           oldp == blocks[k]
           rest == Without(ranges, oldp)
           fault == IF p = NULL THEN "failed" ELSE Fault(rest, p, size)
       IN  \E mem \in {memory, Copied(oldp, block_sizes[k], size, p)} :
             /\ Realloc(oldp, block_sizes[k], size, p, mem)
             /\ Holds({b \in held : b.lo # oldp}, p, size)
             /\ IF fault # "none"
                THEN /\ Reject(fault)
                     /\ ranges' = IF fault = "failed" THEN ranges ELSE rest
                     /\ memory' = mem
                     /\ UNCHANGED <<blocks, block_sizes>>
                ELSE /\ AddRange(rest, p, size)
                     /\ IF Preserved(mem, k, p, size)
                        THEN Proceed /\ Remember(k, p, size, mem)
                        ELSE /\ Reject("data lost")
                             /\ memory' = mem
                             /\ UNCHANGED <<blocks, block_sizes>>
  /\ UNCHANGED <<setup, tracenum, utilVars, calls>>

\* The package does nothing to the memory when a block is freed.
Free(p) == mm_free(p) /\ held' = {b \in held : b.lo # p}

ValidFree ==
  /\ At("valid", "f")
  /\ LET p == blocks[Trace[i].index]
     IN  Free(p) /\ ranges' = Without(ranges, p)
  /\ Proceed
  /\ UNCHANGED <<setup, tracenum, blocks, block_sizes, memory, utilVars, calls>>

-----------------------------------------------------------------------------
(* eval_mm_util                                                            *)

\* Mutation: the heap is not emptied.
StartUtilFull ==
  /\ phase = "valid" /\ i > Len(Trace)
  /\ phase' = "util" /\ i' = 1
  /\ held' = {} /\ total_size' = 0 /\ max_total_size' = 0
  /\ UNCHANGED <<mem_brk, setup, tracenum, listVars, memory, calls, verdict>>

\* No fault was found: the heap is emptied and the trace run again.
StartUtil ==
  /\ phase = "valid" /\ i > Len(Trace)
  /\ phase' = "util" /\ i' = 1
  /\ mem_reset_brk
  /\ held' = {} /\ total_size' = 0 /\ max_total_size' = 0
  /\ UNCHANGED <<setup, tracenum, listVars, memory, calls, verdict>>

\* Mutation: what a block had before is not taken off.
CountWhole(diff) ==
  /\ total_size' = total_size + Trace[i].size
  /\ max_total_size' = Larger(total_size', max_total_size)

\* The sum of the sizes of all blocks, and its high-water mark.
Count(diff) ==
  /\ total_size' = total_size + diff
  /\ max_total_size' = Larger(total_size', max_total_size)

\* app_error: the driver exits.
GivesUp == phase' = "exited" /\ UNCHANGED <<i, blocks, block_sizes, total_size, max_total_size>>

\* A request is made once more, unchecked; the sizes are summed.
UtilRequest(p, diff) ==
  LET k == Trace[i].index
      size == Trace[i].size
  IN  IF p = NULL THEN GivesUp
      ELSE /\ i' = i + 1 /\ UNCHANGED phase
           /\ blocks' = [blocks EXCEPT ![k] = p]
           /\ block_sizes' = [block_sizes EXCEPT ![k] = size]
           /\ Count(diff)

UtilAlloc ==
  /\ At("util", "a")
  /\ \E p \in Addresses :
       /\ Malloc(Trace[i].size, p)
       /\ Holds(held, p, Trace[i].size)
       /\ UtilRequest(p, Trace[i].size)
  /\ UNCHANGED <<setup, tracenum, ranges, memory, calls, verdict>>

UtilRealloc ==
  /\ At("util", "r")
  /\ \E p \in Addresses :
       LET k == Trace[i].index
           size == Trace[i].size
       IN  /\ \E mem \in {memory, Copied(blocks[k], block_sizes[k], size, p)} :
                Realloc(blocks[k], block_sizes[k], size, p, mem) /\ memory' = mem
           /\ Holds({b \in held : b.lo # blocks[k]}, p, size)
           /\ UtilRequest(p, size - block_sizes[k])
  /\ UNCHANGED <<setup, tracenum, ranges, calls, verdict>>

UtilFree ==
  /\ At("util", "f")
  /\ Free(blocks[Trace[i].index])
  /\ i' = i + 1
  /\ total_size' = total_size - block_sizes[Trace[i].index]
  /\ UNCHANGED <<setup, tracenum, phase, listVars, memory, max_total_size, calls, verdict>>

-----------------------------------------------------------------------------
(* fsecs and eval_mm_speed                                                 *)

\* A call of eval_mm_speed, after eval_mm_util and Repeats times in all.
StartSpeed ==
  /\ phase \in {"util", "speed"} /\ i > Len(Trace)
  /\ calls < Repeats
  /\ calls' = calls + 1 /\ phase' = "speed" /\ i' = 1
  /\ mem_reset_brk
  /\ held' = {}
  /\ UNCHANGED <<setup, tracenum, listVars, memory, utilVars, verdict>>

\* The next request is made, of which only the block is remembered.
SpeedRequest(p) ==
  /\ IF p = NULL THEN phase' = "exited" /\ UNCHANGED <<i, blocks>>
     ELSE /\ i' = i + 1 /\ UNCHANGED phase
          /\ blocks' = [blocks EXCEPT ![Trace[i].index] = p]
  /\ UNCHANGED <<setup, tracenum, ranges, block_sizes, utilVars, calls, verdict>>

SpeedAlloc ==
  /\ At("speed", "a")
  /\ \E p \in Addresses :
       Malloc(Trace[i].size, p) /\ Holds(held, p, Trace[i].size) /\ SpeedRequest(p)
  /\ UNCHANGED memory

\* The size of the block is known to the package only.
SpeedRealloc ==
  /\ At("speed", "r")
  /\ \E p \in Addresses, mine \in {b \in held : b.lo = blocks[Trace[i].index]} :
       LET size == Trace[i].size
       IN  /\ \E mem \in {memory, Copied(mine.lo, mine.size, size, p)} :
                Realloc(mine.lo, mine.size, size, p, mem) /\ memory' = mem
           /\ Holds({b \in held : b.lo # mine.lo}, p, size)
           /\ SpeedRequest(p)

SpeedFree ==
  /\ At("speed", "f")
  /\ Free(blocks[Trace[i].index])
  /\ i' = i + 1
  /\ UNCHANGED <<setup, tracenum, phase, listVars, memory, utilVars, calls, verdict>>

EndSpeed ==
  /\ phase = "speed" /\ i > Len(Trace)
  /\ calls = Repeats
  /\ phase' = "next"
  /\ UNCHANGED <<mem_brk, setup, tracenum, i, listVars, memory, utilVars, calls, verdict, held>>

-----------------------------------------------------------------------------
(* mm_init                                                                 *)

\* mm_init answers -1 to one of the three: eval_mm_valid finds the trace
\* invalid, the other two call app_error.  That of mm.c always succeeds.
InitFails ==
  /\ package # "mm"
  /\ mem_reset_brk /\ held' = {}
  /\ \/ phase = "read" /\ Reject("failed") /\ ranges' = <<>>
     \/ /\ phase \in {"valid", "util", "speed"} /\ i > Len(Trace)
        /\ calls < Repeats
        /\ phase' = "exited" /\ UNCHANGED <<i, ranges, verdict>>
  /\ UNCHANGED <<setup, tracenum, blocks, block_sizes, memory, utilVars, calls>>

-----------------------------------------------------------------------------
(* main                                                                    *)

\* free_trace, and the next trace file.
NextTrace ==
  /\ phase = "next" /\ tracenum < Len(traces)
  /\ tracenum' = tracenum + 1 /\ i' = 1 /\ phase' = "read" /\ message' = "none"
  /\ blocks' = [k \in IdsOf(traces[tracenum + 1]) |-> NULL]
  /\ block_sizes' = [k \in IdsOf(traces[tracenum + 1]) |-> 0]
  /\ calls' = 0
  /\ UNCHANGED <<mem_brk, setup, ranges, memory, utilVars, errors, held>>

\* The results are printed, or app_error has ended the driver.
Exit ==
  /\ phase = "exited" \/ (phase = "next" /\ tracenum = Len(traces))
  /\ UNCHANGED vars

Next ==
  \/ StartValid \/ ValidAlloc \/ ValidRealloc \/ ValidFree
  \/ StartUtil \/ UtilAlloc \/ UtilRealloc \/ UtilFree
  \/ StartSpeed \/ SpeedAlloc \/ SpeedRealloc \/ SpeedFree \/ EndSpeed
  \/ InitFails \/ NextTrace \/ Exit

Spec == Init /\ [][Next]_vars

-----------------------------------------------------------------------------
(* Properties *)

Messages == {"none", "failed", "not aligned", "outside heap", "overlaps", "data lost"}

TypeOK ==
  /\ mem_brk \in 0..mem_max_addr
  /\ tracenum \in DOMAIN traces /\ i \in 1..(Len(Trace) + 1)
  /\ phase \in {"read", "valid", "util", "speed", "next", "exited"}
  /\ \A n \in DOMAIN ranges : ranges[n].lo \in Addresses /\ ranges[n].hi \in Addresses
  /\ blocks \in [Indices -> Addresses] /\ block_sizes \in [Indices -> Nat]
  /\ memory \in [Bytes(HeapLo, MAX_HEAP) -> 0..(ByteSize - 1)]
  /\ total_size \in Nat /\ max_total_size \in Nat /\ calls \in 0..Repeats
  /\ errors \in 0..Len(traces) /\ message \in Messages

\* The ids the trace has a block for, before request i.
LiveIds ==
  {k \in Indices :
     \E j \in 1..(i - 1) :
       /\ Trace[j].index = k /\ Trace[j].type # "f"
       /\ \A l \in (j + 1)..(i - 1) : Trace[l].index = k => Trace[l].type # "f"}

RangeOf(k) == [lo |-> blocks[k], hi |-> blocks[k] + block_sizes[k] - 1]

\* "The range list, which keeps track of the extent of every allocated block
\* payload" (mdriver.c:370): whatever the package answers, it has the ranges
\* of the trace's live blocks, each once, and no others.
RangesAreLive ==
  phase = "valid" =>
    /\ {ranges[n] : n \in DOMAIN ranges} = {RangeOf(k) : k \in LiveIds}
    /\ Len(ranges) = Cardinality(LiveIds)

Disjoint(r, s) == r.hi < s.lo \/ s.hi < r.lo

\* Of two live blocks the driver has let pass the younger does not begin or
\* end inside the older.  The comment at mdriver.c:407 ("must not overlap any
\* other payloads") asks for more: a younger block around an older one passes.
NoPartialOverlap ==
  \A n, m \in DOMAIN ranges :
    n < m => \/ Disjoint(ranges[n], ranges[m])
             \/ ranges[n].lo < ranges[m].lo /\ ranges[m].hi < ranges[n].hi

\* A package that gives out disjoint blocks does not disturb them: each live
\* block has the byte the driver has filled it with, through later requests,
\* reallocations and frees of other blocks.
DataKept ==
  phase = "valid" /\ package \in {"mm", "good"} =>
    \A k \in LiveIds : \A a \in Bytes(blocks[k], block_sizes[k]) :
      memory[a] = k % ByteSize

\* A correct package is accepted unless it says itself that it has failed.
AcceptsCorrect == package = "good" => message \in {"none", "failed"}

\* The blocks of a package that frees nothing and only moves the break are
\* disjoint, aligned and below the break for as long as the trace is run.
MmBlocksDisjoint ==
  package = "mm" /\ phase \in {"valid", "util", "speed"} =>
    \A b \in held :
      /\ b.lo % ALIGNMENT = 0
      /\ Bytes(b.lo, b.size) \subseteq Bytes(HeapLo, Smaller(mem_brk, mem_max_addr) - HeapLo)
      /\ \A c \in held \ {b} : Bytes(b.lo, b.size) \cap Bytes(c.lo, c.size) = {}

\* The bytes mm.c has asked mem_sbrk for, up to request i.
Asked ==
  LET sum[n \in 0..i] ==
        IF n = 0 THEN 0
        ELSE sum[n - 1] + IF Trace[n].type = "f" THEN 0 ELSE Rounded(Trace[n].size)
  IN  sum[i]

\* The pointer -1 of a failing mem_sbrk is no NULL, but the driver finds it out;
\* and as long as the heap has room for what the trace asks for, mm.c is
\* rejected for nothing but the data that its mm_realloc loses.
MmServesWhatFits ==
  package = "mm" /\ phase = "next" /\ message # "none" =>
    \/ message = "data lost" /\ Trace[i].type = "r"
    \/ message \in {"not aligned", "outside heap"} /\ Asked > MAX_HEAP

\* The utilization, max_total_size over the size of the heap, is at most one
\* for a package whose blocks are disjoint: the sum kept over allocations,
\* reallocations and frees is what the live blocks need.
UtilizationAtMostOne ==
  phase = "util" /\ package \in {"mm", "good"} =>
    max_total_size <= HeapSize(mem_brk)

=============================================================================
