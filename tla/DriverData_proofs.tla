------------------------- MODULE DriverData_proofs -------------------------
(***************************************************************************)
(* What the blocks of a sound package hold and how much room they take:    *)
(* DataKept and UtilizationAtMostOne for mm.c and for every correct        *)
(* package, the verdicts AcceptsCorrect and MmServesWhatFits, and the      *)
(* types.  The range list and the break are the subject of Driver_proofs.  *)
(***************************************************************************)
EXTENDS Driver_proofs

\* A block of size bytes at p lies in the heap and is clear of those in H.
Clear(p, size, H) ==
  /\ p \in HeapLo..mem_max_addr /\ p + size <= mem_max_addr
  /\ \A b \in H : b.lo \in Nat /\ b.size \in Nat \ {0} =>
       p + size <= b.lo \/ b.lo + b.size <= p

\* The ids of K have disjoint blocks of the heap below top, which are among
\* those of H.
Placed(K, B, S, H, top) ==
  /\ \A k \in K : [lo |-> B[k], size |-> S[k]] \in H
  /\ \A k \in K : B[k] \in HeapLo..top /\ S[k] \in Nat \ {0} /\ B[k] + S[k] <= top
  /\ \A k, l \in K : k # l => B[k] + S[k] <= B[l] \/ B[l] + S[l] <= B[k]

\* ... and each is filled with the byte of its id.
Filled(K, B, S, H, mem) ==
  /\ DOMAIN mem = Bytes(HeapLo, MAX_HEAP)
  /\ Placed(K, B, S, H, mem_max_addr)
  /\ \A k \in K : \A a \in Bytes(B[k], S[k]) : mem[a] = k % ByteSize

LEMMA HeapTyped ==
  /\ HeapLo \in Nat \ {0} /\ MAX_HEAP \in Nat /\ mem_max_addr \in Nat
  /\ HeapLo <= mem_max_addr /\ mem_max_addr < Word /\ Word \in Nat
  /\ Bytes(HeapLo, MAX_HEAP) = HeapLo..(mem_max_addr - 1)
BY MemLibAssumption DEF mem_max_addr, Bytes

\* The block of an id is given back.
LEMMA PlacedDrop ==
  ASSUME NEW K, NEW B, NEW S, NEW H, NEW top \in Nat, Placed(K, B, S, H, top), NEW k \in K
  PROVE  Placed(K \ {k}, B, S, {b \in H : b.lo # B[k]}, top)
<1> DEFINE G == {b \in H : b.lo # B[k]}
<1>1. /\ \A l \in K : [lo |-> B[l], size |-> S[l]] \in H
      /\ \A l \in K : B[l] \in HeapLo..top /\ S[l] \in Nat \ {0} /\ B[l] + S[l] <= top
      /\ \A l, m \in K : l # m => B[l] + S[l] <= B[m] \/ B[m] + S[m] <= B[l]
  BY DEF Placed
<1>2. ASSUME NEW l \in K \ {k}
      PROVE  [lo |-> B[l], size |-> S[l]] \in G
  <2>1. B[l] # B[k]
    BY <1>1, HeapTyped
  <2> QED
    BY <1>1, <2>1
<1> HIDE DEF G
<1>3. Placed(K \ {k}, B, S, G, top)
  BY <1>2 DEF Placed
<1> QED
  BY <1>3 DEF G

LEMMA FilledDrop ==
  ASSUME NEW K, NEW B, NEW S, NEW H, NEW mem, Filled(K, B, S, H, mem), NEW k \in K
  PROVE  Filled(K \ {k}, B, S, {b \in H : b.lo # B[k]}, mem)
BY PlacedDrop, HeapTyped DEF Filled

\* Copying data to a place clear of all blocks changes none of them.
LEMMA FilledCopied ==
  ASSUME NEW K, NEW B, NEW S, NEW H, Filled(K, B, S, H, memory),
         NEW oldp, NEW oldsize \in Nat, NEW size \in Nat, NEW p, Clear(p, size, H)
  PROVE  Filled(K, B, S, H, Copied(oldp, oldsize, size, p))
<1> DEFINE mem == Copied(oldp, oldsize, size, p)
<1>1. /\ DOMAIN mem = DOMAIN memory
      /\ \A a \in DOMAIN memory : a \notin Bytes(p, size) => mem[a] = memory[a]
  <2>1. \A a : a \in Bytes(p, Smaller(oldsize, size)) => a \in Bytes(p, size)
    <3>1. p \in Nat
      BY HeapTyped DEF Clear
    <3> QED
      BY <3>1 DEF Bytes, Smaller
  <2> QED
    BY <2>1 DEF Copied
<1> HIDE DEF mem
<1>2. /\ DOMAIN memory = HeapLo..(mem_max_addr - 1)
      /\ \A k \in K : [lo |-> B[k], size |-> S[k]] \in H
      /\ \A k \in K : /\ B[k] \in HeapLo..mem_max_addr /\ S[k] \in Nat \ {0}
                      /\ B[k] + S[k] <= mem_max_addr
      /\ \A k \in K : \A a \in Bytes(B[k], S[k]) : memory[a] = k % ByteSize
  BY HeapTyped DEF Filled, Placed
<1>3. ASSUME NEW k \in K, NEW a \in Bytes(B[k], S[k])
      PROVE  mem[a] = k % ByteSize
  <2>1. p + size <= B[k] \/ B[k] + S[k] <= p
    <3> DEFINE b == [lo |-> B[k], size |-> S[k]]
    <3>1. b \in H /\ b.lo = B[k] /\ b.size = S[k]
      BY <1>2
    <3> HIDE DEF b
    <3>2. b.lo \in Nat /\ b.size \in Nat \ {0}
      BY <1>2, <3>1, HeapTyped
    <3>3. p + size <= b.lo \/ b.lo + b.size <= p
      BY <3>1, <3>2 DEF Clear
    <3> QED
      BY <3>1, <3>3
  <2>2. a \in DOMAIN memory /\ a \notin Bytes(p, size)
    BY <1>2, <2>1, HeapTyped DEF Bytes, Clear
  <2> QED
    BY <1>1, <1>2, <2>2
<1>4. Filled(K, B, S, H, mem)
  BY <1>1, <1>3 DEF Filled, Placed
<1> QED
  BY <1>4 DEF mem

\* The bytes of a block are set to the byte of an id.
Fill(mem, k, p, size) ==
  [a \in DOMAIN mem |-> IF a \in Bytes(p, size) THEN k % ByteSize ELSE mem[a]]

Given(p, size) == [lo |-> p, size |-> size]

\* A clear block is given out.
LEMMA PlacedAdd ==
  ASSUME NEW K, NEW B, NEW S, NEW H, NEW top \in Nat, Placed(K, B, S, H, top),
         NEW limit \in Nat, top <= limit,
         K \subseteq DOMAIN B, K \subseteq DOMAIN S,
         NEW k, k \notin K, k \in DOMAIN B, k \in DOMAIN S,
         NEW size \in Nat \ {0}, NEW p, Clear(p, size, H), p + size <= limit
  PROVE  Placed(K \cup {k}, [B EXCEPT ![k] = p], [S EXCEPT ![k] = size],
                H \cup {Given(p, size)}, limit)
<1> DEFINE C == [B EXCEPT ![k] = p]
           T == [S EXCEPT ![k] = size]
           G == H \cup {Given(p, size)}
<1>1. C[k] = p /\ T[k] = size /\ \A l \in K : C[l] = B[l] /\ T[l] = S[l]
  OBVIOUS
<1>2. H \subseteq G /\ [lo |-> p, size |-> size] \in G
  BY DEF Given
<1> HIDE DEF C, T, G
<1>3. /\ \A l \in K : [lo |-> B[l], size |-> S[l]] \in H
      /\ \A l \in K : B[l] \in HeapLo..top /\ S[l] \in Nat \ {0} /\ B[l] + S[l] <= top
      /\ \A l, m \in K : l # m => B[l] + S[l] <= B[m] \/ B[m] + S[m] <= B[l]
  BY DEF Placed
<1>4. p \in HeapLo..limit /\ p + size <= limit
  BY HeapTyped DEF Clear
<1>5. ASSUME NEW l \in K
      PROVE  p + size <= B[l] \/ B[l] + S[l] <= p
  <2> DEFINE b == [lo |-> B[l], size |-> S[l]]
  <2>1. b \in H /\ b.lo = B[l] /\ b.size = S[l]
    BY <1>3
  <2> HIDE DEF b
  <2>2. b.lo \in Nat /\ b.size \in Nat \ {0}
    BY <1>3, <2>1, HeapTyped
  <2>3. p + size <= b.lo \/ b.lo + b.size <= p
    BY <2>1, <2>2 DEF Clear
  <2> QED
    BY <2>1, <2>3
<1>6. \A l \in K \cup {k} : [lo |-> C[l], size |-> T[l]] \in G
  BY <1>1, <1>2, <1>3
<1>7. \A l \in K \cup {k} :
        C[l] \in HeapLo..limit /\ T[l] \in Nat \ {0} /\ C[l] + T[l] <= limit
  <2>1. ASSUME NEW l \in K
        PROVE  C[l] \in HeapLo..limit /\ T[l] \in Nat \ {0} /\ C[l] + T[l] <= limit
    BY <1>1, <1>3, HeapTyped
  <2> QED
    BY <1>1, <1>4, <2>1
<1>8. ASSUME NEW l \in K \cup {k}, NEW m \in K \cup {k}, l # m
      PROVE  C[l] + T[l] <= C[m] \/ C[m] + T[m] <= C[l]
  <2>1. CASE l \in K /\ m \in K
    BY <1>1, <1>3, <1>8, <2>1
  <2>2. CASE l = k /\ m \in K
    BY <1>1, <1>5, <2>2
  <2>3. CASE l \in K /\ m = k
    BY <1>1, <1>5, <2>3
  <2> QED
    BY <1>8, <2>1, <2>2, <2>3
<1>9. Placed(K \cup {k}, C, T, G, limit)
  BY <1>6, <1>7, <1>8 DEF Placed
<1> QED
  BY <1>9 DEF C, T, G

\* ... and filled.
LEMMA FilledAdd ==
  ASSUME NEW K, NEW B, NEW S, NEW H, NEW mem, Filled(K, B, S, H, mem),
         K \subseteq DOMAIN B, K \subseteq DOMAIN S,
         NEW k, k \notin K, k \in DOMAIN B, k \in DOMAIN S,
         NEW size \in Nat \ {0}, NEW p, Clear(p, size, H)
  PROVE  Filled(K \cup {k}, [B EXCEPT ![k] = p], [S EXCEPT ![k] = size],
                H \cup {Given(p, size)}, Fill(mem, k, p, size))
<1> DEFINE C == [B EXCEPT ![k] = p]
           T == [S EXCEPT ![k] = size]
           G == H \cup {Given(p, size)}
           new == Fill(mem, k, p, size)
<1>1. C[k] = p /\ T[k] = size /\ \A l \in K : C[l] = B[l] /\ T[l] = S[l]
  OBVIOUS
<1>2. /\ DOMAIN new = DOMAIN mem /\ DOMAIN mem = HeapLo..(mem_max_addr - 1)
      /\ \A a \in DOMAIN mem : a \in Bytes(p, size) => new[a] = k % ByteSize
      /\ \A a \in DOMAIN mem : a \notin Bytes(p, size) => new[a] = mem[a]
  BY HeapTyped DEF Filled, Fill
<1>3. Placed(K \cup {k}, C, T, G, mem_max_addr)
  <2>1. Placed(K, B, S, H, mem_max_addr) /\ p + size <= mem_max_addr
    BY DEF Filled, Clear
  <2> QED
    BY <2>1, PlacedAdd, HeapTyped
<1> HIDE DEF C, T, G, new
<1>4. ASSUME NEW l \in K \cup {k}, NEW a \in Bytes(C[l], T[l])
      PROVE  new[a] = l % ByteSize
  <2>1. \A m \in K \cup {k} : C[m] \in HeapLo..mem_max_addr /\ T[m] \in Nat \ {0}
                             /\ C[m] + T[m] <= mem_max_addr
    BY <1>3 DEF Placed
  <2>2. a \in DOMAIN mem
    BY <1>2, <2>1, HeapTyped DEF Bytes
  <2>3. CASE l = k
    BY <1>1, <1>2, <2>2, <2>3
  <2>4. CASE l \in K
    <3>1. a \in Bytes(B[l], S[l]) /\ mem[a] = l % ByteSize
      BY <1>1, <2>4 DEF Filled
    <3>2. C[l] + T[l] <= p \/ p + size <= C[l]
      BY <1>1, <1>3, <2>4 DEF Placed
    <3>3. C[l] \in Int /\ T[l] \in Int /\ p \in Int
      BY <1>1, <2>1, HeapTyped
    <3>4. a \in Int /\ C[l] <= a /\ a < C[l] + T[l]
      BY <3>3 DEF Bytes
    <3>5. a \notin Bytes(p, size)
      BY <3>2, <3>3, <3>4 DEF Bytes
    <3> QED
      BY <1>2, <2>2, <3>1, <3>5
  <2> QED
    BY <2>3, <2>4
<1>5. Filled(K \cup {k}, C, T, G, new)
  <2>1. DOMAIN new = Bytes(HeapLo, MAX_HEAP)
    BY <1>2, HeapTyped
  <2> QED
    BY <1>3, <1>4, <2>1 DEF Filled
<1> QED
  BY <1>5 DEF C, T, G, new

-----------------------------------------------------------------------------
(* What a sound package answers                                            *)

LEMMA BytesApart ==
  ASSUME NEW p \in Nat, NEW size \in Nat \ {0}, NEW q \in Nat, NEW other \in Nat \ {0},
         Bytes(q, other) \cap Bytes(p, size) = {}
  PROVE  p + size <= q \/ q + other <= p
<1>1. CASE p <= q /\ q < p + size
  <2>1. q \in Bytes(p, size) /\ q \in Bytes(q, other)
    BY <1>1 DEF Bytes
  <2> QED
    BY <2>1
<1>2. CASE q <= p /\ p < q + other
  <2>1. p \in Bytes(p, size) /\ p \in Bytes(q, other)
    BY <1>2 DEF Bytes
  <2> QED
    BY <2>1
<1> QED
  BY <1>1, <1>2

\* The block of a correct package.
LEMMA CorrectClear ==
  ASSUME OnTrace', NEW p \in Addresses, NEW size \in Nat \ {0}, NEW H, Correct(size, H, p)
  PROVE  Clear(p, size, H) /\ p + size <= mem_brk'
<1>1. p \in Nat /\ mem_brk' \in 0..mem_max_addr
  BY HeapTyped DEF Addresses, OnTrace
<1>2. p \in Bytes(p, size) /\ p + size - 1 \in Bytes(p, size)
  BY <1>1 DEF Bytes
<1>3. p \in Bytes(HeapLo, mem_brk' - HeapLo) /\ p + size - 1 \in Bytes(HeapLo, mem_brk' - HeapLo)
  BY <1>2 DEF Correct
<1>4. p \in HeapLo..mem_max_addr /\ p + size <= mem_max_addr /\ p + size <= mem_brk'
  <2> DEFINE brk == mem_brk'
  <2>1. /\ brk \in 0..mem_max_addr
        /\ p \in HeapLo..(HeapLo + (brk - HeapLo) - 1)
        /\ p + size - 1 \in HeapLo..(HeapLo + (brk - HeapLo) - 1)
    BY <1>1, <1>3 DEF Bytes
  <2> HIDE DEF brk
  <2>2. p \in HeapLo..mem_max_addr /\ p + size <= mem_max_addr /\ p + size <= brk
    BY <1>1, <2>1, HeapTyped
  <2> QED
    BY <2>2 DEF brk
<1>5. ASSUME NEW b \in H, b.lo \in Nat, b.size \in Nat \ {0}
      PROVE  p + size <= b.lo \/ b.lo + b.size <= p
  <2>1. Bytes(b.lo, b.size) \cap Bytes(p, size) = {}
    BY DEF Correct
  <2> QED
    BY <1>1, <1>5, <2>1, BytesApart
<1> QED
  BY <1>4, <1>5 DEF Clear

\* The block of mm.c, if the heap has room for it.
LEMMA RoomClear ==
  ASSUME OnTrace, Unwrapped, MmInv, package = "mm",
         NEW ph \in {"valid", "util", "speed"}, NEW type \in {"a", "r"}, At(ph, type),
         HasRoom(Trace[i].size), NEW G \in SUBSET held
  PROVE  /\ Clear(mem_brk, Trace[i].size, G) /\ mem_brk % ALIGNMENT = 0
         /\ mem_brk + Trace[i].size <= mem_brk + Rounded(Trace[i].size)
<1> DEFINE size == Trace[i].size
<1>1. /\ mem_brk \in HeapLo..mem_max_addr /\ mem_brk % ALIGNMENT = 0 /\ Tidy(held, mem_brk)
      /\ size \in Nat \ {0} /\ mem_max_addr + size + ALIGNMENT <= Word
  BY MmState, MmRequest DEF At
<1>2. Rounded(size) >= size /\ Rounded(size) \in Nat
  <2>1. size + ALIGNMENT <= Word
    BY <1>1, HeapTyped, MemLibAssumption
  <2> QED
    BY <1>1, <2>1, RoundedUp, RoundedNat
<1>3. HasRoom(size)
  OBVIOUS
<1> HIDE DEF size
<1>4. mem_brk + size <= mem_max_addr /\ mem_brk + size <= mem_brk + Rounded(size)
  BY <1>1, <1>2, <1>3, HeapTyped DEF HasRoom
<1>5. \A b \in G : b.lo + b.size <= mem_brk
  BY <1>1 DEF Tidy
<1>6. Clear(mem_brk, size, G)
  BY <1>1, <1>4, <1>5 DEF Clear
<1> QED
  BY <1>1, <1>4, <1>6 DEF size

\* ... and if the driver finds nothing wrong with it, the heap has had room.
LEMMA MmClear ==
  ASSUME OnTrace, Unwrapped, MmInv, package = "mm", NEW type \in {"a", "r"}, At("valid", type),
         NEW ptr, NEW p, mm_malloc(Trace[i].size, p) \/ mm_realloc(ptr, Trace[i].size, p),
         NEW list, Fault(list, p, Trace[i].size) = "none", NEW G \in SUBSET held
  PROVE  Clear(p, Trace[i].size, G)
<1>1. mem_brk \in HeapLo..mem_max_addr
  BY MmState DEF At
<1>2. Trace[i].size \in Nat \ {0} /\ mem_max_addr + Trace[i].size + ALIGNMENT <= Word
  BY MmRequest
<1>3. Outcome(Trace[i].size, p)
  BY <1>1, <1>2, MmOutcome
<1>4. HasRoom(Trace[i].size) /\ p = mem_brk
  BY <1>1, <1>3, FailureFound DEF Outcome
<1> QED
  BY <1>4, RoomClear

-----------------------------------------------------------------------------
(* The data of the live blocks                                             *)

\* The packages the theorems are about: correct ones, and mm.c.
Sound == package = "good" \/ (package = "mm" /\ Unwrapped)

\* The inductive form of DataKept.
DataInv ==
  /\ DOMAIN blocks = Indices /\ DOMAIN block_sizes = Indices
  /\ DOMAIN memory = Bytes(HeapLo, MAX_HEAP)
  /\ phase = "valid" /\ Sound => Filled(LiveIds, blocks, block_sizes, held, memory)

LEMMA DataAlloc ==
  ASSUME OnTrace, OnTrace', Unwrapped => MmInv, WellFormed, DataInv, Sound,
         ValidAlloc, phase' = "valid"
  PROVE  Filled(LiveIds', blocks', block_sizes', held', memory')
<1> DEFINE k == Trace[i].index
           size == Trace[i].size
<1>1. At("valid", "a") /\ UNCHANGED <<setup, tracenum>>
  BY DEF ValidAlloc
<1>2. PICK p \in Addresses :
        /\ p # NULL /\ Fault(ranges, p, size) = "none" /\ Malloc(size, p) /\ Proceed
        /\ Holds(held, p, size) /\ Remember(k, p, size, memory)
  BY DEF ValidAlloc, Reject
<1>3. /\ size \in 1..(Word \div 2 - 1) /\ size \in Nat /\ k \in Indices /\ phase = "valid"
      /\ i' = i + 1
  BY <1>1, <1>2, NextRequest DEF Proceed
<1>4. size \in Nat \ {0}
  <2> DEFINE half == Word \div 2 - 1
  <2> HIDE DEF half
  <2> QED
    BY <1>3 DEF half
<1>5. LiveIds' = LiveIds \cup {k} /\ k \notin LiveIds
  BY <1>1, <1>3, LiveStep
<1>6. Filled(LiveIds, blocks, block_sizes, held, memory)
  BY <1>3 DEF DataInv
<1>7. Clear(p, size, held)
  <2>1. CASE package = "good"
    <3>1. Correct(size, held, p)
      BY <1>2, <2>1 DEF Malloc, Allocate
    <3> QED
      BY <1>4, <3>1, CorrectClear
  <2>2. CASE package = "mm" /\ Unwrapped
    <3>1. mm_malloc(size, p)
      BY <1>2, <2>2 DEF Malloc, Allocate
    <3> QED
      BY <1>1, <1>2, <2>2, <3>1, MmClear
  <2> QED
    BY <2>1, <2>2 DEF Sound
<1>8. /\ held' = held \cup {Given(p, size)} /\ memory' = Fill(memory, k, p, size)
      /\ blocks' = [blocks EXCEPT ![k] = p] /\ block_sizes' = [block_sizes EXCEPT ![k] = size]
  BY <1>2 DEF Holds, Remember, Given, Fill
<1>9. /\ LiveIds \subseteq DOMAIN blocks /\ LiveIds \subseteq DOMAIN block_sizes
      /\ k \in DOMAIN blocks /\ k \in DOMAIN block_sizes
  BY <1>3, LiveInIndices DEF DataInv
<1> HIDE DEF k, size
<1>10. Filled(LiveIds \cup {k}, [blocks EXCEPT ![k] = p], [block_sizes EXCEPT ![k] = size],
              held \cup {Given(p, size)}, Fill(memory, k, p, size))
  BY <1>4, <1>5, <1>6, <1>7, <1>9, FilledAdd
<1> QED
  BY <1>5, <1>8, <1>10

\* What a reallocation in which nothing is found wrong does.
LEMMA DataRealloc ==
  ASSUME OnTrace, OnTrace', Unwrapped => MmInv, WellFormed, DataInv, Sound,
         ValidRealloc, phase' = "valid"
  PROVE  Filled(LiveIds', blocks', block_sizes', held', memory')
<1> DEFINE k == Trace[i].index
           size == Trace[i].size
           oldp == blocks[k]
           rest == Without(ranges, oldp)
           others == {b \in held : b.lo # oldp}
           K == LiveIds \ {k}
<1>1. At("valid", "r") /\ UNCHANGED <<setup, tracenum>>
  BY DEF ValidRealloc
<1>2. PICK p, mem :
        /\ p \in Addresses /\ mem \in {memory, Copied(oldp, block_sizes[k], size, p)}
        /\ p # NULL /\ Fault(rest, p, size) = "none"
        /\ Realloc(oldp, block_sizes[k], size, p, mem) /\ Proceed
        /\ Holds(others, p, size) /\ Remember(k, p, size, mem)
  BY DEF ValidRealloc, Reject
<1>3. /\ size \in 1..(Word \div 2 - 1) /\ size \in Nat /\ k \in Indices /\ phase = "valid"
      /\ i' = i + 1
  BY <1>1, <1>2, NextRequest DEF Proceed
<1>4. size \in Nat \ {0}
  <2> DEFINE half == Word \div 2 - 1
  <2> HIDE DEF half
  <2> QED
    BY <1>3 DEF half
<1>5. LiveIds' = LiveIds \cup {k} /\ k \in LiveIds
  BY <1>1, <1>3, LiveStep
<1>6. Filled(LiveIds, blocks, block_sizes, held, memory)
  BY <1>3 DEF DataInv
<1>7. Filled(K, blocks, block_sizes, others, memory)
  BY <1>5, <1>6, FilledDrop
<1>8. Clear(p, size, others)
  <2>1. CASE package = "good"
    <3>1. Correct(size, others, p) /\ p \in Addresses
      BY <1>2, <2>1 DEF Realloc, Allocate
    <3> QED
      BY <1>4, <3>1, CorrectClear
  <2>2. CASE package = "mm" /\ Unwrapped
    <3>1. mm_realloc(oldp, size, p)
      BY <1>2, <2>2 DEF Realloc, Allocate
    <3>2. others \in SUBSET held
      OBVIOUS
    <3> QED
      BY <1>1, <1>2, <2>2, <3>1, <3>2, MmClear
  <2> QED
    BY <2>1, <2>2 DEF Sound
<1>9. Filled(K, blocks, block_sizes, others, mem)
  <2>1. block_sizes[k] \in Nat
    BY <1>5, <1>6 DEF Filled, Placed
  <2>2. Filled(K, blocks, block_sizes, others, Copied(oldp, block_sizes[k], size, p))
    BY <1>4, <1>7, <1>8, <2>1, FilledCopied
  <2> QED
    BY <1>2, <1>7, <2>2
<1>10. /\ held' = others \cup {Given(p, size)} /\ memory' = Fill(mem, k, p, size)
       /\ blocks' = [blocks EXCEPT ![k] = p] /\ block_sizes' = [block_sizes EXCEPT ![k] = size]
  BY <1>2 DEF Holds, Remember, Given, Fill
<1>11. /\ K \subseteq DOMAIN blocks /\ K \subseteq DOMAIN block_sizes /\ k \notin K
       /\ k \in DOMAIN blocks /\ k \in DOMAIN block_sizes
       /\ LiveIds' = K \cup {k}
  BY <1>3, <1>5, LiveInIndices DEF DataInv
<1> HIDE DEF k, size, others, K
<1>12. Filled(K \cup {k}, [blocks EXCEPT ![k] = p], [block_sizes EXCEPT ![k] = size],
              others \cup {Given(p, size)}, Fill(mem, k, p, size))
  BY <1>4, <1>8, <1>9, <1>11, FilledAdd
<1> QED
  BY <1>10, <1>11, <1>12

LEMMA DataFree ==
  ASSUME OnTrace, WellFormed, DataInv, Sound, ValidFree
  PROVE  Filled(LiveIds', blocks', block_sizes', held', memory')
<1> DEFINE k == Trace[i].index
<1>1. /\ At("valid", "f") /\ UNCHANGED <<setup, tracenum>> /\ i' = i + 1
      /\ held' = {b \in held : b.lo # blocks[k]}
      /\ blocks' = blocks /\ block_sizes' = block_sizes /\ memory' = memory
  BY DEF ValidFree, Proceed, Free
<1>2. LiveIds' = LiveIds \ {k} /\ k \in LiveIds
  BY <1>1, LiveStep
<1>3. Filled(LiveIds, blocks, block_sizes, held, memory)
  BY <1>1, NextRequest DEF DataInv
<1> HIDE DEF k
<1> QED
  BY <1>1, <1>2, <1>3, FilledDrop

LEMMA DataStart ==
  ASSUME DataInv, StartValid
  PROVE  Filled(LiveIds', blocks', block_sizes', held', memory')
<1>1. i' = 1 /\ memory' = memory /\ DOMAIN memory = Bytes(HeapLo, MAX_HEAP)
  BY DEF StartValid, DataInv
<1>2. LiveIds' = {}
  <2>1. LiveIds' = Live(Trace', i')
    BY DEF LiveIds, Live, Indices
  <2> QED
    BY <1>1, <2>1, LiveFirst
<1> QED
  BY <1>1, <1>2 DEF Filled, Placed

\* The heap is as large as ever, and the blocks are of the trace's ids.
LEMMA DataShape ==
  ASSUME DataInv, [Next]_vars
  PROVE  /\ DOMAIN blocks' = Indices' /\ DOMAIN block_sizes' = Indices'
         /\ DOMAIN memory' = Bytes(HeapLo, MAX_HEAP)
<1>1. /\ DOMAIN blocks = Indices /\ DOMAIN block_sizes = Indices
      /\ DOMAIN memory = Bytes(HeapLo, MAX_HEAP)
  BY DEF DataInv
<1>2. CASE NextTrace
  <2>1. /\ Indices' = IdsOf(traces[tracenum + 1]) /\ memory' = memory
        /\ DOMAIN blocks' = IdsOf(traces[tracenum + 1])
        /\ DOMAIN block_sizes' = IdsOf(traces[tracenum + 1])
    BY <1>2 DEF NextTrace, Indices, Trace, setup
  <2> QED
    BY <1>1, <2>1
<1>3. ASSUME UNCHANGED <<setup, tracenum>>, DOMAIN memory' = DOMAIN memory,
             DOMAIN blocks' = DOMAIN blocks, DOMAIN block_sizes' = DOMAIN block_sizes
      PROVE  /\ DOMAIN blocks' = Indices' /\ DOMAIN block_sizes' = Indices'
             /\ DOMAIN memory' = Bytes(HeapLo, MAX_HEAP)
  BY <1>1, <1>3, SameTrace
<1>4. \A oldp, oldsize, size, p : DOMAIN Copied(oldp, oldsize, size, p) = DOMAIN memory
  BY DEF Copied
<1>5. CASE ValidAlloc
  BY <1>3, <1>5 DEF ValidAlloc, Remember, listVars
<1>6. CASE ValidRealloc
  <2>1. PICK mem : /\ DOMAIN mem = DOMAIN memory
                   /\ \/ memory' = mem /\ UNCHANGED <<blocks, block_sizes>>
                      \/ \E p \in Addresses : Remember(Trace[i].index, p, Trace[i].size, mem)
    BY <1>4, <1>6 DEF ValidRealloc
  <2> QED
    BY <1>3, <1>6, <2>1 DEF ValidRealloc, Remember
<1>7. CASE ValidFree \/ StartValid \/ StartUtil \/ StartSpeed \/ EndSpeed \/ InitFails
  BY <1>3, <1>7
  DEF ValidFree, StartValid, StartUtil, StartSpeed, EndSpeed, InitFails, listVars
<1>8. CASE UtilAlloc \/ UtilFree
  BY <1>3, <1>8 DEF UtilAlloc, UtilFree, UtilRequest, GivesUp, listVars
<1>9. CASE UtilRealloc
  <2>1. DOMAIN memory' = DOMAIN memory
    BY <1>4, <1>9 DEF UtilRealloc
  <2> QED
    BY <1>3, <1>9, <2>1 DEF UtilRealloc, UtilRequest, GivesUp
<1>10. CASE SpeedAlloc \/ SpeedFree
  BY <1>3, <1>10 DEF SpeedAlloc, SpeedFree, SpeedRequest, listVars
<1>11. CASE SpeedRealloc
  <2>1. DOMAIN memory' = DOMAIN memory
    BY <1>4, <1>11 DEF SpeedRealloc
  <2> QED
    BY <1>3, <1>11, <2>1 DEF SpeedRealloc, SpeedRequest
<1>12. CASE Exit \/ UNCHANGED vars
  BY <1>3, <1>12 DEF Exit, vars, listVars
<1> QED
  BY <1>2, <1>5, <1>6, <1>7, <1>8, <1>9, <1>10, <1>11, <1>12 DEF Next

LEMMA DataInvNext ==
  /\ WellFormed /\ OnTrace /\ OnTrace' /\ (Unwrapped => MmInv) /\ DataInv /\ [Next]_vars
  => DataInv'
<1> SUFFICES ASSUME WellFormed, OnTrace, OnTrace', Unwrapped => MmInv, DataInv, [Next]_vars
             PROVE  DataInv'
  OBVIOUS
<1>1. package' = package
  BY DEF Next, StartValid, ValidAlloc, ValidRealloc, ValidFree, StartUtil, UtilAlloc,
         UtilRealloc, UtilFree, StartSpeed, SpeedAlloc, SpeedRealloc, SpeedFree, SpeedRequest,
         EndSpeed, InitFails, NextTrace, Exit, vars, setup
<1> SUFFICES ASSUME phase' = "valid", Sound
             PROVE  Filled(LiveIds', blocks', block_sizes', held', memory')
  BY <1>1, DataShape DEF DataInv, Sound
<1>2. CASE ValidAlloc
  BY <1>2, DataAlloc
<1>3. CASE ValidRealloc
  BY <1>3, DataRealloc
<1>4. CASE ValidFree
  BY <1>4, DataFree
<1>5. CASE StartValid
  BY <1>5, DataStart
<1>6. CASE StartUtil \/ UtilAlloc \/ UtilRealloc \/ UtilFree
  BY <1>6 DEF StartUtil, UtilAlloc, UtilRealloc, UtilFree, UtilRequest, GivesUp, At
<1>7. CASE StartSpeed \/ SpeedAlloc \/ SpeedRealloc \/ SpeedFree \/ EndSpeed
  BY <1>7 DEF StartSpeed, SpeedAlloc, SpeedRealloc, SpeedFree, SpeedRequest, EndSpeed, At
<1>8. CASE NextTrace \/ InitFails
  BY <1>8 DEF NextTrace, InitFails, Reject
<1>9. CASE Exit \/ UNCHANGED vars
  <2>1. UNCHANGED <<setup, tracenum, i, phase, listVars, memory, held>>
    BY <1>9 DEF Exit, vars
  <2>2. LiveIds' = LiveIds
    BY <2>1 DEF LiveIds, Indices, Trace, setup
  <2> QED
    BY <2>1, <2>2 DEF DataInv, listVars
<1> QED
  BY <1>2, <1>3, <1>4, <1>5, <1>6, <1>7, <1>8, <1>9 DEF Next

\* What the theorems below need of all reachable states.
MmSafe == Unwrapped => MmInv

LEMMA DataInvAlways == WellFormed => (Spec => [](OnTrace /\ MmSafe /\ DataInv))
<1> SUFFICES ASSUME WellFormed
             PROVE  Spec => [](OnTrace /\ MmSafe /\ DataInv)
  OBVIOUS
<1>1. Init => OnTrace /\ MmSafe /\ DataInv
  BY OnTraceInit DEF Init, MmSafe, MmInv, DataInv
<1>2. OnTrace /\ MmSafe /\ DataInv /\ [Next]_vars => OnTrace' /\ MmSafe' /\ DataInv'
  BY OnTraceNext, MmInvNext, DataInvNext DEF MmSafe
<1> QED
  BY <1>1, <1>2, PTL DEF Spec

\* Every live block of a correct package, and of mm.c as long as no addition to
\* its break wraps, has the byte the driver has filled it with, whatever is
\* allocated, reallocated and freed besides.
THEOREM DataKeptHolds == WellFormed /\ Unwrapped => (Spec => []DataKept)
<1> SUFFICES ASSUME WellFormed, Unwrapped
             PROVE  Spec => []DataKept
  OBVIOUS
<1>1. DataInv => DataKept
  BY DEF DataInv, DataKept, Sound, Filled
<1> QED
  BY <1>1, DataInvAlways, PTL

-----------------------------------------------------------------------------
(* A correct package is accepted                                           *)

\* The ids a correct package's traces reallocate have a low byte that is the
\* same as a signed char, as in all files of traces/.
LowIds ==
  \A test \in Tests : \A n \in DOMAIN test.traces : \A j \in DOMAIN test.traces[n] :
    test.package = "good" /\ test.traces[n][j].type = "r" =>
      test.traces[n][j].index % ByteSize < ByteSize \div 2

\* add_range finds nothing wrong with an aligned block below the break that is
\* clear of the live ones.
LEMMA ClearPasses ==
  ASSUME mem_brk' \in 0..mem_max_addr, NEW p \in Addresses, p % ALIGNMENT = 0,
         NEW size \in Nat \ {0}, NEW H, Clear(p, size, H), p + size <= mem_brk',
         NEW list, NEW K, NEW B, NEW S, Lists(list, K, B, S),
         NEW mem, Filled(K, B, S, H, mem)
  PROVE  Fault(list, p, size) = "none"
<1>1. Clear(p, size, H) /\ p + size <= mem_brk' /\ mem_brk' \in 0..mem_max_addr
  OBVIOUS
<1>2. p \in HeapLo..mem_max_addr /\ p + size <= mem_max_addr
  BY <1>1 DEF Clear
<1>3. (p + size - 1) % Word = p + size - 1
  <2>1. p + size - 1 \in 0..(Word - 1) /\ Word \in Nat \ {0}
    BY <1>2, HeapTyped
  <2> QED
    BY <2>1, ModSmall
<1>4. /\ HeapHi(mem_brk') = mem_brk' - 1
      /\ p \in HeapLo..(mem_brk' - 1) /\ p + size - 1 \in HeapLo..(mem_brk' - 1)
  <2> DEFINE brk == mem_brk'
  <2>1. brk \in 0..mem_max_addr /\ p + size <= brk
    BY <1>1
  <2> HIDE DEF brk
  <2>2. brk - 1 \in 0..(Word - 1) /\ Word \in Nat \ {0}
    BY <1>2, <2>1, HeapTyped
  <2>3. HeapHi(brk) = brk - 1
    BY <2>2, ModSmall DEF HeapHi
  <2>4. p \in HeapLo..(brk - 1) /\ p + size - 1 \in HeapLo..(brk - 1)
    BY <1>2, <2>1, HeapTyped
  <2> QED
    BY <2>3, <2>4 DEF brk
<1>5. ASSUME NEW n \in DOMAIN list
      PROVE  ~Overlaps(list[n], p, p + size - 1)
  <2>1. PICK k \in K : list[n] = Extent(B[k], S[k])
    BY DEF Lists
  <2> DEFINE b == [lo |-> B[k], size |-> S[k]]
  <2>2. b \in H /\ b.lo = B[k] /\ b.size = S[k]
    BY DEF Filled, Placed
  <2>3. B[k] \in Nat /\ S[k] \in Nat \ {0}
    BY HeapTyped DEF Filled, Placed
  <2> HIDE DEF b
  <2>4. p + size <= B[k] \/ B[k] + S[k] <= p
    BY <1>1, <2>2, <2>3 DEF Clear
  <2>5. list[n].lo = B[k] /\ list[n].hi = B[k] + S[k] - 1
    BY <2>1 DEF Extent
  <2> QED
    BY <1>2, <2>3, <2>4, <2>5, HeapTyped DEF Overlaps
<1> QED
  BY <1>3, <1>4, <1>5 DEF Fault

LEMMA CorrectPasses ==
  ASSUME OnTrace', NEW p \in Addresses, NEW size \in Nat \ {0}, NEW H, Correct(size, H, p),
         NEW list, NEW K, NEW B, NEW S, Lists(list, K, B, S),
         NEW mem, Filled(K, B, S, H, mem)
  PROVE  Fault(list, p, size) = "none"
<1>1. /\ Clear(p, size, H) /\ p + size <= mem_brk' /\ mem_brk' \in 0..mem_max_addr
      /\ p % ALIGNMENT = 0
  BY CorrectClear DEF OnTrace, Correct
<1> QED
  BY <1>1, ClearPasses

\* The bytes of a live block are found in the block it is copied to.
LEMMA CopyPreserves ==
  ASSUME NEW K, NEW S, NEW H, Filled(K, blocks, block_sizes, H, memory), NEW k \in K,
         k \in Nat, k % ByteSize < ByteSize \div 2,
         NEW size \in Nat \ {0}, NEW p, NEW G, Clear(p, size, G)
  PROVE  Preserved(Copied(blocks[k], block_sizes[k], size, p), k, p, size)
<1> DEFINE oldp == blocks[k]
           oldsize == block_sizes[k]
           mem == Copied(oldp, oldsize, size, p)
<1>1. /\ DOMAIN memory = HeapLo..(mem_max_addr - 1)
      /\ oldp \in HeapLo..mem_max_addr /\ oldsize \in Nat \ {0}
      /\ oldp + oldsize <= mem_max_addr
      /\ \A a \in Bytes(oldp, oldsize) : memory[a] = k % ByteSize
  BY HeapTyped DEF Filled, Placed
<1>2. p \in HeapLo..mem_max_addr /\ p + size <= mem_max_addr
  BY DEF Clear
<1>3. Smaller(oldsize, size) = Smaller(size, oldsize)
  BY <1>1 DEF Smaller
<1>4. AsChar(k % ByteSize) = k % ByteSize
  <2>1. ByteSize \in Nat \ {0}
    BY DriverAssumption
  <2>2. k % ByteSize \in Nat /\ ByteSize \div 2 \in Nat
    BY <2>1
  <2> DEFINE byte == k % ByteSize
             half == ByteSize \div 2
  <2>3. byte \in Nat /\ half \in Nat /\ byte < half
    BY <2>2
  <2> HIDE DEF byte, half
  <2>4. ~(byte >= half)
    BY <2>3
  <2> QED
    BY <2>4 DEF AsChar, byte, half
<1> HIDE DEF oldp, oldsize
<1>5. ASSUME NEW a \in Bytes(p, Smaller(size, oldsize))
      PROVE  mem[a] = k % ByteSize
  <2>1. /\ a \in DOMAIN memory
        /\ oldp + (a - p) \in DOMAIN memory /\ oldp + (a - p) \in Bytes(oldp, oldsize)
    BY <1>1, <1>2, HeapTyped DEF Bytes, Smaller
  <2>2. mem[a] = memory[oldp + (a - p)]
    BY <1>3, <2>1 DEF Copied
  <2> QED
    BY <1>1, <2>1, <2>2
<1> HIDE DEF mem
<1>6. Preserved(mem, k, p, size)
  BY <1>4, <1>5 DEF Preserved, oldsize
<1> QED
  BY <1>6 DEF mem, oldp, oldsize

LEMMA AcceptsAlloc ==
  ASSUME OnTrace, OnTrace', ListInv, DataInv, package = "good", ValidAlloc,
         message \in {"none", "failed"}
  PROVE  message' \in {"none", "failed"}
<1> DEFINE k == Trace[i].index
           size == Trace[i].size
           fault(p) == IF p = NULL THEN "failed" ELSE Fault(ranges, p, size)
<1>1. At("valid", "a")
  BY DEF ValidAlloc
<1>2. PICK p \in Addresses :
        /\ Malloc(size, p)
        /\ message' = IF fault(p) = "none" THEN message ELSE fault(p)
  BY DEF ValidAlloc, Proceed, Reject
<1>3. size \in Nat \ {0} /\ phase = "valid"
  <2> DEFINE half == Word \div 2 - 1
  <2>1. size \in 1..half /\ size \in Nat /\ phase = "valid"
    BY <1>1, NextRequest
  <2> HIDE DEF half
  <2> QED
    BY <2>1
<1>4. /\ Lists(ranges, LiveIds, blocks, block_sizes)
      /\ Filled(LiveIds, blocks, block_sizes, held, memory)
  BY <1>3 DEF ListInv, DataInv, Sound
<1>5. CASE p = NULL
  BY <1>2, <1>5
<1>6. CASE p # NULL
  <2>1. Correct(size, held, p)
    BY <1>2, <1>6 DEF Malloc, Allocate
  <2>2. Fault(ranges, p, size) = "none"
    BY <1>3, <1>4, <2>1, CorrectPasses
  <2> QED
    BY <1>2, <1>6, <2>2
<1> QED
  BY <1>5, <1>6

LEMMA AcceptsRealloc ==
  ASSUME OnTrace, OnTrace', WellFormed, LowIds, ListInv, DataInv, package = "good",
         ValidRealloc, message \in {"none", "failed"}
  PROVE  message' \in {"none", "failed"}
<1> DEFINE k == Trace[i].index
           size == Trace[i].size
           oldp == blocks[k]
           oldsize == block_sizes[k]
           rest == Without(ranges, oldp)
           others == {b \in held : b.lo # oldp}
           fault(p) == IF p = NULL THEN "failed" ELSE Fault(rest, p, size)
<1>1. At("valid", "r")
  BY DEF ValidRealloc
<1>2. PICK p, mem :
        /\ p \in Addresses /\ Realloc(oldp, oldsize, size, p, mem)
        /\ message' = IF fault(p) # "none" THEN fault(p)
                      ELSE IF Preserved(mem, k, p, size) THEN message ELSE "data lost"
  BY DEF ValidRealloc, Proceed, Reject
<1>3. size \in Nat \ {0} /\ phase = "valid" /\ k \in Nat /\ i \in DOMAIN Trace
  <2> DEFINE half == Word \div 2 - 1
  <2>1. size \in 1..half /\ size \in Nat /\ phase = "valid" /\ k \in Nat /\ i \in DOMAIN Trace
    BY <1>1, NextRequest
  <2> HIDE DEF half
  <2> QED
    BY <2>1
<1>4. k \in LiveIds /\ k % ByteSize < ByteSize \div 2
  <2>1. PICK test \in Tests : package = test.package /\ traces = test.traces
    BY DEF OnTrace
  <2>2. tracenum \in DOMAIN test.traces /\ i \in DOMAIN test.traces[tracenum]
    BY <1>3, <2>1, TraceTyped DEF Trace
  <2>3. Trace[i].type = "r" /\ Trace = test.traces[tracenum]
    BY <1>1, <2>1 DEF At, Trace
  <2>4. k \in Live(Trace, i)
    BY <2>1, <2>2, <2>3 DEF WellFormed
  <2> QED
    BY <2>1, <2>2, <2>3, <2>4, LiveIdsIs DEF LowIds
<1>5. /\ Lists(ranges, LiveIds, blocks, block_sizes)
      /\ Filled(LiveIds, blocks, block_sizes, held, memory)
  BY <1>3 DEF ListInv, DataInv, Sound
<1>6. /\ Lists(rest, LiveIds \ {k}, blocks, block_sizes)
      /\ Filled(LiveIds \ {k}, blocks, block_sizes, others, memory)
  <2>1. Lists(rest, LiveIds \ {k}, blocks, block_sizes)
    BY <1>4, <1>5, ListsDrop
  <2>2. Filled(LiveIds \ {k}, blocks, block_sizes, others, memory)
    BY <1>4, <1>5, FilledDrop
  <2> QED
    BY <2>1, <2>2
<1>7. CASE p = NULL
  BY <1>2, <1>7
<1>8. CASE p # NULL
  <2>1. Correct(size, others, p) /\ mem = Copied(oldp, oldsize, size, p) /\ p \in Addresses
    BY <1>2, <1>8 DEF Realloc, Allocate
  <2> HIDE DEF k, size, oldp, oldsize, rest, others
  <2>2. Fault(rest, p, size) = "none"
    BY <1>3, <1>6, <2>1, CorrectPasses
  <2>3. Clear(p, size, others)
    BY <1>3, <2>1, CorrectClear
  <2>4. Preserved(mem, k, p, size)
    BY <1>3, <1>4, <1>5, <2>1, <2>3, CopyPreserves DEF oldp, oldsize
  <2> QED
    BY <1>2, <1>8, <2>2, <2>4
<1> QED
  BY <1>7, <1>8

\* eval_mm_valid finds no fault with a correct package, but for the failures it
\* reports itself.
THEOREM AcceptsCorrectHolds ==
  SmallRequests /\ WellFormed /\ LowIds => (Spec => []AcceptsCorrect)
<1> SUFFICES ASSUME SmallRequests, WellFormed, LowIds
             PROVE  Spec => []AcceptsCorrect
  OBVIOUS
<1>1. Init => AcceptsCorrect
  BY DEF Init, AcceptsCorrect
<1>2. ASSUME OnTrace, OnTrace', ListInv, DataInv, AcceptsCorrect, [Next]_vars
      PROVE  AcceptsCorrect'
  <2>1. package' = package
    BY <1>2 DEF Next, StartValid, ValidAlloc, ValidRealloc, ValidFree, StartUtil, UtilAlloc,
         UtilRealloc, UtilFree, StartSpeed, SpeedAlloc, SpeedRealloc, SpeedFree, SpeedRequest,
         EndSpeed, InitFails, NextTrace, Exit, vars, setup
  <2> SUFFICES ASSUME package = "good", message \in {"none", "failed"}
               PROVE  message' \in {"none", "failed"}
    BY <1>2, <2>1 DEF AcceptsCorrect
  <2>2. CASE ValidAlloc
    BY <1>2, <2>2, AcceptsAlloc
  <2>3. CASE ValidRealloc
    BY <1>2, <2>3, AcceptsRealloc
  <2>4. CASE NextTrace \/ InitFails
    BY <2>4 DEF NextTrace, InitFails, Reject, verdict
  <2>5. CASE ValidFree \/ StartValid \/ StartUtil \/ StartSpeed \/ EndSpeed
    BY <2>5 DEF ValidFree, StartValid, StartUtil, StartSpeed, EndSpeed, Proceed, verdict
  <2>6. CASE UtilAlloc \/ UtilRealloc \/ UtilFree \/ SpeedAlloc \/ SpeedRealloc \/ SpeedFree
    BY <2>6 DEF UtilAlloc, UtilRealloc, UtilFree, SpeedAlloc, SpeedRealloc, SpeedFree,
                SpeedRequest, verdict
  <2>7. CASE Exit \/ UNCHANGED vars
    BY <2>7 DEF Exit, vars
  <2> QED
    BY <1>2, <2>2, <2>3, <2>4, <2>5, <2>6, <2>7 DEF Next
<1> QED
  BY <1>1, <1>2, DataInvAlways, ListInvAlways, PTL DEF Spec

-----------------------------------------------------------------------------
(* What mm.c is rejected for                                               *)

\* The request that is next.
MmNext ==
  package = "mm" /\ Unwrapped /\ phase = "valid" /\ i \in DOMAIN Trace /\ Trace[i].type # "f"

\* What mm.c has asked for is how far the break is, and the next request.
LEMMA AskedIs ==
  ASSUME OnTrace, MmInv, MmNext
  PROVE  /\ Asked = mem_brk - HeapLo + Rounded(Trace[i].size)
         /\ Rounded(Trace[i].size) \in Nat
<1> DEFINE r(n) == IF Trace[n].type = "f" THEN 0 ELSE Rounded(Trace[n].size)
           Sums(f) == [n \in 0..i |-> IF n = 0 THEN 0 ELSE f[n - 1] + r(n)]
<1>1. /\ i \in Nat \ {0} /\ DOMAIN Trace = 1..Len(Trace) /\ Len(Trace) \in Nat
      /\ \A n \in 1..i : r(n) \in Nat
  <2>1. /\ i \in Nat \ {0} /\ DOMAIN Trace = 1..Len(Trace) /\ Len(Trace) \in Nat
        /\ i \in 1..Len(Trace)
    BY TraceTyped DEF OnTrace, MmNext
  <2>2. ASSUME NEW n \in 1..i
        PROVE  r(n) \in Nat
    <3>1. n \in DOMAIN Trace
      BY <2>1
    <3> QED
      BY <3>1, RequestTyped, RoundedNat
  <2> QED
    BY <2>1, <2>2
<1>2. PICK h : Course(Trace, h, i - 1) /\ mem_brk = h[i]
  BY DEF MmInv, MmNext
<1>3. /\ h[1] = HeapLo /\ HeapLo \in Nat /\ \A n \in 1..i : h[n] \in Nat
      /\ \A n \in 1..(i - 1) : h[n + 1] = h[n] + r(n)
  <2>1. /\ h \in [1..i -> HeapLo..mem_max_addr] /\ h[1] = HeapLo
        /\ \A n \in 1..(i - 1) :
             IF Trace[n].type = "f" THEN h[n + 1] = h[n]
             ELSE h[n + 1] = h[n] + Rounded(Trace[n].size)
    <3>1. i - 1 + 1 = i
      BY <1>1
    <3> QED
      BY <1>2, <3>1 DEF Course
  <2>2. \A n \in 1..i : h[n] \in Nat
    BY <2>1, HeapTyped
  <2>3. \A n \in 1..(i - 1) : h[n + 1] = h[n] + r(n)
    <3> SUFFICES ASSUME NEW n \in 1..(i - 1)
                 PROVE  h[n + 1] = h[n] + r(n)
      OBVIOUS
    <3>1. h[n] \in Nat
      BY <1>1, <2>2
    <3> QED
      BY <2>1, <3>1
  <2> QED
    BY <2>1, <2>2, <2>3, HeapTyped
<1>4. r(i) = Rounded(Trace[i].size) /\ r(i) \in Nat
  BY <1>1 DEF MmNext
<1>5. Asked = (CHOOSE f : f = Sums(f))[i]
  BY DEF Asked
<1> DEFINE s == [n \in 0..i |-> IF n = i THEN h[i] - HeapLo + r(i) ELSE h[n + 1] - HeapLo]
<1> HIDE DEF r
<1>6. s = Sums(s)
  <2>1. ASSUME NEW n \in 0..i
        PROVE  s[n] = IF n = 0 THEN 0 ELSE s[n - 1] + r(n)
    <3>1. CASE n = 0
      <4>1. s[n] = h[1] - HeapLo
        BY <1>1, <3>1
      <4> QED
        BY <1>3, <3>1, <4>1
    <3>2. CASE n # 0
      <4>1. n \in 1..i /\ n - 1 \in 0..i /\ n - 1 # i /\ n - 1 + 1 = n
        BY <1>1, <3>2
      <4>2. s[n - 1] = h[n] - HeapLo
        BY <4>1
      <4>3. s[n] = h[n] - HeapLo + r(n)
        <5>1. CASE n = i
          BY <4>1, <5>1
        <5>2. CASE n # i
          <6>1. n \in 1..(i - 1) /\ s[n] = h[n + 1] - HeapLo
            BY <1>1, <4>1, <5>2
          <6>2. h[n + 1] = h[n] + r(n) /\ h[n] \in Nat /\ r(n) \in Nat
            BY <1>1, <1>3, <4>1, <6>1
          <6> QED
            BY <1>3, <6>1, <6>2
        <5> QED
          BY <5>1, <5>2
      <4> QED
        BY <3>2, <4>2, <4>3
    <3> QED
      BY <3>1, <3>2
  <2> HIDE DEF s
  <2>2. s = [n \in 0..i |-> s[n]]
    BY DEF s
  <2> QED
    BY <2>1, <2>2
<1> HIDE DEF s
<1> DEFINE f == CHOOSE g : g = Sums(g)
<1>7. f = Sums(f)
  BY <1>6
<1>8. Asked = f[i]
  BY <1>5
<1> HIDE DEF f
<1>9. /\ \A n \in 0..i : f[n] = IF n = 0 THEN 0 ELSE f[n - 1] + r(n)
      /\ \A n \in 0..i : s[n] = IF n = 0 THEN 0 ELSE s[n - 1] + r(n)
  BY <1>6, <1>7
<1>10. \A n \in 0..i : f[n] = s[n]
  <2> DEFINE Bad == {n \in 0..i : f[n] # s[n]}
  <2> SUFFICES ASSUME Bad # {}
               PROVE  FALSE
    OBVIOUS
  <2>1. Bad \in SUBSET Nat
    BY <1>1
  <2>2. PICK n \in Bad : \A m \in Bad : n <= m
    BY <2>1, LeastNatural, Zenon
  <2>3. n \in 0..i /\ f[n] # s[n] /\ i \in Nat
    BY <1>1
  <2>4. n # 0
    BY <1>9, <2>3
  <2>5. n - 1 \in 0..i /\ ~(n <= n - 1)
    BY <2>3, <2>4
  <2>6. f[n - 1] = s[n - 1]
    BY <2>2, <2>5
  <2> QED
    BY <1>9, <2>3, <2>4, <2>6
<1>11. s[i] = h[i] - HeapLo + r(i)
  BY <1>1 DEF s
<1> QED
  BY <1>1, <1>2, <1>4, <1>8, <1>10, <1>11

\* The pointer -1 is not aligned, or not in the heap.
LEMMA FailureFault ==
  ASSUME mem_brk' \in HeapLo..mem_max_addr, NEW list, NEW size
  PROVE  Fault(list, Failure, size) \in {"not aligned", "outside heap"}
<1>1. \/ Failure % ALIGNMENT # 0
      \/ Failure \notin HeapLo..HeapHi(mem_brk')
  <2> SUFFICES ASSUME Failure \in HeapLo..HeapHi(mem_brk')
               PROVE  FALSE
    OBVIOUS
  <2> DEFINE brk == mem_brk'
  <2>1. brk \in HeapLo..mem_max_addr /\ Failure \in HeapLo..HeapHi(brk)
    OBVIOUS
  <2> HIDE DEF brk
  <2>2. brk - 1 \in 0..(Word - 1) /\ Word \in Nat \ {0} /\ brk - 1 < Word - 1
    BY <2>1, HeapTyped
  <2>3. HeapHi(brk) = brk - 1
    BY <2>2, ModSmall DEF HeapHi
  <2> QED
    BY <2>1, <2>2, <2>3, HeapTyped DEF Failure
<1> QED
  BY <1>1 DEF Fault

\* A request of mm.c that is not served is one the heap has no room for.
LEMMA MmAnswer ==
  ASSUME OnTrace, Unwrapped, MmInv, package = "mm", NEW type \in {"a", "r"}, At("valid", type),
         NEW ptr, NEW p, mm_malloc(Trace[i].size, p) \/ mm_realloc(ptr, Trace[i].size, p),
         NEW list, NEW K, NEW B, NEW S, Lists(list, K, B, S),
         NEW G \in SUBSET held, NEW mem, Filled(K, B, S, G, mem)
  PROVE  /\ p # NULL
         /\ Fault(list, p, Trace[i].size) # "none" =>
              /\ Fault(list, p, Trace[i].size) \in {"not aligned", "outside heap"}
              /\ Asked > MAX_HEAP
<1> DEFINE size == Trace[i].size
           r == Rounded(size)
<1>1. mem_brk \in HeapLo..mem_max_addr /\ phase = "valid" /\ i \in DOMAIN Trace
      /\ Trace[i].type # "f"
  BY MmState, NextRequest DEF At
<1>2. size \in Nat \ {0} /\ mem_max_addr + size + ALIGNMENT <= Word
  BY MmRequest
<1>3. Outcome(size, p)
  BY <1>1, <1>2, MmOutcome
<1>4. Asked = mem_brk - HeapLo + r /\ r \in Nat
  BY <1>1, AskedIs DEF MmNext
<1>5. CASE HasRoom(size)
  <2>1. p = mem_brk /\ mem_brk' = mem_brk + r
    BY <1>3, <1>5 DEF Outcome
  <2>2. Clear(p, size, G) /\ p % ALIGNMENT = 0 /\ p + size <= mem_brk'
    BY <1>5, <2>1, RoomClear
  <2>3. mem_brk + r \in 0..mem_max_addr /\ p \in Addresses /\ p # NULL
    BY <1>1, <1>4, <1>5, <2>1, HeapTyped DEF HasRoom, Addresses, NULL
  <2>4. mem_brk' \in 0..mem_max_addr
    BY <2>1, <2>3
  <2> HIDE DEF size
  <2>5. Fault(list, p, size) = "none"
    BY <1>2, <2>2, <2>3, <2>4, ClearPasses
  <2> QED
    BY <2>3, <2>5 DEF size
<1>6. CASE ~HasRoom(size)
  <2>1. p = Failure /\ mem_brk' = mem_brk
    BY <1>3, <1>6 DEF Outcome
  <2>2. p # NULL
    BY <2>1, HeapTyped DEF Failure, NULL
  <2>3. mem_brk' \in HeapLo..mem_max_addr
    BY <1>1, <2>1
  <2>4. Fault(list, p, size) \in {"not aligned", "outside heap"}
    BY <2>1, <2>3, FailureFault
  <2>5. Asked > MAX_HEAP
    <3>1. CASE r >= Word \div 2
      <4>1. r <= size + ALIGNMENT - 1 /\ ALIGNMENT \in Nat
        BY <1>2, RoundedUp, HeapTyped, MemLibAssumption
      <4> DEFINE half == Word \div 2
      <4>2. Word <= 2 * half + 1 /\ half \in Nat
        BY HeapTyped
      <4>3. r >= half
        BY <3>1
      <4> HIDE DEF half, r
      <4>4. mem_max_addr = HeapLo + MAX_HEAP
        BY DEF mem_max_addr
      <4>5. r > MAX_HEAP
        BY <1>2, <1>4, <4>1, <4>2, <4>3, <4>4, HeapTyped
      <4> QED
        BY <1>1, <1>4, <4>5, HeapTyped
    <3>2. CASE mem_brk + r > mem_max_addr
      <4>1. mem_max_addr = HeapLo + MAX_HEAP
        BY DEF mem_max_addr
      <4> QED
        BY <1>1, <1>4, <3>2, <4>1, HeapTyped
    <3> QED
      BY <1>1, <1>4, <1>6, <3>1, <3>2, HeapTyped, MemLibAssumption DEF HasRoom
  <2> QED
    BY <2>2, <2>4, <2>5
<1> QED
  BY <1>5, <1>6

\* A fault ends a trace; MmServesWhatFits says what it is.
ServesInv ==
  /\ phase # "next" => message = "none"
  /\ MmServesWhatFits

LEMMA SameAsked ==
  ASSUME UNCHANGED <<setup, tracenum, i>>
  PROVE  Asked' = Asked
BY DEF Asked, Trace, setup

LEMMA ServesAlloc ==
  ASSUME OnTrace, Unwrapped, MmInv, ListInv, DataInv, ServesInv, ValidAlloc
  PROVE  ServesInv'
<1> DEFINE size == Trace[i].size
           fault(p) == IF p = NULL THEN "failed" ELSE Fault(ranges, p, size)
<1>1. At("valid", "a") /\ UNCHANGED <<setup, tracenum>> /\ phase = "valid" /\ message = "none"
  BY DEF ValidAlloc, At, ServesInv
<1>2. PICK p \in Addresses :
        /\ Malloc(size, p)
        /\ IF fault(p) = "none" THEN Proceed ELSE Reject(fault(p))
  BY DEF ValidAlloc
<1>3. CASE fault(p) = "none"
  BY <1>1, <1>2, <1>3 DEF Proceed, ServesInv, MmServesWhatFits
<1>4. CASE fault(p) # "none"
  <2>1. phase' = "next" /\ message' = fault(p) /\ UNCHANGED i
    BY <1>2, <1>4 DEF Reject
  <2>2. Asked' = Asked
    BY <1>1, <2>1, SameAsked
  <2>3. CASE package = "mm"
    <3>1. mm_malloc(size, p)
      BY <1>2, <2>3 DEF Malloc, Allocate
    <3>2. /\ Lists(ranges, LiveIds, blocks, block_sizes)
          /\ Filled(LiveIds, blocks, block_sizes, held, memory)
      BY <1>1, <2>3 DEF ListInv, DataInv, Sound
    <3>3. /\ p # NULL
          /\ Fault(ranges, p, size) # "none" =>
               /\ Fault(ranges, p, size) \in {"not aligned", "outside heap"}
               /\ Asked > MAX_HEAP
      <4>1. held \in SUBSET held /\ "a" \in {"a", "r"}
        OBVIOUS
      <4> QED
        BY <1>1, <2>3, <3>1, <3>2, <4>1, MmAnswer
    <3> QED
      BY <1>4, <2>1, <2>2, <3>3 DEF ServesInv, MmServesWhatFits
  <2>4. CASE package # "mm"
    BY <1>1, <2>1, <2>4 DEF ServesInv, MmServesWhatFits, setup
  <2> QED
    BY <2>3, <2>4
<1> QED
  BY <1>3, <1>4

LEMMA ServesRealloc ==
  ASSUME OnTrace, WellFormed, Unwrapped, MmInv, ListInv, DataInv, ServesInv, ValidRealloc
  PROVE  ServesInv'
<1> DEFINE k == Trace[i].index
           size == Trace[i].size
           oldp == blocks[k]
           oldsize == block_sizes[k]
           rest == Without(ranges, oldp)
           others == {b \in held : b.lo # oldp}
           fault(p) == IF p = NULL THEN "failed" ELSE Fault(rest, p, size)
<1>1. At("valid", "r") /\ UNCHANGED <<setup, tracenum>> /\ phase = "valid" /\ message = "none"
      /\ Trace[i].type = "r"
  BY DEF ValidRealloc, At, ServesInv
<1>2. PICK p, mem :
        /\ p \in Addresses /\ Realloc(oldp, oldsize, size, p, mem)
        /\ \/ Proceed
           \/ fault(p) # "none" /\ Reject(fault(p))
           \/ Reject("data lost")
  BY DEF ValidRealloc
<1>3. CASE Proceed
  BY <1>1, <1>3 DEF Proceed, ServesInv, MmServesWhatFits
<1>4. CASE Reject("data lost")
  <2>1. phase' = "next" /\ message' = "data lost" /\ UNCHANGED i
    BY <1>4 DEF Reject
  <2>2. Trace'[i'].type = "r"
    BY <1>1, <2>1, SameTrace
  <2> QED
    BY <2>1, <2>2 DEF ServesInv, MmServesWhatFits
<1>5. CASE fault(p) # "none" /\ Reject(fault(p))
  <2>1. phase' = "next" /\ message' = fault(p) /\ UNCHANGED i
    BY <1>5 DEF Reject
  <2>2. Asked' = Asked
    BY <1>1, <2>1, SameAsked
  <2>3. CASE package = "mm"
    <3>1. mm_realloc(oldp, size, p)
      BY <1>2, <2>3 DEF Realloc, Allocate
    <3>2. k \in LiveIds
      <4>1. PICK test \in Tests : traces = test.traces
        BY DEF OnTrace
      <4>2. tracenum \in DOMAIN test.traces /\ i \in DOMAIN test.traces[tracenum]
        BY <1>1, <4>1, TraceTyped, NextRequest DEF Trace
      <4> QED
        BY <1>1, <4>1, <4>2, LiveIdsIs DEF WellFormed, Trace
    <3>3. /\ Lists(ranges, LiveIds, blocks, block_sizes)
          /\ Filled(LiveIds, blocks, block_sizes, held, memory)
      BY <1>1, <2>3 DEF ListInv, DataInv, Sound
    <3>4. Lists(rest, LiveIds \ {k}, blocks, block_sizes)
      BY <3>2, <3>3, ListsDrop
    <3>5. Filled(LiveIds \ {k}, blocks, block_sizes, others, memory)
      BY <3>2, <3>3, FilledDrop
    <3>6. others \in SUBSET held /\ "r" \in {"a", "r"}
      OBVIOUS
    <3> HIDE DEF rest, others, oldp, k
    <3>7. /\ p # NULL
          /\ Fault(rest, p, size) # "none" =>
               /\ Fault(rest, p, size) \in {"not aligned", "outside heap"}
               /\ Asked > MAX_HEAP
      BY <1>1, <2>3, <3>1, <3>4, <3>5, <3>6, MmAnswer
    <3> QED
      BY <1>5, <2>1, <2>2, <3>7 DEF ServesInv, MmServesWhatFits
  <2>4. CASE package # "mm"
    BY <1>1, <2>1, <2>4 DEF ServesInv, MmServesWhatFits, setup
  <2> QED
    BY <2>3, <2>4
<1> QED
  BY <1>2, <1>3, <1>4, <1>5

\* mm.c is rejected for nothing but the data its mm_realloc loses, as long as
\* the heap has room for what the trace asks for.
THEOREM MmServesWhatFitsHolds ==
  SmallRequests /\ WellFormed /\ Unwrapped => (Spec => []MmServesWhatFits)
<1> SUFFICES ASSUME SmallRequests, WellFormed, Unwrapped
             PROVE  Spec => []MmServesWhatFits
  OBVIOUS
<1>1. Init => ServesInv
  BY DEF Init, ServesInv, MmServesWhatFits
<1>2. ASSUME OnTrace, MmSafe, ListInv, DataInv, ServesInv, [Next]_vars
      PROVE  ServesInv'
  <2>1. MmInv /\ (phase # "next" => message = "none")
    BY <1>2 DEF MmSafe, ServesInv
  <2>2. CASE ValidAlloc
    BY <1>2, <2>1, <2>2, ServesAlloc
  <2>3. CASE ValidRealloc
    BY <1>2, <2>1, <2>3, ServesRealloc
  <2>4. ASSUME message' = "none"
        PROVE  ServesInv'
    BY <2>4 DEF ServesInv, MmServesWhatFits
  <2>5. CASE NextTrace
    BY <2>4, <2>5 DEF NextTrace
  <2>6. CASE ValidFree \/ StartValid \/ StartUtil \/ StartSpeed \/ EndSpeed
    BY <2>1, <2>4, <2>6 DEF ValidFree, StartValid, StartUtil, StartSpeed, EndSpeed, Proceed,
                            verdict, At
  <2>7. CASE UtilAlloc \/ UtilRealloc \/ UtilFree \/ SpeedAlloc \/ SpeedRealloc \/ SpeedFree
    BY <2>1, <2>4, <2>7 DEF UtilAlloc, UtilRealloc, UtilFree, SpeedAlloc, SpeedRealloc,
                            SpeedFree, SpeedRequest, verdict, At
  <2>8. CASE Exit \/ UNCHANGED vars
    <3>1. UNCHANGED <<setup, tracenum, i, phase, message>>
      BY <2>8 DEF Exit, vars
    <3>2. Asked' = Asked /\ Trace' = Trace
      BY <3>1, SameAsked, SameTrace
    <3> QED
      BY <1>2, <3>1, <3>2 DEF ServesInv, MmServesWhatFits, setup
  <2>9. CASE InitFails
    BY <2>1, <2>9 DEF InitFails, Reject, setup, verdict, ServesInv, MmServesWhatFits
  <2> QED
    BY <1>2, <2>2, <2>3, <2>5, <2>6, <2>7, <2>8, <2>9 DEF Next
<1>3. ServesInv => MmServesWhatFits
  BY DEF ServesInv
<1> QED
  BY <1>1, <1>2, <1>3, DataInvAlways, ListInvAlways, PTL DEF Spec

-----------------------------------------------------------------------------
(* The sum of the sizes                                                    *)

\* As many elements as the blocks of the ids in K have bytes: the sum of their
\* sizes is the cardinality of this set.
Units(K, S) == {u \in K \X Nat : u[2] \in 1..S[u[1]]}

UnitsOf(k, size) == {k} \X (1..size)

LEMMA UnitsOfCard ==
  ASSUME NEW k, NEW size \in Nat
  PROVE  IsFiniteSet(UnitsOf(k, size)) /\ Cardinality(UnitsOf(k, size)) = size
<1>1. IsFiniteSet({k}) /\ Cardinality({k}) = 1
  BY FS_Singleton
<1>2. IsFiniteSet(1..size) /\ Cardinality(1..size) = size
  BY FS_Interval
<1>3. /\ IsFiniteSet({k} \X (1..size))
      /\ Cardinality({k} \X (1..size)) = Cardinality({k}) * Cardinality(1..size)
  BY <1>1, <1>2, FS_Product
<1> QED
  BY <1>1, <1>2, <1>3 DEF UnitsOf

LEMMA UnitsAdd ==
  ASSUME NEW K, NEW S, K \subseteq DOMAIN S, NEW k \in DOMAIN S, k \notin K,
         NEW size \in Nat, IsFiniteSet(Units(K, S))
  PROVE  LET T == Units(K \cup {k}, [S EXCEPT ![k] = size])
         IN  IsFiniteSet(T) /\ Cardinality(T) = Cardinality(Units(K, S)) + size
<1> DEFINE T == Units(K \cup {k}, [S EXCEPT ![k] = size])
           U == Units(K, S)
           V == UnitsOf(k, size)
<1>1. T = U \cup V
  BY DEF Units, UnitsOf
<1>2. U \cap V = {}
  BY DEF Units, UnitsOf
<1>3. IsFiniteSet(V) /\ Cardinality(V) = size
  BY UnitsOfCard
<1>4. IsFiniteSet(U)
  OBVIOUS
<1> HIDE DEF T, U, V
<1>5. IsFiniteSet(U \cup V) /\ Cardinality(U \cup V) = Cardinality(U) + size - Cardinality({})
  BY <1>2, <1>3, <1>4, FS_Union
<1>6. Cardinality({}) = 0 /\ Cardinality(U) \in Nat
  BY <1>4, FS_EmptySet, FS_CardinalityType
<1>7. IsFiniteSet(T) /\ Cardinality(T) = Cardinality(U) + size
  BY <1>1, <1>5, <1>6
<1> QED
  BY <1>7 DEF T, U

LEMMA UnitsDrop ==
  ASSUME NEW K, NEW S, NEW k \in K, S[k] \in Nat, IsFiniteSet(Units(K, S))
  PROVE  /\ IsFiniteSet(Units(K \ {k}, S))
         /\ Cardinality(Units(K \ {k}, S)) = Cardinality(Units(K, S)) - S[k]
<1> DEFINE T == Units(K \ {k}, S)
           U == Units(K, S)
           V == UnitsOf(k, S[k])
<1>1. T = U \ V /\ U \cap V = V
  BY DEF Units, UnitsOf
<1>2. Cardinality(V) = S[k]
  BY UnitsOfCard
<1>3. IsFiniteSet(U)
  OBVIOUS
<1> HIDE DEF T, U, V
<1>4. IsFiniteSet(U \ V) /\ Cardinality(U \ V) = Cardinality(U) - Cardinality(U \cap V)
  BY <1>3, FS_Difference
<1>5. IsFiniteSet(T) /\ Cardinality(T) = Cardinality(U) - S[k]
  BY <1>1, <1>2, <1>4
<1> QED
  BY <1>5 DEF T, U

\* Disjoint blocks need no more bytes than there are where they lie.
LEMMA UnitsFit ==
  ASSUME NEW K, NEW B, NEW S, NEW H, NEW top \in HeapLo..mem_max_addr,
         Placed(K, B, S, H, top), IsFiniteSet(Units(K, S))
  PROVE  Cardinality(Units(K, S)) <= top - HeapLo
<1> DEFINE U == Units(K, S)
           T == HeapLo..(top - 1)
           f == [u \in U |-> B[u[1]] + u[2] - 1]
<1>1. /\ \A k \in K : B[k] \in HeapLo..top /\ S[k] \in Nat \ {0} /\ B[k] + S[k] <= top
      /\ \A k, l \in K : k # l => B[k] + S[k] <= B[l] \/ B[l] + S[l] <= B[k]
  BY DEF Placed
<1>2. \A u \in U : u = <<u[1], u[2]>> /\ u[1] \in K /\ u[2] \in 1..S[u[1]]
  BY DEF Units
<1>3. top \in Nat /\ HeapLo \in Nat /\ HeapLo <= top
  BY HeapTyped
<1> HIDE DEF U
<1>4. f \in [U -> T]
  BY <1>1, <1>2, <1>3
<1>5. ASSUME NEW u \in U, NEW v \in U, f[u] = f[v]
      PROVE  u = v
  <2>1. B[u[1]] + u[2] = B[v[1]] + v[2]
    BY <1>1, <1>2, <1>3, <1>5
  <2>2. u[1] = v[1]
    BY <1>1, <1>2, <1>3, <2>1
  <2>3. u[2] = v[2]
    BY <1>1, <1>2, <1>3, <2>1, <2>2
  <2> QED
    BY <1>2, <2>2, <2>3
<1>6. f \in Injection(U, T)
  BY <1>4, <1>5 DEF Injection, IsInjective
<1>7. IsFiniteSet(T) /\ Cardinality(T) = top - HeapLo
  <2>1. HeapLo \in Int /\ top - 1 \in Int
    BY <1>3
  <2>2. /\ IsFiniteSet(T)
        /\ Cardinality(T) = IF HeapLo > top - 1 THEN 0 ELSE top - 1 - HeapLo + 1
    BY <2>1, FS_Interval
  <2> HIDE DEF T
  <2> QED
    BY <1>3, <2>2
<1> HIDE DEF f, T
<1>8. Cardinality(U) <= top - HeapLo
  BY <1>6, <1>7, FS_Injection
<1> QED
  BY <1>8 DEF U

-----------------------------------------------------------------------------
(* Types                                                                   *)

Contents == [Bytes(HeapLo, MAX_HEAP) -> 0..(ByteSize - 1)]

\* The types of all but total_size and max_total_size.
TypeInv ==
  /\ i <= Len(Trace) + 1
  /\ phase \in {"read", "valid", "util", "speed", "next", "exited"}
  /\ ranges \in Seq(Ranges)
  /\ blocks \in [Indices -> Addresses] /\ block_sizes \in [Indices -> Nat]
  /\ memory \in Contents
  /\ calls \in 0..Repeats
  /\ errors \in Nat /\ errors <= tracenum /\ (phase # "next" => errors < tracenum)
  /\ message \in Messages

LEMMA FillTyped ==
  ASSUME NEW mem \in Contents, NEW k \in Nat, NEW p, NEW size
  PROVE  Fill(mem, k, p, size) \in Contents
<1>1. k % ByteSize \in 0..(ByteSize - 1)
  BY DriverAssumption
<1> QED
  BY <1>1 DEF Fill, Contents

LEMMA CopiedTyped ==
  ASSUME memory \in Contents, NEW oldp, NEW oldsize, NEW size, NEW p
  PROVE  Copied(oldp, oldsize, size, p) \in Contents
BY DEF Copied, Contents

LEMMA AddTyped ==
  ASSUME NEW list \in Seq(Ranges), NEW p \in Addresses, NEW size \in Nat,
         AddRange(list, p, size)
  PROVE  ranges' \in Seq(Ranges)
<1> DEFINE new == [lo |-> p, hi |-> (p + size - 1) % Word]
<1>1. new \in Ranges
  <2>1. Word \in Nat \ {0} /\ p + size - 1 \in Int
    BY HeapTyped DEF Addresses
  <2>2. (p + size - 1) % Word \in Addresses
    BY <2>1, ModRange DEF Addresses
  <2> QED
    BY <2>2 DEF Ranges
<1>2. ranges' = <<new>> \o list
  BY DEF AddRange
<1> HIDE DEF new
<1>3. <<new>> \in Seq(Ranges)
  BY <1>1
<1> DEFINE head == <<new>>
<1>4. head \in Seq(Ranges) /\ ranges' = head \o list
  BY <1>2, <1>3
<1> HIDE DEF head
<1>5. head \o list \in Seq(Ranges)
  BY <1>4, ConcatProperties, Zenon
<1> QED
  BY <1>4, <1>5

LEMMA FaultTyped ==
  ASSUME NEW list, NEW p, NEW size
  PROVE  Fault(list, p, size) \in Messages
BY DEF Fault, Messages

\* A block is remembered under the id of the next request.
LEMMA RememberTyped ==
  ASSUME TypeInv, NEW k \in Nat, k \in Indices, NEW p \in Addresses, NEW size \in Nat,
         NEW mem \in Contents, Remember(k, p, size, mem)
  PROVE  /\ blocks' \in [Indices -> Addresses] /\ block_sizes' \in [Indices -> Nat]
         /\ memory' \in Contents
<1>1. memory' = Fill(mem, k, p, size)
  BY DEF Remember, Fill
<1>2. Fill(mem, k, p, size) \in Contents
  BY FillTyped
<1>3. blocks' \in [Indices -> Addresses] /\ block_sizes' \in [Indices -> Nat]
  BY DEF TypeInv, Remember
<1> QED
  BY <1>1, <1>2, <1>3

LEMMA TypeAlloc ==
  ASSUME OnTrace, TypeInv, ValidAlloc
  PROVE  TypeInv'
<1> DEFINE k == Trace[i].index
           size == Trace[i].size
           fault(p) == IF p = NULL THEN "failed" ELSE Fault(ranges, p, size)
<1>1. At("valid", "a") /\ UNCHANGED <<setup, tracenum, calls>>
  BY DEF ValidAlloc
<1>2. PICK p \in Addresses :
        \/ Proceed /\ AddRange(ranges, p, size) /\ Remember(k, p, size, memory)
        \/ Reject(fault(p)) /\ UNCHANGED <<listVars, memory>>
  BY DEF ValidAlloc
<1>3. /\ k \in Nat /\ k \in Indices /\ size \in Nat /\ Len(Trace) \in Nat
      /\ phase = "valid" /\ i \in 1..Len(Trace) /\ tracenum \in Nat
  BY <1>1, NextRequest, TraceTyped DEF OnTrace
<1>4. Trace' = Trace /\ Indices' = Indices
  BY <1>1, SameTrace
<1>5. CASE Proceed /\ AddRange(ranges, p, size) /\ Remember(k, p, size, memory)
  <2>1. /\ blocks' \in [Indices -> Addresses] /\ block_sizes' \in [Indices -> Nat]
        /\ memory' \in Contents
    BY <1>3, <1>5, RememberTyped DEF TypeInv
  <2>2. ranges' \in Seq(Ranges)
    BY <1>3, <1>5, AddTyped DEF TypeInv
  <2> QED
    BY <1>1, <1>3, <1>4, <1>5, <2>1, <2>2 DEF TypeInv, Proceed
<1>6. CASE Reject(fault(p)) /\ UNCHANGED <<listVars, memory>>
  <2>1. fault(p) \in Messages
    BY FaultTyped DEF Messages
  <2> QED
    BY <1>1, <1>3, <1>4, <1>6, <2>1 DEF TypeInv, Reject, listVars
<1> QED
  BY <1>2, <1>5, <1>6

LEMMA TypeRealloc ==
  ASSUME OnTrace, TypeInv, ValidRealloc
  PROVE  TypeInv'
<1> DEFINE k == Trace[i].index
           size == Trace[i].size
           rest == Without(ranges, blocks[k])
           fault(p) == IF p = NULL THEN "failed" ELSE Fault(rest, p, size)
<1>1. At("valid", "r") /\ UNCHANGED <<setup, tracenum, calls>>
  BY DEF ValidRealloc
<1>2. PICK p, mem :
        /\ p \in Addresses /\ mem \in {memory, Copied(blocks[k], block_sizes[k], size, p)}
        /\ \/ /\ Proceed /\ AddRange(rest, p, size) /\ Remember(k, p, size, mem)
           \/ /\ Reject(fault(p)) /\ ranges' \in {ranges, rest}
              /\ memory' = mem /\ UNCHANGED <<blocks, block_sizes>>
           \/ /\ Reject("data lost") /\ AddRange(rest, p, size)
              /\ memory' = mem /\ UNCHANGED <<blocks, block_sizes>>
  BY DEF ValidRealloc
<1>3. /\ k \in Nat /\ k \in Indices /\ size \in Nat /\ Len(Trace) \in Nat
      /\ phase = "valid" /\ i \in 1..Len(Trace) /\ tracenum \in Nat
  BY <1>1, NextRequest, TraceTyped DEF OnTrace
<1>4. Trace' = Trace /\ Indices' = Indices
  BY <1>1, SameTrace
<1>5. mem \in Contents
  <2>1. memory \in Contents
    BY DEF TypeInv
  <2>2. Copied(blocks[k], block_sizes[k], size, p) \in Contents
    BY <2>1, CopiedTyped
  <2> QED
    BY <1>2, <2>1, <2>2
<1>6. rest \in Seq(Ranges) /\ ranges \in Seq(Ranges)
  BY WithoutFirst, Zenon DEF TypeInv
<1> HIDE DEF rest
<1>7. CASE Proceed /\ AddRange(rest, p, size) /\ Remember(k, p, size, mem)
  <2>1. /\ blocks' \in [Indices -> Addresses] /\ block_sizes' \in [Indices -> Nat]
        /\ memory' \in Contents
    BY <1>2, <1>3, <1>5, <1>7, RememberTyped
  <2>2. ranges' \in Seq(Ranges)
    BY <1>2, <1>3, <1>6, <1>7, AddTyped
  <2> QED
    BY <1>1, <1>3, <1>4, <1>7, <2>1, <2>2 DEF TypeInv, Proceed
<1>8. ASSUME NEW fail \in Messages, Reject(fail), ranges' \in Seq(Ranges), memory' = mem,
             UNCHANGED <<blocks, block_sizes>>
      PROVE  TypeInv'
  BY <1>1, <1>3, <1>4, <1>5, <1>8 DEF TypeInv, Reject
<1>9. CASE /\ Reject(fault(p)) /\ ranges' \in {ranges, rest}
           /\ memory' = mem /\ UNCHANGED <<blocks, block_sizes>>
  <2>1. fault(p) \in Messages
    BY FaultTyped DEF Messages
  <2> QED
    BY <1>6, <1>8, <1>9, <2>1
<1>10. CASE /\ Reject("data lost") /\ AddRange(rest, p, size)
            /\ memory' = mem /\ UNCHANGED <<blocks, block_sizes>>
  <2>1. ranges' \in Seq(Ranges)
    BY <1>2, <1>3, <1>6, <1>10, AddTyped
  <2>2. "data lost" \in Messages
    BY DEF Messages
  <2> QED
    BY <1>8, <1>10, <2>1, <2>2
<1> QED
  BY <1>2, <1>7, <1>9, <1>10

\* The steps of the later runs.
LEMMA TypeUtil ==
  ASSUME OnTrace, TypeInv, UtilAlloc \/ UtilRealloc \/ UtilFree
  PROVE  TypeInv'
<1> DEFINE k == Trace[i].index
           size == Trace[i].size
<1>1. PICK type : At("util", type)
  BY DEF UtilAlloc, UtilRealloc, UtilFree
<1>2. UNCHANGED <<setup, tracenum, ranges, calls, errors, message>>
  BY DEF UtilAlloc, UtilRealloc, UtilFree, verdict, listVars
<1>3. /\ k \in Indices /\ size \in Nat /\ Len(Trace) \in Nat
      /\ phase = "util" /\ i \in 1..Len(Trace)
  BY <1>1, NextRequest, TraceTyped
<1>4. Trace' = Trace /\ Indices' = Indices
  BY <1>2, SameTrace
<1>5. memory' \in Contents
  <2>1. memory \in Contents
    BY DEF TypeInv
  <2>2. \A oldp, oldsize, p : Copied(oldp, oldsize, size, p) \in Contents
    BY <2>1, CopiedTyped
  <2>3. \/ memory' = memory
        \/ \E oldp, oldsize, p : memory' = Copied(oldp, oldsize, size, p)
    BY DEF UtilAlloc, UtilRealloc, UtilFree
  <2> QED
    BY <2>1, <2>2, <2>3
<1>6. i' \in {i, i + 1} /\ phase' \in {"util", "exited"}
  BY <1>3 DEF UtilAlloc, UtilRealloc, UtilFree, UtilRequest, GivesUp
<1>7. \/ UNCHANGED <<blocks, block_sizes>>
      \/ \E p \in Addresses : /\ blocks' = [blocks EXCEPT ![k] = p]
                              /\ block_sizes' = [block_sizes EXCEPT ![k] = size]
  BY DEF UtilAlloc, UtilRealloc, UtilFree, UtilRequest, GivesUp, listVars
<1>8. blocks' \in [Indices -> Addresses] /\ block_sizes' \in [Indices -> Nat]
  BY <1>3, <1>7 DEF TypeInv
<1> QED
  BY <1>2, <1>3, <1>4, <1>5, <1>6, <1>8 DEF TypeInv

LEMMA TypeSpeed ==
  ASSUME OnTrace, TypeInv, SpeedAlloc \/ SpeedRealloc \/ SpeedFree
  PROVE  TypeInv'
<1> DEFINE k == Trace[i].index
           size == Trace[i].size
<1>1. PICK type : At("speed", type)
  BY DEF SpeedAlloc, SpeedRealloc, SpeedFree
<1>2. UNCHANGED <<setup, tracenum, ranges, block_sizes, calls, errors, message>>
  BY DEF SpeedAlloc, SpeedRealloc, SpeedFree, SpeedRequest, verdict, listVars
<1>3. /\ k \in Indices /\ size \in Nat /\ Len(Trace) \in Nat
      /\ phase = "speed" /\ i \in 1..Len(Trace)
  BY <1>1, NextRequest, TraceTyped
<1>4. Trace' = Trace /\ Indices' = Indices
  BY <1>2, SameTrace
<1>5. memory' \in Contents
  <2>1. memory \in Contents
    BY DEF TypeInv
  <2>2. \A oldp, oldsize, p : Copied(oldp, oldsize, size, p) \in Contents
    BY <2>1, CopiedTyped
  <2>3. \/ memory' = memory
        \/ \E oldp, oldsize, p : memory' = Copied(oldp, oldsize, size, p)
    BY DEF SpeedAlloc, SpeedRealloc, SpeedFree
  <2> QED
    BY <2>1, <2>2, <2>3
<1>6. i' \in {i, i + 1} /\ phase' \in {"speed", "exited"}
  BY <1>3 DEF SpeedAlloc, SpeedRealloc, SpeedFree, SpeedRequest
<1>7. blocks' = blocks \/ \E p \in Addresses : blocks' = [blocks EXCEPT ![k] = p]
  BY DEF SpeedAlloc, SpeedRealloc, SpeedFree, SpeedRequest, listVars
<1>8. blocks' \in [Indices -> Addresses]
  BY <1>3, <1>7 DEF TypeInv
<1> QED
  BY <1>2, <1>3, <1>4, <1>5, <1>6, <1>8 DEF TypeInv

LEMMA TypeInvInit == Init => TypeInv
<1> SUFFICES ASSUME Init PROVE TypeInv
  OBVIOUS
<1>1. OnTrace /\ Len(Trace) \in Nat
  BY OnTraceInit, TraceTyped
<1>2. ranges \in Seq(Ranges)
  BY EmptySeq DEF Init
<1>3. memory \in Contents
  BY DriverAssumption DEF Init, Contents
<1>4. NULL \in Addresses
  BY HeapTyped DEF NULL, Addresses
<1>5. Repeats \in Nat
  BY DriverAssumption
<1> QED
  BY <1>1, <1>2, <1>3, <1>4, <1>5 DEF Init, TypeInv, Messages

LEMMA TypeInvNext == OnTrace /\ OnTrace' /\ TypeInv /\ [Next]_vars => TypeInv'
<1> SUFFICES ASSUME OnTrace, OnTrace', TypeInv, [Next]_vars
             PROVE  TypeInv'
  OBVIOUS
<1>1. Len(Trace) \in Nat /\ i \in Nat /\ tracenum \in Nat
  BY TraceTyped DEF OnTrace
<1>2. CASE ValidAlloc
  BY <1>2, TypeAlloc
<1>3. CASE ValidRealloc
  BY <1>3, TypeRealloc
<1>4. CASE UtilAlloc \/ UtilRealloc \/ UtilFree
  BY <1>4, TypeUtil
<1>5. CASE SpeedAlloc \/ SpeedRealloc \/ SpeedFree
  BY <1>5, TypeSpeed
<1>6. ASSUME UNCHANGED <<setup, tracenum>>, i' <= Len(Trace) + 1, ranges' \in Seq(Ranges),
             UNCHANGED <<blocks, block_sizes, memory, errors, message>>,
             phase' \in {"read", "valid", "util", "speed", "next", "exited"},
             phase' # "next" => errors < tracenum, calls' \in 0..Repeats
      PROVE  TypeInv'
  BY <1>6, SameTrace DEF TypeInv
<1>7. CASE StartValid
  <2>1. ranges' \in Seq(Ranges)
    BY <1>7, EmptySeq DEF StartValid
  <2> QED
    BY <1>1, <1>6, <1>7, <2>1 DEF StartValid, TypeInv, verdict
<1>14. CASE InitFails /\ phase = "read"
  <2>1. ranges' \in Seq(Ranges) /\ message' \in Messages
    BY <1>14, EmptySeq DEF InitFails, Reject, Messages
  <2>2. /\ UNCHANGED <<setup, tracenum, i, blocks, block_sizes, memory, calls>>
        /\ errors' = errors + 1 /\ phase' = "next"
    BY <1>14 DEF InitFails, Reject
  <2>3. errors' \in Nat /\ errors' <= tracenum'
    BY <1>1, <1>14, <2>2 DEF TypeInv
  <2> QED
    BY <2>1, <2>2, <2>3, SameTrace DEF TypeInv
<1>15. CASE InitFails /\ phase # "read"
  BY <1>1, <1>6, <1>15 DEF InitFails, TypeInv, verdict
<1>8. CASE ValidFree
  <2>1. ranges \in Seq(Ranges)
    BY DEF TypeInv
  <2>2. ranges' \in Seq(Ranges)
    BY <1>8, <2>1, WithoutFirst, Zenon DEF ValidFree
  <2>3. i' <= Len(Trace) + 1 /\ phase' = "valid" /\ phase = "valid"
    BY <1>1, <1>8 DEF ValidFree, Proceed, At
  <2> QED
    BY <1>6, <1>8, <2>2, <2>3 DEF ValidFree, Proceed, TypeInv
<1>9. CASE StartUtil
  BY <1>1, <1>6, <1>9 DEF StartUtil, TypeInv, verdict, listVars
<1>10. CASE StartSpeed
  <2>1. calls' \in 0..Repeats
    BY <1>10, DriverAssumption DEF StartSpeed, TypeInv
  <2> QED
    BY <1>1, <1>6, <1>10, <2>1 DEF StartSpeed, TypeInv, verdict, listVars
<1>11. CASE EndSpeed
  BY <1>1, <1>6, <1>11 DEF EndSpeed, TypeInv, verdict, listVars
<1>12. CASE NextTrace
  <2>1. /\ tracenum' = tracenum + 1 /\ i' = 1 /\ phase' = "read" /\ calls' = 0
        /\ errors' = errors /\ message' = "none" /\ ranges' = ranges /\ memory' = memory
        /\ Indices' = IdsOf(traces[tracenum + 1])
        /\ blocks' = [k \in Indices' |-> NULL] /\ block_sizes' = [k \in Indices' |-> 0]
    BY <1>12 DEF NextTrace, setup, Indices, Trace
  <2>2. Len(Trace') \in Nat
    <3>1. \A n \in 1..Len(traces) : Len(traces[n]) \in Nat
      <4>1. traces \in Seq(Seq(Request)) /\ DOMAIN traces = 1..Len(traces)
        BY TraceTyped, LenProperties
      <4>2. \A n \in 1..Len(traces) : traces[n] \in Seq(Request)
        BY <4>1, ElementOfSeq
      <4> QED
        BY <4>2, LenProperties
    <3>2. traces' = traces /\ tracenum' \in 1..Len(traces)
      BY <1>12 DEF NextTrace, setup, OnTrace
    <3> QED
      BY <3>1, <3>2 DEF Trace
  <2>3. NULL \in Addresses /\ Repeats \in Nat
    BY HeapTyped, DriverAssumption DEF NULL, Addresses
  <2>4. blocks' \in [Indices' -> Addresses] /\ block_sizes' \in [Indices' -> Nat]
    BY <2>1, <2>3
  <2>5. ranges' \in Seq(Ranges) /\ memory' \in Contents
    BY <2>1 DEF TypeInv
  <2>6. /\ errors' \in Nat /\ errors' <= tracenum' /\ errors' < tracenum'
        /\ i' <= Len(Trace') + 1
    BY <1>1, <2>1, <2>2 DEF TypeInv
  <2>7. calls' \in 0..Repeats /\ message' \in Messages
    BY <2>1, <2>3 DEF Messages
  <2> QED
    BY <2>1, <2>4, <2>5, <2>6, <2>7 DEF TypeInv
<1>13. CASE Exit \/ UNCHANGED vars
  <2>1. UNCHANGED vars
    BY <1>13 DEF Exit
  <2> QED
    BY <1>6, <2>1 DEF vars, listVars, verdict, TypeInv
<1> QED
  BY <1>2, <1>3, <1>4, <1>5, <1>7, <1>8, <1>9, <1>10, <1>11, <1>12, <1>13, <1>14,
     <1>15 DEF Next


\* total_size is the sum of the sizes of the live blocks.
CountInv ==
  /\ total_size \in Nat /\ max_total_size \in Nat
  /\ phase = "util" =>
       /\ IsFiniteSet(Units(LiveIds, block_sizes))
       /\ total_size = Cardinality(Units(LiveIds, block_sizes))

LEMMA LargerNat ==
  ASSUME NEW a \in Nat, NEW b \in Nat
  PROVE  Larger(a, b) \in Nat /\ \A c \in Int : a <= c /\ b <= c => Larger(a, b) <= c
BY DEF Larger

\* A step after which the sum is that of the live blocks again.
LEMMA CountStep ==
  ASSUME CountInv, IsFiniteSet(Units(LiveIds, block_sizes))',
         total_size' = Cardinality(Units(LiveIds, block_sizes))',
         max_total_size' = Larger(total_size', max_total_size)
  PROVE  CountInv'
<1>1. total_size' \in Nat
  BY FS_CardinalityType
<1>2. max_total_size' \in Nat
  BY <1>1, LargerNat DEF CountInv
<1> QED
  BY <1>1, <1>2 DEF CountInv

LEMMA CountAlloc ==
  ASSUME WellFormed, OnTrace, TypeInv, CountInv, UtilAlloc
  PROVE  CountInv'
<1> DEFINE k == Trace[i].index
           size == Trace[i].size
           S == block_sizes
           K == LiveIds
<1>1. At("util", "a") /\ UNCHANGED <<setup, tracenum>>
  BY DEF UtilAlloc
<1>2. \/ phase' = "exited" /\ UNCHANGED <<total_size, max_total_size>>
      \/ /\ i' = i + 1 /\ block_sizes' = [S EXCEPT ![k] = size]
         /\ total_size' = total_size + size
         /\ max_total_size' = Larger(total_size', max_total_size)
  BY DEF UtilAlloc, UtilRequest, GivesUp, Count
<1>3. CASE phase' = "exited" /\ UNCHANGED <<total_size, max_total_size>>
  BY <1>3 DEF CountInv
<1>4. CASE /\ i' = i + 1 /\ block_sizes' = [S EXCEPT ![k] = size]
           /\ total_size' = total_size + size
           /\ max_total_size' = Larger(total_size', max_total_size)
  <2>1. LiveIds' = K \cup {k} /\ k \notin K
    BY <1>1, <1>4, LiveStep
  <2>2. /\ size \in Nat /\ k \in DOMAIN S /\ K \subseteq DOMAIN S
        /\ IsFiniteSet(Units(K, S)) /\ total_size = Cardinality(Units(K, S))
    BY <1>1, NextRequest, LiveInIndices DEF TypeInv, CountInv
  <2> HIDE DEF k, size, S, K
  <2>3. /\ IsFiniteSet(Units(K \cup {k}, [S EXCEPT ![k] = size]))
        /\ Cardinality(Units(K \cup {k}, [S EXCEPT ![k] = size])) = Cardinality(Units(K, S)) + size
    BY <2>1, <2>2, UnitsAdd
  <2>4. /\ IsFiniteSet(Units(LiveIds', block_sizes'))
        /\ total_size' = Cardinality(Units(LiveIds', block_sizes'))
    BY <1>4, <2>1, <2>2, <2>3
  <2> QED
    BY <1>4, <2>4, CountStep
<1> QED
  BY <1>2, <1>3, <1>4

LEMMA CountRealloc ==
  ASSUME WellFormed, OnTrace, TypeInv, CountInv, UtilRealloc
  PROVE  CountInv'
<1> DEFINE k == Trace[i].index
           size == Trace[i].size
           S == block_sizes
           K == LiveIds
           J == K \ {k}
<1>1. At("util", "r") /\ UNCHANGED <<setup, tracenum>>
  BY DEF UtilRealloc
<1>2. \/ phase' = "exited" /\ UNCHANGED <<total_size, max_total_size>>
      \/ /\ i' = i + 1 /\ block_sizes' = [S EXCEPT ![k] = size]
         /\ total_size' = total_size + (size - S[k])
         /\ max_total_size' = Larger(total_size', max_total_size)
  BY DEF UtilRealloc, UtilRequest, GivesUp, Count
<1>3. CASE phase' = "exited" /\ UNCHANGED <<total_size, max_total_size>>
  BY <1>3 DEF CountInv
<1>4. CASE /\ i' = i + 1 /\ block_sizes' = [S EXCEPT ![k] = size]
           /\ total_size' = total_size + (size - S[k])
           /\ max_total_size' = Larger(total_size', max_total_size)
  <2>1. LiveIds' = J \cup {k} /\ k \notin J /\ k \in K
    BY <1>1, <1>4, LiveStep
  <2>2. /\ size \in Nat /\ k \in DOMAIN S /\ K \subseteq DOMAIN S /\ S[k] \in Nat
        /\ IsFiniteSet(Units(K, S)) /\ total_size = Cardinality(Units(K, S))
        /\ J \subseteq DOMAIN S
    BY <1>1, NextRequest, LiveInIndices DEF TypeInv, CountInv
  <2> HIDE DEF k, size, S, K
  <2>3. /\ IsFiniteSet(Units(J, S))
        /\ Cardinality(Units(J, S)) = Cardinality(Units(K, S)) - S[k]
    BY <2>1, <2>2, UnitsDrop
  <2> HIDE DEF J
  <2>4. /\ IsFiniteSet(Units(J \cup {k}, [S EXCEPT ![k] = size]))
        /\ Cardinality(Units(J \cup {k}, [S EXCEPT ![k] = size])) = Cardinality(Units(J, S)) + size
    BY <2>1, <2>2, <2>3, UnitsAdd
  <2>5. Cardinality(Units(K, S)) \in Nat /\ Cardinality(Units(J, S)) \in Nat
    BY <2>2, <2>3, FS_CardinalityType
  <2>6. /\ IsFiniteSet(Units(LiveIds', block_sizes'))
        /\ total_size' = Cardinality(Units(LiveIds', block_sizes'))
    BY <1>4, <2>1, <2>2, <2>3, <2>4, <2>5
  <2> QED
    BY <1>4, <2>6, CountStep
<1> QED
  BY <1>2, <1>3, <1>4

LEMMA CountFree ==
  ASSUME WellFormed, OnTrace, TypeInv, CountInv, UtilFree
  PROVE  CountInv'
<1> DEFINE k == Trace[i].index
           S == block_sizes
           K == LiveIds
<1>1. /\ At("util", "f") /\ UNCHANGED <<setup, tracenum, block_sizes, max_total_size>>
      /\ i' = i + 1 /\ total_size' = total_size - S[k]
  BY DEF UtilFree, listVars
<1>2. LiveIds' = K \ {k} /\ k \in K
  BY <1>1, LiveStep
<1>3. S[k] \in Nat /\ IsFiniteSet(Units(K, S)) /\ total_size = Cardinality(Units(K, S))
  BY <1>1, NextRequest DEF TypeInv, CountInv
<1> HIDE DEF k, S, K
<1>4. /\ IsFiniteSet(Units(K \ {k}, S))
      /\ Cardinality(Units(K \ {k}, S)) = Cardinality(Units(K, S)) - S[k]
  BY <1>2, <1>3, UnitsDrop
<1>5. /\ IsFiniteSet(Units(LiveIds', block_sizes'))
      /\ total_size' = Cardinality(Units(LiveIds', block_sizes'))
  BY <1>1, <1>2, <1>3, <1>4 DEF S
<1>6. total_size' \in Nat
  BY <1>5, FS_CardinalityType
<1> QED
  BY <1>1, <1>5, <1>6 DEF CountInv

LEMMA CountInvNext ==
  WellFormed /\ OnTrace /\ TypeInv /\ CountInv /\ [Next]_vars => CountInv'
<1> SUFFICES ASSUME WellFormed, OnTrace, TypeInv, CountInv, [Next]_vars
             PROVE  CountInv'
  OBVIOUS
<1>1. CASE UtilAlloc
  BY <1>1, CountAlloc
<1>2. CASE UtilRealloc
  BY <1>2, CountRealloc
<1>3. CASE UtilFree
  BY <1>3, CountFree
<1>4. CASE StartUtil
  <2>1. LiveIds' = {}
    <3>1. LiveIds' = Live(Trace', i') /\ i' = 1
      BY <1>4 DEF LiveIds, Live, Indices, StartUtil
    <3> QED
      BY <3>1, LiveFirst
  <2>2. Units(LiveIds', block_sizes') = {}
    BY <2>1 DEF Units
  <2> QED
    BY <1>4, <2>2, FS_EmptySet DEF StartUtil, CountInv
<1>5. ASSUME UNCHANGED utilVars, phase' # "util"
      PROVE  CountInv'
  BY <1>5 DEF CountInv, utilVars
<1>6. CASE ValidAlloc \/ ValidRealloc \/ ValidFree \/ StartValid \/ InitFails
  BY <1>5, <1>6
  DEF ValidAlloc, ValidRealloc, ValidFree, StartValid, InitFails, Proceed, Reject, At
<1>7. CASE StartSpeed \/ EndSpeed \/ SpeedAlloc \/ SpeedRealloc \/ SpeedFree
  BY <1>5, <1>7 DEF StartSpeed, EndSpeed, SpeedAlloc, SpeedRealloc, SpeedFree, SpeedRequest, At
<1>8. CASE NextTrace
  BY <1>5, <1>8 DEF NextTrace
<1>9. CASE Exit \/ UNCHANGED vars
  <2>1. UNCHANGED <<setup, tracenum, i, phase, listVars, utilVars>>
    BY <1>9 DEF Exit, vars
  <2>2. LiveIds' = LiveIds
    BY <2>1 DEF LiveIds, Indices, Trace, setup
  <2> QED
    BY <2>1, <2>2 DEF CountInv, listVars, utilVars
<1> QED
  BY <1>1, <1>2, <1>3, <1>4, <1>6, <1>7, <1>8, <1>9 DEF Next

LEMMA TypesAlways == WellFormed => (Spec => [](OnTrace /\ TypeInv /\ CountInv))
<1> SUFFICES ASSUME WellFormed
             PROVE  Spec => [](OnTrace /\ TypeInv /\ CountInv)
  OBVIOUS
<1>1. Init => OnTrace /\ TypeInv /\ CountInv
  BY OnTraceInit, TypeInvInit DEF Init, CountInv
<1>2. OnTrace /\ TypeInv /\ CountInv /\ [Next]_vars => OnTrace' /\ TypeInv' /\ CountInv'
  BY OnTraceNext, TypeInvNext, CountInvNext
<1> QED
  BY <1>1, <1>2, PTL DEF Spec

\* The driver's variables keep their types, whatever the package answers; the
\* sum of the sizes never becomes negative.
THEOREM TypeCorrect == WellFormed => (Spec => []TypeOK)
<1> SUFFICES ASSUME WellFormed
             PROVE  Spec => []TypeOK
  OBVIOUS
<1>1. OnTrace /\ TypeInv /\ CountInv => TypeOK
  <2> SUFFICES ASSUME OnTrace, TypeInv, CountInv
               PROVE  TypeOK
    OBVIOUS
  <2>1. Len(Trace) \in Nat /\ tracenum \in DOMAIN traces /\ Len(traces) \in Nat
    BY TraceTyped, LenProperties
  <2>2. \A n \in DOMAIN ranges : ranges[n].lo \in Addresses /\ ranges[n].hi \in Addresses
    <3>1. \A n \in DOMAIN ranges : ranges[n] \in Ranges
      BY ElementOfSeq DEF TypeInv
    <3> QED
      BY <3>1 DEF Ranges
  <2>3. errors \in 0..Len(traces)
    BY <2>1 DEF TypeInv, OnTrace
  <2>4. i \in 1..(Len(Trace) + 1)
    BY <2>1 DEF TypeInv, OnTrace
  <2> QED
    BY <2>1, <2>2, <2>3, <2>4 DEF TypeOK, TypeInv, CountInv, OnTrace, Contents
<1> QED
  BY <1>1, TypesAlways, PTL


-----------------------------------------------------------------------------
(* The utilization                                                         *)

\* A correct package does not move the break round the addresses.
NoWrap == \A incr \in Increments : mem_max_addr + incr < Word

\* The inductive form of UtilizationAtMostOne.
UtilInv ==
  phase = "util" /\ Sound =>
    /\ mem_brk \in HeapLo..mem_max_addr
    /\ Placed(LiveIds, blocks, block_sizes, held, mem_brk)
    /\ max_total_size <= HeapSize(mem_brk)

\* Where a sound package puts a block in the unchecked run.
LEMMA UtilAnswer ==
  ASSUME NoWrap, OnTrace, OnTrace', MmSafe, Sound, mem_brk \in HeapLo..mem_max_addr,
         NEW type \in {"a", "r"}, At("util", type),
         NEW ptr, NEW p \in Addresses, p # NULL, NEW G \in SUBSET held,
         \/ package = "mm" /\ (mm_malloc(Trace[i].size, p) \/ mm_realloc(ptr, Trace[i].size, p))
         \/ Allocate(Trace[i].size, G, p)
  PROVE  /\ Clear(p, Trace[i].size, G) /\ p + Trace[i].size <= mem_brk'
         /\ mem_brk' \in HeapLo..mem_max_addr /\ mem_brk <= mem_brk'
<1> DEFINE size == Trace[i].size
<1>1. size \in Nat \ {0}
  <2> DEFINE half == Word \div 2 - 1
  <2>1. size \in 1..half /\ size \in Nat
    BY NextRequest
  <2> HIDE DEF half
  <2> QED
    BY <2>1
<1>2. CASE package = "good"
  <2>1. Allocate(size, G, p)
    BY <1>2
  <2>2. Correct(size, G, p)
    BY <1>2, <2>1 DEF Allocate
  <2>3. Clear(p, size, G) /\ p + size <= mem_brk'
    BY <1>1, <2>2, CorrectClear
  <2>4. PICK incr \in Increments, lo \in {mem_brk, Failure} : mem_sbrk(incr, lo)
    BY <2>1 DEF Allocate
  <2>5. incr \in Nat /\ mem_max_addr + incr < Word
    BY DriverAssumption DEF NoWrap
  <2>6. (mem_brk + incr) % Word = mem_brk + incr
    <3>1. mem_brk + incr \in 0..(Word - 1) /\ Word \in Nat \ {0}
      BY <2>5, HeapTyped
    <3> QED
      BY <3>1, ModSmall
  <2>7. mem_brk' = mem_brk \/ (mem_brk' = mem_brk + incr /\ ~(mem_brk + incr > mem_max_addr))
    BY <2>4, <2>6 DEF mem_sbrk
  <2>8. mem_brk' \in HeapLo..mem_max_addr /\ mem_brk <= mem_brk'
    <3>1. CASE mem_brk' = mem_brk
      BY <3>1, HeapTyped
    <3>2. CASE mem_brk' = mem_brk + incr /\ ~(mem_brk + incr > mem_max_addr)
      <4>1. mem_brk + incr \in HeapLo..mem_max_addr /\ mem_brk <= mem_brk + incr
        BY <2>5, <3>2, HeapTyped
      <4> QED
        BY <3>2, <4>1
    <3> QED
      BY <2>7, <3>1, <3>2
  <2> QED
    BY <2>3, <2>8
<1>3. CASE package = "mm" /\ Unwrapped
  <2>1. MmInv
    BY <1>3 DEF MmSafe
  <2>2. mm_malloc(size, p) \/ mm_realloc(ptr, size, p)
    BY <1>3 DEF Allocate
  <2>3. mem_max_addr + size + ALIGNMENT <= Word
    BY <1>3, MmRequest
  <2>4. Outcome(size, p)
    BY <1>1, <2>2, <2>3, MmOutcome
  <2>5. HasRoom(size)
    BY <1>3, <2>1, RoomAgain
  <2>6. p = mem_brk /\ mem_brk' = mem_brk + Rounded(size)
    BY <2>4, <2>5 DEF Outcome
  <2>7. Clear(mem_brk, size, G) /\ mem_brk + size <= mem_brk + Rounded(size)
    BY <1>3, <2>1, <2>5, RoomClear
  <2>8. Rounded(size) \in Nat
    BY <1>1, RoundedNat
  <2>9. mem_brk + Rounded(size) \in HeapLo..mem_max_addr /\ mem_brk <= mem_brk + Rounded(size)
    BY <2>5, <2>8, HeapTyped DEF HasRoom
  <2> QED
    BY <2>6, <2>7, <2>9
<1> QED
  BY <1>2, <1>3 DEF Sound

\* A block more, and the bounds hold for the break that is reached.
LEMMA UtilGrows ==
  ASSUME TypeInv, CountInv, CountInv', mem_brk \in HeapLo..mem_max_addr,
         phase' = "util", UNCHANGED <<setup>>,
         NEW K, K \subseteq Indices, NEW H, Placed(K, blocks, block_sizes, H, mem_brk),
         max_total_size <= HeapSize(mem_brk),
         NEW k \in Indices, k \notin K, NEW size \in Nat \ {0}, NEW p, Clear(p, size, H),
         p + size <= mem_brk', mem_brk' \in HeapLo..mem_max_addr, mem_brk <= mem_brk',
         LiveIds' = K \cup {k},
         blocks' = [blocks EXCEPT ![k] = p], block_sizes' = [block_sizes EXCEPT ![k] = size],
         held' = H \cup {Given(p, size)},
         max_total_size' = Larger(total_size', max_total_size)
  PROVE  UtilInv'
<1> DEFINE top == mem_brk
           limit == mem_brk'
           B == blocks
           S == block_sizes
           J == K \cup {k}
<1>1. /\ top \in Nat /\ limit \in Nat /\ limit \in HeapLo..mem_max_addr /\ top <= limit
      /\ p + size <= limit
      /\ Placed(K, B, S, H, top) /\ max_total_size <= HeapSize(top)
  BY HeapTyped
<1>2. DOMAIN B = Indices /\ DOMAIN S = Indices
  BY DEF TypeInv
<1> HIDE DEF top, limit, B, S, J
<1>3. Placed(K \cup {k}, [B EXCEPT ![k] = p], [S EXCEPT ![k] = size],
             H \cup {Given(p, size)}, limit)
  BY <1>1, <1>2, PlacedAdd
<1>4. Placed(LiveIds', blocks', block_sizes', held', limit)
  BY <1>3 DEF B, S
<1>5. /\ IsFiniteSet(Units(LiveIds', block_sizes'))
      /\ total_size' = Cardinality(Units(LiveIds', block_sizes'))
      /\ total_size' \in Nat /\ max_total_size \in Nat
  BY DEF CountInv
<1>6. total_size' <= limit - HeapLo
  BY <1>1, <1>4, <1>5, UnitsFit
<1>7. max_total_size <= limit - HeapLo
  BY <1>1, <1>5, HeapTyped DEF HeapSize
<1>8. Larger(total_size', max_total_size) <= limit - HeapLo
  <2>1. limit - HeapLo \in Int
    BY <1>1, HeapTyped
  <2> QED
    BY <1>5, <1>6, <1>7, <2>1, LargerNat
<1>9. max_total_size' <= HeapSize(limit)
  BY <1>8 DEF HeapSize
<1> QED
  BY <1>1, <1>4, <1>9 DEF UtilInv, limit, HeapSize

LEMMA UtilAllocFits ==
  ASSUME WellFormed, NoWrap, OnTrace, OnTrace', MmSafe, TypeInv, CountInv, CountInv', UtilInv,
         UtilAlloc
  PROVE  UtilInv'
<1> DEFINE k == Trace[i].index
           size == Trace[i].size
<1>1. At("util", "a") /\ UNCHANGED <<setup, tracenum>>
  BY DEF UtilAlloc
<1>2. PICK p \in Addresses :
        /\ Malloc(size, p) /\ Holds(held, p, size)
        /\ UtilRequest(p, size)
  BY DEF UtilAlloc
<1>3. CASE p = NULL
  <2>1. phase' = "exited"
    BY <1>2, <1>3 DEF UtilRequest, GivesUp
  <2> QED
    BY <2>1 DEF UtilInv
<1>4. CASE p # NULL
  <2>1. /\ i' = i + 1 /\ phase' = "util" /\ max_total_size' = Larger(total_size', max_total_size)
        /\ blocks' = [blocks EXCEPT ![k] = p] /\ block_sizes' = [block_sizes EXCEPT ![k] = size]
        /\ held' = held \cup {Given(p, size)}
    BY <1>1, <1>2, <1>4 DEF UtilRequest, Count, At, Holds, Given
  <2> SUFFICES ASSUME Sound
               PROVE  UtilInv'
    BY <1>1 DEF UtilInv, Sound, setup
  <2>2. /\ mem_brk \in HeapLo..mem_max_addr
        /\ Placed(LiveIds, blocks, block_sizes, held, mem_brk)
        /\ max_total_size <= HeapSize(mem_brk)
    BY <1>1 DEF UtilInv, At
  <2>3. /\ Clear(p, size, held) /\ p + size <= mem_brk'
        /\ mem_brk' \in HeapLo..mem_max_addr /\ mem_brk <= mem_brk'
    <3>1. \/ package = "mm" /\ mm_malloc(size, p)
          \/ Allocate(size, held, p)
      BY <1>2 DEF Malloc
    <3>2. held \in SUBSET held /\ "a" \in {"a", "r"}
      OBVIOUS
    <3> QED
      BY <1>1, <1>4, <2>2, <3>1, <3>2, UtilAnswer
  <2>4. LiveIds' = LiveIds \cup {k} /\ k \notin LiveIds /\ LiveIds \subseteq Indices
    BY <1>1, <2>1, LiveStep, LiveInIndices
  <2>5. size \in Nat \ {0} /\ k \in Indices
    <3> DEFINE half == Word \div 2 - 1
    <3>1. size \in 1..half /\ size \in Nat /\ k \in Indices
      BY <1>1, NextRequest
    <3> HIDE DEF half
    <3> QED
      BY <3>1
  <2> HIDE DEF k, size
  <2> QED
    BY <1>1, <2>1, <2>2, <2>3, <2>4, <2>5, UtilGrows
<1> QED
  BY <1>3, <1>4

LEMMA UtilReallocFits ==
  ASSUME WellFormed, NoWrap, OnTrace, OnTrace', MmSafe, TypeInv, CountInv, CountInv', UtilInv,
         UtilRealloc
  PROVE  UtilInv'
<1> DEFINE k == Trace[i].index
           size == Trace[i].size
           oldp == blocks[k]
           others == {b \in held : b.lo # oldp}
           K == LiveIds \ {k}
<1>1. At("util", "r") /\ UNCHANGED <<setup, tracenum>>
  BY DEF UtilRealloc
<1>2. PICK p, mem :
        /\ p \in Addresses /\ Realloc(oldp, block_sizes[k], size, p, mem)
        /\ Holds(others, p, size) /\ UtilRequest(p, size - block_sizes[k])
  BY DEF UtilRealloc
<1>3. CASE p = NULL
  <2>1. phase' = "exited"
    BY <1>2, <1>3 DEF UtilRequest, GivesUp
  <2> QED
    BY <2>1 DEF UtilInv
<1>4. CASE p # NULL
  <2>1. /\ i' = i + 1 /\ phase' = "util" /\ max_total_size' = Larger(total_size', max_total_size)
        /\ blocks' = [blocks EXCEPT ![k] = p] /\ block_sizes' = [block_sizes EXCEPT ![k] = size]
        /\ held' = others \cup {Given(p, size)}
    BY <1>1, <1>2, <1>4 DEF UtilRequest, Count, At, Holds, Given
  <2> SUFFICES ASSUME Sound
               PROVE  UtilInv'
    BY <1>1 DEF UtilInv, Sound, setup
  <2>2. /\ mem_brk \in HeapLo..mem_max_addr
        /\ Placed(LiveIds, blocks, block_sizes, held, mem_brk)
        /\ max_total_size <= HeapSize(mem_brk)
    BY <1>1 DEF UtilInv, At
  <2>3. /\ Clear(p, size, others) /\ p + size <= mem_brk'
        /\ mem_brk' \in HeapLo..mem_max_addr /\ mem_brk <= mem_brk'
    <3>1. \/ package = "mm" /\ mm_realloc(oldp, size, p)
          \/ Allocate(size, others, p)
      BY <1>2 DEF Realloc
    <3>2. others \in SUBSET held /\ "r" \in {"a", "r"} /\ p \in Addresses
      BY <1>2
    <3> HIDE DEF others, oldp
    <3> QED
      BY <1>1, <1>4, <2>2, <3>1, <3>2, UtilAnswer
  <2>4. LiveIds' = K \cup {k} /\ k \notin K /\ K \subseteq Indices /\ k \in LiveIds
    BY <1>1, <2>1, LiveStep, LiveInIndices
  <2>5. size \in Nat \ {0} /\ k \in Indices
    <3> DEFINE half == Word \div 2 - 1
    <3>1. size \in 1..half /\ size \in Nat /\ k \in Indices
      BY <1>1, NextRequest
    <3> HIDE DEF half
    <3> QED
      BY <3>1
  <2>6. Placed(K, blocks, block_sizes, others, mem_brk)
    BY <2>2, <2>4, PlacedDrop, HeapTyped
  <2> HIDE DEF k, size, K, others
  <2> QED
    BY <1>1, <2>1, <2>2, <2>3, <2>4, <2>5, <2>6, UtilGrows
<1> QED
  BY <1>3, <1>4

LEMMA UtilFreeFits ==
  ASSUME WellFormed, OnTrace, UtilInv, UtilFree
  PROVE  UtilInv'
<1> DEFINE k == Trace[i].index
<1>1. /\ At("util", "f") /\ UNCHANGED <<setup, tracenum, blocks, block_sizes, max_total_size>>
      /\ i' = i + 1 /\ mem_brk' = mem_brk
      /\ held' = {b \in held : b.lo # blocks[k]} /\ phase = "util"
  BY DEF UtilFree, listVars, Free, mm_free, At
<1> SUFFICES ASSUME Sound
             PROVE  UtilInv'
  BY <1>1 DEF UtilInv, Sound, setup
<1>2. /\ mem_brk \in HeapLo..mem_max_addr
      /\ Placed(LiveIds, blocks, block_sizes, held, mem_brk)
      /\ max_total_size <= HeapSize(mem_brk)
  BY <1>1 DEF UtilInv
<1>3. LiveIds' = LiveIds \ {k} /\ k \in LiveIds
  BY <1>1, LiveStep
<1> HIDE DEF k
<1>4. Placed(LiveIds \ {k}, blocks, block_sizes, {b \in held : b.lo # blocks[k]}, mem_brk)
  BY <1>2, <1>3, PlacedDrop, HeapTyped
<1>5. Placed(LiveIds', blocks', block_sizes', held', mem_brk')
  BY <1>1, <1>3, <1>4
<1> QED
  BY <1>1, <1>2, <1>5 DEF UtilInv, HeapSize

\* The high-water mark of the sizes of the live blocks is at most the size of
\* the heap, for mm.c and for every correct package: they lie in it side by side.
THEOREM UtilizationAtMostOneHolds ==
  WellFormed /\ Unwrapped /\ NoWrap => (Spec => []UtilizationAtMostOne)
<1> SUFFICES ASSUME WellFormed, Unwrapped, NoWrap
             PROVE  Spec => []UtilizationAtMostOne
  OBVIOUS
<1>1. Init => UtilInv
  BY DEF Init, UtilInv
<1>2. ASSUME OnTrace, OnTrace', MmSafe, TypeInv, CountInv, CountInv', UtilInv, [Next]_vars
      PROVE  UtilInv'
  <2>1. CASE UtilAlloc
    BY <1>2, <2>1, UtilAllocFits
  <2>2. CASE UtilRealloc
    BY <1>2, <2>2, UtilReallocFits
  <2>3. CASE UtilFree
    BY <1>2, <2>3, UtilFreeFits
  <2>4. CASE StartUtil
    <3>1. LiveIds' = {}
      <4>1. LiveIds' = Live(Trace', i') /\ i' = 1
        BY <2>4 DEF LiveIds, Live, Indices, StartUtil
      <4> QED
        BY <4>1, LiveFirst
    <3>2. mem_brk' = HeapLo /\ max_total_size' = 0
      BY <2>4 DEF StartUtil, mem_reset_brk
    <3>3. HeapLo \in HeapLo..mem_max_addr /\ 0 <= HeapLo - HeapLo
      BY HeapTyped
    <3> QED
      BY <3>1, <3>2, <3>3 DEF UtilInv, Placed, HeapSize
  <2>5. ASSUME phase' # "util"
        PROVE  UtilInv'
    BY <2>5 DEF UtilInv
  <2>6. CASE ValidAlloc \/ ValidRealloc \/ ValidFree \/ StartValid \/ InitFails
    BY <2>5, <2>6
    DEF ValidAlloc, ValidRealloc, ValidFree, StartValid, InitFails, Proceed, Reject, At
  <2>7. CASE StartSpeed \/ EndSpeed \/ SpeedAlloc \/ SpeedRealloc \/ SpeedFree
    BY <2>5, <2>7 DEF StartSpeed, EndSpeed, SpeedAlloc, SpeedRealloc, SpeedFree, SpeedRequest, At
  <2>8. CASE NextTrace
    BY <2>5, <2>8 DEF NextTrace
  <2>9. CASE Exit \/ UNCHANGED vars
    <3>1. UNCHANGED <<mem_brk, setup, tracenum, i, phase, listVars, utilVars, held>>
      BY <2>9 DEF Exit, vars
    <3>2. LiveIds' = LiveIds
      BY <3>1 DEF LiveIds, Indices, Trace, setup
    <3> QED
      BY <1>2, <3>1, <3>2 DEF UtilInv, Sound, listVars, utilVars, setup, HeapSize
  <2> QED
    BY <1>2, <2>1, <2>2, <2>3, <2>4, <2>6, <2>7, <2>8, <2>9 DEF Next
<1>3. UtilInv => UtilizationAtMostOne
  BY DEF UtilInv, UtilizationAtMostOne, Sound
<1> QED
  BY <1>1, <1>2, <1>3, DataInvAlways, TypesAlways, PTL DEF Spec

=============================================================================
