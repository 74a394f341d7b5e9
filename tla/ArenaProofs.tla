----------------------------- MODULE ArenaProofs ----------------------------
(***************************************************************************)
(* Proofs about Arena, for every heap size, set of requests and grace      *)
(* period.                                                                 *)
(*                                                                         *)
(* Two lemmas carry the weight: FreeKeeps and TakeKeeps say that free()    *)
(* and the step of alloc() that takes a block keep the blocks tiling the   *)
(* heap, their footers right, free neighbours merged and the free list     *)
(* linked both ways.  They are about the heap alone; IInvStep adds who     *)
(* holds which block.  That the list is also complete and ends             *)
(* (FreeListReaches, LoopsEnd) needs induction along the list and is left  *)
(* to TLC.                                                                 *)
(***************************************************************************)
EXTENDS Arena, TLAPS

\* The type of the free list.
Lists == [head : Offsets \cup {NIL},
          next : [Offsets -> Offsets \cup {NIL}],
          prev : [Offsets -> Offsets \cup {NIL}]]

\* A block is at least three words, and NIL is no offset of the heap.
LEMMA Sizes == MIN_BLOCK = 3 /\ NIL \notin Offsets
  BY DEF MIN_BLOCK, Words, HDR, FTR, NIL, Offsets, Heap

\* Unlinking a block leaves a consistently linked list of the others.
LEMMA UnlinkKeeps ==
  ASSUME NEW l \in Lists, NEW F \in SUBSET Offsets, LinksMatch(l, F), NEW o \in F
  PROVE  Unlink(l, o) \in Lists /\ LinksMatch(Unlink(l, o), F \ {o})
<1> DEFINE u == Unlink(l, o)
<1> USE Sizes
<1>1. u \in Lists  BY DEF Unlink, Lists, LinksMatch
<1>2. u.head \in (F \ {o}) \cup {NIL}
  BY DEF Unlink, Lists, LinksMatch
<1>3. ASSUME NEW p \in F \ {o}
      PROVE  /\ u.next[p] \in (F \ {o}) \cup {NIL}
             /\ u.prev[p] \in (F \ {o}) \cup {NIL}
             /\ u.next[p] # NIL => u.prev[u.next[p]] = p
             /\ u.prev[p] # NIL => u.next[u.prev[p]] = p
             /\ u.prev[p] = NIL <=> u.head = p
  BY DEF Unlink, Lists, LinksMatch
<1>4. QED  BY <1>1, <1>2, <1>3 DEF LinksMatch

\* Pushing a block that is not on the list gives a consistent list with it.
LEMMA PushKeeps ==
  ASSUME NEW l \in Lists, NEW F \in SUBSET Offsets, LinksMatch(l, F),
         NEW o \in Offsets \ F
  PROVE  Push(l, o) \in Lists /\ LinksMatch(Push(l, o), F \cup {o})
<1> DEFINE u == Push(l, o)
<1> USE Sizes
<1>1. u \in Lists  BY DEF Push, Lists, LinksMatch
<1>2. u.head \in F \cup {o} \cup {NIL}
  BY DEF Push, Lists, LinksMatch
<1>3. ASSUME NEW p \in F \cup {o}
      PROVE  /\ u.next[p] \in F \cup {o} \cup {NIL}
             /\ u.prev[p] \in F \cup {o} \cup {NIL}
             /\ u.next[p] # NIL => u.prev[u.next[p]] = p
             /\ u.prev[p] # NIL => u.next[u.prev[p]] = p
             /\ u.prev[p] = NIL <=> u.head = p
  BY DEF Push, Lists, LinksMatch
<1>4. QED  BY <1>1, <1>2, <1>3 DEF LinksMatch

\* The part of the type invariant that is about the heap.
HeapTypes ==
  /\ size \in [Offsets -> Nat]
  /\ free \in [Offsets -> BOOLEAN]
  /\ foot \in [Heap .. HeapEnd -> Nat]
  /\ list \in Lists
  /\ used \in Int
  /\ starts \subseteq Offsets

\* The part of the inductive invariant that is about the heap.
HeapInv == HeapTypes /\ BlocksTile /\ NoAdjacentFree /\ FreeListMatches

\* A block lies within the heap, and its footer is where the next one begins.
LEMMA BlockFacts ==
  ASSUME HeapTypes, BlocksTile, NEW p \in starts
  PROVE  /\ p \in Nat /\ p >= Heap /\ p < HeapEnd /\ p \in Offsets
         /\ size[p] \in Nat /\ size[p] >= 3
         /\ p + size[p] \in starts \cup {HeapEnd}
         /\ p + size[p] <= HeapEnd
         /\ foot[p + size[p]] = size[p]
  BY Sizes, HeapAssumption DEF HeapTypes, BlocksTile, End, Offsets, Heap

\* free() of a block in use, in each of its four cases (merge forward, backward,
\* both, neither), keeps the heap sound and leaves every other block in use alone.
LEMMA FreeKeeps ==
  ASSUME HeapInv, NEW o \in starts, ~free[o], FreeBlock(o)
  PROVE  /\ HeapInv'
         /\ \A p \in starts : ~free[p] /\ p # o =>
               p \in starts' /\ size'[p] = size[p] /\ ~free'[p]
         /\ \A p \in starts' : free'[p] \/ (p \in starts /\ p # o /\ ~free[p])
<1> DEFINE after == o + size[o]
           fwd == after < HeapEnd /\ free[after]
           list1 == IF fwd THEN Unlink(list, after) ELSE list
           size1 == IF fwd THEN size[o] + size[after] ELSE size[o]
           before == o - foot[o]
           back == o > Heap /\ before >= Heap /\ free[before]
           list2 == IF back THEN Unlink(list1, before) ELSE list1
           size2 == IF back THEN size[before] + size1 ELSE size1
           at == IF back THEN before ELSE o
           stop == IF fwd THEN after + size[after] ELSE after
<1> USE Sizes, HeapAssumption DEF HeapInv, HeapTypes
<1>1. /\ size' = [size EXCEPT ![o] = size1, ![at] = size2]
      /\ free' = [free EXCEPT ![at] = TRUE]
      /\ foot' = [foot EXCEPT ![at + size2] = size2]
      /\ list' = Push(list2, at)
      /\ used' = used - Payload(size[o])
      /\ starts' = (starts \ (IF fwd THEN {after} ELSE {}))
                           \ (IF back THEN {o} ELSE {})
  BY DEF FreeBlock
<1>2. /\ o \in Nat /\ size[o] \in Nat /\ size[o] >= 3 /\ after \in Nat
      /\ after \in starts \cup {HeapEnd} /\ after <= HeapEnd
  BY BlockFacts
<1>3. ASSUME fwd
      PROVE  /\ after \in starts /\ size[after] \in Nat /\ size[after] >= 3
             /\ after + size[after] \in starts \cup {HeapEnd}
             /\ after + size[after] <= HeapEnd
  <2> HIDE DEF after
  <2>1. after \in starts  BY <1>2, <1>3
  <2>2. QED  BY BlockFacts, <2>1
<1>4. ASSUME o # Heap
      PROVE  /\ before \in starts /\ before + size[before] = o
             /\ before \in Nat /\ size[before] \in Nat /\ size[before] >= 3
  <2>1. PICK p \in starts : p + size[p] = o  BY <1>4 DEF BlocksTile, End
  <2>2. p \in Nat /\ size[p] \in Nat /\ foot[o] = size[p]
    BY <2>1, BlockFacts
  <2>3. p = before  BY <2>1, <2>2
  <2> HIDE DEF before
  <2>4. QED  BY BlockFacts, <2>1, <2>3
<1>6. /\ stop \in Nat /\ stop > o /\ stop <= HeapEnd
      /\ stop \in starts \cup {HeapEnd}
      /\ size1 = stop - o /\ size1 \in Nat /\ size1 >= 3
  <2>1. CASE fwd
     <3>1. stop = after + size[after] /\ size1 = size[o] + size[after]  BY <2>1
     <3>2. QED  BY <1>2, <1>3, <2>1, <3>1
  <2>2. CASE ~fwd  BY <1>2, <2>2
  <2>3. QED  BY <2>1, <2>2
<1>7. at \in starts /\ at \in Nat /\ at <= o /\ size2 = stop - at
  <2> HIDE DEF stop, size1
  <2>2. CASE back
    <3>1. o # Heap  BY <1>2, <2>2 DEF Heap
    <3>2. at = before /\ size2 = size[before] + size1  BY <2>2
    <3>3. /\ before \in starts /\ before + size[before] = o
          /\ before \in Nat /\ size[before] \in Nat /\ size[before] >= 3
      BY <1>4, <3>1
    <3> HIDE DEF before, at, size2
    <3>4. at <= o  BY ONLY <1>2, <3>2, <3>3
    <3>5. size2 = stop - at  BY ONLY <1>2, <1>6, <3>2, <3>3
    <3>6. QED  BY <3>2, <3>3, <3>4, <3>5
  <2>3. CASE ~back  BY <1>2, <1>6, <2>3
  <2>4. QED  BY <2>2, <2>3
<1>d. \A p, q \in starts : q > p => q >= p + size[p]
  BY DEF BlocksTile, End
<1>8. starts' = {p \in starts : p <= at \/ p >= stop}
  <2>1. ASSUME NEW p \in starts, p > at, p < stop
        PROVE  (fwd /\ p = after) \/ (back /\ p = o)
    <3>0. p \in Nat  BY BlockFacts
    <3>1. CASE p < o
      <4>1. back /\ at = before  BY <2>1, <3>1, <1>7, <1>2, <3>0
      <4>2. before \in starts /\ before + size[before] = o
        BY <4>1, <1>4, <1>2 DEF Heap
      <4> HIDE DEF before, at
      <4>3. p >= o  BY <1>d, <2>1, <4>1, <4>2
      <4>4. QED  BY ONLY <3>0, <3>1, <4>3, <1>2
    <3>2. CASE p = o
      BY <2>1, <3>2, <1>2
    <3>3. CASE p > o
      <4>1. p >= after  BY <1>d, <3>3
      <4>2. fwd  BY <4>1, <2>1, <3>0, <1>2
      <4>3. after \in starts /\ stop = after + size[after]  BY <4>2, <1>3
      <4> HIDE DEF after, stop
      <4>4. QED  BY <1>d, <1>2, <2>1, <3>0, <4>1, <4>2, <4>3
    <3>4. QED  BY <3>0, <3>1, <3>2, <3>3, <1>2
  <2>2. fwd => after > at /\ after < stop
    BY <1>2, <1>3, <1>7
  <2>3. back => o > at /\ o < stop
    <3>1. ASSUME back PROVE at < o
      <4>1. o # Heap /\ at = before  BY <3>1, <1>2 DEF Heap
      <4>2. before + size[before] = o /\ size[before] >= 3 /\ before \in Nat /\ size[before] \in Nat
        BY <1>4, <4>1
      <4> HIDE DEF before, at
      <4>3. QED  BY ONLY <4>1, <4>2, <1>2
    <3>2. QED  BY <3>1, <1>6
  <2> HIDE DEF fwd, back, after, at, stop
  <2>4. ASSUME NEW p \in starts
        PROVE  p \in starts' <=> (p <= at \/ p >= stop)
    <3>1. p \in Nat /\ at \in Nat /\ stop \in Nat  BY BlockFacts, <1>6, <1>7
    <3>2. p \in starts' <=> ~(fwd /\ p = after) /\ ~(back /\ p = o)
      BY <1>1
    <3>3. QED  BY <3>1, <3>2, <2>1, <2>2, <2>3
  <2>5. starts' \subseteq starts  BY <1>1
  <2>6. QED  BY <2>4, <2>5
<1>9. ASSUME NEW p \in starts', p # at
      PROVE  p \in starts /\ p # o /\ size'[p] = size[p] /\ free'[p] = free[p]
  <2>1. p \in starts /\ p # o
    BY <1>1, <1>9
  <2>2. p \in Offsets /\ o \in Offsets /\ at \in Offsets  BY BlockFacts, <2>1, <1>7
  <2> HIDE DEF at, size2, size1
  <2>3. QED  BY <1>1, <1>9, <2>1, <2>2
<1>10. /\ at \in starts' /\ size'[at] = stop - at /\ free'[at]
       /\ foot' = [foot EXCEPT ![stop] = stop - at]
  <2>1. at \in Offsets /\ o \in Offsets  BY BlockFacts, <1>7
  <2>2. at + size2 = stop  BY ONLY <1>6, <1>7
  <2> HIDE DEF at, size2, size1, stop
  <2>3. at \in starts'  BY <1>8, <1>7
  <2>4. QED  BY <1>1, <1>7, <2>1, <2>2, <2>3
<1>11. stop \in starts => ~free[stop]
  <2>1. CASE fwd
    <3>1. after \in starts /\ free[after] /\ stop = after + size[after]
      BY <2>1, <1>3
    <3> HIDE DEF after, stop
    <3>2. QED  BY <3>1, BlockFacts DEF NoAdjacentFree, End
  <2>2. CASE ~fwd
    <3>1. stop = after /\ ~(after < HeapEnd /\ free[after])  BY <2>2
    <3> HIDE DEF after, stop
    <3>2. QED  BY <3>1, BlockFacts
  <2>3. QED  BY <2>1, <2>2
<1>12. ASSUME NEW p \in starts, p + size[p] = at PROVE ~free[p]
  <2>1. p \in Nat /\ p >= Heap /\ size[p] \in Nat /\ size[p] >= 3  BY BlockFacts
  <2>2. CASE back
    <3>1. at = before /\ free[before]  BY <2>2
    <3> HIDE DEF before, at
    <3>2. at \in starts /\ at # HeapEnd  BY <1>7, BlockFacts
    <3>3. QED  BY <1>12, <3>1, <3>2 DEF NoAdjacentFree, End
  <2>3. CASE ~back
    <3>1. at = o  BY <2>3
    <3>2. o > Heap  BY <1>12, <2>1, <3>1, <1>2, BlockFacts DEF Heap
    <3>3. before \in starts /\ before + size[before] = o  BY <1>4, <3>2 DEF Heap
    <3>4. ~free[before]  BY <2>3, <3>2, <3>3, BlockFacts
    <3> HIDE DEF before, at
    <3>5. before \in Nat /\ size[before] \in Nat /\ size[before] >= 3  BY <3>3, BlockFacts
    <3>6. p = before
      <4>1. ~(p < before)  BY <1>d, <3>3, <1>12, <3>1, <2>1, <3>5
      <4>2. ~(before < p)  BY <1>d, <3>3, <1>12, <3>1, <2>1, <3>5
      <4>3. QED  BY <4>1, <4>2, <2>1, <3>5
    <3>7. QED  BY <3>4, <3>6
  <2>4. QED  BY <2>2, <2>3
<1>13. list' \in Lists /\ FreeListMatches'
  <2> DEFINE F1 == FreeBlocks \ (IF fwd THEN {after} ELSE {})
             F2 == F1 \ (IF back THEN {before} ELSE {})
  <2>1. FreeBlocks \in SUBSET Offsets /\ LinksMatch(list, FreeBlocks) /\ list \in Lists
    BY DEF FreeBlocks, FreeListMatches
  <2>2. list1 \in Lists /\ LinksMatch(list1, F1) /\ F1 \in SUBSET Offsets
    <3>1. CASE fwd
      <4>1. after \in FreeBlocks /\ F1 = FreeBlocks \ {after} /\ list1 = Unlink(list, after)
        BY <1>3, <3>1 DEF FreeBlocks
      <4> HIDE DEF after, F1, list1
      <4>2. QED  BY ONLY <2>1, <4>1, UnlinkKeeps
    <3>2. CASE ~fwd  BY <2>1, <3>2
    <3>3. QED  BY <3>1, <3>2
  <2>3. list2 \in Lists /\ LinksMatch(list2, F2) /\ F2 \in SUBSET Offsets
    <3>1. CASE back
      <4>1. before \in F1
        <5>1. before \in starts /\ before + size[before] = o /\ before \in Nat /\ size[before] \in Nat
          BY <1>4, <3>1, <1>2 DEF Heap
        <5>2. before # after  BY <5>1, <1>2
        <5>3. QED  BY <3>1, <5>1, <5>2 DEF FreeBlocks
      <4>2. F2 = F1 \ {before} /\ list2 = Unlink(list1, before)  BY <3>1
      <4> HIDE DEF before, F1, F2, list1, list2
      <4>3. QED  BY ONLY <2>2, <4>1, <4>2, UnlinkKeeps
    <3>2. CASE ~back  BY <2>2, <3>2
    <3>3. QED  BY <3>1, <3>2
  <2>4. at \in Offsets \ F2
    BY <1>7, BlockFacts DEF FreeBlocks
  <2>5. Push(list2, at) \in Lists /\ LinksMatch(Push(list2, at), F2 \cup {at})
    <3> HIDE DEF F2, list2, at
    <3>1. QED  BY ONLY <2>3, <2>4, PushKeeps
  <2>6. FreeBlocks' = F2 \cup {at}
    <3>1. ASSUME NEW p \in FreeBlocks', p # at PROVE p \in F2
      <4>1. p \in starts' /\ free'[p]  BY DEF FreeBlocks
      <4>2. p \in starts /\ p # o /\ free[p]  BY <1>9, <3>1, <4>1
      <4>3. ~(fwd /\ p = after)  BY <1>1, <4>1
      <4>4. ~(back /\ p = before)  BY <3>1
      <4>5. QED  BY <4>2, <4>3, <4>4 DEF FreeBlocks
    <3>2. ASSUME NEW p \in F2 PROVE p \in FreeBlocks' \/ p = at
      <4>1. p \in starts /\ free[p] /\ ~(fwd /\ p = after) /\ p # o
        BY DEF FreeBlocks
      <4>2. p \in starts'  BY <1>1, <4>1
      <4>3. QED  BY <1>9, <4>1, <4>2 DEF FreeBlocks
    <3>3. at \in FreeBlocks'  BY <1>10 DEF FreeBlocks
    <3> HIDE DEF F2, at
    <3>4. QED  BY <3>1, <3>2, <3>3
  <2> HIDE DEF F2, list2, at
  <2>7. QED  BY <1>1, <2>5, <2>6 DEF FreeListMatches
<1>e. ASSUME NEW p \in starts, ~free[p], p # o PROVE p \in starts' /\ p # at
  BY <1>1, <1>e
<1> HIDE DEF after, fwd, list1, size1, before, back, list2, size2, at, stop
<1>14. HeapTypes'
  <2>1. at \in Offsets /\ stop \in Heap .. HeapEnd /\ size2 \in Nat
    BY <1>6, <1>7, <1>2, BlockFacts DEF Offsets, Heap
  <2>2. used' \in Int  BY <1>1, <1>2 DEF Payload, HDR, FTR
  <2>3. starts' \subseteq Offsets  BY <1>8
  <2>4. foot' \in [Heap .. HeapEnd -> Nat]  BY <1>10, <1>7, <2>1
  <2>5. size' \in [Offsets -> Nat] /\ free' \in [Offsets -> BOOLEAN]
    BY <1>1, <1>6, <2>1
  <2>6. QED  BY <1>13, <2>2, <2>3, <2>4, <2>5
<1>15. ASSUME NEW p \in starts', p # at
       PROVE  /\ p + size[p] \in starts' \cup {HeapEnd}
              /\ p + size[p] # stop
              /\ p < at => p + size[p] <= at
  <2>1. p \in starts /\ p \in Nat /\ size[p] \in Nat /\ size[p] >= 3
        /\ p + size[p] \in starts \cup {HeapEnd}
    BY <1>9, <1>15, BlockFacts
  <2>2. p < at \/ p >= stop  BY <1>7, <1>8, <1>15, <2>1
  <2>3. CASE p < at
    <3>1. p + size[p] <= at  BY <1>d, <1>7, <2>1, <2>3
    <3>2. at < stop /\ at < HeapEnd  BY <1>2, <1>6, <1>7, BlockFacts
    <3>3. QED  BY <1>6, <1>7, <1>8, <2>1, <3>1, <3>2
  <2>4. CASE p >= stop
    <3>1. p + size[p] > stop  BY <1>6, <2>1, <2>4
    <3>2. ~(p < at)  BY <1>2, <1>6, <1>7, <2>1, <2>4
    <3>3. QED  BY <1>6, <1>8, <2>1, <3>1, <3>2
  <2>5. QED  BY <2>2, <2>3, <2>4
<1>16. BlocksTile'
  <2>1. Heap \in starts'
    BY <1>7, <1>8, BlockFacts DEF BlocksTile, Heap
  <2>2. ASSUME NEW p \in starts'
        PROVE  /\ size'[p] >= MIN_BLOCK
               /\ End(p)' \in starts' \cup {HeapEnd}
               /\ foot'[End(p)'] = size'[p]
               /\ \A q \in starts' : q > p => q >= End(p)'
    <3>1. CASE p = at
      <4>1. End(p)' = stop /\ size'[p] = stop - at  BY <1>6, <1>7, <1>10, <3>1 DEF End
      <4>2. stop \in starts' \cup {HeapEnd}  BY <1>6, <1>8
      <4>a. o >= Heap  BY BlockFacts
      <4>b. stop \in Heap .. HeapEnd  BY <4>a, <1>2, <1>6 DEF Heap
      <4>3. foot'[stop] = stop - at  BY <1>10, <4>b
      <4>4. stop - at >= 3  BY <1>2, <1>6, <1>7
      <4>5. ASSUME NEW q \in starts', q > at PROVE q >= stop
        <5>1. q \in starts /\ q \in Nat /\ (q <= at \/ q >= stop)
          BY <1>8, BlockFacts
        <5>2. QED  BY <4>5, <5>1, <1>7
      <4>6. QED  BY <3>1, <4>1, <4>2, <4>3, <4>4, <4>5
    <3>2. CASE p # at
      <4>1. p \in starts /\ size'[p] = size[p] /\ End(p)' = p + size[p]
        BY <1>9, <3>2 DEF End
      <4>2. foot'[p + size[p]] = foot[p + size[p]]  BY <1>10, <1>15, <3>2
      <4>3. QED  BY <1>d, <1>8, <1>15, <3>2, <4>1, <4>2, BlockFacts
    <3>3. QED  BY <3>1, <3>2
  <2>3. ASSUME NEW p \in starts', p # Heap
        PROVE  \E q \in starts' : End(q)' = p
    <3>1. p \in starts /\ p \in Nat  BY <1>8, BlockFacts
    <3>2. PICK q \in starts : q + size[q] = p  BY <2>3, <3>1 DEF BlocksTile, End
    <3>3. q \in Nat /\ size[q] \in Nat /\ size[q] >= 3  BY BlockFacts
    <3>4. CASE q < at \/ q >= stop
      <4>1. q \in starts' /\ q # at  BY <1>2, <1>6, <1>7, <1>8, <3>3, <3>4
      <4>2. End(q)' = p  BY <1>9, <3>2, <4>1 DEF End
      <4>3. QED  BY <4>1, <4>2
    <3>5. CASE ~(q < at) /\ ~(q >= stop)
      <4>1. p >= stop  BY <1>7, <1>8, <1>6, <3>1, <3>2, <3>3, <3>5
      <4>2. ~(p > stop)
        <5>1. SUFFICES ASSUME p > stop PROVE FALSE  OBVIOUS
        <5>2. stop \in starts  BY <1>6, <3>1, <5>1, BlockFacts
        <5>3. QED  BY <1>d, <1>6, <3>1, <3>2, <3>3, <3>5, <5>1, <5>2
      <4>3. p = stop  BY <1>6, <3>1, <4>1, <4>2
      <4>4. PICK a \in starts' : a = at  BY <1>10
      <4>5. End(a)' = p  BY <1>6, <1>7, <1>10, <4>3, <4>4 DEF End
      <4>6. QED  BY <4>4, <4>5
    <3>6. QED  BY <3>4, <3>5
  <2>4. QED  BY <2>1, <2>2, <2>3 DEF BlocksTile
<1>17. NoAdjacentFree'
  <2> SUFFICES ASSUME NEW p \in starts', free'[p], End(p)' # HeapEnd
               PROVE  ~free'[End(p)']
    BY DEF NoAdjacentFree
  <2>1. CASE p = at
    <3>1. End(p)' = stop  BY <1>6, <1>7, <1>10, <2>1 DEF End
    <3>2. stop \in starts /\ stop \in starts' /\ stop # at  BY <1>2, <1>6, <1>7, <1>8, <3>1
    <3>3. QED  BY <1>9, <1>11, <3>1, <3>2
  <2>2. CASE p # at
    <3>1. p \in starts /\ free[p] /\ End(p)' = p + size[p]  BY <1>9, <2>2 DEF End
    <3>2. p + size[p] # at  BY <1>12, <3>1
    <3>3. p + size[p] \in starts'  BY <1>15, <2>2, <3>1
    <3>4. QED  BY <1>9, <3>1, <3>2, <3>3 DEF NoAdjacentFree, End
  <2>3. QED  BY <2>1, <2>2
<1>18. ASSUME NEW p \in starts, ~free[p], p # o
       PROVE  p \in starts' /\ size'[p] = size[p] /\ ~free'[p]
  BY <1>e, <1>9, <1>18
<1>19. QED
  BY <1>1, <1>9, <1>10, <1>13, <1>14, <1>16, <1>17, <1>18

\* alloc()'s last step, with and without a split, keeps the heap sound; the block
\* it took is in use and every other block is as it was.
LEMMA TakeKeeps ==
  ASSUME HeapInv, NEW b \in FreeBlocks, NEW w \in Nat, w >= 3,
         b = off, w = want, AllocTake
  PROVE  /\ HeapInv'
         /\ b \in starts' /\ ~free'[b]
         /\ \A p \in starts : p # b =>
               p \in starts' /\ size'[p] = size[p] /\ free'[p] = free[p]
         /\ \A p \in starts' : p \in starts \/ free'[p]
<1> DEFINE rest == b + w
           left == size[b] - w
<1> USE Sizes, HeapAssumption DEF HeapInv, HeapTypes
<1>1. b \in starts /\ free[b] /\ FreeBlocks \in SUBSET Offsets
  BY DEF FreeBlocks
<1>2. /\ b \in Nat /\ b >= Heap /\ b \in Offsets /\ size[b] \in Nat /\ size[b] >= w
      /\ b + size[b] \in starts \cup {HeapEnd} /\ b + size[b] <= HeapEnd
  BY <1>1, BlockFacts DEF AllocTake
<1>3. \A p, q \in starts : q > p => q >= p + size[p]
  BY DEF BlocksTile, End
<1>4. /\ Unlink(list, b) \in Lists
      /\ LinksMatch(Unlink(list, b), FreeBlocks \ {b})
  BY <1>1, UnlinkKeeps DEF FreeListMatches
<1>5. size'[b] \in Nat => used' \in Int
  BY DEF AllocTake, Payload, HDR, FTR
<1>6. CASE left >= MIN_BLOCK
  <2>1. /\ size' = [size EXCEPT ![rest] = left, ![b] = w]
        /\ free' = [free EXCEPT ![rest] = TRUE, ![b] = FALSE]
        /\ foot' = [foot EXCEPT ![rest + left] = left, ![rest] = w]
        /\ list' = Push(Unlink(list, b), rest)
        /\ starts' = starts \cup {rest}
    BY <1>6 DEF AllocTake
  <2>2. /\ rest \in Nat /\ left \in Nat /\ left >= 3 /\ rest > b
        /\ rest + left = b + size[b] /\ rest \in Offsets
    <3>1. rest \in Nat /\ left \in Nat /\ left >= 3 /\ rest > b /\ rest + left = b + size[b]
      BY <1>2, <1>6
    <3> HIDE DEF rest, left
    <3>2. rest >= Heap /\ rest <= HeapEnd - 1  BY ONLY <1>2, <3>1, HeapAssumption DEF Heap
    <3>3. QED  BY <3>1, <3>2 DEF Offsets, Heap
  <2>3. rest \notin starts
    BY <1>1, <1>2, <1>3, <2>2
  <2>4. /\ size'[rest] = left /\ size'[b] = w /\ free'[rest] /\ ~free'[b]
    BY <1>2, <2>1, <2>2
  <2>5. ASSUME NEW p \in starts, p # b
        PROVE  p # rest /\ size'[p] = size[p] /\ free'[p] = free[p]
    BY <2>1, <2>2, <2>3, <2>5
  <2> HIDE DEF rest, left
  <2>6. HeapTypes'
    <3>1. rest \in Offsets \ (FreeBlocks \ {b})  BY <2>2, <2>3 DEF FreeBlocks
    <3>2. list' \in Lists
      BY <1>1, <1>4, <2>1, <3>1, PushKeeps
    <3>3. rest + left \in Heap .. HeapEnd /\ rest \in Heap .. HeapEnd
      BY <1>2, <2>2 DEF Offsets, Heap
    <3>4. used' \in Int  BY <1>5, <2>4
    <3>5. QED  BY <2>1, <2>2, <3>2, <3>3, <3>4
  <2>7. FreeListMatches'
    <3>1. rest \in Offsets \ (FreeBlocks \ {b})  BY <2>2, <2>3 DEF FreeBlocks
    <3>2. LinksMatch(list', (FreeBlocks \ {b}) \cup {rest})
      BY <1>1, <1>4, <2>1, <3>1, PushKeeps
    <3>3. FreeBlocks' = (FreeBlocks \ {b}) \cup {rest}
      BY <2>1, <2>4, <2>5 DEF FreeBlocks
    <3>4. QED  BY <3>2, <3>3 DEF FreeListMatches
  <2>8. BlocksTile'
    <3>1. Heap \in starts'  BY <2>1 DEF BlocksTile
    <3>2. ASSUME NEW p \in starts'
          PROVE  /\ size'[p] >= MIN_BLOCK
                 /\ End(p)' \in starts' \cup {HeapEnd}
                 /\ foot'[End(p)'] = size'[p]
                 /\ \A q \in starts' : q > p => q >= End(p)'
      <4>1. CASE p = b
        <5>1. End(p)' = rest /\ size'[p] = w  BY <2>4, <4>1, <1>2, <2>2 DEF End, rest
        <5>2. foot'[rest] = w  BY <2>1, <2>2 DEF Offsets
        <5>3. ASSUME NEW q \in starts', q > b PROVE q >= rest
          <6>1. CASE q = rest  BY <6>1, <2>2
          <6>2. CASE q \in starts
            <7>1. q \in Nat /\ q >= b + size[b]  BY <1>1, <1>3, <5>3, <6>2, BlockFacts
            <7>2. QED  BY <7>1, <1>2, <2>2
          <6>3. QED  BY <2>1, <6>1, <6>2
        <5>4. QED  BY <2>1, <4>1, <5>1, <5>2, <5>3
      <4>2. CASE p = rest
        <5>1. End(p)' = b + size[b] /\ size'[p] = left  BY <2>4, <4>2, <1>2, <2>2 DEF End
        <5>2. foot'[b + size[b]] = left  BY <1>2, <2>1, <2>2 DEF Heap
        <5>3. ASSUME NEW q \in starts', q > rest PROVE q >= b + size[b]
          <6>1. q \in starts /\ q \in Nat  BY <2>1, <2>2, <5>3, BlockFacts
          <6>2. q > b  BY <1>2, <2>2, <5>3, <6>1
          <6>3. QED  BY <1>1, <1>3, <6>1, <6>2
        <5>4. QED  BY <1>2, <2>1, <2>2, <4>2, <5>1, <5>2, <5>3
      <4>3. CASE p # b /\ p # rest
        <5>1. p \in starts /\ size'[p] = size[p] /\ End(p)' = p + size[p]
          BY <2>1, <2>5, <4>3 DEF End
        <5>2. /\ p \in Nat /\ size[p] \in Nat /\ size[p] >= 3
              /\ p + size[p] \in starts \cup {HeapEnd} /\ foot[p + size[p]] = size[p]
          BY <5>1, BlockFacts
        <5>3. p + size[p] # rest  BY <1>2, <2>2, <2>3, <5>2
        <5>4. p + size[p] # b + size[b]
          <6>1. CASE p < b  BY <1>1, <1>2, <1>3, <5>1, <5>2, <6>1, <2>2
          <6>2. CASE p > b  BY <1>1, <1>2, <1>3, <5>1, <5>2, <6>2
          <6>3. QED  BY <4>3, <5>2, <1>2, <6>1, <6>2
        <5>5. foot'[p + size[p]] = foot[p + size[p]]
          <6>1. p + size[p] \in Heap .. HeapEnd  BY <5>1, BlockFacts DEF Heap
          <6>2. QED  BY <2>1, <2>2, <5>3, <5>4, <6>1
        <5>6. ASSUME rest > p PROVE rest >= p + size[p]
          <6>1. b > p
            <7>1. SUFFICES ASSUME ~(b > p) PROVE FALSE  OBVIOUS
            <7>2. p > b  BY <4>3, <5>2, <1>2, <7>1
            <7>3. p >= b + size[b]  BY <1>1, <1>3, <5>1, <7>2
            <7>4. QED  BY <1>2, <2>2, <5>2, <5>6, <7>3
          <6>2. b >= p + size[p]  BY <1>1, <1>3, <5>1, <6>1
          <6>3. QED  BY <1>2, <2>2, <5>2, <6>2
        <5>7. QED  BY <1>3, <2>1, <5>1, <5>2, <5>5, <5>6
      <4>4. QED  BY <4>1, <4>2, <4>3
    <3>3. ASSUME NEW p \in starts', p # Heap
          PROVE  \E q \in starts' : End(q)' = p
      <4>1. CASE p = rest
        <5>1. End(b)' = rest  BY <2>4, <1>2, <2>2 DEF End, rest
        <5>2. QED  BY <1>1, <2>1, <4>1, <5>1
      <4>2. CASE p # rest
        <5>1. p \in starts  BY <2>1, <4>2
        <5>2. PICK q \in starts : q + size[q] = p  BY <3>3, <5>1 DEF BlocksTile, End
        <5>3. CASE q = b
          <6>1. PICK r \in starts' : r = rest  BY <2>1
          <6>2. End(r)' = p  BY <2>2, <2>4, <5>2, <5>3, <6>1 DEF End
          <6>3. QED  BY <6>2
        <5>4. CASE q # b
          <6>1. End(q)' = p  BY <2>5, <5>2, <5>4 DEF End
          <6>2. QED  BY <2>1, <6>1
        <5>5. QED  BY <5>3, <5>4
      <4>3. QED  BY <4>1, <4>2
    <3>4. QED  BY <3>1, <3>2, <3>3 DEF BlocksTile
  <2>9. NoAdjacentFree'
    <3> SUFFICES ASSUME NEW p \in starts', free'[p], End(p)' # HeapEnd
                 PROVE  ~free'[End(p)']
      BY DEF NoAdjacentFree
    <3>1. CASE p = rest
      <4>1. End(p)' = b + size[b]  BY <2>2, <2>4, <3>1 DEF End
      <4>2. b + size[b] \in starts /\ ~free[b + size[b]] /\ b + size[b] # b
        BY <1>1, <1>2, <4>1, BlockFacts DEF NoAdjacentFree, End
      <4>3. QED  BY <2>5, <4>1, <4>2
    <3>2. CASE p # rest
      <4>1. p \in starts /\ p # b /\ free[p] /\ End(p)' = p + size[p]
        BY <2>1, <2>4, <2>5, <3>2 DEF End
      <4>2. p + size[p] \in starts /\ ~free[p + size[p]]
        BY <4>1, BlockFacts DEF NoAdjacentFree, End
      <4>3. QED  BY <1>1, <2>5, <4>1, <4>2
    <3>3. QED  BY <3>1, <3>2
  <2>10. QED  BY <2>1, <2>4, <2>5, <2>6, <2>7, <2>8, <2>9, <1>1
<1>7. CASE ~(left >= MIN_BLOCK)
  <2>1. /\ free' = [free EXCEPT ![b] = FALSE]
        /\ list' = Unlink(list, b)
        /\ UNCHANGED <<size, foot, starts>>
    BY <1>7 DEF AllocTake
  <2>a. used' \in Int  BY <1>2, <1>5, <2>1
  <2>2. HeapTypes'  BY <1>2, <1>4, <2>1, <2>a
  <2>3. BlocksTile'  BY <2>1 DEF BlocksTile, End
  <2>4. NoAdjacentFree'  BY <1>2, <2>1, BlockFacts DEF NoAdjacentFree, End
  <2>5. FreeBlocks' = FreeBlocks \ {b}  BY <1>2, <2>1 DEF FreeBlocks
  <2>6. FreeListMatches'  BY <1>4, <2>1, <2>5 DEF FreeListMatches
  <2>7. QED  BY <1>1, <1>2, <2>1, <2>2, <2>3, <2>4, <2>6
<1>8. QED  BY <1>6, <1>7

\* Arena::init establishes the invariant.
LEMMA IInvInit == Init => ArenaInv
<1> SUFFICES ASSUME Init PROVE ArenaInv  OBVIOUS
<1> USE Sizes, HeapAssumption, GraceAssumption DEF Init
<1>1. Heap \in Offsets /\ HeapEnd \in Heap .. HeapEnd  BY DEF Offsets, Heap
<1>2. FreeBlocks = {Heap}  BY <1>1 DEF FreeBlocks
<1>3. TypeOK
  <2>1. list \in Lists  BY <1>1 DEF Lists
  <2>2. QED  BY <1>1, <2>1 DEF TypeOK, Lists, Heap
<1>4. BlocksTile  BY <1>1 DEF BlocksTile, End, Heap
<1>5. NoAdjacentFree  BY <1>1 DEF NoAdjacentFree, End, Heap
<1>6. FreeListMatches  BY <1>1, <1>2 DEF FreeListMatches, LinksMatch
<1>7. InUseAccounted  BY <1>2 DEF InUseAccounted
<1>8. Searching  BY DEF Searching
<1>9. QED  BY <1>3, <1>4, <1>5, <1>6, <1>7, <1>8 DEF ArenaInv

\* A step that does not touch the heap keeps what is said of it.
LEMMA HeapUnchanged ==
  ASSUME ArenaInv, UNCHANGED heapVars
  PROVE  HeapInv' /\ FreeBlocks' = FreeBlocks
  BY DEF ArenaInv, TypeOK, HeapInv, HeapTypes, heapVars, BlocksTile, End, NoAdjacentFree,
         FreeListMatches, FreeBlocks, Lists

\* Freeing a block that is held or retired: the others stay held or retired.
LEMMA FreeInUse ==
  ASSUME ArenaInv, NEW o \in held \cup retired, FreeBlock(o)
  PROVE  /\ HeapInv'
         /\ starts' = ((held \cup retired) \ {o}) \cup FreeBlocks'
         /\ \A p \in (held \cup retired) \ {o} : ~free'[p] /\ size'[p] = size[p]
<1>1. o \in starts /\ ~free[o] /\ HeapInv
  BY DEF ArenaInv, TypeOK, InUseAccounted, HeapInv, HeapTypes, Lists
<1>2. /\ HeapInv'
      /\ \A p \in starts : ~free[p] /\ p # o =>
            p \in starts' /\ size'[p] = size[p] /\ ~free'[p]
      /\ \A p \in starts' : free'[p] \/ (p \in starts /\ p # o /\ ~free[p])
  BY <1>1, FreeKeeps
<1>3. ASSUME NEW p \in (held \cup retired) \ {o}
      PROVE  p \in starts' /\ ~free'[p] /\ size'[p] = size[p]
  BY <1>2, <1>3 DEF ArenaInv, InUseAccounted
<1>4. ASSUME NEW p \in starts', ~free'[p] PROVE p \in (held \cup retired) \ {o}
  BY <1>2, <1>4 DEF ArenaInv, InUseAccounted, FreeBlocks
<1>5. QED  BY <1>2, <1>3, <1>4 DEF FreeBlocks

\* What ArenaInv says of the variables outside the heap.
Outside ==
  /\ held \subseteq starts /\ retired \subseteq starts
  /\ age \in [Offsets -> 0 .. Grace]
  /\ pc \in {"idle", "alloc", "reclaim"}
  /\ off \in Offsets \cup {NIL}
  /\ want \in Nat
  /\ todo \subseteq retired
  /\ InUseAccounted
  /\ Searching

\* ArenaInv is HeapInv and Outside.
LEMMA IInvParts == ArenaInv => HeapInv /\ Outside
  BY DEF ArenaInv, TypeOK, HeapInv, HeapTypes, Lists, Outside

\* The converse, in the state after a step.
LEMMA PartsIInv == HeapInv' /\ Outside' => ArenaInv'
  BY DEF ArenaInv, TypeOK, HeapInv, HeapTypes, Lists, Outside

\* What alloc() looks for is never smaller than the smallest block.
LEMMA WantIsLarge == \A n \in Nat \ {0} :
                        Words(8 * Words(n) + HDR + FTR) \in Nat
                        /\ Words(8 * Words(n) + HDR + FTR) >= MIN_BLOCK
  BY DEF MIN_BLOCK, Words, HDR, FTR

\* Every step of the daemon on the heap preserves the invariant.
LEMMA IInvStep == ArenaInv /\ [Next]_vars => ArenaInv'
<1> SUFFICES ASSUME ArenaInv, [Next]_vars PROVE ArenaInv'  OBVIOUS
<1> USE Sizes
<1>p. /\ HeapInv /\ InUseAccounted /\ Searching /\ held \subseteq starts /\ retired \subseteq starts
      /\ age \in [Offsets -> 0 .. Grace] /\ todo \subseteq retired /\ off \in Offsets \cup {NIL}
      /\ want \in Nat /\ starts \subseteq Offsets /\ list \in Lists
      /\ pc \in {"idle", "alloc", "reclaim"}
  BY IInvParts DEF HeapInv, HeapTypes, Outside
<1>i. /\ held \cap retired = {}
      /\ starts = held \cup retired \cup FreeBlocks
      /\ \A o \in held \cup retired : ~free[o]
  BY <1>p DEF InUseAccounted
<1>1. ASSUME NEW n \in Requests, Alloc(n) PROVE ArenaInv'
  <2>1. HeapInv' /\ FreeBlocks' = FreeBlocks  BY <1>1, HeapUnchanged DEF Alloc
  <2>2. want' \in Nat /\ want' >= MIN_BLOCK
    BY <1>1, WantIsLarge, RequestsAssumption DEF Alloc
  <2>3. off' \in FreeBlocks' \cup {NIL}
    BY <1>1, <1>p, <2>1 DEF Alloc, HeapInv, FreeListMatches, LinksMatch
  <2>4. InUseAccounted'  BY <1>1, <1>i, <2>1 DEF Alloc, heapVars, InUseAccounted
  <2>5. off' \in Offsets \cup {NIL}  BY <1>p, <2>1, <2>3 DEF FreeBlocks
  <2>6. QED  BY <1>1, <1>p, <2>1, <2>2, <2>3, <2>4, <2>5, PartsIInv DEF Outside, Alloc, heapVars, Searching
<1>2. ASSUME AllocSkip PROVE ArenaInv'
  <2>1. HeapInv' /\ FreeBlocks' = FreeBlocks  BY <1>2, HeapUnchanged DEF AllocSkip
  <2>2. off \in FreeBlocks  BY <1>2, <1>p DEF AllocSkip, Searching
  <2>3. off' \in FreeBlocks \cup {NIL}
    BY <1>2, <1>p, <2>2 DEF AllocSkip, HeapInv, FreeListMatches, LinksMatch
  <2>4. InUseAccounted'  BY <1>2, <1>i, <2>1 DEF AllocSkip, heapVars, InUseAccounted
  <2>5. off' \in Offsets \cup {NIL}  BY <1>p, <2>3 DEF FreeBlocks
  <2>6. QED  BY <1>2, <1>p, <2>1, <2>3, <2>4, <2>5, PartsIInv DEF Outside, AllocSkip, heapVars, Searching
<1>3. ASSUME AllocFail PROVE ArenaInv'
  <2>1. HeapInv' /\ FreeBlocks' = FreeBlocks  BY <1>3, HeapUnchanged DEF AllocFail
  <2>2. InUseAccounted'  BY <1>3, <1>i, <2>1 DEF AllocFail, heapVars, InUseAccounted
  <2>3. QED  BY <1>3, <1>p, <2>1, <2>2, PartsIInv DEF Outside, AllocFail, heapVars, Searching
<1>4. ASSUME AllocTake PROVE ArenaInv'
  <2>1. off \in FreeBlocks /\ want >= MIN_BLOCK  BY <1>4, <1>p DEF AllocTake, Searching
  <2>2. PICK b \in FreeBlocks : b = off  BY <2>1
  <2>3. PICK w \in Nat : w = want /\ w >= 3  BY <2>1, <1>p
  <2>4. /\ HeapInv'
        /\ b \in starts' /\ ~free'[b]
        /\ \A p \in starts : p # b =>
              p \in starts' /\ size'[p] = size[p] /\ free'[p] = free[p]
        /\ \A p \in starts' : p \in starts \/ free'[p]
    BY <1>4, <1>p, <2>2, <2>3, TakeKeeps
  <2>5. held' = held \cup {b} /\ retired' = retired /\ todo' = todo /\ age' = age
        /\ pc' = "idle" /\ off' = NIL /\ want' = 0
    BY <1>4, <2>2 DEF AllocTake
  <2>6. b \in starts /\ free[b]  BY DEF FreeBlocks
  <2>7. InUseAccounted'
    BY <1>i, <2>4, <2>5, <2>6 DEF InUseAccounted, FreeBlocks
  <2>8. QED  BY <1>p, <1>i, <2>4, <2>5, <2>6, <2>7, PartsIInv DEF Outside, Searching
<1>5. ASSUME NEW o \in held, Free(o) PROVE ArenaInv'
  <2>1. /\ HeapInv'
        /\ starts' = ((held \cup retired) \ {o}) \cup FreeBlocks'
        /\ \A p \in (held \cup retired) \ {o} : ~free'[p] /\ size'[p] = size[p]
    BY <1>5, FreeInUse DEF Free
  <2>2. held' = held \ {o} /\ retired' = retired /\ UNCHANGED <<age, pc, off, want, todo>> /\ pc = "idle"
    BY <1>5 DEF Free
  <2>3. InUseAccounted'  BY <1>i, <2>1, <2>2 DEF InUseAccounted
  <2>4. QED  BY <1>p, <1>i, <2>1, <2>2, <2>3, PartsIInv DEF Outside, Searching
<1>6. ASSUME NEW o \in held, Retire(o) PROVE ArenaInv'
  <2>1. held' = held \ {o} /\ UNCHANGED <<pc, off, want, todo>> /\ pc = "idle"
    BY <1>6 DEF Retire
  <2>2. CASE FreeBlock(o) /\ UNCHANGED <<retired, age>>
    <3>1. /\ HeapInv'
          /\ starts' = ((held \cup retired) \ {o}) \cup FreeBlocks'
          /\ \A p \in (held \cup retired) \ {o} : ~free'[p] /\ size'[p] = size[p]
      BY <2>2, FreeInUse
    <3>2. InUseAccounted'  BY <1>i, <2>1, <2>2, <3>1 DEF InUseAccounted
    <3>3. QED  BY <1>p, <1>i, <2>1, <2>2, <3>1, <3>2, PartsIInv DEF Outside, Searching
  <2>3. CASE /\ retired' = retired \cup {o}
             /\ age' = [age EXCEPT ![o] = 0]
             /\ UNCHANGED heapVars
    <3>1. HeapInv' /\ FreeBlocks' = FreeBlocks  BY <2>3, HeapUnchanged
    <3>2. InUseAccounted'  BY <1>i, <2>1, <2>3, <3>1 DEF InUseAccounted, heapVars
    <3>3. age' \in [Offsets -> 0 .. Grace]  BY <1>p, <2>3, GraceAssumption
    <3>4. QED  BY <1>p, <2>1, <2>3, <3>1, <3>2, <3>3, PartsIInv DEF Outside, Searching, heapVars
  <2>4. QED  BY <1>6, <2>2, <2>3 DEF Retire
<1>7. ASSUME Reclaim PROVE ArenaInv'
  <2>1. HeapInv' /\ FreeBlocks' = FreeBlocks  BY <1>7, HeapUnchanged DEF Reclaim
  <2>2. InUseAccounted'  BY <1>7, <1>i, <2>1 DEF Reclaim, heapVars, InUseAccounted
  <2>3. QED  BY <1>7, <1>p, <2>1, <2>2, PartsIInv DEF Outside, Reclaim, heapVars, Searching
<1>8. ASSUME NEW o \in todo, ReclaimOne(o) PROVE ArenaInv'
  <2>1. todo' = todo \ {o} /\ UNCHANGED <<held, age, pc, off, want>> /\ pc = "reclaim"
    BY <1>8 DEF ReclaimOne
  <2>2. CASE FreeBlock(o) /\ retired' = retired \ {o}
    <3>1. /\ HeapInv'
          /\ starts' = ((held \cup retired) \ {o}) \cup FreeBlocks'
          /\ \A p \in (held \cup retired) \ {o} : ~free'[p] /\ size'[p] = size[p]
      BY <1>p, <2>2, FreeInUse
    <3>2. InUseAccounted'  BY <1>p, <1>i, <2>1, <2>2, <3>1 DEF InUseAccounted
    <3>3. QED  BY <1>p, <1>i, <2>1, <2>2, <3>1, <3>2, PartsIInv DEF Outside, Searching
  <2>3. CASE UNCHANGED <<heapVars, retired>>
    <3>1. HeapInv' /\ FreeBlocks' = FreeBlocks  BY <2>3, HeapUnchanged
    <3>2. InUseAccounted'  BY <1>i, <2>1, <2>3, <3>1 DEF InUseAccounted, heapVars
    <3>3. QED  BY <1>p, <2>1, <2>3, <3>1, <3>2, PartsIInv DEF Outside, Searching, heapVars
  <2>4. QED  BY <1>8, <2>2, <2>3 DEF ReclaimOne
<1>9. ASSUME ReclaimEnd PROVE ArenaInv'
  <2>1. HeapInv' /\ FreeBlocks' = FreeBlocks  BY <1>9, HeapUnchanged DEF ReclaimEnd
  <2>2. InUseAccounted'  BY <1>9, <1>i, <2>1 DEF ReclaimEnd, heapVars, InUseAccounted
  <2>3. QED  BY <1>9, <1>p, <2>1, <2>2, PartsIInv DEF Outside, ReclaimEnd, heapVars, Searching
<1>10. ASSUME Tick PROVE ArenaInv'
  <2>1. HeapInv' /\ FreeBlocks' = FreeBlocks  BY <1>10, HeapUnchanged DEF Tick
  <2>2. InUseAccounted'  BY <1>10, <1>i, <2>1 DEF Tick, heapVars, InUseAccounted
  <2>3. age' \in [Offsets -> 0 .. Grace]  BY <1>10, <1>p, GraceAssumption DEF Tick
  <2>4. QED  BY <1>10, <1>p, <2>1, <2>2, <2>3, PartsIInv DEF Outside, Tick, heapVars, Searching
<1>11. CASE UNCHANGED vars
  <2>1. HeapInv' /\ FreeBlocks' = FreeBlocks  BY <1>11, HeapUnchanged DEF vars
  <2>2. InUseAccounted'  BY <1>11, <1>i, <2>1 DEF vars, heapVars, InUseAccounted
  <2>3. QED  BY <1>11, <1>p, <2>1, <2>2, PartsIInv DEF Outside, vars, heapVars, Searching
<1>12. QED
  BY <1>1, <1>2, <1>3, <1>4, <1>5, <1>6, <1>7, <1>8, <1>9, <1>10, <1>11 DEF Next

-----------------------------------------------------------------------------
(* The theorems.                                                           *)

\* Whatever is allocated, freed, retired and reclaimed, the blocks tile the heap
\* and their footers agree with their headers, no two free blocks are neighbours,
\* the free list is consistently linked through free blocks only, and every block
\* in use has one owner.
THEOREM HeapIsSound == Spec => []ArenaInv
  BY IInvInit, IInvStep, PTL DEF Spec

\* Every variable keeps its type: in particular the links and the offsets that
\* alloc() and free() follow never leave the heap.
THEOREM TypeCorrect == Spec => []TypeOK
<1>1. ArenaInv => TypeOK  BY DEF ArenaInv
<1>2. QED  BY <1>1, HeapIsSound, PTL

\* Nothing fragments for good: when every block has been given back, coalescing
\* has put the heap together again.
THEOREM HeapIsRecovered == Spec => []HeapRecovers
<1>1. ASSUME ArenaInv, held \cup retired = {} PROVE starts = {Heap}
  <2>1. starts = FreeBlocks /\ Heap \in starts
    BY <1>1 DEF ArenaInv, InUseAccounted, BlocksTile
  <2>2. End(Heap) = HeapEnd
    BY <1>1, <2>1 DEF ArenaInv, BlocksTile, NoAdjacentFree, FreeBlocks
  <2>3. \A p \in starts : p = Heap
    <3> TAKE p \in starts
    <3>1. p \in Heap .. HeapEnd - 1  BY <1>1 DEF ArenaInv, TypeOK, Offsets
    <3>2. p > Heap => p >= HeapEnd  BY <1>1, <2>1, <2>2 DEF ArenaInv, BlocksTile
    <3>3. QED  BY <3>1, <3>2, HeapAssumption DEF Heap
  <2>4. QED  BY <2>1, <2>3
<1>2. ArenaInv => HeapRecovers  BY <1>1 DEF HeapRecovers
<1>3. QED  BY <1>2, HeapIsSound, PTL

\* A block that somebody holds, or that is waiting out its grace period, is never
\* moved, resized or swallowed by what happens around it.
THEOREM BlocksStayPut == Spec => BlocksStay
<1> DEFINE Stays == \A o \in held \cup retired :
                      o \in held' \cup retired' => o \in starts' /\ size'[o] = size[o]
<1>1. ASSUME ArenaInv, [Next]_vars PROVE Stays \/ UNCHANGED vars
  <2>i. held \subseteq starts /\ retired \subseteq starts /\ held \cap retired = {}
        /\ todo \subseteq retired /\ \A o \in held \cup retired : ~free[o]
    BY <1>1 DEF ArenaInv, TypeOK, InUseAccounted
  <2>1. ASSUME UNCHANGED heapVars PROVE Stays  BY <2>1, <2>i DEF heapVars
  <2>2. ASSUME NEW o \in held \cup retired, FreeBlock(o), o \notin held' \cup retired'
        PROVE Stays
    BY <1>1, <2>2, <2>i, FreeInUse
  <2>3. CASE AllocTake
    <3>1. off \in FreeBlocks /\ want >= MIN_BLOCK  BY <1>1, <2>3 DEF AllocTake, ArenaInv, Searching
    <3>2. PICK b \in FreeBlocks : b = off  BY <3>1
    <3>3. PICK w \in Nat : w = want /\ w >= 3  BY <1>1, <3>1, Sizes DEF ArenaInv, TypeOK
    <3>4. \A p \in starts : p # b => p \in starts' /\ size'[p] = size[p]
      BY <1>1, <2>3, <3>2, <3>3, TakeKeeps, IInvParts
    <3>5. QED  BY <2>i, <3>2, <3>4 DEF FreeBlocks
  <2>4. ASSUME NEW o \in held, Free(o) PROVE Stays
    BY <2>2, <2>4, <2>i DEF Free
  <2>5. ASSUME NEW o \in held, Retire(o) PROVE Stays
    <3>1. CASE FreeBlock(o) /\ retired' = retired
      BY <2>2, <2>5, <2>i, <3>1 DEF Retire
    <3>2. QED  BY <2>1, <2>5, <3>1 DEF Retire
  <2>6. ASSUME NEW o \in todo, ReclaimOne(o) PROVE Stays
    <3>1. CASE FreeBlock(o) /\ retired' = retired \ {o} /\ held' = held
      BY <2>2, <2>i, <3>1
    <3>2. QED  BY <2>1, <2>6, <3>1 DEF ReclaimOne
  <2>7. QED
    BY <1>1, <2>1, <2>3, <2>4, <2>5, <2>6
    DEF Next, Alloc, AllocSkip, AllocFail, Reclaim, ReclaimEnd, Tick
<1>2. QED  BY <1>1, HeapIsSound, PTL DEF Spec, BlocksStay

\* Whatever path frees it, a block on the retire list has waited the whole grace
\* period.
THEOREM GraceAlwaysKept == Spec => GraceIsKept
<1>1. ASSUME [Next]_vars PROVE (\A o \in retired \ retired' : age[o] >= Grace) \/ UNCHANGED vars
  <2>1. ASSUME NEW o \in held, Free(o) \/ Retire(o) PROVE retired \ retired' = {}
    BY <2>1 DEF Free, Retire
  <2>2. ASSUME NEW o \in todo, ReclaimOne(o)
        PROVE \A p \in retired \ retired' : age[p] >= Grace
    BY <2>2 DEF ReclaimOne
  <2>3. CASE AllocSkip \/ AllocFail \/ AllocTake \/ Reclaim \/ ReclaimEnd \/ Tick
             \/ (\E n \in Requests : Alloc(n))
    <3>1. retired' = retired
      BY <2>3 DEF AllocSkip, AllocFail, AllocTake, Reclaim, ReclaimEnd, Tick, Alloc
    <3>2. QED  BY <3>1
  <2>4. QED  BY <1>1, <2>1, <2>2, <2>3 DEF Next
<1>2. QED  BY <1>1, PTL DEF Spec, GraceIsKept
=============================================================================
