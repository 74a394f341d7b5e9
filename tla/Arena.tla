------------------------------- MODULE Arena --------------------------------
(***************************************************************************)
(* The arena's heap (src/daemon/arena.cpp): boundary-tagged blocks, a      *)
(* doubly linked free list searched first fit, coalescing in free(), and   *)
(* the retirement of dead blocks for a grace period.                       *)
(*                                                                         *)
(* Only the daemon's one thread touches the heap, so operations do not     *)
(* interleave.  The loops of alloc() and reclaim() take a step per         *)
(* iteration, which makes their termination a property.                    *)
(*                                                                         *)
(* Every block starts and ends on a multiple of 8 (align8), so offsets and *)
(* block sizes are counted in 8-byte words.  Headers are kept for every    *)
(* offset, also where no block starts any more: merging leaves the old     *)
(* header behind.  `starts' is the set of current block starts; the code   *)
(* has no such set and nothing but the properties reads it.                *)
(*                                                                         *)
(* The list of retired blocks is a set: reclaim() looks at every entry on  *)
(* every pass, and its order decides nothing but the order of the frees.   *)
(***************************************************************************)
EXTENDS Integers

CONSTANTS
  HeapEnd,       \* bncl_ctl.heap_end, in words
  Requests,      \* the byte counts alloc() is called with
  Grace          \* RETIRE_GRACE_NS, in ticks of the reclaiming loop

Heap == 8            \* bncl_ctl.heap: BNCL_CTL_BYTES, in words
NIL == 0
HDR == 16
FTR == 4

\* align8, as a number of words.
Words(bytes) == (bytes + 7) \div 8

MIN_BLOCK == Words(HDR + FTR)
RETIRED_BYTES == 16  \* sizeof(Retired)

ASSUME HeapAssumption == HeapEnd \in Nat /\ HeapEnd > Heap + MIN_BLOCK
ASSUME RequestsAssumption == Requests \subseteq Nat \ {0}
ASSUME GraceAssumption == Grace \in Nat \ {0}

VARIABLES
  size, free,    \* Blk.size and Blk.free at every offset
  foot,          \* foot[e]: the Foot.size that ends at offset e
  list,          \* the free list: free_head, and Blk.next and Blk.prev
  used,          \* bncl_ctl.used, in bytes
  starts,        \* where blocks start
  held,          \* blocks handed out and neither freed nor retired
  retired,       \* blocks on the retire list
  age,           \* how long ago each was retired, up to Grace
  pc,            \* "idle", "alloc" or "reclaim"
  off, want,     \* alloc()'s locals
  todo           \* what reclaim() has still to look at

heapVars == <<size, free, foot, list, used, starts>>
vars == <<heapVars, held, retired, age, pc, off, want, todo>>

Offsets == Heap .. HeapEnd - 1

FreeBlocks == {o \in starts : free[o]}

TypeOK ==
  /\ size \in [Offsets -> Nat]
  /\ free \in [Offsets -> BOOLEAN]
  /\ foot \in [Heap .. HeapEnd -> Nat]
  /\ list \in [head : Offsets \cup {NIL},
               next : [Offsets -> Offsets \cup {NIL}],
               prev : [Offsets -> Offsets \cup {NIL}]]
  /\ used \in Int
  /\ starts \subseteq Offsets
  /\ held \subseteq starts
  /\ retired \subseteq starts
  /\ age \in [Offsets -> 0 .. Grace]
  /\ pc \in {"idle", "alloc", "reclaim"}
  /\ off \in Offsets \cup {NIL}
  /\ want \in Nat
  /\ todo \subseteq retired
-----------------------------------------------------------------------------
(* The free list.                                                          *)

\* Take block o out of the list.
Unlink(l, o) ==
  [head |-> IF l.prev[o] # NIL THEN l.head ELSE l.next[o],
   next |-> IF l.prev[o] # NIL THEN [l.next EXCEPT ![l.prev[o]] = l.next[o]]
                               ELSE l.next,
   prev |-> IF l.next[o] # NIL THEN [l.prev EXCEPT ![l.next[o]] = l.prev[o]]
                               ELSE l.prev]

\* Mutant of Push: the rest of the list is dropped.
PushAlone(l, o) ==
  [head |-> o,
   next |-> [l.next EXCEPT ![o] = NIL],
   prev |-> [l.prev EXCEPT ![o] = NIL]]

\* Put block o at the front.
Push(l, o) ==
  [head |-> o,
   next |-> [l.next EXCEPT ![o] = l.head],
   prev |-> IF l.head # NIL THEN [l.prev EXCEPT ![o] = NIL, ![l.head] = o]
                            ELSE [l.prev EXCEPT ![o] = NIL]]

\* What a block of s words adds to `used'.
Payload(s) == 8 * s - HDR - FTR
-----------------------------------------------------------------------------
\* Arena::init on zeroed memory: one free block.
Init ==
  /\ size = [o \in Offsets |-> IF o = Heap THEN HeapEnd - Heap ELSE 0]
  /\ free = [o \in Offsets |-> o = Heap]
  /\ foot = [e \in Heap .. HeapEnd |-> IF e = HeapEnd THEN HeapEnd - Heap ELSE 0]
  /\ list = [head |-> Heap,
             next |-> [o \in Offsets |-> NIL],
             prev |-> [o \in Offsets |-> NIL]]
  /\ used = 0
  /\ starts = {Heap}
  /\ held = {}
  /\ retired = {}
  /\ age = [o \in Offsets |-> 0]
  /\ pc = "idle"
  /\ off = NIL
  /\ want = 0
  /\ todo = {}

\* alloc(n), up to the loop.  A request larger than the arena returns at once.
Alloc(n) ==
  /\ pc = "idle"
  /\ want' = Words(8 * Words(n) + HDR + FTR)
  /\ want' <= HeapEnd
  /\ off' = list.head
  /\ pc' = "alloc"
  /\ UNCHANGED <<heapVars, held, retired, age, todo>>

\* Mutant of AllocSkip: the search starts over instead of going on.
AllocRestart ==
  /\ pc = "alloc"
  /\ off # NIL
  /\ size[off] < want
  /\ off' = list.head
  /\ UNCHANGED <<heapVars, held, retired, age, pc, want, todo>>

\* A block that is too small: the next one.
AllocSkip ==
  /\ pc = "alloc"
  /\ off # NIL
  /\ size[off] < want
  /\ off' = list.next[off]
  /\ UNCHANGED <<heapVars, held, retired, age, pc, want, todo>>

\* The end of the list: the heap is full.
AllocFail ==
  /\ pc = "alloc"
  /\ off = NIL
  /\ pc' = "idle"
  /\ want' = 0
  /\ UNCHANGED <<heapVars, held, retired, age, off, todo>>

\* Mutant of AllocTake: a split leaves the remainder its old footer.
AllocNoFooter ==
  /\ pc = "alloc"
  /\ off # NIL
  /\ size[off] >= want
  /\ LET rest == off + want
         left == size[off] - want
     IN  IF left >= MIN_BLOCK
           THEN /\ size' = [size EXCEPT ![rest] = left, ![off] = want]
                /\ free' = [free EXCEPT ![rest] = TRUE, ![off] = FALSE]
                /\ foot' = [foot EXCEPT ![rest] = want]
                /\ list' = Push(Unlink(list, off), rest)
                /\ starts' = starts \cup {rest}
           ELSE /\ free' = [free EXCEPT ![off] = FALSE]
                /\ list' = Unlink(list, off)
                /\ UNCHANGED <<size, foot, starts>>
  /\ used' = used + Payload(size'[off])
  /\ held' = held \cup {off}
  /\ pc' = "idle"
  /\ off' = NIL
  /\ want' = 0
  /\ UNCHANGED <<retired, age, todo>>

\* The first block that fits, split if the remainder is a usable block.
AllocTake ==
  /\ pc = "alloc"
  /\ off # NIL
  /\ size[off] >= want
  /\ LET unlinked == Unlink(list, off)
         rest == off + want
         left == size[off] - want
     IN  IF left >= MIN_BLOCK
           THEN /\ size' = [size EXCEPT ![rest] = left, ![off] = want]
                /\ free' = [free EXCEPT ![rest] = TRUE, ![off] = FALSE]
                /\ foot' = [foot EXCEPT ![rest + left] = left, ![rest] = want]
                /\ list' = Push(unlinked, rest)
                /\ starts' = starts \cup {rest}
           ELSE /\ free' = [free EXCEPT ![off] = FALSE]
                /\ list' = unlinked
                /\ UNCHANGED <<size, foot, starts>>
  /\ used' = used + Payload(size'[off])
  /\ held' = held \cup {off}
  /\ pc' = "idle"
  /\ off' = NIL
  /\ want' = 0
  /\ UNCHANGED <<retired, age, todo>>

\* Mutants of FreeBlock: no merge backward, and a merge with a block after it that is
\* in use.
FreeNoBackward(o) ==
  LET after == o + size[o]
      fwd == after < HeapEnd /\ free[after]
      size1 == IF fwd THEN size[o] + size[after] ELSE size[o]
  IN  /\ ~free[o]
      /\ used' = used - Payload(size[o])
      /\ size' = [size EXCEPT ![o] = size1]
      /\ free' = [free EXCEPT ![o] = TRUE]
      /\ foot' = [foot EXCEPT ![o + size1] = size1]
      /\ list' = Push(IF fwd THEN Unlink(list, after) ELSE list, o)
      /\ starts' = starts \ (IF fwd THEN {after} ELSE {})

FreeSwallows(o) ==
  LET after == o + size[o]
      fwd == after < HeapEnd
      size1 == IF fwd THEN size[o] + size[after] ELSE size[o]
  IN  /\ ~free[o]
      /\ used' = used - Payload(size[o])
      /\ size' = [size EXCEPT ![o] = size1]
      /\ free' = [free EXCEPT ![o] = TRUE]
      /\ foot' = [foot EXCEPT ![o + size1] = size1]
      /\ list' = Push(IF fwd THEN Unlink(list, after) ELSE list, o)
      /\ starts' = starts \ (IF fwd THEN {after} ELSE {})

\* free(): merge with the block after and the block before where they are free,
\* and put the result on the list.
FreeBlock(o) ==
  LET after == o + size[o]
      fwd == after < HeapEnd /\ free[after]
      list1 == IF fwd THEN Unlink(list, after) ELSE list
      size1 == IF fwd THEN size[o] + size[after] ELSE size[o]
      before == o - foot[o]
      back == o > Heap /\ before >= Heap /\ free[before]
      list2 == IF back THEN Unlink(list1, before) ELSE list1
      size2 == IF back THEN size[before] + size1 ELSE size1
      at == IF back THEN before ELSE o
  IN  IF free[o]
        THEN UNCHANGED heapVars
        ELSE /\ used' = used - Payload(size[o])
             /\ size' = [size EXCEPT ![o] = size1, ![at] = size2]
             /\ free' = [free EXCEPT ![at] = TRUE]
             /\ foot' = [foot EXCEPT ![at + size2] = size2]
             /\ list' = Push(list2, at)
             /\ starts' = (starts \ (IF fwd THEN {after} ELSE {}))
                                  \ (IF back THEN {o} ELSE {})

\* free() of a live block.
Free(o) ==
  /\ pc = "idle"
  /\ FreeBlock(o)
  /\ held' = held \ {o}
  /\ UNCHANGED <<retired, age, pc, off, want, todo>>

\* retire(): a block that cannot hold the Retired record is freed at once.
Retire(o) ==
  /\ pc = "idle"
  /\ IF 8 * size[o] < HDR + RETIRED_BYTES + FTR
       THEN FreeBlock(o) /\ UNCHANGED <<retired, age>>
       ELSE /\ retired' = retired \cup {o}
            /\ age' = [age EXCEPT ![o] = 0]
            /\ UNCHANGED heapVars
  /\ held' = held \ {o}
  /\ UNCHANGED <<pc, off, want, todo>>

\* reclaim(): start walking the retire list.
Reclaim ==
  /\ pc = "idle"
  /\ retired # {}
  /\ todo' = retired
  /\ pc' = "reclaim"
  /\ UNCHANGED <<heapVars, held, retired, age, off, want>>

\* Mutant of ReclaimOne: an entry is freed before it is due.
ReclaimEarly(o) ==
  /\ pc = "reclaim"
  /\ FreeBlock(o)
  /\ retired' = retired \ {o}
  /\ todo' = todo \ {o}
  /\ UNCHANGED <<held, age, pc, off, want>>

\* One entry: free it if it is due, keep it otherwise.
ReclaimOne(o) ==
  /\ pc = "reclaim"
  /\ IF age[o] >= Grace
       THEN FreeBlock(o) /\ retired' = retired \ {o}
       ELSE UNCHANGED <<heapVars, retired>>
  /\ todo' = todo \ {o}
  /\ UNCHANGED <<held, age, pc, off, want>>

ReclaimEnd ==
  /\ pc = "reclaim"
  /\ todo = {}
  /\ pc' = "idle"
  /\ UNCHANGED <<heapVars, held, retired, age, off, want, todo>>

\* Time passes between operations.
Tick ==
  /\ pc = "idle"
  /\ \E o \in retired : age[o] < Grace
  /\ age' = [o \in Offsets |->
               IF o \in retired /\ age[o] < Grace THEN age[o] + 1 ELSE age[o]]
  /\ UNCHANGED <<heapVars, held, retired, pc, off, want, todo>>

Next ==
  \/ \E n \in Requests : Alloc(n)
  \/ AllocSkip \/ AllocFail \/ AllocTake
  \/ \E o \in held : Free(o) \/ Retire(o)
  \/ Reclaim \/ (\E o \in todo : ReclaimOne(o)) \/ ReclaimEnd
  \/ Tick

Spec == Init /\ [][Next]_vars

\* The daemon's loops run on: once in alloc() or reclaim() it goes on.
Loop == AllocSkip \/ AllocFail \/ AllocTake \/ (\E o \in todo : ReclaimOne(o))
          \/ ReclaimEnd
LiveSpec == Spec /\ WF_vars(Loop)
-----------------------------------------------------------------------------
(* Properties.                                                             *)

End(o) == o + size[o]

\* The blocks tile the heap: each begins where another ends, none overlap, and
\* each block's footer says how far back it began, so that free() finds both
\* neighbours by arithmetic alone.
BlocksTile ==
  /\ Heap \in starts
  /\ \A o \in starts :
       /\ size[o] >= MIN_BLOCK
       /\ End(o) \in starts \cup {HeapEnd}
       /\ foot[End(o)] = size[o]
       /\ \A p \in starts : p > o => p >= End(o)
       /\ o # Heap => \E p \in starts : End(p) = o

\* free() leaves no two free blocks side by side.
NoAdjacentFree ==
  \A o \in starts : free[o] /\ End(o) # HeapEnd => ~free[End(o)]

\* Each link of the free list is matched by the link back, and the list never
\* leads to a block that is in use.
LinksMatch(l, F) ==
  /\ l.head \in F \cup {NIL}
  /\ \A o \in F :
       /\ l.next[o] \in F \cup {NIL}
       /\ l.prev[o] \in F \cup {NIL}
       /\ l.next[o] # NIL => l.prev[l.next[o]] = o
       /\ l.prev[o] # NIL => l.next[l.prev[o]] = o
       /\ l.prev[o] = NIL <=> l.head = o

FreeListMatches == LinksMatch(list, FreeBlocks)

\* A block in use is one somebody holds or one on the retire list, and never
\* both: nothing is lost and nothing has two owners.
InUseAccounted ==
  /\ held \cap retired = {}
  /\ starts = held \cup retired \cup FreeBlocks
  /\ \A o \in held \cup retired : ~free[o]

\* Walking the list from free_head visits every free block and then ends, so
\* alloc() finds a block whenever one fits.
FreeListReaches ==
  LET at[i \in 0 .. HeapEnd] ==
        IF i = 0 THEN list.head
        ELSE IF at[i - 1] = NIL THEN NIL ELSE list.next[at[i - 1]]
  IN  /\ at[HeapEnd] = NIL
      /\ FreeBlocks = {at[i] : i \in 0 .. HeapEnd} \ {NIL}

\* When everything has been given back the heap is one free block again.
HeapRecovers == held \cup retired = {} => starts = {Heap}

\* A block that is held or retired stays where it is and as large as it is until
\* it is freed, whatever is allocated, split and merged around it.
BlocksStay ==
  [][\A o \in held \cup retired :
       o \in held' \cup retired' => o \in starts' /\ size'[o] = size[o]]_vars

\* A block on the retire list leaves it only when its grace period is over.  (One too
\* small to hold the record of its retirement never gets there: retire() frees it.)
GraceIsKept == [][\A o \in retired \ retired' : age[o] >= Grace]_vars

\* alloc()'s search and reclaim()'s walk end.
LoopsEnd == (pc # "idle") ~> (pc = "idle")

\* The search stands on a free block, for a block no smaller than any block.
Searching ==
  pc = "alloc" => off \in FreeBlocks \cup {NIL} /\ want >= MIN_BLOCK

\* The inductive invariant.  The blocks tile the heap and their footers agree with
\* their headers, no free neighbours are left unmerged, the free list is linked both
\* ways through free blocks only, and every block is held, retired or free: what
\* alloc() and free() take for granted when they compute the address of a neighbour.
ArenaInv ==
  /\ TypeOK
  /\ BlocksTile
  /\ NoAdjacentFree
  /\ FreeListMatches
  /\ InUseAccounted
  /\ Searching

=============================================================================
