SPECIFICATION LiveSpec
CONSTANTS
  HeapEnd = 28
  Requests = {8, 9, 24}
  Grace = 2
INVARIANTS
  ArenaInv
  HeapRecovers
  AccountsAreExact
PROPERTIES
  BlocksStay
  
  LoopsEnd
VIEW LiveHeap
