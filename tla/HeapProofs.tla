----------------------------- MODULE HeapProofs -----------------------------
(***************************************************************************)
(* The heap's type invariant, and that no page is handed out twice, for    *)
(* every memory map, every initial page count and every run of requests;   *)
(* and, for the maps that 32-bit variables can hold, that the heap is the  *)
(* largest usable range and that what is handed out of it is memory.       *)
(***************************************************************************)
EXTENDS Heap, TLAPS

-----------------------------------------------------------------------------
(* Remainders.                                                              *)

\* A number is its remainder and a multiple of the modulus.
LEMMA Division ==
  ASSUME NEW w \in Nat \ {0}, NEW x \in Nat
  PROVE  x % w \in 0..(w-1) /\ \E q \in Int : x = w * q + (x % w)
<1>1. x = w * (x \div w) + (x % w) /\ x \div w \in Int /\ x % w \in 0..(w-1) OBVIOUS
<1>2. QED BY <1>1

\* A multiple that is not zero is no smaller than the modulus.
LEMMA NoSmallMultiple ==
  ASSUME NEW w \in Nat \ {0}, NEW q \in Int, w * q < w, -w < w * q
  PROVE  q = 0
<1>1. CASE q >= 1 BY <1>1, SMT
<1>2. CASE q <= -1 BY <1>2, SMT
<1>3. QED BY <1>1, <1>2

\* Two numbers less than the modulus apart have different remainders, also
\* where each is reached by wrapping once on the way.
LEMMA RemaindersDiffer ==
  ASSUME NEW w \in Nat \ {0}, NEW x \in Nat, NEW y \in Nat, NEW n \in Nat, NEW m \in Nat,
         x + n < y + m, y + m < x + n + w
  PROVE  ((x % w) + n) % w # ((y % w) + m) % w
<1> SUFFICES ASSUME ((x % w) + n) % w = ((y % w) + m) % w PROVE FALSE OBVIOUS
<1>1. PICK p \in Int : x = w * p + (x % w) BY Division
<1>2. PICK q \in Int : y = w * q + (y % w) BY Division
<1>3. (x % w) + n \in Nat /\ (y % w) + m \in Nat BY Division
<1> DEFINE e == ((x % w) + n) % w
<1>4. PICK r \in Int : (x % w) + n = w * r + e BY <1>3, Division
<1>5. PICK s \in Int : (y % w) + m = w * s + e BY <1>3, Division
<1>6. e \in Int /\ x % w \in Int /\ y % w \in Int BY <1>3, Division
<1> HIDE DEF e
<1> DEFINE a == x % w
           b == y % w
<1>7. a \in Int /\ b \in Int /\ x = w * p + a /\ y = w * q + b /\ a + n = w * r + e /\ b + m = w * s + e
  BY <1>1, <1>2, <1>4, <1>5, <1>6
<1> HIDE DEF a, b
<1>8. y + m - (x + n) = w * (q + s - p - r)
  <2>1. x + n = w * p + (w * r + e) BY <1>7, <1>6
  <2>2. y + m = w * q + (w * s + e) BY <1>7, <1>6
  <2>3. w * (q + s - p - r) = w * q + w * s - w * p - w * r OBVIOUS
  <2>4. w * q \in Int /\ w * s \in Int /\ w * p \in Int /\ w * r \in Int OBVIOUS
  <2>5. QED BY <2>1, <2>2, <2>3, <2>4, <1>6
<1>9. q + s - p - r = 0
  <2>1. q + s - p - r \in Int OBVIOUS
  <2>2. y + m - (x + n) < w /\ -w < y + m - (x + n) OBVIOUS
  <2>3. QED BY <1>8, <2>1, <2>2, NoSmallMultiple
<1>10. QED BY <1>8, <1>9

-----------------------------------------------------------------------------
(* Every variable keeps its type, for every map and every request.          *)

LEMMA DescriptorType ==
  ASSUME NEW m \in Maps
  PROVE  /\ Len(m) \in Nat
         /\ \A j \in 1..Len(m) : m[j].lengthL \in 0..(Word-1) /\ m[j].baseL \in 0..(Word-1)
<1>1. m \in Seq(Descriptor) BY HeapAssumption
<1>2. \A j \in 1..Len(m) : m[j] \in Descriptor BY <1>1
<1>3. QED BY <1>1, <1>2, SMTT(30) DEF Descriptor

LEMMA InitTypeOK == Init => TypeOK
<1> SUFFICES ASSUME Init PROVE TypeOK OBVIOUS
<1>1. Len(map) \in Nat BY DescriptorType DEF Init
<1>2. start \in Nat BY HeapAssumption DEF Init
<1>3. QED BY <1>1, <1>2, HeapAssumption DEF Init, TypeOK

LEMMA StepTypeOK == TypeOK /\ [Next]_vars => TypeOK'
<1> SUFFICES ASSUME TypeOK, [Next]_vars PROVE TypeOK' OBVIOUS
<1>1. Len(map) \in Nat BY DescriptorType DEF TypeOK
<1>2. start \in Nat /\ Word \in Nat \ {0} /\ MaxPages \in Nat BY HeapAssumption DEF TypeOK
<1>3. CASE memory_init
  <2>1. i \in 1..Len(map) BY <1>1, <1>3 DEF memory_init, TypeOK
  <2>2. map[i].lengthL \in 0..(Word-1) /\ map[i].baseL \in 0..(Word-1)
    BY <2>1, DescriptorType DEF TypeOK
  <2>3. maxLen' \in 0..(Word-1) /\ g_heapStart' \in 0..(Word-1)
    BY <1>3, <2>2 DEF memory_init, TypeOK
  <2>4. i' \in 1..(Len(map) + 1) BY <1>1, <1>3, <2>1 DEF memory_init
  <2>5. QED BY <1>3, <2>3, <2>4 DEF memory_init, TypeOK
<1>4. CASE memory_init_return BY <1>4 DEF memory_init_return, TypeOK
<1>5. ASSUME NEW count \in Requests, alloc_page(count) PROVE TypeOK'
  <2>1. count \in Nat BY HeapAssumption
  <2>2. g_heapStart + g_pageCount \in Nat BY <1>2 DEF TypeOK
  <2>3. (g_heapStart + g_pageCount) % Word \in 0..(Word-1) BY <1>2, <2>2, Division
  <2>4. g_pageCount' \in Nat /\ g_pageCount' - start' \in 0..MaxPages
    BY <1>2, <1>5, <2>1 DEF alloc_page, TypeOK
  <2>5. blocks' \subseteq [at : 0..(Word-1), from : 0..MaxPages, count : Requests]
    BY <1>5, <2>3 DEF alloc_page, TypeOK
  <2>6. QED BY <1>5, <2>4, <2>5 DEF alloc_page, TypeOK
<1>6. CASE UNCHANGED vars BY <1>6 DEF vars, TypeOK
<1>7. QED BY <1>3, <1>4, <1>5, <1>6 DEF Next

\* Every variable keeps its type in every reachable state of memory_init and
\* alloc_page.
THEOREM TypeCorrect == Spec => []TypeOK
BY InitTypeOK, StepTypeOK, PTL DEF Spec

-----------------------------------------------------------------------------
(* No page twice.  The inductive invariant places every block: where its   *)
(* pointer comes from, and that blocks follow one another.                 *)

Placed(b) == /\ b.at = (g_heapStart + start + b.from) % Word
             /\ b.from + b.count <= g_pageCount - start

Apart2(b, d) == b.from + b.count <= d.from \/ d.from + d.count <= b.from

BlocksInv == /\ pc = "scan" => blocks = {} /\ g_pageCount = start
             /\ \A b \in blocks : Placed(b)
             /\ \A b, d \in blocks : b # d => Apart2(b, d)

LEMMA BlockType ==
  ASSUME TypeOK, NEW b \in blocks
  PROVE  b.from \in Nat /\ b.count \in Nat
<1>1. b \in [at : 0..(Word-1), from : 0..MaxPages, count : Requests] BY DEF TypeOK
<1>2. b.from \in 0..MaxPages /\ b.count \in Requests BY <1>1
<1>3. b.from \in Nat BY <1>2
<1>4. b.count \in Nat BY <1>2, HeapAssumption
<1>5. QED BY <1>3, <1>4

LEMMA StepBlocksInv == TypeOK /\ BlocksInv /\ [Next]_vars => BlocksInv'
<1> SUFFICES ASSUME TypeOK, BlocksInv, [Next]_vars PROVE BlocksInv' OBVIOUS
<1>1. start \in Nat /\ Requests \subseteq Nat /\ MaxPages \in Nat BY HeapAssumption DEF TypeOK
<1>2. CASE memory_init BY <1>2 DEF memory_init, BlocksInv
<1>3. CASE memory_init_return BY <1>3 DEF memory_init_return, BlocksInv, Placed, Apart2
<1>4. ASSUME NEW count \in Requests, alloc_page(count) PROVE BlocksInv'
  <2> PICK new : new = [at |-> (g_heapStart + g_pageCount) % Word,
                        from |-> g_pageCount - start, count |-> count]
    OBVIOUS
  <2>1. blocks' = blocks \cup {new} /\ g_pageCount' = g_pageCount + count
        /\ UNCHANGED <<pc, start, g_heapStart>> /\ pc = "ready"
    BY <1>4 DEF alloc_page
  <2>2. \A b \in blocks : b.from \in Nat /\ b.count \in Nat BY BlockType
  <2>3. Placed(new)'
    <3>1. g_heapStart + start + (g_pageCount - start) = g_heapStart + g_pageCount
      BY <1>1 DEF TypeOK
    <3>2. QED BY <1>1, <2>1, <3>1 DEF Placed, TypeOK
  <2>4. \A b \in blocks : Placed(b)' BY <1>1, <2>1, <2>2 DEF BlocksInv, Placed, TypeOK
  <2>5. \A b \in blocks : Apart2(b, new) BY <1>1, <2>2 DEF BlocksInv, Placed, Apart2, TypeOK
  <2>6. \A b \in blocks : Apart2(new, b) BY <2>5 DEF Apart2
  <2>7. \A b, d \in blocks' : b # d => Apart2(b, d) BY <2>1, <2>5, <2>6 DEF BlocksInv
  <2>8. \A b, d : Apart2(b, d)' <=> Apart2(b, d) BY DEF Apart2
  <2>9. \A b \in blocks' : Placed(b)'
    <3>1. TAKE b \in blocks'
    <3>2. b \in blocks \/ b = new BY <2>1
    <3>3. QED BY <2>3, <2>4, <3>2
  <2>10. QED BY <2>1, <2>7, <2>9 DEF BlocksInv, Apart2
<1>5. CASE UNCHANGED vars BY <1>5 DEF vars, BlocksInv, Placed, Apart2
<1>6. QED BY <1>2, <1>3, <1>4, <1>5 DEF Next

LEMMA PlacedApart ==
  ASSUME TypeOK, NEW b \in blocks, NEW d \in blocks, Placed(b), Placed(d),
         b.from + b.count <= d.from
  PROVE  PagesOf(b) \cap PagesOf(d) = {}
<1>1. start \in Nat /\ Word \in Nat \ {0} /\ MaxPages \in 0..Word /\ g_heapStart \in Nat
      /\ g_pageCount - start \in 0..MaxPages
  BY HeapAssumption DEF TypeOK
<1>2. b.from \in Nat /\ b.count \in Nat /\ d.from \in Nat /\ d.count \in Nat
  BY BlockType
<1> SUFFICES ASSUME NEW n \in 0..(b.count - 1), NEW m \in 0..(d.count - 1),
                    (b.at + n) % Word = (d.at + m) % Word
             PROVE  FALSE
  BY DEF PagesOf
<1> DEFINE x == g_heapStart + start + b.from
           y == g_heapStart + start + d.from
<1>3. x \in Nat /\ y \in Nat /\ n \in Nat /\ m \in Nat BY <1>1, <1>2
<1>4. x + n < y + m BY <1>1, <1>2
<1>5. y + m < x + n + Word
  <2>1. d.from + d.count <= Word BY <1>1, <1>2 DEF Placed
  <2>2. QED BY <1>1, <1>2, <2>1
<1>6. b.at = x % Word /\ d.at = y % Word BY DEF Placed
<1> HIDE DEF x, y
<1>7. ((x % Word) + n) % Word # ((y % Word) + m) % Word BY <1>1, <1>3, <1>4, <1>5, RemaindersDiffer
<1>8. QED BY <1>6, <1>7

LEMMA BlocksHold == Spec => []BlocksInv
<1>1. Init => BlocksInv BY DEF Init, BlocksInv
<1>2. QED BY <1>1, StepBlocksInv, TypeCorrect, PTL DEF Spec

\* No page is handed out twice.
THEOREM NoPageTwice == Spec => []BlocksDisjoint
<1>1. TypeOK /\ BlocksInv => BlocksDisjoint
  <2> SUFFICES ASSUME TypeOK, BlocksInv, NEW b \in blocks, NEW d \in blocks, b # d
               PROVE  PagesOf(b) \cap PagesOf(d) = {}
    BY DEF BlocksDisjoint
  <2>1. Placed(b) /\ Placed(d) /\ Apart2(b, d) BY DEF BlocksInv
  <2>2. CASE b.from + b.count <= d.from BY <2>1, <2>2, PlacedApart
  <2>3. CASE d.from + d.count <= b.from
    <3>1. PagesOf(d) \cap PagesOf(b) = {} BY <2>1, <2>3, PlacedApart
    <3>2. QED BY <3>1
  <2>4. QED BY <2>1, <2>2, <2>3 DEF Apart2
<1>2. QED BY <1>1, BlocksHold, TypeCorrect, PTL
-----------------------------------------------------------------------------
(* The range that memory_init picks.                                        *)

\* The loop has seen the ranges before i.  What it keeps is one of the usable
\* ones, and none of those is longer; or there was none with a length.
ScanInv == /\ \A j \in 1..(i-1) : map[j].type = 1 => map[j].lengthL <= maxLen
           /\ maxLen > 0 => \E j \in 1..(i-1) : /\ map[j].type = 1
                                                /\ map[j].baseL = g_heapStart
                                                /\ map[j].lengthL = maxLen
           /\ pc = "ready" => i = Len(map) + 1

LEMMA StepScanInv == TypeOK /\ ScanInv /\ [Next]_vars => ScanInv'
<1> SUFFICES ASSUME TypeOK, ScanInv, [Next]_vars PROVE ScanInv' OBVIOUS
<1>1. Len(map) \in Nat /\ i \in Nat /\ maxLen \in Nat BY HeapAssumption, DescriptorType DEF TypeOK
<1>2. CASE memory_init
  <2>1. i \in 1..Len(map) /\ i' = i + 1 /\ map' = map /\ pc' = "scan"
    BY <1>1, <1>2 DEF memory_init, TypeOK
  <2>2. \A j \in 1..Len(map) : map[j].lengthL \in Nat BY HeapAssumption, DescriptorType DEF TypeOK
  <2>3. 1..(i'-1) = 1..(i-1) \cup {i} BY <1>1, <2>1
  <2>4. \A j \in 1..(i-1) : j \in 1..Len(map) BY <1>1, <2>1
  <2>5. CASE Longer(map[i])
    <3>1. maxLen' = map[i].lengthL /\ g_heapStart' = map[i].baseL /\ map[i].type = 1
          /\ maxLen < map[i].lengthL
      BY <1>1, <1>2, <2>1, <2>2, <2>5 DEF memory_init, Longer
    <3>2. \A j \in 1..(i-1) : map[j].type = 1 => map[j].lengthL <= maxLen'
      BY <1>1, <2>1, <2>2, <2>4, <3>1 DEF ScanInv
    <3>3. \A j \in 1..(i'-1) : map'[j].type = 1 => map'[j].lengthL <= maxLen'
      BY <2>1, <2>2, <2>3, <3>1, <3>2
    <3>4. QED BY <2>1, <2>3, <3>1, <3>3 DEF ScanInv
  <2>6. CASE ~Longer(map[i])
    <3>1. UNCHANGED <<maxLen, g_heapStart>> BY <1>2, <2>6 DEF memory_init
    <3>2. map[i].type = 1 => map[i].lengthL <= maxLen BY <1>1, <2>1, <2>2, <2>6 DEF Longer
    <3>3. QED BY <2>1, <2>3, <3>1, <3>2 DEF ScanInv
  <2>7. QED BY <2>5, <2>6
<1>3. CASE memory_init_return
  <2>1. i = Len(map) + 1 BY <1>1, <1>3 DEF memory_init_return, TypeOK
  <2>2. QED BY <1>3, <2>1 DEF memory_init_return, ScanInv
<1>4. ASSUME NEW count \in Requests, alloc_page(count) PROVE ScanInv'
  BY <1>4 DEF alloc_page, ScanInv
<1>5. CASE UNCHANGED vars BY <1>5 DEF vars, ScanInv
<1>6. QED BY <1>2, <1>3, <1>4, <1>5 DEF Next

LEMMA ScanHolds == Spec => []ScanInv
<1>1. Init => ScanInv BY DEF Init, ScanInv
<1>2. QED BY <1>1, StepScanInv, TypeCorrect, PTL DEF Spec

\* No range begins or ends above 4 GiB: memory_init looks at the low words
\* only, and the heap_largest run shows what it picks otherwise.
Below4GiB == \A m \in Maps : \A j \in 1..Len(m) :
  m[j].baseH = 0 /\ m[j].lengthH = 0 /\ m[j].baseL + m[j].lengthL <= Word

LEMMA LowWords ==
  ASSUME Below4GiB, TypeOK, NEW j \in 1..Len(map)
  PROVE  /\ Size(map[j]) = map[j].lengthL /\ Base(map[j]) = map[j].baseL
         /\ map[j].lengthL \in Nat /\ map[j].baseL \in Nat
         /\ map[j].baseL + map[j].lengthL <= Word
<1>1. map[j].lengthL \in Nat /\ map[j].baseL \in Nat /\ Word \in Nat
  BY HeapAssumption, DescriptorType DEF TypeOK
<1>2. map[j].baseH = 0 /\ map[j].lengthH = 0 /\ map[j].baseL + map[j].lengthL <= Word
  BY DEF Below4GiB, TypeOK
<1>3. QED BY <1>1, <1>2 DEF Size, Base

\* On a machine without memory above 4 GiB the heap starts where the largest
\* usable range does.
THEOREM LargestRange == ASSUME Below4GiB PROVE Spec => []HeapAtLargest
<1>1. TypeOK /\ ScanInv => HeapAtLargest
  <2> SUFFICES ASSUME TypeOK, ScanInv, pc = "ready", NEW u \in Usable
               PROVE  \E j \in Usable : /\ g_heapStart = Base(map[j])
                                        /\ \A o \in Usable : Size(map[o]) <= Size(map[j])
    BY DEF HeapAtLargest
  <2>1. Len(map) \in Nat /\ maxLen \in Nat BY HeapAssumption, DescriptorType DEF TypeOK
  <2>2. 1..(i-1) = 1..Len(map) BY <2>1 DEF ScanInv
  <2>3. \A o \in Usable : Size(map[o]) = map[o].lengthL /\ Size(map[o]) <= maxLen
    BY <2>2, LowWords DEF Usable, ScanInv
  <2>4. maxLen > 0 BY <2>1, <2>3, LowWords DEF Usable
  <2>5. PICK j \in 1..Len(map) : map[j].type = 1 /\ map[j].baseL = g_heapStart /\ map[j].lengthL = maxLen
    BY <2>2, <2>4 DEF ScanInv
  <2>6. j \in Usable /\ Size(map[j]) = maxLen /\ Base(map[j]) = g_heapStart
    BY <2>4, <2>5, LowWords DEF Usable
  <2>7. QED BY <2>3, <2>6
<1>2. QED BY <1>1, ScanHolds, TypeCorrect, PTL

\* On such a machine, and if the stub's loader has left g_pageCount at zero,
\* what alloc_page hands out lies in one usable range, as long as no more is
\* asked for than the range holds.
THEOREM HandedOutIsMemory == ASSUME Below4GiB PROVE Spec => []BlocksInUsableMemory
<1>1. TypeOK /\ ScanInv /\ BlocksInv => BlocksInUsableMemory
  <2> SUFFICES ASSUME TypeOK, ScanInv, BlocksInv, start = 0, NEW b \in blocks,
                      b.from + b.count <= maxLen, NEW n \in 0..(b.count - 1)
               PROVE  \E j \in Usable : /\ b.at + n >= Base(map[j])
                                        /\ b.at + n < Base(map[j]) + Size(map[j])
    BY DEF BlocksInUsableMemory
  <2>1. b.from \in Nat /\ b.count \in Nat /\ n \in Nat /\ n < b.count BY BlockType
  <2>2. Len(map) \in Nat /\ maxLen \in Nat /\ Word \in Nat \ {0} /\ g_heapStart \in Nat
    BY HeapAssumption, DescriptorType DEF TypeOK
  <2>3. pc = "ready" BY DEF BlocksInv, TypeOK
  <2>4. 1..(i-1) = 1..Len(map) /\ maxLen > 0 BY <2>1, <2>2, <2>3 DEF ScanInv
  <2>5. PICK j \in 1..Len(map) : map[j].type = 1 /\ map[j].baseL = g_heapStart /\ map[j].lengthL = maxLen
    BY <2>4 DEF ScanInv
  <2>6. j \in Usable /\ Size(map[j]) = maxLen /\ Base(map[j]) = g_heapStart
        /\ g_heapStart + maxLen <= Word
    BY <2>4, <2>5, LowWords DEF Usable
  <2>7. b.at = g_heapStart + b.from
    <3>1. b.at = (g_heapStart + b.from) % Word BY <2>1, <2>2 DEF BlocksInv, Placed
    <3>2. g_heapStart + b.from \in 0..(Word-1) BY <2>1, <2>2, <2>6
    <3>3. QED BY <2>2, <3>1, <3>2
  <2>8. b.at + n >= g_heapStart /\ b.at + n < g_heapStart + maxLen BY <2>1, <2>2, <2>7
  <2>9. QED BY <2>6, <2>8
<1>2. QED BY <1>1, ScanHolds, BlocksHold, TypeCorrect, PTL
=============================================================================
