-------------------------------- MODULE Heap --------------------------------
(***************************************************************************)
(* The kernel's heap: memory_init, which picks a range of the BIOS memory  *)
(* map, and alloc_page, which hands out its pages and takes none back      *)
(* (kernel/memory.c).  The callers are kernel_main and the AHCI driver,    *)
(* which takes one page more with every disk transfer.                     *)
(*                                                                         *)
(* Addresses and lengths count pages.  A 64-bit one is a high and a low    *)
(* word, as in the memory map, and pointers have the width of the low one. *)
(***************************************************************************)
EXTENDS Integers, Sequences

CONSTANTS
  Word,         \* pages in 4 GiB
  Maps,         \* the memory maps the BIOS may report
  BssCounts,    \* what g_pageCount may be at the start: the stub copies the
                \* kernel's segments and does not clear its .bss
  Requests,     \* page counts the callers ask for
  MaxPages      \* bound on all the pages asked for

Descriptor == [baseL : 0..(Word-1), baseH : Nat,
               lengthL : 0..(Word-1), lengthH : Nat, type : Nat]

ASSUME HeapAssumption ==
  /\ Word \in Nat \ {0}
  /\ Maps \subseteq Seq(Descriptor)
  /\ BssCounts \subseteq Nat
  /\ Requests \subseteq Nat
  /\ MaxPages \in 0..Word

VARIABLES
  pc,           \* "scan" in memory_init's loop, "ready" after it
  map, i,       \* the memory map, and the descriptor the loop is at
  maxLen, g_heapStart, g_pageCount,
  start,        \* g_pageCount as the kernel found it
  blocks        \* what alloc_page has returned: where, for how many pages,
                \* and how many pages of the heap came before

vars == <<pc, map, i, maxLen, g_heapStart, g_pageCount, start, blocks>>

\* g_heapStart is in .bss too, and without a usable range stays as it is.
Init == /\ pc = "scan" /\ map \in Maps /\ i = 1
        /\ maxLen = 0 /\ g_heapStart = 0
        /\ g_pageCount \in BssCounts /\ start = g_pageCount
        /\ blocks = {}

\* Mutant: a reserved range is as good as a usable one.
Longer_any_type(d) == d.lengthL > maxLen

Longer(d) == d.lengthL > maxLen /\ d.type = 1

memory_init == /\ pc = "scan" /\ i <= Len(map)
               /\ i' = i + 1
               /\ IF Longer(map[i]) THEN maxLen' = map[i].lengthL /\ g_heapStart' = map[i].baseL
                                    ELSE UNCHANGED <<maxLen, g_heapStart>>
               /\ UNCHANGED <<pc, map, g_pageCount, start, blocks>>

memory_init_return == /\ pc = "scan" /\ i > Len(map)
                      /\ pc' = "ready"
                      /\ UNCHANGED <<map, i, maxLen, g_heapStart, g_pageCount, start, blocks>>

\* Mutant: one page is counted, however many were asked for.
alloc_page_counts_one(count) ==
  /\ pc = "ready" /\ g_pageCount - start + count <= MaxPages
  /\ blocks' = blocks \cup {[at |-> (g_heapStart + g_pageCount) % Word,
                             from |-> g_pageCount - start, count |-> count]}
  /\ g_pageCount' = g_pageCount + 1
  /\ UNCHANGED <<pc, map, i, maxLen, g_heapStart, start>>

\* Mutants: a page is counted before it is handed out; pointers do not wrap.
alloc_page_counts_first(count) ==
  /\ pc = "ready" /\ g_pageCount - start + count <= MaxPages
  /\ blocks' = blocks \cup {[at |-> (g_heapStart + g_pageCount + count) % Word,
                             from |-> g_pageCount - start, count |-> count]}
  /\ g_pageCount' = g_pageCount + count
  /\ UNCHANGED <<pc, map, i, maxLen, g_heapStart, start>>

alloc_page_no_wrap(count) ==
  /\ pc = "ready" /\ g_pageCount - start + count <= MaxPages
  /\ blocks' = blocks \cup {[at |-> g_heapStart + g_pageCount,
                             from |-> g_pageCount - start, count |-> count]}
  /\ g_pageCount' = g_pageCount + count
  /\ UNCHANGED <<pc, map, i, maxLen, g_heapStart, start>>

alloc_page(count) ==
  /\ pc = "ready" /\ g_pageCount - start + count <= MaxPages
  /\ blocks' = blocks \cup {[at |-> (g_heapStart + g_pageCount) % Word,
                             from |-> g_pageCount - start, count |-> count]}
  /\ g_pageCount' = g_pageCount + count
  /\ UNCHANGED <<pc, map, i, maxLen, g_heapStart, start>>

Next == memory_init \/ memory_init_return \/ \E count \in Requests : alloc_page(count)

Spec == Init /\ [][Next]_vars

-----------------------------------------------------------------------------
(* Properties.                                                              *)

\* Every variable has its type.
TypeOK ==
  /\ pc \in {"scan", "ready"} /\ map \in Maps /\ i \in 1..(Len(map) + 1)
  /\ maxLen \in 0..(Word-1) /\ g_heapStart \in 0..(Word-1)
  /\ start \in BssCounts /\ g_pageCount \in Nat /\ g_pageCount - start \in 0..MaxPages
  /\ blocks \subseteq [at : 0..(Word-1), from : 0..MaxPages, count : Requests]

\* Pointer arithmetic wraps at 4 GiB.
PagesOf(b) == {(b.at + n) % Word : n \in 0..(b.count - 1)}

\* No two callers of alloc_page are given the same page, wherever the heap
\* starts and whatever g_pageCount was, even where pointers wrap.
BlocksDisjoint == \A b, d \in blocks : b # d => PagesOf(b) \cap PagesOf(d) = {}

Size(d)  == d.lengthH * Word + d.lengthL
Base(d)  == d.baseH * Word + d.baseL
Usable   == {j \in 1..Len(map) : map[j].type = 1 /\ Size(map[j]) > 0}

\* memory_init picks the start of the largest usable range, if there is one.
HeapAtLargest ==
  pc = "ready" /\ Usable # {} =>
    \E j \in Usable : /\ g_heapStart = Base(map[j])
                      /\ \A o \in Usable : Size(map[o]) <= Size(map[j])

\* If the kernel found its .bss cleared: as long as no more pages are asked
\* for than memory_init has found, every page handed out is usable memory.
BlocksInUsableMemory == start = 0 =>
  \A b \in blocks : b.from + b.count <= maxLen =>
    \A n \in 0..(b.count - 1) : \E j \in Usable :
      b.at + n >= Base(map[j]) /\ b.at + n < Base(map[j]) + Size(map[j])
=============================================================================
