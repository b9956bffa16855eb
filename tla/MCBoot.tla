------------------------------- MODULE MCBoot -------------------------------
(* Machines that differ from a common one in a thing or two.                *)
EXTENDS Boot

Segment(a, l) == [p_vaddr |-> a, p_memsz |-> l]

\* linker.ld: sections from 160 MB on, page by page.
Text == Segment(167772160, 16384)
Data == Segment(167772160 + 16384, 4096)
Bss  == Segment(167772160 + 20480, 65536)

Common == [controllers |-> 1, conf |-> 32, cluster |-> 4096, file |-> 65536,
           headers |-> <<Text>>, shown |-> <<>>, capacity |-> FALSE, ethernets |-> 1]

Structures == {FSINFO_DATA, EBR_DATA, BPB_DATA, MBR_PARTITION_DATA, ELF_HEADER, ELF_HEADER_32_EXT}

MCMachines ==
  {[Common EXCEPT !.controllers = c, !.capacity = b, !.shown = s, !.headers = h] :
      c \in 1..4, b \in BOOLEAN, s \in {<<>>} \cup {<<s>> : s \in Structures},
      h \in {<<Text>>, <<Text, Data, Bss>>}}
  \cup {[Common EXCEPT !.cluster = 65536, !.file = f, !.conf = 65535, !.ethernets = e] :
      f \in {65536, 83886080}, e \in {0, 3}}

\* Pages of 4 KB: below 640 KB, above 1 MB, and a reserved range behind.
Range32(b, l, t) == [baseL |-> b, baseH |-> 0, lengthL |-> l, lengthH |-> 0, type |-> t]

\* The second machine has a hole from 15 to 16 MB.
MCMaps == {<<Range32(0, 159, 1), Range32(240, 16, 2), Range32(256, 130784, 1)>>,
           <<Range32(0, 159, 1), Range32(256, 3584, 1), Range32(4096, 126944, 1)>>}

\* What the theorems take for granted is so for these.
ASSUME LaidOut == LowMemory /\ HighMemory /\ HeapHigh /\ Screenful
=============================================================================
