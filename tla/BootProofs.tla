----------------------------- MODULE BootProofs -----------------------------
(***************************************************************************)
(* The boot on any machine that the program is laid out for (the           *)
(* hypotheses LowMemory, HighMemory, HeapHigh and Screenful of Boot say    *)
(* which): the kernel's heap is the one of Heap, whatever interrupt comes  *)
(* finds a handler while no tick has spoiled a mask, what is in use in     *)
(* memory is apart, and what is printed stays in the text memory.          *)
(*                                                                         *)
(* Memory is divided into zones, and at any time the things in use are in  *)
(* different zones, but for the segments, which are all behind the last.   *)
(* The screen is a pile of rows, each below those before it, but for the   *)
(* reports that EHCI_BulkOnly_Setup prints over.                           *)
(***************************************************************************)
EXTENDS Boot, HeapProofs, SequenceTheorems, WellFoundedInduction

-----------------------------------------------------------------------------
(* The heap in the boot.                                                    *)

\* A step of the boot is one of the heap, or leaves it alone.
LEMMA HeapStep == ASSUME BootNext PROVE [Next]_vars
<1>1. CASE sleep_test BY <1>1 DEF sleep_test, heap
<1>2. CASE stub_cls BY <1>2 DEF stub_cls, heap
<1>3. CASE loadIDTR BY <1>3 DEF loadIDTR, heap
<1>4. CASE remapPICs BY <1>4 DEF remapPICs, heap
<1>5. CASE setIDT BY <1>5 DEF setIDT, heap
<1>6. CASE PIT_Init_enable_interrupts BY <1>6 DEF PIT_Init_enable_interrupts, heap
<1>7. CASE find_EHCI BY <1>7 DEF find_EHCI, heap
<1>8. CASE EHCI_Init BY <1>8 DEF EHCI_Init, heap
<1>9. CASE EHCI_Init_return BY <1>9 DEF EHCI_Init_return, heap
<1>10. CASE EHCI_BulkOnly_Setup BY <1>10 DEF EHCI_BulkOnly_Setup, heap
<1>11. CASE print_signature BY <1>11 DEF print_signature, heap
<1>12. CASE mount BY <1>12 DEF mount, heap
<1>13. CASE read_fileA BY <1>13 DEF read_fileA, heap
<1>14. CASE show BY <1>14 DEF show, heap
<1>15. CASE print_ELF_PROGRAM_HEADER BY <1>15 DEF print_ELF_PROGRAM_HEADER, heap
<1>16. CASE copy_segments BY <1>16 DEF copy_segments, heap
<1>17. CASE copy_segment BY <1>17 DEF copy_segment, heap
<1>18. CASE core_start BY <1>18 DEF core_start, heap
<1>19. CASE kernel_cls BY <1>19 DEF kernel_cls, heap
<1>20. CASE disable_interrupts BY <1>20 DEF disable_interrupts, heap
<1>21. CASE interrupt_init_PICs BY <1>21 DEF interrupt_init_PICs, heap
<1>22. CASE register_spurious BY <1>22 DEF register_spurious, heap
<1>23. CASE time_init BY <1>23 DEF time_init, heap
<1>24. CASE keyboard_init BY <1>24 DEF keyboard_init, heap
<1>33. CASE PIC_line_enable_read BY <1>33 DEF PIC_line_enable_read, heap
<1>34. CASE PIC_line_enable_write BY <1>34 DEF PIC_line_enable_write, heap
<1>25. CASE kernel_memory_init BY <1>25 DEF kernel_memory_init, Next
<1>26. CASE alloc_tokens BY <1>26, BootAssumption DEF alloc_tokens, Next
<1>27. CASE print_ethernet BY <1>27 DEF print_ethernet, heap
<1>28. CASE loop BY <1>28 DEF loop, heap
<1>29. CASE loop_again BY <1>29 DEF loop_again, heap
<1>30. CASE driver_alloc BY <1>30, BootAssumption DEF driver_alloc, Next
<1>31. ASSUME NEW l \in Lines, Interrupt(l) PROVE [Next]_vars BY <1>31 DEF Interrupt, heap
<1>32. QED
  BY <1>1, <1>2, <1>3, <1>4, <1>5, <1>6, <1>7, <1>8, <1>9, <1>10, <1>11, <1>12, <1>13,
     <1>14, <1>15, <1>16, <1>17, <1>18, <1>19, <1>20, <1>21, <1>22, <1>23, <1>24, <1>25,
     <1>26, <1>27, <1>28, <1>29, <1>30, <1>31, <1>33, <1>34
  DEF BootNext, Main, Stub, Kernel

\* The boot is a use of the heap: all that holds of Heap holds in it.
THEOREM BootUsesHeap == BootSpec => Spec
<1>1. BootInit => Init BY DEF BootInit
<1>2. [BootNext]_all => [Next]_vars BY HeapStep DEF all, heap
<1>3. QED BY <1>1, <1>2, PTL DEF BootSpec, Spec

-----------------------------------------------------------------------------
(* Who runs, and who gets the interrupts.                                   *)

Enables == {"k_time", "k_time_read", "k_time_write",
            "k_keyboard", "k_keyboard_read", "k_keyboard_write"}

\* From the first line that is enabled on.
Late == Enables \cup {"k_memory", "k_tokens", "k_print", "loop", "wild"}

KernelStages == {"k_cls", "k_cli", "k_pics", "k_spurious"} \cup Late

\* Interrupts are on only with the tables set up and a handler for each line
\* that is let through, unless a tick has spoiled the mask; the kernel replaces
\* the handlers one by one.
GatesInv ==
  /\ gate \in [Lines -> {"none", "stub", "kernel"}]
  /\ ~spoiled => unmasked \subseteq {0, 1} /\ pic_mask \subseteq {0, 1}
  /\ unmasked \subseteq Lines /\ pic_mask \subseteq Lines
  /\ spoiled => stage \in Late
  /\ stage = "wild" => spoiled
  /\ stage \notin {"cls", "lidt"} => "idtr" \in tables
  /\ stage \notin {"cls", "lidt", "remap"} => "pics" \in tables
  /\ tables \subseteq {"idtr", "pics"}
  /\ stage \in {"cls", "lidt", "remap", "gates"} => intr = FALSE
  /\ stage \notin {"cls", "lidt", "remap", "gates"} => \A l \in {0, 1, 7} : gate[l] # "none"

StageInv ==
  /\ machine \in Machines /\ stage \in StubStages \cup KernelStages
  /\ n \in Nat
  /\ stage \in {"headers", "copy"} => n <= Len(machine.headers)
  /\ stage \in StubStages \cup Enables \cup {"k_cls", "k_cli", "k_pics", "k_spurious", "k_memory"} =>
       pc = "scan"
  /\ stage \notin {"k_print", "loop", "wild"} => blocks = {}
  /\ stage \in {"k_tokens", "k_print", "loop"} => pc = "ready"

BootInv == StageInv /\ GatesInv

LEMMA MachineTypes ==
  ASSUME NEW m \in Machines
  PROVE  /\ m.conf \in Nat /\ m.conf <= 65536 /\ m.cluster \in Nat /\ m.file \in Nat
         /\ Len(m.headers) \in Nat
         /\ \A k \in 1..Len(m.headers) : m.headers[k].p_vaddr \in Nat /\ m.headers[k].p_memsz \in Nat
<1> DEFINE R == [p_vaddr : Nat, p_memsz : Nat]
           C == 0..65535
           S == Seq(Seq(Nat \X Nat))
<1> DEFINE Small(c) == c \in Nat /\ c <= 65536
<1>1. m \in Machine BY BootAssumption
<1>2. Machine = [controllers : Nat \ {0}, conf : C, cluster : Nat, file : Nat, headers : Seq(R),
                shown : S, capacity : BOOLEAN, ethernets : Nat]
  BY SMTT(30) DEF Machine
<1>3. \A c \in C : Small(c) BY SMTT(30)
<1> HIDE DEF R, C, S, Small
<1>4. m.conf \in C /\ m.cluster \in Nat /\ m.file \in Nat /\ m.headers \in Seq(R) BY <1>1, <1>2
<1>5. Len(m.headers) \in Nat /\ \A k \in 1..Len(m.headers) : m.headers[k] \in R BY <1>4
<1>6. \A k \in 1..Len(m.headers) : m.headers[k].p_vaddr \in Nat /\ m.headers[k].p_memsz \in Nat
  BY <1>5 DEF R
<1>7. Small(m.conf) BY <1>3, <1>4
<1>8. QED BY <1>4, <1>5, <1>6, <1>7 DEF Small

LEMMA InitBoot == BootInit => BootInv
BY DEF BootInit, Init, BootInv, StageInv, GatesInv, StubStages, Lines

\* An interrupt that is let through finds a handler, unless a mask is spoiled.
LEMMA AlwaysHandled ==
  ASSUME GatesInv, intr, NEW l \in unmasked \cup {7}
  PROVE  tables = {"idtr", "pics"} /\ (gate[l] # "none" \/ spoiled)
<1>1. stage \notin {"cls", "lidt", "remap", "gates"} BY DEF GatesInv
<1>2. tables = {"idtr", "pics"} BY <1>1 DEF GatesInv
<1>3. ~spoiled => l \in {0, 1, 7} BY DEF GatesInv
<1>4. QED BY <1>1, <1>2, <1>3 DEF GatesInv

\* So the boot stays where it is, or a spoiled mask has led it astray.
LEMMA InterruptStage ==
  ASSUME GatesInv, NEW l \in Lines, Interrupt(l)
  PROVE  stage' = stage \/ (stage' = "wild" /\ spoiled)
BY AlwaysHandled DEF Interrupt

LEMMA StageStep == ASSUME BootInv, BootNext PROVE StageInv'
<1>0. StageInv /\ Len(machine.headers) \in Nat BY MachineTypes DEF BootInv, StageInv
<1>1. CASE sleep_test BY <1>0, <1>1 DEF sleep_test, StageInv, StubStages, KernelStages, Late, Enables, Goto, heap, vars
<1>2. CASE stub_cls BY <1>0, <1>2 DEF stub_cls, StageInv, StubStages, KernelStages, Late, Enables, Goto, heap, vars
<1>3. CASE loadIDTR BY <1>0, <1>3 DEF loadIDTR, StageInv, StubStages, KernelStages, Late, Enables, Goto, heap, vars
<1>4. CASE remapPICs BY <1>0, <1>4 DEF remapPICs, StageInv, StubStages, KernelStages, Late, Enables, Goto, heap, vars
<1>5. CASE setIDT BY <1>0, <1>5 DEF setIDT, StageInv, StubStages, KernelStages, Late, Enables, Goto, heap, vars
<1>6. CASE PIT_Init_enable_interrupts BY <1>0, <1>6 DEF PIT_Init_enable_interrupts, StageInv, StubStages, KernelStages, Late, Enables, Goto, heap, vars
<1>7. CASE find_EHCI BY <1>0, <1>7 DEF find_EHCI, StageInv, StubStages, KernelStages, Late, Enables, Goto, heap, vars
<1>8. CASE EHCI_Init BY <1>0, <1>8 DEF EHCI_Init, StageInv, StubStages, KernelStages, Late, Enables, Goto, heap, vars
<1>9. CASE EHCI_Init_return BY <1>0, <1>9 DEF EHCI_Init_return, StageInv, StubStages, KernelStages, Late, Enables, Goto, heap, vars
<1>10. CASE EHCI_BulkOnly_Setup BY <1>0, <1>10 DEF EHCI_BulkOnly_Setup, StageInv, StubStages, KernelStages, Late, Enables, Goto, heap, vars
<1>11. CASE print_signature BY <1>0, <1>11 DEF print_signature, StageInv, StubStages, KernelStages, Late, Enables, Goto, heap, vars
<1>12. CASE mount BY <1>0, <1>12 DEF mount, StageInv, StubStages, KernelStages, Late, Enables, Goto, heap, vars
<1>13. CASE read_fileA BY <1>0, <1>13 DEF read_fileA, StageInv, StubStages, KernelStages, Late, Enables, Goto, heap, vars
<1>14. CASE show BY <1>0, <1>14 DEF show, StageInv, StubStages, KernelStages, Late, Enables, Goto, heap, vars
<1>15. CASE print_ELF_PROGRAM_HEADER BY <1>0, <1>15 DEF print_ELF_PROGRAM_HEADER, StageInv, StubStages, KernelStages, Late, Enables, Goto, heap, vars
<1>16. CASE copy_segments BY <1>0, <1>16 DEF copy_segments, StageInv, StubStages, KernelStages, Late, Enables, Goto, heap, vars
<1>17. CASE copy_segment BY <1>0, <1>17 DEF copy_segment, StageInv, StubStages, KernelStages, Late, Enables, Goto, heap, vars
<1>18. CASE core_start BY <1>0, <1>18 DEF core_start, StageInv, StubStages, KernelStages, Late, Enables, Goto, heap, vars
<1>19. CASE kernel_cls BY <1>0, <1>19 DEF kernel_cls, StageInv, StubStages, KernelStages, Late, Enables, Goto, heap, vars
<1>20. CASE disable_interrupts BY <1>0, <1>20 DEF disable_interrupts, StageInv, StubStages, KernelStages, Late, Enables, Goto, heap, vars
<1>21. CASE interrupt_init_PICs BY <1>0, <1>21 DEF interrupt_init_PICs, StageInv, StubStages, KernelStages, Late, Enables, Goto, heap, vars
<1>22. CASE register_spurious BY <1>0, <1>22 DEF register_spurious, StageInv, StubStages, KernelStages, Late, Enables, Goto, heap, vars
<1>23. CASE time_init BY <1>0, <1>23 DEF time_init, StageInv, StubStages, KernelStages, Late, Enables, Goto, heap, vars
<1>24. CASE keyboard_init BY <1>0, <1>24 DEF keyboard_init, StageInv, StubStages, KernelStages, Late, Enables, Goto, heap, vars
<1>33. CASE PIC_line_enable_read BY <1>0, <1>33 DEF PIC_line_enable_read, StageInv, StubStages, KernelStages, Late, Enables, Goto, heap, vars
<1>34. CASE PIC_line_enable_write BY <1>0, <1>34 DEF PIC_line_enable_write, StageInv, StubStages, KernelStages, Late, Enables, Goto, heap, vars
<1>25. CASE kernel_memory_init BY <1>0, <1>25 DEF kernel_memory_init, StageInv, StubStages, KernelStages, Late, Enables, Goto, heap, vars, memory_init, memory_init_return
<1>26. CASE alloc_tokens BY <1>0, <1>26 DEF alloc_tokens, StageInv, StubStages, KernelStages, Late, Enables, Goto, heap, vars, alloc_page
<1>27. CASE print_ethernet BY <1>0, <1>27 DEF print_ethernet, StageInv, StubStages, KernelStages, Late, Enables, Goto, heap, vars
<1>28. CASE loop BY <1>0, <1>28 DEF loop, StageInv, StubStages, KernelStages, Late, Enables, Goto, heap, vars
<1>29. CASE loop_again BY <1>0, <1>29 DEF loop_again, StageInv, StubStages, KernelStages, Late, Enables, Goto, heap, vars
<1>30. CASE driver_alloc BY <1>0, <1>30 DEF driver_alloc, StageInv, StubStages, KernelStages, Late, Enables, Goto, heap, vars, alloc_page
<1>31. ASSUME NEW l \in Lines, Interrupt(l) PROVE StageInv'
  <2>1. stage' = stage \/ (stage' = "wild" /\ spoiled) BY <1>31, InterruptStage DEF BootInv
  <2>2. spoiled => stage \in Late
    BY DEF BootInv, GatesInv
  <2>3. machine' = machine /\ n' = n /\ pc' = pc /\ blocks' = blocks
    BY <1>31 DEF Interrupt, heap, vars
  <2>4. CASE stage' = stage BY <1>0, <2>3, <2>4 DEF StageInv
  <2>5. CASE stage' = "wild"
    BY <1>0, <2>3, <2>5 DEF StageInv, StubStages, KernelStages, Late, Enables
  <2>6. QED BY <2>1, <2>4, <2>5
<1>32. QED
  BY <1>1, <1>2, <1>3, <1>4, <1>5, <1>6, <1>7, <1>8, <1>9, <1>10, <1>11, <1>12, <1>13,
     <1>14, <1>15, <1>16, <1>17, <1>18, <1>19, <1>20, <1>21, <1>22, <1>23, <1>24, <1>25,
     <1>26, <1>27, <1>28, <1>29, <1>30, <1>31, <1>33, <1>34
  DEF BootNext, Main, Stub, Kernel

LEMMA GatesStep == ASSUME BootInv, BootNext PROVE GatesInv'
<1>0. GatesInv BY DEF BootInv
<1>1. CASE sleep_test BY <1>0, <1>1 DEF sleep_test, GatesInv, Goto, Late, Enables, interrupts, masks, Quiet
<1>2. CASE stub_cls BY <1>0, <1>2 DEF stub_cls, GatesInv, Goto, Late, Enables, interrupts, masks, Quiet
<1>3. CASE loadIDTR BY <1>0, <1>3 DEF loadIDTR, GatesInv, Goto, Late, Enables, Lines, masks
<1>4. CASE remapPICs BY <1>0, <1>4 DEF remapPICs, GatesInv, Goto, Late, Enables, Lines, masks
<1>5. CASE setIDT BY <1>0, <1>5 DEF setIDT, GatesInv, Goto, Late, Enables, Lines, masks
<1>6. CASE PIT_Init_enable_interrupts BY <1>0, <1>6 DEF PIT_Init_enable_interrupts, GatesInv, Goto, Late, Enables, Lines, masks
<1>7. CASE find_EHCI BY <1>0, <1>7 DEF find_EHCI, GatesInv, Goto, Late, Enables, interrupts, masks, Quiet
<1>8. CASE EHCI_Init BY <1>0, <1>8 DEF EHCI_Init, GatesInv, Goto, Late, Enables, interrupts, masks, Quiet
<1>9. CASE EHCI_Init_return BY <1>0, <1>9 DEF EHCI_Init_return, GatesInv, Goto, Late, Enables, interrupts, masks, Quiet
<1>10. CASE EHCI_BulkOnly_Setup BY <1>0, <1>10 DEF EHCI_BulkOnly_Setup, GatesInv, Goto, Late, Enables, interrupts, masks, Quiet
<1>11. CASE print_signature BY <1>0, <1>11 DEF print_signature, GatesInv, Goto, Late, Enables, interrupts, masks, Quiet
<1>12. CASE mount BY <1>0, <1>12 DEF mount, GatesInv, Goto, Late, Enables, interrupts, masks, Quiet
<1>13. CASE read_fileA BY <1>0, <1>13 DEF read_fileA, GatesInv, Goto, Late, Enables, interrupts, masks, Quiet
<1>14. CASE show BY <1>0, <1>14 DEF show, GatesInv, Goto, Late, Enables, interrupts, masks, Quiet
<1>15. CASE print_ELF_PROGRAM_HEADER BY <1>0, <1>15 DEF print_ELF_PROGRAM_HEADER, GatesInv, Goto, Late, Enables, interrupts, masks, Quiet
<1>16. CASE copy_segments BY <1>0, <1>16 DEF copy_segments, GatesInv, Goto, Late, Enables, interrupts, masks, Quiet
<1>17. CASE copy_segment BY <1>0, <1>17 DEF copy_segment, GatesInv, Goto, Late, Enables, interrupts, masks, Quiet
<1>18. CASE core_start BY <1>0, <1>18 DEF core_start, GatesInv, Goto, Late, Enables, interrupts, masks, Quiet
<1>19. CASE kernel_cls BY <1>0, <1>19 DEF kernel_cls, GatesInv, Goto, Late, Enables, interrupts, masks, Quiet
<1>20. CASE disable_interrupts BY <1>0, <1>20 DEF disable_interrupts, GatesInv, Goto, Late, Enables, Lines, masks
<1>21. CASE interrupt_init_PICs BY <1>0, <1>21 DEF interrupt_init_PICs, GatesInv, Goto, Late, Enables, Lines, masks
<1>22. CASE register_spurious BY <1>0, <1>22 DEF register_spurious, GatesInv, Goto, Late, Enables, Lines, masks
<1>23. CASE time_init BY <1>0, <1>23 DEF time_init, GatesInv, Goto, Late, Enables, Lines, masks
<1>24. CASE keyboard_init BY <1>0, <1>24 DEF keyboard_init, GatesInv, Goto, Late, Enables, Lines, masks
<1>33. CASE PIC_line_enable_read BY <1>0, <1>33 DEF PIC_line_enable_read, GatesInv, Goto, Late, Enables, Lines, masks
<1>34. CASE PIC_line_enable_write BY <1>0, <1>34 DEF PIC_line_enable_write, GatesInv, Goto, Late, Enables, Lines, masks
<1>25. CASE kernel_memory_init BY <1>0, <1>25 DEF kernel_memory_init, GatesInv, Goto, Late, Enables, interrupts, masks, Quiet
<1>26. CASE alloc_tokens BY <1>0, <1>26 DEF alloc_tokens, GatesInv, Goto, Late, Enables, interrupts, masks, Quiet
<1>27. CASE print_ethernet BY <1>0, <1>27 DEF print_ethernet, GatesInv, Goto, Late, Enables, interrupts, masks, Quiet
<1>28. CASE loop BY <1>0, <1>28 DEF loop, GatesInv, Goto, Late, Enables, interrupts, masks, Quiet
<1>29. CASE loop_again BY <1>0, <1>29 DEF loop_again, GatesInv, Goto, Late, Enables, interrupts, masks, Quiet
<1>30. CASE driver_alloc BY <1>0, <1>30 DEF driver_alloc, GatesInv, Goto, Late, Enables, interrupts, masks, Quiet
<1>31. ASSUME NEW l \in Lines, Interrupt(l) PROVE GatesInv'
  <2>1. stage' = stage \/ (stage' = "wild" /\ spoiled) BY <1>0, <1>31, InterruptStage
  <2>2. /\ UNCHANGED <<tables, intr, unmasked, gate>> /\ intr
        /\ \/ Enabling /\ pic_mask' \in SUBSET Lines /\ spoiled' = TRUE
           \/ UNCHANGED <<pic_mask, spoiled>>
    BY <1>31 DEF Interrupt
  <2>3. stage \notin {"cls", "lidt", "remap", "gates"} /\ stage # "wild"
    BY <1>0, <1>31, <2>2 DEF GatesInv, Interrupt
  <2>4. Enabling => stage \in Late
    BY DEF Enabling, Late, Enables
  <2>5. "wild" \in Late BY DEF Late
  <2>6. /\ spoiled' => stage' \in Late
        /\ stage' = "wild" => spoiled'
        /\ stage' \notin {"cls", "lidt", "remap", "gates"}
    BY <1>0, <2>1, <2>2, <2>3, <2>4, <2>5 DEF GatesInv
  <2>7. /\ ~spoiled' => unmasked' \subseteq {0, 1} /\ pic_mask' \subseteq {0, 1}
        /\ unmasked' \subseteq Lines /\ pic_mask' \subseteq Lines
    BY <1>0, <2>2 DEF GatesInv
  <2>8. QED BY <1>0, <2>2, <2>3, <2>6, <2>7 DEF GatesInv
<1>32. QED
  BY <1>1, <1>2, <1>3, <1>4, <1>5, <1>6, <1>7, <1>8, <1>9, <1>10, <1>11, <1>12, <1>13,
     <1>14, <1>15, <1>16, <1>17, <1>18, <1>19, <1>20, <1>21, <1>22, <1>23, <1>24, <1>25,
     <1>26, <1>27, <1>28, <1>29, <1>30, <1>31, <1>33, <1>34
  DEF BootNext, Main, Stub, Kernel

LEMMA BootHolds == BootSpec => []BootInv
<1>1. BootInv /\ [BootNext]_all => BootInv'
  <2> SUFFICES ASSUME BootInv, [BootNext]_all PROVE BootInv' OBVIOUS
  <2>1. CASE BootNext BY <2>1, StageStep, GatesStep DEF BootInv
  <2>2. CASE UNCHANGED all
    <3>1. UNCHANGED <<machine, stage, n, tables, intr, unmasked, pic_mask, spoiled, gate, pc, blocks>>
      BY <2>2 DEF all, interrupts, masks, heap, vars
    <3>2. StageInv' BY <3>1 DEF BootInv, StageInv
    <3>3. GatesInv' BY <3>1 DEF BootInv, GatesInv
    <3>4. QED BY <3>2, <3>3 DEF BootInv
  <2>3. QED BY <2>1, <2>2
<1>2. QED BY InitBoot, <1>1, PTL DEF BootSpec

\* Through both programs, from the stub's sti on and while the kernel takes
\* over the table, no interrupt of a line that is let through, nor the spurious
\* one, comes without a handler for it.  It takes a handler between
\* PIC_line_enable's read and its write to change that, and only the kernel
\* enables lines that way.
THEOREM InterruptsHandled ==
  BootSpec => [](/\ stage = "wild" => spoiled
                 /\ spoiled => stage \notin StubStages
                 /\ intr /\ ~spoiled => \A l \in unmasked \cup {7} : gate[l] # "none")
<1> DEFINE P == /\ stage = "wild" => spoiled
                /\ spoiled => stage \notin StubStages
                /\ intr /\ ~spoiled => \A l \in unmasked \cup {7} : gate[l] # "none"
<1>1. BootInv => P
  <2> SUFFICES ASSUME BootInv PROVE P OBVIOUS
  <2>1. \A s \in Late : s \notin StubStages BY DEF Late, Enables, StubStages
  <2>2. /\ stage = "wild" => spoiled
        /\ spoiled => stage \notin StubStages
    BY <2>1 DEF BootInv, GatesInv
  <2>3. QED BY <2>2, AlwaysHandled DEF BootInv
<1>2. QED BY <1>1, BootHolds, PTL

-----------------------------------------------------------------------------
(* The zones of memory.                                                     *)

Zones == 1..12

\* Where a zone begins, and 13 where the segments do.
Floor(z) ==
  CASE z = 1  -> 131072      \* the stub
    [] z = 2  -> 196608      \* its timer's counter
    [] z = 3  -> 393216      \* the memory map
    [] z = 4  -> 458752      \* the IDT
    [] z = 5  -> 460800      \* the stub's stack
    [] z = 6  -> 753664      \* text memory
    [] z = 7  -> 1048576     \* what memory there is above 1 MB
    [] z = 8  -> 16777216    \* the frame list
    [] z = 9  -> 33554432    \* queue heads
    [] z = 10 -> 50331648    \* qTDs
    [] z = 11 -> 67108864    \* the periodic queue head
    [] z = 12 -> 83886080    \* the file, and then the kernel's stack
    [] z = 13 -> 167772160

\* What is in a zone, when it is in use.
Resident(z) ==
  CASE z = 1  -> Use("stub", stub_image, StubBytes)
    [] z = 2  -> Use("countdown", PIT_count_down, 4)
    [] z = 3  -> Use("map", g_memoryMapPtr, 2 + 24 * Len(map))
    [] z = 4  -> Use("IDT", g_IDTPtr, 2048)
    [] z = 5  -> Use("stack", stub_stack - StackBytes, StackBytes)
    [] z = 6  -> Use("text", VGABuffer, 2 * Window)
    [] z = 8  -> Use("frames", PERIODICLISTBASE, 4096)
    [] z = 9  -> Use("heads", QH_BASE_ADDR, 3 * 96)
    [] z = 10 -> Use("qTDs", QTD_BASE_ADDR, 64 * Qtds)
    [] z = 11 -> Use("periodic", periodic_queue_head, 96)
    [] z = 12 -> IF StubRuns THEN Use("file", kernel_buf, machine.file)
                             ELSE Use("kstack", kernel_stack - Frames, Frames)

Below(u, a) == u.from + u.size <= a
In(u, z) == u.from \in Nat /\ u.size \in Nat /\ Floor(z) <= u.from /\ Below(u, Floor(z + 1))

Plain(z) == z \in Zones \ {7}

LEMMA FloorTypes == \A z \in 1..13 : Floor(z) \in Nat
BY DEF Floor

LEMMA FloorsRise == \A y \in Zones : \A z \in 1..13 : y < z => Floor(y + 1) <= Floor(z)
<1> SUFFICES ASSUME NEW y \in Zones, NEW z \in 1..13, y < z PROVE Floor(y + 1) <= Floor(z) OBVIOUS
<1>1. \A x \in Zones : Floor(x) <= Floor(x + 1) BY DEF Zones, Floor
<1>2. Floor(y + 1) <= Floor(z) BY SMTT(60) DEF Zones, Floor
<1>3. QED BY <1>2

LEMMA ZonesApart ==
  ASSUME NEW u, NEW v, NEW y \in Zones, NEW z \in Zones, y # z, In(u, y), In(v, z)
  PROVE  Apart(u, v)
<1>1. y + 1 \in 1..13 /\ z + 1 \in 1..13 /\ y \in 1..13 /\ z \in 1..13 BY DEF Zones
<1>2. /\ Floor(y) \in Nat /\ Floor(z) \in Nat /\ Floor(y + 1) \in Nat /\ Floor(z + 1) \in Nat
  BY <1>1, FloorTypes
<1>3. y < z \/ z < y BY <1>1
<1>4. (y < z => Floor(y + 1) <= Floor(z)) /\ (z < y => Floor(z + 1) <= Floor(y))
  BY <1>1, FloorsRise
<1>5. QED BY <1>2, <1>3, <1>4 DEF In, Below, Apart

\* The stub's stack never grows down to the interrupt table.
LEMMA StackFits ==
  ASSUME LowMemory, HighMemory, machine \in Machines
  PROVE  StackBytes \in Nat /\ g_IDTPtr + 2048 + StackBytes <= stub_stack
<1>1. /\ machine.conf \in Nat /\ machine.conf <= 65536 /\ machine.cluster \in Nat
      /\ machine.cluster <= 65536 /\ Len(machine.headers) \in Nat /\ Len(machine.headers) <= 512
  BY MachineTypes DEF HighMemory
<1> DEFINE b == CASE stage = "init"  -> machine.conf
                  [] stage = "setup" -> 36 + 8 + 1024
                  [] stage = "read"  -> machine.cluster + 16384
                  [] stage \in {"show", "headers", "copy"} ->
                       machine.cluster + 32 * Len(machine.headers)
                  [] OTHER -> 0
<1>2. b \in Nat /\ b <= 65536 + 16384
  <2>1. CASE stage = "init" BY <1>1, <2>1
  <2>2. CASE stage = "setup" BY <2>2
  <2>3. CASE stage = "read" BY <1>1, <2>3
  <2>4. CASE stage \in {"show", "headers", "copy"}
    <3>1. b = machine.cluster + 32 * Len(machine.headers) BY <2>4
    <3> HIDE DEF b
    <3>2. QED BY <1>1, <3>1
  <2>5. CASE stage \notin {"init", "setup", "read", "show", "headers", "copy"} BY <2>5
  <2>6. QED BY <2>1, <2>2, <2>3, <2>4, <2>5
<1>3. StackBytes = Frames + 1024 + b BY DEF StackBytes
<1> HIDE DEF b
<1>4. Frames \in Nat BY BootAssumption
<1>5. g_IDTPtr + 2048 + Frames + 1024 + 65536 + 16384 <= stub_stack BY DEF LowMemory
<1>6. QED BY <1>2, <1>3, <1>4, <1>5 DEF g_IDTPtr, stub_stack

LEMMA InZone ==
  ASSUME NEW what, NEW from \in Nat, NEW size \in Nat, NEW z, Floor(z) <= from,
         from + size <= Floor(z + 1)
  PROVE  In(Use(what, from, size), z)
BY DEF In, Below, Use

\* Each resident is in its zone.
LEMMA ResidentsFit ==
  ASSUME LowMemory, HighMemory, machine \in Machines, map \in Maps, NEW z \in Zones, Plain(z)
  PROVE  In(Resident(z), z)
<1>1. z \in {1, 2, 3, 4, 5, 6, 8, 9, 10, 11, 12} BY DEF Plain, Zones
<1>2. StubBytes \in Nat /\ Frames \in Nat BY BootAssumption
<1>3. CASE z = 1
  BY <1>2, <1>3 DEF LowMemory, Resident, Floor, In, Below, Use, stub_image, PIT_count_down
<1>4. CASE z = 2 BY <1>4 DEF Resident, Floor, In, Below, Use, PIT_count_down
<1>5. CASE z = 3
  <2>1. Resident(z) = Use("map", g_memoryMapPtr, 2 + 24 * Len(map)) BY <1>5 DEF Resident
  <2>2. Floor(z) = g_memoryMapPtr /\ Floor(z + 1) = g_IDTPtr BY <1>5 DEF Floor, g_memoryMapPtr, g_IDTPtr
  <2>3. Len(map) \in Nat BY DescriptorType
  <2>4. g_memoryMapPtr \in Nat /\ 2 + 24 * Len(map) \in Nat BY <2>3 DEF g_memoryMapPtr
  <2>5. g_memoryMapPtr + 2 + 24 * Len(map) <= g_IDTPtr BY DEF LowMemory
  <2>6. g_memoryMapPtr + (2 + 24 * Len(map)) <= g_IDTPtr BY <2>3, <2>4, <2>5
  <2>7. g_memoryMapPtr <= g_memoryMapPtr BY <2>4
  <2> DEFINE s == 2 + 24 * Len(map)
  <2> HIDE DEF s
  <2>8. s \in Nat /\ g_memoryMapPtr + s <= g_IDTPtr BY <2>4, <2>6 DEF s
  <2>9. In(Use("map", g_memoryMapPtr, s), z) BY <2>2, <2>4, <2>7, <2>8, InZone
  <2>10. QED BY <2>1, <2>9 DEF s
<1>6. CASE z = 4
  <2>1. Resident(z) = Use("IDT", g_IDTPtr, 2048) BY <1>6 DEF Resident
  <2>2. Floor(z) = 458752 /\ Floor(z + 1) = 460800 BY <1>6 DEF Floor
  <2>3. g_IDTPtr \in Nat /\ 2048 \in Nat BY DEF g_IDTPtr
  <2>4. 458752 <= g_IDTPtr /\ g_IDTPtr + 2048 <= 460800 BY DEF g_IDTPtr
  <2>5. QED BY <2>1, <2>2, <2>3, <2>4, InZone
<1>7. CASE z = 5
  <2>1. StackBytes \in Nat /\ g_IDTPtr + 2048 + StackBytes <= stub_stack BY StackFits
  <2>2. Resident(z) = Use("stack", stub_stack - StackBytes, StackBytes) BY <1>7 DEF Resident
  <2>3. Floor(z) = 460800 /\ Floor(z + 1) = 753664 BY <1>7 DEF Floor
  <2>4. /\ stub_stack - StackBytes \in Nat /\ 460800 <= stub_stack - StackBytes
        /\ (stub_stack - StackBytes) + StackBytes <= 753664
    BY <2>1 DEF g_IDTPtr, stub_stack
  <2> DEFINE f == stub_stack - StackBytes
  <2> HIDE DEF f
  <2>5. f \in Nat /\ 460800 <= f /\ f + StackBytes <= 753664 BY <2>4 DEF f
  <2>6. In(Use("stack", f, StackBytes), z) BY <2>1, <2>3, <2>5, InZone
  <2>7. QED BY <2>2, <2>6 DEF f
<1>8. CASE z = 6
  <2> DEFINE len == 2 * Window
  <2>1. len \in Nat /\ len <= 1048576 - 753664 BY DEF Window
  <2>2. Resident(z) = Use("text", VGABuffer, len) BY <1>8 DEF Resident
  <2> HIDE DEF len
  <2>3. Floor(z) = VGABuffer /\ Floor(z + 1) = 1048576 BY <1>8 DEF Floor, VGABuffer
  <2>4. VGABuffer \in Nat /\ VGABuffer <= VGABuffer /\ VGABuffer + len <= 1048576
    BY <2>1 DEF VGABuffer
  <2>5. len \in Nat BY <2>1
  <2>6. In(Use("text", VGABuffer, len), z) BY <2>3, <2>4, <2>5, InZone
  <2>7. QED BY <2>2, <2>6
<1>9. CASE z = 8
  <2>1. Resident(z) = Use("frames", PERIODICLISTBASE, 4096) BY <1>9 DEF Resident
  <2>2. Floor(z) = 16777216 /\ Floor(z + 1) = 33554432 BY <1>9 DEF Floor
  <2>3. PERIODICLISTBASE \in Nat /\ 4096 \in Nat BY DEF PERIODICLISTBASE
  <2>4. 16777216 <= PERIODICLISTBASE /\ PERIODICLISTBASE + 4096 <= 33554432 BY DEF PERIODICLISTBASE
  <2>5. QED BY <2>1, <2>2, <2>3, <2>4, InZone
<1>10. CASE z = 9
  <2>1. Resident(z) = Use("heads", QH_BASE_ADDR, 3 * 96) BY <1>10 DEF Resident
  <2>2. Floor(z) = 33554432 /\ Floor(z + 1) = 50331648 BY <1>10 DEF Floor
  <2>3. QH_BASE_ADDR \in Nat /\ 3 * 96 \in Nat BY DEF QH_BASE_ADDR
  <2>4. 33554432 <= QH_BASE_ADDR /\ QH_BASE_ADDR + 3 * 96 <= 50331648 BY DEF QH_BASE_ADDR
  <2>5. QED BY <2>1, <2>2, <2>3, <2>4, InZone
<1>11. CASE z = 10
  <2>1. Resident(z) = Use("qTDs", QTD_BASE_ADDR, 64 * Qtds) BY <1>11 DEF Resident
  <2>2. Floor(z) = 50331648 /\ Floor(z + 1) = 67108864 BY <1>11 DEF Floor
  <2>3. Qtds \in Nat /\ Qtds <= 7 * (12 + 1025)
    <3>1. machine.conf \in Nat /\ machine.conf <= 65536 BY MachineTypes
    <3> DEFINE c == machine.conf
    <3>2. c \in Nat /\ c <= 65536 BY <3>1
    <3>3. Qtds = IF stage = "init" THEN 7 * (12 + (c + 63) \div 64) ELSE 2 + 128 BY DEF Qtds
    <3> HIDE DEF c
    <3> DEFINE d == (c + 63) \div 64
    <3>4. d \in Nat /\ d <= 1025 BY <3>2
    <3> HIDE DEF d
    <3>5. Qtds = IF stage = "init" THEN 7 * (12 + d) ELSE 2 + 128 BY <3>3 DEF d
    <3>6. QED BY <3>4, <3>5
  <2> DEFINE q == 64 * Qtds
  <2>4. q \in Nat /\ QTD_BASE_ADDR \in Nat BY <2>3 DEF QTD_BASE_ADDR
  <2>5. 50331648 <= QTD_BASE_ADDR /\ QTD_BASE_ADDR + q <= 67108864 BY <2>3 DEF QTD_BASE_ADDR
  <2> HIDE DEF q
  <2>6. In(Use("qTDs", QTD_BASE_ADDR, q), z) BY <2>2, <2>4, <2>5, InZone
  <2>7. QED BY <2>1, <2>6 DEF q
<1>12. CASE z = 11
  <2>1. Resident(z) = Use("periodic", periodic_queue_head, 96) BY <1>12 DEF Resident
  <2>2. Floor(z) = 67108864 /\ Floor(z + 1) = 83886080 BY <1>12 DEF Floor
  <2>3. periodic_queue_head \in Nat /\ 96 \in Nat BY DEF periodic_queue_head
  <2>4. 67108864 <= periodic_queue_head /\ periodic_queue_head + 96 <= 83886080 BY DEF periodic_queue_head
  <2>5. QED BY <2>1, <2>2, <2>3, <2>4, InZone
<1>13. CASE z = 12
  <2>1. machine.file \in Nat /\ kernel_buf + machine.file <= kernel_stack
    BY MachineTypes DEF HighMemory
  <2>2. Floor(z) = kernel_buf /\ Floor(z + 1) = kernel_stack BY <1>13 DEF Floor, kernel_buf, kernel_stack
  <2>3. kernel_buf \in Nat /\ kernel_stack \in Nat /\ kernel_buf <= kernel_buf
    BY DEF kernel_buf, kernel_stack
  <2>4. CASE StubRuns
    <3>1. Resident(z) = Use("file", kernel_buf, machine.file) BY <1>13, <2>4 DEF Resident
    <3>2. QED BY <2>1, <2>2, <2>3, <3>1, InZone
  <2>5. CASE ~StubRuns
    <3>1. Resident(z) = Use("kstack", kernel_stack - Frames, Frames) BY <1>13, <2>5 DEF Resident
    <3>2. Frames <= 83886080 BY <1>2 DEF LowMemory, g_IDTPtr, stub_stack
    <3>3. /\ kernel_stack - Frames \in Nat /\ kernel_buf <= kernel_stack - Frames
          /\ (kernel_stack - Frames) + Frames <= kernel_stack
      BY <1>2, <3>2 DEF kernel_buf, kernel_stack
    <3>4. QED BY <1>2, <2>2, <3>1, <3>3, InZone
  <2>6. QED BY <2>4, <2>5
<1>14. QED BY <1>1, <1>3, <1>4, <1>5, <1>6, <1>7, <1>8, <1>9, <1>10, <1>11, <1>12, <1>13

\* What is in use is a resident, or a segment.  The frame list is not while
\* the kernel runs, nor is the memory map when memory_init is through.
LEMMA UsesKnown ==
  ASSUME StageInv, NEW u \in InUse
  PROVE  \/ \E z \in Zones : Plain(z) /\ u = Resident(z) /\ (z = 8 => StubRuns)
         \/ \E k \in 1..Len(machine.headers) : u = SegmentOf(machine, k)
<1>1. \A z \in {1, 2, 3, 4, 5, 6, 8, 9, 10, 11, 12} : z \in Zones /\ Plain(z) BY DEF Zones, Plain
<1>2. Loading => StubRuns BY DEF Loading, StubRuns, StubStages
<1>3. Driving => StubRuns BY DEF Driving
<1>4. Copied <= Len(machine.headers) /\ Copied \in Nat /\ Len(machine.headers) \in Nat
  <2>1. machine \in Machines /\ n \in Nat /\ (stage = "copy" => n <= Len(machine.headers)) BY DEF StageInv
  <2>2. Len(machine.headers) \in Nat BY <2>1, MachineTypes
  <2>3. QED BY <2>1, <2>2 DEF Copied
<1>5. \/ \E z \in {1, 2, 3, 4, 5, 6, 9, 10, 11} : u = Resident(z)
      \/ StubRuns /\ u = Resident(8)
      \/ u = Resident(12)
      \/ \E k \in 1..Copied : u = SegmentOf(machine, k)
  <2>1. \/ u = Use("IDT", g_IDTPtr, 2048)
        \/ u = Use("text", VGABuffer, 2 * Window)
        \/ u = Use("stub", stub_image, StubBytes)
        \/ u = Use("countdown", PIT_count_down, 4)
        \/ u = Use("map", g_memoryMapPtr, 2 + 24 * Len(map))
        \/ u = Use("stack", stub_stack - StackBytes, StackBytes)
        \/ Driving /\ u = Use("frames", PERIODICLISTBASE, 4096)
        \/ u = Use("periodic", periodic_queue_head, 96)
        \/ u = Use("qTDs", QTD_BASE_ADDR, 64 * Qtds)
        \/ u = Use("heads", QH_BASE_ADDR, 3 * 96)
        \/ Loading /\ u = Use("file", kernel_buf, machine.file)
        \/ \E k \in 1..Copied : u = SegmentOf(machine, k)
        \/ KernelRuns /\ u = Use("kstack", kernel_stack - Frames, Frames)
    BY SMTT(60) DEF InUse, SegmentOf
  <2>2. /\ Resident(4) = Use("IDT", g_IDTPtr, 2048)
        /\ Resident(6) = Use("text", VGABuffer, 2 * Window)
        /\ Resident(1) = Use("stub", stub_image, StubBytes)
        /\ Resident(2) = Use("countdown", PIT_count_down, 4)
        /\ Resident(3) = Use("map", g_memoryMapPtr, 2 + 24 * Len(map))
        /\ Resident(5) = Use("stack", stub_stack - StackBytes, StackBytes)
        /\ Resident(8) = Use("frames", PERIODICLISTBASE, 4096)
        /\ Resident(11) = Use("periodic", periodic_queue_head, 96)
        /\ Resident(10) = Use("qTDs", QTD_BASE_ADDR, 64 * Qtds)
        /\ Resident(9) = Use("heads", QH_BASE_ADDR, 3 * 96)
        /\ Resident(12) = IF StubRuns THEN Use("file", kernel_buf, machine.file)
                                      ELSE Use("kstack", kernel_stack - Frames, Frames)
    BY DEF Resident
  <2> DEFINE Listed == \E z \in {1, 2, 3, 4, 5, 6, 9, 10, 11} : u = Resident(z)
             Copies == \E k \in 1..Copied : u = SegmentOf(machine, k)
  <2>3. \/ u = Resident(4) \/ u = Resident(6) \/ u = Resident(1) \/ u = Resident(2)
        \/ u = Resident(3) \/ u = Resident(5) \/ u = Resident(11) \/ u = Resident(10)
        \/ u = Resident(9) \/ (StubRuns /\ u = Resident(8)) \/ u = Resident(12) \/ Copies
    BY <1>2, <1>3, <2>1, <2>2, SMT DEF KernelRuns
  <2>4. \A z \in {1, 2, 3, 4, 5, 6, 9, 10, 11} : u = Resident(z) => Listed OBVIOUS
  <2> HIDE DEF Listed, Copies
  <2>5. Listed \/ (StubRuns /\ u = Resident(8)) \/ u = Resident(12) \/ Copies BY <2>3, <2>4
  <2>6. QED BY <2>5 DEF Listed, Copies
<1>6. CASE \E z \in {1, 2, 3, 4, 5, 6, 9, 10, 11} : u = Resident(z) BY <1>1, <1>6
<1>7. CASE StubRuns /\ u = Resident(8) BY <1>1, <1>7
<1>8. CASE u = Resident(12) BY <1>1, <1>8
<1>9. CASE \E k \in 1..Copied : u = SegmentOf(machine, k) BY <1>4, <1>9
<1>10. QED BY <1>5, <1>6, <1>7, <1>8, <1>9

LEMMA SegmentsFit ==
  ASSUME HighMemory, NEW m \in Machines, NEW k \in 1..Len(m.headers)
  PROVE  /\ SegmentOf(m, k).from \in Nat /\ SegmentOf(m, k).size \in Nat
         /\ Floor(13) <= SegmentOf(m, k).from
<1>1. m.headers[k].p_vaddr \in Nat /\ m.headers[k].p_memsz \in Nat BY MachineTypes
<1>2. m.headers[k].p_vaddr >= kernel_stack BY DEF HighMemory
<1>3. Floor(13) = kernel_stack BY DEF Floor, kernel_stack
<1>4. QED BY <1>1, <1>2, <1>3 DEF SegmentOf, Use

LEMMA UsesApart ==
  ASSUME LowMemory, HighMemory, StageInv, map \in Maps, NEW u \in InUse, NEW v \in InUse, u # v
  PROVE  Apart(u, v)
<1>1. machine \in Machines BY DEF StageInv
<1>2. ASSUME NEW z \in Zones, Plain(z), NEW k \in 1..Len(machine.headers),
             NEW a, NEW b, a = Resident(z), b = SegmentOf(machine, k)
      PROVE  Apart(a, b) /\ Apart(b, a)
  <2>1. In(a, z) BY <1>1, <1>2, ResidentsFit
  <2>2. b.from \in Nat /\ b.size \in Nat /\ Floor(13) <= b.from BY <1>1, <1>2, SegmentsFit
  <2>3. Floor(z + 1) <= Floor(13) /\ Floor(z + 1) \in Nat /\ Floor(13) \in Nat
    <3>1. z + 1 \in 1..13 /\ z < 13 /\ 13 \in 1..13 BY DEF Zones
    <3>2. QED BY <3>1, FloorsRise, FloorTypes
  <2>4. QED BY <2>1, <2>2, <2>3 DEF In, Below, Apart
<1>3. CASE \E z \in Zones : Plain(z) /\ u = Resident(z)
  <2>1. PICK y \in Zones : Plain(y) /\ u = Resident(y) BY <1>3
  <2>2. CASE \E z \in Zones : Plain(z) /\ v = Resident(z)
    <3>1. PICK z \in Zones : Plain(z) /\ v = Resident(z) BY <2>2
    <3>2. In(u, y) /\ In(v, z) BY <1>1, <2>1, <3>1, ResidentsFit
    <3>3. y # z BY <2>1, <3>1
    <3>4. QED BY <3>2, <3>3, ZonesApart
  <2>3. CASE \E k \in 1..Len(machine.headers) : v = SegmentOf(machine, k) BY <1>2, <2>1, <2>3
  <2>4. QED BY <2>2, <2>3, UsesKnown
<1>4. CASE \E k \in 1..Len(machine.headers) : u = SegmentOf(machine, k)
  <2>1. PICK k \in 1..Len(machine.headers) : u = SegmentOf(machine, k) BY <1>4
  <2>2. CASE \E z \in Zones : Plain(z) /\ v = Resident(z) BY <1>2, <2>1, <2>2
  <2>3. CASE \E j \in 1..Len(machine.headers) : v = SegmentOf(machine, j)
    <3>1. PICK j \in 1..Len(machine.headers) : v = SegmentOf(machine, j) BY <2>3
    <3>2. j # k BY <2>1, <3>1
    <3>3. QED BY <1>1, <2>1, <3>1, <3>2 DEF HighMemory
  <2>4. QED BY <2>2, <2>3, UsesKnown
<1>5. QED BY <1>3, <1>4, UsesKnown

\* The heap is above 1 MB, and does not wrap.
LEMMA BlocksHigh ==
  ASSUME HeapHigh, TypeOK, ScanInv, BlocksInv, NEW b \in blocks
  PROVE  b.at \in Nat /\ b.count \in Nat /\ b.at >= 256
<1>1. b.from \in Nat /\ b.count \in Nat /\ b.from <= MaxPages
  <2>1. b \in [at : 0..(Word-1), from : 0..MaxPages, count : Requests] BY DEF TypeOK
  <2>2. b.from \in 0..MaxPages BY <2>1
  <2>3. QED BY <2>2, BlockType, HeapAssumption
<1>2. pc = "ready" /\ map \in Maps /\ start \in BssCounts BY DEF BlocksInv, TypeOK
<1>3. Len(map) \in Nat /\ i = Len(map) + 1 BY <1>2, DescriptorType DEF ScanInv
<1>4. PICK j \in 1..Len(map) :
        /\ map[j].type = 1 /\ map[j].lengthL > 0
        /\ \A o \in 1..Len(map) : map[o].type = 1 /\ map[o].lengthL >= map[j].lengthL => map[o].baseL >= 256
  BY <1>2 DEF HeapHigh
<1>5. map[j].lengthL \in Nat /\ maxLen \in Nat /\ Word \in Nat \ {0} /\ MaxPages \in Nat /\ start \in Nat
  BY <1>2, DescriptorType, HeapAssumption DEF TypeOK
<1>6. 1..(i-1) = 1..Len(map) BY <1>3
<1>7. map[j].lengthL <= maxLen BY <1>4, <1>6 DEF ScanInv
<1>8. PICK o \in 1..Len(map) : map[o].type = 1 /\ map[o].baseL = g_heapStart /\ map[o].lengthL = maxLen
  <2>1. maxLen > 0 BY <1>4, <1>5, <1>7
  <2>2. QED BY <1>6, <2>1 DEF ScanInv
<1>9. g_heapStart >= 256 BY <1>4, <1>7, <1>8
<1>10. g_heapStart \in Nat BY <1>5 DEF TypeOK
<1>11. g_heapStart + start + MaxPages < Word BY <1>2, <1>8 DEF HeapHigh
<1> DEFINE x == g_heapStart + start + b.from
<1>12. x \in Nat /\ x < Word /\ x >= 256
  <2>1. \A g, s, f, p, w \in Nat :
          g >= 256 /\ f <= p /\ g + s + p < w => g + s + f \in Nat /\ g + s + f < w /\ g + s + f >= 256
    OBVIOUS
  <2>2. /\ g_heapStart \in Nat /\ start \in Nat /\ b.from \in Nat /\ MaxPages \in Nat /\ Word \in Nat
        /\ g_heapStart >= 256 /\ b.from <= MaxPages /\ g_heapStart + start + MaxPages < Word
    BY <1>1, <1>5, <1>9, <1>10, <1>11
  <2> HIDE DEF x
  <2>3. QED BY ONLY <2>1, <2>2 DEF x
<1>13. b.at = x % Word BY DEF BlocksInv, Placed
<1> HIDE DEF x
<1>14. b.at = x BY <1>5, <1>12, <1>13, SMTT(30)
<1>15. QED BY <1>1, <1>12, <1>14

LEMMA HeapApart ==
  ASSUME LowMemory, HighMemory, HeapHigh, TypeOK, ScanInv, BlocksInv, StageInv,
         NEW u \in InUse, NEW h \in Heaped, h.from + h.size <= QH_BASE_ADDR
  PROVE  Apart(u, h)
<1>1. PICK b \in blocks : h = Use("heap", b.at * Page, b.count * Page) BY DEF Heaped
<1>2. b.at \in Nat /\ b.count \in Nat /\ b.at >= 256 BY BlocksHigh
<1>3. h.from \in Nat /\ h.size \in Nat /\ h.from >= 1048576 BY <1>1, <1>2 DEF Use, Page
<1>4. machine \in Machines /\ map \in Maps BY DEF StageInv, TypeOK
<1>5. ~StubRuns
  <2>1. stage \in {"k_print", "loop", "wild"} BY <1>1 DEF StageInv
  <2>2. QED BY <2>1 DEF StubRuns, StubStages
<1>6. Floor(7) = 1048576 /\ Floor(9) = QH_BASE_ADDR BY DEF Floor, QH_BASE_ADDR
<1>7. h.from >= Floor(7) /\ h.from + h.size <= Floor(9) BY <1>3, <1>6
<1>8. ASSUME NEW z \in Zones, Plain(z), u = Resident(z), z # 8 PROVE Apart(u, h)
  <2>1. In(u, z) BY <1>4, <1>8, ResidentsFit
  <2>2. z \in 1..6 \/ z \in 9..12 BY <1>8 DEF Plain, Zones
  <2>3. /\ Floor(7) \in Nat /\ Floor(9) \in Nat /\ Floor(z) \in Nat /\ Floor(z + 1) \in Nat
    <3>1. z \in 1..13 /\ z + 1 \in 1..13 /\ 7 \in 1..13 /\ 9 \in 1..13 BY DEF Zones
    <3>2. QED BY <3>1, FloorTypes
  <2>4. CASE z \in 1..6
    <3>1. Floor(z + 1) <= Floor(7)
      <4>1. z < 7 /\ 7 \in 1..13 BY <2>4
      <4>2. QED BY <4>1, FloorsRise
    <3>2. QED BY <1>3, <1>7, <2>1, <2>3, <3>1 DEF In, Below, Apart
  <2>5. CASE z \in 9..12
    <3>1. Floor(9) <= Floor(z)
      <4>1. CASE z = 9 BY <2>3, <4>1
      <4>2. CASE z # 9
        <5>1. 8 \in Zones /\ z \in 1..13 /\ 8 < z /\ 8 + 1 = 9 BY <2>5 DEF Zones
        <5>2. QED BY <5>1, FloorsRise
      <4>3. QED BY <4>1, <4>2
    <3>2. QED BY <1>3, <1>7, <2>1, <2>3, <3>1 DEF In, Below, Apart
  <2>6. QED BY <2>2, <2>4, <2>5
<1>9. ASSUME NEW k \in 1..Len(machine.headers), u = SegmentOf(machine, k) PROVE Apart(u, h)
  <2>1. u.from \in Nat /\ u.size \in Nat /\ Floor(13) <= u.from BY <1>4, <1>9, SegmentsFit
  <2>2. Floor(9) <= Floor(13) /\ Floor(9) \in Nat /\ Floor(13) \in Nat BY DEF Floor
  <2>3. QED BY <1>3, <1>7, <2>1, <2>2 DEF Apart
<1>10. QED BY <1>5, <1>8, <1>9, UsesKnown

\* On every machine the program is laid out for, nothing in use lies over
\* anything else in use, from the stub's first instruction on; nor does a page
\* of the heap below the queue heads.
THEOREM EverythingApart ==
  ASSUME LowMemory, HighMemory, HeapHigh
  PROVE  BootSpec => []MemoryApart
<1>1. BootInv /\ TypeOK /\ ScanInv /\ BlocksInv => MemoryApart
  <2> SUFFICES ASSUME BootInv, TypeOK, ScanInv, BlocksInv PROVE MemoryApart OBVIOUS
  <2>1. StageInv /\ map \in Maps BY DEF BootInv, TypeOK
  <2>2. QED BY <2>1, UsesApart, HeapApart DEF MemoryApart
<1>2. QED BY <1>1, BootHolds, BootUsesHeap, TypeCorrect, ScanHolds, BlocksHold, PTL

-----------------------------------------------------------------------------
(* Counting up.                                                             *)

LEMMA Least ==
  ASSUME NEW S, S \subseteq Nat, S # {}
  PROVE  \E m \in S : \A k \in S : m <= k
<1> DEFINE R == OpToRel(<, Nat)
<1>1. IsWellFoundedOn(R, Nat) BY NatLessThanWellFounded, Zenon
<1>2. \A x, y \in Nat : x < y => <<x, y>> \in R BY DEF OpToRel
<1> HIDE DEF R
<1>3. PICK m \in S : \A k \in S : <<k, m>> \notin R BY <1>1, WFMin
<1>4. ASSUME NEW k \in S PROVE m <= k
  <2>1. k \in Nat /\ m \in Nat OBVIOUS
  <2>2. ~(k < m) BY <1>2, <1>3, <2>1
  <2>3. QED BY <2>1, <2>2
<1>5. QED BY <1>4

LEMMA AllOfThem ==
  ASSUME NEW N \in Nat, NEW S, 0 \in S, \A j \in 1..N : j - 1 \in S => j \in S
  PROVE  0..N \subseteq S
<1> DEFINE T == {j \in 0..N : j \notin S}
<1> SUFFICES ASSUME T # {} PROVE FALSE OBVIOUS
<1>1. T \subseteq Nat OBVIOUS
<1> HIDE DEF T
<1>2. PICK m \in T : \A k \in T : m <= k BY <1>1, Least
<1>3. m \in 0..N /\ m \notin S BY DEF T
<1>4. m # 0 BY <1>3
<1>5. m \in 1..N /\ m - 1 \in 0..N BY <1>3, <1>4
<1>6. m - 1 \notin T BY <1>2, <1>5
<1>7. m - 1 \in S BY <1>5, <1>6 DEF T
<1>8. QED BY <1>3, <1>5, <1>7

-----------------------------------------------------------------------------
(* Sequences with some of their members left out.                           *)

LEMMA WithoutSteps ==
  ASSUME NEW s, Len(s) \in Nat, NEW S
  PROVE  \E f : /\ f[0] = <<>>
                /\ \A k \in 1..Len(s) : f[k] = f[k - 1] \o (IF s[k] \in S THEN <<>> ELSE <<s[k]>>)
                /\ Without(s, S) = f[Len(s)]
<1> DEFINE N == Len(s)
           e(k) == IF s[k] \in S THEN <<>> ELSE <<s[k]>>
           Steps(g, m) == g = [k \in 0..m |-> IF k = 0 THEN <<>> ELSE g[k - 1] \o e(k)]
           D == {m \in 0..N : \E g : Steps(g, m)}
           f == CHOOSE f : Steps(f, N)
<1>1. Without(s, S) = f[N] BY DEF Without
<1> HIDE DEF e
<1>2. 0 \in D
  <2> DEFINE g == [k \in 0..0 |-> <<>>]
  <2>1. Steps(g, 0) OBVIOUS
  <2> HIDE DEF g, Steps
  <2>2. QED BY <2>1
<1>3. ASSUME NEW m \in 1..N, m - 1 \in D PROVE m \in D
  <2>1. PICK g : Steps(g, m - 1) BY <1>3
  <2> DEFINE h == [k \in 0..m |-> IF k = m THEN g[m - 1] \o e(m) ELSE g[k]]
  <2>2. \A k \in 0..m - 1 : g[k] = IF k = 0 THEN <<>> ELSE g[k - 1] \o e(k) BY <2>1, Zenon
  <2>3. \A k \in 1..m : k - 1 \in 0..m - 1 /\ k - 1 \in 0..m /\ k - 1 # m OBVIOUS
  <2>4. \A k \in 0..m : k # m => k \in 0..m - 1 OBVIOUS
  <2>5. \A k \in 0..m : k # 0 => k \in 1..m OBVIOUS
  <2>6. ASSUME NEW k \in 0..m PROVE h[k] = IF k = 0 THEN <<>> ELSE h[k - 1] \o e(k)
    <3>1. CASE k = m
      <4>1. k # 0 /\ h[k] = g[k - 1] \o e(k) BY <3>1
      <4>2. h[k - 1] = g[k - 1] BY <2>3, <2>5, <4>1
      <4>3. QED BY <4>1, <4>2
    <3>2. CASE k # m
      <4>1. h[k] = g[k] BY <3>2
      <4>2. k # 0 => h[k - 1] = g[k - 1] BY <2>3, <2>5
      <4>3. g[k] = IF k = 0 THEN <<>> ELSE g[k - 1] \o e(k) BY <2>2, <2>4, <3>2
      <4>4. QED BY <4>1, <4>2, <4>3
    <3>3. QED BY <3>1, <3>2
  <2>7. h = [k \in 0..m |-> h[k]] OBVIOUS
  <2> HIDE DEF h
  <2>8. Steps(h, m) BY <2>6, <2>7, Zenon
  <2> HIDE DEF Steps
  <2>9. QED BY <2>8
<1>4. N \in D
  <2> HIDE DEF D
  <2>1. 0..N \subseteq D BY <1>2, <1>3, AllOfThem
  <2>2. QED BY <2>1
<1>5. Steps(f, N)
  <2> HIDE DEF Steps
  <2>1. QED BY <1>4, Zenon
<1> HIDE DEF f
<1>6. f[0] = <<>>
  <2>1. 0 \in 0..N OBVIOUS
  <2>2. QED BY <1>5, <2>1
<1>7. \A k \in 1..N : f[k] = f[k - 1] \o e(k)
  <2>1. \A k \in 1..N : k \in 0..N /\ k # 0 OBVIOUS
  <2>2. QED BY <1>5, <2>1, Zenon
<1>8. QED BY <1>1, <1>6, <1>7 DEF e

LEMMA WithoutIsSeq == ASSUME NEW T, NEW s \in Seq(T), NEW S PROVE Without(s, S) \in Seq(T)
<1> DEFINE N == Len(s)
<1>1. N \in Nat /\ \A k \in 1..N : s[k] \in T OBVIOUS
<1>2. PICK f : /\ f[0] = <<>>
               /\ \A k \in 1..N : f[k] = f[k - 1] \o (IF s[k] \in S THEN <<>> ELSE <<s[k]>>)
               /\ Without(s, S) = f[N]
  BY <1>1, WithoutSteps
<1> DEFINE D == {k \in 0..N : f[k] \in Seq(T)}
<1>3. 0 \in D
  <2>1. f[0] \in Seq(T) BY <1>2, EmptySeq, Zenon
  <2>2. 0 \in 0..N BY <1>1
  <2>3. QED BY <2>1, <2>2, Zenon
<1>4. ASSUME NEW k \in 1..N, k - 1 \in D PROVE k \in D
  <2>1. (IF s[k] \in S THEN <<>> ELSE <<s[k]>>) \in Seq(T) BY <1>1
  <2> DEFINE x == IF s[k] \in S THEN <<>> ELSE <<s[k]>>
             y == f[k - 1]
  <2>2. x \in Seq(T) /\ y \in Seq(T) /\ f[k] = y \o x BY <1>2, <1>4, <2>1
  <2> HIDE DEF x, y
  <2>3. f[k] \in Seq(T) BY <2>2
  <2>4. QED BY <1>1, <2>3
<1> HIDE DEF D
<1>5. 0..N \subseteq D BY <1>1, <1>3, <1>4, AllOfThem
<1>6. \A k \in 0..N : f[k] \in Seq(T) BY <1>5 DEF D
<1>7. QED BY <1>1, <1>2, <1>6

LEMMA WithoutAll ==
  ASSUME NEW T, NEW s \in Seq(T), NEW S, \A k \in 1..Len(s) : s[k] \in S
  PROVE  Without(s, S) = <<>>
<1> DEFINE N == Len(s)
<1>1. N \in Nat OBVIOUS
<1>2. PICK f : /\ f[0] = <<>>
               /\ \A k \in 1..N : f[k] = f[k - 1] \o (IF s[k] \in S THEN <<>> ELSE <<s[k]>>)
               /\ Without(s, S) = f[N]
  BY <1>1, WithoutSteps
<1> DEFINE D == {k \in 0..N : f[k] = <<>>}
<1>3. 0 \in D BY <1>1, <1>2
<1>4. ASSUME NEW k \in 1..N, k - 1 \in D PROVE k \in D
  <2>1. f[k] = <<>> \o <<>> BY <1>2, <1>4
  <2>2. QED BY <1>1, <2>1
<1> HIDE DEF D
<1>5. 0..N \subseteq D BY <1>1, <1>3, <1>4, AllOfThem
<1>6. N \in D BY <1>1, <1>5
<1>7. QED BY <1>2, <1>6 DEF D

LEMMA WithoutNone ==
  ASSUME NEW T, NEW s \in Seq(T), NEW S, \A k \in 1..Len(s) : s[k] \notin S
  PROVE  Without(s, S) = s
<1> DEFINE N == Len(s)
<1>1. N \in Nat /\ \A k \in 1..N : s[k] \in T OBVIOUS
<1>2. PICK f : /\ f[0] = <<>>
               /\ \A k \in 1..N : f[k] = f[k - 1] \o (IF s[k] \in S THEN <<>> ELSE <<s[k]>>)
               /\ Without(s, S) = f[N]
  BY <1>1, WithoutSteps
<1> DEFINE D == {k \in 0..N : f[k] \in Seq(T) /\ Len(f[k]) = k /\ \A j \in 1..k : f[k][j] = s[j]}
<1>3. 0 \in D
  <2>1. f[0] \in Seq(T) BY <1>2, EmptySeq, Zenon
  <2>2. 0 \in 0..N /\ f[0] = <<>> /\ Len(f[0]) = 0 BY <1>1, <1>2
  <2>3. \A j \in 1..0 : f[0][j] = s[j] OBVIOUS
  <2>4. QED BY <2>1, <2>2, <2>3, Zenon
<1>4. ASSUME NEW k \in 1..N, k - 1 \in D PROVE k \in D
  <2> DEFINE y == f[k - 1]
             x == <<s[k]>>
  <2>1. y \in Seq(T) /\ Len(y) = k - 1 /\ \A j \in 1..k - 1 : y[j] = s[j] BY <1>4
  <2>2. x \in Seq(T) /\ Len(x) = 1 /\ x[1] = s[k] BY <1>1
  <2>3. f[k] = y \o x BY <1>2
  <2> HIDE DEF x, y
  <2> DEFINE z == y \o x
  <2>a. /\ z \in Seq(T) /\ Len(z) = Len(y) + Len(x)
        /\ \A j \in 1..Len(y) + Len(x) : z[j] = IF j <= Len(y) THEN y[j] ELSE x[j - Len(y)]
    BY <2>1, <2>2, ConcatProperties, Zenon
  <2>b. z = f[k] BY <2>3
  <2> HIDE DEF z
  <2>4. f[k] \in Seq(T) /\ Len(f[k]) = k
        /\ \A j \in 1..k : f[k][j] = IF j <= k - 1 THEN y[j] ELSE x[j - (k - 1)]
    BY <2>1, <2>2, <2>a, <2>b
  <2>5. ASSUME NEW j \in 1..k PROVE f[k][j] = s[j]
    <3>1. CASE j <= k - 1 BY <2>1, <2>4, <3>1
    <3>2. CASE j = k BY <2>2, <2>4, <3>2
    <3>3. QED BY <3>1, <3>2
  <2>6. k \in 0..N BY <1>1
  <2>7. QED BY <2>4, <2>5, <2>6
<1> HIDE DEF D
<1>5. 0..N \subseteq D BY <1>1, <1>3, <1>4, AllOfThem
<1>6. N \in D BY <1>1, <1>5
<1>7. f[N] \in Seq(T) /\ Len(f[N]) = N /\ \A j \in 1..N : f[N][j] = s[j] BY <1>6 DEF D
<1>8. f[N] = s
  <2> DEFINE t == f[N]
  <2>1. t \in Seq(T) /\ Len(t) = Len(s) /\ \A j \in 1..Len(t) : t[j] = s[j] BY <1>7
  <2> HIDE DEF t
  <2>2. t = s BY <2>1, SeqEqual
  <2>3. QED BY <2>2 DEF t
<1>9. QED BY <1>2, <1>8

LEMMA WithoutConcat ==
  ASSUME NEW T, NEW s \in Seq(T), NEW t \in Seq(T), NEW S
  PROVE  Without(s \o t, S) = Without(s, S) \o Without(t, S)
<1> DEFINE M == Len(s)
           N == Len(t)
           u == s \o t
           e(x) == IF x \in S THEN <<>> ELSE <<x>>
<1>1. /\ M \in Nat /\ N \in Nat
      /\ \A k \in 1..M : s[k] \in T
      /\ \A k \in 1..N : t[k] \in T
  OBVIOUS
<1>2. /\ u \in Seq(T) /\ Len(u) = M + N
      /\ \A k \in 1..M + N : u[k] = IF k <= M THEN s[k] ELSE t[k - M]
  BY ConcatProperties, Zenon
<1>a. Len(u) \in Nat BY <1>1, <1>2
<1> HIDE DEF u
<1>3. PICK f : /\ f[0] = <<>>
               /\ \A k \in 1..M : f[k] = f[k - 1] \o e(s[k])
               /\ Without(s, S) = f[M]
  BY <1>1, WithoutSteps
<1>4. PICK g : /\ g[0] = <<>>
               /\ \A k \in 1..N : g[k] = g[k - 1] \o e(t[k])
               /\ Without(t, S) = g[N]
  BY <1>1, WithoutSteps
<1>5. PICK h : /\ h[0] = <<>>
               /\ \A k \in 1..Len(u) : h[k] = h[k - 1] \o e(u[k])
               /\ Without(u, S) = h[Len(u)]
  BY <1>a, WithoutSteps
<1>6. ASSUME NEW x \in T PROVE e(x) \in Seq(T) OBVIOUS
<1> HIDE DEF e
<1>7. M = 0 \/ M \in Nat \ {0} BY <1>1
<1> DEFINE D == {k \in 0..M : h[k] = f[k]}
<1>8. M \in D
  <2>1. 0 \in D
    <3>1. 0 \in 0..M /\ h[0] = f[0] BY <1>1, <1>3, <1>5
    <3>2. QED BY <3>1, Zenon
  <2>2. ASSUME NEW k \in 1..M, k - 1 \in D PROVE k \in D
    <3>1. k \in 1..M + N /\ k \in 1..Len(u) /\ k \in 0..M BY <1>1, <1>2
    <3>2. u[k] = s[k] BY <1>2, <3>1
    <3>3. h[k] = h[k - 1] \o e(s[k]) /\ f[k] = f[k - 1] \o e(s[k]) BY <1>3, <1>5, <3>1, <3>2, Zenon
    <3>4. h[k - 1] = f[k - 1] BY <2>2
    <3>5. h[k] = f[k] BY <3>3, <3>4, Zenon
    <3>6. QED BY <3>1, <3>5, Zenon
  <2> HIDE DEF D
  <2>3. 0..M \subseteq D BY <1>1, <2>1, <2>2, AllOfThem
  <2>4. QED BY <1>1, <2>3
<1>9. f[M] \in Seq(T) BY <1>3, WithoutIsSeq, Zenon
<1> HIDE DEF D
<1>10. h[M] = f[M] BY <1>8 DEF D
<1> DEFINE w == f[M]
           G == {k \in 0..N : g[k] \in Seq(T) /\ h[M + k] = w \o g[k]}
<1>11. w \in Seq(T) /\ h[M] = w BY <1>9, <1>10
<1> HIDE DEF w
<1>12. 0 \in G
  <2>1. g[0] \in Seq(T) BY <1>4, EmptySeq, Zenon
  <2>2. 0 \in 0..N /\ M + 0 = M BY <1>1
  <2>3. w \o <<>> = w BY <1>11, ConcatEmptySeq, Zenon
  <2>4. QED BY <1>4, <1>11, <2>1, <2>2, <2>3, Zenon
<1>13. ASSUME NEW k \in 1..N, k - 1 \in G PROVE k \in G
  <2>1. k \in 0..N /\ M + k \in 1..M + N /\ M + k \in 1..Len(u) /\ ~(M + k <= M)
        /\ (M + k) - M = k /\ (M + k) - 1 = M + (k - 1)
    BY <1>1, <1>2
  <2>2. u[M + k] = t[k] BY <1>2, <2>1
  <2>3. h[M + k] = h[M + (k - 1)] \o e(t[k]) /\ g[k] = g[k - 1] \o e(t[k])
    BY <1>4, <1>5, <2>1, <2>2, Zenon
  <2>4. g[k - 1] \in Seq(T) /\ h[M + (k - 1)] = w \o g[k - 1] BY <1>13
  <2> DEFINE y == g[k - 1]
             x == e(t[k])
  <2>5. x \in Seq(T) BY <1>1, <1>6
  <2>6. y \in Seq(T) /\ h[M + k] = (w \o y) \o x /\ g[k] = y \o x BY <2>3, <2>4, Zenon
  <2> HIDE DEF x, y
  <2>a. w \in Seq(T) /\ y \in Seq(T) BY <1>11, <2>6
  <2>7. (w \o y) \o x = w \o (y \o x) BY SMTT(30), <2>a, <2>5, SMT
  <2>8. y \o x \in Seq(T) BY <2>5, <2>6, ConcatProperties, Zenon
  <2>9. QED BY <2>1, <2>6, <2>7, <2>8, Zenon
<1> HIDE DEF G
<1>14. 0..N \subseteq G BY <1>1, <1>12, <1>13, AllOfThem
<1>15. N \in G BY <1>1, <1>14
<1>16. h[M + N] = w \o g[N] BY <1>15 DEF G
<1>17. Without(u, S) = Without(s, S) \o Without(t, S) BY <1>2, <1>3, <1>4, <1>5, <1>16, Zenon DEF w
<1>18. QED BY <1>17 DEF u

\* What is left is in its old order.
InOrder(s, S, r) ==
  /\ \A k \in 1..Len(r) : \E a \in 1..Len(s) : r[k] = s[a] /\ s[a] \notin S
  /\ \A k, j \in 1..Len(r) : k < j =>
       \E a, b \in 1..Len(s) : a < b /\ r[k] = s[a] /\ r[j] = s[b]

LEMMA WithoutOrder ==
  ASSUME NEW T, NEW s \in Seq(T), NEW S
  PROVE  InOrder(s, S, Without(s, S))
<1> DEFINE N == Len(s)
           e(x) == IF x \in S THEN <<>> ELSE <<x>>
           Sub(r, k) == /\ r \in Seq(T)
                        /\ \A j \in 1..Len(r) : \E a \in 1..k : r[j] = s[a] /\ s[a] \notin S
                        /\ \A l, j \in 1..Len(r) : l < j =>
                             \E a, b \in 1..k : a < b /\ r[l] = s[a] /\ r[j] = s[b]
<1>1. N \in Nat /\ \A k \in 1..N : s[k] \in T OBVIOUS
<1>2. PICK f : /\ f[0] = <<>>
               /\ \A k \in 1..N : f[k] = f[k - 1] \o e(s[k])
               /\ Without(s, S) = f[N]
  BY <1>1, WithoutSteps
<1>3. Sub(f[0], 0)
  <2>1. f[0] \in Seq(T) BY <1>2, EmptySeq, Zenon
  <2>2. Len(f[0]) = 0 BY <1>2
  <2>3. \A j \in 1..0 : FALSE OBVIOUS
  <2>4. QED BY <2>1, <2>2, <2>3, Zenon
<1>4. ASSUME NEW k \in 1..N, Sub(f[k - 1], k - 1) PROVE Sub(f[k], k)
  <2>1. \A a \in 1..k - 1 : a \in 1..k /\ a < k BY <1>1
  <2>2. k \in 1..k BY <1>1
  <2>3. CASE s[k] \in S
    <3> DEFINE y == f[k - 1]
    <3>1. y \in Seq(T) /\ f[k] = y \o <<>> BY <1>2, <1>4, <2>3
    <3> HIDE DEF y
    <3>2. f[k] = y BY <3>1, ConcatEmptySeq
    <3>3. \A a, b \in 1..k - 1 : a \in 1..k /\ b \in 1..k BY <2>1
    <3>4. Sub(y, k - 1) BY <1>4 DEF y
    <3>5. Sub(y, k)
      <4>1. y \in Seq(T) BY <3>4
      <4>2. \A j \in 1..Len(y) : \E a \in 1..k : y[j] = s[a] /\ s[a] \notin S
        BY <2>1, <3>4, Zenon
      <4>3. \A l, j \in 1..Len(y) : l < j => \E a, b \in 1..k : a < b /\ y[l] = s[a] /\ y[j] = s[b]
        <5> SUFFICES ASSUME NEW l \in 1..Len(y), NEW j \in 1..Len(y), l < j
                     PROVE  \E a, b \in 1..k : a < b /\ y[l] = s[a] /\ y[j] = s[b]
          BY Zenon
        <5>1. PICK a \in 1..k - 1, b \in 1..k - 1 : a < b /\ y[l] = s[a] /\ y[j] = s[b]
          BY <3>4, Zenon
        <5>2. QED BY <3>3, <5>1, Zenon
      <4>4. QED BY <4>1, <4>2, <4>3, Zenon
    <3> HIDE DEF Sub
    <3>6. QED BY <3>2, <3>5
  <2>4. CASE s[k] \notin S
    <3> DEFINE y == f[k - 1]
               m == Len(y)
               z == y \o <<s[k]>>
    <3>1. Sub(y, k - 1) BY <1>4
    <3>2. f[k] = z BY <1>2, <2>4
    <3> HIDE DEF y
    <3>3. y \in Seq(T) /\ m \in Nat BY <3>1
    <3>4. /\ z \in Seq(T) /\ Len(z) = m + 1
          /\ \A j \in 1..m + 1 : z[j] = IF j <= m THEN y[j] ELSE s[k]
      BY <1>1, <3>3
    <3> HIDE DEF z
    <3>5. ASSUME NEW j \in 1..m + 1 PROVE \/ j \in 1..m /\ z[j] = y[j]
                                          \/ j = m + 1 /\ z[j] = s[k]
      BY <3>3, <3>4
    <3> HIDE DEF m
    <3>6. ASSUME NEW j \in 1..m + 1 PROVE \E a \in 1..k : z[j] = s[a] /\ s[a] \notin S
      <4>1. CASE j \in 1..m /\ z[j] = y[j] BY <2>1, <3>1, <4>1, Zenon DEF m
      <4>2. CASE z[j] = s[k] BY <2>2, <2>4, <4>2, Zenon
      <4>3. QED BY <3>5, <4>1, <4>2, Zenon
    <3>7. ASSUME NEW l \in 1..m + 1, NEW j \in 1..m + 1, l < j
          PROVE  \E a, b \in 1..k : a < b /\ z[l] = s[a] /\ z[j] = s[b]
      <4>1. l \in 1..m /\ z[l] = y[l] BY <3>3, <3>5, <3>7
      <4>2. CASE j \in 1..m /\ z[j] = y[j]
        <5>1. PICK a \in 1..k - 1, b \in 1..k - 1 : a < b /\ y[l] = s[a] /\ y[j] = s[b]
          BY <3>1, <3>7, <4>1, <4>2, Zenon DEF m
        <5>2. QED BY <2>1, <4>1, <4>2, <5>1, Zenon
      <4>3. CASE z[j] = s[k]
        <5>1. PICK a \in 1..k - 1 : y[l] = s[a] BY <3>1, <4>1, Zenon DEF m
        <5>2. QED BY <2>1, <2>2, <4>1, <4>3, <5>1, Zenon
      <4>4. QED BY <3>5, <4>2, <4>3, Zenon
    <3>8. Sub(z, k)
      <4>1. z \in Seq(T) BY <3>4
      <4>2. \A j \in 1..Len(z) : \E a \in 1..k : z[j] = s[a] /\ s[a] \notin S BY <3>4, <3>6
      <4>3. \A l, j \in 1..Len(z) : l < j => \E a, b \in 1..k : a < b /\ z[l] = s[a] /\ z[j] = s[b]
        BY <3>4, <3>7
      <4>4. QED BY <4>1, <4>2, <4>3, Zenon
    <3> HIDE DEF Sub
    <3>9. QED BY <3>2, <3>8
  <2>5. QED BY <2>3, <2>4
<1> DEFINE D == {k \in 0..N : Sub(f[k], k)}
<1> HIDE DEF Sub
<1>5. 0..N \subseteq D
  <2>1. 0 \in D BY <1>1, <1>3
  <2>2. ASSUME NEW k \in 1..N, k - 1 \in D PROVE k \in D BY <1>1, <1>4, <2>2
  <2> HIDE DEF D
  <2>3. QED BY <1>1, <2>1, <2>2, AllOfThem
<1>6. Sub(f[N], N)
  <2>1. N \in 0..N BY <1>1
  <2>2. QED BY <1>5, <2>1
<1>7. Sub(Without(s, S), N) BY <1>2, <1>6, Zenon
<1>8. QED BY <1>7, Zenon DEF Sub, InOrder

-----------------------------------------------------------------------------
(* Digits.                                                                  *)

Reads(text, says) == Read(text) = [k \in DOMAIN says |-> Codes[says[k] + 1]]

LEMMA DigitCodes ==
  ASSUME NEW x \in 0..15
  PROVE  Digit(x) = Codes[x + 1] /\ Digit(x) \in Int /\ Digit(x) # Space /\ Digit(x) # Letter
BY SMT DEF Digit, Codes, Space, Letter

LEMMA FunctionSeq ==
  ASSUME NEW T, NEW m \in Nat, NEW f \in [1..m -> T]
  PROVE  f \in Seq(T) /\ Len(f) = m
OBVIOUS

LEMMA ReadsConcat ==
  ASSUME NEW a \in Seq(Int), NEW b \in Seq(Int), NEW u \in Seq(0..15), NEW v \in Seq(0..15),
         Reads(a, u), Reads(b, v)
  PROVE  Reads(a \o b, u \o v)
<1> DEFINE c(x) == Codes[x + 1]
           U == [k \in DOMAIN u |-> c(u[k])]
           V == [k \in DOMAIN v |-> c(v[k])]
           w == u \o v
<1>1. Read(a \o b) = U \o V
  <2> DEFINE Q == {Space, Letter}
  <2> HIDE DEF Q
  <2>1. Without(a \o b, Q) = Without(a, Q) \o Without(b, Q) BY WithoutConcat, SMT
  <2>2. QED BY <2>1, Zenon DEF Q, Reads, Read
<1> HIDE DEF c
<1>2. U \o V = [k \in DOMAIN w |-> c(w[k])]
  <2>1. /\ Len(u) \in Nat /\ DOMAIN u = 1..Len(u) /\ Len(v) \in Nat /\ DOMAIN v = 1..Len(v)
    OBVIOUS
  <2>2. /\ w \in Seq(0..15) /\ Len(w) = Len(u) + Len(v) /\ DOMAIN w = 1..Len(u) + Len(v)
        /\ \A k \in 1..Len(u) + Len(v) : w[k] = IF k <= Len(u) THEN u[k] ELSE v[k - Len(u)]
    OBVIOUS
  <2> DEFINE M == Len(u)
             N == Len(v)
             C == {c(x) : x \in 0..15}
  <2>3. \A k \in 1..M : u[k] \in 0..15 BY SMTT(30)
  <2>4. \A k \in 1..N : v[k] \in 0..15 BY SMTT(30)
  <2>5. U = [k \in 1..M |-> c(u[k])] /\ V = [k \in 1..N |-> c(v[k])] BY <2>1
  <2> HIDE DEF w, M, N
  <2>6. M \in Nat /\ N \in Nat BY <2>1 DEF M, N
  <2>a. \A k \in 1..M : c(u[k]) \in C BY <2>3
  <2>b. \A k \in 1..N : c(v[k]) \in C BY <2>4
  <2> HIDE DEF U, V, C
  <2>c. U \in [1..M -> C] /\ (\A k \in 1..M : U[k] = c(u[k])) BY <2>5, <2>a, Zenon
  <2>d. V \in [1..N -> C] /\ (\A k \in 1..N : V[k] = c(v[k])) BY <2>5, <2>b, Zenon
  <2>7. U \in Seq(C) /\ Len(U) = M /\ (\A k \in 1..M : U[k] = c(u[k])) BY <2>6, <2>c, FunctionSeq
  <2>8. V \in Seq(C) /\ Len(V) = N /\ (\A k \in 1..N : V[k] = c(v[k])) BY <2>6, <2>d, FunctionSeq
  <2> DEFINE X == U \o V
  <2>9. /\ X \in Seq(C) /\ Len(X) = M + N
        /\ \A k \in 1..M + N : X[k] = IF k <= M THEN U[k] ELSE V[k - M]
    <3>1. /\ X \in Seq(C) /\ Len(X) = Len(U) + Len(V)
          /\ \A k \in 1..Len(U) + Len(V) : X[k] = IF k <= Len(U) THEN U[k] ELSE V[k - Len(U)]
      BY <2>7, <2>8, ConcatProperties, Zenon
    <3> HIDE DEF X
    <3>2. QED BY <2>7, <2>8, <3>1
  <2> HIDE DEF X
  <2>10. ASSUME NEW k \in 1..M + N PROVE X[k] = c(w[k])
    <3>1. CASE k <= M
      <4>1. k \in 1..M BY <2>6, <3>1
      <4>2. X[k] = U[k] /\ w[k] = u[k] BY <2>2, <2>9, <3>1 DEF M, N
      <4>3. QED BY <2>7, <4>1, <4>2
    <3>2. CASE ~(k <= M)
      <4>1. k - M \in 1..N BY <2>6, <3>2
      <4>2. X[k] = V[k - M] /\ w[k] = v[k - M] BY <2>2, <2>9, <3>2 DEF M, N
      <4>3. QED BY <2>8, <4>1, <4>2
    <3>3. QED BY <3>1, <3>2
  <2>11. X = [k \in 1..M + N |-> X[k]] BY <2>6, <2>9
  <2>12. X = [k \in 1..M + N |-> c(w[k])] BY <2>10, <2>11
  <2>13. QED BY <2>2, <2>12 DEF X, M, N
<1>3. QED BY <1>1, <1>2 DEF Reads, c

\* What is printed without digits.
LEMMA ReadsBlank ==
  ASSUME NEW m \in Nat, NEW x \in {Space, Letter}, NEW t, t = [k \in 1..m |-> x]
  PROVE  t \in Seq(Int) /\ Len(t) = m /\ Reads(t, <<>>)
<1>1. x \in Int BY DEF Space, Letter
<1>2. t \in Seq(Int) /\ Len(t) = m /\ \A k \in 1..m : t[k] = x BY <1>1
<1>3. Without(t, {Space, Letter}) = <<>> BY <1>2, WithoutAll
<1>4. [k \in DOMAIN <<>> |-> Codes[<<>>[k] + 1]] = <<>> OBVIOUS
<1>5. QED BY <1>2, <1>3, <1>4 DEF Reads, Read

LEMMA ReadsByte ==
  ASSUME NEW b \in 0..255
  PROVE  /\ print_byte(b) \in Seq(Int) /\ Len(print_byte(b)) = 2
         /\ Nibbles(b, 2) \in Seq(0..15) /\ Reads(print_byte(b), Nibbles(b, 2))
<1> DEFINE x == b \div 16
           y == b % 16
           s == <<x, y>>
           t == <<Digit(x), Digit(y)>>
<1>1. x \in 0..15 /\ y \in 0..15 BY SMT
<1>2. Nibbles(b, 2) = s
  <2>1. (b \div 16^(2 - 1)) % 16 = x BY SMT
  <2>2. (b \div 16^(2 - 2)) % 16 = y BY SMT
  <2> HIDE DEF x, y
  <2>3. \A k \in 1..2 : k = 1 \/ k = 2 OBVIOUS
  <2>a. s[1] = x /\ s[2] = y OBVIOUS
  <2>4. \A k \in 1..2 : (b \div 16^(2 - k)) % 16 = s[k] BY <2>1, <2>2, <2>3, <2>a, Zenon
  <2>5. s = [k \in 1..2 |-> s[k]] OBVIOUS
  <2> HIDE DEF s
  <2>6. QED BY <2>4, <2>5, Zenon DEF Nibbles
<1>3. t = print_byte(b) BY DEF print_byte
<1> HIDE DEF x, y
<1>4. /\ Digit(x) = Codes[x + 1] /\ Digit(x) \in Int /\ Digit(x) \notin {Space, Letter}
      /\ Digit(y) = Codes[y + 1] /\ Digit(y) \in Int /\ Digit(y) \notin {Space, Letter}
  BY <1>1, DigitCodes, Zenon
<1>5. t \in Seq(Int) /\ Len(t) = 2 BY <1>4
<1>6. \A k \in 1..Len(t) : t[k] \notin {Space, Letter}
  <2>1. \A k \in 1..Len(t) : k = 1 \/ k = 2 BY <1>5
  <2>2. QED BY <1>4, <2>1
<1>7. Without(t, {Space, Letter}) = t BY <1>5, <1>6, WithoutNone, Zenon
<1>8. s \in Seq(0..15) /\ DOMAIN s = 1..2 BY <1>1
<1>9. t = [k \in 1..2 |-> Codes[s[k] + 1]]
  <2>1. t = [k \in 1..2 |-> t[k]] BY <1>5
  <2>2. \A k \in 1..2 : k = 1 \/ k = 2 OBVIOUS
  <2>3. \A k \in 1..2 : t[k] = Codes[s[k] + 1] BY <1>4, <2>2
  <2> HIDE DEF t, s
  <2>4. QED BY <2>1, <2>3, Zenon
<1>10. Reads(t, s) BY <1>7, <1>8, <1>9, Zenon DEF Reads, Read
<1>11. QED BY <1>2, <1>3, <1>5, <1>8, <1>10, ZenonT(30)

Glued(a, b, c) == c = a \o b

LEMMA Glue ==
  ASSUME NEW T, NEW a \in Seq(T), NEW b \in Seq(T), NEW c \in Seq(T), Len(c) = Len(a) + Len(b),
         \A k \in 1..Len(a) : c[k] = a[k], \A k \in 1..Len(b) : c[Len(a) + k] = b[k]
  PROVE  Glued(a, b, c)
<1> DEFINE d == a \o b
<1>1. /\ d \in Seq(T) /\ Len(d) = Len(a) + Len(b)
      /\ \A k \in 1..Len(a) + Len(b) : d[k] = IF k <= Len(a) THEN a[k] ELSE b[k - Len(a)]
  BY ConcatProperties, Zenon
<1> HIDE DEF d
<1>2. Len(a) \in Nat /\ Len(b) \in Nat OBVIOUS
<1>3. ASSUME NEW k \in 1..Len(c) PROVE c[k] = d[k]
  <2>1. CASE k <= Len(a) BY <1>1, <1>2, <2>1
  <2>2. CASE ~(k <= Len(a))
    <3>1. k - Len(a) \in 1..Len(b) /\ Len(a) + (k - Len(a)) = k BY <1>2, <2>2
    <3>2. d[k] = b[k - Len(a)] BY <1>1, <2>2
    <3>3. c[Len(a) + (k - Len(a))] = b[k - Len(a)] BY <3>1, Zenon
    <3>4. QED BY <3>1, <3>2, <3>3
  <2>3. QED BY <2>1, <2>2
<1>4. Len(c) = Len(d) BY <1>1
<1>5. c = d BY <1>1, <1>3, <1>4, SeqEqual
<1>6. QED BY <1>5 DEF d, Glued

LEMMA NibblesType ==
  ASSUME NEW d \in Nat, NEW m \in {2, 4, 8}
  PROVE  Nibbles(d, m) \in Seq(0..15) /\ Len(Nibbles(d, m)) = m
<1> DEFINE f == [k \in 1..m |-> (d \div 16^(m - k)) % 16]
<1>1. ASSUME NEW k \in 1..m PROVE (d \div 16^(m - k)) % 16 \in 0..15
  <2> DEFINE j == m - k
             p == 16^j
             q == d \div p
  <2>1. j = 0 \/ j = 1 \/ j = 2 \/ j = 3 \/ j = 4 \/ j = 5 \/ j = 6 \/ j = 7 BY SMT
  <2> HIDE DEF j
  <2>2. /\ 16^0 \in Nat \ {0} /\ 16^1 \in Nat \ {0} /\ 16^2 \in Nat \ {0} /\ 16^3 \in Nat \ {0}
        /\ 16^4 \in Nat \ {0} /\ 16^5 \in Nat \ {0} /\ 16^6 \in Nat \ {0} /\ 16^7 \in Nat \ {0}
    BY SMT
  <2>a. p \in Nat \ {0} BY <2>1, <2>2, Zenon
  <2> HIDE DEF p
  <2>3. q \in Nat BY <2>a, SMT
  <2> HIDE DEF q
  <2>4. q % 16 \in 0..15 BY <2>3
  <2>5. QED BY <2>4 DEF q, p, j
<1>2. f \in [1..m -> 0..15] BY <1>1
<1>3. m \in Nat OBVIOUS
<1> HIDE DEF f
<1>4. f \in Seq(0..15) /\ Len(f) = m BY <1>2, <1>3, FunctionSeq
<1>5. QED BY <1>4 DEF f, Nibbles

Words  == {w \in Nat : w < 65536}
Dwords == {d \in Nat : d < 4294967296}

\* The digits of a value are those of its halves.
LEMMA NibblesWord ==
  ASSUME NEW d \in Nat
  PROVE  Glued(Nibbles(d \div 256, 2), Nibbles(d % 256, 2), Nibbles(d, 4))
<1> DEFINE u == d \div 256
           v == d % 256
<1>1. u \in Nat /\ v \in Nat OBVIOUS
<1>2. /\ (d \div 16^(4 - 1)) % 16 = (u \div 16^(2 - 1)) % 16
      /\ (d \div 16^(4 - 2)) % 16 = (u \div 16^(2 - 2)) % 16
  BY SMT
<1>3. /\ (d \div 16^(4 - 3)) % 16 = (v \div 16^(2 - 1)) % 16
      /\ (d \div 16^(4 - 4)) % 16 = (v \div 16^(2 - 2)) % 16
  BY SMT
<1> HIDE DEF u, v
<1> DEFINE a == Nibbles(u, 2)
           b == Nibbles(v, 2)
           c == Nibbles(d, 4)
<1>4. a \in Seq(0..15) /\ Len(a) = 2 /\ b \in Seq(0..15) /\ Len(b) = 2 /\ c \in Seq(0..15) /\ Len(c) = 4
  BY <1>1, NibblesType
<1>5. /\ a[1] = (u \div 16^(2 - 1)) % 16 /\ a[2] = (u \div 16^(2 - 2)) % 16
      /\ b[1] = (v \div 16^(2 - 1)) % 16 /\ b[2] = (v \div 16^(2 - 2)) % 16
      /\ c[1] = (d \div 16^(4 - 1)) % 16 /\ c[2] = (d \div 16^(4 - 2)) % 16
      /\ c[3] = (d \div 16^(4 - 3)) % 16 /\ c[4] = (d \div 16^(4 - 4)) % 16
  BY SMT DEF Nibbles
<1> HIDE DEF a, b, c
<1>6. c[1] = a[1] BY <1>2, <1>5, Zenon
<1>7. c[2] = a[2] BY <1>2, <1>5, Zenon
<1>8. c[3] = b[1] BY <1>3, <1>5, Zenon
<1>9. c[4] = b[2] BY <1>3, <1>5, Zenon
<1>10. \A k \in 1..2 : c[k] = a[k] BY <1>6, <1>7
<1>11. \A k \in 1..2 : c[2 + k] = b[k] BY <1>8, <1>9
<1>12. Glued(a, b, c)
  <2>1. Len(c) = Len(a) + Len(b) BY <1>4
  <2>2. (\A k \in 1..Len(a) : c[k] = a[k]) /\ (\A k \in 1..Len(b) : c[Len(a) + k] = b[k])
    BY <1>4, <1>10, <1>11
  <2>3. QED BY <1>4, <2>1, <2>2, Glue, Zenon
<1>13. QED BY <1>12 DEF a, b, c, u, v

LEMMA TopDigit == ASSUME NEW d \in Nat PROVE (d \div 16^(8 - 1)) % 16 = ((d \div 65536) \div 16^(4 - 1)) % 16
<1> DEFINE u == d \div 65536
           t == u \div 4096
           v == d \div 268435456
<1>1. u \in Nat /\ 65536 * u <= d /\ d < 65536 * u + 65536 BY SMT
<1>2. d \div 16^(8 - 1) = v BY SMT
<1> HIDE DEF u
<1>3. t \in Nat /\ 4096 * t <= u /\ u < 4096 * t + 4096 BY <1>1, SMT
<1>4. u \div 16^(4 - 1) = t BY <1>1, SMT
<1> HIDE DEF t
<1>5. v \in Nat /\ 268435456 * v <= d /\ d < 268435456 * v + 268435456 BY SMT
<1> HIDE DEF v
<1>6. v = t BY <1>1, <1>3, <1>5, SMT
<1> DEFINE p == 16^(8 - 1)
           q == 16^(4 - 1)
<1>7. d \div p = v /\ u \div q = t BY <1>2, <1>4
<1> HIDE DEF p, q
<1>8. (d \div p) % 16 = (u \div q) % 16 BY <1>6, <1>7, Zenon
<1>9. QED BY <1>8 DEF u, p, q

LEMMA NibblesDword ==
  ASSUME NEW d \in Nat
  PROVE  Glued(Nibbles(d \div 65536, 4), Nibbles(d % 65536, 4), Nibbles(d, 8))
<1> DEFINE u == d \div 65536
           v == d % 65536
<1>1. u \in Nat /\ v \in Nat BY SMT
<1>a. (d \div 16^(8 - 1)) % 16 = (u \div 16^(4 - 1)) % 16 BY TopDigit, SMT
<1>b. /\ (d \div 16^(8 - 2)) % 16 = (u \div 16^(4 - 2)) % 16
      /\ (d \div 16^(8 - 3)) % 16 = (u \div 16^(4 - 3)) % 16
      /\ (d \div 16^(8 - 4)) % 16 = (u \div 16^(4 - 4)) % 16
  BY SMT
<1>3. /\ (d \div 16^(8 - 5)) % 16 = (v \div 16^(4 - 1)) % 16
      /\ (d \div 16^(8 - 6)) % 16 = (v \div 16^(4 - 2)) % 16
      /\ (d \div 16^(8 - 7)) % 16 = (v \div 16^(4 - 3)) % 16
      /\ (d \div 16^(8 - 8)) % 16 = (v \div 16^(4 - 4)) % 16
  BY SMT
<1> HIDE DEF u, v
<1> DEFINE a == Nibbles(u, 4)
           b == Nibbles(v, 4)
           c == Nibbles(d, 8)
<1>4. a \in Seq(0..15) /\ Len(a) = 4 /\ b \in Seq(0..15) /\ Len(b) = 4 /\ c \in Seq(0..15) /\ Len(c) = 8
  BY <1>1, NibblesType
<1>5. /\ a[1] = (u \div 16^(4 - 1)) % 16 /\ a[2] = (u \div 16^(4 - 2)) % 16
      /\ a[3] = (u \div 16^(4 - 3)) % 16 /\ a[4] = (u \div 16^(4 - 4)) % 16
      /\ b[1] = (v \div 16^(4 - 1)) % 16 /\ b[2] = (v \div 16^(4 - 2)) % 16
      /\ b[3] = (v \div 16^(4 - 3)) % 16 /\ b[4] = (v \div 16^(4 - 4)) % 16
  BY SMT DEF Nibbles
<1>6. /\ c[1] = (d \div 16^(8 - 1)) % 16 /\ c[2] = (d \div 16^(8 - 2)) % 16
      /\ c[3] = (d \div 16^(8 - 3)) % 16 /\ c[4] = (d \div 16^(8 - 4)) % 16
      /\ c[5] = (d \div 16^(8 - 5)) % 16 /\ c[6] = (d \div 16^(8 - 6)) % 16
      /\ c[7] = (d \div 16^(8 - 7)) % 16 /\ c[8] = (d \div 16^(8 - 8)) % 16
  BY SMT DEF Nibbles
<1> HIDE DEF a, b, c
<1>7. c[1] = a[1] /\ c[2] = a[2] /\ c[3] = a[3] /\ c[4] = a[4] BY <1>a, <1>b, <1>5, <1>6, Zenon
<1>8. c[5] = b[1] /\ c[6] = b[2] /\ c[7] = b[3] /\ c[8] = b[4] BY <1>3, <1>5, <1>6, ZenonT(30)
<1>9. \A k \in 1..4 : c[k] = a[k] BY <1>7
<1>10. \A k \in 1..4 : c[4 + k] = b[k] BY <1>8
<1>11. Glued(a, b, c)
  <2>1. Len(c) = Len(a) + Len(b) BY <1>4
  <2>2. (\A k \in 1..Len(a) : c[k] = a[k]) /\ (\A k \in 1..Len(b) : c[Len(a) + k] = b[k])
    BY <1>4, <1>9, <1>10
  <2>3. QED BY <1>4, <2>1, <2>2, Glue, Zenon
<1>12. QED BY <1>11 DEF a, b, c, u, v

LEMMA ReadsWord ==
  ASSUME NEW w \in Words
  PROVE  /\ print_word(w) \in Seq(Int) /\ Len(print_word(w)) = 4
         /\ Reads(print_word(w), Nibbles(w, 4))
<1> DEFINE u == w \div 256
           v == w % 256
           a == print_byte(u)
           b == print_byte(v)
<1>1. w \in Nat BY SMT DEF Words
<1>2. u \in 0..255 /\ v \in 0..255 BY SMT DEF Words
<1>3. Glued(Nibbles(u, 2), Nibbles(v, 2), Nibbles(w, 4)) BY <1>1, NibblesWord
<1>4. print_word(w) = a \o b BY DEF print_word
<1> HIDE DEF u, v
<1>5. /\ a \in Seq(Int) /\ Len(a) = 2 /\ Nibbles(u, 2) \in Seq(0..15) /\ Reads(a, Nibbles(u, 2))
      /\ b \in Seq(Int) /\ Len(b) = 2 /\ Nibbles(v, 2) \in Seq(0..15) /\ Reads(b, Nibbles(v, 2))
  BY <1>2, ReadsByte, Zenon
<1> HIDE DEF a, b
<1>a. a \o b \in Seq(Int) /\ Len(a \o b) = Len(a) + Len(b) BY <1>5, ConcatProperties, Zenon
<1>6. a \o b \in Seq(Int) /\ Len(a \o b) = 4 BY <1>5, <1>a
<1>7. Reads(a \o b, Nibbles(u, 2) \o Nibbles(v, 2)) BY <1>5, ReadsConcat
<1>8. QED BY <1>3, <1>4, <1>6, <1>7, Zenon DEF Glued

LEMMA ReadsDword ==
  ASSUME NEW d \in Dwords
  PROVE  /\ print_dword(d) \in Seq(Int) /\ Len(print_dword(d)) = 8
         /\ Nibbles(d, 8) \in Seq(0..15) /\ Reads(print_dword(d), Nibbles(d, 8))
<1> DEFINE u == d \div 65536
           v == d % 65536
           a == print_word(u)
           b == print_word(v)
<1>1. d \in Nat BY SMT DEF Dwords
<1>2. u \in Words /\ v \in Words /\ u \in Nat /\ v \in Nat BY SMT DEF Words, Dwords
<1>3. Glued(Nibbles(u, 4), Nibbles(v, 4), Nibbles(d, 8)) BY <1>1, NibblesDword, SMT
<1>4. print_dword(d) = a \o b BY SMT DEF print_dword
<1> HIDE DEF u, v
<1>5. /\ a \in Seq(Int) /\ Len(a) = 4 /\ Reads(a, Nibbles(u, 4))
      /\ b \in Seq(Int) /\ Len(b) = 4 /\ Reads(b, Nibbles(v, 4))
  BY <1>2, ReadsWord, Zenon
<1>6. Nibbles(u, 4) \in Seq(0..15) /\ Nibbles(v, 4) \in Seq(0..15) /\ Nibbles(d, 8) \in Seq(0..15)
  BY <1>1, <1>2, NibblesType
<1> HIDE DEF a, b
<1>a. a \o b \in Seq(Int) /\ Len(a \o b) = Len(a) + Len(b) BY <1>5, ConcatProperties, Zenon
<1>7. a \o b \in Seq(Int) /\ Len(a \o b) = 8 BY <1>5, <1>a
<1>8. Reads(a \o b, Nibbles(u, 4) \o Nibbles(v, 4)) BY <1>5, <1>6, ReadsConcat
<1>9. QED BY <1>3, <1>4, <1>6, <1>7, <1>8, Zenon DEF Glued

\* Any 32 bits that print_dword is given are read from the screen as their
\* eight hex digits, the highest first.
THEOREM HexDigitsRight == \A d \in Dwords : Reads(print_dword(d), Nibbles(d, 8))
BY ReadsDword

\* A text of m characters with the digits of u in it.
Text(t, u, m) == t \in Seq(Int) /\ Len(t) = m /\ u \in Seq(0..15) /\ Reads(t, u)

LEMMA TextJoin ==
  ASSUME NEW m \in Nat, NEW p \in Nat, NEW t, NEW u, Text(t, u, m), NEW v, NEW w, Text(v, w, p)
  PROVE  Text(t \o v, u \o w, m + p)
<1>1. /\ t \in Seq(Int) /\ Len(t) = m /\ u \in Seq(0..15) /\ Reads(t, u)
      /\ v \in Seq(Int) /\ Len(v) = p /\ w \in Seq(0..15) /\ Reads(v, w)
  BY DEF Text
<1>2. t \o v \in Seq(Int) /\ Len(t \o v) = m + p
  <2>1. t \o v \in Seq(Int) /\ Len(t \o v) = Len(t) + Len(v) BY <1>1, ConcatProperties, Zenon
  <2>2. QED BY <1>1, <2>1
<1>3. u \o w \in Seq(0..15)  BY <1>1, ConcatProperties, Zenon
<1>4. Reads(t \o v, u \o w) BY <1>1, ReadsConcat
<1>5. QED BY <1>2, <1>3, <1>4 DEF Text

LEMMA TextBlank ==
  ASSUME NEW m \in Nat
  PROVE  Text(print_string(m), <<>>, m) /\ Text(print_space(m), <<>>, m)
<1>1. <<>> \in Seq(0..15) OBVIOUS
<1>2. Letter \in {Space, Letter} /\ Space \in {Space, Letter} OBVIOUS
<1>3. print_string(m) = [k \in 1..m |-> Letter] BY DEF print_string
<1>4. print_space(m) = [k \in 1..m |-> Space] BY DEF print_space
<1>5. Text(print_string(m), <<>>, m)
  <2> DEFINE t == print_string(m)
  <2> HIDE DEF t
  <2>1. t = [k \in 1..m |-> Letter] BY <1>3 DEF t
  <2>2. t \in Seq(Int) /\ Len(t) = m /\ Reads(t, <<>>) BY <1>2, <2>1, ReadsBlank
  <2>3. QED BY <1>1, <2>2 DEF Text, t
<1>6. Text(print_space(m), <<>>, m)
  <2> DEFINE t == print_space(m)
  <2> HIDE DEF t
  <2>1. t = [k \in 1..m |-> Space] BY <1>4 DEF t
  <2>2. t \in Seq(Int) /\ Len(t) = m /\ Reads(t, <<>>) BY <1>2, <2>1, ReadsBlank
  <2>3. QED BY <1>1, <2>2 DEF Text, t
<1>7. QED BY <1>5, <1>6

\* Blanks behind a text, and before one.
LEMMA TextPadded ==
  ASSUME NEW m \in Nat, NEW p \in Nat, NEW t, NEW u, Text(t, u, m), NEW v, Text(v, <<>>, p)
  PROVE  Text(t \o v, u, m + p) /\ Text(v \o t, u, p + m)
<1>1. Text(t \o v, u \o <<>>, m + p) /\ Text(v \o t, <<>> \o u, p + m) BY TextJoin
<1>2. u \in Seq(0..15) BY DEF Text
<1>3. u \o <<>> = u /\ <<>> \o u = u BY <1>2, ConcatEmptySeq
<1>4. QED BY <1>1, <1>3, Zenon

LEMMA TextByte == ASSUME NEW b \in 0..255 PROVE Text(print_byte(b), Nibbles(b, 2), 2)
BY ReadsByte, Zenon DEF Text

LEMMA TextDword == ASSUME NEW d \in Dwords PROVE Text(print_dword(d), Nibbles(d, 8), 8)
BY ReadsDword, Zenon DEF Text

-----------------------------------------------------------------------------
(* Rows.                                                                    *)

End(w) == w.at + Len(w.text)

\* A row that is intact as long as nothing is written over it.
Written == {w \in [at : Nat, text : Seq(Int), says : Seq(0..15)] :
              /\ Reads(w.text, w.says)
              /\ w.at \div VGA_WIDTH = (End(w) - 1) \div VGA_WIDTH /\ End(w) <= Window
              /\ \A c \in Counters : c \notin Cells(w)}

\* A row of its own: what is written has its first column and m columns of it.
OnRow(w, r, m) ==
  w \in Written /\ w.at = r * VGA_WIDTH /\ End(w) = r * VGA_WIDTH + m

LEMMA RowWritten ==
  ASSUME NEW r \in Nat, NEW m \in 1..VGA_WIDTH, r >= 2 \/ m <= 78,
         r * VGA_WIDTH + m <= Window, NEW t, NEW u, Text(t, u, m),
         NEW w, w = [at |-> r * VGA_WIDTH, text |-> t, says |-> u]
  PROVE  OnRow(w, r, m)
<1>1. t \in Seq(Int) /\ Len(t) = m /\ u \in Seq(0..15) /\ Reads(t, u) BY DEF Text
<1>2. r * VGA_WIDTH \in Nat BY DEF VGA_WIDTH
<1> DEFINE a == r * VGA_WIDTH
<1>3. a \in Nat BY <1>2
<1>4. a \div VGA_WIDTH = (a + m - 1) \div VGA_WIDTH BY SMT DEF VGA_WIDTH
<1>5. \A c \in Counters : ~(a <= c /\ c <= a + m - 1) BY SMT DEF Counters, VGA_WIDTH
<1>6. a + m <= Window OBVIOUS
<1> HIDE DEF a
<1>7. w = [at |-> a, text |-> t, says |-> u] BY DEF a
<1>8. w \in [at : Nat, text : Seq(Int), says : Seq(0..15)] BY <1>1, <1>3, <1>7
<1>9. w.at = a /\ w.text = t /\ w.says = u BY <1>7
<1>10. End(w) = a + m BY <1>1, <1>9 DEF End
<1>11. \A c \in Counters : c \notin Cells(w)
  <2>1. m \in Nat BY DEF VGA_WIDTH
  <2>2. Cells(w) = a..a + m - 1 BY <1>1, <1>9 DEF Cells
  <2>3. QED BY <1>3, <1>5, <2>1, <2>2
<1>12. w \in Written
  <2>0. End(w) <= Window BY <1>6, <1>10
  <2> DEFINE e == End(w)
  <2>a. e = a + m BY <1>10
  <2> HIDE DEF e
  <2>b. w.at \div VGA_WIDTH = (e - 1) \div VGA_WIDTH BY <1>3, <1>4, <1>9, <2>a, SMT DEF VGA_WIDTH
  <2>1. w.at \div VGA_WIDTH = (End(w) - 1) \div VGA_WIDTH /\ End(w) <= Window BY <2>0, <2>b DEF e
  <2>2. Reads(w.text, w.says) BY <1>1, <1>9
  <2>3. QED BY <1>8, <1>11, <2>1, <2>2, Zenon DEF Written
<1>13. QED BY <1>9, <1>10, <1>12 DEF a, OnRow

\* Rows one below the other, from row r on.
Block(b, r) ==
  /\ b \in Seq(Written)
  /\ \A k \in 1..Len(b) : b[k].at = (r + k - 1) * VGA_WIDTH /\ End(b[k]) <= (r + k) * VGA_WIDTH

LEMMA RowsBlock ==
  ASSUME NEW s \in Seq(Nat \X Nat), \A k \in 1..Len(s) : s[k][1] + s[k][2] \in 1..VGA_WIDTH,
         NEW r \in Nat, r >= 2, (r + Len(s)) * VGA_WIDTH <= Window
  PROVE  /\ Block(Rows(s, r * VGA_WIDTH), r) /\ Len(Rows(s, r * VGA_WIDTH)) = Len(s)
         /\ Behind(s, r * VGA_WIDTH) = (r + Len(s)) * VGA_WIDTH
<1> DEFINE b == Rows(s, r * VGA_WIDTH)
           N == Len(s)
           row(k) == [at   |-> IF k = 1 THEN r * VGA_WIDTH ELSE ((r * VGA_WIDTH) \div VGA_WIDTH + k - 1) * VGA_WIDTH,
                      text |-> print_string(s[k][1]) \o print_string(s[k][2]), says |-> <<>>]
<1>1. N \in Nat /\ DOMAIN s = 1..N OBVIOUS
<1>2. b = [k \in 1..N |-> row(k)] BY <1>1, Zenon DEF Rows
<1>3. (r * VGA_WIDTH) \div VGA_WIDTH = r BY SMT DEF VGA_WIDTH
<1>4. ASSUME NEW k \in 1..N
      PROVE  /\ row(k) \in Written /\ row(k).at = (r + k - 1) * VGA_WIDTH
             /\ End(row(k)) <= (r + k) * VGA_WIDTH
  <2> DEFINE l == s[k][1]
             d == s[k][2]
             m == l + d
             q == r + k - 1
             t == print_string(l) \o print_string(d)
             w == row(k)
  <2>1. l \in Nat /\ d \in Nat OBVIOUS
  <2>2. m \in 1..VGA_WIDTH OBVIOUS
  <2> HIDE DEF l, d
  <2>3. q \in Nat /\ q >= 2 /\ k \in Nat BY <1>1
  <2>4. q * VGA_WIDTH + m <= Window /\ q * VGA_WIDTH + m <= (r + k) * VGA_WIDTH
    <3>1. (r + k) * VGA_WIDTH <= (r + N) * VGA_WIDTH BY <1>1, <2>3, SMT DEF VGA_WIDTH
    <3>a. m \in Nat /\ m <= VGA_WIDTH BY <2>1, <2>2 DEF VGA_WIDTH
    <3> HIDE DEF m
    <3>2. q * VGA_WIDTH + m <= (r + k) * VGA_WIDTH BY <1>1, <2>3, <3>a, SMT DEF VGA_WIDTH
    <3>3. Window \in Nat BY SMT DEF Window
    <3>4. QED BY <1>1, <2>3, <3>1, <3>2, <3>3, <3>a, SMT DEF VGA_WIDTH
  <2>5. Text(t, <<>>, m) BY <2>1, TextBlank, TextPadded
  <2>6. w = [at |-> q * VGA_WIDTH, text |-> t, says |-> <<>>]
    <3>1. (IF k = 1 THEN r * VGA_WIDTH ELSE (r + k - 1) * VGA_WIDTH) = q * VGA_WIDTH
      BY <2>3, SMT DEF VGA_WIDTH
    <3>2. QED BY <1>3, <3>1, Zenon DEF l, d
  <2> HIDE DEF m, q, t, w
  <2>7. OnRow(w, q, m)
    <3>1. q \in Nat /\ (q >= 2 \/ m <= 78) BY <2>3
    <3>2. QED BY <2>2, <2>4, <2>5, <2>6, <3>1, RowWritten, Zenon
  <2>8. End(w) <= (r + k) * VGA_WIDTH BY <2>4, <2>7 DEF OnRow
  <2>9. QED BY <2>7, <2>8, Zenon DEF w, q, OnRow
<1> HIDE DEF row, b
<1>5. b \in Seq(Written) /\ Len(b) = N
  <2>1. b \in [1..N -> Written] BY <1>2, <1>4
  <2>2. QED BY <1>1, <2>1, FunctionSeq
<1>6. \A k \in 1..N : b[k] = row(k) BY <1>2
<1>7. Block(b, r) BY <1>4, <1>5, <1>6 DEF Block
<1>8. Behind(s, r * VGA_WIDTH) = (r + N) * VGA_WIDTH BY <1>3, Zenon DEF Behind
<1>9. QED BY <1>5, <1>7, <1>8 DEF b

LEMMA Joined ==
  ASSUME NEW T, NEW s \in Seq(T), NEW b \in Seq(T), NEW c, Glued(s, b, c)
  PROVE  /\ c \in Seq(T) /\ Len(c) = Len(s) + Len(b)
         /\ \A k \in 1..Len(s) : c[k] = s[k]
         /\ \A k \in 1..Len(c) : \/ k \in 1..Len(s) /\ c[k] = s[k]
                                 \/ k > Len(s) /\ k - Len(s) \in 1..Len(b) /\ c[k] = b[k - Len(s)]
<1>1. /\ c \in Seq(T) /\ Len(c) = Len(s) + Len(b)
      /\ \A k \in 1..Len(s) + Len(b) : c[k] = IF k <= Len(s) THEN s[k] ELSE b[k - Len(s)]
  <2> DEFINE d == s \o b
  <2>1. /\ d \in Seq(T) /\ Len(d) = Len(s) + Len(b)
        /\ \A k \in 1..Len(s) + Len(b) : d[k] = IF k <= Len(s) THEN s[k] ELSE b[k - Len(s)]
    BY ConcatProperties, Zenon
  <2>2. c = d BY DEF Glued
  <2> HIDE DEF d
  <2>3. QED BY <2>1, <2>2
<1>2. Len(s) \in Nat /\ Len(b) \in Nat OBVIOUS
<1>3. QED BY <1>1, <1>2

LEMMA AppendJoins == ASSUME NEW T, NEW s \in Seq(T), NEW w \in T PROVE Glued(s, <<w>>, Append(s, w))
BY DEF Glued

\* Each is behind those before it, but for the exceptions.
Stacked(s, except) == \A k, j \in 1..Len(s) : k < j => k \in except \/ End(s[k]) <= s[j].at

\* All of it, but for the exceptions, is above row r.
Above(s, except, r) == \A k \in 1..Len(s) : k \in except \/ End(s[k]) <= r * VGA_WIDTH

LEMMA AboveJoin ==
  ASSUME NEW s \in Seq(Written), NEW X, NEW q \in Nat, Above(s, X, q),
         NEW b, NEW r \in Nat, Block(b, r), r + Len(b) <= q, NEW c, Glued(s, b, c)
  PROVE  Above(c, X, q)
<1>1. b \in Seq(Written) /\ Len(b) \in Nat BY DEF Block
<1>2. /\ Len(c) = Len(s) + Len(b)
      /\ \A k \in 1..Len(c) : \/ k \in 1..Len(s) /\ c[k] = s[k]
                              \/ k > Len(s) /\ k - Len(s) \in 1..Len(b) /\ c[k] = b[k - Len(s)]
  BY <1>1, Joined
<1>3. ASSUME NEW k \in 1..Len(c) PROVE k \in X \/ End(c[k]) <= q * VGA_WIDTH
  <2>1. CASE k \in 1..Len(s) /\ c[k] = s[k] BY <2>1, Zenon DEF Above
  <2>2. CASE k - Len(s) \in 1..Len(b) /\ c[k] = b[k - Len(s)]
    <3> DEFINE j == k - Len(s)
    <3>1. j \in 1..Len(b) /\ c[k] = b[j] BY <2>2
    <3> HIDE DEF j
    <3>2. b[j].at = (r + j - 1) * VGA_WIDTH /\ End(b[j]) <= (r + j) * VGA_WIDTH
      BY <3>1, Zenon DEF Block
    <3>3. j \in Nat /\ r + j <= q BY <1>1, <3>1
    <3>4. (r + j) * VGA_WIDTH <= q * VGA_WIDTH BY <3>3, SMT DEF VGA_WIDTH
    <3> DEFINE w == b[j]
    <3>5. w \in Written BY <1>1, <3>1
    <3> HIDE DEF w
    <3>6. End(w) \in Int BY <3>5, SMT DEF End, Written
    <3>7. End(w) <= q * VGA_WIDTH BY <3>2, <3>3, <3>4, <3>6, SMT DEF w, VGA_WIDTH
    <3>8. QED BY <3>1, <3>7 DEF w
  <2>3. QED BY <1>2, <2>1, <2>2, Zenon
<1>4. QED BY <1>3 DEF Above

LEMMA WrittenTypes ==
  ASSUME NEW w \in Written
  PROVE  /\ w.at \in Nat /\ Len(w.text) \in Nat /\ End(w) \in Nat /\ w.at <= End(w)
         /\ w.text \in Seq(Int) /\ w.says \in Seq(0..15)
<1>1. w \in [at : Nat, text : Seq(Int), says : Seq(0..15)] BY Zenon DEF Written
<1>2. w.at \in Nat /\ w.text \in Seq(Int) /\ w.says \in Seq(0..15) BY <1>1
<1>3. Len(w.text) \in Nat BY <1>2
<1>4. QED BY <1>2, <1>3 DEF End

\* A block put behind a pile makes a higher one.
LEMMA Pile ==
  ASSUME NEW s \in Seq(Written), NEW X, NEW r \in Nat, Stacked(s, X), Above(s, X, r),
         NEW b, Block(b, r), NEW c, Glued(s, b, c)
  PROVE  c \in Seq(Written) /\ Stacked(c, X)
<1>1. b \in Seq(Written) /\ Len(b) \in Nat /\ Len(s) \in Nat BY DEF Block
<1>2. /\ c \in Seq(Written)
      /\ Len(c) = Len(s) + Len(b)
      /\ \A k \in 1..Len(c) : \/ k \in 1..Len(s) /\ c[k] = s[k]
                              \/ k > Len(s) /\ k - Len(s) \in 1..Len(b) /\ c[k] = b[k - Len(s)]
  BY <1>1, Joined
<1>3. ASSUME NEW j \in 1..Len(b) PROVE b[j].at = (r + j - 1) * VGA_WIDTH /\ End(b[j]) <= (r + j) * VGA_WIDTH
  BY Zenon DEF Block
<1>4. ASSUME NEW k \in 1..Len(c), NEW j \in 1..Len(c), k < j
      PROVE  k \in X \/ End(c[k]) <= c[j].at
  <2>0. c[k] \in Written /\ c[j] \in Written BY <1>2
  <2>1. CASE j \in 1..Len(s) /\ c[j] = s[j]
    <3>1. k \in 1..Len(s) /\ ~(k > Len(s)) BY <1>1, <1>4, <2>1
    <3>2. c[k] = s[k] BY <1>2, <3>1, Zenon
    <3>3. k \in X \/ End(s[k]) <= s[j].at BY <1>4, <2>1, <3>1, Zenon DEF Stacked
    <3>4. QED BY <2>1, <3>2, <3>3, Zenon
  <2>2. CASE j > Len(s) /\ j - Len(s) \in 1..Len(b) /\ c[j] = b[j - Len(s)]
    <3> DEFINE e == j - Len(s)
    <3>1. e \in 1..Len(b) /\ c[j] = b[e] BY <2>2
    <3>2. CASE k \in 1..Len(s) /\ c[k] = s[k]
      <4> HIDE DEF e
      <4>1. b[e].at = (r + e - 1) * VGA_WIDTH BY <1>3, <3>1
      <4>2. k \in X \/ End(s[k]) <= r * VGA_WIDTH BY <3>2, Zenon DEF Above
      <4>3. e \in Nat /\ e >= 1 BY <1>1, <3>1
      <4>4. c[j].at = (r + e - 1) * VGA_WIDTH BY <3>1, <4>1
      <4>5. k \in X \/ End(c[k]) <= r * VGA_WIDTH BY <3>2, <4>2
      <4>6. End(c[k]) \in Nat BY <2>0, WrittenTypes
      <4>7. QED BY <4>3, <4>4, <4>5, <4>6, SMT DEF VGA_WIDTH
    <3>3. CASE k > Len(s) /\ k - Len(s) \in 1..Len(b) /\ c[k] = b[k - Len(s)]
      <4> DEFINE d == k - Len(s)
      <4>1. d \in 1..Len(b) /\ c[k] = b[d] /\ d < e /\ d \in Nat /\ e \in Nat BY <1>1, <1>4, <3>1, <3>3
      <4> HIDE DEF d, e
      <4>2. b[e].at = (r + e - 1) * VGA_WIDTH /\ End(b[d]) <= (r + d) * VGA_WIDTH BY <1>3, <3>1, <4>1
      <4>3. c[j].at = (r + e - 1) * VGA_WIDTH /\ End(c[k]) <= (r + d) * VGA_WIDTH BY <3>1, <4>1, <4>2
      <4>4. End(c[k]) \in Nat BY <2>0, WrittenTypes
      <4>5. QED BY <4>1, <4>3, <4>4, SMT DEF VGA_WIDTH
    <3>4. QED BY <1>2, <3>2, <3>3, Zenon
  <2>3. QED BY <1>2, <2>1, <2>2, Zenon
<1>5. QED BY <1>2, <1>4 DEF Stacked

LEMMA SingleBlock ==
  ASSUME NEW r \in Nat, NEW m \in 1..VGA_WIDTH, r >= 2 \/ m <= 78,
         (r + 1) * VGA_WIDTH <= Window, NEW t, NEW u, Text(t, u, m),
         NEW w, w = [at |-> r * VGA_WIDTH, text |-> t, says |-> u]
  PROVE  w \in Written /\ Block(<<w>>, r) /\ Len(<<w>>) = 1
<1>1. m \in Nat /\ m <= VGA_WIDTH BY DEF VGA_WIDTH
<1>2. r * VGA_WIDTH + m <= (r + 1) * VGA_WIDTH BY <1>1, SMT DEF VGA_WIDTH
<1>3. r * VGA_WIDTH + m <= Window
  <2>1. Window \in Nat BY SMT DEF Window
  <2>2. QED BY <1>1, <1>2, <2>1, SMT DEF VGA_WIDTH
<1>4. w \in Written /\ w.at = r * VGA_WIDTH /\ End(w) = r * VGA_WIDTH + m
  <2>1. OnRow(w, r, m) BY <1>3, RowWritten, Zenon
  <2>2. QED BY <2>1, Zenon DEF OnRow
<1> DEFINE b == <<w>>
<1>5. b \in Seq(Written) /\ Len(b) = 1 /\ b[1] = w BY <1>4
<1> HIDE DEF b
<1>6. \A k \in 1..Len(b) : k = 1 /\ r + k - 1 = r BY <1>5
<1>7. \A k \in 1..Len(b) : b[k].at = (r + k - 1) * VGA_WIDTH /\ End(b[k]) <= (r + k) * VGA_WIDTH
  BY <1>2, <1>4, <1>5, <1>6
<1>8. QED BY <1>4, <1>5, <1>7 DEF Block, b

LEMMA BlockJoin ==
  ASSUME NEW r \in Nat, NEW b, Block(b, r), NEW q, q = r + Len(b), NEW d, Block(d, q), NEW c, Glued(b, d, c)
  PROVE  Block(c, r) /\ Len(c) = Len(b) + Len(d)
<1>1. b \in Seq(Written) /\ d \in Seq(Written) /\ Len(b) \in Nat /\ Len(d) \in Nat BY DEF Block
<1>2. /\ c \in Seq(Written)
      /\ Len(c) = Len(b) + Len(d)
      /\ \A k \in 1..Len(c) : \/ k \in 1..Len(b) /\ c[k] = b[k]
                              \/ k > Len(b) /\ k - Len(b) \in 1..Len(d) /\ c[k] = d[k - Len(b)]
  BY <1>1, Joined
<1>3. ASSUME NEW k \in 1..Len(c)
      PROVE  c[k].at = (r + k - 1) * VGA_WIDTH /\ End(c[k]) <= (r + k) * VGA_WIDTH
  <2>1. CASE k \in 1..Len(b) /\ c[k] = b[k] BY <2>1, Zenon DEF Block
  <2>2. CASE k - Len(b) \in 1..Len(d) /\ c[k] = d[k - Len(b)]
    <3> DEFINE e == k - Len(b)
    <3>1. e \in 1..Len(d) /\ c[k] = d[e] BY <2>2
    <3>2. (r + Len(b)) + e = r + k /\ (r + Len(b)) + e - 1 = r + k - 1 BY <1>1
    <3> HIDE DEF e
    <3>3. d[e].at = ((r + Len(b)) + e - 1) * VGA_WIDTH /\ End(d[e]) <= ((r + Len(b)) + e) * VGA_WIDTH
      BY <3>1, Zenon DEF Block
    <3>4. QED BY <3>1, <3>2, <3>3, Zenon
  <2>3. QED BY <1>2, <2>1, <2>2, Zenon
<1>4. QED BY <1>2, <1>3 DEF Block

-----------------------------------------------------------------------------
(* What the programs print.                                                 *)

LEMMA ReportBlock ==
  ASSUME NEW k \in 0..3
  PROVE  LET w == Report(k * VGA_WIDTH, k + 1)
         IN  w \in Written /\ Block(<<w>>, k) /\ Len(<<w>>) = 1
<1> DEFINE device == k + 1
           d == device * 1048576 + 6
           w == Report(k * VGA_WIDTH, device)
<1>1. device \in 0..255 /\ 0 \in 0..255 OBVIOUS
<1>2. d \in Dwords BY SMT DEF Dwords
<1> DEFINE t1 == print_byte(0) \o print_space(1)
           t2 == t1 \o print_byte(device)
           t3 == t2 \o print_space(1)
           t4 == t3 \o print_byte(0)
           t5 == t4 \o print_space(2)
           t6 == t5 \o print_dword(d)
           u1 == Nibbles(0, 2)
           u2 == u1 \o Nibbles(device, 2)
           u3 == u2 \o Nibbles(0, 2)
           u4 == u3 \o Nibbles(d, 8)
<1>3. w = [at |-> k * VGA_WIDTH, text |-> t6, says |-> u4] BY SMT DEF Report
<1> HIDE DEF d, device, w
<1> USE TextByte, TextDword, TextBlank
<1>4. Text(print_byte(0), u1, 2) BY <1>1
<1>5. /\ Text(print_byte(device), Nibbles(device, 2), 2) /\ Text(print_byte(0), Nibbles(0, 2), 2)
      /\ Text(print_dword(d), Nibbles(d, 8), 8) /\ Text(print_space(1), <<>>, 1)
      /\ Text(print_space(2), <<>>, 2)
  BY <1>1, <1>2
<1> HIDE TextByte, TextDword, TextBlank
<1>a. 1 + 2 = 3 /\ 2 + 1 = 3 /\ 3 + 2 = 5 /\ 5 + 1 = 6 /\ 6 + 2 = 8 /\ 8 + 2 = 10 /\ 10 + 8 = 18
  OBVIOUS
<1>b. {1, 2, 3, 5, 6, 8, 10, 18} \subseteq Nat OBVIOUS
<1>6. Text(t1, u1, 3)
  <2>1. Text(t1, u1, 2 + 1) BY <1>4, <1>5, <1>b, TextPadded
  <2>2. QED BY <1>a, <2>1
<1> HIDE DEF t1, u1
<1>7. Text(t2, u2, 5)
  <2>1. Text(t2, u2, 3 + 2) BY <1>5, <1>6, <1>b, TextJoin
  <2>2. QED BY <1>a, <2>1
<1> HIDE DEF t2, u2
<1>8. Text(t3, u2, 6)
  <2>1. Text(t3, u2, 5 + 1) BY <1>5, <1>7, <1>b, TextPadded
  <2>2. QED BY <1>a, <2>1
<1> HIDE DEF t3
<1>9. Text(t4, u3, 8)
  <2>1. Text(t4, u3, 6 + 2) BY <1>5, <1>8, <1>b, TextJoin
  <2>2. QED BY <1>a, <2>1
<1> HIDE DEF t4, u3
<1>10. Text(t5, u3, 10)
  <2>1. Text(t5, u3, 8 + 2) BY <1>5, <1>9, <1>b, TextPadded
  <2>2. QED BY <1>a, <2>1
<1> HIDE DEF t5
<1>11. Text(t6, u4, 18)
  <2>1. Text(t6, u4, 10 + 8) BY <1>5, <1>10, <1>b, TextJoin
  <2>2. QED BY <1>a, <2>1
<1> HIDE DEF t6, u4
<1>12. k \in Nat /\ (k + 1) * VGA_WIDTH <= Window /\ 18 \in 1..VGA_WIDTH /\ 18 <= 78
  BY SMT DEF VGA_WIDTH, Window
<1>13. w \in Written /\ Block(<<w>>, k) /\ Len(<<w>>) = 1 BY <1>3, <1>11, <1>12, SingleBlock
<1>14. QED BY <1>13 DEF w, device

LEMMA LabelledBlock ==
  ASSUME NEW r \in Nat, r >= 2, (r + 1) * VGA_WIDTH <= Window, NEW d \in Dwords,
         NEW w, w = Labelled(r * VGA_WIDTH, 24, d, 8)
  PROVE  w \in Written /\ Block(<<w>>, r) /\ Len(<<w>>) = 1
<1> DEFINE t == print_string(24) \o print_dword(d)
<1>1. Hex(d, 8) = print_dword(d) BY SMT DEF Hex
<1>2. w = [at |-> r * VGA_WIDTH, text |-> t, says |-> Nibbles(d, 8)] BY <1>1, Zenon DEF Labelled
<1>3. Text(print_string(24), <<>>, 24) BY TextBlank
<1>4. Text(t, Nibbles(d, 8), 24 + 8) BY <1>3, TextDword, TextPadded
<1>5. 24 + 8 \in 1..VGA_WIDTH BY DEF VGA_WIDTH
<1> HIDE DEF t
<1> DEFINE m == 24 + 8
<1>6. m \in 1..VGA_WIDTH /\ Text(t, Nibbles(d, 8), m) BY <1>4, <1>5
<1> HIDE DEF m
<1>7. QED BY <1>2, <1>6, SingleBlock

LEMMA SignatureBlock ==
  LET w == [at |-> 8 * VGA_WIDTH, text |-> print_string(36) \o print_byte(85) \o print_byte(170),
            says |-> Nibbles(85, 2) \o Nibbles(170, 2)]
  IN  w \in Written /\ Block(<<w>>, 8) /\ Len(<<w>>) = 1
<1> DEFINE t1 == print_string(36) \o print_byte(85)
           t2 == t1 \o print_byte(170)
           u == Nibbles(85, 2) \o Nibbles(170, 2)
           w == [at |-> 8 * VGA_WIDTH, text |-> t2, says |-> u]
<1>1. Text(print_string(36), <<>>, 36) BY TextBlank
<1>2. Text(print_byte(85), Nibbles(85, 2), 2) /\ Text(print_byte(170), Nibbles(170, 2), 2)
  <2>1. 85 \in 0..255 /\ 170 \in 0..255 OBVIOUS
  <2>2. QED BY <2>1, TextByte
<1>3. Text(t1, Nibbles(85, 2), 36 + 2) BY <1>1, <1>2, TextPadded
<1> HIDE DEF t1
<1>4. Text(t2, u, (36 + 2) + 2) BY <1>2, <1>3, TextJoin
<1> DEFINE m == (36 + 2) + 2
<1>5. m \in 1..VGA_WIDTH BY DEF VGA_WIDTH
<1>6. Text(t2, u, m) BY <1>4
<1>7. 8 \in Nat /\ 8 >= 2 /\ (8 + 1) * VGA_WIDTH <= Window BY SMT DEF VGA_WIDTH, Window
<1> HIDE DEF t2, u, m
<1>8. w \in Written /\ Block(<<w>>, 8) /\ Len(<<w>>) = 1 BY <1>5, <1>6, <1>7, SingleBlock
<1>9. QED BY <1>8 DEF t2, t1, u

LEMMA EthernetBlock ==
  ASSUME NEW k \in Nat, k < VGA_HEIGHT
  PROVE  LET w == [at   |-> k * VGA_WIDTH,
                   text |-> print_string(20) \o print_byte(0) \o print_string(10) \o print_byte(k + 1)
                            \o print_string(12) \o print_byte(0),
                   says |-> Nibbles(0, 2) \o Nibbles(k + 1, 2) \o Nibbles(0, 2)]
         IN  w \in Written /\ Block(<<w>>, k) /\ Len(<<w>>) = 1
<1> DEFINE c == k + 1
           t1 == print_string(20) \o print_byte(0)
           t2 == t1 \o print_string(10)
           t3 == t2 \o print_byte(c)
           t4 == t3 \o print_string(12)
           t5 == t4 \o print_byte(0)
           u1 == Nibbles(0, 2)
           u2 == u1 \o Nibbles(c, 2)
           u3 == u2 \o Nibbles(0, 2)
           w == [at |-> k * VGA_WIDTH, text |-> t5, says |-> u3]
<1>1. c \in 0..255 /\ 0 \in 0..255 BY DEF VGA_HEIGHT
<1> HIDE DEF c
<1>2. Text(print_byte(0), u1, 2) /\ Text(print_byte(c), Nibbles(c, 2), 2)
  BY <1>1, TextByte
<1>3. /\ Text(print_string(20), <<>>, 20) /\ Text(print_string(10), <<>>, 10)
      /\ Text(print_string(12), <<>>, 12)
  BY TextBlank
<1>4. Text(t1, u1, 20 + 2) BY <1>2, <1>3, TextPadded
<1> HIDE DEF t1
<1>5. Text(t2, u1, (20 + 2) + 10) BY <1>3, <1>4, TextPadded
<1> HIDE DEF t2
<1>6. Text(t3, u2, ((20 + 2) + 10) + 2)
  <2>1. (20 + 2) + 10 \in Nat OBVIOUS
  <2>2. QED BY <1>2, <1>5, <2>1, TextJoin
<1> HIDE DEF t3
<1>7. Text(t4, u2, (((20 + 2) + 10) + 2) + 12)
  <2>1. ((20 + 2) + 10) + 2 \in Nat OBVIOUS
  <2>2. QED BY <1>3, <1>6, <2>1, TextPadded
<1> HIDE DEF t4
<1> DEFINE p == (((20 + 2) + 10) + 2) + 12
           m == p + 2
<1>8. p \in Nat /\ m \in 1..VGA_WIDTH /\ m <= 78 BY SMT DEF VGA_WIDTH
<1>9. Text(t4, u2, p) BY <1>7
<1> HIDE DEF p
<1>10. Text(t5, u3, m)
  <2>1. Text(print_byte(0), Nibbles(0, 2), 2) BY <1>2
  <2>2. QED BY <1>8, <1>9, <2>1, TextJoin
<1> HIDE DEF t5, u3, m
<1>11. (k + 1) * VGA_WIDTH <= Window BY SMT DEF VGA_WIDTH, VGA_HEIGHT, Window
<1>12. w \in Written /\ Block(<<w>>, k) /\ Len(<<w>>) = 1 BY <1>8, <1>10, <1>11, SingleBlock
<1>13. QED BY <1>12 DEF t5, t4, t3, t2, t1, u3, u2, u1, c

-----------------------------------------------------------------------------
(* The screen.                                                              *)

\* The reports that EHCI_BulkOnly_Setup prints over.
Overlaid == {k \in {3, 4} : k <= machine.controllers}

\* Up to there, a report for each controller.
SearchInv ==
  /\ stage \in {"cls", "lidt", "remap", "gates", "sti"} => screen = <<>> /\ index = 0 /\ n = 0
  /\ stage \in {"search", "init", "setup"} =>
       /\ Block(screen, 0) /\ Len(screen) = n /\ n <= machine.controllers
       /\ index = n * VGA_WIDTH
       /\ stage # "search" => n = machine.controllers

\* Then what is printed goes on, row by row.
PrintInv ==
  /\ stage = "report" => Above(screen, {}, 8)
  /\ stage \in {"mount", "read", "show"} => Above(screen, {}, 9) /\ index = 9 * VGA_WIDTH
  /\ stage = "headers" =>
       /\ Above(screen, {}, 9 + Len(Shown(machine)) + 8 * n)
       /\ index = (9 + Len(Shown(machine)) + 8 * n) * VGA_WIDTH

Displayed(s, X) == \A k \in X : k \in 1..Len(s) /\ s[k].at < VGA_WIDTH * VGA_HEIGHT

StackInv == stage \in {"report", "mount", "read", "show", "headers", "copy", "k_cls"} =>
  /\ screen \in Seq(Written) /\ Stacked(screen, Overlaid)
  /\ Displayed(screen, Overlaid)

Beside(s) == \A k, j \in 1..Len(s) : k < j => \/ End(s[k]) <= s[j].at
                                              \/ End(s[j]) <= s[k].at

\* Of what is displayed, nothing is in row r or below it.
FreeFrom(s, r) == \A k \in 1..Len(s) : \/ s[k].at >= VGA_WIDTH * VGA_HEIGHT
                                       \/ End(s[k]) <= r * VGA_WIDTH

KernelInv ==
  /\ stage \in KernelStages \ {"k_cls"} => screen \in Seq(Written) /\ Beside(screen)
  /\ stage \in KernelStages \ {"k_cls", "k_print", "loop", "wild"} => FreeFrom(screen, 0) /\ index = 0
  /\ stage \in {"k_print", "loop"} =>
       FreeFrom(screen, n) /\ index = n * VGA_WIDTH /\ n <= machine.ethernets

ScreenInv == SearchInv /\ PrintInv /\ StackInv /\ KernelInv

LEMMA ShownTypes ==
  ASSUME Screenful, NEW m \in Machines
  PROVE  /\ m.controllers \in 1..4 /\ m.ethernets \in 0..VGA_HEIGHT
         /\ Shown(m) \in Seq(Nat \X Nat) /\ Len(Shown(m)) \in Nat /\ Len(m.headers) \in Nat
         /\ \A k \in 1..Len(Shown(m)) : Shown(m)[k][1] + Shown(m)[k][2] \in 1..VGA_WIDTH
         /\ (9 + Len(Shown(m)) + 8 * Len(m.headers)) * VGA_WIDTH <= Window
<1> DEFINE R == [p_vaddr : Nat, p_memsz : Nat]
           C == 0..65535
           P == Nat \X Nat
<1>1. m \in Machine BY BootAssumption
<1>2. Machine = [controllers : Nat \ {0}, conf : C, cluster : Nat, file : Nat, headers : Seq(R),
                shown : Seq(Seq(P)), capacity : BOOLEAN, ethernets : Nat]
  BY SMTT(30) DEF Machine
<1> HIDE DEF R, C, P
<1>3. /\ m.controllers \in Nat \ {0} /\ m.ethernets \in Nat /\ m.headers \in Seq(R)
      /\ m.shown \in Seq(Seq(P))
  BY <1>1, <1>2
<1>4. Len(m.headers) \in Nat BY <1>3
<1>5. Shown(m) \in Seq(P)
  <2> DEFINE s == m.shown
  <2>1. s \in Seq(Seq(P)) BY <1>3
  <2> HIDE DEF s
  <2>2. CASE s = <<>>
    <3>1. Shown(m) = <<>> BY <2>2 DEF Shown, s
    <3>2. QED BY <3>1, EmptySeq
  <2>3. CASE s # <<>>
    <3>1. s[1] \in Seq(P) BY <2>1, <2>3
    <3>2. Shown(m) = s[1] BY <2>3 DEF Shown, s
    <3>3. QED BY <3>1, <3>2
  <2>4. QED BY <2>2, <2>3
<1>6. /\ m.controllers <= 4 /\ m.ethernets <= VGA_HEIGHT
      /\ \A k \in DOMAIN Shown(m) : Shown(m)[k][1] + Shown(m)[k][2] \in 1..VGA_WIDTH
      /\ (9 + Len(Shown(m)) + 8 * Len(m.headers)) * VGA_WIDTH <= Window
  BY Zenon DEF Screenful
<1> DEFINE s == Shown(m)
<1> HIDE DEF s
<1>7. s \in Seq(P) BY <1>5 DEF s
<1>8. DOMAIN s = 1..Len(s) /\ Len(s) \in Nat BY <1>7
<1>9. m.controllers \in 1..4 /\ m.ethernets \in 0..VGA_HEIGHT
  <2> DEFINE c == m.controllers
             e == m.ethernets
  <2>1. c \in Nat \ {0} /\ e \in Nat /\ c <= 4 /\ e <= VGA_HEIGHT BY <1>3, <1>6
  <2> HIDE DEF c, e
  <2>2. c \in 1..4 /\ e \in 0..VGA_HEIGHT BY <2>1 DEF VGA_HEIGHT
  <2>3. QED BY <2>2 DEF c, e
<1>10. QED BY <1>4, <1>6, <1>7, <1>8, <1>9, Zenon DEF s, P

LEMMA BlockStacked ==
  ASSUME NEW r \in Nat, NEW s, Block(s, r), NEW X
  PROVE  s \in Seq(Written) /\ Stacked(s, X)
<1>1. s \in Seq(Written) /\ Len(s) \in Nat BY DEF Block
<1>2. ASSUME NEW k \in 1..Len(s), NEW j \in 1..Len(s), k < j PROVE End(s[k]) <= s[j].at
  <2>1. End(s[k]) <= (r + k) * VGA_WIDTH /\ s[j].at = (r + j - 1) * VGA_WIDTH BY Zenon DEF Block
  <2>2. s[k] \in Written BY <1>1
  <2>3. End(s[k]) \in Nat BY <2>2, WrittenTypes
  <2>4. k \in Nat /\ j \in Nat BY <1>1
  <2>5. QED BY <1>2, <2>1, <2>3, <2>4, SMT DEF VGA_WIDTH
<1>3. QED BY <1>1, <1>2, Zenon DEF Stacked

LEMMA BlockAbove ==
  ASSUME NEW r \in Nat, NEW s, Block(s, r), NEW q \in Nat,
         NEW X, \A k \in 1..Len(s) : k \in X \/ r + k <= q
  PROVE  Above(s, X, q)
<1>1. s \in Seq(Written) /\ Len(s) \in Nat BY DEF Block
<1>2. ASSUME NEW k \in 1..Len(s), k \notin X PROVE End(s[k]) <= q * VGA_WIDTH
  <2>1. End(s[k]) <= (r + k) * VGA_WIDTH BY Zenon DEF Block
  <2>2. s[k] \in Written BY <1>1
  <2>3. End(s[k]) \in Nat BY <2>2, WrittenTypes
  <2>4. k \in Nat /\ r + k <= q BY <1>1, <1>2
  <2>5. QED BY <2>1, <2>3, <2>4, SMT DEF VGA_WIDTH
<1>3. QED BY <1>2 DEF Above

\* r is s without what is displayed, in the same order.
Kept(s, r) ==
  /\ r \in Seq(Written)
  /\ \A k \in 1..Len(r) : \E a \in 1..Len(s) : r[k] = s[a] /\ s[a].at >= VGA_WIDTH * VGA_HEIGHT
  /\ \A k, j \in 1..Len(r) : k < j => \E a, b \in 1..Len(s) : a < b /\ r[k] = s[a] /\ r[j] = s[b]

LEMMA ClsOrder ==
  ASSUME NEW s \in Seq(Written), NEW r, r = cls(s)
  PROVE  Kept(s, r)
<1> DEFINE W == {s[k] : k \in DOMAIN s}
           S == {w \in W : w.at < VGA_WIDTH * VGA_HEIGHT}
<1>1. r = Without(s, S) BY DEF cls
<1>2. DOMAIN s = 1..Len(s) /\ \A a \in 1..Len(s) : s[a] \in Written OBVIOUS
<1>3. ASSUME NEW a \in 1..Len(s), s[a] \notin S PROVE s[a].at >= VGA_WIDTH * VGA_HEIGHT
  <2>1. s[a] \in W BY <1>2
  <2>2. ~(s[a].at < VGA_WIDTH * VGA_HEIGHT) BY <1>3, <2>1
  <2>3. s[a].at \in Nat BY <1>2, WrittenTypes
  <2>4. VGA_WIDTH * VGA_HEIGHT \in Nat BY DEF VGA_WIDTH, VGA_HEIGHT
  <2>5. QED BY <2>2, <2>3, <2>4
<1> HIDE DEF S
<1>4. r \in Seq(Written) BY <1>1, WithoutIsSeq
<1>5. InOrder(s, S, r)
  <2>1. InOrder(s, S, Without(s, S)) BY WithoutOrder, Zenon
  <2>2. QED BY <1>1, <2>1
<1>6. ASSUME NEW k \in 1..Len(r)
      PROVE  \E a \in 1..Len(s) : r[k] = s[a] /\ s[a].at >= VGA_WIDTH * VGA_HEIGHT
  <2>1. PICK a \in 1..Len(s) : r[k] = s[a] /\ s[a] \notin S BY <1>5, Zenon DEF InOrder
  <2>2. QED BY <1>3, <2>1, Zenon
<1>7. QED BY <1>4, <1>5, <1>6 DEF Kept, InOrder

LEMMA KernelCls ==
  ASSUME NEW s \in Seq(Written), NEW X, Stacked(s, X), Displayed(s, X), NEW r, r = cls(s)
  PROVE  r \in Seq(Written) /\ Beside(r) /\ FreeFrom(r, 0)
<1>1. /\ r \in Seq(Written)
      /\ \A k \in 1..Len(r) : \E a \in 1..Len(s) : r[k] = s[a] /\ s[a].at >= VGA_WIDTH * VGA_HEIGHT
      /\ \A k, j \in 1..Len(r) : k < j => \E a, b \in 1..Len(s) : a < b /\ r[k] = s[a] /\ r[j] = s[b]
  <2>1. Kept(s, r) BY ClsOrder
  <2>2. QED BY <2>1, Zenon DEF Kept
<1>2. FreeFrom(r, 0) BY <1>1, Zenon DEF FreeFrom
<1>3. ASSUME NEW k \in 1..Len(r), NEW j \in 1..Len(r), k < j PROVE End(r[k]) <= r[j].at
  <2>1. PICK a \in 1..Len(s), b \in 1..Len(s) : a < b /\ r[k] = s[a] /\ r[j] = s[b]
    BY <1>1, <1>3, Zenon
  <2>2. r[k].at >= VGA_WIDTH * VGA_HEIGHT BY <1>1
  <2>3. r[k] \in Written BY <1>1
  <2>4. r[k].at \in Nat BY <2>3, WrittenTypes
  <2>5. ~(s[a].at < VGA_WIDTH * VGA_HEIGHT) BY <2>1, <2>2, <2>4 DEF VGA_WIDTH, VGA_HEIGHT
  <2>6. a \notin X BY <2>5 DEF Displayed
  <2>7. End(s[a]) <= s[b].at BY <2>1, <2>6, Zenon DEF Stacked
  <2>8. QED BY <2>1, <2>7
<1>4. QED BY <1>1, <1>2, <1>3, Zenon DEF Beside

LEMMA InitScreen == BootInit => ScreenInv
<1> SUFFICES ASSUME BootInit PROVE ScreenInv OBVIOUS
<1>1. stage = "cls" /\ screen = <<>> /\ index = 0 /\ n = 0 BY DEF BootInit
<1>2. QED BY <1>1 DEF ScreenInv, SearchInv, PrintInv, StackInv, KernelInv, KernelStages, Late, Enables

\* A report more, at the end of those there are.
LEMMA FindStep ==
  ASSUME Screenful, BootInv, ScreenInv, find_EHCI
  PROVE  ScreenInv'
<1> DEFINE w == Report(index, n + 1)
<1>1. /\ stage = "search" /\ stage' = "search" /\ n < machine.controllers /\ n' = n + 1
      /\ screen' = Append(screen, w) /\ index' = (n + 1) * VGA_WIDTH /\ machine' = machine
  BY DEF find_EHCI, Goto
<1>2. Block(screen, 0) /\ Len(screen) = n /\ index = n * VGA_WIDTH
  BY <1>1 DEF ScreenInv, SearchInv
<1>3. machine.controllers \in 1..4 BY ShownTypes DEF BootInv, StageInv
<1>4. n \in 0..3 /\ n + 1 <= machine.controllers
  <2>1. n \in Nat BY DEF BootInv, StageInv
  <2>2. QED BY <1>1, <1>3, <2>1
<1>5. w \in Written /\ Block(<<w>>, n) /\ Len(<<w>>) = 1
  <2>1. w = Report(n * VGA_WIDTH, n + 1) BY <1>2
  <2>2. QED BY <1>4, <2>1, ReportBlock
<1> HIDE DEF w
<1>6. Block(screen', 0) /\ Len(screen') = n + 1
  <2>1. screen \in Seq(Written) BY <1>2 DEF Block
  <2> DEFINE s == Append(screen, w)
  <2>2. Glued(screen, <<w>>, s) BY <1>5, <2>1, AppendJoins
  <2>b. screen' = s BY <1>1
  <2> HIDE DEF s
  <2>3. 0 \in Nat /\ n = 0 + Len(screen) BY <1>2, <1>4
  <2>4. Block(<<w>>, n) BY <1>5
  <2> DEFINE z == 0
             y == <<w>>
  <2>a. z \in Nat /\ n = z + Len(screen) /\ Block(screen, z) /\ Block(y, n) /\ Glued(screen, y, s)
    BY <1>2, <2>2, <2>3, <2>4
  <2> HIDE DEF y, z
  <2>c. Block(s, z) /\ Len(s) = Len(screen) + Len(y) BY <2>a, BlockJoin
  <2>5. Block(s, 0) /\ Len(s) = Len(screen) + Len(<<w>>) BY <2>c DEF y, z
  <2>6. QED BY <1>2, <1>5, <2>5, <2>b
<1>7. QED
  BY <1>1, <1>4, <1>6 DEF ScreenInv, SearchInv, PrintInv, StackInv, KernelInv, KernelStages, Late, Enables

LEMMA FieldsOfCapacity ==
  /\ SCSI_READ_CAPACITY \in Seq(Nat \X Nat) /\ Len(SCSI_READ_CAPACITY) = 2
  /\ \A k \in 1..Len(SCSI_READ_CAPACITY) :
       SCSI_READ_CAPACITY[k][1] + SCSI_READ_CAPACITY[k][2] \in 1..VGA_WIDTH
<1> DEFINE s == SCSI_READ_CAPACITY
<1>1. s = <<<<48, 8>>, <<39, 8>>>> BY DEF SCSI_READ_CAPACITY
<1>2. s \in Seq(Nat \X Nat) /\ Len(s) = 2 BY <1>1
<1>3. s[1] = <<48, 8>> /\ s[2] = <<39, 8>> BY <1>1
<1> HIDE DEF s
<1>4. \A k \in 1..2 : s[k][1] + s[k][2] \in 1..VGA_WIDTH
  <2>1. \A k \in 1..2 : k = 1 \/ k = 2 OBVIOUS
  <2>2. QED BY <1>3, <2>1 DEF VGA_WIDTH
<1>5. QED BY <1>2, <1>4 DEF s

\* Two or four rows from row 2 on, over the reports of a third and a fourth
\* controller and behind those of the first and the second.
LEMMA SetupStep ==
  ASSUME Screenful, BootInv, ScreenInv, EHCI_BulkOnly_Setup
  PROVE  ScreenInv'
<1> DEFINE c == IF machine.capacity THEN SCSI_READ_CAPACITY ELSE <<>>
           at == 2 * VGA_WIDTH
           next == Behind(c, at)
           b == Rows(c, at)
           v == Labelled(next, 24, 524321, 8)
           w == Labelled(next + VGA_WIDTH, 24, 32776, 8)
           r == 2 + Len(c)
<1>1. /\ stage = "setup" /\ stage' = "report" /\ n' = n /\ machine' = machine
      /\ screen' = screen \o b \o <<v, w>>
  BY SMT DEF EHCI_BulkOnly_Setup, Goto
<1>2. Block(screen, 0) /\ Len(screen) = n /\ n = machine.controllers
  BY <1>1 DEF ScreenInv, SearchInv
<1>3. machine.controllers \in 1..4 BY ShownTypes DEF BootInv, StageInv
<1>4. c \in Seq(Nat \X Nat) /\ Len(c) \in 0..2 /\ \A k \in 1..Len(c) : c[k][1] + c[k][2] \in 1..VGA_WIDTH
  <2>1. CASE machine.capacity
    <3>1. c = SCSI_READ_CAPACITY BY <2>1
    <3> HIDE DEF c
    <3>2. QED BY <3>1, FieldsOfCapacity
  <2>2. CASE ~machine.capacity
    <3>1. c = <<>> BY <2>2
    <3> HIDE DEF c
    <3>2. c \in Seq(Nat \X Nat) BY <3>1, EmptySeq
    <3>3. Len(c) = 0 BY <3>1
    <3>4. QED BY <3>2, <3>3
  <2>3. QED BY <2>1, <2>2
<1> HIDE DEF c
<1>a. Len(c) \in 0..2 BY <1>4, Zenon
<1>5. r \in 2..4
  <2> DEFINE l == Len(c)
  <2>1. l \in 0..2 /\ r = 2 + l BY <1>a, Zenon
  <2> HIDE DEF l, r
  <2>2. QED BY <2>1
<1>6. Block(b, 2) /\ Len(b) = Len(c) /\ next = r * VGA_WIDTH
  <2>1. (2 + Len(c)) * VGA_WIDTH <= Window BY <1>5, SMT DEF VGA_WIDTH, Window
  <2>2. QED BY <1>4, <2>1, RowsBlock
<1> HIDE DEF next, b
<1>7. v \in Written /\ Block(<<v>>, r) /\ Len(<<v>>) = 1
  <2>1. r \in Nat /\ r >= 2 /\ (r + 1) * VGA_WIDTH <= Window BY <1>5, SMT DEF VGA_WIDTH, Window
  <2>2. 524321 \in Dwords BY SMT DEF Dwords
  <2> HIDE DEF r
  <2>3. v = Labelled(r * VGA_WIDTH, 24, 524321, 8) BY <1>6, SMT
  <2> DEFINE d == 524321
  <2>4. d \in Dwords /\ v = Labelled(r * VGA_WIDTH, 24, d, 8) BY <2>2, <2>3
  <2> HIDE DEF d, v
  <2>5. QED BY <2>1, <2>4, LabelledBlock
<1>8. w \in Written /\ Block(<<w>>, r + 1) /\ Len(<<w>>) = 1
  <2> DEFINE q == r + 1
  <2>1. q \in Nat /\ q >= 2 /\ (q + 1) * VGA_WIDTH <= Window BY <1>5, SMT DEF VGA_WIDTH, Window
  <2>2. 32776 \in Dwords BY SMT DEF Dwords
  <2>3. next + VGA_WIDTH = q * VGA_WIDTH BY <1>5, <1>6, SMT DEF VGA_WIDTH
  <2> HIDE DEF r, q
  <2> DEFINE d == 32776
  <2>4. d \in Dwords /\ w = Labelled(q * VGA_WIDTH, 24, d, 8) BY <2>2, <2>3
  <2> HIDE DEF d, w
  <2>5. Block(<<w>>, q) BY <2>1, <2>4, LabelledBlock
  <2>6. w \in Written /\ Len(<<w>>) = 1 BY <2>1, <2>4, LabelledBlock
  <2>7. QED BY <2>5, <2>6 DEF q
<1> HIDE DEF v, w
<1> DEFINE e == <<v, w>>
<1>9. Block(e, r) /\ Len(e) = 2
  <2>1. Glued(<<v>>, <<w>>, e)
    <3>1. <<v>> \in Seq(Written) /\ <<w>> \in Seq(Written) /\ e \in Seq(Written) BY <1>7, <1>8
    <3>2. Len(<<v>>) = 1 /\ Len(<<w>>) = 1 /\ Len(e) = 2 OBVIOUS
    <3>3. <<v>>[1] = v /\ <<w>>[1] = w /\ e[1] = v /\ e[2] = w OBVIOUS
    <3>4. \A k \in 1..1 : k = 1 OBVIOUS
    <3>5. \A k \in 1..1 : e[k] = <<v>>[k] BY <3>3, <3>4
    <3>6. \A k \in 1..1 : e[1 + k] = <<w>>[k] BY <3>3, <3>4
    <3> DEFINE x == <<v>>
               y == <<w>>
    <3>7. Len(e) = Len(x) + Len(y) BY <3>2
    <3>8. (\A k \in 1..Len(x) : e[k] = x[k]) /\ (\A k \in 1..Len(y) : e[Len(x) + k] = y[k])
      BY <3>2, <3>5, <3>6
    <3>9. x \in Seq(Written) /\ y \in Seq(Written) BY <3>1
    <3> HIDE DEF e, x, y
    <3>10. Glued(x, y, e) BY <3>1, <3>7, <3>8, <3>9, Glue, Zenon
    <3>11. QED BY <3>10 DEF x, y
  <2>2. Block(<<w>>, r + 1) /\ r + 1 = r + Len(<<v>>) BY <1>7, <1>8
  <2> HIDE DEF e
  <2>3. r \in Nat BY <1>5
  <2> HIDE DEF r
  <2>4. Block(e, r) /\ Len(e) = Len(<<v>>) + Len(<<w>>) BY <1>7, <2>1, <2>2, <2>3, BlockJoin, ZenonT(30)
  <2>5. QED BY <1>7, <1>8, <2>4
<1> HIDE DEF e
<1> DEFINE f == b \o e
<1>b. Glued(b, e, f) BY DEF Glued
<1> HIDE DEF f
<1>10. Block(f, 2) /\ Len(f) = Len(c) + 2
  <2>1. Block(e, r) /\ 2 \in Nat /\ r = 2 + Len(b) BY <1>6, <1>9
  <2> DEFINE z == 2
  <2>a. z \in Nat /\ r = z + Len(b) /\ Block(b, z) /\ Block(e, r) BY <1>6, <2>1
  <2> HIDE DEF r, z
  <2>b. Block(f, z) /\ Len(f) = Len(b) + Len(e) BY <1>b, <2>a, BlockJoin
  <2>2. Block(f, 2) /\ Len(f) = Len(b) + Len(e) BY <2>b DEF z
  <2>3. QED BY <1>6, <1>9, <2>2
<1>11. Glued(screen, f, screen')
  <2>1. screen \in Seq(Written) /\ b \in Seq(Written) /\ e \in Seq(Written)
    BY <1>2, <1>6, <1>9 DEF Block
  <2>2. (screen \o b) \o e = screen \o (b \o e) BY <2>1, SMT
  <2>3. QED BY <1>1, <2>2, Zenon DEF e, f, Glued
<1> DEFINE X == Overlaid
<1>12. \A k \in 1..Len(screen) : k \in X \/ 0 + k <= 2 BY <1>2, <1>3 DEF Overlaid
<1>13. screen \in Seq(Written) /\ Stacked(screen, X) BY <1>2, BlockStacked
<1>14. Above(screen, X, 2) BY <1>2, <1>12, BlockAbove
<1> HIDE DEF X
<1>15. screen' \in Seq(Written) /\ Stacked(screen', X)
  <2>1. PICK s : s = screen' OBVIOUS
  <2>2. s \in Seq(Written) /\ Stacked(s, X) BY <1>10, <1>11, <1>13, <1>14, <2>1, Pile
  <2>3. QED BY <2>1, <2>2
<1>16. Above(screen', {}, 8)
  <2>1. \A k \in 1..Len(screen) : k \in {} \/ 0 + k <= 8 BY <1>2, <1>3
  <2>2. Above(screen, {}, 8) BY <1>2, <2>1, BlockAbove
  <2>3. 2 + Len(f) <= 8
    <3> DEFINE l == Len(c)
               m == Len(f)
    <3>1. l \in 0..2 /\ m = l + 2 BY <1>a, <1>10, Zenon
    <3> HIDE DEF l, m
    <3>2. 2 + m <= 8 BY <3>1
    <3>3. QED BY <3>2 DEF m
  <2>4. PICK s : s = screen' OBVIOUS
  <2>5. Above(s, {}, 8) BY <1>10, <1>11, <1>13, <2>2, <2>3, <2>4, AboveJoin
  <2>6. QED BY <2>4, <2>5
<1>17. Displayed(screen', X)
  <2> SUFFICES ASSUME NEW k \in X
               PROVE  k \in 1..Len(screen') /\ screen'[k].at < VGA_WIDTH * VGA_HEIGHT
    BY DEF Displayed
  <2>1. k \in 1..Len(screen) /\ k \in 3..4 BY <1>2, <1>3 DEF X, Overlaid
  <2>2. screen[k].at = (0 + k - 1) * VGA_WIDTH BY <1>2, <2>1, Zenon DEF Block
  <2>3. screen'[k] = screen[k] /\ k \in 1..Len(screen')
    <3>1. f \in Seq(Written) BY <1>10 DEF Block
    <3>2. /\ \A j \in 1..Len(screen) : screen'[j] = screen[j]
          /\ Len(screen') = Len(screen) + Len(f)
      BY <1>11, <1>13, <3>1, Joined
    <3>3. Len(f) \in Nat /\ Len(screen) \in Nat BY <1>13, <3>1
    <3>4. QED BY <2>1, <3>2, <3>3
  <2>4. QED BY <2>1, <2>2, <2>3, SMT DEF VGA_WIDTH, VGA_HEIGHT
<1>18. X' = X BY <1>1 DEF X, Overlaid
<1>19. QED
  BY <1>1, <1>15, <1>16, <1>17, <1>18
  DEF ScreenInv, SearchInv, PrintInv, StackInv, KernelInv, KernelStages, Late, Enables, X

\* Rows below all that there is.
LEMMA PileBelow ==
  ASSUME NEW s \in Seq(Written), NEW X, Stacked(s, X), Displayed(s, X), NEW r \in Nat, Above(s, {}, r),
         NEW b, Block(b, r), NEW q \in Nat, q = r + Len(b), NEW c, Glued(s, b, c)
  PROVE  c \in Seq(Written) /\ Stacked(c, X) /\ Displayed(c, X) /\ Above(c, {}, q)
<1>1. b \in Seq(Written) /\ Len(b) \in Nat /\ Len(s) \in Nat BY DEF Block
<1>2. Above(s, X, r) BY Zenon DEF Above
<1>3. c \in Seq(Written) /\ Stacked(c, X) BY <1>2, Pile
<1>4. \A k \in 1..Len(s) : s[k] \in Written OBVIOUS
<1>5. Above(s, {}, q)
  <2>1. ASSUME NEW k \in 1..Len(s) PROVE End(s[k]) <= q * VGA_WIDTH
    <3>1. End(s[k]) <= r * VGA_WIDTH BY Zenon DEF Above
    <3>2. End(s[k]) \in Nat BY <1>4, WrittenTypes
    <3>3. QED BY <1>1, <3>1, <3>2, SMT DEF VGA_WIDTH
  <2>2. QED BY <2>1, Zenon DEF Above
<1>6. r + Len(b) <= q BY <1>1
<1>7. Above(c, {}, q) BY <1>5, <1>6, AboveJoin
<1>8. Len(c) = Len(s) + Len(b) /\ \A k \in 1..Len(s) : c[k] = s[k] BY <1>1, Joined
<1>9. \A k \in 1..Len(s) : k \in 1..Len(c) BY <1>1, <1>8
<1>10. Displayed(c, X) BY <1>8, <1>9 DEF Displayed
<1>11. QED BY <1>3, <1>7, <1>10

LEMMA SignatureStep ==
  ASSUME Screenful, BootInv, ScreenInv, print_signature
  PROVE  ScreenInv'
<1> DEFINE w == [at |-> 8 * VGA_WIDTH, text |-> print_string(36) \o print_byte(85) \o print_byte(170),
                 says |-> Nibbles(85, 2) \o Nibbles(170, 2)]
<1>1. /\ stage = "report" /\ stage' = "mount" /\ machine' = machine
      /\ screen' = Append(screen, w) /\ index' = 9 * VGA_WIDTH
  BY DEF print_signature, Goto
<1>2. w \in Written /\ Block(<<w>>, 8) /\ Len(<<w>>) = 1 BY SignatureBlock
<1> HIDE DEF w
<1> DEFINE X == Overlaid
<1>3. screen \in Seq(Written) /\ Stacked(screen, X) /\ Displayed(screen, X) /\ Above(screen, {}, 8)
  BY <1>1 DEF ScreenInv, StackInv, PrintInv
<1>4. X' = X BY <1>1 DEF Overlaid
<1> HIDE DEF X
<1>5. PICK t : t = screen' OBVIOUS
<1>6. Glued(screen, <<w>>, t) BY <1>1, <1>2, <1>3, <1>5, AppendJoins
<1> DEFINE b == <<w>>
<1>7. Block(b, 8) /\ Glued(screen, b, t) /\ 9 = 8 + Len(b) BY <1>2, <1>6
<1> HIDE DEF b
<1>8. t \in Seq(Written) /\ Stacked(t, X) /\ Displayed(t, X) /\ Above(t, {}, 9)
  BY <1>3, <1>7, PileBelow
<1>9. screen' \in Seq(Written) /\ Stacked(screen', X) /\ Displayed(screen', X) /\ Above(screen', {}, 9)
  BY <1>5, <1>8
<1>10. QED
  BY <1>1, <1>4, <1>9
  DEF ScreenInv, SearchInv, PrintInv, StackInv, KernelInv, KernelStages, Late, Enables, X

LEMMA ShowStep ==
  ASSUME Screenful, BootInv, ScreenInv, show
  PROVE  ScreenInv'
<1> DEFINE s == Shown(machine)
           X == Overlaid
           at == 9 * VGA_WIDTH
           b == Rows(s, at)
           r == 9 + Len(s)
<1>1. /\ stage = "show" /\ stage' = "headers" /\ n' = 0 /\ machine' = machine
      /\ screen' = screen \o Rows(s, index) /\ index' = Behind(s, index)
  BY Zenon DEF show, Goto, Shown
<1>2. /\ screen \in Seq(Written) /\ Stacked(screen, X) /\ Displayed(screen, X)
      /\ Above(screen, {}, 9) /\ index = at
  BY <1>1 DEF ScreenInv, StackInv, PrintInv
<1>3. X' = X BY <1>1 DEF Overlaid
<1>4. /\ s \in Seq(Nat \X Nat) /\ Len(s) \in Nat /\ Len(machine.headers) \in Nat
      /\ \A k \in 1..Len(s) : s[k][1] + s[k][2] \in 1..VGA_WIDTH
      /\ (9 + Len(s) + 8 * Len(machine.headers)) * VGA_WIDTH <= Window
  BY ShownTypes DEF BootInv, StageInv
<1>5. s' = s BY <1>1 DEF Shown
<1>6. n' = 0 /\ 9 + Len(s') + 8 * n' = r BY <1>1, <1>4, <1>5
<1> HIDE DEF X, s
<1>7. Block(b, 9) /\ Len(b) = Len(s) /\ Behind(s, at) = r * VGA_WIDTH
  <2>1. (9 + Len(s)) * VGA_WIDTH <= Window
    <3> DEFINE l == Len(s)
               h == Len(machine.headers)
    <3>1. l \in Nat /\ h \in Nat /\ (9 + l + 8 * h) * VGA_WIDTH <= Window BY <1>4
    <3> HIDE DEF l, h
    <3>2. (9 + l) * VGA_WIDTH <= Window BY <3>1, SMT DEF VGA_WIDTH, Window
    <3>3. QED BY <3>2 DEF l
  <2>2. QED BY <1>4, <2>1, RowsBlock
<1>8. r \in Nat /\ r = 9 + Len(b) BY <1>4, <1>7
<1>9. PICK t : t = screen' OBVIOUS
<1>10. Glued(screen, b, t) BY <1>1, <1>2, <1>9 DEF Glued
<1> HIDE DEF b, r
<1>11. t \in Seq(Written) /\ Stacked(t, X) /\ Displayed(t, X) /\ Above(t, {}, r)
  BY <1>2, <1>7, <1>8, <1>10, PileBelow
<1>12. screen' \in Seq(Written) /\ Stacked(screen', X) /\ Displayed(screen', X) /\ Above(screen', {}, r)
  BY <1>9, <1>11
<1>13. index' = r * VGA_WIDTH BY <1>1, <1>2, <1>7
<1> DEFINE p == 9 + Len(s) + 8 * n
<1>14. p' = r BY <1>6, Zenon
<1>15. Above(screen', {}, p') /\ index' = p' * VGA_WIDTH BY <1>12, <1>13, <1>14, Zenon
<1>16. QED
  BY <1>1, <1>3, <1>12, <1>15
  DEF ScreenInv, SearchInv, PrintInv, StackInv, KernelInv, KernelStages, Late, Enables, X, s

LEMMA FieldsOfHeader ==
  /\ ELF_PROGRAM_HEADER \in Seq(Nat \X Nat) /\ Len(ELF_PROGRAM_HEADER) = 8
  /\ \A k \in 1..Len(ELF_PROGRAM_HEADER) :
       ELF_PROGRAM_HEADER[k][1] + ELF_PROGRAM_HEADER[k][2] \in 1..VGA_WIDTH
<1> DEFINE s == ELF_PROGRAM_HEADER
<1>1. s = <<<<27, 8>>, <<29, 8>>, <<28, 8>>, <<28, 8>>, <<29, 8>>, <<28, 8>>, <<28, 8>>, <<28, 8>>>>
  BY DEF ELF_PROGRAM_HEADER
<1>2. s \in Seq(Nat \X Nat) /\ Len(s) = 8 BY <1>1
<1>3. /\ s[1] = <<27, 8>> /\ s[2] = <<29, 8>> /\ s[3] = <<28, 8>> /\ s[4] = <<28, 8>>
      /\ s[5] = <<29, 8>> /\ s[6] = <<28, 8>> /\ s[7] = <<28, 8>> /\ s[8] = <<28, 8>>
  BY <1>1
<1> HIDE DEF s
<1>4. \A k \in 1..8 : s[k][1] + s[k][2] \in 1..VGA_WIDTH
  <2>1. \A k \in 1..8 : k = 1 \/ k = 2 \/ k = 3 \/ k = 4 \/ k = 5 \/ k = 6 \/ k = 7 \/ k = 8 OBVIOUS
  <2>2. \A k \in 1..8 : s[k] \in {<<27, 8>>, <<28, 8>>, <<29, 8>>} BY <1>3, <2>1
  <2>3. \A v \in {<<27, 8>>, <<28, 8>>, <<29, 8>>} : v[1] + v[2] \in 1..VGA_WIDTH BY DEF VGA_WIDTH
  <2>4. QED BY <2>2, <2>3, Zenon
<1>5. QED BY <1>2, <1>4 DEF s

LEMMA HeaderStep ==
  ASSUME Screenful, BootInv, ScreenInv, print_ELF_PROGRAM_HEADER
  PROVE  ScreenInv'
<1> DEFINE s == Shown(machine)
           l == Len(s)
           h == Len(machine.headers)
           X == Overlaid
           r == 9 + l + 8 * n
           q == r + 8
           e == ELF_PROGRAM_HEADER
           b == Rows(e, r * VGA_WIDTH)
<1>1. /\ stage = "headers" /\ stage' = "headers" /\ n < h /\ n' = n + 1 /\ machine' = machine
      /\ screen' = screen \o Rows(e, index) /\ index' = Behind(e, index)
  BY DEF print_ELF_PROGRAM_HEADER, Goto
<1>2. /\ screen \in Seq(Written) /\ Stacked(screen, X) /\ Displayed(screen, X)
      /\ Above(screen, {}, r) /\ index = r * VGA_WIDTH
  BY <1>1 DEF ScreenInv, StackInv, PrintInv
<1>3. X' = X BY <1>1 DEF Overlaid
<1>4. l \in Nat /\ h \in Nat /\ (9 + l + 8 * h) * VGA_WIDTH <= Window
  BY ShownTypes DEF BootInv, StageInv
<1>5. n \in Nat BY DEF BootInv, StageInv
<1> DEFINE p == 9 + Len(Shown(machine)) + 8 * n
<1>6. p' = q
  <2>1. Shown(machine)' = s BY <1>1 DEF Shown
  <2>2. Len(Shown(machine))' = l BY <2>1
  <2>3. p' = 9 + l + 8 * (n + 1) BY <1>1, <2>2
  <2> HIDE DEF p, l
  <2>4. QED BY <1>4, <1>5, <2>3
<1> HIDE DEF X, l, h
<1>7. r \in Nat /\ r >= 2 /\ q \in Nat /\ q = r + 8 /\ q * VGA_WIDTH <= Window
  <2>1. q <= 9 + l + 8 * h BY <1>1, <1>4, <1>5
  <2>2. r \in Nat /\ r >= 2 /\ q \in Nat /\ q = r + 8 BY <1>4, <1>5
  <2> DEFINE z == 9 + l + 8 * h
  <2>3. z \in Nat /\ q <= z /\ z * VGA_WIDTH <= Window BY <1>4, <2>1
  <2> HIDE DEF q, z
  <2>4. Window \in Nat BY SMT DEF Window
  <2>5. q * VGA_WIDTH <= Window BY <2>2, <2>3, <2>4, SMT DEF VGA_WIDTH
  <2>6. QED BY <2>2, <2>5
<1> HIDE DEF q, r, e
<1>8. Block(b, r) /\ Len(b) = 8 /\ Behind(e, r * VGA_WIDTH) = q * VGA_WIDTH
  <2>1. /\ e \in Seq(Nat \X Nat) /\ Len(e) = 8
        /\ \A k \in 1..Len(e) : e[k][1] + e[k][2] \in 1..VGA_WIDTH
    BY FieldsOfHeader DEF e
  <2>2. (r + Len(e)) * VGA_WIDTH <= Window BY <1>7, <2>1
  <2>3. Block(b, r) /\ Len(b) = Len(e) /\ Behind(e, r * VGA_WIDTH) = (r + Len(e)) * VGA_WIDTH
    BY <1>7, <2>1, <2>2, RowsBlock
  <2>4. QED BY <1>7, <2>1, <2>3
<1>9. q = r + Len(b) BY <1>7, <1>8
<1>10. PICK t : t = screen' OBVIOUS
<1>11. Glued(screen, b, t) BY <1>1, <1>2, <1>10 DEF Glued
<1> HIDE DEF b
<1>12. t \in Seq(Written) /\ Stacked(t, X) /\ Displayed(t, X) /\ Above(t, {}, q)
  BY <1>2, <1>7, <1>8, <1>9, <1>11, PileBelow
<1>13. screen' \in Seq(Written) /\ Stacked(screen', X) /\ Displayed(screen', X) /\ Above(screen', {}, q)
  BY <1>10, <1>12
<1>14. index' = q * VGA_WIDTH BY <1>1, <1>2, <1>8
<1>15. Above(screen', {}, p') /\ index' = p' * VGA_WIDTH BY <1>6, <1>13, <1>14, Zenon
<1>16. QED
  BY <1>1, <1>3, <1>13, <1>15
  DEF ScreenInv, SearchInv, PrintInv, StackInv, KernelInv, KernelStages, Late, Enables, X

LEMMA KernelClsStep ==
  ASSUME BootInv, ScreenInv, kernel_cls
  PROVE  ScreenInv'
<1>1. stage = "k_cls" /\ stage' = "k_cli" /\ screen' = cls(screen) /\ index' = 0
  BY DEF kernel_cls, Goto
<1>2. screen \in Seq(Written) /\ Stacked(screen, Overlaid) /\ Displayed(screen, Overlaid)
  BY <1>1 DEF ScreenInv, StackInv
<1>3. PICK t : t = screen' OBVIOUS
<1>4. t \in Seq(Written) /\ Beside(t) /\ FreeFrom(t, 0) BY <1>1, <1>2, <1>3, KernelCls
<1>5. screen' \in Seq(Written) /\ Beside(screen') /\ FreeFrom(screen', 0) BY <1>3, <1>4
<1>6. QED
  BY <1>1, <1>5 DEF ScreenInv, SearchInv, PrintInv, StackInv, KernelInv, KernelStages, Late, Enables

\* The screen is empty when the stub clears it.
LEMMA StubClsStep ==
  ASSUME BootInv, ScreenInv, stub_cls
  PROVE  ScreenInv'
<1>1. stage = "cls" /\ stage' = "lidt" /\ screen' = cls(screen) /\ index' = index /\ n' = n
  BY DEF stub_cls, Goto
<1>2. screen = <<>> /\ index = 0 /\ n = 0 BY <1>1 DEF ScreenInv, SearchInv
<1>3. screen' = <<>>
  <2> DEFINE S == {w \in {screen[k] : k \in DOMAIN screen} : w.at < VGA_WIDTH * VGA_HEIGHT}
  <2>1. screen' = Without(screen, S) BY <1>1 DEF cls
  <2> HIDE DEF S
  <2>2. screen \in Seq(Int) BY <1>2, EmptySeq
  <2>3. Len(screen) = 0 BY <1>2
  <2>4. \A k \in 1..Len(screen) : screen[k] \in S BY <2>3
  <2>5. QED BY <2>1, <2>2, <2>4, WithoutAll
<1>4. QED
  BY <1>1, <1>2, <1>3 DEF ScreenInv, SearchInv, PrintInv, StackInv, KernelInv, KernelStages, Late, Enables

LEMMA EthernetStep ==
  ASSUME Screenful, BootInv, ScreenInv, print_ethernet
  PROVE  ScreenInv'
<1> DEFINE at == n * VGA_WIDTH
           row(x) == [at   |-> x,
                      text |-> print_string(20) \o print_byte(0) \o print_string(10) \o print_byte(n + 1)
                               \o print_string(12) \o print_byte(0),
                      says |-> Nibbles(0, 2) \o Nibbles(n + 1, 2) \o Nibbles(0, 2)]
           w == row(at)
           b == <<w>>
<1>1. /\ stage = "k_print" /\ stage' = "k_print" /\ n < machine.ethernets /\ n' = n + 1
      /\ machine' = machine /\ screen' = Append(screen, row(index)) /\ index' = (n + 1) * VGA_WIDTH
  BY DEF print_ethernet, Goto
<1>2. screen \in Seq(Written) /\ Beside(screen) /\ FreeFrom(screen, n) /\ index = at
  BY <1>1 DEF ScreenInv, KernelInv, KernelStages, Late, Enables
<1>3. machine.ethernets \in 0..VGA_HEIGHT BY ShownTypes DEF BootInv, StageInv
<1>4. n \in Nat BY DEF BootInv, StageInv
<1>5. n < VGA_HEIGHT /\ n + 1 <= machine.ethernets
  <2> DEFINE c == machine.ethernets
  <2>1. c \in 0..VGA_HEIGHT /\ n < c BY <1>1, <1>3
  <2> HIDE DEF c
  <2>2. n < VGA_HEIGHT /\ n + 1 <= c BY <1>4, <2>1 DEF VGA_HEIGHT
  <2>3. QED BY <2>2 DEF c
<1>6. w \in Written /\ Block(b, n) /\ Len(b) = 1 BY <1>4, <1>5, EthernetBlock
<1>7. w.at = at OBVIOUS
<1> HIDE DEF row
<1>8. PICK t : t = screen' OBVIOUS
<1>9. t = Append(screen, w) BY <1>1, <1>2, <1>8
<1>10. Glued(screen, b, t) BY <1>2, <1>6, <1>9, AppendJoins
<1>11. b \in Seq(Written) /\ b[1] = w /\ End(w) <= (n + 1) * VGA_WIDTH
  <2>1. b \in Seq(Written) /\ b[1] = w BY <1>6
  <2> HIDE DEF b
  <2>a. 1 \in 1..Len(b) BY <1>6
  <2>2. End(b[1]) <= (n + 1) * VGA_WIDTH BY <1>6, <2>a, Zenon DEF Block
  <2>3. QED BY <2>1, <2>2
<1> HIDE DEF w, b
<1>12. /\ t \in Seq(Written) /\ Len(t) = Len(screen) + 1
       /\ \A k \in 1..Len(t) : \/ k \in 1..Len(screen) /\ t[k] = screen[k]
                               \/ k > Len(screen) /\ t[k] = w
  <2>1. /\ t \in Seq(Written) /\ Len(t) = Len(screen) + Len(b)
        /\ \A k \in 1..Len(t) : \/ k \in 1..Len(screen) /\ t[k] = screen[k]
                                \/ k > Len(screen) /\ k - Len(screen) \in 1..Len(b)
                                   /\ t[k] = b[k - Len(screen)]
    BY <1>2, <1>10, <1>11, Joined
  <2>2. ASSUME NEW k \in 1..Len(t), k > Len(screen), k - Len(screen) \in 1..Len(b),
               t[k] = b[k - Len(screen)]
        PROVE  t[k] = w
    <3>1. k - Len(screen) = 1 BY <1>6, <2>2
    <3>2. QED BY <1>11, <2>2, <3>1, Zenon
  <2>3. QED BY <1>6, <2>1, <2>2
<1>13. Len(screen) \in Nat BY <1>2
<1>14. ASSUME NEW k \in 1..Len(screen)
       PROVE  /\ screen[k].at \in Nat /\ End(screen[k]) \in Nat
              /\ \/ screen[k].at >= VGA_WIDTH * VGA_HEIGHT
                 \/ End(screen[k]) <= n * VGA_WIDTH
  <2>1. screen[k] \in Written BY <1>2
  <2>2. screen[k].at \in Nat /\ End(screen[k]) \in Nat BY <2>1, WrittenTypes
  <2>3. QED BY <1>2, <2>2, Zenon DEF FreeFrom
<1>15. w.at = n * VGA_WIDTH /\ End(w) \in Nat BY <1>6, <1>7, WrittenTypes
<1>16. FreeFrom(t, n + 1)
  <2>1. ASSUME NEW k \in 1..Len(t)
        PROVE  t[k].at >= VGA_WIDTH * VGA_HEIGHT \/ End(t[k]) <= (n + 1) * VGA_WIDTH
    <3>1. CASE k \in 1..Len(screen) /\ t[k] = screen[k]
      <4> DEFINE a == screen[k].at
                 c == End(screen[k])
      <4>1. /\ a \in Nat /\ c \in Nat /\ (a >= VGA_WIDTH * VGA_HEIGHT \/ c <= n * VGA_WIDTH)
            /\ t[k].at = a /\ End(t[k]) = c
        BY <1>14, <3>1, Zenon
      <4> HIDE DEF a, c
      <4>2. a >= VGA_WIDTH * VGA_HEIGHT \/ c <= (n + 1) * VGA_WIDTH
        BY <1>4, <4>1, SMT DEF VGA_WIDTH, VGA_HEIGHT
      <4>3. QED BY <4>1, <4>2, Zenon
    <3>2. CASE t[k] = w BY <1>11, <3>2
    <3>3. QED BY <1>12, <3>1, <3>2, Zenon
  <2>2. QED BY <2>1, Zenon DEF FreeFrom
<1>17. Beside(t)
  <2>1. ASSUME NEW k \in 1..Len(t), NEW j \in 1..Len(t), k < j
        PROVE  End(t[k]) <= t[j].at \/ End(t[j]) <= t[k].at
    <3>1. k \in 1..Len(screen) /\ t[k] = screen[k] BY <1>12, <1>13, <2>1
    <3>2. CASE j \in 1..Len(screen) /\ t[j] = screen[j]
      <4>1. End(screen[k]) <= screen[j].at \/ End(screen[j]) <= screen[k].at
        BY <1>2, <2>1, <3>1, <3>2, Zenon DEF Beside
      <4>2. QED BY <3>1, <3>2, <4>1, Zenon
    <3>3. CASE t[j] = w
      <4> DEFINE a == screen[k].at
                 c == End(screen[k])
      <4>1. /\ a \in Nat /\ c \in Nat /\ (a >= VGA_WIDTH * VGA_HEIGHT \/ c <= n * VGA_WIDTH)
            /\ t[k].at = a /\ End(t[k]) = c
        BY <1>14, <3>1, Zenon
      <4>2. t[j].at = n * VGA_WIDTH /\ End(t[j]) <= (n + 1) * VGA_WIDTH /\ End(t[j]) \in Nat
        BY <1>11, <1>15, <3>3
      <4> HIDE DEF a, c
      <4> DEFINE d == End(t[j])
      <4>3. d \in Nat /\ d <= (n + 1) * VGA_WIDTH BY <4>2
      <4> HIDE DEF d
      <4>4. c <= n * VGA_WIDTH \/ d <= a
        BY <1>4, <1>5, <4>1, <4>3, SMT DEF VGA_WIDTH, VGA_HEIGHT
      <4>5. QED BY <4>1, <4>2, <4>4, Zenon DEF d
    <3>4. QED BY <1>12, <3>2, <3>3, Zenon
  <2>2. QED BY <2>1, Zenon DEF Beside
<1>18. screen' \in Seq(Written) /\ Beside(screen') /\ FreeFrom(screen', n')
  BY <1>1, <1>8, <1>12, <1>16, <1>17
<1>19. index' = n' * VGA_WIDTH /\ n' <= machine'.ethernets BY <1>1, <1>5
<1>20. QED
  BY <1>1, <1>18, <1>19
  DEF ScreenInv, SearchInv, PrintInv, StackInv, KernelInv, KernelStages, Late, Enables

\* What prints nothing, and an interrupt.
LEMMA QuietStep ==
  ASSUME Screenful, BootInv, ScreenInv, screens' = screens, machine' = machine,
         \/ stage' = stage /\ (n' = n)
         \/ stage = "search" /\ stage' = "init" /\ n = machine.controllers /\ n' = n
         \/ stage = "init" /\ stage' = "setup" /\ n' = n
         \/ stage = "mount" /\ stage' = "read"
         \/ stage = "read" /\ stage' = "show"
         \/ stage \in {"headers", "copy"} /\ stage' = "copy"
         \/ stage = "copy" /\ stage' = "k_cls"
         \/ stage \in {"cls", "lidt", "remap", "gates"} /\ stage' \in {"lidt", "remap", "gates", "sti"} /\ n' = n
         \/ stage = "sti" /\ stage' = "search" /\ n' = n
         \/ /\ stage \in {"k_cli", "k_pics", "k_spurious", "k_memory"} \cup Enables
            /\ stage' \in {"k_pics", "k_spurious", "k_memory", "k_tokens"} \cup Enables
         \/ stage \in KernelStages \ {"k_cls"} /\ stage' = "wild"
         \/ stage = "k_tokens" /\ stage' = "k_print" /\ n' = 0
         \/ stage \in {"k_print", "loop"} /\ stage' = "loop" /\ n' = n
  PROVE  ScreenInv'
<1>1. screen' = screen /\ index' = index BY DEF screens
<1>2. Overlaid' = Overlaid /\ Shown(machine)' = Shown(machine) BY DEF Overlaid, Shown
<1>3. n \in Nat /\ machine.ethernets \in Nat /\ machine.controllers \in Nat
  <2>1. machine \in Machines /\ n \in Nat BY DEF BootInv, StageInv
  <2>2. machine.ethernets \in 0..VGA_HEIGHT /\ machine.controllers \in 1..4 BY <2>1, ShownTypes, Zenon
  <2> DEFINE e == machine.ethernets
             c == machine.controllers
  <2>3. e \in 0..VGA_HEIGHT /\ c \in 1..4 BY <2>2
  <2> HIDE DEF e, c
  <2>4. e \in Nat /\ c \in Nat BY <2>3
  <2>5. QED BY <2>1, <2>4 DEF e, c
<1>a. n' = n => (9 + Len(Shown(machine)) + 8 * n)' = 9 + Len(Shown(machine)) + 8 * n
  BY <1>2
<1>4. SearchInv'
  <2>1. Block(<<>>, 0) BY DEF Block
  <2>2. 0 * VGA_WIDTH = 0 /\ Len(<<>>) = 0 BY DEF VGA_WIDTH
  <2>3. QED BY <1>1, <1>3, <2>1, <2>2 DEF ScreenInv, SearchInv, KernelStages, Late, Enables
<1>5. PrintInv' BY <1>1, <1>a DEF ScreenInv, PrintInv, KernelStages, Late, Enables
<1>6. StackInv' BY <1>1, <1>2 DEF ScreenInv, StackInv, KernelStages, Late, Enables
<1>7. KernelInv'
  <2>1. 0 * VGA_WIDTH = 0 BY DEF VGA_WIDTH
  <2>2. QED BY <1>1, <1>3, <2>1 DEF ScreenInv, KernelInv, KernelStages, Late, Enables
<1>8. QED BY <1>4, <1>5, <1>6, <1>7 DEF ScreenInv

LEMMA StepScreen == ASSUME Screenful, BootInv, ScreenInv, BootNext PROVE ScreenInv'
<1> USE DEF Goto
<1>1. CASE sleep_test BY <1>1, QuietStep DEF sleep_test, screens
<1>2. CASE stub_cls BY <1>2, StubClsStep
<1>3. CASE loadIDTR BY <1>3, QuietStep DEF loadIDTR, screens
<1>4. CASE remapPICs BY <1>4, QuietStep DEF remapPICs, screens
<1>5. CASE setIDT BY <1>5, QuietStep DEF setIDT, screens
<1>6. CASE PIT_Init_enable_interrupts BY <1>6, QuietStep DEF PIT_Init_enable_interrupts, screens
<1>7. CASE find_EHCI BY <1>7, FindStep
<1>8. CASE EHCI_Init BY <1>8, QuietStep DEF EHCI_Init, screens
<1>9. CASE EHCI_Init_return BY <1>9, QuietStep DEF EHCI_Init_return, screens
<1>10. CASE EHCI_BulkOnly_Setup BY <1>10, SetupStep
<1>11. CASE print_signature BY <1>11, SignatureStep
<1>12. CASE mount BY <1>12, QuietStep DEF mount, screens
<1>13. CASE read_fileA BY <1>13, QuietStep DEF read_fileA, screens
<1>14. CASE show BY <1>14, ShowStep
<1>15. CASE print_ELF_PROGRAM_HEADER BY <1>15, HeaderStep
<1>16. CASE copy_segments BY <1>16, QuietStep DEF copy_segments, screens
<1>17. CASE copy_segment BY <1>17, QuietStep DEF copy_segment, screens
<1>18. CASE core_start BY <1>18, QuietStep DEF core_start, screens
<1>19. CASE kernel_cls BY <1>19, KernelClsStep
<1>20. CASE disable_interrupts BY <1>20, QuietStep DEF disable_interrupts, screens
<1>21. CASE interrupt_init_PICs BY <1>21, QuietStep DEF interrupt_init_PICs, screens
<1>22. CASE register_spurious BY <1>22, QuietStep DEF register_spurious, Enables, screens
<1>23. CASE time_init BY <1>23, QuietStep DEF time_init, Enables, screens
<1>24. CASE keyboard_init BY <1>24, QuietStep DEF keyboard_init, Enables, screens
<1>33. CASE PIC_line_enable_read BY <1>33, QuietStep DEF PIC_line_enable_read, Enables, screens
<1>34. CASE PIC_line_enable_write BY <1>34, QuietStep DEF PIC_line_enable_write, Enables, screens
<1>25. CASE kernel_memory_init BY <1>25, QuietStep DEF kernel_memory_init, Enables, screens
<1>26. CASE alloc_tokens BY <1>26, QuietStep DEF alloc_tokens, screens
<1>27. CASE print_ethernet BY <1>27, EthernetStep
<1>28. CASE loop BY <1>28, QuietStep DEF loop, screens
<1>29. CASE loop_again BY <1>29, QuietStep DEF loop_again, screens
<1>30. CASE driver_alloc BY <1>30, QuietStep DEF driver_alloc, screens
<1>31. ASSUME NEW l \in Lines, Interrupt(l) PROVE ScreenInv'
  <2>1. stage' = stage \/ (stage' = "wild" /\ spoiled) BY <1>31, InterruptStage DEF BootInv
  <2>2. spoiled => stage \in KernelStages \ {"k_cls"} BY DEF BootInv, GatesInv, KernelStages, Late, Enables
  <2>3. QED BY <1>31, <2>1, <2>2, QuietStep DEF Interrupt, screens
<1>32. QED
  BY <1>1, <1>2, <1>3, <1>4, <1>5, <1>6, <1>7, <1>8, <1>9, <1>10, <1>11, <1>12, <1>13,
     <1>14, <1>15, <1>16, <1>17, <1>18, <1>19, <1>20, <1>21, <1>22, <1>23, <1>24, <1>25,
     <1>26, <1>27, <1>28, <1>29, <1>30, <1>31, <1>33, <1>34
  DEF BootNext, Main, Stub, Kernel

LEMMA ScreenIntact == ASSUME Screenful, BootInv, ScreenInv PROVE ReportsIntact
<1> DEFINE Over == {"report", "mount", "read", "show", "headers", "copy", "k_cls"}
           X == {k \in {3, 4} : k <= machine.controllers /\ stage \in Over}
<1>1. machine \in Machines /\ stage \in StubStages \cup KernelStages BY DEF BootInv, StageInv
<1>2. screen \in Seq(Written) /\ (Stacked(screen, X) \/ Beside(screen))
  <2>1. CASE stage \in {"cls", "lidt", "remap", "gates", "sti"}
    <3>1. screen = <<>> BY <2>1 DEF ScreenInv, SearchInv
    <3>2. screen \in Seq(Written) BY <3>1, EmptySeq
    <3>3. Len(screen) = 0 BY <3>1
    <3>4. \A k \in 1..0 : FALSE OBVIOUS
    <3>5. Beside(screen) BY <3>3, <3>4 DEF Beside
    <3>6. QED BY <3>2, <3>5
  <2>2. CASE stage \in {"search", "init", "setup"}
    <3>1. Block(screen, 0) BY <2>2 DEF ScreenInv, SearchInv
    <3>2. QED BY <3>1, BlockStacked
  <2>3. CASE stage \in Over
    <3>1. X = Overlaid BY <2>3 DEF Overlaid
    <3>2. screen \in Seq(Written) /\ Stacked(screen, Overlaid) BY <2>3 DEF ScreenInv, StackInv
    <3>3. QED BY <3>1, <3>2
  <2>4. CASE stage \in KernelStages \ {"k_cls"} BY <2>4 DEF ScreenInv, KernelInv
  <2>5. QED BY <1>1, <2>1, <2>2, <2>3, <2>4 DEF StubStages
<1> HIDE DEF X
<1>3. ASSUME NEW k \in 1..Len(screen), k \notin X PROVE Intact(screen, k, Counters)
  <2> DEFINE w == screen[k]
  <2>1. w \in Written BY <1>2
  <2>2. /\ Reads(w.text, w.says) /\ w.at \div VGA_WIDTH = (End(w) - 1) \div VGA_WIDTH
        /\ End(w) <= Window /\ \A c \in Counters : c \notin Cells(w)
    BY <2>1, Zenon DEF Written
  <2>3. ASSUME NEW j \in k + 1..Len(screen)
        PROVE  End(w) <= screen[j].at \/ End(screen[j]) <= w.at
    <3>1. j \in 1..Len(screen) /\ k < j BY <1>2
    <3>2. CASE Stacked(screen, X) BY <1>3, <3>1, <3>2, Zenon DEF Stacked
    <3>3. CASE Beside(screen) BY <3>1, <3>3, Zenon DEF Beside
    <3>4. QED BY <1>2, <3>2, <3>3
  <2>4. Read(w.text) = [j \in DOMAIN w.says |-> Codes[w.says[j] + 1]] BY <2>2, Zenon DEF Reads
  <2>5. /\ w.at \div VGA_WIDTH = (w.at + Len(w.text) - 1) \div VGA_WIDTH
        /\ w.at + Len(w.text) <= Window
    <3> DEFINE a == w.at
               l == Len(w.text)
    <3>1. a \in Nat /\ l \in Nat BY <2>1, WrittenTypes
    <3>2. End(w) = a + l BY DEF End
    <3> HIDE DEF a, l, w
    <3> DEFINE e == End(w)
    <3>3. e = a + l BY <3>2
    <3>4. a \div VGA_WIDTH = (e - 1) \div VGA_WIDTH /\ e <= Window BY <2>2 DEF a
    <3> HIDE DEF e
    <3>5. a \div VGA_WIDTH = (a + l - 1) \div VGA_WIDTH BY <3>1, <3>3, <3>4, SMT DEF VGA_WIDTH
    <3>6. a + l <= Window BY <3>3, <3>4
    <3>7. QED BY <3>5, <3>6 DEF a, l
  <2>6. \A j \in k + 1..Len(screen) :
          \/ w.at + Len(w.text) <= screen[j].at
          \/ screen[j].at + Len(screen[j].text) <= w.at
    BY <2>3, Zenon DEF End
  <2>7. QED BY <2>2, <2>4, <2>5, <2>6, Zenon DEF Intact
<1>4. \A k \in X : k \in {3, 4} /\ k <= machine.controllers /\ stage \in Over BY DEF X
<1>5. QED BY <1>3, <1>4, Zenon DEF ReportsIntact

\* On every machine for whose reports the text memory has room, what either
\* program prints stays in it, digit by digit, until the kernel clears what is
\* displayed: in one row, not on a counter, and with nothing else on top.  The
\* reports of a third and a fourth EHCI controller are the exception, between
\* EHCI_BulkOnly_Setup and that.
THEOREM EveryReportIntact ==
  ASSUME Screenful
  PROVE  BootSpec => []ReportsIntact
<1>1. ScreenInv /\ BootInv /\ [BootNext]_all => ScreenInv'
  <2> SUFFICES ASSUME ScreenInv, BootInv, [BootNext]_all PROVE ScreenInv' OBVIOUS
  <2>1. CASE BootNext BY <2>1, StepScreen
  <2>2. CASE UNCHANGED all
    <3>1. screens' = screens /\ machine' = machine /\ stage' = stage /\ n' = n
      BY <2>2 DEF all, screens
    <3>2. QED BY <3>1, QuietStep
  <2>3. QED BY <2>1, <2>2
<1>2. BootInv /\ ScreenInv => ReportsIntact BY ScreenIntact
<1>3. BootSpec => []ScreenInv BY InitScreen, BootHolds, <1>1, PTL DEF BootSpec
<1>4. QED BY BootHolds, <1>2, <1>3, PTL
=============================================================================
