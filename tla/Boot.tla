-------------------------------- MODULE Boot --------------------------------
(***************************************************************************)
(* The machine from the stub's first instruction to the kernel's loop:     *)
(* both kernel_main procedures in sequence, with what they leave to each   *)
(* other.  Each finds the memory, the interrupt table and the screen as    *)
(* the other has left them, a timer that ticks, and a USB controller that  *)
(* nobody stops.  What the drivers and the file system do in their calls   *)
(* is in the modules of their own; here a call is the memory it takes, the *)
(* rows it prints, and its sleep.  Of the interrupts those are here that    *)
(* this boot may see: the timer's and the keyboard's, the first PIC's      *)
(* spurious vector, and a line that has no gate and is let through by      *)
(* mistake.  A handler's registers matter here where PIC_line_enable is    *)
(* interrupted, nowhere else; Interrupts has the rest.                     *)
(*                                                                         *)
(* Addresses count bytes; Heap's count pages.                              *)
(***************************************************************************)
EXTENDS Heap, Console

CONSTANTS
  Machines,     \* what may be found, and what the builds may be like
  StubBytes,    \* the stub's image
  Frames,       \* return addresses, saved registers and small locals on a stack
  SleepTicks,   \* the arguments of sleep, cut short to this
  DriverRequests  \* of Requests, those of drivers

Page == 4096

\* controllers: EHCI controllers found, function 0 of devices 1, 2, ... of bus 0
\* cluster: bytes of one; file: bytes of KERNEL.ELF in clusters
\* headers: the program headers; shown: the structure main prints before them
\* (none at this commit: the call is commented out); capacity: whether the
\* setup prints READ CAPACITY (so is that one); ethernets: as controllers
Machine == [controllers : Nat \ {0}, conf : 0..65535, cluster : Nat, file : Nat,
            headers : Seq([p_vaddr : Nat, p_memsz : Nat]), shown : Seq(Seq(Nat \X Nat)),
            capacity : BOOLEAN, ethernets : Nat]

ASSUME BootAssumption ==
  /\ Machines \subseteq Machine
  /\ StubBytes \in Nat /\ Frames \in Nat
  /\ SleepTicks \in Nat \ {0}
  /\ 1 \in Requests /\ DriverRequests \subseteq Requests

VARIABLES
  machine,
  stage,         \* what main does next, or "wild" after a jump to nowhere
  n,             \* how many of the things of a loop are done
  tables,        \* of "idtr" and "pics" those that are set up
  intr,          \* the CPU's interrupt flag
  unmasked,      \* lines the PICs let through
  pic_mask,      \* PIC_line_enable's local, in %eax: the lines it will let through
  spoiled,       \* history: a handler has changed that local
  gate,          \* whose handler an interrupt leads to
  countdown,     \* each program's counter of ticks
  sleeping, halted,
  screen, index  \* index: where the next character goes

heap   == vars
screens == <<screen, index>>
masks  == <<unmasked, pic_mask, spoiled>>
interrupts == <<tables, intr, masks, gate>>
timer  == <<countdown, sleeping, halted>>
all    == <<machine, stage, n, interrupts, timer, screens, heap>>

\* Of the first PIC: timer, keyboard, one for all those that have no gate,
\* and the one whose vector is the spurious one.  The masks of the second
\* stay as its initialisation leaves them, all set.
Lines == {0, 1, 5, 7}

StubStages == {"cls", "lidt", "remap", "gates", "sti", "search", "init", "setup", "report",
               "mount", "read", "show", "headers", "copy"}

BootInit ==
  /\ machine \in Machines /\ stage = "cls" /\ n = 0
  /\ tables = {} /\ intr = FALSE
  /\ unmasked = {0, 1} /\ pic_mask = {} /\ spoiled = FALSE
  /\ gate = [l \in Lines |-> "none"]
  /\ countdown = [p \in {"stub", "kernel"} |-> 0] /\ sleeping = FALSE /\ halted = FALSE
  /\ screen = <<>> /\ index = 0
  /\ Init

\* Main goes on: not in sleep, and not after a jump to nowhere.
Goto(from, to) == ~sleeping /\ stage = from /\ stage' = to

\* Calls sleep().
Sleep(p) == countdown' = [countdown EXCEPT ![p] = SleepTicks] /\ sleeping' = TRUE /\ UNCHANGED halted

Quiet == UNCHANGED <<interrupts, timer>>

-----------------------------------------------------------------------------
(* Sleep and interrupts.                                                   *)

Program == IF stage \in StubStages THEN "stub" ELSE "kernel"

\* The condition of sleep's loop, which returns or halts.
sleep_test ==
  /\ sleeping /\ ~halted /\ stage # "wild"
  /\ IF countdown[Program] > 0 THEN halted' = TRUE /\ UNCHANGED sleeping
                               ELSE sleeping' = FALSE /\ UNCHANGED halted
  /\ UNCHANGED <<machine, stage, n, interrupts, countdown, screens, heap>>

\* PIC_line_enable has the mask in %eax, which the wrappers do not save.
Enabling == stage \in {"k_time_write", "k_keyboard_write"}

\* A device interrupts, or the PIC sends a spurious vector, which no mask
\* holds back.  Without the table or a gate the CPU is lost.  What a handler
\* that computes leaves in %eax may be any mask.
Interrupt(l) ==
  /\ intr /\ stage # "wild" /\ l \in unmasked \cup {7}
  /\ IF tables = {"idtr", "pics"} /\ gate[l] # "none"
       THEN /\ halted' = FALSE /\ UNCHANGED stage
            /\ countdown' = IF l = 0 /\ countdown[gate[0]] > 0
                              THEN [countdown EXCEPT ![gate[0]] = @ - 1] ELSE countdown
       ELSE stage' = "wild" /\ UNCHANGED <<halted, countdown>>
  /\ IF Enabling /\ l # 7 THEN pic_mask' \in SUBSET Lines /\ spoiled' = TRUE
                           ELSE UNCHANGED <<pic_mask, spoiled>>
  /\ UNCHANGED <<machine, n, tables, intr, unmasked, gate, sleeping, screens, heap>>

-----------------------------------------------------------------------------
(* The stub.                                                               *)

stub_cls == /\ Goto("cls", "lidt")
            /\ screen' = cls(screen)
            /\ countdown' = [countdown EXCEPT !["stub"] = 0]
            /\ UNCHANGED <<machine, n, interrupts, sleeping, halted, index, heap>>

loadIDTR == /\ Goto("lidt", "remap") /\ tables' = tables \cup {"idtr"}
            /\ UNCHANGED <<machine, n, intr, masks, gate, timer, screens, heap>>

\* Masks 0xFC and 0xFF.
remapPICs == /\ Goto("remap", "gates")
             /\ tables' = tables \cup {"pics"} /\ unmasked' = {0, 1}
             /\ UNCHANGED <<machine, n, intr, pic_mask, spoiled, gate, timer, screens, heap>>

\* Mutant: no gate for the spurious vector.
setIDT_two_gates ==
  /\ Goto("gates", "sti") /\ gate' = [gate EXCEPT ![0] = "stub", ![1] = "stub"]
  /\ UNCHANGED <<machine, n, tables, intr, masks, timer, screens, heap>>

setIDT == /\ Goto("gates", "sti") /\ gate' = [gate EXCEPT ![0] = "stub", ![1] = "stub", ![7] = "stub"]
          /\ UNCHANGED <<machine, n, tables, intr, masks, timer, screens, heap>>

PIT_Init_enable_interrupts ==
  /\ Goto("sti", "search") /\ intr' = TRUE
  /\ UNCHANGED <<machine, n, tables, masks, gate, timer, screens, heap>>

\* A controller found: its place on the bus and its command register.
Report(at, device) ==
  [at   |-> at,
   text |-> print_byte(0) \o print_space(1) \o print_byte(device) \o print_space(1)
            \o print_byte(0) \o print_space(2) \o print_dword(device * 1048576 + 6),
   says |-> Nibbles(0, 2) \o Nibbles(device, 2) \o Nibbles(0, 2)
            \o Nibbles(device * 1048576 + 6, 8)]

\* EHCI_Reset sleeps, and prints nothing.
find_EHCI == /\ Goto("search", "search") /\ n < machine.controllers
             /\ n' = n + 1
             /\ screen' = Append(screen, Report(index, n + 1))
             /\ index' = (n + 1) * VGA_WIDTH
             /\ Sleep("stub")
             /\ UNCHANGED <<machine, interrupts, heap>>

EHCI_Init == /\ Goto("search", "init") /\ n = machine.controllers
             /\ Sleep("stub")
             /\ UNCHANGED <<machine, n, interrupts, screens, heap>>

EHCI_Init_return == /\ Goto("init", "setup") /\ Sleep("stub")
                    /\ UNCHANGED <<machine, n, interrupts, screens, heap>>

\* USBCMD and USBSTS, from row 2 on, whatever is there.
EHCI_BulkOnly_Setup ==
  /\ Goto("setup", "report") /\ Quiet
  /\ LET at == 2 * VGA_WIDTH
         capacity == IF machine.capacity THEN SCSI_READ_CAPACITY ELSE <<>>
         next == Behind(capacity, at)
     IN screen' = screen \o Rows(capacity, at)
                  \o <<Labelled(next, 24, 524321, 8), Labelled(next + VGA_WIDTH, 24, 32776, 8)>>
  /\ UNCHANGED <<machine, n, index, heap>>

\* The boot sector's last two bytes, in row 8.
print_signature ==
  /\ Goto("report", "mount") /\ Quiet
  /\ screen' = Append(screen, [at |-> 8 * VGA_WIDTH,
                               text |-> print_string(36) \o print_byte(85) \o print_byte(170),
                               says |-> Nibbles(85, 2) \o Nibbles(170, 2)])
  /\ index' = 9 * VGA_WIDTH
  /\ UNCHANGED <<machine, n, heap>>

\* MBR, BPB and root directory, whose cluster gets its place on the stack.
mount == Goto("mount", "read") /\ Quiet /\ UNCHANGED <<machine, n, screens, heap>>

read_fileA == Goto("read", "show") /\ Quiet /\ UNCHANGED <<machine, n, screens, heap>>

\* A structure, if main is built to show one.
Shown(m) == IF m.shown = <<>> THEN <<>> ELSE m.shown[1]

show == /\ Goto("show", "headers") /\ n' = 0 /\ Quiet
        /\ screen' = screen \o Rows(Shown(machine), index)
        /\ index' = Behind(Shown(machine), index)
        /\ UNCHANGED <<machine, heap>>

print_ELF_PROGRAM_HEADER ==
  /\ Goto("headers", "headers") /\ n < Len(machine.headers) /\ Quiet
  /\ n' = n + 1
  /\ screen' = screen \o Rows(ELF_PROGRAM_HEADER, index)
  /\ index' = Behind(ELF_PROGRAM_HEADER, index)
  /\ UNCHANGED <<machine, heap>>

copy_segments == /\ Goto("headers", "copy") /\ n = Len(machine.headers) /\ n' = 0 /\ Quiet
                 /\ UNCHANGED <<machine, screens, heap>>

copy_segment == /\ Goto("copy", "copy") /\ n < Len(machine.headers) /\ n' = n + 1 /\ Quiet
                /\ UNCHANGED <<machine, screens, heap>>

core_start == /\ Goto("copy", "k_cls") /\ n = Len(machine.headers) /\ Quiet
              /\ UNCHANGED <<machine, n, screens, heap>>

Stub == \/ stub_cls \/ loadIDTR \/ remapPICs \/ setIDT \/ PIT_Init_enable_interrupts
        \/ find_EHCI \/ EHCI_Init \/ EHCI_Init_return \/ EHCI_BulkOnly_Setup \/ print_signature
        \/ mount \/ read_fileA \/ show \/ print_ELF_PROGRAM_HEADER
        \/ copy_segments \/ copy_segment \/ core_start

-----------------------------------------------------------------------------
(* The kernel.  g_consoleIndex, in .bss as well, is taken for 0.            *)

kernel_cls == /\ Goto("k_cls", "k_cli") /\ Quiet
              /\ screen' = cls(screen) /\ index' = 0
              /\ UNCHANGED <<machine, n, heap>>

disable_interrupts == /\ Goto("k_cli", "k_pics") /\ intr' = FALSE
                      /\ UNCHANGED <<machine, n, tables, masks, gate, timer, screens, heap>>

\* Masks 0xFB and 0xFF, and then sti: the gates are still the stub's.
interrupt_init_PICs ==
  /\ Goto("k_pics", "k_spurious") /\ unmasked' = {} /\ intr' = TRUE
  /\ UNCHANGED <<machine, n, tables, pic_mask, spoiled, gate, timer, screens, heap>>

register_spurious ==
  /\ Goto("k_spurious", "k_time") /\ gate' = [gate EXCEPT ![7] = "kernel"]
  /\ UNCHANGED <<machine, n, tables, intr, masks, timer, screens, heap>>

\* register_interrupt is one step, with interrupts off in it.
time_init ==
  /\ Goto("k_time", "k_time_read") /\ gate' = [gate EXCEPT ![0] = "kernel"]
  /\ UNCHANGED <<machine, n, tables, intr, masks, timer, screens, heap>>

keyboard_init ==
  /\ Goto("k_keyboard", "k_keyboard_read") /\ gate' = [gate EXCEPT ![1] = "kernel"]
  /\ UNCHANGED <<machine, n, tables, intr, masks, timer, screens, heap>>

\* The mask is read, and the line's bit cleared in it, ...
PIC_line_enable_read ==
  /\ \/ Goto("k_time_read", "k_time_write") /\ pic_mask' = unmasked \cup {0}
     \/ Goto("k_keyboard_read", "k_keyboard_write") /\ pic_mask' = unmasked \cup {1}
  /\ UNCHANGED <<machine, n, tables, intr, unmasked, spoiled, gate, timer, screens, heap>>

\* ... and it is written back, with interrupts on all the time.
PIC_line_enable_write ==
  /\ \/ Goto("k_time_write", "k_keyboard")
     \/ Goto("k_keyboard_write", "k_memory")
  /\ unmasked' = pic_mask
  /\ UNCHANGED <<machine, n, tables, intr, pic_mask, spoiled, gate, timer, screens, heap>>

kernel_memory_init ==
  /\ Quiet /\ \/ memory_init /\ Goto("k_memory", "k_memory")
              \/ memory_init_return /\ Goto("k_memory", "k_tokens")
  /\ UNCHANGED <<machine, n, screens>>

alloc_tokens == /\ Goto("k_tokens", "k_print") /\ n' = 0 /\ Quiet
                /\ alloc_page(1)
                /\ UNCHANGED <<machine, screens>>

\* A row for each Ethernet card, and the next begins a new one.
print_ethernet ==
  /\ Goto("k_print", "k_print") /\ n < machine.ethernets /\ n' = n + 1 /\ Quiet
  /\ screen' = Append(screen,
       [at   |-> index,
        text |-> print_string(20) \o print_byte(0) \o print_string(10) \o print_byte(n + 1)
                 \o print_string(12) \o print_byte(0),
        says |-> Nibbles(0, 2) \o Nibbles(n + 1, 2) \o Nibbles(0, 2)])
  /\ index' = (n + 1) * VGA_WIDTH
  /\ UNCHANGED <<machine, heap>>

\* The loop sleeps and counts on the screen, for ever.
loop == /\ ~sleeping /\ stage = "k_print" /\ n = machine.ethernets
        /\ stage' = "loop" /\ Sleep("kernel")
        /\ UNCHANGED <<machine, n, interrupts, screens, heap>>

loop_again == /\ Goto("loop", "loop") /\ Sleep("kernel")
              /\ UNCHANGED <<machine, n, interrupts, screens, heap>>

\* Drivers that are called take pages from the heap.
driver_alloc == /\ ~sleeping /\ stage = "loop" /\ \E count \in DriverRequests : alloc_page(count)
                /\ UNCHANGED <<machine, stage, n, interrupts, timer, screens>>

Kernel == \/ kernel_cls \/ disable_interrupts \/ interrupt_init_PICs \/ register_spurious
          \/ time_init \/ keyboard_init \/ PIC_line_enable_read \/ PIC_line_enable_write
          \/ kernel_memory_init \/ alloc_tokens
          \/ print_ethernet \/ loop \/ loop_again

Main == sleep_test \/ Stub \/ Kernel

BootNext == Main \/ driver_alloc \/ \E l \in Lines : Interrupt(l)

\* Main goes on while it is not in hlt, and the timer ticks for ever.
BootSpec == BootInit /\ [][BootNext]_all /\ WF_all(Main) /\ WF_all(Interrupt(0))

-----------------------------------------------------------------------------
(* Who uses which memory.                                                   *)

StubRuns   == stage \in StubStages
KernelRuns == ~StubRuns
Driving    == StubRuns /\ stage \notin {"cls", "lidt", "remap", "gates", "sti", "search"}
Loading    == stage \in {"read", "show", "headers", "copy"}

\* An interrupt may still go through a gate to this program.
Entered(p) == \E l \in unmasked \cup {7} : gate[l] = p

stub_image        == 131072            \* 128K
PIT_count_down    == 196608            \* 0x30000
g_memoryMapPtr    == 393216            \* 0x60000
g_IDTPtr          == 458752            \* 0x70000
stub_stack        == 589824            \* 0x90000
VGABuffer         == 753664            \* 0xB8000
PERIODICLISTBASE  == 16777216          \* 0x01000000
QH_BASE_ADDR      == 33554432          \* 0x02000000
QTD_BASE_ADDR     == 50331648          \* 0x03000000

\* Mutant: where the comment above the code has it, at 0x03000000.
periodic_queue_head_commented == QTD_BASE_ADDR
periodic_queue_head == 67108864        \* 0x04000000
kernel_buf        == 83886080          \* 0x05000000
kernel_stack      == 167772160         \* 0x0A000000

\* The largest number of qTDs before qtd_count is 0 again.  EHCI_Init takes
\* them for up to 7 devices: a device descriptor, the configuration's first
\* bytes and all of it in packets of 64, and two requests without data.  A
\* read takes the command, the status, and one for each page of a cluster.
Qtds == IF stage = "init" THEN 7 * (12 + (machine.conf + 63) \div 64) ELSE 2 + 128

\* Buffers on the stub's stack: read_buf, and what else there is at a time.
StackBytes ==
  Frames + 1024 +
  CASE stage = "init"  -> machine.conf
    [] stage = "setup" -> 36 + 8 + 1024
    [] stage = "read"  -> machine.cluster + 16384
    [] stage \in {"show", "headers", "copy"} -> machine.cluster + 32 * Len(machine.headers)
    [] OTHER -> 0

Use(what, from, size) == [what |-> what, from |-> from, size |-> size]

Copied == IF StubRuns /\ stage # "copy" THEN 0 ELSE IF StubRuns THEN n ELSE Len(machine.headers)

\* The frame list and its queue head are only written: that schedule is never
\* turned on.  The other one is never turned off.
InUse ==
  {Use("IDT", g_IDTPtr, 2048), Use("text", VGABuffer, 2 * Window)}
  \cup (IF StubRuns \/ Entered("stub") THEN {Use("stub", stub_image, StubBytes)} ELSE {})
  \cup (IF StubRuns \/ (0 \in unmasked /\ gate[0] = "stub")
           THEN {Use("countdown", PIT_count_down, 4)} ELSE {})
  \cup (IF pc = "scan" THEN {Use("map", g_memoryMapPtr, 2 + 24 * Len(map))} ELSE {})
  \cup (IF StubRuns THEN {Use("stack", stub_stack - StackBytes, StackBytes)} ELSE {})
  \cup (IF Driving THEN {Use("frames", PERIODICLISTBASE, 4096),
                         Use("periodic", periodic_queue_head, 96),
                         Use("qTDs", QTD_BASE_ADDR, 64 * Qtds)} ELSE {})
  \cup (IF Driving \/ KernelRuns THEN {Use("heads", QH_BASE_ADDR, 3 * 96)} ELSE {})
  \cup (IF Loading THEN {Use("file", kernel_buf, machine.file)} ELSE {})
  \cup {Use("segment", machine.headers[k].p_vaddr, machine.headers[k].p_memsz) : k \in 1..Copied}
  \cup (IF KernelRuns THEN {Use("kstack", kernel_stack - Frames, Frames)} ELSE {})

Apart(u, v) == u.from + u.size <= v.from \/ v.from + v.size <= u.from

Heaped == {Use("heap", b.at * Page, b.count * Page) : b \in blocks}

-----------------------------------------------------------------------------
(* What the program is laid out for.                                        *)

\* The stub's image ends below its timer's counter, its stack has room for
\* the largest buffers above the interrupt table, and the memory map below.
LowMemory ==
  /\ stub_image + StubBytes <= PIT_count_down
  /\ g_IDTPtr + 2048 + Frames + 1024 + 65536 + 16384 <= stub_stack
  /\ \A m \in Maps : g_memoryMapPtr + 2 + 24 * Len(m) <= g_IDTPtr

SegmentOf(m, k) == Use("segment", m.headers[k].p_vaddr, m.headers[k].p_memsz)

\* FAT32's clusters, a file that fits below the kernel, and the kernel's
\* linker script, which puts the segments one behind the other.
HighMemory == \A m \in Machines :
  /\ m.cluster <= 65536 /\ Len(m.headers) <= 512
  /\ kernel_buf + m.file <= kernel_stack
  /\ \A k \in 1..Len(m.headers) : m.headers[k].p_vaddr >= kernel_stack
  /\ \A j, k \in 1..Len(m.headers) : j # k => Apart(SegmentOf(m, j), SegmentOf(m, k))

\* The longest usable range is above the first megabyte, and the heap stays
\* below 4 GiB.
HeapHigh == \A m \in Maps :
  /\ \E j \in 1..Len(m) : m[j].type = 1 /\ m[j].lengthL > 0
       /\ \A o \in 1..Len(m) : m[o].type = 1 /\ m[o].lengthL >= m[j].lengthL => m[o].baseL >= 256
  /\ \A j \in 1..Len(m) : \A c \in BssCounts :
       m[j].type = 1 => m[j].baseL + c + MaxPages < Word

\* At most four controllers, the reports of the first two above the rows where
\* EHCI_BulkOnly_Setup prints; a card in each row; no field longer than a row;
\* and the text memory holds a row for each field of each program header.
Screenful == \A m \in Machines :
  /\ m.controllers <= 4 /\ m.ethernets <= VGA_HEIGHT
  /\ \A k \in DOMAIN Shown(m) : Shown(m)[k][1] + Shown(m)[k][2] \in 1..VGA_WIDTH
  /\ (9 + Len(Shown(m)) + 8 * Len(m.headers)) * VGA_WIDTH <= Window

-----------------------------------------------------------------------------
(* Properties.                                                              *)

\* At no time does anything that is in use lie over anything else that is,
\* through both programs: code, stacks with the buffers on them, tables of
\* the CPU and of the controller, the file and the segments, and the pages of
\* the kernel's heap, until it has grown up to the queue heads, which the
\* controller still walks.
MemoryApart ==
  /\ \A u, v \in InUse : u # v => Apart(u, v)
  /\ \A u \in InUse, h \in Heaped : h.from + h.size <= QH_BASE_ADDR => Apart(u, h)

Counters == {78, 79, VGA_WIDTH + 78, VGA_WIDTH + 79}

\* What either program prints stays in the text memory, with the digits
\* meant, until the kernel clears what is displayed.  (The displayed rows are
\* the first 25: what is printed behind them can be found there, not seen.)
\* Only the reports of a third and a fourth EHCI controller are overprinted,
\* from EHCI_BulkOnly_Setup, which prints in their rows, to that cls.
ReportsIntact ==
  \A k \in 1..Len(screen) :
    \/ Intact(screen, k, Counters)
    \/ /\ k \in {3, 4} /\ k <= machine.controllers
       /\ stage \in {"report", "mount", "read", "show", "headers", "copy", "k_cls"}

\* The boot gets through to the kernel's loop: each sleep of the stub ends,
\* and whatever interrupt comes, from the stub's sti on and while the kernel
\* replaces one gate after the other, finds a handler.  It is lost only when a
\* tick has come between PIC_line_enable's read and its write, so that a line
\* without a gate is let through.
Boots == <>(stage = "loop" \/ (stage = "wild" /\ spoiled))
=============================================================================
