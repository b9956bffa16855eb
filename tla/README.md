# Models and proofs for kernel-on-hardware

TLA+ models of the boot stub and the kernel under `src/source`, the TLC runs
that check them on small instances, and theorems about them that TLAPS proves
for all instances.  `PROJECT.json` maps every definition to the lines it
translates and lists the runs, the mutants, the findings, the hazards and the
theorems.

Check a run with `tlc -workers 2 -config MCHeap.cfg MCHeap`, a module of
proofs with `tlapm HeapProofs.tla`.

## The system

A BIOS boot loader (another repository) loads `STUB.ELF`.  The **stub**
(`source/stub`) runs in protected mode on one CPU: it sets up an IDT and the
PICs, walks PCI for an EHCI controller, enumerates a USB disk, reads
`KERNEL.ELF` from its FAT32 partition, copies the segments to where they are
linked and jumps to the kernel.  It never returns, and it leaves behind its
IDT, its unmasked timer and keyboard lines, and a USB controller that goes on
walking the stub's data structures.  The **kernel** (`source/kernel`) reloads
the IDT register with the same table, reprograms the PICs, registers its
handlers one by one with interrupts on, builds a heap from the BIOS memory
map, lists PCI functions and sleeps in a loop.  Its AHCI driver is complete as
far as it goes, and the call of `AHCI_init` is commented out at this commit.

There are no threads.  What is concurrent is: main code against interrupt
handlers; the CPU against the two 8259s and the devices that raise lines;
the stub's driver against the EHCI controller, which shares its queue heads
and transfer descriptors in memory; and the disk at the end of a lossy bus.

### Inventory

| Component | State | Operations | Interacts with | What is hard, and what makes it correct |
|---|---|---|---|---|
| interrupt core (`kernel/interrupt.c`, `.s`) | IDT gates, PIC masks | `interrupt_init`, `PIC_init`, `register_interrupt`, `PIC_line_enable` | CPU, PICs, every handler | A table in use is rewritten; a mask is read, changed and written back; wrappers save one register.  No jump through a half-written or missing gate; masks are what was asked for; nothing stays in service |
| timer (`kernel/time.c`) | `g_PIT_count_down` | `sleep`, tick handler | interrupt core | Test and halt are two steps.  Never early, never for ever |
| keyboard (`kernel/keyboard.c`) | the controller's one-byte buffer | handler | interrupt core | An edge lost is a keyboard lost.  A pressed key gets read |
| heap (`kernel/memory.c`) | `g_heapStart`, `g_pageCount` | `memory_init`, `alloc_page` | memory map, AHCI, PCI | Words of 64-bit quantities; memory never given back.  No page twice; heap where it should be |
| PCI (`kernel/pci.c`, `stub/pci.c`) | token buffer | `enum_PCI_count`, `enum_PCI`, `find_PCI_device` | `kernel_main`, stub | Two passes must agree; devices answer for functions they lack |
| AHCI (`kernel/ahci.c`) | command list and tables, device list | `AHCI_init`, `AHCI_read`, `AHCI_write`, `AHCI_execute_command`, handler | heap, interrupts, sleep | Slots, limits of the PRDT, polling a device that may fail |
| stub main (`stub/kernel.c`) | stage of the boot | `kernel_main` and the stub's handlers | all of the stub | What it leaves to the kernel |
| EHCI reset and enumeration (`stub/ehci.c`) | port registers, control QH, `USB_EHCI_MSB_INTERNALS` | `EHCI_Reset`, `EHCI_Init`, `wait_for_qh` | BIOS, controller, every device on the root hub | Handoff, addresses, descriptors of unknown devices |
| EHCI bulk transfers (`stub/ehci.c`) | QHs, qTDs, toggles | `EHCI_BulkOnly_Setup`, `EHCI_Read`, `usb_bulk_transaction` | controller, disk, file system | Shared memory without locks, repeated packets, reused descriptors, one tag for all reads.  Each read returns its own data |
| FAT (`stub/fs.c`) | none kept | `parse_*`, `parse_directory_findA`, `read_fileA` | EHCI reads | Chains and directories of a disk that may be corrupt |
| ELF (`stub/elf.c`) | none kept | `parse_ELF_*` | stub main | Segments copied, `.bss` not cleared |
| console and strings (`print.c`, `string.c`, dumps in `fs.c`, `elf.c`, `ehci.c`) | the screen, an index in each program | `cls`, `print_*` | both `kernel_main`s, `EHCI_BulkOnly_Setup` | Everybody begins at a row of their own choice.  What is printed stays where it is, with the digits meant |
| memory as a whole | addresses fixed in two programs and three drivers, stacks with buffers of a size the disk decides | | everything | Nothing in use lies over anything else in use, from the stub's first instruction to the kernel's loop |
| port I/O, CPUID, MSR, MTRR | none | | | Not modelled: single instructions |

## Plan

Modules in order, the most important behaviour first.

1. `Interrupts` with `Timer`, and `InterruptsProofs` - **done**
2. `EhciBulk` with `BlockReader`, and `EhciBulkProofs` - **done**: ring proved
3. `Heap`, and `HeapProofs` - **done**
4. `PciScan` - **done**
5. `FileLoader`, and `FileLoaderProofs` - **done**
6. `Ahci` with `SectorStore` - **done**
7. `EhciEnum` - **done**
8. `Boot` with `Console`, over `Heap` - **done**: stub and kernel in sequence
9. A disk that fails commands, in `EhciBulk` - **done**; the configuration
   ports and `find_PCI_device`, in `PciScan` - **done**; the ends of the command
   table's page and the direction of a transfer, in `Ahci` - **done**
10. Ports the BIOS has left enabled, in `EhciEnum` - **done**

Proofs: those of the list under "Theorems" are **done**, among them a theorem for
each safety property a run checks.

## Modules

**`Interrupts`** is `kernel_main` from its first call to its endless loop.
`pc` names the position; each access to shared state is an action:
`PIC_line_enable` is three (`_read`, `_mask`, `_write`), `register_interrupt` is
four (flag, two halves of the gate, flag), `sleep` is five.  `k` counts the
registrations of `interrupt_init`, `time_init`, `keyboard_init` and `AHCI_init`.
The environment is `Raise` and `KeyPress` (devices: edges latched in `irr`),
`Dispatch` (PIC priority with the cascade, the CPU's acceptance), `Spurious` and
`SpuriousSlave` (a request that vanishes, of either PIC: the vector of line 7, or that
of line 15 with the cascade's bit in service on the first), and `Handle`, one handler
from gate to `iret`, with its end of interrupt.  It is one step because the flag
stays clear in it.  The handlers are those of `time.c`, `keyboard.c`, `interrupt.c`,
`ahci.c`, and the stub's own for as long as its gates are in the table.

The wrappers save `%ebp` only, so that a handler returns with another value in
`%eax` (`Eax`): the timer's with the count it has stored, the others with any of the
bytes in `LeftInEax`; the spurious ones compute nothing.  It reaches the two locals
that `kernel_main` keeps there, the mask in `PIC_line_enable` and the count in
`sleep`'s condition.  `spoiled` notes that the mask has been overwritten.  So the
properties say what holds with the wrappers as they are: `NoWildDispatch` that the
CPU goes astray after such a mask, or from the second PIC's spurious vector, for
which there is no gate, and from nothing else; `NoTornGate` without any exception;
`MaskUnlessSpoiled` and `NothingLeftInService` what the mask and the in-service bits
are until then and after.

`Init` is what the stub leaves.  `g_PIT_count_down` starts as anything, because
nothing clears the kernel's `.bss`.  Code of `kernel_main` that touches nothing of
this, such as the heap, PCI and the screen, is left out here.

**`Timer`** is what `sleep` promises: not back before its ticks, and back as long as
the timer's line is not lost.

**`EhciBulk`** has three actors.  The driver is `EHCI_BulkOnly_Setup` from the
control QH on, then one `usb_bulk_transaction` per command; descriptors nobody can
reach yet are filled in one step, each store into the ring is a step of its own.
The controller has a `cursor`; at a QH it may `Fetch` the next qTD into the overlay,
`Execute` it, or `MoveOn`.  The disk takes a command block if its toggle is new,
queues the answer (`inq`) and sends the first packet until it sees it acknowledged;
`Loses` is an acknowledgement that does not arrive.  What becomes of a command is
its `fate`: done; failed with as much padding as data was asked for; failed with a
short packet; failed with a stalled data stage.  The driver looks at the tag of the
status only (`ehci.c:1108`), not at its signature or `bCSWStatus`.  Contents are
reduced to which command and which packet they belong to.  All commands use one
buffer here, as the stub's `main` does for several reads: old data in it must not
pass for new.

**`BlockReader`** is what the callers expect of `EHCI_Read`: each command is
answered with its own data, or its own padding, unless the disk has cut it short.

**`Heap`** is `memory_init`'s loop, one descriptor a step, and `alloc_page`.
Addresses count pages and wrap at `Word`.

**`PciScan`** is four walks over the configuration space, one position a step:
the stub's search, which also resets every EHCI controller it meets; the two
passes of the kernel, and `kernel_main`'s loop over the tokens; and
`find_PCI_device`.  A register is read by writing an address, put together from
bytes, to one port and reading another (`config_address`, `read_config_data`); the
host bridge takes the address apart again (`Selected`), so that an address
composed wrongly reads some other function.

**`FileLoader`** is the stub's `kernel_main` from its first `EHCI_Read` to the
jump, with `fs.c` and `elf.c`: MBR, BPB, root directory, the scan for the kernel's
entry one entry a step, `read_fileA` with a step for the window of the FAT, one
for the cluster and one for the next cluster, the program headers, and one
step per copied segment.  `EHCI_Read` is one step; what is behind it is
`EhciBulk`.  A sector's content is the role and number its place gives it
(`Content`), so that an LBA computed wrongly brings something recognisably wrong.
`WellFormed` says which disks are meant: a sound FAT32 file system.

**`Ahci`** has the driver, the adapter with its ports' registers, the disks and
the interrupt handler between any two steps.  The driver is `AHCI_init` (reset,
one port a step group, `IDENTIFY`, registration) and then calls of `AHCI_read`
and `AHCI_write`, of which `AHCI_execute_command` prepares header, table and
entries, sets `PxCI` and polls.  Pages are numbered as `alloc_page` gives them;
bytes of an LBA and of a count are kept apart, because the driver and the disk
must agree on them.  `Uppers` is what the firmware may have left in the
registers `AHCI_init` does not write.  `IS` keeps a bit until it is written, as AHCI
has it, and nobody writes it.  The interrupt line is seen by its edges, as the 8259s are set up in `PIC_init`.
`HonoursW` says whether data goes the way the command's header says, or the
command itself.  `PerPage` entries fit a command table's page: further ones lie in
the page behind, which nobody has yet, as long as the command is over before
anybody asks for it (`Given`).

**`SectorStore`** is what callers of `AHCI_read` and `AHCI_write` expect: the
sectors asked for are moved, and no others, before the call returns.

**`EhciEnum`** is `EHCI_Reset` and `EHCI_Init`, with the BIOS, the controller and
the devices.  The controller has `N_PORTS` ports, of which the driver looks at
`LastPort`, the number's low three bits (`ehci.c:525`).  Each request is a step that
puts its qTDs behind the queue head (`Submit`), after which the controller fetches
and executes them one by one; `wait_for_qh` is two steps, one for each of its reads.
Descriptors are records and buffers sequences of them, so that an offset is a number
of descriptors.  The parser stays where it is in front of a descriptor no branch
knows (`NoWayOn`).  A packet goes to the enabled device with the queue head's
address; if there is none, or more than one, the queue head halts.  The BIOS may
have left ports enabled, with addresses of its own: the code resets each port in its
turn and the controller never.  `AddressesUnique` says when two devices may then
share an address: only if the BIOS has given the one on the later port, which is not
reset yet or never will be, an address below its turn.  `DiskDescribed` says what
the result is as a function of all descriptors of all devices, those with another
interface behind the disk's included: then the device is not taken, and its numbers
stay in the result.

**`Boot`** is both `kernel_main`s in sequence, and extends `Heap`, whose
`memory_init` and `alloc_page` it takes as they are.  `stage` names what main does
next.  A call that has a module of its own is reduced to what others notice: its
`sleep`, its rows on the screen, its memory.  `sleep` is here for the stub and for
the kernel, with a counter each, and an interrupt leads to whoever's handler is in
its gate: the kernel turns interrupts on while all three gates are the stub's and
replaces them one by one.  `PIC_line_enable` is two steps, read and write, with
interrupts on; a handler in between may leave any mask (`Enabling`, `spoiled`).  A
spurious one of the first PIC leaves it alone.  The lines are the timer's, the
keyboard's, line 7, and one that stands for the first PIC's others, which have no
gate.  All of the second PIC's stay masked in the boot, and with them its spurious
vector.  `InUse` lists what is in use at a stage, with address and size in bytes:
code, stacks and the buffers on them, the IDT, the BIOS memory map, the controller's
lists, the file, the segments.  `Machine` is what the boot meets: how many
controllers, how large descriptors, clusters, file and segments are, and which of
the calls to dump a structure are compiled in (at this commit they are commented
out).

**`Console`** has no state.  A screen is the sequence of what has been written, and
where; `print_byte` is translated to the character, labels are reduced to their
lengths.  A structure is a sequence of pairs, length of label and digits.
`Intact` says that a piece of text has the digits it was meant to have, is in one row
of the text memory, and is under nothing that came later.  Rows from 25 on are in the
text memory and not displayed.

## Runs

| Run | Question | Bounds and why they are enough |
|---|---|---|
| `interrupts` | Is the interrupt core right with the wrappers as they are, and where not? | Timer, keyboard, a device nobody asked for, and one driver on each PIC: every kind of line, both controllers, in the order that is hard for the cascade, and the spurious vectors of both.  Two ticks: a sleep with a tick in it and one at its end.  A handler leaves the count or 0x20 in `%eax`: masks that let through every line, and all but one |
| `interrupts_build` | Is the mask what was asked for? | **Violated**, see below.  No AHCI lines: `kernel_main` as it is |
| `ehci_bulk` | Does every command return with its own data, whatever became of those before it? | The three setup commands with their tags, a read of two sectors and one of one: no data, one packet, several; both parities of the toggles; the pool restarted twice.  Two lost acknowledgements, anywhere, in both directions; at three for one packet the controller gives up (`CERR`).  Each command with data ends in each of the four ways |
| `heap` | Is the heap where it should be, each page given once? | All maps of three ranges, empty and reserved ones among them; every sequence of requests of one to three pages until the address space of eight is used up |
| `heap_largest` | Is it still, with memory above 4 GiB? | **Violated**, see below |
| `pci_scan` | Do the passes agree with the bus, and is what is looked for found? | Two buses of two devices of three functions: every carry of the walk.  One device answers in all ways, the last in all ways of two classes; a UHCI controller differs from EHCI in one byte |
| `file_loader` | Does the stub jump with the kernel in place? | A FAT of ten entries, two in a sector, of which four are read at once: the third window runs past the FAT's end.  All chains of up to three of four clusters in different windows; one and two FATs, clusters of one and two sectors; reserved bits set and not; the first and the last end mark; the kernel's entry first, later, behind and before long names, and missing.  Segments in reverse order, one empty |
| `ahci` | Are the disks found, and does each call move its sectors? | All pairs of nothing, ATAPI, and disks with 28- and 48-bit addresses, with ordinary sectors; before them a port with nothing or a disk with large sectors, of which nothing is asked.  Bytes of two values: 16 sectors below `lba_high` and a disk of 20, a count of 4 that is written as 0.  Entries of two units, so that a request takes up to three; the ends of the disk and of the low word.  One entry in the page: the second and third lie behind it.  Two calls: one that follows another |
| `ahci_upper`, `ahci_direction` | The same for other firmware, and other adapters | **Violated**, see below |
| `ehci_enum` | What does the enumeration return, and does it? | Three ports, each with nothing, a slow device, a disk, a camera, a composite device whose last interface is a disk's, an enclosure with an alternate setting behind its disk's, or one of two devices with a descriptor the parser does not know: two disks with other devices before, between and after them, and results put together from two devices.  Two descriptors in a packet: a configuration takes up to five.  Two packets without an answer, at any points: the driver gets beyond one only if it is a device's last, so that two cover one error after another.  The BIOS leaves any of the fast devices enabled, with any different addresses of 1 to 3: below, at and above a device's turn |
| `boot` | Does everything in memory and on the screen keep out of each other's way, and does the boot get through? | One to four controllers with each structure dumped or none; a kernel of one and of three segments; the largest cluster and configuration descriptor there are, and a file that reaches up to the kernel; a memory map with a hole and one without, and requests that bring the heap to just below the queue heads and beyond.  `SleepTicks` is 2 for all sleeps: one tick in a sleep and one that ends it.  Drivers ask for the larger requests only (`DriverRequests`): a page is what `kernel_main` itself takes.  The stub is taken to have at most 64 KB, and a stack's frames 8 KB |

Four properties are violated by the code, each against its own documentation:

* `interrupts_build`: a tick between `PIC_line_enable`'s read and its write
  changes `%eax` and with it the mask: lines of the first PIC come out enabled that
  nobody has asked for (`interrupt.c:43`, `interrupt.c:83`).
* `heap_largest`: `memory_init` compares the low words of lengths and keeps the
  low word of the base (`memory.c:75`).
* `ahci_upper`: `PxCLBU` and `PxFBU` keep what the firmware wrote, although the
  comments say that they are set (`ahci.c:234`, `ahci.c:238`).
* `ahci_direction`: the header of a write has its W bit clear.  An adapter that
  goes by the header never fetches the data, and `AHCI_write` does not return
  (`ahci.c:442`).  Emulators go by the command, and there it works.

The models show more of what the code does besides what its comments say, and the
properties that pass say so, each in its own terms:

* The sector size that `IDENTIFY DEVICE` tells in words is stored where 0x200 stands
  for ordinary sectors, in bytes (`ahci.c:299`): a disk with large sectors is
  registered with half their size.  `DeviceListRight` is that the size is right for
  ordinary sectors and for no others, and the count for all.
* The handler never writes `IS` (`ahci.c:595`), so that an adapter keeps its line up,
  and an edge-triggered 8259 sees one edge: completions after the first are never
  acknowledged.  `DriverReturns` is that the driver, which polls, gets along without.
  On boards that make the line level-triggered the handler would be called again
  without end, and emulators that recompute `IS` from `PxIS` hide it: neither is
  modelled.
* Three bits of the number of ports are looked at (`ehci.c:525`): with eight ports none
  is reset, with nine the first.  `DiskDescribed` is about the ports that are.
* A descriptor no branch of the parser knows keeps it for ever (`ehci.c:713`):
  `EnumerationEnds` excepts this (`NoWayOn`), and the run has such devices.
* The reports of a third and a fourth EHCI controller are printed over:
  `ReportsIntact` excepts them.

The comment at `stub/ehci.c:543` has the addresses of the periodic frame list and
its queue head as 0x04000000 and 0x03000000; the code has 0x01000000 and 0x04000000, and rightly so:
at 0x03000000 is the pool of qTDs, as a mutant of `MemoryApart` shows.

Deadlock is checked in the `interrupts` runs and in `ehci_bulk`.  In the others the
program, or the bound on requests, ends; in `boot` a CPU that has gone wild stops.

### Fairness

* `Interrupts`: the timer ticks for ever and handlers are straight-line code (weak).
  Ticks are 55 ms apart and handling one takes microseconds, so that main code
  which can go on again and again does, and an unmasked request is accepted;
  this needs strong fairness, as each is disabled while a handler runs.
  Nothing is assumed of other devices: they may never speak, or all the time.  One
  more is strong: that `sleep`'s test of a count of zero is not interrupted, between
  its load and its comparison, by a key's handler every single time, for that
  handler's `%eax` would then be compared instead.
* `EhciBulk`: the driver is alone on the CPU (weak).  The controller goes round
  the ring for ever (weak on `MoveOn`) and serves a QH that has work again and
  again (strong, because it only can while the cursor is there).  A disk's
  answer is part of `Execute`: it answers in the end, and may fail any command.
* `Boot`: main goes on unless it is in `hlt` (weak), and the timer ticks for ever
  (weak).  Every other interrupt may come at any time or never.
* `PciScan`, `FileLoader`: a sequential program goes on (weak).
* `Ahci`: driver, handler, the adapter's reset and each port go on (weak): each
  port has its own state machine, and `sleep(1)` gives it time.  Nobody has to
  make calls, and a device may fail any command.
* `EhciEnum`: driver, controller and BIOS go on (weak).

### Model-checked only

* Liveness, which TLAPS cannot prove under fairness: `BootReachesLoop`, `KeyServed`,
  `EthernetFound`, `LoaderEnds`, `DriverReturns`, `EnumerationEnds`, `Boots`, and
  the liveness that `SleepImplementsTimer` and `ImplementsReader` contain.  The
  safety of these two refinements is proved.

## Theorems

All are proved from the constants' assumptions, which TLC evaluates in the runs,
and from the hypotheses named here, which hold of the runs' constants as well.

* `InterruptsProofs`, with the wrappers as they are, for any devices and drivers' lines,
  whatever handlers leave in `%eax`: `TypeCorrect`; then `InterruptsSafe`, the inductive
  invariant `IInv`.  Gates are whole while the flag is set, since one is only half
  written with the flag clear (`FlagInv`, `GateInv`); until a mask is spoiled every line
  that is let through is registered (`MaskInv`); during a handler exactly its line, with
  the cascade for the second PIC, is in service (`ServiceInv`).  `NoWildDispatch` alone
  is not inductive: that the next dispatch is safe follows from masks, gates and the
  position in the registrations together.  `NeverWild`, `NeverTorn` and `AlwaysEnded`
  follow without further hypotheses.  `MaskIsEnables` adds what the masks and the local of
  `PIC_line_enable` hold at each of its three steps, until a handler changes the
  latter; its hypothesis is `NoClockLine`, that no driver has line 8, which the code
  takes for one of the first PIC.  `SleepNeverEarly` is that each step of the system is a
  step of `Timer` or leaves it alone; its hypothesis is `NoZeroLeft`, that no handler but
  the timer's leaves a zero in `%eax`, which `sleep`'s test would take for the end of the
  count.  The build's leave the byte of the end of interrupt or a port's number.
* `EhciBulkProofs`: `RingNeverBroken`.  The invariant relates how far the
  insertions are (`pc`) to which QHs have a link (`Linked`) and which can be
  reached (`Reached`), the controller's cursor among them.  The others rest on an
  invariant that says, for every stage of the driver, which qTDs are built and
  retired, where each queue head is among them, and how what the device has still
  to send continues what is stored: with the packet the next active qTD is for, or
  with one sent again, and then the toggles differ.  From it follow `BulkTypesHold`,
  `TogglesAgree`, `OnlyFreeQtds` and `ReadsTheBlocksAskedFor`, which is that each
  step is one of `BlockReader` or none.  `PoolAssumption` is what the numbers in the
  source fulfil: the commands of the setup fit in the pool behind each other, and
  a read fits in it alone.
* `EhciEnumProofs`: `EnumTypesHold`, `WaitedLongEnough` and `NoAddressTwice`, for any
  number of ports, whatever is connected, whatever the BIOS has left and whichever
  packets are lost; the last is that two devices share an address only if the BIOS has
  given one of them an address out of order, as `AddressesUnique` says.  It needs to
  know where `SET_ADDRESS` is on its way through the controller (`SettingInv`), that no
  other such request is pending (`RequestInv`), that ports behind have addresses below
  the next one to be given, and that there are no more of those than fast devices
  (`GivenInv`, `CountInv`).  `LastDiskDescribed` adds what holds as long as no packet has
  been lost and the devices are truthful: whose turn it is among the qTDs and what has
  arrived by then (`TurnInv`, `LengthInv`, `FillInv`, `SetInv`, `BufferInv`), which
  interface is the last behind the parser (`ParseInv`), what the result says of the
  interfaces and endpoints it has passed (`ShownInv`), and which is the last disk so far
  (`ResultInv`).  It has no hypothesis: that every packet is answered and the devices
  are truthful are conditions in the property, of the execution at hand.  `Truthful` is
  that `wTotalLength` counts the descriptors and the length in a video header does not
  lead past an interface.
* `HeapProofs`: `TypeCorrect` and `NoPageTwice`.  Blocks follow one another as
  distances from the heap's start (`BlocksInv`); lemmas about remainders carry
  that over to addresses that wrap, as long as no more than 4 GiB are asked for.
  `LargestRange` and `HandedOutIsMemory` hold under `Below4GiB`, that no range in
  the map starts or ends above 4 GiB: `heap_largest` shows that they need it.  The
  invariant is that of a search for a maximum, up to the descriptor it is at.
* `PciScanProofs`: `ScanTypesHold`, `EachFunctionOnce` and `LastControllers`, for any
  number of buses and devices and any configuration spaces.  What a walk has noted
  is the functions it has passed (`Passed`), in the order of the bus; the two passes
  agree as both have passed all there are when they end.
* `FileLoaderProofs`: `LoaderSafe` and, from it, `FileAlwaysRead`,
  `SegmentsAlwaysInPlace`, `KernelAlwaysFound` and `LoaderTypesHold`, for every sound
  disk, every chain, sector and window size.  The invariant follows the program: what is
  mounted (`Mounted`), what the entries so far have (`Scanned`), that after k
  clusters the buffer has exactly the file's first k and the next one is the
  chain's (`Reading`), and that segments already copied stay as they are
  (`Copying`).  Lemmas on quotients and remainders show that each LBA and each
  index into a window leads to the sector and the entry meant.
* `AhciProofs`: `NothingAstray`, `EveryDiskOnce` and `SizesRight`, for any number of
  ports and whatever is on them; the last is that all sector
  counts are right, and the sector sizes for exactly the disks with ordinary
  sectors.  The invariant says what `AHCI_init`'s loop has seen so far (`ProbeInv`),
  which ports have a command list and are in the device list (`ListInv`), what
  header and table of the command at hand hold (`TableInv`), that no other is with
  the adapter (`IssuedInv`), and that an `IDENTIFY` that is over has brought its own
  port's device (`IdentifyInv`).  The hypothesis `FirmwareLeavesZero`, that the
  firmware has left `PxCLBU` and `PxFBU` at zero, is needed, as `ahci_upper` shows;
  The theorems about transfers also have `OrdinarySectors`: sectors of 512 bytes, or
  disks that do not tell their sectors' size. `MovesTheSectors` is that the driver
  with the adapter implements `SectorStore`: the step in which a disk moves a call's
  data is `CarryOutRead` or `CarryOutWrite`, the call and its return are `Ask` and
  `Return`, and every other step leaves the store alone.  It rests on lemmas for any
  base of a byte, any chunk and any request: a block address read back from its six
  bytes is the one asked for (`NumberOfLba`), a count of which only two bytes are
  kept is that count, 0 standing for the most there are (`NumberOfCount`), and the
  entries of a table cover the buffer once and in order (`PlacesOfBuffer`).  What
  the recursive functions `Number` and `Places` give is proved by induction, with a
  set of naturals having a least element (`Least`) in place of the library's
  theorems, which take an operator.  The invariants are that the table at hand is
  the one made for the call (`AskedInv`) and that disks and buffer keep their sizes
  (`SizesInv`).  `AhciTypesHold` needs, for writes, that callers' buffers have room
  for what they ask for (`BuffersSuffice`): what would be written from behind one is
  in no unit.
* `BootProofs`: `BootUsesHeap`, so that what is proved of the heap holds in the boot;
  `InterruptsHandled`, that from the stub's `sti` on no gate is missing for a line that
  is let through, or for the first PIC's spurious vector, whichever program has written
  it, until a handler has spoiled a mask in the kernel's `PIC_line_enable`, and that the
  CPU is lost only after that; `EverythingApart`, `EveryReportIntact` and
  `HexDigitsRight`.

  For `EverythingApart` memory is divided into zones between the addresses fixed in
  the code, each thing in use is in a zone of its own, and the segments are behind the
  last.

  For `EveryReportIntact` the screen is a pile of rows.  What is written is in one
  row, inside the text memory, beside the counters of the timer and the keyboard, and
  reads as the digits meant (`Written`); rows of one report are one below the other
  (`Block`); a report is below what was there before, but for the rows of a third and
  a fourth controller (`Stacked`, `Above`); and the kernel's `cls` leaves only what is
  behind the visible screen, in its old order (`Kept`), so that what the kernel writes
  from row 0 on is beside it (`Beside`, `FreeFrom`).  The invariant `ScreenInv` says
  where `index` is in the pile at each stage: while controllers are searched
  (`SearchInv`), at `EHCI_BulkOnly_Setup`'s fixed rows (`PrintInv`), below them
  (`StackInv`), and in the kernel (`KernelInv`).  That its rows read as meant comes from
  lemmas on digits, for every value of a byte, a word and a double word: a value is
  its nibbles, a nibble prints as the character of its digit, and reading
  leaves out blanks and letters and nothing else.  `HexDigitsRight` is this for
  `print_dword`, all 2^32 values.  What `Without` leaves of a sequence (`cls`
  and `Read` are made of it) is proved by induction over the sequence's length: of
  sequences joined (`WithoutConcat`) and of order (`WithoutOrder`).

  The hypotheses are in `Boot`, under "What the program is laid out for": the
  programs do not check them, and TLC evaluates them for the run's machines
  (`LaidOut` of `MCBoot`).  They are `LowMemory` (the stub's image ends
  before its counter at 0x30000, its stack has room for the largest buffers, and the
  memory map ends before the IDT), `HighMemory` (clusters of at most 64 KB, a file
  that ends below 160 MB, segments behind 160 MB that do not overlap),
  `HeapHigh` (the longest usable range is above 1 MB, and the heap ends below 4 GiB)
  and `Screenful` (at most four EHCI controllers and 25 Ethernet cards, no field
  longer than a row, and a row of the text memory for each field of each program
  header).  `EveryReportIntact` needs the last only.

## Not modelled

* `Interrupts` takes the CPU's one-instruction delay after `sti` and the
  initialisation words of each PIC as one step.  What a handler leaves in `%eax` reaches
  the locals of `PIC_line_enable` and `sleep`; other code that is interrupted with a value
  in `%eax`, `%ecx` or `%edx`, in `kernel_main`, the heap, PCI and the stub, is taken for
  undisturbed, as in every other module.  A line of 8 to `PIC_line_enable` is outside
  the runs: the code takes it for one of the first PIC's, and `MaskUnlessSpoiled` fails
  for it.
* Keys pressed before `PIC_init` may be lost, and with them the keyboard, until
  port 0x60 is read: `KeyServed` is about requests latched afterwards.
* `EhciBulk` assumes that `GET_MAX_LUN` is over when `sleep(10)` returns: nothing
  in the code checks it (`lun_sleep`, and its mutant).  Ten ticks are half a second, and
  the request takes a few milliseconds; for a device slower than that nothing is shown,
  as its qTDs are taken again while it has them.  Enumeration is over and
  the control QH idle.  The fields the controller shares are volatile in the
  source and each store is visible at once.
* `EhciBulk`: a command the disk cuts short never returns, as the code polls
  without end: nothing is asked for after that.  A status stage that stalls, with
  which a command without data may also end, is left out (`Ends`).
* `PciScan` takes each configuration read as undisturbed by interrupts.
* `FileLoader`: directories longer than their first cluster or not in cluster
  2, names of which `KERNEL` is only the beginning, chains with a cycle, reads
  that fail, and `.bss`, which nothing clears.
* `Ahci`: calls for ports that are not in the list, a count of 0, buffers that
  wrap at 4 GiB, data of a failed command; `GHC.AE` is taken as set.
* `Ahci` also takes the links for up when the reset is over, and the code does not
  look again.  `EhciEnum`'s driver goes on after `sleep(0x20)` whether or not the BIOS
  has let go, as the code does; what the BIOS would do to the controller then is left out.
* `EhciEnum`: what comes after two devices have had one address; what lies at
  address 0, which `last_interfaceDesc` points to as long as no interface has been met,
  is taken for no class the parser knows; a controller that shows the overlay's next
  pointer before its token, for which `wait_for_qh` returns early; an answer to
  `SET_CONFIGURATION` that is lost in its last packet, after which the disk is
  reported all the same.  A halted queue head makes the driver wait for ever:
  after an error `DiskDescribed` and `EnumerationEnds` ask for nothing.  What the
  second half of the stub does with a result put together from two devices is left out.
* `Boot`: what handlers leave in `%eax`, but for the mask in `PIC_line_enable`; a
  registration is one step, with interrupts off in it (`Interrupts` has its four).
  An image of the stub of more than 64 KB, or frames of more than 8 KB; clusters and
  configuration descriptors are on its stack, and end below them only if those
  limits hold.  A heap that has grown past the queue heads, which the controller
  goes on walking, and past the kernel: nothing in `alloc_page` stops it.
  `g_consoleIndex` and `g_consoleRow` are taken for 0, although nothing clears
  `.bss`.  No EHCI controller, and no disk.  The number of qTDs (`Qtds`) is the most
  that a stage can take before `qtd_count` is 0 again.
* `Console`: the other dumps in `ehci.c` and `print_PCI_header`, which nothing
  calls, `print_memmap`, and the text itself.  Rows from 25 on, counted from 0, are
  in the text memory and not visible: the program headers of a kernel with three segments
  run down to row 32.
* Port I/O, CPUID, MSR and MTRR access: single instructions, and the functions
  around the last three have no caller.
