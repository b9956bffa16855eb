----------------------------- MODULE Interrupts -----------------------------
(***************************************************************************)
(* The interrupt core of the kernel: interrupt.c, time.c, keyboard.c, their *)
(* assembly wrappers, and the parts of kernel_main that drive them, on one *)
(* CPU with two cascaded 8259 interrupt controllers.                       *)
(*                                                                         *)
(* The main program runs kernel_main from the jump out of the boot stub to *)
(* the endless sleep loop, one shared-state access per step, and may be    *)
(* interrupted between any two steps while the interrupt flag is set.  The *)
(* devices, the controllers and the CPU's acceptance of an interrupt are   *)
(* the environment.                                                        *)
(***************************************************************************)
EXTENDS Naturals, Sequences

CONSTANTS
  Sources,      \* the lines a device may raise
  DriverLines,  \* lines AHCI_init registers and enables, in call order; its
                \* call in kernel_main is commented out: <<>> is that boot, and
                \* one element is the boot with the call put back
  SleepTicks,   \* the argument of the loop's sleep() (0x10 in the code)
  LeftInEax     \* the bytes that the handlers of the keyboard, of the AHCI
                \* controller and of the stub's timer may leave in %eax

Lines    == 0..15
Cascade  == 2                                \* PIC2 hangs on this line of PIC1
Bits     == 0..7                             \* the bits of a PIC's mask register
Handlers == {"stub_pit", "stub_kbd", "stub_spurious",
             "pit", "kbd", "spurious", "ahci"}
Ports    == {"PIC1_DATA", "PIC2_DATA"}

ASSUME InterruptsAssumption ==
  /\ Sources \subseteq Lines \ {Cascade}
  /\ DriverLines \in Seq(Lines)
  /\ SleepTicks \in Nat \ {0}
  /\ LeftInEax \subseteq 0..255

VARIABLES
  pc,                \* where kernel_main is
  k,                 \* which of the registrations it is working on
  intr,              \* the CPU's interrupt flag
  handler,           \* the handler that runs, "idle", or "wild" once the CPU
                     \* has jumped through a gate that leads nowhere
  gate,              \* the IDT: both halves of the handler address of a line
  imr, irr, isr,     \* masked, requested and in-service lines of the two PICs
  obf,               \* the keyboard controller holds an unread byte
  g_PIT_count_down,
  pic_mask,          \* PIC_line_enable's local, kept in %eax
  loaded,            \* g_PIT_count_down as sleep's loop condition has read it
  spoiled            \* history: a handler has returned to PIC_line_enable with
                     \* another value in %eax, between its read and its write

vars == <<pc, k, intr, handler, gate, imr, irr, isr, obf,
          g_PIT_count_down, pic_mask, loaded, spoiled>>

PICs == <<imr, irr, isr>>
Locals == <<pic_mask, loaded, spoiled>>

-----------------------------------------------------------------------------
(* What is registered, in the order of interrupt_init, time_init,           *)
(* keyboard_init and AHCI_init.                                            *)

Registrations == <<[line |-> 7, function |-> "spurious"],
                   [line |-> 0, function |-> "pit"],
                   [line |-> 1, function |-> "kbd"]>>
                 \o [d \in DOMAIN DriverLines |->
                      [line |-> DriverLines[d], function |-> "ahci"]]

line == Registrations[k].line

\* A gate leads to a handler when both halves come from the same address.
Whole(g) == g.lo = g.hi /\ g.lo # "none"

To(f) == [lo |-> f, hi |-> f]

-----------------------------------------------------------------------------
(* Mask registers and the local arithmetic of PIC_line_enable.              *)

data_port  == IF line > 8 THEN "PIC2_DATA" ELSE "PIC1_DATA"
\* Mutant: PIC2's lines keep their number in the 8-bit mask.
line_shift_not_reduced == line

line_shift == IF line > 8 THEN line - 8 ELSE line

LineAt(port, bit) == IF port = "PIC1_DATA" THEN bit ELSE bit + 8

ReadMask(port) == {b \in Bits : LineAt(port, b) \in imr}

\* The mask register of the other PIC keeps its value.
WriteMask(port, mask) ==
  imr' = {l \in Lines : \E p \in Ports, b \in Bits :
            l = LineAt(p, b) /\ IF p = port THEN b \in mask ELSE l \in imr}

\* The bits of a byte.
BitsOf(byte) == {b \in Bits : (byte \div 2^b) % 2 = 1}

-----------------------------------------------------------------------------
(* The stub leaves interrupts enabled, lines 0 and 1 unmasked, its own     *)
(* gates in the IDT the kernel reuses, and the kernel's .bss as memory     *)
(* happened to be.                                                         *)

Init ==
  /\ pc = "cls" /\ k = 1
  /\ intr = TRUE /\ handler = "idle"
  /\ gate = [l \in Lines |-> To(IF l = 0 THEN "stub_pit"
                                ELSE IF l = 1 THEN "stub_kbd"
                                ELSE IF l = 7 THEN "stub_spurious" ELSE "none")]
  /\ imr = Lines \ {0, 1} /\ irr = {} /\ isr = {}
  /\ obf = FALSE
  /\ g_PIT_count_down \in 0..SleepTicks
  /\ pic_mask = {} /\ loaded = 0 /\ spoiled = FALSE

-----------------------------------------------------------------------------
(* kernel_main.  One CPU: it only moves while no handler runs.              *)

Goto(from, to) == handler = "idle" /\ pc = from /\ pc' = to

\* Mutant: kernel_main enters its initialisation with interrupts on.
no_disable_interrupts == /\ Goto("cls", "icw")
                         /\ UNCHANGED <<k, intr, handler, gate, PICs, obf, g_PIT_count_down, Locals>>

disable_interrupts == /\ Goto("cls", "icw") /\ intr' = FALSE
                      /\ UNCHANGED <<k, handler, gate, PICs, obf, g_PIT_count_down, Locals>>

\* The initialisation words: an 8259 that receives them forgets its masks,
\* its latched edges and its in-service bits.
PIC_init_words == /\ Goto("icw", "ocw")
                  /\ imr' = {} /\ irr' = {} /\ isr' = {}
                  /\ UNCHANGED <<k, intr, handler, gate, obf, g_PIT_count_down, Locals>>

\* Mutant: the masks are written with the opposite polarity.
PIC_init_masks_inverted ==
  /\ Goto("ocw", "sti") /\ imr' = {Cascade}
  /\ UNCHANGED <<k, intr, handler, gate, irr, isr, obf, g_PIT_count_down, Locals>>

\* Masks 0xFB and 0xFF: everything but the cascade.
PIC_init_masks == /\ Goto("ocw", "sti") /\ imr' = Lines \ {Cascade}
                  /\ UNCHANGED <<k, intr, handler, gate, irr, isr, obf, g_PIT_count_down, Locals>>

enable_interrupts == /\ Goto("sti", "cli") /\ intr' = TRUE
                     /\ UNCHANGED <<k, handler, gate, PICs, obf, g_PIT_count_down, Locals>>

\* Mutant: a registration leaves interrupts enabled.
register_interrupt_no_cli == /\ Goto("cli", "offset_1")
                             /\ UNCHANGED <<k, intr, handler, gate, PICs, obf, g_PIT_count_down, Locals>>

register_interrupt_cli == /\ Goto("cli", "offset_1") /\ intr' = FALSE
                          /\ UNCHANGED <<k, handler, gate, PICs, obf, g_PIT_count_down, Locals>>

register_interrupt_offset_1 ==
  /\ Goto("offset_1", "offset_2")
  /\ gate' = [gate EXCEPT ![line].lo = Registrations[k].function]
  /\ UNCHANGED <<k, intr, handler, PICs, obf, g_PIT_count_down, Locals>>

register_interrupt_offset_2 ==
  /\ Goto("offset_2", "registered")
  /\ gate' = [gate EXCEPT ![line].hi = Registrations[k].function]
  /\ UNCHANGED <<k, intr, handler, PICs, obf, g_PIT_count_down, Locals>>

\* The spurious handler's line is registered and never enabled.
register_interrupt_sti ==
  /\ IF k = 1 THEN Goto("registered", "cli") /\ k' = 2
              ELSE Goto("registered", "read") /\ UNCHANGED k
  /\ intr' = TRUE
  /\ UNCHANGED <<handler, gate, PICs, obf, g_PIT_count_down, Locals>>

PIC_line_enable_read == /\ Goto("read", "mask")
                        /\ pic_mask' = ReadMask(data_port)
                        /\ UNCHANGED <<k, intr, handler, gate, PICs, obf, g_PIT_count_down, loaded, spoiled>>

PIC_line_enable_mask == /\ Goto("mask", "write")
                        /\ pic_mask' = pic_mask \ {line_shift}
                        /\ UNCHANGED <<k, intr, handler, gate, PICs, obf, g_PIT_count_down, loaded, spoiled>>

PIC_line_enable_write ==
  /\ IF k < Len(Registrations) THEN Goto("write", "cli") /\ k' = k + 1
                               ELSE Goto("write", "sleep") /\ UNCHANGED k
  /\ WriteMask(data_port, pic_mask)
  /\ pic_mask' = {}
  /\ UNCHANGED <<intr, handler, gate, irr, isr, obf, g_PIT_count_down, loaded, spoiled>>

\* Mutant: the count starts one short.
sleep_set_short == /\ Goto("sleep", "load")
                   /\ g_PIT_count_down' = SleepTicks - 1
                   /\ UNCHANGED <<k, intr, handler, gate, PICs, obf, Locals>>

sleep_set == /\ Goto("sleep", "load")
             /\ g_PIT_count_down' = SleepTicks
             /\ UNCHANGED <<k, intr, handler, gate, PICs, obf, Locals>>

sleep_load == /\ Goto("load", "test")
              /\ loaded' = g_PIT_count_down
              /\ UNCHANGED <<k, intr, handler, gate, PICs, obf, g_PIT_count_down, pic_mask, spoiled>>

sleep_test == /\ IF loaded > 0 THEN Goto("test", "hlt") ELSE Goto("test", "returned")
              /\ loaded' = 0
              /\ UNCHANGED <<k, intr, handler, gate, PICs, obf, g_PIT_count_down, pic_mask, spoiled>>

\* The CPU stops; Dispatch makes it move on.
sleep_hlt == /\ Goto("hlt", "halted")
             /\ UNCHANGED <<k, intr, handler, gate, PICs, obf, g_PIT_count_down, Locals>>

\* kernel_main's loop increments a character cell and sleeps again.
sleep_return == /\ Goto("returned", "sleep")
                /\ UNCHANGED <<k, intr, handler, gate, PICs, obf, g_PIT_count_down, Locals>>

Main == \/ disable_interrupts \/ PIC_init_words \/ PIC_init_masks \/ enable_interrupts
        \/ register_interrupt_cli \/ register_interrupt_offset_1
        \/ register_interrupt_offset_2 \/ register_interrupt_sti
        \/ PIC_line_enable_read \/ PIC_line_enable_mask \/ PIC_line_enable_write
        \/ sleep_set \/ sleep_load \/ sleep_test \/ sleep_hlt \/ sleep_return

-----------------------------------------------------------------------------
(* The devices.  Requests are edges: a line that is latched already stays.  *)

\* Timer ticks are 55 ms apart: none arrives while one is being handled.
Raise(l) == /\ l \in Sources \ {1}
            /\ l = 0 => handler \notin {"pit", "stub_pit"}
            /\ irr' = irr \cup {l}
            /\ UNCHANGED <<pc, k, intr, handler, gate, imr, isr, obf, g_PIT_count_down, Locals>>

\* The keyboard controller gives an edge when its empty buffer fills; until
\* port 0x60 is read there is no other.
KeyPress == /\ 1 \in Sources /\ ~obf
            /\ obf' = TRUE /\ irr' = irr \cup {1}
            /\ UNCHANGED <<pc, k, intr, handler, gate, imr, isr, g_PIT_count_down, Locals>>

-----------------------------------------------------------------------------
(* The controllers and the CPU.                                             *)

\* All lines of PIC2 rank where the cascade ranks on PIC1.
Rank(l) == IF l >= 8 THEN Cascade ELSE l

Precedes(a, b) == Rank(a) < Rank(b) \/ (Rank(a) = Rank(b) /\ a < b)

\* Unmasked, and nothing of its rank or above is in service.
Deliverable(l) == /\ l \in irr \ imr
                  /\ l >= 8 => Cascade \notin imr
                  /\ \A s \in isr : Rank(l) < Rank(s)

\* The CPU accepts a vector: it clears the flag, leaves hlt, and follows the gate.
Vector(l) == /\ intr /\ handler = "idle"
             /\ intr' = FALSE
             /\ handler' = IF Whole(gate[l]) THEN gate[l].lo ELSE "wild"
             /\ pc' = IF pc = "halted" THEN "load" ELSE pc
             /\ UNCHANGED <<k, gate, imr, obf, g_PIT_count_down, Locals>>

Dispatch(l) == /\ Deliverable(l)
               /\ \A m \in Lines : Deliverable(m) => ~Precedes(m, l)
               /\ Vector(l)
               /\ irr' = irr \ {l}
               /\ isr' = isr \cup {l} \cup (IF l >= 8 THEN {Cascade} ELSE {})

\* A request that vanishes before it is acknowledged is delivered as line 7,
\* with no in-service bit.
Spurious == Vector(7) /\ UNCHANGED <<irr, isr>>

\* One that vanishes from PIC2 comes as its line 15: PIC1 has taken it for a
\* request of the cascade, PIC2 has nothing in service.
SpuriousSlave == /\ Cascade \notin imr /\ \E l \in 8..15 : l \notin imr
                 /\ \A s \in isr : Cascade < Rank(s)
                 /\ Vector(15)
                 /\ isr' = isr \cup {Cascade}
                 /\ UNCHANGED irr

\* A non-specific end of interrupt to one controller clears its first
\* in-service bit.
First(lines) == {l \in lines : \A m \in lines : l <= m}
EndOfInterrupt(lines) == isr \ First(isr \cap lines)

\* Mutants of the PIT's handler: no test before the decrement, and the
\* count wraps; no end of interrupt.
interrupt_function_PIT_unguarded ==
  /\ g_PIT_count_down' = IF g_PIT_count_down > 0 THEN g_PIT_count_down - 1 ELSE 65535
  /\ isr' = EndOfInterrupt(0..7)
  /\ UNCHANGED obf

interrupt_function_PIT_no_eoi ==
  /\ g_PIT_count_down' = IF g_PIT_count_down > 0 THEN g_PIT_count_down - 1 ELSE 0
  /\ UNCHANGED <<isr, obf>>

interrupt_function_PIT ==
  /\ g_PIT_count_down' = IF g_PIT_count_down > 0 THEN g_PIT_count_down - 1 ELSE 0
  /\ isr' = EndOfInterrupt(0..7)
  /\ UNCHANGED obf

\* The stub's PIT handler decrements a counter of the stub's own.
stub_function_PIT == isr' = EndOfInterrupt(0..7) /\ UNCHANGED <<obf, g_PIT_count_down>>

\* Reads port 0x60; the stub's is the same.
interrupt_function_keyboard == /\ obf' = FALSE
                               /\ isr' = EndOfInterrupt(0..7)
                               /\ UNCHANGED g_PIT_count_down

interrupt_function_spurious == UNCHANGED <<isr, obf, g_PIT_count_down>>

\* Mutant: the second PIC is not told.
interrupt_function_ahci_master_only ==
  isr' = EndOfInterrupt(0..7) /\ UNCHANGED <<obf, g_PIT_count_down>>

interrupt_function_ahci ==
  /\ isr' = EndOfInterrupt(0..7) \ First(isr \cap 8..15)
  /\ UNCHANGED <<obf, g_PIT_count_down>>

\* The wrappers save %ebp only: where the interrupted code keeps a local in
\* %eax it finds what the handler left.  The PIT's leaves the count, the
\* spurious one touches no register.
Eax == IF handler \in {"spurious", "stub_spurious"} THEN UNCHANGED Locals
       ELSE \E left \in IF handler = "pit" THEN {g_PIT_count_down'} ELSE LeftInEax :
              /\ pic_mask' = IF pc \in {"mask", "write"} THEN BitsOf(left) ELSE pic_mask
              /\ loaded' = IF pc = "test" THEN left ELSE loaded
              /\ spoiled' = (spoiled \/ pc \in {"mask", "write"})

\* A handler runs with the flag clear, so to its iret in one step.
Handle == /\ \/ handler = "pit" /\ interrupt_function_PIT
             \/ handler = "stub_pit" /\ stub_function_PIT
             \/ handler \in {"kbd", "stub_kbd"} /\ interrupt_function_keyboard
             \/ handler \in {"spurious", "stub_spurious"} /\ interrupt_function_spurious
             \/ handler = "ahci" /\ interrupt_function_ahci
          /\ Eax
          /\ handler' = "idle" /\ intr' = TRUE
          /\ UNCHANGED <<pc, k, gate, imr, irr>>

-----------------------------------------------------------------------------
Next == \/ Main \/ KeyPress \/ Spurious \/ SpuriousSlave \/ Handle
        \/ \E l \in Lines : Raise(l) \/ Dispatch(l)

Spec == Init /\ [][Next]_vars

(***************************************************************************)
(* Fairness.  The timer keeps ticking.  A handler is straight-line code.   *)
(* Interrupt handling takes microseconds and ticks are 55 ms apart, so     *)
(* main code that could go on again and again does go on, and a request    *)
(* that could be accepted again and again is accepted; so is the           *)
(* keyboard's, which only the timer's may keep waiting.  And sleep's test  *)
(* of a count of zero does not find a key's interrupt between its load and *)
(* its test every single time.                                             *)
(***************************************************************************)
FairSpec == /\ Spec
            /\ WF_vars(Raise(0)) /\ WF_vars(Handle) /\ SF_vars(Main)
            /\ SF_vars(\E l \in Lines : Dispatch(l)) /\ SF_vars(Dispatch(1))
            /\ SF_vars(sleep_test /\ loaded = 0)

-----------------------------------------------------------------------------
(* Properties.                                                              *)

PCs == {"cls", "icw", "ocw", "sti", "cli", "offset_1", "offset_2", "registered",
        "read", "mask", "write", "sleep", "load", "test", "hlt", "halted", "returned"}

\* Every variable has its type.
TypeOK ==
  /\ pc \in PCs /\ k \in 1..Len(Registrations)
  /\ intr \in BOOLEAN /\ handler \in Handlers \cup {"idle", "wild"}
  /\ gate \in [Lines -> [lo : Handlers \cup {"none"}, hi : Handlers \cup {"none"}]]
  /\ imr \subseteq Lines /\ irr \subseteq Lines /\ isr \subseteq Lines
  /\ obf \in BOOLEAN
  /\ g_PIT_count_down \in 0..SleepTicks
  /\ pic_mask \subseteq Bits /\ loaded \in 0..255 \cup 0..SleepTicks
  /\ spoiled \in BOOLEAN

\* The lines PIC_line_enable has been called for and has returned.
Enabled == {Registrations[i].line : i \in 2..(k-1)} \cup
           (IF pc \in {"sleep", "load", "test", "hlt", "halted", "returned"} THEN {line} ELSE {})

\* The IDT the CPU runs on is rewritten underneath it, the PICs are
\* reprogrammed and the devices raise requests all the while.  Two things
\* lead the CPU through a missing gate, and nothing else does: a mask that
\* was spoiled in PIC_line_enable, and the spurious vector of PIC2, once a
\* driver has enabled a line there and none has line 15 for its own.
LostOnPIC2 == isr = {Cascade} /\ (\E l \in Enabled : l >= 8) /\ ~Whole(gate[15])
Astray == handler = "wild" /\ (spoiled \/ LostOnPIC2)
NoWildDispatch == handler = "wild" => Astray

\* Whatever happens to the masks, the CPU never follows a gate of which only
\* one half has been written.
NoTornGate == intr => \A l \in Lines : gate[l].lo = gate[l].hi

\* From PIC_init on, what the controllers let through is the cascade and the
\* lines PIC_line_enable was asked to enable: all of them, and no other.
MaskTracksEnables ==
  pc \notin {"cls", "icw", "ocw"} => Lines \ imr = Enabled \cup {Cascade}

\* So they do, unless a handler returned to PIC_line_enable between its read
\* of the mask and its write.
MaskUnlessSpoiled == spoiled \/ MaskTracksEnables

\* Whenever main code runs, every accepted request has been ended, on both
\* controllers: a bit left in service would shut off all lines below it.  The
\* one bit that may stay is line 7's, let through by a spoiled mask: its
\* handler takes every request for a spurious one.
NothingLeftInService == handler = "idle" => isr = {} \/ (spoiled /\ isr = {7})

\* kernel_main gets through its initialisation to its sleep loop, unless one
\* of those two things leads the CPU astray.
BootReachesLoop == <>(pc = "sleep" \/ Astray)

\* A key whose request is latched once PIC_init is done gets read, as long as
\* the masks are what was written and the CPU has not gone astray.
Sound == ~spoiled /\ ~Astray
KeyServed == (pc \notin {"cls", "icw", "ocw"} /\ obf /\ 1 \in irr) ~> (~obf \/ ~Sound)

InSleep == pc \in {"load", "test", "hlt", "halted"}

\* sleep() implements the abstract timer: not early, and, as long as the
\* timer's line is not lost, not never.
SleepTimer == INSTANCE Timer WITH
  Ticks   <- SleepTicks,
  phase   <- IF InSleep THEN "asleep" ELSE "idle",
  elapsed <- IF InSleep THEN SleepTicks - g_PIT_count_down ELSE 0,
  ticking <- Sound
SleepImplementsTimer == SleepTimer!TimerSpec
=============================================================================
