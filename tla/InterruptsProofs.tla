-------------------------- MODULE InterruptsProofs --------------------------
(***************************************************************************)
(* What holds of the interrupt core for every set of devices, every list   *)
(* of driver lines, every sleep and whatever the handlers leave in %eax:   *)
(* types, no half-written gate, no jump through a missing one but for the  *)
(* two causes the module names, nothing left in service, masks that are    *)
(* what has been enabled unless one was spoiled; and, as long as no        *)
(* handler leaves a zero, that sleep() is the abstract timer.              *)
(***************************************************************************)
EXTENDS Interrupts, SequenceTheorems, TLAPS

\* The registrations are a sequence of line and handler.
LEMMA RegistrationsType ==
  /\ Registrations \in Seq([line : Lines, function : Handlers])
  /\ Len(Registrations) \in Nat /\ Len(Registrations) >= 3
  /\ \A i \in 1..Len(Registrations) :
       Registrations[i].line \in Lines /\ Registrations[i].function \in Handlers
<1> DEFINE R == [line : Lines, function : Handlers]
           A == <<[line |-> 7, function |-> "spurious"],
                  [line |-> 0, function |-> "pit"],
                  [line |-> 1, function |-> "kbd"]>>
           B == [d \in DOMAIN DriverLines |->
                   [line |-> DriverLines[d], function |-> "ahci"]]
<1>1. A \in Seq(R) /\ Len(A) = 3
  BY DEF Lines, Handlers
<1>2. B \in Seq(R) /\ Len(B) \in Nat
  <2>1. DriverLines \in Seq(Lines)
    BY InterruptsAssumption
  <2>2. B \in [1..Len(DriverLines) -> R] /\ Len(DriverLines) \in Nat
    BY <2>1 DEF Handlers
  <2> QED
    BY <2>2
<1>3. Registrations = A \o B
  BY DEF Registrations
<1>4. Registrations \in Seq(R) /\ Len(Registrations) = 3 + Len(B)
  <2> HIDE DEF A, B, R
  <2>1. A \o B \in Seq(R) /\ Len(A \o B) = Len(A) + Len(B)
    BY <1>1, <1>2, ConcatProperties
  <2> QED BY <1>1, <1>2, <1>3, <2>1
<1>5. \A i \in 1..Len(Registrations) : Registrations[i] \in R
  <2> HIDE DEF R
  <2> QED BY <1>4, ElementOfSeq
<1> HIDE DEF A, B
<1> QED
  BY <1>2, <1>4, <1>5

\* The main program's registration is one of them.
LEMMA LineType ==
  ASSUME TypeOK
  PROVE  line \in Lines /\ Registrations[k].function \in Handlers
BY RegistrationsType DEF TypeOK, line

\* Ending an interrupt only takes bits away.
LEMMA EndShrinks ==
  ASSUME NEW S, isr \subseteq S
  PROVE  EndOfInterrupt(0..7) \subseteq S
BY DEF EndOfInterrupt

\* Spurious interrupts come first, on line 7; the handlers registered after it
\* all end their interrupts, and only the AHCI's serves lines of PIC2.  From
\* the fourth on the lines are the driver's.
LEMMA RegistrationsShape ==
  \A i \in 1..Len(Registrations) :
    /\ i = 1 => Registrations[i] = [line |-> 7, function |-> "spurious"]
    /\ i >= 2 => Registrations[i].function \in {"pit", "kbd", "ahci"}
    /\ Registrations[i].line >= 8 => Registrations[i].function = "ahci"
    /\ \/ Registrations[i].line \in {7, 0, 1}
       \/ \E d \in DOMAIN DriverLines : Registrations[i].line = DriverLines[d]
<1> DEFINE R == [line : Lines, function : Handlers]
           A == <<[line |-> 7, function |-> "spurious"],
                  [line |-> 0, function |-> "pit"],
                  [line |-> 1, function |-> "kbd"]>>
           B == [d \in DOMAIN DriverLines |->
                   [line |-> DriverLines[d], function |-> "ahci"]]
<1>1. A \in Seq(R) /\ Len(A) = 3
  BY DEF Lines, Handlers
<1>2. DriverLines \in Seq(Lines)
  BY InterruptsAssumption
<1>3. B \in [1..Len(DriverLines) -> R] /\ Len(DriverLines) \in Nat
  BY <1>2 DEF Handlers
<1>4. B \in Seq(R) /\ Len(B) = Len(DriverLines)
  BY <1>3
<1>5. \A d \in 1..Len(B) : /\ B[d].function = "ahci"
                            /\ d \in DOMAIN DriverLines /\ B[d].line = DriverLines[d]
  BY <1>2, <1>4
<1>6. /\ A[1] = [line |-> 7, function |-> "spurious"]
      /\ A[2] = [line |-> 0, function |-> "pit"]
      /\ A[3] = [line |-> 1, function |-> "kbd"]
  OBVIOUS
<1>7. Registrations = A \o B
  BY DEF Registrations
<1> HIDE DEF A, B, R
<1>n. Len(B) \in Nat
  BY <1>3, <1>4
<1>8. /\ Len(A \o B) = 3 + Len(B)
      /\ \A i \in 1..3 + Len(B) : (A \o B)[i] = IF i <= 3 THEN A[i] ELSE B[i - 3]
  <2>1. /\ Len(A \o B) = Len(A) + Len(B)
        /\ \A i \in 1..Len(A) + Len(B) :
             (A \o B)[i] = IF i <= Len(A) THEN A[i] ELSE B[i - Len(A)]
    <3>1. A \in Seq(R) /\ B \in Seq(R)
      BY <1>1, <1>4
    <3> QED
      BY <3>1, ConcatProperties
  <2> QED
    BY <2>1, <1>1
<1> SUFFICES ASSUME NEW i \in 1..3 + Len(B)
      PROVE /\ i = 1 => (A \o B)[i] = [line |-> 7, function |-> "spurious"]
            /\ i >= 2 => (A \o B)[i].function \in {"pit", "kbd", "ahci"}
            /\ (A \o B)[i].line >= 8 => (A \o B)[i].function = "ahci"
            /\ \/ (A \o B)[i].line \in {7, 0, 1}
               \/ \E d \in DOMAIN DriverLines : (A \o B)[i].line = DriverLines[d]
  BY <1>7, <1>8
<1>10. CASE i <= 3
  <2>1. i = 1 \/ i = 2 \/ i = 3
    BY <1>10
  <2>2. (A \o B)[i] = A[i]
    BY <1>10, <1>8
  <2> QED
    BY <2>1, <2>2, <1>6
<1>11. CASE i > 3
  <2>1. i - 3 \in 1..Len(B) /\ (A \o B)[i] = B[i - 3]
    BY <1>11, <1>8, <1>n
  <2> QED
    BY <2>1, <1>5, <1>11
<1>12. i <= 3 \/ i > 3
  BY <1>n
<1> QED
  BY <1>10, <1>11, <1>12, Zenon

-----------------------------------------------------------------------------
\* The state the stub leaves has the right types.
LEMMA InitTypeOK ==
  ASSUME Init PROVE TypeOK
<1>1. gate \in [Lines -> [lo : Handlers \cup {"none"}, hi : Handlers \cup {"none"}]]
  BY DEF Init, To, Handlers
<1>2. k \in 1..Len(Registrations)
  BY RegistrationsType DEF Init
<1>3. g_PIT_count_down \in 0..SleepTicks /\ loaded \in 0..255
  BY InterruptsAssumption DEF Init
<1> QED
  BY <1>1, <1>2, <1>3 DEF Init, TypeOK, PCs

\* Every step keeps the types.
LEMMA StepTypeOK ==
  ASSUME TypeOK, [Next]_vars PROVE TypeOK'
<1> USE DEF TypeOK, Goto, PICs, Locals
<1>a. line \in Lines /\ Registrations[k].function \in Handlers
  BY LineType
<1>b. Len(Registrations) \in Nat /\ Len(Registrations) >= 3
  BY RegistrationsType
<1>c. SleepTicks \in Nat \ {0} /\ LeftInEax \subseteq 0..255 /\ Sources \subseteq Lines
  BY InterruptsAssumption
<1>1. CASE disable_interrupts
  BY <1>1 DEF disable_interrupts, PCs
<1>2. CASE PIC_init_words
  BY <1>2 DEF PIC_init_words, PCs
<1>3. CASE PIC_init_masks
  BY <1>3 DEF PIC_init_masks, PCs
<1>4. CASE enable_interrupts
  BY <1>4 DEF enable_interrupts, PCs
<1>5. CASE register_interrupt_cli
  BY <1>5 DEF register_interrupt_cli, PCs
<1>6. CASE register_interrupt_offset_1
  BY <1>6, <1>a DEF register_interrupt_offset_1, PCs
<1>7. CASE register_interrupt_offset_2
  BY <1>7, <1>a DEF register_interrupt_offset_2, PCs
<1>8. CASE register_interrupt_sti
  BY <1>8, <1>b DEF register_interrupt_sti, PCs
<1>9. CASE PIC_line_enable_read
  BY <1>9 DEF PIC_line_enable_read, ReadMask, PCs
<1>10. CASE PIC_line_enable_mask
  BY <1>10 DEF PIC_line_enable_mask, PCs
<1>11. CASE PIC_line_enable_write
  BY <1>11, <1>b DEF PIC_line_enable_write, WriteMask, PCs
<1>12. CASE sleep_set
  BY <1>12, <1>c DEF sleep_set, PCs
<1>13. CASE sleep_load
  BY <1>13 DEF sleep_load, PCs
<1>14. CASE sleep_test
  BY <1>14 DEF sleep_test, PCs
<1>15. CASE sleep_hlt
  BY <1>15 DEF sleep_hlt, PCs
<1>16. CASE sleep_return
  BY <1>16 DEF sleep_return, PCs
<1>17. CASE KeyPress
  BY <1>17, SMTT(30) DEF KeyPress, Lines
<1>23. CASE SpuriousSlave
  <2>1. gate[15].lo = gate[15].hi /\ gate[15].lo # "none" => gate[15].lo \in Handlers
    BY DEF Lines
  <2>2. handler' \in Handlers \cup {"idle", "wild"}
    BY <1>23, <2>1 DEF SpuriousSlave, Vector, Whole
  <2>3. isr' \subseteq Lines
    BY <1>23 DEF SpuriousSlave, Lines, Cascade
  <2> QED
    BY <1>23, <2>2, <2>3 DEF SpuriousSlave, Vector, PCs
<1>18. CASE Spurious
  <2>1. gate[7].lo = gate[7].hi /\ gate[7].lo # "none" => gate[7].lo \in Handlers
    BY DEF Lines
  <2>2. handler' \in Handlers \cup {"idle", "wild"}
    BY <1>18, <2>1 DEF Spurious, Vector, Whole
  <2> QED
    BY <1>18, <2>2 DEF Spurious, Vector, PCs
<1>19. CASE Handle
  <2>1. isr' \subseteq Lines
    BY <1>19 DEF Handle, EndOfInterrupt, interrupt_function_PIT, stub_function_PIT,
       interrupt_function_keyboard, interrupt_function_spurious, interrupt_function_ahci
  <2>2. g_PIT_count_down' \in 0..SleepTicks
    <3>1. (IF g_PIT_count_down > 0 THEN g_PIT_count_down - 1 ELSE 0) \in 0..SleepTicks
      BY <1>c
    <3> QED
      BY <1>19, <3>1 DEF Handle, interrupt_function_PIT, stub_function_PIT,
       interrupt_function_keyboard, interrupt_function_spurious, interrupt_function_ahci
  <2>4. obf' \in BOOLEAN
    BY <1>19 DEF Handle, interrupt_function_PIT, stub_function_PIT,
       interrupt_function_keyboard, interrupt_function_spurious, interrupt_function_ahci
  <2>3. pic_mask' \subseteq Bits /\ loaded' \in 0..255 \cup 0..SleepTicks
        /\ spoiled' \in BOOLEAN
    <3>1. Eax BY <1>19 DEF Handle
    <3>2. pic_mask \subseteq Bits /\ loaded \in 0..255 \cup 0..SleepTicks
          /\ spoiled \in BOOLEAN /\ \A left : BitsOf(left) \subseteq Bits
      BY <1>c DEF TypeOK, BitsOf
    <3>3. CASE handler \notin {"spurious", "stub_spurious"}
      <4>1. PICK left \in IF handler = "pit" THEN {g_PIT_count_down'} ELSE LeftInEax :
              /\ pic_mask' = IF pc \in {"mask", "write"} THEN BitsOf(left) ELSE pic_mask
              /\ loaded' = IF pc = "test" THEN left ELSE loaded
              /\ spoiled' = (spoiled \/ pc \in {"mask", "write"})
        BY <3>1, <3>3 DEF Eax
      <4>2. left \in 0..255 \cup 0..SleepTicks
        BY <2>2, <4>1, InterruptsAssumption
      <4> QED BY <3>2, <4>1, <4>2, Zenon
    <3>4. CASE handler \in {"spurious", "stub_spurious"}
      BY <3>1, <3>2, <3>4 DEF Eax, Locals
    <3> QED BY <3>3, <3>4
  <2> QED
    BY <1>19, <2>1, <2>2, <2>3, <2>4 DEF Handle
<1>20. ASSUME NEW l \in Lines, Raise(l) PROVE TypeOK'
  BY <1>20, <1>c DEF Raise
<1>21. ASSUME NEW l \in Lines, Dispatch(l) PROVE TypeOK'
  <2>1. gate[l].lo # "none" => gate[l].lo \in Handlers
    OBVIOUS
  <2>2. handler' \in Handlers \cup {"idle", "wild"}
    BY <1>21, <2>1 DEF Dispatch, Vector, Whole
  <2>3. irr' \subseteq Lines /\ isr' \subseteq Lines
    <3>1. Cascade \in Lines
      BY DEF Lines, Cascade
    <3> QED
      BY <1>21, <3>1 DEF Dispatch
  <2> QED
    BY <1>21, <2>2, <2>3 DEF Dispatch, Vector, PCs
<1>22. CASE UNCHANGED vars
  BY <1>22 DEF vars
<1> QED
  BY <1>1, <1>2, <1>3, <1>4, <1>5, <1>6, <1>7, <1>8, <1>9, <1>10, <1>11, <1>12, <1>13,
     <1>14, <1>15, <1>16, <1>17, <1>18, <1>19, <1>20, <1>21, <1>22, <1>23 DEF Next, Main

\* Type correctness: the count never wraps below zero, the masks stay masks.
THEOREM TypeCorrect == Spec => []TypeOK
<1>1. Init => TypeOK
  BY InitTypeOK
<1>2. TypeOK /\ [Next]_vars => TypeOK'
  BY StepTypeOK
<1> QED
  BY <1>1, <1>2, PTL DEF Spec

-----------------------------------------------------------------------------
(***************************************************************************)
(* The inductive invariant.  NoWildDispatch depends on what the flag, the  *)
(* gates and the masks have to do with the place kernel_main has reached:  *)
(* no interrupt can be accepted while a gate is half written or the masks  *)
(* are gone, and a line is only unmasked behind a finished gate.  What is  *)
(* said of the masks holds until one of them is spoiled; what is said of   *)
(* the flag, the gates and the lines in service holds throughout.          *)
(***************************************************************************)

\* The code between a cli and the sti that ends it.
Closed == {"icw", "ocw", "sti", "offset_1", "offset_2", "registered"}

\* The handlers that send an end of interrupt, and those that do not.
Enders == {"stub_pit", "stub_kbd", "pit", "kbd", "ahci"}
Silent == {"stub_spurious", "spurious"}

FlagInv == /\ handler = "idle" => (intr <=> pc \notin Closed)
           /\ handler # "idle" => ~intr /\ pc \notin Closed

\* Only the gate that is being written is torn; line 7's is never missing, and
\* it is the only one whose handler may end nothing.
GateInv == /\ \A l \in Lines : gate[l].lo = gate[l].hi \/ (pc = "offset_2" /\ l = line)
           /\ \A l \in 8..15 : gate[l].lo \in {"none", "ahci"}
           /\ \A l \in Lines \ {7} : gate[l].lo \in Enders \cup {"none"}
           /\ gate[7].lo # "none"

\* PIC_line_enable works on a line that is registered.
PlaceInv == /\ pc \in {"cls", "icw", "ocw", "sti"} => k = 1
            /\ pc \in {"read", "mask", "write"} => k >= 2 /\ gate[line].lo \in Enders
            /\ pc \in {"sleep", "load", "test", "hlt", "halted", "returned"} => k >= 2
            /\ pc \in {"offset_2", "registered"} => gate[line].lo = Registrations[k].function

\* Except while the PICs are being initialised, what is unmasked has a gate
\* to a handler that ends its interrupts; and PIC_line_enable's local is what
\* the mask register still holds.
MaskInv == /\ pc # "ocw" => \A l \in Lines \ imr : l # Cascade => gate[l].lo \in Enders
           /\ pc # "ocw" => \A l \in 8..15 : l \in imr \/ l \in Enabled
           /\ k = 1 /\ pc # "ocw" => 7 \in imr
           /\ pc = "mask" => pic_mask = ReadMask(data_port)
           /\ pc = "write" => pic_mask = ReadMask(data_port) \ {line_shift}

\* What the handler that runs will leave in service.
Serves(kept) == \/ isr = kept
                \/ handler \in Enders /\ \E l \in 0..7 : isr = {l} \cup kept
                \/ handler = "ahci" /\ \E l \in 8..15 : isr = {l, Cascade} \cup kept

\* The handler that runs will end what is in service, but for line 7's bit.
ServiceInv ==
  /\ irr \subseteq Sources
  /\ NothingLeftInService
  /\ handler \notin {"idle", "wild"} => Serves({}) \/ (spoiled /\ Serves({7}))

IInv == /\ TypeOK /\ FlagInv /\ GateInv /\ PlaceInv /\ (spoiled \/ MaskInv) /\ ServiceInv
        /\ NoWildDispatch

-----------------------------------------------------------------------------
\* Writing back the mask register with the bit of `line' cleared unmasks at
\* most that line (none at all for line 8, whose bit PIC1 does not have).
LEMMA UnmasksOne ==
  ASSUME TypeOK, pic_mask = ReadMask(data_port) \ {line_shift},
         WriteMask(data_port, pic_mask)
  PROVE  Lines \ imr' \subseteq (Lines \ imr) \cup {line}
<1>1. line \in Lines
  BY LineType
<1> SUFFICES ASSUME NEW l \in Lines, l \notin imr', l \in imr
    PROVE  l = line
  OBVIOUS
<1>2. PICK p \in Ports, b \in Bits : l = LineAt(p, b)
  <2>1. CASE l < 8
    BY <2>1 DEF Lines, Ports, Bits, LineAt
  <2>2. CASE l >= 8
    <3>1. l - 8 \in Bits /\ l = LineAt("PIC2_DATA", l - 8)
      BY <2>2 DEF Lines, Bits, LineAt
    <3> QED
      BY <3>1 DEF Ports
  <2> QED
    BY <2>1, <2>2 DEF Lines
<1>3. p = data_port /\ b \notin pic_mask
  BY <1>2 DEF WriteMask
<1>4. b = line_shift
  BY <1>2, <1>3 DEF ReadMask
<1> QED
  BY <1>1, <1>2, <1>3, <1>4 DEF LineAt, data_port, line_shift, Bits, Lines

\* A run of registrations is its last one and those before.
LEMMA OneMore ==
  ASSUME NEW j \in Nat, j >= 2
  PROVE  {Registrations[r].line : r \in 2..((j + 1) - 1)}
           = {Registrations[r].line : r \in 2..(j - 1)} \cup {Registrations[j].line}
<1>1. 2..((j + 1) - 1) = 2..(j - 1) \cup {j} OBVIOUS
<1>2. QED BY <1>1

\* PIC_line_enable's return adds its line to the enabled ones.
LEMMA WriteEnables ==
  ASSUME TypeOK, PlaceInv, PIC_line_enable_write
  PROVE  Enabled' = Enabled \cup {line}
<1> USE DEF Goto
<1>1. k \in Nat /\ k >= 2 /\ pc = "write"
  BY RegistrationsType DEF PIC_line_enable_write, PlaceInv, TypeOK
<1>2. Enabled = {Registrations[r].line : r \in 2..(k - 1)} BY <1>1 DEF Enabled
<1>3. CASE k < Len(Registrations)
  <2>1. k' = k + 1 /\ pc' = "cli" BY <1>3 DEF PIC_line_enable_write
  <2>2. Enabled' = {Registrations[r].line : r \in 2..((k + 1) - 1)} BY <2>1 DEF Enabled
  <2>3. QED BY <1>1, <1>2, <2>2, OneMore DEF line
<1>4. CASE ~(k < Len(Registrations))
  <2>1. k' = k /\ pc' = "sleep" BY <1>4 DEF PIC_line_enable_write
  <2>2. QED BY <1>2, <2>1 DEF Enabled, line
<1>5. QED BY <1>3, <1>4

\* No other step changes what is enabled.
LEMMA EnabledStays ==
  ASSUME PlaceInv, [Next]_vars, ~PIC_line_enable_write
  PROVE  Enabled' = Enabled
<1> USE DEF Goto, PICs, Locals
<1>1. CASE \/ disable_interrupts \/ PIC_init_words \/ PIC_init_masks \/ enable_interrupts
           \/ register_interrupt_cli \/ register_interrupt_offset_1
           \/ register_interrupt_offset_2 \/ PIC_line_enable_read \/ PIC_line_enable_mask
  BY <1>1 DEF disable_interrupts, PIC_init_words, PIC_init_masks, enable_interrupts,
     register_interrupt_cli, register_interrupt_offset_1, register_interrupt_offset_2,
     PIC_line_enable_read, PIC_line_enable_mask, Enabled
<1>2. CASE register_interrupt_sti
  <2>1. CASE k = 1
    <3>1. k' = 2 /\ pc = "registered" /\ pc' = "cli"
      BY <1>2, <2>1 DEF register_interrupt_sti
    <3>2. Enabled = {} /\ Enabled' = {} BY <2>1, <3>1 DEF Enabled
    <3>3. QED BY <3>2
  <2>2. CASE k # 1
    BY <1>2, <2>2 DEF register_interrupt_sti, Enabled
  <2>3. QED BY <2>1, <2>2
<1>3. CASE sleep_set \/ sleep_load \/ sleep_test \/ sleep_hlt \/ sleep_return
  BY <1>3 DEF sleep_set, sleep_load, sleep_test, sleep_hlt, sleep_return, Enabled, line
<1>4. CASE KeyPress \/ Handle
  BY <1>4 DEF KeyPress, Handle, Enabled, line
<1>5. CASE Spurious \/ SpuriousSlave \/ \E l \in Lines : Raise(l) \/ Dispatch(l)
  BY <1>5 DEF Spurious, SpuriousSlave, Raise, Dispatch, Vector, Enabled, line
<1>6. CASE UNCHANGED vars
  BY <1>6 DEF vars, Enabled, line
<1>7. QED BY <1>1, <1>2, <1>3, <1>4, <1>5, <1>6 DEF Next, Main

\* An end of interrupt to PIC1 clears the one line in service below line 7, or
\* line 7 when it is alone.
LEMMA EndOne ==
  ASSUME NEW kept \in {{}, {7}}, NEW l \in 0..7, isr = {l} \cup kept
  PROVE  EndOfInterrupt(0..7) \in {{}, kept}
<1>1. isr \cap 0..7 = {l} \cup kept OBVIOUS
<1>2. First({l} \cup kept) = {l} BY DEF First
<1>3. QED BY <1>1, <1>2 DEF EndOfInterrupt

\* One to each controller clears a line of PIC2 and the cascade.
LEMMA EndTwo ==
  ASSUME NEW kept \in {{}, {7}}, NEW l \in 8..15, isr = {l, Cascade} \cup kept
  PROVE  EndOfInterrupt(0..7) \ First(isr \cap 8..15) = kept
<1>1. isr \cap 0..7 = {Cascade} \cup kept /\ isr \cap 8..15 = {l} BY DEF Cascade
<1>2. First({Cascade} \cup kept) = {Cascade} /\ First({l}) = {l} BY DEF First, Cascade
<1>3. QED BY <1>1, <1>2 DEF EndOfInterrupt, Cascade

\* And one that finds nothing else in service clears line 7's bit at most.
LEMMA EndNone ==
  ASSUME NEW kept \in {{}, {7}}, isr = kept
  PROVE  EndOfInterrupt(0..7) = {} /\ First(isr \cap 8..15) = {}
BY DEF EndOfInterrupt, First

\* A handler that returns leaves nothing in service but line 7's bit, and
\* that only if it was there.
LEMMA HandleEnds ==
  ASSUME NEW kept \in {{}, {7}}, Serves(kept), Handle
  PROVE  isr' \in {{}, kept}
<1> USE DEF Handle, interrupt_function_PIT, stub_function_PIT,
    interrupt_function_keyboard, interrupt_function_spurious, interrupt_function_ahci
<1>1. CASE isr = kept
  BY <1>1, EndNone
<1>2. CASE handler \in Enders /\ \E l \in 0..7 : isr = {l} \cup kept
  <2>1. PICK l \in 0..7 : isr = {l} \cup kept BY <1>2
  <2>2. EndOfInterrupt(0..7) \in {{}, kept} BY <2>1, EndOne
  <2>3. isr \cap 8..15 = {} /\ First({}) = {} BY <2>1 DEF First
  <2>4. QED BY <1>2, <2>2, <2>3 DEF Enders
<1>3. CASE handler = "ahci" /\ \E l \in 8..15 : isr = {l, Cascade} \cup kept
  BY <1>3, EndTwo
<1>4. QED BY <1>1, <1>2, <1>3 DEF Serves

\* The three ways to a handler: nothing new in service, a line of PIC1, or one
\* of PIC2 behind the cascade.
LEMMA ServesNew ==
  ASSUME NEW kept, NEW l \in Lines, handler' \in Handlers,
         \/ isr' = kept
         \/ l < 8 /\ handler' \in Enders /\ isr' = kept \cup {l}
         \/ l >= 8 /\ handler' = "ahci" /\ isr' = kept \cup {l} \cup {Cascade}
  PROVE  Serves(kept)'
BY DEF Serves, Lines

\* Accepting a vector changes neither gates nor masks nor kernel_main's place
\* but for the end of a hlt.
LEMMA VectorKeeps ==
  ASSUME TypeOK, FlagInv, GateInv, PlaceInv, spoiled \/ MaskInv, NEW l \in Lines, Vector(l),
         Enabled' = Enabled
  PROVE  /\ (handler' # "idle" => FlagInv') /\ GateInv' /\ PlaceInv' /\ (spoiled \/ MaskInv)'
         /\ handler = "idle" /\ pc \notin Closed /\ spoiled' = spoiled
         /\ gate[l].lo = gate[l].hi
         /\ handler' = IF gate[l].lo = "none" THEN "wild" ELSE gate[l].lo
<1> USE DEF Locals
<1>1. handler = "idle" /\ pc \notin Closed BY DEF Vector, FlagInv
<1>2. /\ pc' = IF pc = "halted" THEN "load" ELSE pc
      /\ intr' = FALSE /\ UNCHANGED <<k, gate, imr, pic_mask, spoiled>> /\ line' = line
  BY DEF Vector, line
<1>3. handler' # "idle" => FlagInv' BY <1>1, <1>2 DEF FlagInv, Closed
<1>4. GateInv' /\ PlaceInv' BY <1>1, <1>2 DEF GateInv, PlaceInv, Closed
<1>5. (spoiled \/ MaskInv)'
  BY <1>1, <1>2 DEF MaskInv, Closed, data_port, line_shift, ReadMask
<1>6. gate[l].lo = gate[l].hi BY <1>1 DEF GateInv, Closed
<1>7. handler' = IF gate[l].lo = "none" THEN "wild" ELSE gate[l].lo
  BY <1>6 DEF Vector, Whole
<1>8. QED BY <1>1, <1>2, <1>3, <1>4, <1>5, <1>6, <1>7

\* The invariant holds in the state the stub leaves.
LEMMA InitIInv ==
  ASSUME Init PROVE IInv
<1>1. TypeOK BY InitTypeOK
<1>2. FlagInv /\ PlaceInv /\ ServiceInv /\ NoWildDispatch
  BY DEF Init, FlagInv, PlaceInv, ServiceInv, NothingLeftInService, NoWildDispatch, Closed
<1>3. GateInv BY DEF Init, GateInv, To, Lines, Enders
<1>4. MaskInv BY DEF Init, MaskInv, To, Lines, Enders
<1>5. QED BY <1>1, <1>2, <1>3, <1>4 DEF IInv

\* The handler address is written one half at a time, with interrupts off.
LEMMA OffsetOneIInv ==
  ASSUME IInv, register_interrupt_offset_1 PROVE IInv'
<1> USE DEF Goto, PICs, Locals
<1>t. TypeOK' BY StepTypeOK DEF IInv, Next, Main
<1>a. line \in Lines /\ Registrations[k].function \in Handlers /\ k \in 1..Len(Registrations)
  BY LineType DEF IInv, TypeOK
<1>b. Len(Registrations) \in Nat BY RegistrationsType
<1>c. /\ k = 1 => line = 7 /\ Registrations[k].function = "spurious"
      /\ k >= 2 => Registrations[k].function \in Enders
      /\ line >= 8 => Registrations[k].function = "ahci"
      /\ line # 7 => Registrations[k].function \in Enders
  BY <1>a, <1>b, RegistrationsShape DEF line, Enders
<1>1. gate' = [gate EXCEPT ![line] = [lo |-> Registrations[k].function, hi |-> gate[line].hi]]
  <2>1. gate[line] = [lo |-> gate[line].lo, hi |-> gate[line].hi] /\ DOMAIN gate = Lines
    BY <1>a DEF IInv, TypeOK
  <2>2. [gate[line] EXCEPT !.lo = Registrations[k].function]
          = [lo |-> Registrations[k].function, hi |-> gate[line].hi]
    BY <2>1
  <2>3. QED BY <2>2 DEF register_interrupt_offset_1
<1>2. Registrations[k].function # "none" BY <1>a DEF Handlers
<1>3. /\ pc = "offset_1" /\ pc' = "offset_2" /\ line' = line
      /\ handler = "idle" /\ UNCHANGED <<k, intr, handler, imr, irr, isr, spoiled>>
  BY DEF register_interrupt_offset_1, line
<1>4. /\ gate'[line].lo = Registrations[k].function
      /\ \A l \in Lines \ {line} : gate'[l] = gate[l]
  BY <1>a, <1>1 DEF IInv, TypeOK
<1>5. GateInv'
  <2>1. ASSUME NEW l \in Lines, l # line
        PROVE  gate'[l].lo = gate'[l].hi
    BY <2>1, <1>3, <1>4 DEF IInv, GateInv
  <2>2. ASSUME NEW l \in 8..15
        PROVE  gate'[l].lo \in {"none", "ahci"}
    <3>1. CASE l = line BY <3>1, <1>c, <1>4
    <3>2. CASE l # line
      <4>1. gate'[l] = gate[l] BY <1>4, <3>2 DEF Lines
      <4>2. QED BY <4>1 DEF IInv, GateInv
    <3>3. QED BY <3>1, <3>2
  <2>3. gate'[7].lo # "none"
    <3>1. CASE line = 7 BY <3>1, <1>2, <1>4
    <3>2. CASE line # 7
      <4>1. gate'[7] = gate[7] BY <1>4, <3>2 DEF Lines
      <4>2. QED BY <4>1 DEF IInv, GateInv
    <3>3. QED BY <3>1, <3>2
  <2>4. ASSUME NEW l \in Lines \ {7}
        PROVE  gate'[l].lo \in Enders \cup {"none"}
    <3>1. CASE l = line BY <3>1, <1>c, <1>4
    <3>2. CASE l # line BY <1>4, <3>2 DEF IInv, GateInv
    <3>3. QED BY <3>1, <3>2
  <2>5. QED BY <1>3, <2>1, <2>2, <2>3, <2>4 DEF GateInv
<1>6. ~spoiled => MaskInv'
  <2> SUFFICES ASSUME ~spoiled PROVE MaskInv' OBVIOUS
  <2>1. MaskInv BY DEF IInv
  <2>2. Enabled' = Enabled BY <1>3 DEF Enabled
  <2>3. ASSUME NEW l \in Lines \ imr, l # Cascade PROVE gate'[l].lo \in Enders
    <3>1. gate[l].lo \in Enders BY <2>1, <2>3, <1>3 DEF MaskInv
    <3>2. CASE l = line
      <4>1. line # 7 \/ k >= 2 BY <2>1, <2>3, <3>2, <1>3, <1>a, <1>b DEF MaskInv
      <4>2. QED BY <3>2, <4>1, <1>c, <1>4
    <3>3. CASE l # line BY <3>1, <3>3, <1>4, <2>3
    <3>4. QED BY <3>2, <3>3
  <2>4. QED BY <2>1, <2>2, <2>3, <1>3 DEF MaskInv
<1>7. FlagInv' /\ ServiceInv' /\ NoWildDispatch' /\ PlaceInv'
  BY <1>3, <1>4 DEF IInv, FlagInv, ServiceInv, NothingLeftInService, NoWildDispatch, Closed, PlaceInv
<1>8. QED BY <1>t, <1>3, <1>5, <1>6, <1>7 DEF IInv

LEMMA OffsetTwoIInv ==
  ASSUME IInv, register_interrupt_offset_2 PROVE IInv'
<1> USE DEF Goto, PICs, Locals
<1>t. TypeOK' BY StepTypeOK DEF IInv, Next, Main
<1>a. line \in Lines /\ Registrations[k].function \in Handlers
  BY LineType DEF IInv
<1>1. gate' = [gate EXCEPT ![line] = [lo |-> gate[line].lo, hi |-> Registrations[k].function]]
  <2>1. gate[line] = [lo |-> gate[line].lo, hi |-> gate[line].hi] /\ DOMAIN gate = Lines
    BY <1>a DEF IInv, TypeOK
  <2>2. [gate[line] EXCEPT !.hi = Registrations[k].function]
          = [lo |-> gate[line].lo, hi |-> Registrations[k].function]
    BY <2>1
  <2>3. QED BY <2>2 DEF register_interrupt_offset_2
<1>2. gate[line].lo = Registrations[k].function
  BY DEF register_interrupt_offset_2, IInv, PlaceInv
<1>3. /\ pc = "offset_2" /\ pc' = "registered" /\ line' = line
      /\ handler = "idle" /\ UNCHANGED <<k, intr, handler, imr, irr, isr, spoiled>>
  BY DEF register_interrupt_offset_2, line
<1>4. /\ \A l \in Lines : gate'[l].lo = gate[l].lo
      /\ \A l \in Lines \ {line} : gate'[l] = gate[l]
      /\ gate'[line].hi = gate'[line].lo
  BY <1>a, <1>1, <1>2 DEF IInv, TypeOK
<1>5. GateInv'
  <2>1. \A l \in Lines : gate'[l].lo = gate'[l].hi
    BY <1>3, <1>4 DEF IInv, GateInv
  <2>2. 7 \in Lines /\ 8..15 \subseteq Lines BY DEF Lines
  <2>3. QED BY <1>4, <2>1, <2>2 DEF IInv, GateInv
<1>6. ~spoiled => MaskInv'
  <2>1. Enabled' = Enabled BY <1>3 DEF Enabled
  <2>2. QED BY <1>3, <1>4, <2>1 DEF IInv, MaskInv
<1>7. FlagInv' /\ ServiceInv' /\ NoWildDispatch' /\ PlaceInv'
  BY <1>a, <1>2, <1>3, <1>4 DEF IInv, FlagInv, ServiceInv, NothingLeftInService, NoWildDispatch,
     Closed, PlaceInv
<1>8. QED BY <1>t, <1>3, <1>5, <1>6, <1>7 DEF IInv

\* The other steps of kernel_main.
LEMMA MainIInv ==
  ASSUME IInv, Main PROVE IInv'
<1> USE DEF Goto, PICs, Locals
<1>t. TypeOK' BY StepTypeOK DEF IInv, Next
<1>a. line \in Lines /\ k \in 1..Len(Registrations) /\ Len(Registrations) \in Nat
  BY LineType, RegistrationsType DEF IInv, TypeOK
<1>c. k >= 2 => Registrations[k].function \in Enders
  BY <1>a, RegistrationsShape DEF Enders
<1>d. ~PIC_line_enable_write => Enabled' = Enabled
  BY EnabledStays DEF IInv, Next
<1>f. handler = "idle" /\ handler' = "idle" /\ UNCHANGED spoiled
  BY DEF Main, disable_interrupts, PIC_init_words, PIC_init_masks, enable_interrupts,
     register_interrupt_cli, register_interrupt_offset_1, register_interrupt_offset_2,
     register_interrupt_sti, PIC_line_enable_read, PIC_line_enable_mask,
     PIC_line_enable_write, sleep_set, sleep_load, sleep_test, sleep_hlt, sleep_return
<1>g. NoWildDispatch' BY <1>f DEF NoWildDispatch
<1>1. CASE disable_interrupts \/ PIC_init_words \/ PIC_init_masks \/ enable_interrupts
  <2>1. /\ k = 1 /\ UNCHANGED <<k, gate>> /\ line' = line
        /\ pc' \in {"icw", "ocw", "sti", "cli"} /\ pc \in {"cls", "icw", "ocw", "sti"}
        /\ intr' = (pc' = "cli") /\ (isr' = isr \/ isr' = {}) /\ (irr' = irr \/ irr' = {})
    BY <1>1 DEF disable_interrupts, PIC_init_words, PIC_init_masks, enable_interrupts,
       IInv, PlaceInv, FlagInv, Closed, line, TypeOK
  <2>2. FlagInv' /\ GateInv' /\ PlaceInv' /\ ServiceInv'
    BY <1>f, <2>1 DEF IInv, FlagInv, GateInv, PlaceInv, ServiceInv, NothingLeftInService, Closed
  <2>3. ~spoiled => MaskInv'
    <3>1. Enabled' = Enabled
      BY <1>1, <1>d, <2>1 DEF PIC_line_enable_write
    <3>2. CASE disable_interrupts \/ enable_interrupts
      BY <2>1, <3>1, <3>2 DEF disable_interrupts, enable_interrupts, IInv, MaskInv
    <3>3. CASE PIC_init_words BY <3>3, <2>1 DEF PIC_init_words, MaskInv
    <3>4. CASE PIC_init_masks
      BY <3>4, <2>1 DEF PIC_init_masks, MaskInv, Lines, Cascade
    <3>5. QED BY <1>1, <3>2, <3>3, <3>4
  <2>4. QED BY <1>t, <1>f, <1>g, <2>2, <2>3 DEF IInv
<1>2. CASE register_interrupt_cli
  BY <1>2, <1>t, <1>d, <1>g DEF register_interrupt_cli, PIC_line_enable_write, IInv, FlagInv, GateInv,
     PlaceInv, MaskInv, ServiceInv, NothingLeftInService, Closed, line
<1>3. CASE register_interrupt_sti
  <2>1. /\ pc = "registered" /\ intr' = TRUE /\ pc' = IF k = 1 THEN "cli" ELSE "read"
        /\ k' = (IF k = 1 THEN 2 ELSE k) /\ UNCHANGED <<gate, imr, irr, isr>>
    BY <1>3 DEF register_interrupt_sti
  <2>2. FlagInv' /\ ServiceInv'
    BY <1>f, <2>1 DEF IInv, FlagInv, ServiceInv, NothingLeftInService, Closed
  <2>3. GateInv' BY <2>1 DEF IInv, GateInv
  <2>4. PlaceInv' BY <1>a, <1>c, <2>1 DEF IInv, PlaceInv, line
  <2>5. ~spoiled => MaskInv'
    <3>1. Enabled' = Enabled BY <2>1, <1>d DEF PIC_line_enable_write
    <3>2. QED BY <1>a, <2>1, <3>1 DEF IInv, MaskInv
  <2>6. QED BY <1>t, <1>f, <1>g, <2>2, <2>3, <2>4, <2>5 DEF IInv
<1>4. CASE PIC_line_enable_read \/ PIC_line_enable_mask
  <2>1. /\ UNCHANGED <<k, intr, gate, imr, irr, isr>> /\ line' = line
        /\ pc \in {"read", "mask"} /\ pc' \in {"mask", "write"}
    BY <1>4 DEF PIC_line_enable_read, PIC_line_enable_mask, line
  <2>2. FlagInv' /\ GateInv' /\ PlaceInv' /\ ServiceInv'
    BY <1>f, <2>1 DEF IInv, FlagInv, GateInv, PlaceInv, ServiceInv, NothingLeftInService, Closed
  <2>3. ~spoiled => MaskInv'
    <3>1. Enabled' = Enabled BY <2>1, <1>d DEF PIC_line_enable_write
    <3>2. QED
      BY <1>4, <2>1, <3>1 DEF PIC_line_enable_read, PIC_line_enable_mask, IInv, MaskInv,
         data_port, line_shift, ReadMask
  <2>4. QED BY <1>t, <1>f, <1>g, <2>2, <2>3 DEF IInv
<1>5. CASE PIC_line_enable_write
  <2>1. /\ k >= 2 /\ k' >= 2 /\ pc = "write" /\ pc' \in {"cli", "sleep"}
        /\ UNCHANGED <<intr, gate, irr, isr>> /\ gate[line].lo \in Enders
    BY <1>5, <1>a DEF PIC_line_enable_write, IInv, PlaceInv
  <2>2. FlagInv' /\ GateInv' /\ PlaceInv' /\ ServiceInv'
    BY <1>f, <2>1 DEF IInv, FlagInv, GateInv, PlaceInv, ServiceInv, NothingLeftInService, Closed
  <2>3. ~spoiled => MaskInv'
    <3> SUFFICES ASSUME ~spoiled PROVE MaskInv' OBVIOUS
    <3>1. MaskInv BY DEF IInv
    <3>2. Lines \ imr' \subseteq (Lines \ imr) \cup {line}
      BY <1>5, <2>1, <3>1, UnmasksOne DEF PIC_line_enable_write, IInv, MaskInv
    <3>3. Enabled' = Enabled \cup {line} BY <1>5, WriteEnables DEF IInv
    <3>4. \A l \in 8..15 : l \in imr' \/ l \in Enabled'
      <4>1. 8..15 \subseteq Lines BY DEF Lines
      <4>2. QED BY <2>1, <3>1, <3>2, <3>3, <4>1 DEF MaskInv
    <3>5. QED BY <2>1, <3>1, <3>2, <3>4 DEF MaskInv
  <2>4. QED BY <1>t, <1>f, <1>g, <2>2, <2>3 DEF IInv
<1>6. CASE sleep_set \/ sleep_load \/ sleep_test \/ sleep_hlt \/ sleep_return
  <2>1. /\ UNCHANGED <<k, intr, gate, imr, irr, isr>> /\ line' = line
        /\ pc \in {"sleep", "load", "test", "hlt", "returned"}
        /\ pc' \in {"sleep", "load", "test", "hlt", "halted", "returned"}
    BY <1>6 DEF sleep_set, sleep_load, sleep_test, sleep_hlt, sleep_return, line
  <2>2. FlagInv' /\ GateInv' /\ PlaceInv' /\ ServiceInv'
    BY <1>f, <2>1 DEF IInv, FlagInv, GateInv, PlaceInv, ServiceInv, NothingLeftInService, Closed
  <2>3. ~spoiled => MaskInv'
    <3>1. Enabled' = Enabled BY <2>1, <1>d DEF PIC_line_enable_write
    <3>2. QED BY <2>1, <3>1 DEF IInv, MaskInv
  <2>4. QED BY <1>t, <1>f, <1>g, <2>2, <2>3 DEF IInv
<1>7. QED
  BY <1>1, <1>2, <1>3, <1>4, <1>5, <1>6, OffsetOneIInv, OffsetTwoIInv DEF Main

\* The steps of the devices, the controllers and the CPU.
LEMMA DispatchIInv ==
  ASSUME IInv, NEW l \in Lines, Dispatch(l) PROVE IInv'
<1>t. TypeOK' BY StepTypeOK DEF IInv, Next
<1>e. Enabled' = Enabled
  BY EnabledStays DEF IInv, Next, Dispatch, Vector, PIC_line_enable_write, Goto
<1>v. Vector(l) BY DEF Dispatch
<1>1. /\ (handler' # "idle" => FlagInv') /\ GateInv' /\ PlaceInv' /\ (spoiled \/ MaskInv)'
      /\ handler = "idle" /\ pc \notin Closed /\ spoiled' = spoiled
      /\ handler' = IF gate[l].lo = "none" THEN "wild" ELSE gate[l].lo
  BY <1>e, <1>v, VectorKeeps DEF IInv
<1>2. /\ l # Cascade /\ l \notin imr /\ irr' \subseteq Sources
      /\ isr' = isr \cup {l} \cup (IF l >= 8 THEN {Cascade} ELSE {})
  BY InterruptsAssumption DEF Dispatch, Deliverable, IInv, ServiceInv
<1>3. isr = {} \/ (spoiled /\ isr = {7})
  BY <1>1 DEF IInv, ServiceInv, NothingLeftInService
<1>4. handler' \in Handlers \cup {"wild"} /\ handler' # "idle"
  <2>1. gate[l].lo \in Handlers \cup {"none"} BY DEF IInv, TypeOK
  <2>2. QED BY <1>1, <2>1 DEF Handlers
<1>5. handler' = "wild" => spoiled
  BY <1>1, <1>2 DEF IInv, MaskInv, Enders, Closed
<1>6. handler' # "wild" => /\ l >= 8 => handler' = "ahci"
                           /\ l < 7 => handler' \in Enders
  BY <1>1 DEF IInv, GateInv, Lines
<1>7. ~spoiled => handler' \in Enders
  BY <1>1, <1>2 DEF IInv, MaskInv, Enders, Closed
<1>8. handler' # "wild" => Serves({})' \/ (spoiled' /\ Serves({7})')
  <2> SUFFICES ASSUME handler' # "wild" PROVE Serves({})' \/ (spoiled' /\ Serves({7})')
    OBVIOUS
  <2>1. CASE isr = {} /\ (l # 7 \/ ~spoiled)
    <3>1. \/ l < 8 /\ handler' \in Enders /\ isr' = {} \cup {l}
          \/ l >= 8 /\ handler' = "ahci" /\ isr' = {} \cup {l} \cup {Cascade}
      BY <2>1, <1>2, <1>6, <1>7 DEF Lines
    <3>2. QED BY <3>1, <1>4, ServesNew
  <2>2. CASE isr = {} /\ l = 7 /\ spoiled
    BY <2>2, <1>1, <1>2 DEF Serves
  <2>3. CASE isr = {7} /\ spoiled
    <3>1. l = 7 => isr' = {7} BY <2>3, <1>2
    <3>2. l # 7 => \/ l < 8 /\ handler' \in Enders /\ isr' = {7} \cup {l}
                   \/ l >= 8 /\ handler' = "ahci" /\ isr' = {7} \cup {l} \cup {Cascade}
      BY <2>3, <1>2, <1>6 DEF Lines
    <3>3. QED BY <2>3, <3>1, <3>2, <1>1, <1>4, ServesNew
  <2>4. QED BY <1>3, <2>1, <2>2, <2>3
<1>9. QED
  BY <1>t, <1>1, <1>2, <1>4, <1>5, <1>8 DEF IInv, ServiceInv, NothingLeftInService,
     NoWildDispatch, Astray

LEMMA SpuriousIInv ==
  ASSUME IInv, Spurious PROVE IInv'
<1>t. TypeOK' BY StepTypeOK DEF IInv, Next
<1>e. Enabled' = Enabled
  BY EnabledStays DEF IInv, Next, Spurious, Vector, PIC_line_enable_write, Goto
<1>v. Vector(7) /\ 7 \in Lines BY DEF Spurious, Lines
<1>1. /\ (handler' # "idle" => FlagInv') /\ GateInv' /\ PlaceInv' /\ (spoiled \/ MaskInv)'
      /\ handler = "idle" /\ spoiled' = spoiled
      /\ handler' = IF gate[7].lo = "none" THEN "wild" ELSE gate[7].lo
  BY <1>e, <1>v, VectorKeeps DEF IInv
<1>2. handler' \in Handlers /\ handler' \notin {"idle", "wild"}
  <2>1. gate[7].lo \in Handlers BY <1>v DEF IInv, TypeOK, GateInv
  <2>2. QED BY <1>1, <2>1 DEF Handlers
<1>3. isr = {} \/ (spoiled /\ isr = {7})
  BY <1>1 DEF IInv, ServiceInv, NothingLeftInService
<1>4. isr' = isr /\ irr' = irr BY DEF Spurious
<1>5. Serves({})' \/ (spoiled' /\ Serves({7})')
  BY <1>1, <1>3, <1>4 DEF Serves
<1>6. QED
  BY <1>t, <1>1, <1>2, <1>4, <1>5 DEF IInv, ServiceInv, NothingLeftInService, NoWildDispatch

LEMMA SpuriousSlaveIInv ==
  ASSUME IInv, SpuriousSlave PROVE IInv'
<1>t. TypeOK' BY StepTypeOK DEF IInv, Next
<1>e. Enabled' = Enabled
  BY EnabledStays DEF IInv, Next, SpuriousSlave, Vector, PIC_line_enable_write, Goto
<1>v. Vector(15) /\ 15 \in Lines BY DEF SpuriousSlave, Lines
<1>1. /\ (handler' # "idle" => FlagInv') /\ GateInv' /\ PlaceInv' /\ (spoiled \/ MaskInv)'
      /\ handler = "idle" /\ spoiled' = spoiled /\ pc \notin Closed
      /\ gate[15].lo = gate[15].hi
      /\ handler' = IF gate[15].lo = "none" THEN "wild" ELSE gate[15].lo
  BY <1>e, <1>v, VectorKeeps DEF IInv
<1>2. handler' \in {"ahci", "wild"} BY <1>1 DEF IInv, GateInv
<1>3. isr = {} \/ (spoiled /\ isr = {7})
  BY <1>1 DEF IInv, ServiceInv, NothingLeftInService
<1>4. isr' = isr \cup {Cascade} /\ irr' = irr /\ gate' = gate
  BY DEF SpuriousSlave, Vector
<1>5. Serves({})' \/ (spoiled' /\ Serves({7})') \/ handler' = "wild"
  BY <1>1, <1>2, <1>3, <1>4 DEF Serves, Enders, Cascade
<1>6. NoWildDispatch'
  <2> SUFFICES ASSUME handler' = "wild", ~spoiled' PROVE LostOnPIC2'
    BY DEF NoWildDispatch, Astray
  <2>1. isr' = {Cascade} BY <1>1, <1>3, <1>4
  <2>2. gate'[15].lo = "none" BY <1>1, <1>4 DEF IInv, GateInv
  <2>3. \E l \in Enabled' : l >= 8
    <3>1. PICK l \in 8..15 : l \notin imr BY DEF SpuriousSlave
    <3>2. l \in Enabled BY <1>1, <3>1 DEF IInv, MaskInv, Closed
    <3>3. QED BY <3>1, <3>2, <1>e
  <2>4. QED BY <2>1, <2>2, <2>3 DEF LostOnPIC2, Whole
<1>7. QED
  BY <1>t, <1>1, <1>2, <1>4, <1>5, <1>6 DEF IInv, ServiceInv, NothingLeftInService

LEMMA HandleIInv ==
  ASSUME IInv, Handle PROVE IInv'
<1>t. TypeOK' BY StepTypeOK DEF IInv, Next
<1>1. /\ handler \notin {"idle", "wild"} /\ handler' = "idle" /\ intr' = TRUE
      /\ UNCHANGED <<pc, k, gate, imr, irr>> /\ line' = line
  BY DEF Handle, line
<1>2. FlagInv' /\ GateInv' /\ PlaceInv' /\ NoWildDispatch'
  BY <1>1 DEF IInv, FlagInv, GateInv, PlaceInv, NoWildDispatch, Closed
<1>3. /\ spoiled => spoiled'
      /\ spoiled' \/ pic_mask' = pic_mask
  <2>1. Eax BY DEF Handle
  <2>2. spoiled \in BOOLEAN BY DEF IInv, TypeOK
  <2>3. CASE handler \in {"spurious", "stub_spurious"} BY <2>1, <2>3 DEF Eax, Locals
  <2>4. CASE handler \notin {"spurious", "stub_spurious"}
    <3>1. PICK left \in IF handler = "pit" THEN {g_PIT_count_down'} ELSE LeftInEax :
            /\ pic_mask' = IF pc \in {"mask", "write"} THEN BitsOf(left) ELSE pic_mask
            /\ spoiled' = (spoiled \/ pc \in {"mask", "write"})
      BY <2>1, <2>4 DEF Eax
    <3>2. QED BY <2>2, <3>1
  <2>5. QED BY <2>3, <2>4
<1>4. (spoiled \/ MaskInv)'
  <2> SUFFICES ASSUME ~spoiled' PROVE MaskInv' OBVIOUS
  <2>1. MaskInv /\ pic_mask' = pic_mask BY <1>3 DEF IInv
  <2>2. Enabled' = Enabled BY <1>1 DEF Enabled
  <2>3. QED BY <1>1, <2>1, <2>2 DEF MaskInv, data_port, line_shift, ReadMask
<1>5. isr' = {} \/ (spoiled' /\ isr' = {7})
  <2>1. Serves({}) => isr' \in {{}, {}} BY HandleEnds
  <2>2. Serves({7}) => isr' \in {{}, {7}} BY HandleEnds
  <2>3. Serves({}) \/ (spoiled /\ Serves({7})) BY <1>1 DEF IInv, ServiceInv
  <2>4. QED BY <2>1, <2>2, <2>3, <1>3
<1>6. QED
  BY <1>t, <1>1, <1>2, <1>4, <1>5 DEF IInv, ServiceInv, NothingLeftInService

LEMMA DevicesIInv ==
  ASSUME IInv, UNCHANGED vars \/ KeyPress \/ \E l \in Lines : Raise(l) PROVE IInv'
<1>t. TypeOK' BY StepTypeOK DEF IInv, Next
<1>1. /\ UNCHANGED <<pc, k, intr, handler, gate, imr, isr, pic_mask, spoiled>>
      /\ line' = line /\ irr' \subseteq Sources
  BY InterruptsAssumption DEF KeyPress, Raise, vars, Locals, line, IInv, ServiceInv
<1>2. Enabled' = Enabled BY <1>1 DEF Enabled
<1>3. FlagInv' /\ GateInv' /\ PlaceInv'
  BY <1>1 DEF IInv, FlagInv, GateInv, PlaceInv
<1>4. (spoiled \/ MaskInv)'
  BY <1>1, <1>2 DEF IInv, MaskInv, data_port, line_shift, ReadMask
<1>5. ServiceInv' BY <1>1 DEF IInv, ServiceInv, NothingLeftInService, Serves
<1>6. NoWildDispatch' BY <1>1, <1>2 DEF IInv, NoWildDispatch, Astray, LostOnPIC2
<1>7. QED BY <1>t, <1>3, <1>4, <1>5, <1>6 DEF IInv

LEMMA StepIInv ==
  ASSUME IInv, [Next]_vars PROVE IInv'
BY MainIInv, DispatchIInv, SpuriousIInv, SpuriousSlaveIInv, HandleIInv, DevicesIInv DEF Next

\* The invariant holds with the wrappers as they are: what a handler may leave
\* in a register reaches the masks, never the flag, the gates or the place of
\* kernel_main.
THEOREM InterruptsSafe == Spec => []IInv
<1>1. Init => IInv BY InitIInv
<1>2. IInv /\ [Next]_vars => IInv' BY StepIInv
<1>3. QED BY <1>1, <1>2, PTL DEF Spec

-----------------------------------------------------------------------------
\* No interrupt is followed through a missing gate but for the two causes
\* that NoWildDispatch names: the cli of kernel_main covers the PICs' unmasked
\* moment, and every line is registered before it is enabled.
THEOREM NeverWild == Spec => []NoWildDispatch
<1>1. IInv => NoWildDispatch BY DEF IInv
<1>2. QED BY <1>1, InterruptsSafe, PTL

\* And none through a half-written one, whatever the masks are: the cli of
\* register_interrupt covers the moment between the two stores.
THEOREM NeverTorn == Spec => []NoTornGate
<1>1. IInv => NoTornGate BY DEF IInv, FlagInv, GateInv, NoTornGate, Closed
<1>2. QED BY <1>1, InterruptsSafe, PTL

\* Whenever main code runs, every accepted interrupt has been ended, but for
\* one of line 7 that a spoiled mask has let through.
THEOREM AlwaysEnded == Spec => []NothingLeftInService
<1>1. IInv => NothingLeftInService BY DEF IInv, ServiceInv
<1>2. QED BY <1>1, InterruptsSafe, PTL

-----------------------------------------------------------------------------
\* The keyboard's and the AHCI controller's handlers leave no zero in %eax, as
\* the build's do not.
NoZeroLeft == 0 \notin LeftInEax

\* When sleep's condition tests a zero, the count is zero: only the PIT's
\* handler changes the count, downwards, and it leaves what it has stored.
ReadInv == pc = "test" /\ loaded = 0 => g_PIT_count_down = 0

LEMMA ReadInvHolds ==
  ASSUME NoZeroLeft
  PROVE  Spec => []ReadInv
<1>1. Init => ReadInv
  BY DEF Init, ReadInv
<1>2. TypeOK /\ ReadInv /\ [Next]_vars => ReadInv'
  <2> SUFFICES ASSUME TypeOK, ReadInv, [Next]_vars PROVE ReadInv'
    OBVIOUS
  <2> USE DEF ReadInv, Goto, PICs, Locals
  <2>g. g_PIT_count_down \in Nat /\ loaded \in Nat
    BY InterruptsAssumption DEF TypeOK
  <2>1. CASE Main
    BY <2>1, <2>g DEF Main, disable_interrupts, PIC_init_words, PIC_init_masks,
       enable_interrupts, register_interrupt_cli, register_interrupt_offset_1,
       register_interrupt_offset_2, register_interrupt_sti, PIC_line_enable_read,
       PIC_line_enable_mask, PIC_line_enable_write, sleep_set, sleep_load, sleep_test,
       sleep_hlt, sleep_return
  <2>2. CASE KeyPress
    BY <2>2 DEF KeyPress
  <2>3. CASE Spurious
    BY <2>3 DEF Spurious, Vector
  <2>4. CASE Handle
    <3> SUFFICES ASSUME pc = "test", loaded' = 0 PROVE g_PIT_count_down' = 0
      BY <2>4 DEF Handle
    <3>1. g_PIT_count_down = 0 => g_PIT_count_down' = 0
      BY <2>4, <2>g DEF Handle, interrupt_function_PIT, stub_function_PIT,
         interrupt_function_keyboard, interrupt_function_spurious, interrupt_function_ahci
    <3>2. Eax BY <2>4 DEF Handle
    <3>3. CASE handler \in {"spurious", "stub_spurious"}
      BY <3>1, <3>2, <3>3 DEF Eax
    <3>4. CASE handler \notin {"spurious", "stub_spurious"}
      BY <3>2, <3>4 DEF Eax, NoZeroLeft
    <3> QED
      BY <3>3, <3>4
  <2>5. ASSUME NEW l \in Lines, Raise(l) \/ Dispatch(l) PROVE ReadInv'
    BY <2>5 DEF Raise, Dispatch, Vector
  <2>6. CASE UNCHANGED vars
    BY <2>6 DEF vars
  <2>7. CASE SpuriousSlave
    BY <2>7 DEF SpuriousSlave, Vector
  <2> QED
    BY <2>1, <2>2, <2>3, <2>4, <2>5, <2>6, <2>7 DEF Next
<1> QED
  BY <1>1, <1>2, TypeCorrect, PTL DEF Spec

\* Once lost, the timer stays lost; and the steps that sleep() counts lose
\* nothing.
LEMMA SoundSteps ==
  ASSUME TypeOK, [Next]_vars
  PROVE  /\ Sound \in BOOLEAN /\ Sound' \in BOOLEAN
         /\ Sound' => Sound
         /\ Main \/ (Handle /\ pc \notin {"mask", "write"}) => Sound' = Sound
<1> USE DEF Goto, PICs, Locals
<1>1. spoiled \in BOOLEAN BY DEF TypeOK
<1>2. Sound \in BOOLEAN /\ Sound' \in BOOLEAN BY DEF Sound
<1>3. CASE Main
  <2>1. handler = "idle" /\ handler' = "idle" /\ UNCHANGED spoiled
    BY <1>3 DEF Main, disable_interrupts, PIC_init_words, PIC_init_masks,
       enable_interrupts, register_interrupt_cli, register_interrupt_offset_1,
       register_interrupt_offset_2, register_interrupt_sti, PIC_line_enable_read,
       PIC_line_enable_mask, PIC_line_enable_write, sleep_set, sleep_load, sleep_test,
       sleep_hlt, sleep_return
  <2>2. QED BY <1>2, <2>1 DEF Sound, Astray
<1>4. CASE Handle
  <2>1. handler # "wild" /\ handler' = "idle" /\ Eax BY <1>4 DEF Handle
  <2>2. spoiled => spoiled' BY <1>1, <2>1 DEF Eax
  <2>3. pc \notin {"mask", "write"} => spoiled' = spoiled
    BY <1>1, <2>1 DEF Eax
  <2>4. Sound = ~spoiled /\ Sound' = ~spoiled' BY <1>1, <2>1 DEF Sound, Astray
  <2>5. Sound' => Sound BY <2>2, <2>4, Zenon
  <2>6. pc \notin {"mask", "write"} => Sound' = Sound BY <2>1, <2>3 DEF Sound, Astray
  <2>7. QED BY <1>2, <1>3, <2>5, <2>6
<1>5. CASE Spurious \/ SpuriousSlave \/ \E l \in Lines : Dispatch(l)
  <2>1. handler = "idle" /\ UNCHANGED spoiled
    BY <1>5 DEF Spurious, SpuriousSlave, Dispatch, Vector
  <2>2. ~(Handle \/ Main) \/ Sound' = Sound BY <1>3, <2>1 DEF Handle
  <2>3. QED BY <1>2, <2>1, <2>2 DEF Sound, Astray
<1>6. CASE KeyPress \/ UNCHANGED vars \/ \E l \in Lines : Raise(l)
  <2>1. UNCHANGED <<handler, spoiled, isr, gate, pc, k>>
    BY <1>6 DEF KeyPress, Raise, vars
  <2>2. line' = line BY <2>1 DEF line
  <2>3. Enabled' = Enabled BY <2>1, <2>2 DEF Enabled
  <2>4. QED BY <1>2, <2>1, <2>3 DEF Sound, Astray, LostOnPIC2
<1>7. QED BY <1>3, <1>4, <1>5, <1>6, <1>2 DEF Next

\* sleep() implements the abstract timer's safety: whatever interrupts come
\* between its test and its hlt, it returns only after all its ticks.
THEOREM SleepNeverEarly ==
  ASSUME NoZeroLeft
  PROVE  Spec => SleepTimer!TimerSafety
<1>1. Init => SleepTimer!TimerInit
  BY DEF Init, SleepTimer!TimerInit, InSleep, Sound, Astray
<1>2. TypeOK /\ ReadInv /\ [Next]_vars => [SleepTimer!TimerNext]_(SleepTimer!timerVars)
  <2> SUFFICES ASSUME TypeOK, ReadInv, [Next]_vars
      PROVE  SleepTimer!TimerNext \/ UNCHANGED SleepTimer!timerVars
    OBVIOUS
  <2> USE DEF Goto, PICs, Locals
  <2> DEFINE phase == IF InSleep THEN "asleep" ELSE "idle"
             elapsed == IF InSleep THEN SleepTicks - g_PIT_count_down ELSE 0
  <2>g. g_PIT_count_down \in 0..SleepTicks /\ SleepTicks \in Nat /\ loaded \in Nat
    BY InterruptsAssumption DEF TypeOK
  <2>s. ASSUME UNCHANGED <<phase, elapsed>>
        PROVE  SleepTimer!TimerNext \/ UNCHANGED SleepTimer!timerVars
    <3>1. Sound' = Sound \/ (Sound /\ Sound' = FALSE) BY SoundSteps
    <3>2. QED
      BY <3>1, <2>s DEF SleepTimer!TimerNext, SleepTimer!Lose, SleepTimer!timerVars
  <2>1. CASE Main /\ ~(sleep_set \/ sleep_test)
    <3>1. InSleep' = InSleep /\ UNCHANGED g_PIT_count_down
      BY <2>1 DEF Main, disable_interrupts, PIC_init_words, PIC_init_masks,
         enable_interrupts, register_interrupt_cli, register_interrupt_offset_1,
         register_interrupt_offset_2, register_interrupt_sti, PIC_line_enable_read,
         PIC_line_enable_mask, PIC_line_enable_write, sleep_load,
         sleep_hlt, sleep_return, InSleep
    <3>2. QED BY <2>s, <3>1
  <2>2. CASE sleep_set
    <3>1. Sound' = Sound BY <2>2, SoundSteps DEF Main
    <3>2. QED
      BY <2>2, <2>g, <3>1 DEF sleep_set, InSleep, SleepTimer!TimerNext, SleepTimer!Call
  <2>3. CASE sleep_test
    <3>1. CASE loaded > 0
      <4>1. InSleep' = InSleep /\ UNCHANGED g_PIT_count_down
        BY <2>3, <3>1 DEF sleep_test, InSleep
      <4>2. QED BY <2>s, <4>1
    <3>2. CASE ~(loaded > 0)
      <4>1. g_PIT_count_down = 0 /\ pc = "test" /\ pc' = "returned"
        BY <2>3, <3>2, <2>g DEF sleep_test, ReadInv
      <4>2. Sound' = Sound BY <2>3, SoundSteps DEF Main
      <4>3. QED
        BY <4>1, <4>2, <2>g DEF InSleep, SleepTimer!TimerNext, SleepTimer!Return
    <3>3. QED BY <3>1, <3>2
  <2>4. CASE Handle
    <3>1. CASE InSleep /\ handler = "pit" /\ g_PIT_count_down > 0
      <4>1. g_PIT_count_down' = g_PIT_count_down - 1 /\ pc' = pc
        BY <2>4, <3>1 DEF Handle, interrupt_function_PIT
      <4>2. Sound' = Sound BY <2>4, <3>1, SoundSteps DEF InSleep
      <4>3. QED
        BY <4>1, <4>2, <3>1, <2>g DEF InSleep, SleepTimer!TimerNext, SleepTimer!Tick
    <3>2. CASE ~InSleep
      <4>1. InSleep' = InSleep BY <2>4 DEF Handle, InSleep
      <4>2. QED BY <2>s, <3>2, <4>1
    <3>3. CASE InSleep /\ ~(handler = "pit" /\ g_PIT_count_down > 0)
      <4>1. g_PIT_count_down' = g_PIT_count_down /\ pc' = pc
        BY <2>4, <3>3, <2>g DEF Handle, interrupt_function_PIT, stub_function_PIT,
         interrupt_function_keyboard, interrupt_function_spurious, interrupt_function_ahci
      <4>2. InSleep' = InSleep BY <4>1 DEF InSleep
      <4>3. QED BY <2>s, <4>1, <4>2
    <3>4. QED BY <3>1, <3>2, <3>3
  <2>5. CASE KeyPress \/ Spurious \/ SpuriousSlave \/ UNCHANGED vars
             \/ \E l \in Lines : Raise(l) \/ Dispatch(l)
    <3>1. InSleep' = InSleep /\ UNCHANGED g_PIT_count_down
      BY <2>5 DEF KeyPress, Spurious, SpuriousSlave, vars, Raise, Dispatch, Vector, InSleep
    <3>2. QED BY <2>s, <3>1
  <2>6. QED BY <2>1, <2>2, <2>3, <2>4, <2>5 DEF Next, Main
<1>3. QED BY <1>1, <1>2, TypeCorrect, ReadInvHolds, PTL DEF Spec, SleepTimer!TimerSafety

-----------------------------------------------------------------------------
(* The masks.                                                               *)

\* No driver has line 8, the real-time clock's: PIC_line_enable takes it for
\* a line of PIC1 and unmasks nothing.
NoClockLine == \A d \in DOMAIN DriverLines : DriverLines[d] # 8

\* The mask register is written back with one line less.
LEMMA UnmasksLine ==
  ASSUME TypeOK, line # 8, pic_mask = ReadMask(data_port) \ {line_shift},
         WriteMask(data_port, pic_mask)
  PROVE  Lines \ imr' = (Lines \ imr) \cup {line}
<1>1. line \in Lines BY LineType
<1>2. line \notin imr'
  <2>1. ASSUME NEW p \in Ports, NEW b \in Bits, line = LineAt(p, b), p = data_port
        PROVE  b \notin pic_mask
    BY <1>1, <2>1 DEF LineAt, line_shift, Ports, Bits, data_port
  <2>2. ASSUME NEW p \in Ports, NEW b \in Bits, line = LineAt(p, b)
        PROVE  p = data_port
    BY <1>1, <2>2 DEF LineAt, data_port, Ports, Bits, Lines
  <2>3. QED BY <2>1, <2>2 DEF WriteMask
<1>3. ASSUME NEW l \in Lines, l \notin imr PROVE l \notin imr'
  BY <1>3 DEF WriteMask, ReadMask, LineAt
<1>4. QED BY <1>1, <1>2, <1>3, UnmasksOne

LEMMA StepMask ==
  ASSUME NoClockLine, IInv, MaskUnlessSpoiled, [Next]_vars PROVE MaskUnlessSpoiled'
<1> USE DEF Goto, PICs, Locals
<1>s. spoiled => spoiled'
  <2>1. spoiled \in BOOLEAN BY DEF IInv, TypeOK
  <2>2. Handle => (spoiled => spoiled') BY <2>1 DEF Handle, Eax
  <2>3. QED
    BY <2>2 DEF Next, Main, disable_interrupts, PIC_init_words, PIC_init_masks,
       enable_interrupts, register_interrupt_cli, register_interrupt_offset_1,
       register_interrupt_offset_2, register_interrupt_sti, PIC_line_enable_read,
       PIC_line_enable_mask, PIC_line_enable_write, sleep_set, sleep_load, sleep_test,
       sleep_hlt, sleep_return, KeyPress, Spurious, SpuriousSlave, Raise, Dispatch, Vector, vars
<1> SUFFICES ASSUME ~spoiled PROVE MaskTracksEnables'
  BY <1>s DEF MaskUnlessSpoiled
<1>m. MaskTracksEnables /\ MaskInv BY DEF MaskUnlessSpoiled, IInv
<1>t. k \in 1..Len(Registrations) BY DEF IInv, TypeOK
<1>1. CASE disable_interrupts \/ PIC_init_words
  BY <1>1 DEF disable_interrupts, PIC_init_words, MaskTracksEnables
<1>2. CASE PIC_init_masks
  <2>1. k = 1 /\ k' = 1 /\ imr' = Lines \ {Cascade} /\ pc' = "sti"
    BY <1>2 DEF PIC_init_masks, IInv, PlaceInv
  <2>2. Enabled' = {} BY <2>1 DEF Enabled
  <2>3. QED BY <2>1, <2>2 DEF MaskTracksEnables, Lines, Cascade
<1>3. CASE PIC_line_enable_write
  <2>1. pc = "write" /\ pic_mask = ReadMask(data_port) \ {line_shift}
    BY <1>3, <1>m DEF PIC_line_enable_write, MaskInv
  <2>2. line # 8
    <3>1. line \in {7, 0, 1} \/ \E d \in DOMAIN DriverLines : line = DriverLines[d]
      BY <1>t, RegistrationsShape DEF line
    <3>2. QED BY <3>1 DEF NoClockLine
  <2>3. Lines \ imr' = (Lines \ imr) \cup {line}
    BY <1>3, <2>1, <2>2, UnmasksLine DEF PIC_line_enable_write, IInv
  <2>4. Enabled' = Enabled \cup {line} BY <1>3, WriteEnables DEF IInv
  <2>5. QED BY <1>m, <2>1, <2>3, <2>4 DEF MaskTracksEnables
<1>4. CASE ~(disable_interrupts \/ PIC_init_words \/ PIC_init_masks \/ PIC_line_enable_write)
  <2>1. Enabled' = Enabled BY <1>4, EnabledStays DEF IInv
  <2>2. UNCHANGED imr /\ (pc \in {"cls", "icw", "ocw"} => pc' = pc)
    BY <1>4 DEF Next, Main,
       enable_interrupts, register_interrupt_cli, register_interrupt_offset_1,
       register_interrupt_offset_2, register_interrupt_sti, PIC_line_enable_read,
       PIC_line_enable_mask, sleep_set, sleep_load, sleep_test, Handle,
       sleep_hlt, sleep_return, KeyPress, Spurious, SpuriousSlave, Raise, Dispatch, Vector, vars
  <2>3. QED BY <1>m, <2>1, <2>2 DEF MaskTracksEnables
<1>5. QED BY <1>1, <1>2, <1>3, <1>4

\* From PIC_init on the controllers let through the cascade and exactly the
\* lines that PIC_line_enable has returned for, whatever lines the drivers
\* have, until an interrupt comes between a call's read of the mask register
\* and its write whose handler overwrites %eax.
THEOREM MaskIsEnables ==
  ASSUME NoClockLine
  PROVE  Spec => []MaskUnlessSpoiled
<1>1. Init => MaskUnlessSpoiled BY DEF Init, MaskUnlessSpoiled, MaskTracksEnables
<1>2. IInv /\ MaskUnlessSpoiled /\ [Next]_vars => MaskUnlessSpoiled' BY StepMask
<1>3. QED BY <1>1, <1>2, InterruptsSafe, PTL DEF Spec
=============================================================================
