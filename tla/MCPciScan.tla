----------------------------- MODULE MCPciScan -----------------------------
(* Two buses of two devices of three functions.  The first device of the    *)
(* first bus answers in every possible way, the last of the second as EHCI  *)
(* or AHCI, and of the two between them one, if at all.  There is a UHCI    *)
(* controller, which differs from EHCI in the last byte of its class only.  *)
EXTENDS PciScan

UHCI == Class(12, 3, 0)
MCClasses == {Ethernet, UHCI, EHCI, AHCI}

Answer == [0..2 -> {Ethernet, UHCI, EHCI, Absent}]
LastAnswer == [0..2 -> {EHCI, AHCI, Absent}]

Config(first, last, multi, d1) ==
  [class |-> [p \in Positions |->
     IF p.bus = 0 /\ p.device = 0 THEN first[p.function]
     ELSE IF p.bus = 1 /\ p.device = 1 THEN last[p.function]
     ELSE IF p.bus = 0 /\ p.function = 0 THEN d1 ELSE Absent],
   multi |-> [d \in [bus : 0..1, device : 0..1] |-> d.bus = d.device /\ d.bus \in multi]]

MCSpaces == {Config(first, last, multi, d1) :
               first \in Answer, last \in LastAnswer, multi \in SUBSET {0, 1},
               d1 \in {EHCI, Absent}}
=============================================================================
