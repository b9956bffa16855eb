------------------------------ MODULE PciScan ------------------------------
(***************************************************************************)
(* Walking the PCI configuration space: the stub's look for EHCI           *)
(* controllers (stub/kernel.c), each of which it resets as it comes; the   *)
(* two passes with which kernel_main lists the functions, one to count     *)
(* them and one to write their tokens; its look for Ethernet cards among   *)
(* the tokens; and find_PCI_device, with which it finds the AHCI adapter   *)
(* when AHCI_init is put back.  One action is one position of a walk.      *)
(*                                                                         *)
(* What answers on the bus is data: a function that is not there reads as  *)
(* ones, but a device without the multifunction bit may well answer for    *)
(* functions it does not have, and one with it need not have them all.     *)
(***************************************************************************)
EXTENDS Integers, SequencesExt

CONSTANTS
  MaxBus, MaxDevice, MaxFunction,  \* 0xFF, 0x1F and 7 in the code
  Spaces,       \* configuration spaces: what answers where, and which
                \* devices have the multifunction bit
  Classes       \* the class codes in them

Positions == [bus : 0..MaxBus, device : 0..MaxDevice, function : 0..MaxFunction]
Absent == [code |-> 255, sub |-> 255, progIF |-> 255]  \* reads as ones

Class(code, sub, progIF) == [code |-> code, sub |-> sub, progIF |-> progIF]
Ethernet == Class(2, 0, 0)
EHCI == Class(12, 3, 32)
AHCI == Class(1, 6, 1)

ASSUME PciAssumption ==
  /\ MaxBus \in 0..255 /\ MaxDevice \in 0..31 /\ MaxFunction \in 0..7
  /\ Classes \subseteq [code : 0..127, sub : 0..255, progIF : 0..255]
  /\ \A s \in Spaces : /\ s.class \in [Positions -> Classes \cup {Absent}]
                       /\ s.multi \in [[bus : 0..MaxBus, device : 0..MaxDevice] -> BOOLEAN]

VARIABLES
  space,
  pass,         \* "stub", "count", "fill", "list", "find", "done"
  at,           \* the position the walk is at
  found, resets,\* the controller the stub will use; those it has reset
  tokens_count, tokens,
  n, ethernet,  \* the token looked at; the cards listed
  token         \* what find_PCI_device has found

vars == <<space, pass, at, found, resets, tokens_count, tokens, n, ethernet, token>>

Here(b, d, f) == [bus |-> b, device |-> d, function |-> f]
Origin == Here(0, 0, 0)

Init == /\ space \in Spaces /\ pass = "stub" /\ at = Origin
        /\ found = Origin /\ resets = <<>>
        /\ tokens_count = 0 /\ tokens = <<>> /\ n = 1 /\ ethernet = {}
        /\ token = Origin

-----------------------------------------------------------------------------
(* Configuration mechanism 1: an address for port 0xCF8 put together from   *)
(* bytes, which the host bridge takes apart again for each access to port   *)
(* 0xCFC.  Bit 31, which is always set, is left out.                        *)

\* Mutant: the device number is shifted as far as a function's.
config_address_short(bus, device, function, offset) ==
  bus * 65536 + device * 256 + function * 256 + offset

config_address(bus, device, function, offset) ==
  bus * 65536 + device * 2048 + function * 256 + offset

\* What the host bridge selects.
Selected(address) == Here((address \div 65536) % 256, (address \div 2048) % 32,
                          (address \div 256) % 8)

Ones == 2147483647

\* The registers a scan reads: vendor, class and header type; 32 bits each,
\* of which the devices' numbers and revisions are left out.
Dword(p, offset) ==
  IF p \notin Positions \/ space.class[p] = Absent THEN Ones
  ELSE CASE offset = 0 -> 32902
         [] offset = 8 -> space.class[p].code * 16777216 + space.class[p].sub * 65536
                          + space.class[p].progIF * 256
         [] offset = 12 -> IF space.multi[[bus |-> p.bus, device |-> p.device]]
                             THEN 128 * 65536 ELSE 0

read_config_data(p, offset) ==
  Dword(Selected(config_address(p.bus, p.device, p.function, offset)), offset)

\* The function a write goes to.
write_config_data(p, offset) == Selected(config_address(p.bus, p.device, p.function, offset))

get_PCI_vendorID(p) == read_config_data(p, 0) % 65536

get_PCI_header_type(p) == (read_config_data(p, 12) \div 65536) % 256

get_PCI_class(p) == LET dword == read_config_data(p, 8) IN
  Class((dword \div 16777216) % 256, (dword \div 65536) % 256, (dword \div 256) % 256)

-----------------------------------------------------------------------------
Answers == get_PCI_vendorID(at) # 65535

\* Mutant: functions are probed on every device that is there.
MoreFunctions_unguarded == at.function < MaxFunction /\ (at.function > 0 \/ Answers)

\* Functions 1 to 7 are looked at only behind a function 0 that answers with
\* the multifunction bit; then all of them.
MoreFunctions ==
  /\ at.function < MaxFunction
  /\ at.function > 0 \/ (Answers /\ get_PCI_header_type(at) \div 128 = 1)

\* Mutant: the device number goes one past the last.
Advance_past_last(next) ==
  \/ /\ MoreFunctions
     /\ at' = [at EXCEPT !.function = @ + 1] /\ UNCHANGED pass
  \/ /\ ~MoreFunctions /\ at.device <= MaxDevice
     /\ at' = Here(at.bus, at.device + 1, 0) /\ UNCHANGED pass

\* The next position, or back to the start and on to the next pass.
Advance(next) ==
  \/ /\ MoreFunctions
     /\ at' = [at EXCEPT !.function = @ + 1] /\ UNCHANGED pass
  \/ /\ ~MoreFunctions /\ at.device < MaxDevice
     /\ at' = Here(at.bus, at.device + 1, 0) /\ UNCHANGED pass
  \/ /\ ~MoreFunctions /\ at.device = MaxDevice /\ at.bus < MaxBus
     /\ at' = Here(at.bus + 1, 0, 0) /\ UNCHANGED pass
  \/ /\ ~MoreFunctions /\ at.device = MaxDevice /\ at.bus = MaxBus
     /\ at' = Origin /\ pass' = next

\* Each match replaces the one before.  EHCI_Reset gets it at once, which
\* sets a semaphore in its configuration space.
stub_find_ehci ==
  /\ pass = "stub"
  /\ IF Answers /\ get_PCI_class(at) = EHCI
       THEN found' = at /\ resets' = Append(resets, write_config_data(at, 0))
       ELSE UNCHANGED <<found, resets>>
  /\ Advance("count")
  /\ UNCHANGED <<space, tokens_count, tokens, n, ethernet, token>>

enum_PCI_count ==
  /\ pass = "count"
  /\ tokens_count' = IF Answers THEN tokens_count + 1 ELSE tokens_count
  /\ Advance("fill")
  /\ UNCHANGED <<space, found, resets, tokens, n, ethernet, token>>

enum_PCI == /\ pass = "fill"
            /\ tokens' = IF Answers THEN Append(tokens, at) ELSE tokens
            /\ Advance("list")
            /\ UNCHANGED <<space, found, resets, tokens_count, n, ethernet, token>>

IsEthernet(t) == /\ get_PCI_class(t).code = Ethernet.code
                 /\ get_PCI_class(t).sub = Ethernet.sub

\* Mutant: the loop ends one token early.
list_ethernet_short ==
  /\ pass = "list" /\ n < tokens_count /\ n' = n + 1
  /\ ethernet' = IF IsEthernet(tokens[n]) THEN ethernet \cup {tokens[n]} ELSE ethernet
  /\ UNCHANGED <<space, pass, at, found, resets, tokens_count, tokens, token>>

\* kernel_main reads the class of each token's function.
list_ethernet ==
  /\ pass = "list" /\ n <= tokens_count /\ n' = n + 1
  /\ ethernet' = IF IsEthernet(tokens[n]) THEN ethernet \cup {tokens[n]} ELSE ethernet
  /\ UNCHANGED <<space, pass, at, found, resets, tokens_count, tokens, token>>

list_ethernet_end ==
  /\ pass = "list" /\ n > tokens_count /\ pass' = "find"
  /\ UNCHANGED <<space, at, found, resets, tokens_count, tokens, n, ethernet, token>>

find_PCI_device ==
  /\ pass = "find"
  /\ token' = IF Answers /\ get_PCI_class(at) = AHCI THEN at ELSE token
  /\ Advance("done")
  /\ UNCHANGED <<space, found, resets, tokens_count, tokens, n, ethernet>>

Next == \/ stub_find_ehci
        \/ enum_PCI_count \/ enum_PCI \/ list_ethernet \/ list_ethernet_end
        \/ find_PCI_device

Spec == Init /\ [][Next]_vars /\ WF_vars(Next)

-----------------------------------------------------------------------------
(* Properties.                                                              *)

\* The functions there really are.
Present == {p \in Positions :
  /\ space.class[p] # Absent
  /\ p.function > 0 => /\ space.class[Here(p.bus, p.device, 0)] # Absent
                       /\ space.multi[[bus |-> p.bus, device |-> p.device]]}

OfClass(class) == {p \in Present : space.class[p] = class}

Number(p) == (p.bus * (MaxDevice + 1) + p.device) * (MaxFunction + 1) + p.function
InOrder(s) == \A a, b \in DOMAIN s : a < b => Number(s[a]) < Number(s[b])
LastOf(set, none) == IF set = {} THEN none
                     ELSE CHOOSE p \in set : \A q \in set : Number(q) <= Number(p)

\* Every variable has its type.
TypeOK ==
  /\ space.class \in [Positions -> Classes \cup {Absent}]
  /\ pass \in {"stub", "count", "fill", "list", "find", "done"}
  /\ at \in Positions /\ tokens_count \in 0..Cardinality(Positions)
  /\ tokens \in Seq(Positions) /\ n \in 1..(Cardinality(Positions) + 1)
  /\ ethernet \subseteq Positions /\ found \in Positions /\ resets \in Seq(Positions)
  /\ token \in Positions

\* The two passes agree: kernel_main's loop finds a token, of a function that
\* is there, behind each of the numbers it counts to, and each function once.
TokensAreTheFunctions ==
  pass \in {"list", "find", "done"} =>
    /\ tokens_count = Len(tokens)
    /\ ToSet(tokens) = Present /\ InOrder(tokens)

\* kernel_main lists the Ethernet cards, each of them and nothing else.
EthernetFound == <>(pass = "find" /\ ethernet = OfClass(Ethernet))

\* The controllers the drivers go on to use are the last there are of their
\* class; all EHCI controllers have been reset, once each, and nothing else
\* has been written to.
ControllersFound ==
  /\ pass # "stub" => /\ ToSet(resets) = OfClass(EHCI) /\ InOrder(resets)
                      /\ found = LastOf(OfClass(EHCI), Origin)
  /\ pass = "done" => token = LastOf(OfClass(AHCI), Origin)
=============================================================================
