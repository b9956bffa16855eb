-------------------------------- MODULE Ahci --------------------------------
(***************************************************************************)
(* The kernel's AHCI driver (kernel/ahci.c): AHCI_init and then calls of   *)
(* AHCI_read and AHCI_write, with the host bus adapter, the disks behind   *)
(* it and the interrupt handler between any two steps.                     *)
(*                                                                         *)
(* The heap's pages are numbered as alloc_page gives them: Heap says that  *)
(* they are different ones.  Each sleep(1) in a polling loop is a step of  *)
(* the others.  Data counts units of 0x200 bytes.                          *)
(***************************************************************************)
EXTENDS Integers, Sequences, SequencesExt

CONSTANTS
  NP,           \* ports AHCI_init looks at, 32
  Slots,        \* slots of a command list, 32
  Base,         \* values of a byte
  Chunk,        \* units in a PRDT entry, 0x2000 bytes
  Room,         \* units of the callers' buffer
  Requests,     \* what callers ask for: [write, port, lba_low, lba_high, count]
  NoRequest,
  MaxRequests,  \* bound on the calls
  Connected,    \* what may be on the ports, see Devices
  Uppers,       \* what the firmware may leave in PxCLBU and PxFBU
  HonoursW,     \* data goes the way the header says, or the command
  PerPage       \* PRDT entries in what a command table leaves of its page, 248

Port == 0..NP - 1
Slot == 0..Slots - 1
Byte == 0..Base - 1
Power[k \in 0..5] == IF k = 0 THEN 1 ELSE Base * Power[k - 1]
Word == Power[4]

\* "absent": the port is not implemented.  A disk has sectors of so many
\* units; sectors of one unit are the ordinary ones.
Devices == [kind : {"absent", "none", "ata48", "ata28", "atapi"}, sector : Nat \ {0}, sectors : Nat]
Disks(devices) == {p \in Port : devices[p].kind \in {"ata48", "ata28"}}

\* Contents of a unit: what was in unit n of the disk on a port, or of the buffer.
Units == (0..NP) \X Nat

Headers == [W : BOOLEAN, prdtl : Nat, ctba : Nat]
NoHeader == [W |-> FALSE, prdtl |-> 0, ctba |-> 0]
PrdtEntries == [dba : Nat, dbc : Nat]
Pages == [kind : {"page", "fis"}]
         \cup [kind : {"list"}, header : [Slot -> Headers]]
         \cup [kind : {"table"}, command : {"identify", "read", "write"},
               lba : [1..6 -> Byte], sectorCount : [1..2 -> Byte], prdt : Seq(PrdtEntries)]
         \cup [kind : {"data"}, device : Devices]
Page == [kind |-> "page"]

Registers == [PxCLB : Nat, upper : Nat, PxFB : Nat, DHRE : BOOLEAN, FRE : BOOLEAN, FR : BOOLEAN,
              ST : BOOLEAN, CI : SUBSET Slot, DHRS : BOOLEAN, DET : {"no", "device", "link"}]
Reset(upper, det) == [PxCLB |-> 0, upper |-> upper, PxFB |-> 0, DHRE |-> FALSE, FRE |-> FALSE,
                      FR |-> FALSE, ST |-> FALSE, CI |-> {}, DHRS |-> FALSE, DET |-> det]

ASSUME AhciAssumption ==
  /\ NP \in Nat /\ Slots \in Nat \ {0} /\ Base \in Nat \ {0} /\ Chunk \in Nat \ {0}
  /\ Room \in Nat /\ MaxRequests \in Nat /\ NoRequest \notin Requests
  /\ Connected \subseteq [Port -> Devices] /\ Uppers \subseteq Nat
  /\ HonoursW \in BOOLEAN /\ PerPage \in Nat \ {0}
  /\ Requests \subseteq [write : BOOLEAN, port : Port, lba_low : 0..Word - 1,
                         lba_high : 0..Power[2] - 1, count : 1..Power[2]]

VARIABLES
  devices,             \* what is connected
  disk, buffer,        \* contents, by unit
  pc, i,               \* what the driver does next, AHCI_init's loop
  request, calls,      \* what AHCI_read or AHCI_write was called with, and how often
  memory,              \* the pages alloc_page has given out
  command_table, command_list_index,
  g_ahci_device_list,  \* newest first
  HR, IE, IS,          \* GHC and IS of the adapter
  port,                \* its ports' registers
  stage,               \* its command: "none", data "moved", or "failed"
  astray,              \* it has used something else than the driver's structures
  enabled, irq         \* the line in the PIC: enabled, and a request

contents == <<devices, disk, buffer>>
driver == <<pc, i, request, calls, memory, command_table, command_list_index, g_ahci_device_list>>
hba == <<HR, IE, IS, port, stage, astray>>
pic == <<enabled, irq>>
vars == <<contents, driver, hba, pic>>

Init ==
  /\ devices \in Connected
  /\ disk = [p \in Disks(devices) |-> [n \in 0..devices[p].sector * devices[p].sectors - 1 |-> <<p, n>>]]
  /\ buffer = [k \in 0..Room - 1 |-> <<NP, k>>]
  /\ pc = "init" /\ i = 0 /\ request = NoRequest /\ calls = 0 /\ memory = <<>>
  /\ command_table = 0 /\ command_list_index = 0 /\ g_ahci_device_list = <<>>
  /\ HR = FALSE /\ IE = FALSE /\ IS = {}
  /\ \E upper \in Uppers : port = [p \in Port |-> Reset(upper, "no")]
  /\ stage = [p \in Port |-> "none"] /\ astray = FALSE
  /\ enabled = FALSE /\ irq = FALSE

-----------------------------------------------------------------------------
(* The driver.                                                              *)

\* CAP2 says that the firmware must be asked first: nothing is done.
AHCI_init_handoff ==
  /\ pc = "init" /\ pc' = "handoff"
  /\ UNCHANGED <<contents, i, request, calls, memory, command_table, command_list_index,
                 g_ahci_device_list, hba, pic>>

AHCI_init_reset ==
  /\ pc = "init" /\ pc' = "reset" /\ HR' = TRUE
  /\ UNCHANGED <<contents, i, request, calls, memory, command_table, command_list_index,
                 g_ahci_device_list, IE, IS, port, stage, astray, pic>>

AHCI_init_enable ==
  /\ pc = "reset" /\ ~HR /\ pc' = "register" /\ IE' = TRUE
  /\ UNCHANGED <<contents, i, request, calls, memory, command_table, command_list_index,
                 g_ahci_device_list, HR, IS, port, stage, astray, pic>>

\* register_interrupt and PIC_line_enable: Interrupts has their steps.
AHCI_init_register ==
  /\ pc = "register" /\ pc' = "ports" /\ enabled' = TRUE
  /\ UNCHANGED <<contents, i, request, calls, memory, command_table, command_list_index,
                 g_ahci_device_list, hba, irq>>

\* The memory once pages more are given out.  A table has one page; entries
\* that do not fit lie behind it, and go when somebody gets that memory.
Given(pages) ==
  [n \in DOMAIN memory |->
     IF memory[n].kind = "table"
       THEN [memory[n] EXCEPT !.prdt = SubSeq(@, 1, Min({Len(@), PerPage}))]
       ELSE memory[n]] \o pages

Present(p) == devices[p].kind # "absent" /\ port[p].DET # "no"

AHCI_init_skip ==
  /\ pc = "ports" /\ i < NP /\ ~Present(i) /\ i' = i + 1
  /\ UNCHANGED <<contents, pc, request, calls, memory, command_table, command_list_index,
                 g_ahci_device_list, hba, pic>>

\* Mutant: FIS reception is not started.
AHCI_init_port_no_FRE ==
  /\ pc = "ports" /\ i < NP /\ Present(i) /\ pc' = "fis"
  /\ memory' = Given(<<[kind |-> "list", header |-> [s \in Slot |-> NoHeader]], [kind |-> "fis"]>>)
  /\ port' = [port EXCEPT ![i].PxCLB = Len(memory) + 1, ![i].PxFB = Len(memory) + 2,
                          ![i].DHRE = TRUE]
  /\ UNCHANGED <<contents, i, request, calls, command_table, command_list_index,
                 g_ahci_device_list, HR, IE, IS, stage, astray, pic>>

\* Command list and received FIS.  PxCLBU and PxFBU stay as they are, and
\* whatever the headers are before they are written, no slot is in use.
AHCI_init_port ==
  /\ pc = "ports" /\ i < NP /\ Present(i) /\ pc' = "fis"
  /\ memory' = Given(<<[kind |-> "list", header |-> [s \in Slot |-> NoHeader]], [kind |-> "fis"]>>)
  /\ port' = [port EXCEPT ![i].PxCLB = Len(memory) + 1, ![i].PxFB = Len(memory) + 2,
                          ![i].DHRE = TRUE, ![i].FRE = TRUE]
  /\ UNCHANGED <<contents, i, request, calls, command_table, command_list_index,
                 g_ahci_device_list, HR, IE, IS, stage, astray, pic>>

\* Mutant: nothing is cut off.
Bytes_uncut(n, len) == [k \in 1..len |-> n \div Power[k - 1]]

\* A sequence of len bytes, the lowest first.
Bytes(n, len) == [k \in 1..len |-> (n \div Power[k - 1]) % Base]

\* IDENTIFY DEVICE, with one entry for 0x200 bytes on a page of its own.
AHCI_init_identify ==
  /\ pc = "fis" /\ port[i].FR /\ pc' = "execute"
  /\ port' = [port EXCEPT ![i].ST = TRUE]
  /\ memory' = Given(<<[kind |-> "table", command |-> "identify", lba |-> Bytes(0, 6),
                         sectorCount |-> Bytes(0, 2),
                         prdt |-> <<[dba |-> Len(memory) + 2, dbc |-> 0]>>], Page>>)
  /\ command_table' = Len(memory) + 1
  /\ UNCHANGED <<contents, i, request, calls, command_list_index, g_ahci_device_list,
                 HR, IE, IS, stage, astray, pic>>

\* The port of the command at hand.
current == IF request = NoRequest THEN i ELSE request.port

\* The first slot that is free, 0 if none is, and its header, whose W bit is
\* never set.
AHCI_execute_command ==
  /\ pc = "execute" /\ pc' = "issue"
  /\ LET free == Slot \ port[current].CI
         s == IF free = {} THEN 0 ELSE CHOOSE s \in free : \A t \in free : s <= t
     IN /\ command_list_index' = s
        /\ memory' = [memory EXCEPT ![port[current].PxCLB].header[s] =
                        [W |-> FALSE, prdtl |-> Len(memory[command_table].prdt), ctba |-> command_table]]
  /\ UNCHANGED <<contents, i, request, calls, command_table, g_ahci_device_list, hba, pic>>

AHCI_execute_command_issue ==
  /\ pc = "issue" /\ pc' = "wait"
  /\ port' = [port EXCEPT ![current].CI = @ \cup {command_list_index}]
  /\ UNCHANGED <<contents, i, request, calls, memory, command_table, command_list_index,
                 g_ahci_device_list, HR, IE, IS, stage, astray, pic>>

\* Mutant: AHCI_read and AHCI_write do not wait for their command.
AHCI_execute_command_return_early ==
  /\ pc = "wait"
  /\ request # NoRequest \/ command_list_index \notin port[current].CI
  /\ pc' = IF request = NoRequest THEN "identified" ELSE "ready"
  /\ request' = NoRequest
  /\ UNCHANGED <<contents, i, calls, memory, command_table, command_list_index,
                 g_ahci_device_list, hba, pic>>

\* Back to AHCI_init, or to the caller of AHCI_read or AHCI_write.
AHCI_execute_command_return ==
  /\ pc = "wait" /\ command_list_index \notin port[current].CI
  /\ pc' = IF request = NoRequest THEN "identified" ELSE "ready"
  /\ request' = NoRequest
  /\ UNCHANGED <<contents, i, calls, memory, command_table, command_list_index,
                 g_ahci_device_list, hba, pic>>

\* The size in words 117 and 118 counts words and is taken for bytes.
lba_size(device) == IF device.sector > 1 THEN device.sector \div 2 ELSE 1

\* Mutant: low and high are exchanged.
Registered_swapped(device, p) ==
  [port |-> p, lba_size |-> lba_size(device), lba_count_low |-> device.sectors \div Word,
   lba_count_high |-> device.sectors % Word]

Registered(device, p) ==
  [port |-> p, lba_size |-> lba_size(device), lba_count_low |-> device.sectors % Word,
   lba_count_high |-> device.sectors \div Word]

\* Mutant: disks without 48-bit addresses are registered too.
AHCI_init_register_device_any ==
  /\ pc = "identified" /\ pc' = "ports" /\ i' = i + 1
  /\ g_ahci_device_list' = <<Registered(memory[command_table + 1].device, i)>> \o g_ahci_device_list
  /\ memory' = Given(<<Page>>)
  /\ UNCHANGED <<contents, request, calls, command_table, command_list_index, hba, pic>>

\* Only disks with 48-bit addresses are registered.  The entry has a page.
AHCI_init_register_device ==
  /\ pc = "identified" /\ pc' = "ports" /\ i' = i + 1
  /\ LET device == memory[command_table + 1].device
     IN IF device.kind = "ata48"
          THEN /\ g_ahci_device_list' = <<Registered(device, i)>> \o g_ahci_device_list
               /\ memory' = Given(<<Page>>)
          ELSE UNCHANGED <<g_ahci_device_list, memory>>
  /\ UNCHANGED <<contents, request, calls, command_table, command_list_index, hba, pic>>

AHCI_init_return ==
  /\ pc = "ports" /\ i = NP /\ pc' = "ready"
  /\ UNCHANGED <<contents, i, request, calls, memory, command_table, command_list_index,
                 g_ahci_device_list, hba, pic>>

\* Mutant: the length is not one less.
Prdt_length(units) ==
  [n \in 1..(units + Chunk - 1) \div Chunk |->
     [dba |-> (n - 1) * Chunk,
      dbc |-> (IF units - (n - 1) * Chunk > Chunk THEN Chunk ELSE units - (n - 1) * Chunk)]]

\* Entries for a buffer of so many units, in chunks, the last one shorter.
Prdt(units) ==
  [n \in 1..(units + Chunk - 1) \div Chunk |->
     [dba |-> (n - 1) * Chunk,
      dbc |-> (IF units - (n - 1) * Chunk > Chunk THEN Chunk ELSE units - (n - 1) * Chunk) - 1]]

\* AHCI_read and AHCI_write, up to the execution.
AHCI_transfer(r) ==
  /\ pc = "ready" /\ calls < MaxRequests /\ calls' = calls + 1
  /\ \E n \in DOMAIN g_ahci_device_list :
       LET device == g_ahci_device_list[n]
       IN /\ device.port = r.port
          /\ memory' = Given(<<[kind |-> "table", command |-> IF r.write THEN "write" ELSE "read",
               lba |-> Bytes(r.lba_low, 4) \o Bytes(r.lba_high, 2),
               sectorCount |-> Bytes(r.count, 2), prdt |-> Prdt(r.count * device.lba_size)]>>)
  /\ command_table' = Len(memory) + 1 /\ request' = r /\ pc' = "execute"
  /\ UNCHANGED <<contents, i, command_list_index, g_ahci_device_list, hba, pic>>

Driver == \/ AHCI_init_handoff \/ AHCI_init_reset \/ AHCI_init_enable \/ AHCI_init_register
          \/ AHCI_init_skip \/ AHCI_init_port \/ AHCI_init_identify \/ AHCI_init_register_device
          \/ AHCI_init_return \/ AHCI_execute_command \/ AHCI_execute_command_issue
          \/ AHCI_execute_command_return

\* Every port with a request: its completion has not been acknowledged.  IS,
\* which nobody writes, keeps its bits.
interrupt_function_ahci ==
  /\ enabled /\ irq /\ irq' = FALSE
  /\ port' = [p \in Port |-> IF p \in IS THEN [port[p] EXCEPT !.DHRS = FALSE] ELSE port[p]]
  /\ UNCHANGED <<contents, driver, HR, IE, IS, stage, astray, enabled>>

-----------------------------------------------------------------------------
(* The adapter and the disks.                                               *)

\* Whatever is connected: its link is up, or still on its way.
ResetDone ==
  /\ HR /\ HR' = FALSE /\ IE' = FALSE /\ IS' = {}
  /\ \E det \in [Port -> {"no", "device", "link"}] :
       /\ \A p \in Port : \/ det[p] = "no" /\ devices[p].kind \in {"absent", "none"}
                          \/ det[p] # "no" /\ devices[p].kind \notin {"absent", "none"}
       /\ port' = [p \in Port |-> Reset(port[p].upper, det[p])]
  /\ UNCHANGED <<contents, driver, stage, astray, pic>>

LinkUp(p) ==
  /\ ~HR /\ pc \notin {"init", "handoff"}
  /\ devices[p].kind \notin {"absent", "none"} /\ port[p].DET # "link"
  /\ port' = [port EXCEPT ![p].DET = "link"]
  /\ UNCHANGED <<contents, driver, HR, IE, IS, stage, astray, pic>>

ReceiveFis(p) ==
  /\ port[p].FRE /\ ~port[p].FR /\ port' = [port EXCEPT ![p].FR = TRUE]
  /\ UNCHANGED <<contents, driver, HR, IE, IS, stage, astray, pic>>

\* There is a table behind slot s, where the adapter looks, with as many
\* entries as its header says.
Fetchable(p, s) ==
  /\ port[p].upper = 0 /\ port[p].PxCLB \in DOMAIN memory /\ memory[port[p].PxCLB].kind = "list"
  /\ LET h == memory[port[p].PxCLB].header[s]
     IN /\ h.ctba \in DOMAIN memory /\ memory[h.ctba].kind = "table"
        /\ h.prdtl <= Len(memory[h.ctba].prdt)
Header(p, s) == memory[port[p].PxCLB].header[s]
Table(p, s) == memory[Header(p, s).ctba]

Number(bytes) ==
  LET number[n \in 0..Len(bytes)] == IF n = 0 THEN 0 ELSE number[n - 1] + bytes[n] * Power[n - 1]
  IN  number[Len(bytes)]

\* The units of memory a table's first entries stand for, in their order.
Places(t, prdtl) ==
  LET places[n \in 0..prdtl] ==
        IF n = 0 THEN <<>>
        ELSE places[n - 1] \o [k \in 1..t.prdt[n].dbc + 1 |-> t.prdt[n].dba + k - 1]
  IN  places[prdtl]

\* The units a disk sends or takes, 0 sectors standing for the most there are.
First(p, t) == Number(t.lba) * devices[p].sector
Size(p, t) == (IF Number(t.sectorCount) = 0 THEN Power[2] ELSE Number(t.sectorCount)) * devices[p].sector

LastAt(places, k) == CHOOSE m \in DOMAIN places :
                     places[m] = k /\ \A n \in DOMAIN places : places[n] = k => n <= m

\* Data moves as far as there are entries for it.
Move(p, t, prdtl) ==
  LET all == Places(t, prdtl)
      places == SubSeq(all, 1, IF Size(p, t) < Len(all) THEN Size(p, t) ELSE Len(all))
      first == First(p, t)
  IN IF t.command = "read"
       THEN /\ buffer' = [k \in DOMAIN buffer |->
                            IF k \in Range(places) THEN disk[p][first + LastAt(places, k) - 1] ELSE buffer[k]]
            /\ UNCHANGED disk
       ELSE /\ disk' = [disk EXCEPT ![p] = [n \in DOMAIN @ |->
                          IF n - first + 1 \in DOMAIN places THEN buffer[places[n - first + 1]] ELSE @[n]]]
            /\ UNCHANGED buffer

Identify(p, s) ==
  /\ IF p \in Disks(devices)
       THEN /\ memory' = [memory EXCEPT ![Table(p, s).prdt[1].dba] = [kind |-> "data", device |-> devices[p]]]
            /\ stage' = [stage EXCEPT ![p] = "moved"]
       ELSE stage' = [stage EXCEPT ![p] = "failed"] /\ UNCHANGED memory
  /\ UNCHANGED <<contents, pc, i, request, calls, command_table, command_list_index,
                 g_ahci_device_list, astray>>

\* The adapter is ready to move data the way the disk waits for.
Agreed(p, s) == HonoursW => (Header(p, s).W <=> Table(p, s).command = "write")

\* A disk fails what is not on it, and may fail anything.  If data is left
\* over when the entries are used up, that may be a failure.  A disk that is
\* to write waits for its data.
Transfer(p, s) ==
  LET t == Table(p, s)
      within == First(p, t) + Size(p, t) <= devices[p].sector * devices[p].sectors
  IN /\ Agreed(p, s)
     /\ \/ within /\ Move(p, t, Header(p, s).prdtl) /\ stage' = [stage EXCEPT ![p] = "moved"]
        \/ stage' = [stage EXCEPT ![p] = "failed"] /\ UNCHANGED <<disk, buffer>>
     /\ UNCHANGED <<devices, driver, astray>>

Stray(p) == /\ astray' = TRUE /\ stage' = [stage EXCEPT ![p] = "failed"]
            /\ UNCHANGED <<contents, driver>>

\* The command in slot s of a port that is started, with its link up.
Execute(p, s) ==
  /\ port[p].ST /\ port[p].DET = "link" /\ s \in port[p].CI /\ stage[p] = "none"
  /\ IF ~Fetchable(p, s) THEN Stray(p)
     ELSE IF Table(p, s).command = "identify" THEN Identify(p, s) ELSE Transfer(p, s)
  /\ UNCHANGED <<HR, IE, IS, port, pic>>

\* The command is done, and if no request stood before, the line rises.
Complete(p, s) ==
  /\ stage[p] = "moved" /\ s \in port[p].CI
  /\ stage' = [stage EXCEPT ![p] = "none"]
  /\ port' = [port EXCEPT ![p].CI = @ \ {s}, ![p].DHRS = TRUE]
  /\ IS' = IF port[p].DHRE THEN IS \cup {p} ELSE IS
  /\ irq' = (irq \/ (IE /\ IS = {} /\ IS' # {}))
  /\ UNCHANGED <<contents, driver, HR, IE, astray, enabled>>

HbaPort(p) == \/ LinkUp(p) \/ ReceiveFis(p)
              \/ \E s \in Slot : Execute(p, s) \/ Complete(p, s)

Next == \/ Driver \/ interrupt_function_ahci \/ ResetDone
        \/ \E r \in Requests : AHCI_transfer(r)
        \/ \E p \in Port : HbaPort(p)

\* Nobody has to ask for anything.
Spec == /\ Init /\ [][Next]_vars
        /\ WF_vars(Driver) /\ WF_vars(interrupt_function_ahci) /\ WF_vars(ResetDone)
        /\ \A p \in Port : WF_vars(HbaPort(p))

-----------------------------------------------------------------------------
(* Properties.                                                              *)

\* Every variable of the driver and every register has its type.
TypeOK ==
  /\ devices \in [Port -> Devices] /\ DOMAIN disk = Disks(devices)
  /\ \A p \in Disks(devices) : disk[p] \in [0..devices[p].sector * devices[p].sectors - 1 -> Units]
  /\ i \in 0..NP /\ request \in Requests \cup {NoRequest} /\ calls \in 0..MaxRequests
  /\ memory \in Seq(Pages) /\ command_table \in 0..Len(memory) /\ command_list_index \in Slot
  /\ buffer \in [0..Room - 1 -> Units]
  /\ HR \in BOOLEAN /\ IE \in BOOLEAN /\ IS \subseteq Port /\ port \in [Port -> Registers]
  /\ stage \in [Port -> {"none", "moved", "failed"}]
  /\ astray \in BOOLEAN /\ enabled \in BOOLEAN /\ irq \in BOOLEAN

\* The adapter never uses anything but command lists and tables that the
\* driver has made ready for it.
NeverAstray == ~astray

\* AHCI_init finds every disk that can be registered, each once.
DisksRegistered ==
  pc = "ready" =>
    /\ {g_ahci_device_list[n].port : n \in DOMAIN g_ahci_device_list} =
         {p \in Port : devices[p].kind = "ata48"}
    /\ \A m, n \in DOMAIN g_ahci_device_list :
         g_ahci_device_list[m].port = g_ahci_device_list[n].port => m = n

\* The list has the right sector count of each device, of two words, and the
\* right sector size of those with ordinary sectors, but of no others: a large
\* sector has half its size there (ahci.c:299).
DeviceListRight ==
  \A n \in DOMAIN g_ahci_device_list :
    LET entry == g_ahci_device_list[n]
    IN /\ entry.lba_count_high * Word + entry.lba_count_low = devices[entry.port].sectors
       /\ entry.lba_size = devices[entry.port].sector <=> devices[entry.port].sector = 1

\* AHCI_read and AHCI_write move the sectors asked for, all of them and no
\* others, before they return: a call is carried out once data has moved.
Store == INSTANCE SectorStore WITH
  sector <- [p \in DOMAIN devices |-> devices[p].sector],
  asked <- request,
  carried <- request # NoRequest /\ pc = "wait" /\
             (stage[request.port] = "moved" \/ command_list_index \notin port[request.port].CI)
ImplementsStore == Store!StoreSpec

\* AHCI_init and every call come to an end, unless a device fails a command.
DriverReturns == []<>(pc \in {"ready", "handoff"} \/ \E p \in Port : stage[p] = "failed")
=============================================================================
