------------------------------ MODULE EhciEnum ------------------------------
(***************************************************************************)
(* Finding the disk: the stub's EHCI_Reset and EHCI_Init, with             *)
(* usb_control_transaction and wait_for_qh (ehci.c).                       *)
(*                                                                         *)
(* The driver resets the ports one after the other, gives each high-speed  *)
(* device an address and reads its descriptors, all through the one queue  *)
(* head of the asynchronous ring, which it rewrites while the controller   *)
(* walks the ring.  It learns that a transaction is over from two reads of *)
(* that queue head, between which the controller may go on.                *)
(***************************************************************************)
EXTENDS Integers, Sequences, FiniteSetsExt

CONSTANTS
  N_PORTS,      \* ports of the controller
  Devices,      \* what may be on a port: speed, and configuration descriptors
  BiosAddresses,\* addresses the BIOS may have given to devices
  PacketSize,   \* descriptors in a packet
  MaxErrors     \* bound on the packets no device answers, three times over

\* The driver takes three bits of HCSPARAMS for the number of ports, where the
\* controller has four: on eight ports and more it looks at some of them only.
Ports == 1..N_PORTS
LastPort == N_PORTS % 8
Scanned == 1..LastPort

\* An endpoint's address is a byte; lengths are numbers.
ASSUME EnumAssumption ==
  /\ N_PORTS \in 1..15 /\ PacketSize \in Nat \ {0} /\ MaxErrors \in Nat
  /\ BiosAddresses \subseteq 1..127
  /\ \A d \in Devices : /\ d.speed \in {"none", "full", "high"}
                        /\ d.speed = "high" => d.configuration[1].wTotalLength \in Nat
                        /\ \A n \in DOMAIN d.configuration :
                             /\ d.configuration[n].type = "endpoint" =>
                                  d.configuration[n].bEndpointAddress \in 0..255
                             /\ d.configuration[n].type = "cs_interface" =>
                                  d.configuration[n].wTotalLength \in Nat

VARIABLES
  bios_owned, os_owned,   \* the semaphores of USBLEGSUP
  device, port,           \* what is on each port, and the state it is in
  qh, qtds,               \* the asynchronous queue head, and all qTDs so far
  errors,                 \* packets that got no answer
  pc, after,              \* where the driver is, and where wait_for_qh returns to
  i, available_address, dev_addr,
  devDesc_conf,           \* wTotalLength, as the first 4 bytes say it
  confBuffer, confBuffer_ptr, last_interfaceDesc,
  ehci_msb_internals      \* the result: where the disk is

semaphores == <<bios_owned, os_owned>>
buffers == <<devDesc_conf, confBuffer>>
locals  == <<i, available_address, dev_addr, confBuffer_ptr, last_interfaceDesc>>
vars == <<bios_owned, os_owned, device, port, qh, qtds, errors, pc, after, locals, buffers, ehci_msb_internals>>

TERMINATE == 0
None == [bRequest |-> "none", wValue |-> 0]
Junk == [type |-> "junk"]

Goto(from, to) == pc = from /\ pc' = to

-----------------------------------------------------------------------------
(* The BIOS, which may have booted from the disk, leaves a port off or      *)
(* enabled with a device that has an address: EHCI_Init does not reset the  *)
(* controller.                                                              *)

IdleQH == [addr |-> 0, next |-> TERMINATE, curr |-> 0, active |-> FALSE, halted |-> FALSE]
Nowhere == [addr |-> 0, nr |-> 0, in |-> 0, out |-> 0, s_in |-> 0, s_out |-> 0]
Off == [enabled |-> FALSE, addr |-> 0, configuration |-> 0, request |-> None]
Left(addr) == [enabled |-> TRUE, addr |-> addr, configuration |-> 1, request |-> None]

Init ==
  /\ bios_owned \in BOOLEAN /\ os_owned = FALSE
  /\ device \in [Ports -> Devices]
  /\ port \in [Ports -> {Off} \cup {Left(a) : a \in BiosAddresses}]
  /\ \A p, r \in Ports : port[p].enabled =>
       device[p].speed = "high" /\ (port[p].addr = port[r].addr => p = r)
  /\ qh = IdleQH /\ qtds = <<>> /\ errors = 0
  /\ pc = "EHCI_Reset" /\ after = "done"
  /\ i = 1 /\ available_address = 0 /\ dev_addr = 0
  /\ devDesc_conf = 0 /\ confBuffer = <<>> /\ confBuffer_ptr = 1 /\ last_interfaceDesc = 0
  /\ ehci_msb_internals = Nowhere

-----------------------------------------------------------------------------
(* Taking the controller from the BIOS.                                     *)

EHCI_Reset ==
  /\ Goto("EHCI_Reset", "confirm") /\ os_owned' = TRUE
  /\ UNCHANGED <<bios_owned, device, port, qh, qtds, errors, after, locals, buffers, ehci_msb_internals>>

BiosReleases ==
  /\ os_owned /\ bios_owned /\ bios_owned' = FALSE
  /\ UNCHANGED <<os_owned, device, port, qh, qtds, errors, pc, after, locals, buffers, ehci_msb_internals>>

\* After sleep(0x20) the register is read again, and the value decides nothing:
\* the driver goes on whether the BIOS has let go or not.
EHCI_Reset_confirm ==
  /\ Goto("confirm", "EHCI_Init")
  /\ UNCHANGED <<semaphores, device, port, qh, qtds, errors, after, locals, buffers, ehci_msb_internals>>

\* The queue head goes into the ring alone, and the controller starts.
EHCI_Init_start ==
  /\ Goto("EHCI_Init", "reset")
  /\ qh' = IdleQH /\ i' = 1 /\ available_address' = 1
  /\ ehci_msb_internals' = Nowhere
  /\ UNCHANGED <<semaphores, device, port, qtds, errors, after, dev_addr, confBuffer_ptr,
                 last_interfaceDesc, buffers>>

-----------------------------------------------------------------------------
(* Ports.  A device in reset forgets its address, and the controller keeps  *)
(* the port of a high-speed device enabled after it.                        *)

reset_port ==
  /\ i \in Scanned /\ Goto("reset", "reset_end")
  /\ port' = [port EXCEPT ![i] = Off]
  /\ UNCHANGED <<semaphores, device, qh, qtds, errors, after, locals, buffers, ehci_msb_internals>>

reset_port_end ==
  /\ pc = "reset_end"
  /\ port' = [port EXCEPT ![i].enabled = device[i].speed = "high"]
  /\ pc' = IF port'[i].enabled THEN "device" ELSE "next"
  /\ UNCHANGED <<semaphores, device, qh, qtds, errors, after, locals, buffers, ehci_msb_internals>>

next_port ==
  /\ Goto("next", "reset") /\ i' = i + 1
  /\ UNCHANGED <<semaphores, device, port, qh, qtds, errors, after, available_address, dev_addr,
                 confBuffer_ptr, last_interfaceDesc, buffers, ehci_msb_internals>>

EHCI_Init_return ==
  /\ i \notin Scanned /\ Goto("reset", "done")
  /\ UNCHANGED <<semaphores, device, port, qh, qtds, errors, after, locals, buffers, ehci_msb_internals>>

-----------------------------------------------------------------------------
(* Control transactions: a setup packet, the data, the status.              *)

Request(bRequest, wValue) == [bRequest |-> bRequest, wValue |-> wValue]

\* data is the buffer the qTDs point to, wLength the number of descriptors.
usb_control_transaction(req, data, wLength) ==
  LET n == (wLength + PacketSize - 1) \div PacketSize + 2
  IN  [k \in 1..n |->
         [pid |-> IF k = 1 THEN "SETUP" ELSE IF k = n THEN "STATUS" ELSE "DATA",
          req |-> req, data |-> data, packet |-> k - 1, active |-> TRUE,
          next |-> IF k = n THEN TERMINATE ELSE Len(qtds) + k + 1]]

\* Link it to queue head q and wait for it.
Submit(q, req, data, wLength, return) ==
  /\ qtds' = qtds \o usb_control_transaction(req, data, wLength)
  /\ qh' = [q EXCEPT !.next = Len(qtds) + 1]
  /\ pc' = "wait" /\ after' = return

\* Mutant: only the token is read.
wait_without_next ==
  /\ pc = "wait" /\ pc' = "wait_token"
  /\ UNCHANGED <<semaphores, device, port, qh, qtds, errors, after, locals, buffers, ehci_msb_internals>>

wait_for_qh_next ==
  /\ pc = "wait" /\ qh.next = TERMINATE /\ pc' = "wait_token"
  /\ UNCHANGED <<semaphores, device, port, qh, qtds, errors, after, locals, buffers, ehci_msb_internals>>

wait_for_qh_token ==
  /\ pc = "wait_token" /\ pc' = IF qh.active THEN "wait" ELSE after
  /\ UNCHANGED <<semaphores, device, port, qh, qtds, errors, after, locals, buffers, ehci_msb_internals>>

-----------------------------------------------------------------------------
(* The requests for one device.                                             *)

\* The queue head starts again, for the default address.
get_device_descriptor ==
  /\ pc = "device"
  /\ Submit(IdleQH, Request("GET_DEVICE", 0), "devDesc", 1, "address")
  /\ UNCHANGED <<semaphores, device, port, errors, locals, buffers, ehci_msb_internals>>

\* Mutant: every device gets the same address.
set_same_address ==
  /\ pc = "address"
  /\ dev_addr' = available_address
  /\ Submit(qh, Request("SET_ADDRESS", dev_addr'), "none", 0, "total")
  /\ UNCHANGED <<semaphores, device, port, errors, i, available_address, confBuffer_ptr,
                 last_interfaceDesc, buffers, ehci_msb_internals>>

set_address ==
  /\ pc = "address"
  /\ dev_addr' = available_address /\ available_address' = available_address + 1
  /\ Submit(qh, Request("SET_ADDRESS", dev_addr'), "none", 0, "total")
  /\ UNCHANGED <<semaphores, device, port, errors, i, confBuffer_ptr, last_interfaceDesc, buffers,
                 ehci_msb_internals>>

\* Four bytes, cleared before: the configuration descriptor as far as wTotalLength.
get_total_length ==
  /\ pc = "total" /\ devDesc_conf' = 0
  /\ Submit([qh EXCEPT !.addr = dev_addr], Request("GET_CONFIGURATION", 0), "devDesc_conf", 1, "conf")
  /\ UNCHANGED <<semaphores, device, port, errors, locals, confBuffer, ehci_msb_internals>>

\* confBuffer is allocated on the stack with the length the device told.
get_configuration_descriptors ==
  /\ pc = "conf"
  /\ confBuffer' = [n \in 1..devDesc_conf |-> Junk]
  /\ confBuffer_ptr' = 2 /\ last_interfaceDesc' = 0
  /\ Submit(qh, Request("GET_CONFIGURATION", 0), "confBuffer", devDesc_conf, "parse")
  /\ UNCHANGED <<semaphores, device, port, errors, i, available_address, dev_addr, devDesc_conf,
                 ehci_msb_internals>>

-----------------------------------------------------------------------------
(* The descriptors.  A type that no branch knows leaves the pointer where   *)
(* it is, for ever.  An offset of the source is a number of descriptors.    *)

Parsing(type) == /\ pc = "parse" /\ confBuffer_ptr <= Len(confBuffer)
                 /\ confBuffer[confBuffer_ptr].type = type
Here == confBuffer[confBuffer_ptr]

Class(n) == IF n = 0 THEN "none" ELSE confBuffer[n].class
Advance(n) == /\ confBuffer_ptr' = confBuffer_ptr + n
              /\ UNCHANGED <<semaphores, device, port, qh, qtds, errors, pc, after, i,
                             available_address, dev_addr, buffers>>

interface_descriptor ==
  /\ Parsing("interface") /\ Advance(1)
  /\ last_interfaceDesc' = confBuffer_ptr
  /\ ehci_msb_internals' = IF Here.class = "bulk_only"
       THEN [ehci_msb_internals EXCEPT !.nr = Here.bInterfaceNumber] ELSE ehci_msb_internals

\* Mutants: the direction bit stays in the number; any interface's endpoints.
endpoint_unmasked ==
  /\ Parsing("endpoint") /\ Advance(1)
  /\ ehci_msb_internals' =
       IF Class(last_interfaceDesc) # "bulk_only" THEN ehci_msb_internals
       ELSE IF Here.bEndpointAddress >= 128
            THEN [ehci_msb_internals EXCEPT !.in = Here.bEndpointAddress, !.s_in = Here.wMaxPacketSize]
            ELSE [ehci_msb_internals EXCEPT !.out = Here.bEndpointAddress, !.s_out = Here.wMaxPacketSize]
  /\ UNCHANGED last_interfaceDesc

endpoint_of_any_interface ==
  /\ Parsing("endpoint") /\ Advance(1)
  /\ ehci_msb_internals' =
       IF Here.bEndpointAddress >= 128
       THEN [ehci_msb_internals EXCEPT !.in = Here.bEndpointAddress % 16, !.s_in = Here.wMaxPacketSize]
       ELSE [ehci_msb_internals EXCEPT !.out = Here.bEndpointAddress % 16, !.s_out = Here.wMaxPacketSize]
  /\ UNCHANGED last_interfaceDesc

\* The bit 0x80 of the address says the direction, the low four bits the number.
endpoint_descriptor ==
  /\ Parsing("endpoint") /\ Advance(1)
  /\ ehci_msb_internals' =
       IF Class(last_interfaceDesc) # "bulk_only" THEN ehci_msb_internals
       ELSE IF Here.bEndpointAddress >= 128
            THEN [ehci_msb_internals EXCEPT !.in = Here.bEndpointAddress % 16, !.s_in = Here.wMaxPacketSize]
            ELSE [ehci_msb_internals EXCEPT !.out = Here.bEndpointAddress % 16, !.s_out = Here.wMaxPacketSize]
  /\ UNCHANGED last_interfaceDesc

association_descriptor ==
  /\ Parsing("association") /\ Advance(1)
  /\ UNCHANGED <<last_interfaceDesc, ehci_msb_internals>>

\* 0x24: a video interface's header, with all the descriptors it counts.
video_header_descriptor ==
  /\ Parsing("cs_interface") /\ Class(last_interfaceDesc) = "video"
  /\ Advance(Here.wTotalLength)
  /\ UNCHANGED <<last_interfaceDesc, ehci_msb_internals>>

\* Mutant: the branch for 0x25 is missing.
no_video_endpoint == Parsing("cs_endpoint") /\ FALSE

\* 0x25
video_endpoint_descriptor ==
  /\ Parsing("cs_endpoint") /\ Class(last_interfaceDesc) = "video" /\ Advance(1)
  /\ UNCHANGED <<last_interfaceDesc, ehci_msb_internals>>

\* A device whose last interface is a disk's is configured and taken.
set_configuration ==
  /\ pc = "parse" /\ confBuffer_ptr > Len(confBuffer)
  /\ Class(last_interfaceDesc) = "bulk_only"
  /\ ehci_msb_internals' = [ehci_msb_internals EXCEPT !.addr = dev_addr]
  /\ Submit(qh, Request("SET_CONFIGURATION", confBuffer[1].bConfigurationValue), "none", 0, "next")
  /\ UNCHANGED <<semaphores, device, port, errors, locals, buffers>>

not_a_disk ==
  /\ pc = "parse" /\ confBuffer_ptr > Len(confBuffer)
  /\ Class(last_interfaceDesc) # "bulk_only"
  /\ pc' = "next"
  /\ UNCHANGED <<semaphores, device, port, qh, qtds, errors, after, locals, buffers, ehci_msb_internals>>

-----------------------------------------------------------------------------
(* The controller walks its ring of one.                                    *)

FetchQtd ==
  /\ ~qh.active /\ ~qh.halted /\ qh.next # TERMINATE
  /\ qh' = [qh EXCEPT !.curr = qh.next, !.next = qtds[qh.next].next, !.active = TRUE]
  /\ UNCHANGED <<semaphores, device, port, qtds, errors, pc, after, locals, buffers, ehci_msb_internals>>

\* The devices that take the packet for theirs.
Addressed == {p \in Ports : port[p].enabled /\ port[p].addr = qh.addr}

\* What the device with request req does at the end of it.
Obeys(p, req) ==
  CASE req.bRequest = "SET_ADDRESS"       -> [port EXCEPT ![p].addr = req.wValue]
    [] req.bRequest = "SET_CONFIGURATION" -> [port EXCEPT ![p].configuration = req.wValue]
    [] OTHER                              -> port

Setup(p, t)  == port' = [port EXCEPT ![p].request = t.req] /\ UNCHANGED buffers
Status(p)    == port' = Obeys(p, port[p].request) /\ UNCHANGED buffers
\* The part of its descriptors that fits in packet n.
Data(p, t)   ==
  LET answer == device[p].configuration
      part == (t.packet - 1) * PacketSize + 1 .. t.packet * PacketSize
  IN /\ devDesc_conf' = IF t.data = "devDesc_conf" THEN answer[1].wTotalLength ELSE devDesc_conf
     /\ confBuffer' = IF t.data # "confBuffer" THEN confBuffer
          ELSE [n \in DOMAIN confBuffer |->
                  IF n \in part \cap DOMAIN answer THEN answer[n] ELSE confBuffer[n]]
     /\ UNCHANGED port

ExecuteQtd ==
  /\ qh.active
  /\ \E p \in Ports :
       LET t == qtds[qh.curr]
       IN /\ Addressed = {p}
          /\ \/ t.pid = "SETUP"  /\ Setup(p, t)
             \/ t.pid = "DATA"   /\ Data(p, t)
             \/ t.pid = "STATUS" /\ Status(p)
  /\ qh' = [qh EXCEPT !.active = FALSE]
  /\ qtds' = [qtds EXCEPT ![qh.curr].active = FALSE]
  /\ UNCHANGED <<semaphores, device, errors, pc, after, locals, ehci_msb_internals>>

\* No answer, or two at once: CERR errors in a row.  The device has not seen
\* the packet.
HaltQh ==
  /\ qh.active
  /\ errors < MaxErrors \/ Cardinality(Addressed) # 1
  /\ errors' = errors + 1
  /\ qh' = [qh EXCEPT !.active = FALSE, !.halted = TRUE]
  /\ qtds' = [qtds EXCEPT ![qh.curr].active = FALSE]
  /\ UNCHANGED <<semaphores, device, port, pc, after, locals, buffers, ehci_msb_internals>>

-----------------------------------------------------------------------------
Parse == \/ interface_descriptor \/ endpoint_descriptor \/ association_descriptor
         \/ video_header_descriptor \/ video_endpoint_descriptor
         \/ set_configuration \/ not_a_disk

Driver == \/ EHCI_Reset \/ EHCI_Reset_confirm \/ EHCI_Init_start
          \/ reset_port \/ reset_port_end \/ next_port \/ EHCI_Init_return
          \/ get_device_descriptor \/ set_address \/ get_total_length
          \/ get_configuration_descriptors \/ Parse
          \/ wait_for_qh_next \/ wait_for_qh_token

Controller == FetchQtd \/ ExecuteQtd \/ HaltQh

Next == Driver \/ Controller \/ BiosReleases

FairSpec == /\ Init /\ [][Next]_vars
            /\ WF_vars(Driver) /\ WF_vars(Controller) /\ WF_vars(BiosReleases)

-----------------------------------------------------------------------------
(* Correctness                                                              *)

\* Every variable in its set.  The endpoint numbers are those of the bulk
\* queue heads, four bits wide (ehci.c:732-739).
TypeOK ==
  /\ semaphores \in BOOLEAN \X BOOLEAN
  /\ device \in [Ports -> Devices]
  /\ \A p \in Ports : port[p].enabled \in BOOLEAN /\ port[p].addr \in 0..127
  /\ qh.addr \in 0..127 /\ qh.next \in 0..Len(qtds) /\ qh.curr \in 0..Len(qtds)
  /\ i \in 1..LastPort + 1 /\ available_address \in 0..LastPort + 1 /\ dev_addr \in 0..LastPort
  /\ last_interfaceDesc \in 0..Len(confBuffer)
  /\ ehci_msb_internals.addr \in 0..LastPort
  /\ ehci_msb_internals.in \in 0..15 /\ ehci_msb_internals.out \in 0..15

\* The BIOS's device on port p has an address that the driver will have given
\* to a device before it.
OutOfOrder(p) ==
  port[p].addr \in 1..Cardinality({r \in Scanned : r < p /\ device[r].speed = "high"})

\* No packet is for two devices: the ports are enabled one by one, and each
\* device leaves the default address before the next one has it.  Only a
\* device on a port that is not reset yet, or never will be, to which the BIOS
\* has given a smaller address than its turn, may get packets that are meant
\* for another one (ehci.c:593-662).
AddressesUnique == \A p, r \in Ports :
  p < r /\ port[p].enabled /\ port[r].enabled /\ port[p].addr = port[r].addr =>
    (r > i \/ (r = i /\ pc \in {"reset", "done"})) /\ OutOfOrder(r)

\* wait_for_qh returns no sooner than the controller is through with the
\* transaction: only then may the driver touch the queue head and the
\* buffers again.
TransactionsComplete ==
  pc \notin {"wait", "wait_token"} => \A n \in DOMAIN qtds : ~qtds[n].active

-----------------------------------------------------------------------------
(* What EHCI_Init makes of the descriptors, as a function of the devices.   *)

Descriptors == {Junk} \cup UNION {{d.configuration[n] : n \in DOMAIN d.configuration} : d \in Devices}

Wanted(c)   == c.type = "interface" /\ c.class = "bulk_only"
Inward(c)   == c.type = "endpoint" /\ c.bEndpointAddress >= 128
Outward(c)  == c.type = "endpoint" /\ c.bEndpointAddress < 128

Served  == {p \in Scanned : device[p].speed = "high"}
Conf(p) == device[p].configuration

\* A device that tells as many descriptors as it has, and whose video headers
\* do not lead past an interface behind them.
Truthful(p) ==
  /\ Conf(p) \in Seq(Descriptors) /\ Conf(p) # << >> /\ Conf(p)[1].wTotalLength = Len(Conf(p))
  /\ \A n, m \in DOMAIN Conf(p) :
       Conf(p)[n].type = "cs_interface" /\ Conf(p)[m].type = "interface" /\ n < m =>
         n + Conf(p)[n].wTotalLength <= m

\* The descriptors behind the first, by port and number, and whether one of
\* them is part of a disk's interface.
Places == UNION {{p} \X (2..Len(Conf(p))) : p \in Served}
At(x)  == Conf(x[1])[x[2]]
OfDisk(x) == \E m \in 2..x[2] - 1 : /\ Wanted(Conf(x[1])[m])
                                    /\ \A k \in m + 1..x[2] - 1 : Conf(x[1])[k].type # "interface"

Interfaces == {x \in Places : Wanted(At(x))}
Inputs     == {x \in Places : Inward(At(x)) /\ OfDisk(x)}
Outputs    == {x \in Places : Outward(At(x)) /\ OfDisk(x)}

After(y, x) == y[1] > x[1] \/ (y[1] = x[1] /\ y[2] > x[2])
IsLast(x, S) == x \in S /\ \A y \in S : ~After(y, x)

\* The devices whose last interface is a disk's.
Disks == {p \in Served : \E n \in 2..Len(Conf(p)) :
            /\ Wanted(Conf(p)[n])
            /\ \A k \in n + 1..Len(Conf(p)) : Conf(p)[k].type # "interface"}

\* If every packet is answered and the devices are truthful, what EHCI_Init
\* returns is: the address of the last device whose last interface is a disk's,
\* which has taken its configuration; and of the disks' interfaces and their
\* endpoints, wherever they are, the number of the last, the last endpoint
\* inwards and the last outwards.  The three are about the device of the
\* address when no other interface follows a disk's in its device and a disk
\* has endpoints in both directions; if one follows, its device is not taken,
\* but its numbers stay (ehci.c:720-739, 767-769).
DiskDescribed == pc = "done" /\ errors = 0 /\ (\A p \in Served : Truthful(p)) =>
  LET disk == ehci_msb_internals
  IN  /\ IF Disks = {} THEN disk.addr = 0
         ELSE \E p \in Disks : /\ \A r \in Disks : r <= p
                               /\ port[p].enabled /\ port[p].addr = disk.addr
                               /\ port[p].configuration = Conf(p)[1].bConfigurationValue
      /\ IF Interfaces = {} THEN disk.nr = 0
         ELSE \E x \in Interfaces : IsLast(x, Interfaces) /\ disk.nr = At(x).bInterfaceNumber
      /\ IF Inputs = {} THEN disk.in = 0 /\ disk.s_in = 0
         ELSE \E x \in Inputs : /\ IsLast(x, Inputs)
                                /\ disk.in = At(x).bEndpointAddress % 16
                                /\ disk.s_in = At(x).wMaxPacketSize
      /\ IF Outputs = {} THEN disk.out = 0 /\ disk.s_out = 0
         ELSE \E x \in Outputs : /\ IsLast(x, Outputs)
                                 /\ disk.out = At(x).bEndpointAddress % 16
                                 /\ disk.s_out = At(x).wMaxPacketSize

-----------------------------------------------------------------------------
(* Its end.                                                                 *)

\* The parser is in front of a descriptor that leaves its pointer where it is.
NoWayOn ==
  /\ pc = "parse" /\ confBuffer_ptr <= Len(confBuffer)
  /\ Here.type \notin {"interface", "endpoint", "association"}
  /\ Class(last_interfaceDesc) = "video" =>
       Here.type \notin {"cs_interface", "cs_endpoint"}
         \/ (Here.type = "cs_interface" /\ Here.wTotalLength = 0)

\* EHCI_Init comes to its end, unless a packet gets no answer, as one that two
\* devices take for theirs, or a device has a descriptor that no branch of the
\* parser knows: there it stays (ehci.c:713-763).
EnumerationEnds == <>(pc = "done" \/ errors > 0 \/ NoWayOn)
=============================================================================
