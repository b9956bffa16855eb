--------------------------- MODULE EhciEnumProofs ---------------------------
(***************************************************************************)
(* What holds of the enumeration for any number of ports, whatever is on   *)
(* them, whatever addresses the BIOS has left and whichever packets get no *)
(* answer: types, that no transaction is taken for complete before it is,  *)
(* and that two devices share an address only if the BIOS gave one of them *)
(* an address below its turn.  And if every packet is answered and the     *)
(* devices are truthful, which device's address and which interface's      *)
(* endpoints the driver ends up with.                                      *)
(***************************************************************************)
EXTENDS EhciEnum, FiniteSetTheorems, SequenceTheorems, TLAPS

-----------------------------------------------------------------------------
(* The stages of the driver's work on one port.                             *)

Early   == {"EHCI_Reset", "confirm", "EHCI_Init"}
Waiting == pc \in {"wait", "wait_token"}

\* The device on port i answers at address 0; is being given one; has one.
Default  == pc \in {"device", "address"} \/ (Waiting /\ after = "address")
Setting  == pc = "total" \/ (Waiting /\ after = "total")
HasOne   == pc \in {"conf", "parse"} \/ (Waiting /\ after \in {"conf", "parse", "next"})
Serving  == Default \/ Setting \/ HasOne

\* The ports the driver is through with, and those it has not come to.
Given(p) == p < i \/ (p = i /\ pc = "next")
Ahead(p) == p > i \/ (p = i /\ pc \in Early \cup {"reset", "done"})

PlaceInv ==
  /\ pc \in Early \cup {"reset", "reset_end", "next", "done"} \/ Serving
  /\ i \in 1..LastPort + 1
  /\ Serving \/ pc \in {"reset_end", "next"} => i \in Scanned
  /\ pc \in Early => i = 1
  /\ pc = "done" => i = LastPort + 1

-----------------------------------------------------------------------------
(* The queue head and its qTDs.                                             *)

\* The qTDs the controller has not retired.
Pending(k) == (qh.active /\ k = qh.curr) \/ (qh.next # TERMINATE /\ k >= qh.next)

RingInv ==
  /\ ~Waiting => qh.next = TERMINATE /\ ~qh.active
  /\ pc = "wait_token" => qh.next = TERMINATE
  /\ qh.active => qh.curr \in 1..Len(qtds)
  /\ qh.next # TERMINATE => qh.next \in 1..Len(qtds)
  /\ qh.next # TERMINATE => \A k \in qh.next..Len(qtds) :
       qtds[k].next = IF k = Len(qtds) THEN TERMINATE ELSE k + 1
  /\ \A k \in 1..Len(qtds) : qtds[k].active => Pending(k)

\* A request to take an address is the one for this device and no other.
RequestInv ==
  /\ \A k \in 1..Len(qtds) : Pending(k) /\ qtds[k].req.bRequest = "SET_ADDRESS" =>
       after = "total" /\ qtds[k].req.wValue = dev_addr
  /\ Default => port[i].request.bRequest # "SET_ADDRESS"
  /\ Serving /\ port[i].request.bRequest = "SET_ADDRESS" => port[i].request.wValue = dev_addr

\* SET_ADDRESS goes through its setup and its status, one after the other, or
\* halts, and then stays halted.
Asked == port[i].request = Request("SET_ADDRESS", dev_addr)
SettingInv == Waiting /\ after = "total" =>
  LET L == Len(qtds)
  IN  /\ L >= 2 /\ qtds[L - 1].pid = "SETUP" /\ qtds[L].pid = "STATUS"
      /\ qtds[L - 1].req = Request("SET_ADDRESS", dev_addr)
      /\ \/ ~qh.active /\ qh.next = L - 1
         \/ qh.active /\ qh.curr = L - 1 /\ qh.next = L
         \/ ~qh.active /\ qh.next = L /\ (qh.halted \/ Asked)
         \/ qh.active /\ qh.curr = L /\ qh.next = TERMINATE /\ Asked
         \/ ~qh.active /\ qh.next = TERMINATE /\ (qh.halted \/ port[i].addr = dev_addr)

-----------------------------------------------------------------------------
(* Addresses.                                                               *)

\* Fast devices in front of port p.
Fast(p) == {r \in Scanned : r < p /\ device[r].speed = "high"}

\* The first address that no port the driver is through with has.
Fresh == IF Setting \/ HasOne THEN dev_addr ELSE available_address

CountInv ==
  /\ pc \in Early => available_address = 0
  /\ pc \notin Early => available_address >= 1
  /\ Setting \/ HasOne => dev_addr = available_address - 1 /\ dev_addr >= 1
  /\ available_address <= Cardinality(Fast(IF Setting \/ HasOne \/ pc = "next" THEN i + 1 ELSE i)) + 1

AheadInv ==
  /\ \A p \in Ports : Ahead(p) /\ port[p].enabled => port[p].addr >= 1
  /\ \A p, r \in Ports :
       Ahead(p) /\ Ahead(r) /\ port[p].enabled /\ port[r].enabled /\ port[p].addr = port[r].addr => p = r

GivenInv ==
  /\ \A p \in Ports : Given(p) /\ port[p].enabled => port[p].addr \in 1..Fresh - 1
  /\ \A p, r \in Ports :
       Given(p) /\ Given(r) /\ port[p].enabled /\ port[r].enabled /\ port[p].addr = port[r].addr => p = r

\* A queue head that has halted without an answer to SET_ADDRESS goes no further.
Stuck == pc = "wait" /\ qh.halted /\ ~qh.active /\ qh.next # TERMINATE

CurrentInv ==
  /\ pc = "reset_end" => port[i] = Off
  /\ Serving => port[i].enabled /\ device[i].speed = "high"
  /\ Default => port[i].addr = 0
  /\ Setting => port[i].addr \in {0, dev_addr}
  /\ Setting /\ (qh.active \/ qh.next # TERMINATE) => port[i].addr = 0
  /\ pc = "total" => qh.halted \/ port[i].addr = dev_addr
  /\ HasOne => port[i].addr = dev_addr \/ (port[i].addr = 0 /\ Stuck)
  /\ (Default /\ pc # "device") \/ Setting => qh.addr = 0
  /\ HasOne => qh.addr = dev_addr

EnumInv == /\ PlaceInv /\ RingInv /\ RequestInv /\ SettingInv
           /\ CountInv /\ AheadInv /\ GivenInv /\ CurrentInv

-----------------------------------------------------------------------------
(* Types.                                                                   *)

Values   == 0..N_PORTS + 1 \cup {c.bConfigurationValue : c \in Descriptors}
Requests == [bRequest : {"none", "GET_DEVICE", "SET_ADDRESS", "GET_CONFIGURATION", "SET_CONFIGURATION"},
             wValue : Values]
Buffers  == {"none", "devDesc", "devDesc_conf", "confBuffer"}

QTD  == [pid : {"SETUP", "DATA", "STATUS"}, req : Requests, data : Buffers, packet : Nat,
         active : BOOLEAN, next : Nat]
QH   == [addr : 0..127, next : Nat, curr : Nat, active : BOOLEAN, halted : BOOLEAN]
PORT == [enabled : BOOLEAN, addr : 0..127, configuration : Values, request : Requests]
DISK == [addr : 0..LastPort, nr : {0} \cup {c.bInterfaceNumber : c \in Descriptors},
         in : 0..15, out : 0..15,
         s_in : {0} \cup {c.wMaxPacketSize : c \in Descriptors},
         s_out : {0} \cup {c.wMaxPacketSize : c \in Descriptors}]

TypesInv ==
  /\ bios_owned \in BOOLEAN /\ os_owned \in BOOLEAN
  /\ device \in [Ports -> Devices] /\ port \in [Ports -> PORT]
  /\ qh \in QH /\ qtds \in Seq(QTD)
  /\ qh.next <= Len(qtds) /\ qh.curr <= Len(qtds)
  /\ i \in 1..LastPort + 1 /\ available_address \in 0..LastPort + 1 /\ dev_addr \in 0..LastPort
  /\ devDesc_conf \in Nat /\ confBuffer \in Seq(Descriptors)
  /\ confBuffer_ptr \in Nat \ {0} /\ last_interfaceDesc \in 0..Len(confBuffer)
  /\ ehci_msb_internals \in DISK

WellFormed(c) == /\ c.type = "endpoint" => c.bEndpointAddress \in 0..255
                 /\ c.type = "cs_interface" => c.wTotalLength \in Nat

LEMMA PortRange ==
  /\ N_PORTS \in 1..15 /\ Ports = 1..N_PORTS /\ Ports \subseteq 1..15
  /\ LastPort \in 0..7 /\ LastPort <= N_PORTS /\ Scanned = 1..LastPort /\ Scanned \subseteq Ports
<1>1. N_PORTS \in 1..15 BY EnumAssumption
<1>2. LastPort \in 0..7 /\ LastPort <= N_PORTS BY <1>1 DEF LastPort
<1>3. QED BY <1>1, <1>2 DEF Ports, Scanned

\* The descriptors have the numbers the assumption says, and Junk has none.
LEMMA DescriptorTypes ==
  /\ \A c \in Descriptors : WellFormed(c)
  /\ \A p \in Ports : device \in [Ports -> Devices] =>
       \A n \in DOMAIN device[p].configuration : device[p].configuration[n] \in Descriptors
<1>1. WellFormed(Junk) BY DEF WellFormed, Junk
<1>2. \A c \in Descriptors : WellFormed(c)
  <2>1. TAKE c \in Descriptors
  <2>2. CASE c = Junk BY <1>1, <2>2
  <2>3. CASE c # Junk
    <3>1. PICK d \in Devices : \E n \in DOMAIN d.configuration : c = d.configuration[n]
      BY <2>3 DEF Descriptors
    <3>2. QED BY <3>1, EnumAssumption DEF WellFormed
  <2>4. QED BY <2>2, <2>3
<1>3. ASSUME NEW p \in Ports, device \in [Ports -> Devices],
             NEW n \in DOMAIN device[p].configuration
      PROVE  device[p].configuration[n] \in Descriptors
  BY <1>3 DEF Descriptors
<1>4. QED BY <1>2, <1>3

LEMMA RequestTypes ==
  /\ \A v \in Values : \A b \in {"GET_DEVICE", "SET_ADDRESS", "GET_CONFIGURATION", "SET_CONFIGURATION"} :
       Request(b, v) \in Requests /\ Request(b, v).bRequest = b /\ Request(b, v).wValue = v
  /\ None \in Requests /\ None.bRequest = "none"
  /\ 0..N_PORTS + 1 \subseteq Values
<1>1. 0..N_PORTS + 1 \subseteq Values BY DEF Values
<1>2. 0 \in Values BY PortRange, <1>1
<1>3. QED BY <1>1, <1>2 DEF Request, Requests, None

LEMMA IdleTypes == IdleQH \in QH /\ Off \in PORT /\ Nowhere \in DISK
<1>1. 0 \in Values /\ None \in Requests BY PortRange, RequestTypes
<1>2. QED BY <1>1, PortRange DEF IdleQH, QH, Off, PORT, Nowhere, DISK, TERMINATE

LEMMA InitTypes == Init => TypesInv
<1> SUFFICES ASSUME Init PROVE TypesInv OBVIOUS
<1>1. port \in [Ports -> PORT]
  <2>1. 0 \in Values /\ 1 \in Values /\ None \in Requests BY PortRange, RequestTypes DEF Values
  <2>2. ASSUME NEW a \in BiosAddresses PROVE Left(a) \in PORT
    <3>1. a \in 0..127 BY EnumAssumption
    <3>2. QED BY <2>1, <3>1 DEF Left, PORT
  <2>3. QED BY <2>2, IdleTypes DEF Init
<1>2. qtds \in Seq(QTD) /\ confBuffer \in Seq(Descriptors) /\ Len(qtds) = 0 /\ Len(confBuffer) = 0
  BY EmptySeq DEF Init
<1>3. qh.next = 0 /\ qh.curr = 0 BY DEF Init, IdleQH, TERMINATE
<1>4. i \in 1..LastPort + 1 /\ available_address \in 0..LastPort + 1 /\ dev_addr \in 0..LastPort
  BY PortRange DEF Init
<1>5. qh \in QH /\ ehci_msb_internals \in DISK BY IdleTypes DEF Init
<1>6. devDesc_conf \in Nat /\ confBuffer_ptr \in Nat \ {0} /\ last_interfaceDesc = 0 BY DEF Init
<1>7. bios_owned \in BOOLEAN /\ os_owned \in BOOLEAN /\ device \in [Ports -> Devices] BY Zenon DEF Init
<1>8. QED BY <1>1, <1>2, <1>3, <1>4, <1>5, <1>6, <1>7 DEF TypesInv

-----------------------------------------------------------------------------
(* What a transaction adds to the qTDs.                                     *)

\* A setup, a status, and between them as many packets as the data need.
Packets(w) == (w + PacketSize - 1) \div PacketSize + 2

LEMMA PacketCount ==
  ASSUME NEW w \in Nat
  PROVE  /\ Packets(w) \in Nat /\ Packets(w) >= 2
         /\ w = 0 => Packets(w) = 2
         /\ w = 1 => Packets(w) = 3
         /\ w <= (Packets(w) - 2) * PacketSize
<1> DEFINE a == w + PacketSize - 1
           q == a \div PacketSize
<1>1. PacketSize \in Nat /\ PacketSize >= 1 BY EnumAssumption
<1>2. a \in Nat BY <1>1
<1>3. a = PacketSize * q + (a % PacketSize) /\ q \in Int /\ a % PacketSize \in 0..PacketSize - 1
  <2> HIDE DEF a
  <2>1. \A x \in Nat, y \in Nat : y >= 1 =>
          x = y * (x \div y) + (x % y) /\ x \div y \in Int /\ x % y \in 0..y - 1
    OBVIOUS
  <2>2. QED BY <1>1, <1>2, <2>1
<1>4. q >= 0
  <2> SUFFICES ASSUME q <= -1 PROVE FALSE BY <1>3
  <2> HIDE DEF a, q
  <2>1. \A x \in Int, y \in Nat : y >= 1 /\ x <= -1 => y * x <= -y OBVIOUS
  <2>2. PacketSize * q <= -PacketSize BY <1>1, <1>3, <2>1
  <2>3. QED BY <1>1, <1>2, <1>3, <2>2
<1>5. PacketSize * q = q * PacketSize BY <1>1, <1>3
<1>6. w <= q * PacketSize BY <1>1, <1>3, <1>5
<1>7. w = 0 => q = 0
  <2> SUFFICES ASSUME w = 0, q >= 1 PROVE FALSE BY <1>3, <1>4
  <2>1. a <= PacketSize - 1 BY <1>1
  <2> HIDE DEF a, q
  <2>2. PacketSize * q >= PacketSize
    <3>1. \A x \in Int, y \in Nat : x >= 1 => y * x >= y OBVIOUS
    <3>2. QED BY <1>1, <1>3, <3>1
  <2>3. QED BY <1>1, <1>2, <1>3, <2>1, <2>2
<1>8. w = 1 => q = 1
  <2> SUFFICES ASSUME w = 1, q # 1 PROVE FALSE OBVIOUS
  <2>1. a = PacketSize BY <1>1
  <2> HIDE DEF a, q
  <2>2. CASE q = 0 BY <1>1, <1>3, <2>1, <2>2
  <2>3. CASE q >= 2
    <3>1. \A x \in Int, y \in Nat : x >= 2 => y * x >= y + y OBVIOUS
    <3>2. PacketSize * q >= PacketSize + PacketSize BY <1>1, <1>3, <2>3, <3>1
    <3>3. QED BY <1>1, <1>3, <2>1, <3>2
  <2>4. QED BY <1>3, <1>4, <2>2, <2>3
<1>9. Packets(w) = q + 2 BY DEF Packets
<1> HIDE DEF a, q
<1>10. QED BY <1>1, <1>3, <1>4, <1>6, <1>7, <1>8, <1>9

\* What this step adds to the qTDs is one transaction of the request, each of its qTDs linked to
\* the next.
Chained(req, data) ==
  \A k \in Len(qtds) + 1..Len(qtds') :
    /\ qtds'[k].req = req
    /\ qtds'[k].next = IF k = Len(qtds') THEN TERMINATE ELSE k + 1
    /\ k = Len(qtds) + 1 => qtds'[k].pid = "SETUP"
    /\ k = Len(qtds') => qtds'[k].pid = "STATUS"
    /\ k \in Len(qtds) + 2..Len(qtds') - 1 => qtds'[k].pid = "DATA"
    /\ qtds'[k].data = data /\ qtds'[k].packet = k - Len(qtds) - 1

LEMMA Chain ==
  ASSUME TypesInv, NEW q, NEW req \in Requests, NEW data \in Buffers, NEW w \in Nat, NEW return,
         Submit(q, req, data, w, return)
  PROVE  /\ qtds' \in Seq(QTD) /\ Len(qtds) \in Nat
         /\ Len(qtds') \in Nat /\ Len(qtds') >= Len(qtds) + 2
         /\ w = 0 => Len(qtds') = Len(qtds) + 2
         /\ Len(qtds') = Len(qtds) + Packets(w)
         /\ \A k \in 1..Len(qtds) : qtds'[k] = qtds[k]
         /\ Chained(req, data)
<1> DEFINE n == Packets(w)
           new == usb_control_transaction(req, data, w)
<1>1. n \in Nat /\ n >= 2 /\ (w = 0 => n = 2) BY PacketCount
<1> HIDE DEF n
<1>2. new = [k \in 1..n |->
         [pid |-> IF k = 1 THEN "SETUP" ELSE IF k = n THEN "STATUS" ELSE "DATA",
          req |-> req, data |-> data, packet |-> k - 1, active |-> TRUE,
          next |-> IF k = n THEN TERMINATE ELSE Len(qtds) + k + 1]]
  BY DEF usb_control_transaction, Packets, n
<1>3. Len(qtds) \in Nat /\ qtds \in Seq(QTD) BY DEF TypesInv
<1> HIDE DEF new
<1>4. new \in [1..n -> QTD]
  <2>1. ASSUME NEW k \in 1..n
        PROVE  [pid |-> IF k = 1 THEN "SETUP" ELSE IF k = n THEN "STATUS" ELSE "DATA",
                req |-> req, data |-> data, packet |-> k - 1, active |-> TRUE,
                next |-> IF k = n THEN TERMINATE ELSE Len(qtds) + k + 1] \in QTD
    BY <1>1, <1>3 DEF QTD, TERMINATE
  <2>2. QED BY <1>2, <2>1
<1>5. new \in Seq(QTD) /\ Len(new) = n BY <1>1, <1>4
<1>6. qtds' = qtds \o new BY DEF Submit, new
<1>7. /\ qtds' \in Seq(QTD) /\ Len(qtds') = Len(qtds) + n
      /\ \A k \in 1..Len(qtds) + n : qtds'[k] = IF k <= Len(qtds) THEN qtds[k] ELSE new[k - Len(qtds)]
  <2> HIDE DEF QTD
  <2>1. QED BY <1>3, <1>5, <1>6, ConcatProperties
<1>8. \A k \in 1..Len(qtds) : qtds'[k] = qtds[k] BY <1>1, <1>3, <1>7
<1>9. ASSUME NEW k \in Len(qtds) + 1..Len(qtds')
      PROVE  /\ qtds'[k].req = req
             /\ qtds'[k].next = IF k = Len(qtds') THEN TERMINATE ELSE k + 1
             /\ k = Len(qtds) + 1 => qtds'[k].pid = "SETUP"
             /\ k = Len(qtds') => qtds'[k].pid = "STATUS"
             /\ k \in Len(qtds) + 2..Len(qtds') - 1 => qtds'[k].pid = "DATA"
             /\ qtds'[k].data = data /\ qtds'[k].packet = k - Len(qtds) - 1
  <2>1. k - Len(qtds) \in 1..n /\ qtds'[k] = new[k - Len(qtds)] BY <1>1, <1>3, <1>7
  <2>2. QED BY <1>1, <1>2, <1>3, <1>7, <2>1
<1>10. Len(qtds') \in Nat /\ Len(qtds') >= Len(qtds) + 2 /\ (w = 0 => Len(qtds') = Len(qtds) + 2)
      /\ Len(qtds') = Len(qtds) + Packets(w)
  BY <1>1, <1>3, <1>7 DEF n
<1>11. Chained(req, data) BY <1>9 DEF Chained
<1>12. QED BY <1>3, <1>7, <1>8, <1>10, <1>11

-----------------------------------------------------------------------------
(* Counting the fast devices.                                               *)

LEMMA FastFacts ==
  ASSUME NEW p \in 1..N_PORTS + 1
  PROVE  IsFiniteSet(Fast(p)) /\ Cardinality(Fast(p)) \in 0..p - 1
<1>1. N_PORTS \in Nat BY PortRange
<1>2. IsFiniteSet(1..p - 1) /\ Cardinality(1..p - 1) = p - 1 BY <1>1, FS_Interval
<1>3. Fast(p) \in SUBSET (1..p - 1) BY PortRange DEF Fast
<1>4. IsFiniteSet(Fast(p)) /\ Cardinality(Fast(p)) <= p - 1 BY <1>2, <1>3, FS_Subset
<1>5. Cardinality(Fast(p)) \in Nat BY <1>4, FS_CardinalityType
<1>6. QED BY <1>1, <1>4, <1>5

LEMMA FastNext ==
  ASSUME NEW p \in Scanned
  PROVE  Cardinality(Fast(p + 1)) = IF device[p].speed = "high" THEN Cardinality(Fast(p)) + 1
                                                                ELSE Cardinality(Fast(p))
<1>1. p \in 1..N_PORTS + 1 /\ p \in Nat BY PortRange
<1>2. IsFiniteSet(Fast(p)) /\ p \notin Fast(p) BY <1>1, FastFacts DEF Fast
<1>3. \A r \in Scanned : r < p + 1 <=> r < p \/ r = p BY <1>1, PortRange
<1>4. CASE device[p].speed = "high"
  <2>1. Fast(p + 1) = Fast(p) \cup {p} BY <1>3, <1>4 DEF Fast
  <2>2. QED BY <1>2, <1>4, <2>1, FS_AddElement
<1>5. CASE device[p].speed # "high"
  <2>1. Fast(p + 1) = Fast(p) BY <1>3, <1>5 DEF Fast
  <2>2. QED BY <1>5, <2>1
<1>6. QED BY <1>4, <1>5

LEMMA FastGrows ==
  ASSUME NEW p \in 1..N_PORTS + 1, NEW r \in 1..N_PORTS + 1, p <= r
  PROVE  Cardinality(Fast(p)) <= Cardinality(Fast(r))
<1>1. Fast(p) \in SUBSET Fast(r)
  <2>1. \A q \in Scanned : q < p => q < r BY PortRange
  <2>2. QED BY <2>1 DEF Fast
<1>2. QED BY <1>1, FastFacts, FS_Subset

-----------------------------------------------------------------------------
(* Who answers.                                                             *)

\* A transaction is for the device the driver is dealing with.
LEMMA OnlyThis ==
  ASSUME TypesInv, EnumInv, qh.active, NEW p \in Ports, Addressed = {p}
  PROVE  p = i /\ Waiting /\ Serving
<1>1. Waiting /\ Serving BY DEF EnumInv, RingInv, PlaceInv, Early, Waiting
<1>2. i \in Ports /\ port[i].enabled BY <1>1, PortRange DEF EnumInv, PlaceInv, CurrentInv
<1>3. port[i].addr = qh.addr
  <2>1. CASE Default BY <1>1, <2>1 DEF EnumInv, CurrentInv, Default, Waiting
  <2>2. CASE Setting BY <2>2 DEF EnumInv, CurrentInv
  <2>3. CASE HasOne BY <2>3 DEF EnumInv, CurrentInv, Stuck
  <2>4. QED BY <1>1, <2>1, <2>2, <2>3 DEF Serving
<1>4. i \in Addressed BY <1>2, <1>3 DEF Addressed
<1>5. QED BY <1>1, <1>4

-----------------------------------------------------------------------------
(* Every variable keeps its type.                                           *)

LEMMA SubmitTypes ==
  ASSUME TypesInv, NEW q \in QH, q.curr <= Len(qtds), NEW req \in Requests, NEW data \in Buffers,
         NEW w \in Nat, NEW return, Submit(q, req, data, w, return)
  PROVE  /\ qh' \in QH /\ qtds' \in Seq(QTD) /\ qh'.next <= Len(qtds)' /\ qh'.curr <= Len(qtds)'
         /\ qh'.next = Len(qtds) + 1 /\ Len(qtds) + 1 \in Nat \ {0}
         /\ qh'.addr = q.addr /\ qh'.active = q.active /\ qh'.halted = q.halted
         /\ pc' = "wait" /\ after' = return
<1>1. /\ qtds' \in Seq(QTD) /\ Len(qtds) \in Nat /\ Len(qtds') \in Nat
      /\ Len(qtds') >= Len(qtds) + 2
  BY Chain
<1>2. qh' = [q EXCEPT !.next = Len(qtds) + 1] /\ pc' = "wait" /\ after' = return BY DEF Submit
<1>3. /\ qh' \in QH /\ qh'.next = Len(qtds) + 1 /\ qh'.curr = q.curr
      /\ qh'.addr = q.addr /\ qh'.active = q.active /\ qh'.halted = q.halted
  BY <1>1, <1>2, SMTT(30) DEF QH
<1>4. q.curr \in Nat BY DEF QH
<1>5. QED BY <1>1, <1>2, <1>3, <1>4

\* Before the driver gives an address there is one left.
LEMMA AddressLeft ==
  ASSUME TypesInv, EnumInv, pc = "address"
  PROVE  available_address \in 1..LastPort
<1>1. i \in Scanned /\ Default BY DEF EnumInv, PlaceInv, Serving, Default
<1>2. ~Setting /\ ~HasOne BY DEF Setting, HasOne, Waiting
<1>3. available_address >= 1 /\ available_address <= Cardinality(Fast(i)) + 1
  BY <1>2 DEF EnumInv, CountInv, Early
<1>4. Cardinality(Fast(i)) \in 0..i - 1 BY FastFacts, PortRange DEF TypesInv
<1>5. QED BY <1>1, <1>3, <1>4, PortRange DEF TypesInv

\* The steps that start a transaction.
Starting == get_device_descriptor \/ set_address \/ get_total_length
            \/ get_configuration_descriptors \/ set_configuration

\* None runs while another one does.
LEMMA StartsIdle ==
  ASSUME TypesInv, RingInv, Starting
  PROVE  /\ ~Waiting /\ qh.next = TERMINATE /\ ~qh.active
         /\ \A k \in 1..Len(qtds) : ~qtds[k].active
<1>1. ~Waiting
  BY DEF Starting, get_device_descriptor, set_address, get_total_length,
     get_configuration_descriptors, set_configuration, Waiting
<1>2. qh.next = TERMINATE /\ ~qh.active BY <1>1 DEF RingInv
<1>3. QED BY <1>1, <1>2 DEF RingInv, Pending

\* What starting one does to the queue head and the qTDs; one of them asks
\* for an address.
Started == \E q \in QH, req \in Requests, data \in Buffers, w \in Nat : \E return :
             /\ q.curr <= Len(qtds) /\ ~q.active /\ (q.halted => qh.halted)
             /\ Submit(q, req, data, w, return)
             /\ IF set_address THEN req = Request("SET_ADDRESS", dev_addr') /\ w = 0
                               ELSE req.bRequest # "SET_ADDRESS"

LEMMA Starts == ASSUME TypesInv, RingInv, EnumInv, Starting PROVE Started
<1> USE DEF Started
<1>0. qh \in QH /\ qh.curr <= Len(qtds) /\ Len(qtds) \in Nat /\ ~qh.active /\ N_PORTS \in Nat
  BY StartsIdle, PortRange DEF TypesInv
<1>a. get_device_descriptor \/ get_total_length \/ get_configuration_descriptors \/ set_configuration
        => ~set_address
  BY DEF get_device_descriptor, get_total_length, get_configuration_descriptors, set_configuration, set_address
<1>1. CASE get_device_descriptor
  <2>1. Request("GET_DEVICE", 0) \in Requests /\ "devDesc" \in Buffers /\ IdleQH \in QH
        /\ IdleQH.curr <= Len(qtds) /\ ~IdleQH.active /\ ~IdleQH.halted
    BY <1>0, RequestTypes, IdleTypes DEF Buffers, IdleQH
  <2>a. Submit(IdleQH, Request("GET_DEVICE", 0), "devDesc", 1, "address") BY <1>1 DEF get_device_descriptor
  <2>2. QED BY <1>1, <1>a, <2>1, <2>a, RequestTypes, <1>0
<1>2. CASE set_address
  <2>1. available_address \in Values
    <3>1. available_address \in 1..LastPort BY <1>2, AddressLeft DEF set_address
    <3>2. QED BY <3>1, PortRange, RequestTypes
  <2>2. Request("SET_ADDRESS", available_address) \in Requests /\ "none" \in Buffers
    BY <2>1, RequestTypes DEF Buffers
  <2>3. Submit(qh, Request("SET_ADDRESS", available_address), "none", 0, "total")
        /\ dev_addr' = available_address
    BY <1>2 DEF set_address
  <2>4. QED BY <1>0, <1>2, <2>2, <2>3
<1>3. CASE get_total_length
  <2> DEFINE q == [qh EXCEPT !.addr = dev_addr]
  <2>1. dev_addr \in 0..127 BY PortRange DEF TypesInv
  <2>2. q \in QH /\ q.curr <= Len(qtds) /\ ~q.active /\ q.halted = qh.halted BY <1>0, <2>1 DEF QH
  <2>3. Submit(q, Request("GET_CONFIGURATION", 0), "devDesc_conf", 1, "conf") BY <1>3 DEF get_total_length
  <2> HIDE DEF q
  <2>4. Request("GET_CONFIGURATION", 0) \in Requests /\ "devDesc_conf" \in Buffers
    BY RequestTypes, <1>0 DEF Buffers
  <2>5. QED BY <1>0, <1>3, <1>a, <2>2, <2>3, <2>4, RequestTypes
<1>4. CASE get_configuration_descriptors
  <2>1. Request("GET_CONFIGURATION", 0) \in Requests /\ "confBuffer" \in Buffers /\ devDesc_conf \in Nat
    BY RequestTypes, <1>0 DEF Buffers, TypesInv
  <2>2. Submit(qh, Request("GET_CONFIGURATION", 0), "confBuffer", devDesc_conf, "parse")
    BY <1>4 DEF get_configuration_descriptors
  <2>3. QED BY <1>0, <1>4, <1>a, <2>1, <2>2, RequestTypes
<1>5. CASE set_configuration
  <2>1. last_interfaceDesc # 0 BY <1>5 DEF set_configuration, Class
  <2>2. confBuffer[1] \in Descriptors BY <2>1 DEF TypesInv
  <2>3. confBuffer[1].bConfigurationValue \in Values BY <2>2 DEF Values
  <2>4. Submit(qh, Request("SET_CONFIGURATION", confBuffer[1].bConfigurationValue), "none", 0, "next")
    BY <1>5 DEF set_configuration
  <2>5. Request("SET_CONFIGURATION", confBuffer[1].bConfigurationValue) \in Requests /\ "none" \in Buffers
    BY <2>3, RequestTypes DEF Buffers
  <2>6. QED BY <1>0, <1>5, <1>a, <2>3, <2>4, <2>5, RequestTypes
<1>6. QED BY <1>1, <1>2, <1>3, <1>4, <1>5 DEF Starting

\* The steps that end a qTD, and what they do to the queue head and the qTDs.
Retiring == ExecuteQtd \/ HaltQh

LEMMA Retires ==
  ASSUME TypesInv, RingInv, Retiring
  PROVE  /\ qh.active /\ qh.curr \in 1..Len(qtds) /\ UNCHANGED <<pc, after, i, dev_addr, available_address>>
         /\ qh' \in QH /\ ~qh'.active /\ qh'.next = qh.next /\ qh'.curr = qh.curr /\ qh'.addr = qh.addr
         /\ qh.halted => qh'.halted
         /\ HaltQh => qh'.halted
         /\ ~HaltQh => qh'.halted = qh.halted
         /\ qtds' \in Seq(QTD) /\ Len(qtds') = Len(qtds)
         /\ \A k \in 1..Len(qtds) : /\ qtds'[k].next = qtds[k].next
                                    /\ qtds'[k].pid = qtds[k].pid /\ qtds'[k].req = qtds[k].req
                                    /\ qtds'[k].data = qtds[k].data /\ qtds'[k].packet = qtds[k].packet
                                    /\ qtds'[k].active => qtds[k].active /\ k # qh.curr
<1>0. qh \in QH /\ qtds \in Seq(QTD) BY DEF TypesInv
<1>1. /\ qh.active /\ UNCHANGED <<pc, after, i, dev_addr, available_address>>
      /\ qtds' = [qtds EXCEPT ![qh.curr].active = FALSE]
  BY DEF Retiring, ExecuteQtd, HaltQh, locals
<1>2. qh.curr \in 1..Len(qtds) BY <1>1 DEF RingInv
<1>3. /\ qh' \in QH /\ ~qh'.active /\ qh'.next = qh.next /\ qh'.curr = qh.curr /\ qh'.addr = qh.addr
      /\ qh.halted => qh'.halted
      /\ HaltQh => qh'.halted
      /\ ~HaltQh => qh'.halted = qh.halted
  <2>1. CASE HaltQh
    <3>1. qh' = [qh EXCEPT !.active = FALSE, !.halted = TRUE] BY <2>1 DEF HaltQh
    <3>2. QED BY <1>0, <2>1, <3>1 DEF QH
  <2>2. CASE ~HaltQh
    <3>1. qh' = [qh EXCEPT !.active = FALSE] BY <2>2 DEF Retiring, ExecuteQtd
    <3>2. QED BY <1>0, <2>2, <3>1 DEF QH
  <2>3. QED BY <2>1, <2>2
<1> DEFINE t == [qtds[qh.curr] EXCEPT !.active = FALSE]
<1>4. qtds[qh.curr] \in QTD BY <1>0, <1>2
<1>5. /\ t \in QTD /\ ~t.active /\ t.next = qtds[qh.curr].next
      /\ t.pid = qtds[qh.curr].pid /\ t.req = qtds[qh.curr].req
      /\ t.data = qtds[qh.curr].data /\ t.packet = qtds[qh.curr].packet
  BY <1>4 DEF QTD
<1>6. qtds' = [qtds EXCEPT ![qh.curr] = t] BY <1>1
<1> HIDE DEF t
<1>7. /\ qtds' \in Seq(QTD) /\ Len(qtds') = Len(qtds)
      /\ \A k \in 1..Len(qtds) : qtds'[k] = IF k = qh.curr THEN t ELSE qtds[k]
  BY <1>0, <1>2, <1>5, <1>6, ExceptSeq
<1>8. QED BY <1>1, <1>2, <1>3, <1>5, <1>7

LEMMA StepTypes == TypesInv /\ EnumInv /\ [Next]_vars => TypesInv'
<1> SUFFICES ASSUME TypesInv, EnumInv, [Next]_vars PROVE TypesInv' OBVIOUS
<1> USE DEF semaphores, buffers, locals, Goto
<1>0. /\ bios_owned \in BOOLEAN /\ os_owned \in BOOLEAN /\ port \in [Ports -> PORT]
      /\ qh \in QH /\ qtds \in Seq(QTD) /\ Len(qtds) \in Nat /\ N_PORTS \in Nat
      /\ confBuffer \in Seq(Descriptors) /\ Len(confBuffer) \in Nat /\ ehci_msb_internals \in DISK
      /\ qh.next <= Len(qtds) /\ qh.curr <= Len(qtds)
  BY PortRange DEF TypesInv
<1>1. CASE EHCI_Reset \/ BiosReleases
  <2>1. bios_owned' \in BOOLEAN /\ os_owned' \in BOOLEAN BY <1>0, <1>1, Zenon DEF EHCI_Reset, BiosReleases
  <2>2. QED BY <1>1, <2>1 DEF EHCI_Reset, BiosReleases, TypesInv
<1>2. CASE EHCI_Reset_confirm \/ EHCI_Init_return \/ wait_for_qh_next \/ wait_for_qh_token \/ not_a_disk
  BY <1>2 DEF EHCI_Reset_confirm, EHCI_Init_return, wait_for_qh_next, wait_for_qh_token, not_a_disk, TypesInv
<1>3. CASE EHCI_Init_start
  <2>1. qh' = IdleQH /\ i' = 1 /\ available_address' = 1 /\ ehci_msb_internals' = Nowhere
        /\ UNCHANGED <<bios_owned, os_owned, device, port, qtds, dev_addr, devDesc_conf, confBuffer,
                       confBuffer_ptr, last_interfaceDesc>>
    BY <1>3 DEF EHCI_Init_start
  <2>2. qh'.next = 0 /\ qh'.curr = 0 BY <2>1 DEF IdleQH, TERMINATE
  <2>3. QED BY <1>0, <2>1, <2>2, IdleTypes, PortRange DEF TypesInv
<1>4. CASE reset_port
  <2>1. port' \in [Ports -> PORT] BY <1>0, <1>4, IdleTypes DEF reset_port
  <2>2. QED BY <1>4, <2>1 DEF reset_port, TypesInv
<1>5. CASE reset_port_end
  <2>1. port' \in [Ports -> PORT]
    <3>1. port' = [port EXCEPT ![i].enabled = (device[i].speed = "high")] BY <1>5 DEF reset_port_end
    <3>2. (device[i].speed = "high") \in BOOLEAN OBVIOUS
    <3>3. i \in Ports
      BY <1>5, PortRange DEF reset_port_end, EnumInv, PlaceInv
    <3>4. port[i] \in PORT BY <1>0, <3>3
    <3>5. [port[i] EXCEPT !.enabled = (device[i].speed = "high")] \in PORT BY <3>2, <3>4 DEF PORT
    <3>6. port' = [port EXCEPT ![i] = [port[i] EXCEPT !.enabled = (device[i].speed = "high")]] BY <3>1
    <3>7. QED BY <1>0, <3>5, <3>6
  <2>2. QED BY <1>5, <2>1 DEF reset_port_end, TypesInv
<1>6. CASE next_port
  <2>1. i \in Scanned /\ i' = i + 1
    BY <1>6 DEF next_port, EnumInv, PlaceInv, Serving, Default, Setting, HasOne, Waiting, Early
  <2>2. i' \in 1..LastPort + 1 BY <2>1, PortRange
  <2>3. QED BY <1>6, <2>2 DEF next_port, TypesInv
<1>7. CASE Starting
  <2>1. qh' \in QH /\ qtds' \in Seq(QTD) /\ qh'.next <= Len(qtds)' /\ qh'.curr <= Len(qtds)'
    BY <1>7, Starts, SubmitTypes DEF Started, EnumInv
  <2>2. CASE get_device_descriptor \/ get_total_length
    BY <2>1, <2>2 DEF get_device_descriptor, get_total_length, TypesInv
  <2>3. CASE set_address
    <3>1. dev_addr' = available_address /\ available_address' = available_address + 1
      BY <2>3 DEF set_address
    <3>2. available_address \in 1..LastPort BY <2>3, AddressLeft DEF set_address
    <3>3. dev_addr' \in 0..LastPort /\ available_address' \in 0..LastPort + 1 BY <3>1, <3>2, PortRange
    <3>4. QED BY <2>1, <2>3, <3>3 DEF set_address, TypesInv
  <2>4. CASE get_configuration_descriptors
    <3>1. confBuffer' = [n \in 1..devDesc_conf |-> Junk] BY <2>4 DEF get_configuration_descriptors
    <3>2. Junk \in Descriptors /\ devDesc_conf \in Nat BY DEF Descriptors, TypesInv
    <3>3. confBuffer' \in Seq(Descriptors) /\ Len(confBuffer') \in Nat BY <3>1, <3>2
    <3>4. confBuffer_ptr' = 2 /\ last_interfaceDesc' = 0 BY <2>4 DEF get_configuration_descriptors
    <3>5. confBuffer_ptr' \in Nat \ {0} /\ last_interfaceDesc' \in 0..Len(confBuffer') BY <3>3, <3>4
    <3>6. QED BY <2>1, <2>4, <3>3, <3>5 DEF get_configuration_descriptors, TypesInv
  <2>5. CASE set_configuration
    <3>1. ehci_msb_internals' \in DISK BY <1>0, <2>5 DEF set_configuration, DISK, TypesInv
    <3>2. QED BY <2>1, <2>5, <3>1 DEF set_configuration, TypesInv
  <2>6. QED BY <1>7, <2>2, <2>3, <2>4, <2>5 DEF Starting
<1>8. ASSUME NEW t, Parsing(t)
       PROVE  confBuffer_ptr \in 1..Len(confBuffer) /\ Here \in Descriptors /\ Here.type = t
  BY <1>0, <1>8 DEF Parsing, Here, TypesInv
<1>9. ASSUME NEW n \in Nat, Advance(n), last_interfaceDesc' \in 0..Len(confBuffer), ehci_msb_internals' \in DISK
       PROVE  TypesInv'
  BY <1>9 DEF Advance, TypesInv
<1>10. last_interfaceDesc \in 0..Len(confBuffer) BY DEF TypesInv
<1>11. CASE interface_descriptor
  <2>1. Here \in Descriptors /\ confBuffer_ptr \in 1..Len(confBuffer) BY <1>8, <1>11 DEF interface_descriptor
  <2>2. ehci_msb_internals' \in DISK
    BY <1>0, <1>11, <2>1 DEF interface_descriptor, DISK
  <2>3. last_interfaceDesc' \in 0..Len(confBuffer) BY <1>0, <1>11, <2>1 DEF interface_descriptor
  <2>4. QED BY <1>9, <1>11, <2>2, <2>3 DEF interface_descriptor
<1>12. CASE endpoint_descriptor
  <2>1. Here \in Descriptors /\ Here.type = "endpoint" BY <1>8, <1>12 DEF endpoint_descriptor
  <2>2. Here.bEndpointAddress \in 0..255 BY <2>1, DescriptorTypes DEF WellFormed
  <2>3. Here.bEndpointAddress % 16 \in 0..15 BY <2>2, SMTT(30)
  <2>4. ehci_msb_internals' \in DISK BY <1>0, <1>12, <2>1, <2>3, ZenonT(30) DEF endpoint_descriptor, DISK
  <2>5. QED BY <1>9, <1>10, <1>12, <2>4 DEF endpoint_descriptor
<1>13. CASE association_descriptor \/ video_endpoint_descriptor
  BY <1>0, <1>9, <1>10, <1>13 DEF association_descriptor, video_endpoint_descriptor
<1>14. CASE video_header_descriptor
  <2>1. Here.wTotalLength \in Nat BY <1>8, <1>14, DescriptorTypes DEF video_header_descriptor, WellFormed
  <2>2. QED BY <1>0, <1>9, <1>10, <1>14, <2>1 DEF video_header_descriptor
<1>15. CASE FetchQtd
  <2>1. qh.next \in 1..Len(qtds) BY <1>15 DEF FetchQtd, EnumInv, RingInv
  <2>2. qtds[qh.next] \in QTD BY <1>0, <2>1
  <2>3. qtds[qh.next].next \in Nat /\ qtds[qh.next].next <= Len(qtds)
    <3>1. qh.next \in qh.next..Len(qtds) BY <1>0, <2>1
    <3>2. qtds[qh.next].next = IF qh.next = Len(qtds) THEN TERMINATE ELSE qh.next + 1
      BY <1>15, <3>1 DEF FetchQtd, EnumInv, RingInv
    <3>3. QED BY <1>0, <2>1, <3>2 DEF TERMINATE
  <2>4. qh' = [qh EXCEPT !.curr = qh.next, !.next = qtds[qh.next].next, !.active = TRUE]
        /\ qtds' = qtds
    BY <1>15 DEF FetchQtd
  <2>5. qh' \in QH /\ qh'.next <= Len(qtds) /\ qh'.curr <= Len(qtds)
    BY <1>0, <2>1, <2>3, <2>4 DEF QH
  <2>6. QED BY <1>15, <2>4, <2>5 DEF FetchQtd, TypesInv
<1>16. CASE HaltQh
  <2>1. /\ qtds' \in Seq(QTD) /\ Len(qtds') = Len(qtds)
        /\ qh' \in QH /\ qh'.next = qh.next /\ qh'.curr = qh.curr
    BY <1>16, Retires DEF Retiring, EnumInv
  <2>2. QED BY <1>0, <1>16, <2>1 DEF HaltQh, TypesInv
<1>17. CASE ExecuteQtd
  <2>1. /\ qtds' \in Seq(QTD) /\ Len(qtds') = Len(qtds)
        /\ qh' \in QH /\ qh'.next = qh.next /\ qh'.curr = qh.curr
    BY <1>17, Retires DEF Retiring, EnumInv
  <2>3. PICK p \in Ports : LET t == qtds[qh.curr] IN
             /\ Addressed = {p}
             /\ \/ t.pid = "SETUP" /\ Setup(p, t)
                \/ t.pid = "DATA" /\ Data(p, t)
                \/ t.pid = "STATUS" /\ Status(p)
    BY <1>17 DEF ExecuteQtd
  <2>4. qh.active BY <1>17 DEF ExecuteQtd
  <2>5. p = i /\ Serving BY <2>3, <2>4, OnlyThis
  <2>6. qh.curr \in 1..Len(qtds) /\ qtds[qh.curr] \in QTD BY <1>0, <2>4 DEF EnumInv, RingInv
  <2> DEFINE t == qtds[qh.curr]
  <2>7. port' \in [Ports -> PORT] /\ devDesc_conf' \in Nat /\ confBuffer' \in Seq(Descriptors)
        /\ Len(confBuffer') = Len(confBuffer)
    <3>1. CASE Setup(p, t)
      <4>a. t.req \in Requests /\ port[p] \in PORT BY <1>0, <2>6 DEF QTD
      <4>1. [port[p] EXCEPT !.request = t.req] \in PORT BY <4>a DEF PORT
      <4>2. port' = [port EXCEPT ![p] = [port[p] EXCEPT !.request = t.req]] BY <3>1 DEF Setup
      <4>3. QED BY <1>0, <3>1, <4>1, <4>2 DEF Setup, TypesInv
    <3>2. CASE Data(p, t)
      <4>1. device[p].configuration[1].wTotalLength \in Nat
        <5>1. device[p].speed = "high" /\ device[p] \in Devices BY <2>5 DEF EnumInv, CurrentInv, TypesInv
        <5>2. QED BY <5>1, EnumAssumption
      <4>2. devDesc_conf' \in Nat BY <3>2, <4>1 DEF Data, TypesInv
      <4>3. confBuffer' \in [1..Len(confBuffer) -> Descriptors]
        <5>1. CASE t.data # "confBuffer" BY <1>0, <3>2, <5>1 DEF Data
        <5>2. CASE t.data = "confBuffer"
          <6> DEFINE answer == device[p].configuration
                     part == (t.packet - 1) * PacketSize + 1 .. t.packet * PacketSize
          <6>1. confBuffer' = [n \in DOMAIN confBuffer |->
                  IF n \in part \cap DOMAIN answer THEN answer[n] ELSE confBuffer[n]]
            BY <3>2, <5>2 DEF Data
          <6> HIDE DEF part
          <6>2. \A n \in DOMAIN answer : answer[n] \in Descriptors BY DescriptorTypes DEF TypesInv
          <6>3. DOMAIN confBuffer = 1..Len(confBuffer)
                /\ \A n \in 1..Len(confBuffer) : confBuffer[n] \in Descriptors BY <1>0
          <6> HIDE DEF answer
          <6>4. QED BY <6>1, <6>2, <6>3
        <5>3. QED BY <5>1, <5>2
      <4>4. confBuffer' \in Seq(Descriptors) /\ Len(confBuffer') = Len(confBuffer) BY <1>0, <4>3
      <4>5. QED BY <1>0, <3>2, <4>2, <4>4 DEF Data
    <3>3. CASE Status(p)
      <4>1. port[p].request \in Requests /\ port[p] \in PORT BY <1>0 DEF PORT
      <4> DEFINE req == port[p].request
      <4>2. Obeys(p, req) \in [Ports -> PORT]
        <5>1. CASE req.bRequest = "SET_ADDRESS"
          <6>1. req.wValue = dev_addr BY <2>5, <5>1 DEF EnumInv, RequestInv
          <6>2. dev_addr \in 0..127 BY PortRange DEF TypesInv
          <6>3. [port[p] EXCEPT !.addr = req.wValue] \in PORT BY <4>1, <6>1, <6>2 DEF PORT
          <6>4. Obeys(p, req) = [port EXCEPT ![p] = [port[p] EXCEPT !.addr = req.wValue]]
            BY <5>1 DEF Obeys
          <6>5. QED BY <1>0, <6>3, <6>4
        <5>2. CASE req.bRequest = "SET_CONFIGURATION"
          <6>1. [port[p] EXCEPT !.configuration = req.wValue] \in PORT BY <4>1 DEF PORT, Requests
          <6>2. Obeys(p, req) = [port EXCEPT ![p] = [port[p] EXCEPT !.configuration = req.wValue]]
            BY <5>2 DEF Obeys
          <6>3. QED BY <1>0, <6>1, <6>2
        <5>3. CASE req.bRequest \notin {"SET_ADDRESS", "SET_CONFIGURATION"}
          BY <1>0, <5>3 DEF Obeys
        <5>4. QED BY <5>1, <5>2, <5>3
      <4>3. QED BY <1>0, <3>3, <4>2 DEF Status, TypesInv
    <3>4. QED BY <2>3, <3>1, <3>2, <3>3
  <2>8. QED BY <1>0, <1>17, <2>1, <2>7 DEF ExecuteQtd, TypesInv
<1>18. CASE UNCHANGED vars BY <1>18 DEF vars, TypesInv
<1>19. QED BY <1>1, <1>2, <1>3, <1>4, <1>5, <1>6, <1>7, <1>11, <1>12, <1>13, <1>14, <1>15, <1>16, <1>17, <1>18
           DEF Next, Driver, Controller, Parse, Starting

-----------------------------------------------------------------------------
(* Where the driver is.                                                     *)

LEMMA StepPlace == TypesInv /\ PlaceInv /\ [Next]_vars => PlaceInv'
<1> SUFFICES ASSUME TypesInv, PlaceInv, [Next]_vars PROVE PlaceInv' OBVIOUS
<1> USE DEF locals, Goto, Serving, Default, Setting, HasOne, Waiting, Early
<1>0. i \in 1..LastPort + 1 /\ Scanned = 1..LastPort /\ LastPort \in 0..7 BY PortRange DEF PlaceInv
<1>1. CASE EHCI_Reset \/ EHCI_Reset_confirm \/ BiosReleases
  BY <1>1 DEF EHCI_Reset, EHCI_Reset_confirm, BiosReleases, PlaceInv
<1>2. CASE EHCI_Init_start BY <1>0, <1>2 DEF EHCI_Init_start, PlaceInv
<1>3. CASE reset_port \/ reset_port_end BY <1>3 DEF reset_port, reset_port_end, PlaceInv
<1>12. CASE EHCI_Init_return
  <2>1. pc = "reset" /\ pc' = "done" /\ i' = i /\ i = LastPort + 1 BY <1>0, <1>12 DEF EHCI_Init_return
  <2>2. QED BY <1>0, <2>1 DEF PlaceInv
<1>4. CASE next_port
  <2>1. i \in Scanned /\ i' = i + 1 /\ pc' = "reset" BY <1>4 DEF next_port, PlaceInv
  <2>2. QED BY <1>0, <2>1 DEF PlaceInv
<1>5. CASE wait_for_qh_next \/ wait_for_qh_token
  BY <1>5 DEF wait_for_qh_next, wait_for_qh_token, PlaceInv
<1>6. CASE get_device_descriptor \/ set_address \/ get_total_length \/ get_configuration_descriptors
           \/ set_configuration
  BY <1>6 DEF get_device_descriptor, set_address, get_total_length, get_configuration_descriptors,
     set_configuration, Submit, PlaceInv
<1>7. CASE interface_descriptor \/ endpoint_descriptor \/ association_descriptor
           \/ video_header_descriptor \/ video_endpoint_descriptor
  BY <1>7 DEF interface_descriptor, endpoint_descriptor, association_descriptor,
     video_header_descriptor, video_endpoint_descriptor, Advance, PlaceInv
<1>8. CASE not_a_disk BY <1>8 DEF not_a_disk, PlaceInv
<1>9. CASE FetchQtd \/ ExecuteQtd \/ HaltQh BY <1>9 DEF FetchQtd, ExecuteQtd, HaltQh, PlaceInv
<1>10. CASE UNCHANGED vars BY <1>10 DEF vars, PlaceInv
<1>11. QED BY <1>1, <1>2, <1>3, <1>4, <1>5, <1>6, <1>7, <1>8, <1>9, <1>10, <1>12 DEF Next, Driver, Controller, Parse

-----------------------------------------------------------------------------
(* The queue head goes through its qTDs one after the other.                *)

LEMMA StepRing == TypesInv /\ EnumInv /\ [Next]_vars => RingInv'
<1> SUFFICES ASSUME TypesInv, EnumInv, [Next]_vars PROVE RingInv' OBVIOUS
<1> USE DEF locals, Goto, Waiting, TERMINATE
<1>0. qh \in QH /\ qtds \in Seq(QTD) /\ Len(qtds) \in Nat /\ RingInv BY DEF TypesInv, EnumInv
<1>1. ASSUME UNCHANGED <<qh, qtds>>, ~Waiting, ~Waiting' PROVE RingInv'
  BY <1>0, <1>1 DEF RingInv, Pending
<1>2. ASSUME UNCHANGED <<qh, qtds, pc>> PROVE RingInv'
  BY <1>0, <1>2 DEF RingInv, Pending
<1>3. CASE \/ EHCI_Reset \/ EHCI_Reset_confirm \/ reset_port \/ reset_port_end \/ next_port
           \/ EHCI_Init_return \/ not_a_disk
  BY <1>1, <1>3 DEF EHCI_Reset, EHCI_Reset_confirm, reset_port, reset_port_end, next_port,
     EHCI_Init_return, not_a_disk
<1>4. CASE \/ BiosReleases \/ interface_descriptor \/ endpoint_descriptor \/ association_descriptor
           \/ video_header_descriptor \/ video_endpoint_descriptor \/ UNCHANGED vars
  BY <1>2, <1>4 DEF BiosReleases, interface_descriptor, endpoint_descriptor, association_descriptor,
     video_header_descriptor, video_endpoint_descriptor, Advance, vars
<1>5. CASE EHCI_Init_start
  <2>1. ~Waiting /\ ~Waiting' /\ qh' = IdleQH /\ qtds' = qtds BY <1>5 DEF EHCI_Init_start
  <2>2. \A k \in 1..Len(qtds) : ~qtds[k].active BY <1>0, <2>1 DEF RingInv, Pending
  <2>3. qh'.next = TERMINATE /\ ~qh'.active BY <2>1 DEF IdleQH
  <2>4. QED BY <2>1, <2>2, <2>3 DEF RingInv, Pending
<1>6. CASE wait_for_qh_next BY <1>0, <1>6 DEF wait_for_qh_next, RingInv, Pending
<1>7. CASE wait_for_qh_token
  <2>1. qh.next = TERMINATE /\ UNCHANGED <<qh, qtds>> BY <1>0, <1>7 DEF wait_for_qh_token, RingInv
  <2>2. ~Waiting' => ~qh.active BY <1>7 DEF wait_for_qh_token
  <2>3. pc' = "wait" \/ ~Waiting'
    BY <1>7 DEF wait_for_qh_token, EnumInv, PlaceInv, Serving, Default, Setting, HasOne, Early
  <2>4. QED BY <1>0, <2>1, <2>2, <2>3 DEF RingInv, Pending
<1>8. CASE Starting
  <2>1. ~Waiting /\ \A k \in 1..Len(qtds) : ~qtds[k].active BY <1>0, <1>8, StartsIdle
  <2>2. PICK q \in QH, req \in Requests, data \in Buffers, w \in Nat : \E return :
          q.curr <= Len(qtds) /\ ~q.active /\ Submit(q, req, data, w, return)
    BY <1>0, <1>8, Starts DEF Started
  <2>3. qh'.next = Len(qtds) + 1 /\ ~qh'.active /\ pc' = "wait" BY <2>2, SubmitTypes
  <2>4. /\ Len(qtds') \in Nat /\ Len(qtds') >= Len(qtds) + 2
        /\ \A k \in 1..Len(qtds) : qtds'[k] = qtds[k]
        /\ \A k \in Len(qtds) + 1..Len(qtds') :
             qtds'[k].next = IF k = Len(qtds') THEN TERMINATE ELSE k + 1
    <3>1. Chained(req, data) BY <2>2, Chain
    <3>2. /\ Len(qtds') \in Nat /\ Len(qtds') >= Len(qtds) + 2
          /\ \A k \in 1..Len(qtds) : qtds'[k] = qtds[k]
      BY <2>2, Chain
    <3>3. QED BY <3>1, <3>2 DEF Chained
  <2>5. \A k \in 1..Len(qtds') : qtds'[k].active => k >= Len(qtds) + 1 BY <1>0, <2>1, <2>4
  <2>6. QED BY <1>0, <2>3, <2>4, <2>5 DEF RingInv, Pending
<1>9. CASE FetchQtd
  <2>1. /\ ~qh.active /\ qh.next # TERMINATE /\ UNCHANGED <<qtds, pc>>
        /\ qh' = [qh EXCEPT !.curr = qh.next, !.next = qtds[qh.next].next, !.active = TRUE]
    BY <1>9 DEF FetchQtd
  <2>2. qh.next \in 1..Len(qtds)
        /\ qtds[qh.next].next = IF qh.next = Len(qtds) THEN TERMINATE ELSE qh.next + 1
    BY <1>0, <2>1 DEF RingInv
  <2>3. qh'.active /\ qh'.curr = qh.next
        /\ qh'.next = IF qh.next = Len(qtds) THEN TERMINATE ELSE qh.next + 1
    BY <1>0, <2>1, <2>2 DEF QH
  <2>4. pc = "wait" BY <1>0, <2>1 DEF RingInv
  <2>5. \A k \in 1..Len(qtds) : Pending(k) => Pending(k)'
    BY <1>0, <2>1, <2>2, <2>3 DEF Pending
  <2>6. QED BY <1>0, <2>1, <2>2, <2>3, <2>4, <2>5 DEF RingInv
<1>10. CASE Retiring
  <2>1. /\ qh.active /\ qh.curr \in 1..Len(qtds) /\ UNCHANGED pc
        /\ ~qh'.active /\ qh'.next = qh.next /\ Len(qtds') = Len(qtds)
        /\ \A k \in 1..Len(qtds) : /\ qtds'[k].next = qtds[k].next
                                   /\ qtds'[k].active => qtds[k].active /\ k # qh.curr
    BY <1>0, <1>10, Retires
  <2>2. \A k \in 1..Len(qtds) : qtds'[k].active => Pending(k)'
    BY <1>0, <2>1 DEF RingInv, Pending
  <2>3. pc \in {"wait", "wait_token"} BY <1>0, <2>1 DEF RingInv
  <2>4. QED BY <1>0, <2>1, <2>2, <2>3 DEF RingInv
<1>11. QED BY <1>3, <1>4, <1>5, <1>6, <1>7, <1>8, <1>9, <1>10
           DEF Next, Driver, Controller, Parse, Starting, Retiring

-----------------------------------------------------------------------------
(* What the steps do to the ports.                                          *)

\* All that the rest of the invariant speaks of.
core == <<device, port, qh, qtds, pc, after, i, available_address, dev_addr>>

\* The driver's steps between transactions.
Moving == \/ EHCI_Reset \/ EHCI_Reset_confirm \/ EHCI_Init_start
          \/ reset_port \/ reset_port_end \/ next_port \/ EHCI_Init_return
          \/ wait_for_qh_next \/ wait_for_qh_token \/ not_a_disk

LEMMA Steps == [Next]_vars => UNCHANGED core \/ Moving \/ Starting \/ FetchQtd \/ Retiring
BY DEF Next, Driver, Controller, Parse, BiosReleases, interface_descriptor, endpoint_descriptor,
   association_descriptor, video_header_descriptor, video_endpoint_descriptor, Advance, vars,
   core, locals, Moving, Starting, Retiring

LEMMA QuietSteps ==
  ASSUME UNCHANGED core
  PROVE  /\ RequestInv => RequestInv'
         /\ SettingInv => SettingInv'
         /\ CountInv => CountInv'
         /\ AheadInv => AheadInv'
         /\ GivenInv => GivenInv'
         /\ CurrentInv => CurrentInv'
<1> USE DEF core, Serving, Default, Setting, HasOne, Waiting, Pending, Asked
<1>1. RequestInv => RequestInv' BY DEF RequestInv
<1>2. SettingInv => SettingInv' BY DEF SettingInv
<1>3. CountInv => CountInv' BY DEF CountInv, Fast
<1>4. AheadInv => AheadInv' BY DEF AheadInv, Ahead
<1>5. GivenInv => GivenInv' BY DEF GivenInv, Given, Fresh
<1>6. CurrentInv => CurrentInv' BY DEF CurrentInv, Stuck
<1>7. QED BY <1>1, <1>2, <1>3, <1>4, <1>5, <1>6

\* A packet changes its device only: the setup gives it the request, the
\* status makes it obey the one it has.
LEMMA Executes ==
  ASSUME TypesInv, EnumInv, ExecuteQtd
  PROVE  /\ i \in Ports /\ Waiting /\ Serving /\ Pending(qh.curr)
         /\ \A p \in Ports : p # i => port'[p] = port[p]
         /\ port'[i].enabled = port[i].enabled
         /\ \/ /\ qtds[qh.curr].pid = "SETUP"
               /\ port'[i].request = qtds[qh.curr].req /\ port'[i].addr = port[i].addr
            \/ /\ qtds[qh.curr].pid = "DATA" /\ port' = port
            \/ /\ qtds[qh.curr].pid = "STATUS" /\ port'[i].request = port[i].request
               /\ port'[i].addr = IF port[i].request.bRequest = "SET_ADDRESS"
                                    THEN port[i].request.wValue ELSE port[i].addr
<1>1. PICK p \in Ports : LET t == qtds[qh.curr] IN
             /\ Addressed = {p}
             /\ \/ t.pid = "SETUP" /\ Setup(p, t)
                \/ t.pid = "DATA" /\ Data(p, t)
                \/ t.pid = "STATUS" /\ Status(p)
  BY DEF ExecuteQtd
<1>2. qh.active BY DEF ExecuteQtd
<1>3. p = i /\ Waiting /\ Serving BY <1>1, <1>2, OnlyThis
<1>4. port \in [Ports -> PORT] /\ port[i] \in PORT BY <1>1, <1>3 DEF TypesInv
<1>5. CASE qtds[qh.curr].pid = "SETUP" /\ Setup(p, qtds[qh.curr])
  <2>1. port' = [port EXCEPT ![i] = [port[i] EXCEPT !.request = qtds[qh.curr].req]]
    BY <1>3, <1>5 DEF Setup
  <2>2. port'[i] = [port[i] EXCEPT !.request = qtds[qh.curr].req]
        /\ \A r \in Ports : r # i => port'[r] = port[r]
    BY <1>1, <1>3, <1>4, <2>1
  <2>3. QED BY <1>1, <1>2, <1>3, <1>4, <1>5, <2>2 DEF PORT, Pending
<1>6. CASE qtds[qh.curr].pid = "DATA" /\ Data(p, qtds[qh.curr])
  <2>1. port' = port BY <1>6 DEF Data
  <2>2. QED BY <1>1, <1>2, <1>3, <1>6, <2>1 DEF Pending
<1>7. CASE qtds[qh.curr].pid = "STATUS" /\ Status(p)
  <2> DEFINE req == port[i].request
  <2>1. port' = Obeys(i, req) BY <1>3, <1>7 DEF Status
  <2>2. CASE req.bRequest = "SET_ADDRESS"
    <3>1. port' = [port EXCEPT ![i] = [port[i] EXCEPT !.addr = req.wValue]] BY <2>1, <2>2 DEF Obeys
    <3>2. port'[i] = [port[i] EXCEPT !.addr = req.wValue] /\ \A r \in Ports : r # i => port'[r] = port[r]
      BY <1>1, <1>3, <1>4, <3>1
    <3>3. QED BY <1>1, <1>2, <1>3, <1>4, <1>7, <2>2, <3>2 DEF PORT, Pending
  <2>3. CASE req.bRequest = "SET_CONFIGURATION"
    <3>1. port' = [port EXCEPT ![i] = [port[i] EXCEPT !.configuration = req.wValue]] BY <2>1, <2>3 DEF Obeys
    <3>2. port'[i] = [port[i] EXCEPT !.configuration = req.wValue]
          /\ \A r \in Ports : r # i => port'[r] = port[r]
      BY <1>1, <1>3, <1>4, <3>1
    <3>3. QED BY <1>1, <1>2, <1>3, <1>4, <1>7, <2>3, <3>2 DEF PORT, Pending
  <2>4. CASE req.bRequest \notin {"SET_ADDRESS", "SET_CONFIGURATION"}
    <3>1. port' = port BY <2>1, <2>4 DEF Obeys
    <3>2. QED BY <1>1, <1>2, <1>3, <1>7, <2>4, <3>1 DEF Pending
  <2>5. QED BY <2>2, <2>3, <2>4
<1>8. QED BY <1>1, <1>5, <1>6, <1>7

-----------------------------------------------------------------------------
(* The other parts of the invariant, each kept by every step.               *)

LEMMA StepRequest == TypesInv /\ EnumInv /\ [Next]_vars => RequestInv'
<1> SUFFICES ASSUME TypesInv, EnumInv, [Next]_vars PROVE RequestInv' OBVIOUS
<1> USE DEF locals, Goto, Serving, Default, Setting, HasOne, Waiting, Early, TERMINATE
<1>0. qh \in QH /\ Len(qtds) \in Nat /\ RequestInv /\ RingInv /\ PlaceInv BY DEF TypesInv, EnumInv
<1>1. CASE UNCHANGED core BY <1>0, <1>1, QuietSteps
<1>2. CASE EHCI_Reset \/ EHCI_Reset_confirm \/ next_port \/ EHCI_Init_return \/ not_a_disk
  BY <1>0, <1>2 DEF EHCI_Reset, EHCI_Reset_confirm, next_port, EHCI_Init_return, not_a_disk,
     RequestInv, RingInv, Pending
<1>3. CASE EHCI_Init_start
  <2>1. qh'.next = TERMINATE /\ ~qh'.active /\ pc' = "reset" BY <1>3 DEF EHCI_Init_start, IdleQH
  <2>2. QED BY <2>1 DEF RequestInv, Pending
<1>4. CASE reset_port
  <2>1. UNCHANGED <<qh, qtds>> /\ ~Waiting /\ pc' = "reset_end" BY <1>4 DEF reset_port
  <2>2. QED BY <1>0, <2>1 DEF RequestInv, RingInv, Pending
<1>5. CASE reset_port_end
  <2>1. /\ UNCHANGED <<qh, qtds, i, dev_addr>> /\ ~Waiting /\ port[i] = Off /\ i \in Ports
        /\ port' = [port EXCEPT ![i].enabled = (device[i].speed = "high")] /\ pc' \in {"device", "next"}
    BY <1>5, PortRange DEF reset_port_end, EnumInv, CurrentInv, PlaceInv
  <2>2. port'[i].request = None
    <3>1. port'[i] = [Off EXCEPT !.enabled = (device[i].speed = "high")] BY <2>1 DEF TypesInv
    <3>2. QED BY <3>1 DEF Off
  <2>3. QED BY <1>0, <2>1, <2>2, RequestTypes DEF RequestInv, RingInv, Pending
<1>6. CASE wait_for_qh_next \/ wait_for_qh_token
  BY <1>0, <1>6 DEF wait_for_qh_next, wait_for_qh_token, RequestInv, RingInv, PlaceInv, Pending
<1>7. CASE Starting
  <2>1. PICK q \in QH, req \in Requests, data \in Buffers, w \in Nat : \E return :
          /\ q.curr <= Len(qtds) /\ ~q.active /\ Submit(q, req, data, w, return)
          /\ IF set_address THEN req = Request("SET_ADDRESS", dev_addr') /\ w = 0
                            ELSE req.bRequest # "SET_ADDRESS"
    BY <1>0, <1>7, Starts DEF Started
  <2>2. qh'.next = Len(qtds) + 1 /\ ~qh'.active BY <2>1, SubmitTypes
  <2>3. \A k \in Len(qtds) + 1..Len(qtds') : qtds'[k].req = req
    <3>1. Chained(req, data) BY <2>1, Chain
    <3>2. QED BY <3>1 DEF Chained
  <2>4. \A k \in 1..Len(qtds') : Pending(k)' => qtds'[k].req = req
    <3>1. Len(qtds') \in Nat BY <2>1, Chain
    <3>2. QED BY <1>0, <2>2, <2>3, <3>1 DEF Pending
  <2>5. CASE set_address
    <3>1. req = Request("SET_ADDRESS", dev_addr') /\ after' = "total" /\ UNCHANGED <<port, i>>
      BY <2>1, <2>5 DEF set_address, Submit
    <3>2. req.bRequest = "SET_ADDRESS" /\ req.wValue = dev_addr' BY <3>1 DEF Request
    <3>3. port[i].request.bRequest # "SET_ADDRESS" BY <1>0, <2>5 DEF set_address, RequestInv
    <3>4. ~Default' BY <3>1, <2>5 DEF set_address, Submit
    <3>5. QED BY <2>4, <3>1, <3>2, <3>3, <3>4 DEF RequestInv
  <2>6. CASE ~set_address
    <3>1. UNCHANGED <<port, i, dev_addr>> /\ Serving
      BY <1>7, <2>6 DEF Starting, get_device_descriptor, get_total_length,
         get_configuration_descriptors, set_configuration
    <3>2. Default' => Default
      BY <1>7, <2>6 DEF Starting, get_device_descriptor, get_total_length,
         get_configuration_descriptors, set_configuration, Submit
    <3>3. \A k \in 1..Len(qtds') : Pending(k)' => qtds'[k].req.bRequest # "SET_ADDRESS"
      BY <2>1, <2>4, <2>6
    <3>4. QED BY <1>0, <3>1, <3>2, <3>3 DEF RequestInv
  <2>7. QED BY <2>5, <2>6
<1>8. CASE FetchQtd
  <2>1. /\ ~qh.active /\ qh.next # TERMINATE /\ UNCHANGED <<qtds, pc, after, port, i, dev_addr>>
        /\ qh' = [qh EXCEPT !.curr = qh.next, !.next = qtds[qh.next].next, !.active = TRUE]
    BY <1>8 DEF FetchQtd
  <2>2. qh.next \in 1..Len(qtds)
        /\ qtds[qh.next].next = IF qh.next = Len(qtds) THEN TERMINATE ELSE qh.next + 1
    BY <1>0, <2>1 DEF RingInv
  <2>3. qh'.active /\ qh'.curr = qh.next
        /\ qh'.next = IF qh.next = Len(qtds) THEN TERMINATE ELSE qh.next + 1
    BY <1>0, <2>1, <2>2 DEF QH
  <2>4. \A k \in 1..Len(qtds) : Pending(k)' => Pending(k) BY <1>0, <2>1, <2>2, <2>3 DEF Pending
  <2>5. QED BY <1>0, <2>1, <2>4 DEF RequestInv
<1>9. CASE Retiring
  <2>1. /\ qh.active /\ qh.curr \in 1..Len(qtds) /\ UNCHANGED <<pc, after, i, dev_addr>>
        /\ ~qh'.active /\ qh'.next = qh.next /\ Len(qtds') = Len(qtds)
        /\ \A k \in 1..Len(qtds) : qtds'[k].req = qtds[k].req
    BY <1>0, <1>9, Retires
  <2>2. \A k \in 1..Len(qtds) : Pending(k)' => Pending(k) BY <1>0, <2>1 DEF Pending
  <2>3. \A k \in 1..Len(qtds') : Pending(k)' /\ qtds'[k].req.bRequest = "SET_ADDRESS" =>
          after' = "total" /\ qtds'[k].req.wValue = dev_addr'
    BY <1>0, <2>1, <2>2 DEF RequestInv
  <2>4. CASE HaltQh
    <3>1. UNCHANGED port BY <2>4 DEF HaltQh
    <3>2. QED BY <1>0, <2>1, <2>3, <3>1 DEF RequestInv
  <2>5. CASE ExecuteQtd
    <3>1. \/ port'[i].request = qtds[qh.curr].req
          \/ port'[i].request = port[i].request
      BY <2>5, Executes
    <3>2. Waiting /\ Pending(qh.curr) BY <2>5, Executes
    <3>3. qtds[qh.curr].req.bRequest = "SET_ADDRESS" =>
            after = "total" /\ qtds[qh.curr].req.wValue = dev_addr
      BY <1>0, <2>1, <3>2 DEF RequestInv
    <3>4. QED BY <1>0, <2>1, <2>3, <3>1, <3>2, <3>3 DEF RequestInv
  <2>6. QED BY <1>9, <2>4, <2>5 DEF Retiring
<1>10. QED BY <1>1, <1>2, <1>3, <1>4, <1>5, <1>6, <1>7, <1>8, <1>9, Steps DEF Moving

LEMMA StepSetting == TypesInv /\ EnumInv /\ [Next]_vars => SettingInv'
<1> SUFFICES ASSUME TypesInv, EnumInv, [Next]_vars PROVE SettingInv' OBVIOUS
<1> USE DEF locals, Goto, Waiting, Asked, TERMINATE
<1>0. qh \in QH /\ Len(qtds) \in Nat /\ SettingInv /\ RingInv /\ PlaceInv BY DEF TypesInv, EnumInv
<1>1. CASE UNCHANGED core BY <1>0, <1>1, QuietSteps
<1>2. CASE EHCI_Reset \/ EHCI_Reset_confirm \/ EHCI_Init_start \/ reset_port \/ reset_port_end
           \/ next_port \/ EHCI_Init_return \/ not_a_disk
  <2>1. ~Waiting'
    BY <1>2 DEF EHCI_Reset, EHCI_Reset_confirm, EHCI_Init_start, reset_port, reset_port_end,
       next_port, EHCI_Init_return, not_a_disk
  <2>2. QED BY <2>1 DEF SettingInv
<1>3. CASE wait_for_qh_next \/ wait_for_qh_token
  <2>1. Waiting /\ UNCHANGED <<qh, qtds, after, port, i, dev_addr>>
    BY <1>3 DEF wait_for_qh_next, wait_for_qh_token
  <2>2. QED BY <1>0, <2>1 DEF SettingInv
<1>4. CASE Starting
  <2>1. PICK q \in QH, req \in Requests, data \in Buffers, w \in Nat : \E return :
          /\ q.curr <= Len(qtds) /\ ~q.active /\ Submit(q, req, data, w, return)
          /\ IF set_address THEN req = Request("SET_ADDRESS", dev_addr') /\ w = 0
                            ELSE req.bRequest # "SET_ADDRESS"
    BY <1>0, <1>4, Starts DEF Started
  <2>2. CASE set_address
    <3>1. /\ Len(qtds') = Len(qtds) + 2
          /\ \A k \in Len(qtds) + 1..Len(qtds') :
              /\ qtds'[k].req = req
              /\ k = Len(qtds) + 1 => qtds'[k].pid = "SETUP"
              /\ k = Len(qtds') => qtds'[k].pid = "STATUS"
      <4>1. Len(qtds') = Len(qtds) + 2 /\ Chained(req, data) BY <2>1, <2>2, Chain
      <4>2. QED BY <4>1 DEF Chained
    <3>2. /\ qtds'[Len(qtds) + 1].pid = "SETUP" /\ qtds'[Len(qtds) + 1].req = req
          /\ qtds'[Len(qtds) + 2].pid = "STATUS"
      BY <1>0, <3>1
    <3>3. qh'.next = Len(qtds) + 1 /\ ~qh'.active BY <2>1, SubmitTypes
    <3>4. Len(qtds') - 1 = Len(qtds) + 1 /\ Len(qtds') >= 2 BY <1>0, <3>1
    <3>5. req = Request("SET_ADDRESS", dev_addr') BY <2>1, <2>2
    <3>6. QED BY <3>1, <3>2, <3>3, <3>4, <3>5 DEF SettingInv
  <2>3. CASE ~set_address
    <3>1. after' # "total"
      BY <1>4, <2>3 DEF Starting, get_device_descriptor, get_total_length,
         get_configuration_descriptors, set_configuration, Submit
    <3>2. QED BY <3>1 DEF SettingInv
  <2>4. QED BY <2>2, <2>3
<1>5. CASE FetchQtd
  <2>1. /\ ~qh.active /\ ~qh.halted /\ qh.next # TERMINATE /\ UNCHANGED <<qtds, pc, after, port, i, dev_addr>>
        /\ qh' = [qh EXCEPT !.curr = qh.next, !.next = qtds[qh.next].next, !.active = TRUE]
    BY <1>5 DEF FetchQtd
  <2>2. qh.next \in 1..Len(qtds)
        /\ qtds[qh.next].next = IF qh.next = Len(qtds) THEN TERMINATE ELSE qh.next + 1
    BY <1>0, <2>1 DEF RingInv
  <2>3. qh'.active /\ qh'.curr = qh.next
        /\ qh'.next = IF qh.next = Len(qtds) THEN TERMINATE ELSE qh.next + 1
    BY <1>0, <2>1, <2>2 DEF QH
  <2>4. QED BY <1>0, <2>1, <2>2, <2>3 DEF SettingInv
<1>6. CASE Retiring
  <2>1. /\ qh.active /\ qh.curr \in 1..Len(qtds) /\ UNCHANGED <<pc, after, i, dev_addr>>
        /\ ~qh'.active /\ qh'.next = qh.next /\ qh'.curr = qh.curr /\ Len(qtds') = Len(qtds)
        /\ HaltQh => qh'.halted
        /\ \A k \in 1..Len(qtds) : qtds'[k].req = qtds[k].req /\ qtds'[k].pid = qtds[k].pid
    BY <1>0, <1>6, Retires
  <2> SUFFICES ASSUME Waiting, after = "total" PROVE SettingInv' BY <2>1 DEF SettingInv
  <2>2. /\ Len(qtds) >= 2 /\ qtds[Len(qtds) - 1].pid = "SETUP" /\ qtds[Len(qtds)].pid = "STATUS"
        /\ qtds[Len(qtds) - 1].req = Request("SET_ADDRESS", dev_addr)
        /\ \/ qh.curr = Len(qtds) - 1 /\ qh.next = Len(qtds)
           \/ qh.curr = Len(qtds) /\ qh.next = TERMINATE /\ Asked
    BY <1>0, <2>1 DEF SettingInv
  <2>3. /\ qtds'[Len(qtds) - 1].pid = "SETUP" /\ qtds'[Len(qtds)].pid = "STATUS"
        /\ qtds'[Len(qtds) - 1].req = Request("SET_ADDRESS", dev_addr)
    BY <1>0, <2>1, <2>2
  <2>4. CASE HaltQh BY <2>1, <2>2, <2>3, <2>4 DEF SettingInv
  <2>5. CASE ExecuteQtd
    <3>1. CASE qh.curr = Len(qtds) - 1 /\ qh.next = Len(qtds)
      <4>1. port'[i].request = Request("SET_ADDRESS", dev_addr) BY <2>2, <2>5, <3>1, Executes
      <4>2. QED BY <2>1, <2>2, <2>3, <3>1, <4>1 DEF SettingInv
    <3>2. CASE qh.curr = Len(qtds) /\ qh.next = TERMINATE /\ Asked
      <4>1. port[i].request.bRequest = "SET_ADDRESS" /\ port[i].request.wValue = dev_addr
        BY <3>2 DEF Request
      <4>2. port'[i].addr = dev_addr BY <2>2, <2>5, <3>2, <4>1, Executes
      <4>3. QED BY <2>1, <2>2, <2>3, <3>2, <4>2 DEF SettingInv
    <3>3. QED BY <2>2, <3>1, <3>2
  <2>6. QED BY <1>6, <2>4, <2>5 DEF Retiring
<1>7. QED BY <1>1, <1>2, <1>3, <1>4, <1>5, <1>6, Steps DEF Moving

LEMMA StepCurrent == TypesInv /\ EnumInv /\ [Next]_vars => CurrentInv'
<1> SUFFICES ASSUME TypesInv, EnumInv, [Next]_vars PROVE CurrentInv' OBVIOUS
<1> USE DEF locals, Goto, Serving, Default, Setting, HasOne, Waiting, Early, TERMINATE
<1>0. qh \in QH /\ Len(qtds) \in Nat /\ CurrentInv /\ RingInv /\ PlaceInv BY DEF TypesInv, EnumInv
<1>1. CASE UNCHANGED core BY <1>0, <1>1, QuietSteps
<1>2. CASE EHCI_Reset \/ EHCI_Reset_confirm \/ EHCI_Init_start \/ next_port \/ EHCI_Init_return \/ not_a_disk
  <2>1. pc' \in {"confirm", "EHCI_Init", "reset", "done", "next"}
    BY <1>2 DEF EHCI_Reset, EHCI_Reset_confirm, EHCI_Init_start, next_port, EHCI_Init_return, not_a_disk
  <2>2. QED BY <2>1 DEF CurrentInv
<1>3. CASE reset_port
  <2>1. pc' = "reset_end" /\ i \in Ports /\ i' = i /\ port' = [port EXCEPT ![i] = Off]
    BY <1>3, PortRange DEF reset_port
  <2>2. port'[i] = Off BY <2>1 DEF TypesInv
  <2>3. QED BY <2>1, <2>2 DEF CurrentInv
<1>4. CASE reset_port_end
  <2>1. /\ i' = i /\ device' = device /\ port[i] = Off /\ i \in Ports
        /\ port' = [port EXCEPT ![i].enabled = (device[i].speed = "high")]
        /\ pc' = IF port'[i].enabled THEN "device" ELSE "next"
    BY <1>0, <1>4, PortRange DEF reset_port_end, CurrentInv, PlaceInv
  <2>2. port'[i] = [Off EXCEPT !.enabled = (device[i].speed = "high")] BY <2>1 DEF TypesInv
  <2>3. port'[i].addr = 0 /\ port'[i].enabled = (device[i].speed = "high") BY <2>2 DEF Off
  <2>4. QED BY <2>1, <2>3 DEF CurrentInv
<1>5. CASE wait_for_qh_next
  <2>1. pc = "wait" /\ pc' = "wait_token" /\ qh.next = TERMINATE /\ UNCHANGED <<qh, after, port, i, dev_addr, device>>
    BY <1>5 DEF wait_for_qh_next
  <2>2. QED BY <1>0, <2>1 DEF CurrentInv, Stuck
<1>6. CASE wait_for_qh_token
  <2>1. /\ pc = "wait_token" /\ pc' = (IF qh.active THEN "wait" ELSE after)
        /\ UNCHANGED <<qh, after, port, i, dev_addr, device>> /\ qh.next = TERMINATE
    BY <1>0, <1>6 DEF wait_for_qh_token, RingInv
  <2>2. after \in {"address", "total", "conf", "parse", "next"} BY <1>0, <2>1 DEF PlaceInv
  <2>3. after = "total" /\ ~qh.active => qh.halted \/ port[i].addr = dev_addr
    <3>1. SettingInv BY DEF EnumInv
    <3>2. Len(qtds) >= 2 /\ after = "total" /\ ~qh.active => Len(qtds) - 1 # qh.next /\ Len(qtds) # qh.next
      BY <1>0, <2>1
    <3>3. QED BY <2>1, <3>1, <3>2 DEF SettingInv
  <2>4. QED BY <1>0, <2>1, <2>2, <2>3 DEF CurrentInv, Stuck
<1>7. CASE get_device_descriptor
  <2>1. /\ pc = "device" /\ pc' = "wait" /\ after' = "address" /\ UNCHANGED <<port, i, dev_addr, device>>
        /\ qh' = [IdleQH EXCEPT !.next = Len(qtds) + 1]
    BY <1>7 DEF get_device_descriptor, Submit
  <2>2. qh'.addr = 0 BY <2>1 DEF IdleQH
  <2>3. QED BY <1>0, <2>1, <2>2 DEF CurrentInv
<1>8. CASE set_address
  <2>1. /\ pc = "address" /\ pc' = "wait" /\ after' = "total" /\ UNCHANGED <<port, i, device>>
        /\ qh' = [qh EXCEPT !.next = Len(qtds) + 1]
    BY <1>8 DEF set_address, Submit
  <2>2. qh'.addr = qh.addr BY <1>0, <2>1 DEF QH
  <2>3. QED BY <1>0, <2>1, <2>2 DEF CurrentInv
<1>9. CASE get_total_length
  <2>1. /\ pc = "total" /\ pc' = "wait" /\ after' = "conf" /\ UNCHANGED <<port, i, dev_addr, device>>
        /\ qh' = [[qh EXCEPT !.addr = dev_addr] EXCEPT !.next = Len(qtds) + 1]
    BY <1>9 DEF get_total_length, Submit
  <2>2. /\ qh'.addr = dev_addr /\ qh'.halted = qh.halted /\ qh'.active = qh.active /\ qh'.next = Len(qtds) + 1
    BY <1>0, <2>1 DEF QH
  <2>3. ~qh.active BY <1>0, <2>1 DEF RingInv
  <2>4. qh.halted \/ port[i].addr = dev_addr BY <1>0, <2>1 DEF CurrentInv
  <2>5. qh'.next # TERMINATE BY <1>0, <2>2
  <2>6. QED BY <1>0, <2>1, <2>2, <2>3, <2>4, <2>5 DEF CurrentInv, Stuck
<1>10. CASE get_configuration_descriptors \/ set_configuration
  <2>1. /\ pc \in {"conf", "parse"} /\ pc' = "wait" /\ after' \in {"parse", "next"}
        /\ UNCHANGED <<port, i, dev_addr, device>>
        /\ qh' = [qh EXCEPT !.next = Len(qtds) + 1]
    BY <1>10 DEF get_configuration_descriptors, set_configuration, Submit
  <2>2. qh'.addr = qh.addr BY <1>0, <2>1 DEF QH
  <2>3. QED BY <1>0, <2>1, <2>2 DEF CurrentInv, Stuck
<1>11. CASE FetchQtd
  <2>1. /\ ~qh.active /\ ~qh.halted /\ qh.next # TERMINATE /\ UNCHANGED <<pc, after, port, i, dev_addr, device>>
        /\ qh' = [qh EXCEPT !.curr = qh.next, !.next = qtds[qh.next].next, !.active = TRUE]
    BY <1>11 DEF FetchQtd
  <2>2. Waiting /\ qh'.addr = qh.addr BY <1>0, <2>1 DEF RingInv, QH
  <2>3. QED BY <1>0, <2>1, <2>2 DEF CurrentInv, Stuck
<1>12. CASE Retiring
  <2>1. /\ qh.active /\ UNCHANGED <<pc, after, i, dev_addr>> /\ qh'.addr = qh.addr
        /\ ~qh'.active /\ qh'.next = qh.next
    BY <1>0, <1>12, Retires
  <2>2. device' = device BY <1>12 DEF Retiring, ExecuteQtd, HaltQh
  <2>3. Waiting BY <1>0, <2>1 DEF RingInv
  <2>4. CASE HaltQh
    <3>1. port' = port BY <2>4 DEF HaltQh
    <3>2. QED BY <1>0, <2>1, <2>2, <2>3, <3>1 DEF CurrentInv, Stuck
  <2>5. CASE ExecuteQtd
    <3>1. /\ Serving /\ port'[i].enabled = port[i].enabled
          /\ \/ port'[i].addr = port[i].addr /\ qtds[qh.curr].pid # "STATUS"
             \/ /\ qtds[qh.curr].pid = "STATUS"
                /\ port'[i].addr = IF port[i].request.bRequest = "SET_ADDRESS"
                                    THEN port[i].request.wValue ELSE port[i].addr
      BY <2>5, Executes
    <3>2. /\ Default => port[i].request.bRequest # "SET_ADDRESS"
          /\ port[i].request.bRequest = "SET_ADDRESS" => port[i].request.wValue = dev_addr
      BY <3>1 DEF EnumInv, RequestInv
    <3>3. port'[i].addr \in {port[i].addr, dev_addr} /\ (Default => port'[i].addr = port[i].addr)
      BY <3>1, <3>2
    <3>4. Setting => port'[i].addr = port[i].addr \/ qh.next = TERMINATE
      <4>1. SettingInv BY DEF EnumInv
      <4>2. after = "total" => \/ qh.curr = Len(qtds) - 1 /\ qtds[Len(qtds) - 1].pid = "SETUP"
                               \/ qh.next = TERMINATE
        BY <2>1, <2>3, <4>1 DEF SettingInv
      <4>3. QED BY <2>3, <3>1, <4>2
    <3>5. QED BY <1>0, <2>1, <2>2, <2>3, <3>1, <3>3, <3>4 DEF CurrentInv, Stuck
  <2>6. QED BY <1>12, <2>4, <2>5 DEF Retiring
<1>13. QED BY <1>1, <1>2, <1>3, <1>4, <1>5, <1>6, <1>7, <1>8, <1>9, <1>10, <1>11, <1>12, Steps DEF Moving, Starting

LEMMA StepCount == TypesInv /\ EnumInv /\ [Next]_vars => CountInv'
<1> SUFFICES ASSUME TypesInv, EnumInv, [Next]_vars PROVE CountInv' OBVIOUS
<1> USE DEF locals, Goto, Serving, Default, Setting, HasOne, Waiting, Early
<1>0. /\ i \in 1..LastPort + 1 /\ available_address \in Nat /\ dev_addr \in Nat /\ CountInv /\ PlaceInv
      /\ LastPort \in Nat /\ LastPort <= N_PORTS /\ N_PORTS \in Nat /\ Scanned = 1..LastPort
  BY PortRange DEF TypesInv, EnumInv
<1> DEFINE C(p) == Cardinality(Fast(p))
<1>a. \A p \in 1..N_PORTS + 1 : C(p) \in Nat BY FastFacts
<1>b. C(i) \in Nat /\ (i \in Scanned => C(i + 1) \in Nat /\ C(i) <= C(i + 1))
  <2>1. i \in Scanned => i + 1 \in 1..N_PORTS + 1 /\ i <= i + 1 BY <1>0
  <2>2. QED BY <1>0, <1>a, <2>1, FastGrows
<1>c. ASSUME device' = device PROVE \A p : C(p)' = C(p) BY <1>c DEF Fast
<1> HIDE DEF C
<1>1. CASE UNCHANGED core BY <1>0, <1>1, QuietSteps
<1>d. CASE device' # device
  <2>1. device' = device
    BY Steps, <1>1, <1>d DEF Moving, Starting, Retiring, core, EHCI_Reset, EHCI_Reset_confirm, EHCI_Init_start,
       reset_port, reset_port_end, next_port, EHCI_Init_return, wait_for_qh_next, wait_for_qh_token,
       not_a_disk, get_device_descriptor, set_address, get_total_length, get_configuration_descriptors,
       set_configuration, FetchQtd, ExecuteQtd, HaltQh
  <2>2. QED BY <1>d, <2>1
<1> SUFFICES ASSUME device' = device PROVE CountInv' BY <1>d
<1>e. \A p : C(p)' = C(p) BY <1>c
<1>f. /\ pc \in Early => available_address = 0
      /\ pc \notin Early => available_address >= 1
      /\ Setting \/ HasOne => dev_addr = available_address - 1 /\ dev_addr >= 1
      /\ available_address <= C(IF Setting \/ HasOne \/ pc = "next" THEN i + 1 ELSE i) + 1
  BY <1>0 DEF CountInv, C
<1>g. ASSUME /\ pc' \in Early => available_address' = 0
             /\ pc' \notin Early => available_address' >= 1
             /\ Setting' \/ HasOne' => dev_addr' = available_address' - 1 /\ dev_addr' >= 1
             /\ available_address' <= C(IF Setting' \/ HasOne' \/ pc' = "next" THEN i' + 1 ELSE i') + 1
      PROVE  CountInv'
  <2>1. \A p : Cardinality(Fast(p)') = C(p) BY <1>e DEF C
  <2>2. QED BY <1>g, <1>e DEF CountInv, C
<1>2. CASE EHCI_Reset \/ EHCI_Reset_confirm \/ EHCI_Init_return
  BY <1>2, <1>f, <1>g DEF EHCI_Reset, EHCI_Reset_confirm, EHCI_Init_return
<1>3. CASE EHCI_Init_start
  <2>1. pc' = "reset" /\ i' = 1 /\ available_address' = 1 BY <1>3 DEF EHCI_Init_start
  <2>2. C(1) \in Nat BY <1>0, <1>a
  <2>3. QED BY <1>g, <2>1, <2>2
<1>4. CASE reset_port \/ reset_port_end
  <2>1. /\ pc \in {"reset", "reset_end"} /\ pc' \in {"reset_end", "device", "next"}
        /\ UNCHANGED <<available_address, dev_addr, i>> /\ i \in Scanned
    BY <1>0, <1>4 DEF reset_port, reset_port_end, PlaceInv
  <2>2. QED BY <1>0, <1>b, <1>f, <1>g, <2>1
<1>5. CASE next_port
  <2>1. pc = "next" /\ pc' = "reset" /\ i' = i + 1 /\ UNCHANGED <<available_address, dev_addr>>
    BY <1>5 DEF next_port
  <2>2. QED BY <1>f, <1>g, <2>1
<1>6. CASE not_a_disk
  <2>1. pc = "parse" /\ pc' = "next" /\ UNCHANGED <<available_address, dev_addr, i>> BY <1>6 DEF not_a_disk
  <2>2. QED BY <1>f, <1>g, <2>1
<1>7. CASE wait_for_qh_next \/ wait_for_qh_token
  <2>1. /\ Waiting /\ pc' \in {"wait", "wait_token", after}
        /\ UNCHANGED <<available_address, dev_addr, i, after>>
    BY <1>7 DEF wait_for_qh_next, wait_for_qh_token
  <2>2. after \in {"address", "total", "conf", "parse", "next"} BY <1>0, <2>1 DEF PlaceInv
  <2>3. QED BY <1>f, <1>g, <2>1, <2>2
<1>8. CASE get_device_descriptor
  <2>1. pc = "device" /\ pc' = "wait" /\ after' = "address" /\ UNCHANGED <<available_address, dev_addr, i>>
    BY <1>8 DEF get_device_descriptor, Submit
  <2>2. QED BY <1>f, <1>g, <2>1
<1>9. CASE set_address
  <2>1. /\ pc = "address" /\ pc' = "wait" /\ after' = "total" /\ i' = i
        /\ dev_addr' = available_address /\ available_address' = available_address + 1
    BY <1>9 DEF set_address, Submit
  <2>2. i \in Scanned /\ device[i].speed = "high" BY <2>1 DEF EnumInv, CurrentInv, PlaceInv
  <2>3. C(i + 1) = C(i) + 1 BY <2>2, FastNext DEF C
  <2>4. QED BY <1>0, <1>b, <1>f, <1>g, <2>1, <2>3
<1>10. CASE get_total_length \/ get_configuration_descriptors \/ set_configuration
  <2>1. /\ pc \in {"total", "conf", "parse"} /\ pc' = "wait" /\ after' \in {"conf", "parse", "next"}
        /\ UNCHANGED <<available_address, dev_addr, i>>
    BY <1>10 DEF get_total_length, get_configuration_descriptors, set_configuration, Submit
  <2>2. QED BY <1>f, <1>g, <2>1
<1>11. CASE FetchQtd \/ Retiring
  <2>1. UNCHANGED <<pc, after, available_address, dev_addr, i>>
    BY <1>11 DEF FetchQtd, Retiring, ExecuteQtd, HaltQh
  <2>2. QED BY <1>f, <1>g, <2>1
<1>12. QED BY <1>1, <1>2, <1>3, <1>4, <1>5, <1>6, <1>7, <1>8, <1>9, <1>10, <1>11, Steps DEF Moving, Starting

LEMMA StepAhead == TypesInv /\ EnumInv /\ [Next]_vars => AheadInv'
<1> SUFFICES ASSUME TypesInv, EnumInv, [Next]_vars PROVE AheadInv' OBVIOUS
<1> USE DEF locals, Goto, Early
<1>0. i \in 1..N_PORTS + 1 /\ N_PORTS \in Nat /\ Ports = 1..N_PORTS /\ Scanned \subseteq Ports /\ port \in [Ports -> PORT] /\ PlaceInv
  BY PortRange DEF TypesInv, EnumInv
<1>1. CASE UNCHANGED core BY <1>1, QuietSteps DEF EnumInv
<1>2. ASSUME \A p \in Ports : Ahead(p)' => Ahead(p) /\ port'[p] = port[p] PROVE AheadInv'
  BY <1>2 DEF EnumInv, AheadInv
<1>3. CASE EHCI_Reset \/ EHCI_Reset_confirm
  BY <1>2, <1>3 DEF EHCI_Reset, EHCI_Reset_confirm, Ahead
<1>4. CASE EHCI_Init_start
  <2>1. pc = "EHCI_Init" /\ i' = 1 /\ port' = port /\ i = 1 BY <1>0, <1>4 DEF EHCI_Init_start, PlaceInv
  <2>2. QED BY <1>0, <1>2, <2>1 DEF Ahead
<1>5. CASE reset_port
  <2>1. /\ pc = "reset" /\ pc' = "reset_end" /\ i' = i /\ port' = [port EXCEPT ![i] = Off] BY <1>5 DEF reset_port
  <2>2. QED BY <1>0, <1>2, <2>1 DEF Ahead
<1>6. CASE reset_port_end
  <2>1. /\ pc' \in {"device", "next"} /\ i' = i /\ port' = [port EXCEPT ![i].enabled = (device[i].speed = "high")]
    BY <1>6 DEF reset_port_end
  <2>2. QED BY <1>0, <1>2, <2>1 DEF Ahead
<1>7. CASE next_port
  <2>1. pc' = "reset" /\ i' = i + 1 /\ port' = port BY <1>7 DEF next_port
  <2>2. QED BY <1>0, <1>2, <2>1 DEF Ahead
<1>8. CASE \/ EHCI_Init_return \/ not_a_disk \/ Starting \/ wait_for_qh_next \/ wait_for_qh_token
  <2>1. i' = i /\ port' = port
    BY <1>8 DEF EHCI_Init_return, not_a_disk, Starting, get_device_descriptor, set_address, get_total_length,
       get_configuration_descriptors, set_configuration, wait_for_qh_next, wait_for_qh_token
  <2>2. pc' \notin Early \cup {"reset"} /\ (pc' = "done" => pc = "reset")
    BY <1>0, <1>8 DEF EHCI_Init_return, not_a_disk, Starting, get_device_descriptor, set_address, get_total_length,
       get_configuration_descriptors, set_configuration, wait_for_qh_next, wait_for_qh_token, Submit,
       PlaceInv, Serving, Default, Setting, HasOne, Waiting
  <2>3. QED BY <1>2, <2>1, <2>2 DEF Ahead
<1>9. CASE FetchQtd \/ HaltQh BY <1>2, <1>9 DEF FetchQtd, HaltQh, Ahead
<1>10. CASE ExecuteQtd
  <2>1. Waiting /\ (\A p \in Ports : p # i => port'[p] = port[p]) BY <1>10, Executes DEF EnumInv
  <2>2. i' = i /\ pc' = pc BY <1>10 DEF ExecuteQtd
  <2>3. QED BY <1>0, <1>2, <2>1, <2>2 DEF Ahead, Waiting
<1>11. QED BY <1>1, <1>3, <1>4, <1>5, <1>6, <1>7, <1>8, <1>9, <1>10, Steps DEF Moving, Retiring

LEMMA StepGiven == TypesInv /\ EnumInv /\ [Next]_vars => GivenInv'
<1> SUFFICES ASSUME TypesInv, EnumInv, [Next]_vars PROVE GivenInv' OBVIOUS
<1> USE DEF locals, Goto, Serving, Default, Setting, HasOne, Waiting
<1>0. /\ i \in 1..N_PORTS + 1 /\ N_PORTS \in Nat /\ Ports = 1..N_PORTS /\ Scanned \subseteq Ports /\ port \in [Ports -> PORT]
      /\ available_address \in Nat /\ dev_addr \in Nat
      /\ PlaceInv /\ CurrentInv /\ CountInv /\ RingInv
  BY PortRange DEF TypesInv, EnumInv
<1>a. \A p \in Ports : port[p].addr \in 0..127 BY <1>0 DEF PORT
<1>1. CASE UNCHANGED core BY <1>1, QuietSteps DEF EnumInv
\* Nothing is new,
<1>2. ASSUME \A p \in Ports : Given(p)' => Given(p) /\ port'[p] = port[p], Fresh' = Fresh PROVE GivenInv'
  BY <1>2 DEF EnumInv, GivenInv
\* or the driver is through with a device that has the address it was given.
<1>3. ASSUME HasOne, port[i].addr = dev_addr, pc' = "next", UNCHANGED <<port, i, dev_addr, available_address>>
      PROVE  GivenInv'
  <2>1. dev_addr = available_address - 1 /\ dev_addr >= 1 BY <1>0, <1>3 DEF CountInv
  <2>2. Fresh = dev_addr /\ Fresh' = available_address BY <1>3 DEF Fresh
  <2>3. \A p \in Ports : Given(p)' => p = i \/ Given(p) BY <1>3 DEF Given
  <2>4. \A p \in Ports : Given(p) /\ port[p].enabled => port[p].addr \in 1..dev_addr - 1
    BY <2>2 DEF EnumInv, GivenInv
  <2>5. \A p \in Ports : Given(p)' /\ port[p].enabled =>
          port[p].addr \in 1..available_address - 1 /\ (port[p].addr = dev_addr => p = i)
    <3>1. TAKE p \in Ports
    <3>2. CASE p = i BY <1>0, <1>3, <2>1, <3>2
    <3>3. CASE p # i BY <1>0, <2>1, <2>3, <2>4, <3>3
    <3>4. QED BY <3>2, <3>3
  <2>6. \A p, r \in Ports : Given(p)' /\ Given(r)' /\ port[p].enabled /\ port[r].enabled
                              /\ port[p].addr = port[r].addr => p = r
    BY <1>3, <2>3, <2>5 DEF EnumInv, GivenInv
  <2>7. QED BY <1>3, <2>2, <2>5, <2>6 DEF GivenInv
<1>4. CASE EHCI_Reset \/ EHCI_Reset_confirm \/ EHCI_Init_return
  <2>1. pc \in Early \cup {"reset"} /\ pc' \in {"confirm", "EHCI_Init", "done"}
        /\ UNCHANGED <<i, port, dev_addr, available_address>>
    BY <1>4 DEF EHCI_Reset, EHCI_Reset_confirm, EHCI_Init_return, Early
  <2>2. QED BY <1>2, <2>1 DEF Given, Fresh, Early
<1>5. CASE EHCI_Init_start
  <2>1. i' = 1 /\ pc' = "reset" BY <1>5 DEF EHCI_Init_start
  <2>2. \A p \in Ports : ~Given(p)' BY <1>0, <2>1 DEF Given
  <2>3. QED BY <2>2 DEF GivenInv
<1>6. CASE reset_port
  <2>1. /\ pc = "reset" /\ pc' = "reset_end" /\ port' = [port EXCEPT ![i] = Off]
        /\ UNCHANGED <<i, dev_addr, available_address>>
    BY <1>6 DEF reset_port
  <2>2. QED BY <1>0, <1>2, <2>1 DEF Given, Fresh
<1>7. CASE reset_port_end
  <2>1. /\ pc = "reset_end" /\ port' = [port EXCEPT ![i].enabled = (device[i].speed = "high")]
        /\ pc' = IF port'[i].enabled THEN "device" ELSE "next"
        /\ UNCHANGED <<i, dev_addr, available_address>>
    BY <1>7 DEF reset_port_end
  <2>2. Fresh' = Fresh /\ \A p \in Ports : p < i => port'[p] = port[p] BY <1>0, <2>1 DEF Fresh
  <2>3. \A p \in Ports : Given(p)' /\ port'[p].enabled => p < i
    BY <1>0, <2>1 DEF Given
  <2>4. \A p \in Ports : Given(p)' /\ port'[p].enabled => Given(p) /\ port'[p] = port[p]
    BY <2>2, <2>3 DEF Given
  <2>5. QED BY <2>2, <2>4 DEF EnumInv, GivenInv
<1>8. CASE next_port
  <2>1. pc = "next" /\ pc' = "reset" /\ i' = i + 1 /\ UNCHANGED <<port, dev_addr, available_address>>
    BY <1>8 DEF next_port
  <2>2. \A p \in Ports : Given(p)' => Given(p) BY <1>0, <2>1 DEF Given
  <2>3. QED BY <1>2, <2>1, <2>2 DEF Fresh
<1>9. CASE wait_for_qh_next \/ wait_for_qh_token
  <2>1. /\ Waiting /\ (pc' \in {"wait", "wait_token"} \/ (pc = "wait_token" /\ pc' = after))
        /\ UNCHANGED <<port, i, dev_addr, available_address, after>>
    BY <1>9 DEF wait_for_qh_next, wait_for_qh_token
  <2>2. after \in {"address", "total", "conf", "parse", "next"} BY <1>0, <2>1 DEF PlaceInv, Early
  <2>3. CASE pc' = "next"
    <3>1. HasOne /\ port[i].addr = dev_addr BY <1>0, <2>1, <2>2, <2>3 DEF CurrentInv, Stuck
    <3>2. QED BY <1>3, <2>1, <2>3, <3>1
  <2>4. CASE pc' # "next" BY <1>2, <2>1, <2>2, <2>4 DEF Given, Fresh
  <2>5. QED BY <2>3, <2>4
<1>10. CASE not_a_disk
  <2>1. pc = "parse" /\ pc' = "next" /\ UNCHANGED <<port, i, dev_addr, available_address>> BY <1>10 DEF not_a_disk
  <2>2. port[i].addr = dev_addr BY <1>0, <2>1 DEF CurrentInv, Stuck
  <2>3. QED BY <1>3, <2>1, <2>2
<1>11. CASE Starting
  <2>1. /\ pc' = "wait" /\ UNCHANGED <<port, i>>
        /\ \/ pc = "device" /\ after' = "address" /\ UNCHANGED <<dev_addr, available_address>>
           \/ pc = "address" /\ after' = "total" /\ dev_addr' = available_address
           \/ /\ pc \in {"total", "conf", "parse"} /\ after' \in {"conf", "parse", "next"}
              /\ UNCHANGED dev_addr
    BY <1>11 DEF Starting, get_device_descriptor, set_address, get_total_length,
       get_configuration_descriptors, set_configuration, Submit
  <2>2. QED BY <1>2, <2>1 DEF Given, Fresh
<1>12. CASE FetchQtd \/ HaltQh BY <1>2, <1>12 DEF FetchQtd, HaltQh, Given, Fresh
<1>13. CASE ExecuteQtd
  <2>1. \A p \in Ports : p # i => port'[p] = port[p] BY <1>13, Executes DEF EnumInv
  <2>2. Waiting BY <1>13, Executes DEF EnumInv
  <2>3. UNCHANGED <<pc, after, i, dev_addr, available_address>> BY <1>13 DEF ExecuteQtd
  <2>4. QED BY <1>0, <1>2, <2>1, <2>2, <2>3 DEF Given, Fresh
<1>14. QED BY <1>1, <1>4, <1>5, <1>6, <1>7, <1>8, <1>9, <1>10, <1>11, <1>12, <1>13, Steps DEF Moving, Retiring

-----------------------------------------------------------------------------
(* All of it together.                                                      *)

LEMMA InitEnum == Init => EnumInv
<1> SUFFICES ASSUME Init PROVE EnumInv OBVIOUS
<1>1. /\ pc = "EHCI_Reset" /\ after = "done" /\ i = 1 /\ available_address = 0 /\ qtds = <<>>
      /\ qh = IdleQH /\ 1 \in Ports /\ N_PORTS \in Nat
  BY PortRange DEF Init
<1> USE DEF Serving, Default, Setting, HasOne, Waiting, Early
<1>2. PlaceInv BY <1>1, PortRange DEF PlaceInv
<1>3. qh.next = TERMINATE /\ ~qh.active /\ Len(qtds) = 0 BY <1>1 DEF IdleQH
<1>4. RingInv /\ RequestInv /\ SettingInv BY <1>1, <1>3 DEF RingInv, RequestInv, SettingInv, Pending
<1>5. CountInv
  <2>1. Cardinality(Fast(1)) \in Nat BY <1>1, FastFacts
  <2>2. QED BY <1>1, <2>1 DEF CountInv
<1>6. AheadInv
  <2>1. \A p \in Ports : port[p].enabled => \E a \in BiosAddresses : port[p] = Left(a)
    BY DEF Init, Off
  <2>2. \A a \in BiosAddresses : Left(a).addr = a /\ a \in 1..127 BY EnumAssumption DEF Left
  <2>3. \A p \in Ports : port[p].enabled => port[p].addr >= 1 BY <2>1, <2>2
  <2>4. QED BY <2>3 DEF AheadInv, Init
<1>7. GivenInv
  <2>1. \A p \in Ports : ~Given(p) BY <1>1, PortRange DEF Given
  <2>2. QED BY <2>1 DEF GivenInv
<1>8. CurrentInv BY <1>1 DEF CurrentInv
<1>9. QED BY <1>2, <1>4, <1>5, <1>6, <1>7, <1>8 DEF EnumInv

LEMMA EnumHolds == FairSpec => [](TypesInv /\ EnumInv)
<1>1. Init => TypesInv /\ EnumInv BY InitTypes, InitEnum
<1>2. TypesInv /\ EnumInv /\ [Next]_vars => TypesInv' /\ EnumInv'
  <2>1. EnumInv => PlaceInv BY DEF EnumInv
  <2>2. TypesInv /\ EnumInv /\ [Next]_vars => EnumInv'
    <3>1. EnumInv' <=> /\ PlaceInv' /\ RingInv' /\ RequestInv' /\ SettingInv'
                       /\ CountInv' /\ AheadInv' /\ GivenInv' /\ CurrentInv'
      BY DEF EnumInv
    <3>2. QED BY <2>1, <3>1, StepPlace, StepRing, StepRequest, StepSetting, StepCount, StepAhead, StepGiven,
                 StepCurrent
  <2>3. QED BY <2>2, StepTypes
<1>3. QED BY <1>1, <1>2, PTL DEF FairSpec

\* Every variable keeps its type: there is an address left whenever one is
\* given, and the endpoint numbers fit the four bits they are given in the
\* bulk queue heads (ehci.c:732-739).
THEOREM EnumTypesHold == FairSpec => []TypeOK
<1>1. TypesInv /\ EnumInv => TypeOK
  <2> SUFFICES ASSUME TypesInv, EnumInv PROVE TypeOK OBVIOUS
  <2>1. semaphores \in BOOLEAN \X BOOLEAN BY Zenon DEF TypesInv, semaphores
  <2>2. \A p \in Ports : port[p].enabled \in BOOLEAN /\ port[p].addr \in 0..127
    <3>1. ASSUME NEW p \in Ports PROVE port[p] \in PORT BY DEF TypesInv
    <3>2. QED BY <3>1 DEF PORT
  <2>3. qh.addr \in 0..127 /\ qh.next \in 0..Len(qtds) /\ qh.curr \in 0..Len(qtds) BY DEF TypesInv, QH
  <2>4. /\ ehci_msb_internals.addr \in 0..LastPort
        /\ ehci_msb_internals.in \in 0..15 /\ ehci_msb_internals.out \in 0..15
    BY DEF TypesInv, DISK
  <2>5. QED BY <2>1, <2>2, <2>3, <2>4 DEF TypeOK, TypesInv
<1>2. QED BY <1>1, EnumHolds, PTL

\* When wait_for_qh returns the controller has retired every qTD: the driver
\* touches the queue head and the buffers only then (ehci.c: wait_for_qh).
THEOREM WaitedLongEnough == FairSpec => []TransactionsComplete
<1>1. TypesInv /\ EnumInv => TransactionsComplete
  <2> SUFFICES ASSUME TypesInv, EnumInv, ~Waiting PROVE \A n \in DOMAIN qtds : ~qtds[n].active
    BY DEF TransactionsComplete, Waiting
  <2>1. DOMAIN qtds = 1..Len(qtds) BY DEF TypesInv
  <2>2. ~qh.active /\ qh.next = TERMINATE BY DEF EnumInv, RingInv
  <2>3. \A n \in 1..Len(qtds) : qtds[n].active => Pending(n) BY DEF EnumInv, RingInv
  <2>4. QED BY <2>1, <2>2, <2>3 DEF Pending
<1>2. QED BY <1>1, EnumHolds, PTL

\* No two of the devices the driver has reset answer to the same address, and
\* neither does one it has not, except where the BIOS has given that one an
\* address that the driver comes to before the port (ehci.c:593-662).
THEOREM NoAddressTwice == FairSpec => []AddressesUnique
<1>1. TypesInv /\ EnumInv => AddressesUnique
  <2> SUFFICES ASSUME TypesInv, EnumInv, NEW p \in Ports, NEW r \in Ports,
                      p < r, port[p].enabled, port[r].enabled, port[p].addr = port[r].addr
               PROVE  (r > i \/ (r = i /\ pc \in {"reset", "done"})) /\ OutOfOrder(r)
    BY DEF AddressesUnique
  <2> USE DEF Serving
  <2>a. \A q \in Ports : port[q].addr \in Nat
    <3>1. TAKE q \in Ports
    <3>2. port[q].addr \in 0..127 BY DEF TypesInv, PORT
    <3>3. QED BY <3>2
  <2>0. /\ i \in 1..N_PORTS + 1 /\ N_PORTS \in Nat /\ Ports = 1..N_PORTS /\ Scanned \subseteq Ports
        /\ available_address \in Nat /\ dev_addr \in Nat /\ port[p].addr \in Nat /\ port[r].addr \in Nat
        /\ PlaceInv /\ CurrentInv /\ CountInv /\ AheadInv /\ GivenInv
    BY <2>a, PortRange DEF TypesInv, EnumInv
  <2>1. ~(Ahead(p) /\ Ahead(r)) /\ ~(Given(p) /\ Given(r)) BY <2>0 DEF AheadInv, GivenInv
  <2>2. pc \notin Early BY <2>0, <2>1 DEF Ahead, PlaceInv
  <2>3. ASSUME NEW s \in Ports, ~Ahead(s), ~Given(s), port[s].enabled
        PROVE  /\ s = i /\ Serving
               /\ port[s].addr \in {0, dev_addr} /\ (Default => port[s].addr = 0)
    <3>1. s = i /\ pc \notin {"next", "reset", "done"} BY <2>0, <2>3 DEF Ahead, Given
    <3>2. pc # "reset_end" BY <2>0, <2>3, <3>1 DEF CurrentInv, Off
    <3>3. Serving BY <2>0, <2>2, <3>1, <3>2 DEF PlaceInv
    <3>4. QED BY <2>0, <3>1, <3>3 DEF CurrentInv
  <2>4. Ahead(r)
    <3> SUFFICES ASSUME ~Ahead(r) PROVE FALSE OBVIOUS
    <3>1. CASE Given(r)
      <4>1. Given(p) BY <2>0, <3>1 DEF Given
      <4>2. QED BY <2>1, <3>1, <4>1
    <3>2. CASE ~Given(r)
      <4>1. r = i /\ Serving /\ port[r].addr \in {0, dev_addr} /\ (Default => port[r].addr = 0) BY <2>3, <3>2
      <4>2. Given(p) BY <2>0, <4>1 DEF Given
      <4>3. port[p].addr \in 1..Fresh - 1 BY <2>0, <4>2 DEF GivenInv
      <4>4. port[r].addr = dev_addr /\ (Setting \/ HasOne) BY <2>0, <4>1, <4>3 DEF Fresh
      <4>5. QED BY <2>0, <4>3, <4>4 DEF Fresh
    <3>3. QED BY <3>1, <3>2
  <2>5. r > i \/ (r = i /\ pc \in {"reset", "done"}) BY <2>2, <2>4 DEF Ahead
  <2>6. Cardinality(Fast(r)) \in Nat BY <2>0, FastFacts
  <2>7. ASSUME NEW k \in 1..N_PORTS + 1, k <= r PROVE Cardinality(Fast(k)) <= Cardinality(Fast(r))
    BY <2>0, <2>7, FastGrows
  <2>8. port[r].addr >= 1 BY <2>0, <2>4 DEF AheadInv
  <2>9. available_address - 1 <= Cardinality(Fast(r))
    <3>1. CASE Setting \/ HasOne \/ pc = "next"
      <4>1. r > i BY <2>5, <3>1 DEF Setting, HasOne, Waiting
      <4>2. i + 1 \in 1..N_PORTS + 1 /\ i + 1 <= r BY <2>0, <4>1
      <4>3. available_address <= Cardinality(Fast(i + 1)) + 1 BY <2>0, <3>1 DEF CountInv
      <4>4. Cardinality(Fast(i + 1)) \in Nat BY <4>2, FastFacts
      <4>5. QED BY <2>0, <2>6, <2>7, <4>2, <4>3, <4>4
    <3>2. CASE ~(Setting \/ HasOne \/ pc = "next")
      <4>1. available_address <= Cardinality(Fast(i)) + 1 BY <2>0, <3>2 DEF CountInv
      <4>2. i <= r /\ Cardinality(Fast(i)) \in Nat BY <2>0, <2>5, FastFacts
      <4>3. QED BY <2>0, <2>6, <2>7, <4>1, <4>2
    <3>3. QED BY <3>1, <3>2
  <2>10. port[p].addr <= available_address - 1
    <3>1. CASE Given(p)
      <4>1. port[p].addr \in 1..Fresh - 1 BY <2>0, <3>1 DEF GivenInv
      <4>2. Fresh \in {available_address - 1, available_address} BY <2>0 DEF Fresh, CountInv
      <4>3. QED BY <2>0, <4>1, <4>2
    <3>2. CASE ~Given(p)
      <4>1. Serving /\ port[p].addr \in {0, dev_addr} /\ (Default => port[p].addr = 0)
        BY <2>1, <2>3, <2>4, <3>2
      <4>2. Setting \/ HasOne BY <2>8, <4>1
      <4>3. dev_addr = available_address - 1 BY <2>0, <4>2 DEF CountInv
      <4>4. QED BY <2>0, <2>8, <4>1, <4>3
    <3>3. QED BY <3>1, <3>2
  <2>11. port[r].addr \in 1..Cardinality(Fast(r))
    <3>0. port[r].addr \in Nat BY <2>0
    <3>1. port[r].addr <= available_address - 1 BY <2>10
    <3>2. ASSUME NEW a \in Nat, NEW b \in Nat, NEW c \in Nat, a >= 1, a <= b - 1, b - 1 <= c
          PROVE  a \in 1..c
      BY <3>2
    <3>3. QED BY <2>0, <2>6, <2>8, <2>9, <3>0, <3>1, <3>2
  <2>12. QED BY <2>5, <2>11 DEF OutOfOrder, Fast
<1>2. QED BY <1>1, EnumHolds, PTL

-----------------------------------------------------------------------------
(* What the devices tell, and what the driver makes of it.                  *)

Length(p)   == Conf(p)[1].wTotalLength
AllTruthful == \A p \in Served : Truthful(p)

\* The qTD whose turn it is.
Turn == IF qh.active THEN qh.curr ELSE IF qh.next # TERMINATE THEN qh.next ELSE Len(qtds) + 1

TurnInv == ~qh.halted
           /\ (qh.active => qh.next = IF qh.curr = Len(qtds) THEN TERMINATE ELSE qh.curr + 1)

\* The last n qTDs are the transaction of this request.
Before(n) == Len(qtds) - n
Shape(n, req, data) ==
  /\ n \in Nat \ {0} /\ n <= Len(qtds)
  /\ \A k \in Before(n) + 1..Len(qtds) :
       /\ qtds[k].req = req /\ qtds[k].data = data /\ qtds[k].packet = k - Before(n) - 1
       /\ qtds[k].pid = IF k = Before(n) + 1 THEN "SETUP" ELSE IF k = Len(qtds) THEN "STATUS" ELSE "DATA"

\* What has arrived by now: the length,
LengthInv == Waiting /\ after = "conf" =>
  /\ Shape(3, Request("GET_CONFIGURATION", 0), "devDesc_conf")
  /\ Turn > Before(3) + 2 => devDesc_conf = Length(i)

\* the descriptors of the packets so far,
Filling(n) ==
  /\ Shape(n, Request("GET_CONFIGURATION", 0), "confBuffer")
  /\ \A m \in 1..Len(confBuffer), k \in 1..n - 2 :
       m <= k * PacketSize /\ Turn > Before(n) + 1 + k => confBuffer[m] = Conf(i)[m]
FillInv == Waiting /\ after = "parse" =>
  /\ Len(confBuffer) = Length(i) /\ Filling(Packets(Length(i)))
  /\ confBuffer_ptr = 2 /\ last_interfaceDesc = 0

\* and at the device, the configuration to take.
Choosing(v) ==
  /\ Shape(2, Request("SET_CONFIGURATION", v), "none")
  /\ Turn > Before(2) + 1 => port[i].request = Request("SET_CONFIGURATION", v)
  /\ Turn > Before(2) + 2 => port[i].configuration = v
SetInv == Waiting /\ after = "next" => Choosing(Conf(i)[1].bConfigurationValue)

BufferInv ==
  /\ pc = "conf" => devDesc_conf = Length(i)
  /\ pc = "parse" => Len(confBuffer) = Length(i) /\ \A n \in 1..Length(i) : confBuffer[n] = Conf(i)[n]

\* The parser has the last interface in front of it.
ParseInv == pc = "parse" =>
  /\ confBuffer_ptr >= 2
  /\ last_interfaceDesc # 0 => /\ last_interfaceDesc \in 2..Length(i)
                               /\ last_interfaceDesc < confBuffer_ptr
                               /\ Conf(i)[last_interfaceDesc].type = "interface"
  /\ \A n \in 2..Length(i) : Conf(i)[n].type = "interface" /\ n < confBuffer_ptr => n <= last_interfaceDesc

\* The places the parser is through with, and what the result says of them: the
\* last of the places A is one of those, V, whose numbers it has.
Passed  == pc = "next" \/ (Waiting /\ after = "next")
Seen(x) == x[1] < i \/ (x[1] = i /\ (Passed \/ (pc = "parse" /\ x[2] < confBuffer_ptr)))
Behind  == {x \in Places : Seen(x)}
Shown(A, V, nothing) == (A = {} /\ nothing) \/ \E x \in V : IsLast(x, A)

NumberOf == {x \in Places : ehci_msb_internals.nr = At(x).bInterfaceNumber}
InputOf  == {x \in Places : /\ ehci_msb_internals.in = At(x).bEndpointAddress % 16
                            /\ ehci_msb_internals.s_in = At(x).wMaxPacketSize}
OutputOf == {x \in Places : /\ ehci_msb_internals.out = At(x).bEndpointAddress % 16
                            /\ ehci_msb_internals.s_out = At(x).wMaxPacketSize}
NumberInv == Shown(Interfaces \cap Behind, NumberOf, ehci_msb_internals.nr = 0)
InputInv  == Shown(Inputs \cap Behind, InputOf, ehci_msb_internals.in = 0 /\ ehci_msb_internals.s_in = 0)
OutputInv == Shown(Outputs \cap Behind, OutputOf, ehci_msb_internals.out = 0 /\ ehci_msb_internals.s_out = 0)
ShownInv == NumberInv /\ InputInv /\ OutputInv

\* The address is that of the last disk in front of port q, if there is one.
Taken(p) == /\ port[p].enabled /\ port[p].addr = ehci_msb_internals.addr
            /\ port[p].configuration = Conf(p)[1].bConfigurationValue
LastDisk(q) == \/ (\A p \in Disks : p >= q) /\ ehci_msb_internals.addr = 0
               \/ \E p \in Disks : p < q /\ (\A r \in Disks : r < q => r <= p) /\ Taken(p)

Through == IF pc = "next" THEN i + 1 ELSE i
Sending == Waiting /\ after = "next"
ResultInv ==
  /\ ~Sending => LastDisk(Through)
  /\ Sending => i \in Disks /\ ehci_msb_internals.addr = dev_addr

\* With no packet lost and devices that tell the truth.
CleanInv == /\ TurnInv /\ LengthInv /\ FillInv /\ SetInv /\ BufferInv /\ ParseInv
            /\ ShownInv /\ ResultInv
DiskInv  == errors \in Nat /\ (errors = 0 /\ AllTruthful => CleanInv)

LEMMA ConfFacts ==
  ASSUME AllTruthful, TypesInv, NEW p \in Scanned, device[p].speed = "high"
  PROVE  /\ p \in Served /\ p \in Ports
         /\ DOMAIN Conf(p) = 1..Length(p) /\ Len(Conf(p)) = Length(p) /\ Length(p) \in Nat /\ Length(p) >= 1
         /\ \A n \in 1..Length(p) : WellFormed(Conf(p)[n])
         /\ \A n, m \in 1..Length(p) :
              Conf(p)[n].type = "cs_interface" /\ Conf(p)[m].type = "interface" /\ n < m =>
                n + Conf(p)[n].wTotalLength <= m
<1>1. p \in Served /\ p \in Ports BY PortRange DEF Served
<1>2. Truthful(p) BY <1>1 DEF AllTruthful
<1>3. Conf(p) \in Seq(Descriptors) /\ Conf(p) # << >> /\ Length(p) = Len(Conf(p)) BY <1>2 DEF Truthful, Length
<1>4. DOMAIN Conf(p) = 1..Length(p) /\ Length(p) \in Nat BY <1>3
<1>5. Length(p) >= 1 BY <1>3, <1>4
<1>6. \A n \in 1..Length(p) : WellFormed(Conf(p)[n])
  <2>1. \A n \in 1..Length(p) : Conf(p)[n] \in Descriptors BY <1>3, <1>4
  <2>2. QED BY <2>1, DescriptorTypes
<1>7. \A n, m \in 1..Length(p) :
        Conf(p)[n].type = "cs_interface" /\ Conf(p)[m].type = "interface" /\ n < m =>
          n + Conf(p)[n].wTotalLength <= m
  BY <1>2, <1>4 DEF Truthful
<1>8. QED BY <1>1, <1>3, <1>4, <1>5, <1>6, <1>7

\* A place is a descriptor behind the first of a device that is served.
LEMMA PlaceFacts ==
  ASSUME AllTruthful, TypesInv
  PROVE  /\ \A x \in Places : x[1] \in Served /\ x[1] \in Scanned /\ x[2] \in 2..Length(x[1])
                              /\ x = <<x[1], x[2]>> /\ x[1] \in Nat /\ x[2] \in Nat
         /\ \A p \in Served : \A n \in 2..Length(p) : <<p, n>> \in Places
<1>1. \A p \in Served : p \in Scanned /\ Len(Conf(p)) = Length(p) /\ Length(p) \in Nat BY ConfFacts DEF Served
<1>2. ASSUME NEW x \in Places
      PROVE  x[1] \in Served /\ x[1] \in Scanned /\ x[2] \in 2..Length(x[1]) /\ x = <<x[1], x[2]>>
             /\ x[1] \in Nat /\ x[2] \in Nat
  <2>1. PICK p \in Served : x \in {p} \X (2..Len(Conf(p))) BY DEF Places
  <2>2. x = <<x[1], x[2]>> /\ x[1] = p /\ x[2] \in 2..Len(Conf(p)) BY <2>1
  <2>3. QED BY <1>1, <2>2, PortRange
<1>3. ASSUME NEW p \in Served, NEW n \in 2..Length(p) PROVE <<p, n>> \in Places
  <2>1. <<p, n>> \in {p} \X (2..Len(Conf(p))) BY <1>1
  <2>2. QED BY <2>1 DEF Places
<1>4. QED BY <1>2, <1>3

-----------------------------------------------------------------------------
(* Packets in their turn.                                                   *)

\* A new transaction is the last, and its setup is next.
LEMMA ShapeMade ==
  ASSUME TypesInv, NEW q \in QH, q.curr <= Len(qtds), ~q.active, NEW req \in Requests,
         NEW data \in Buffers, NEW w \in Nat, NEW return, Submit(q, req, data, w, return)
  PROVE  /\ Shape(Packets(w), req, data)'
         /\ Turn' = Before(Packets(w))' + 1
         /\ ~qh'.active /\ qh'.halted = q.halted
         /\ pc' = "wait" /\ after' = return
<1>1. Len(qtds) \in Nat /\ Len(qtds') = Len(qtds) + Packets(w) /\ Chained(req, data) BY Chain
<1>2. Packets(w) \in Nat /\ Packets(w) >= 2 BY PacketCount
<1>3. /\ qh'.next = Len(qtds) + 1 /\ qh'.active = q.active /\ qh'.halted = q.halted
      /\ pc' = "wait" /\ after' = return
  BY SubmitTypes
<1>4. Before(Packets(w))' = Len(qtds) BY <1>1, <1>2 DEF Before
<1>5. Shape(Packets(w), req, data)'
  <2>1. Packets(w) \in Nat \ {0} /\ Packets(w) <= Len(qtds') BY <1>1, <1>2
  <2>2. ASSUME NEW k \in Len(qtds) + 1..Len(qtds')
        PROVE  /\ qtds'[k].req = req /\ qtds'[k].data = data /\ qtds'[k].packet = k - Len(qtds) - 1
               /\ qtds'[k].pid = IF k = Len(qtds) + 1 THEN "SETUP"
                                 ELSE IF k = Len(qtds') THEN "STATUS" ELSE "DATA"
    <3>1. k # Len(qtds) + 1 /\ k # Len(qtds') => k \in Len(qtds) + 2..Len(qtds') - 1 BY <1>1, <1>2
    <3>2. QED BY <1>1, <3>1 DEF Chained
  <2>3. QED BY <1>4, <2>1, <2>2 DEF Shape
<1>6. Turn' = Before(Packets(w))' + 1
  BY <1>1, <1>3, <1>4 DEF Turn, TERMINATE
<1>7. QED BY <1>3, <1>5, <1>6

\* What one more packet does.
LEMMA Serves ==
  ASSUME TypesInv, EnumInv, TurnInv, ExecuteQtd
  PROVE  /\ qh.curr \in 1..Len(qtds) /\ i \in Ports /\ Waiting /\ Serving
         /\ LET t == qtds[qh.curr]
            IN  \/ t.pid = "SETUP"  /\ Setup(i, t)
                \/ t.pid = "DATA"   /\ Data(i, t)
                \/ t.pid = "STATUS" /\ Status(i)
         /\ Turn = qh.curr /\ Turn' = qh.curr + 1 /\ TurnInv'
         /\ UNCHANGED <<device, pc, after, i, dev_addr, available_address, confBuffer_ptr,
                        last_interfaceDesc, ehci_msb_internals>>
<1>1. PICK p \in Ports : LET t == qtds[qh.curr] IN
             /\ Addressed = {p}
             /\ \/ t.pid = "SETUP" /\ Setup(p, t)
                \/ t.pid = "DATA" /\ Data(p, t)
                \/ t.pid = "STATUS" /\ Status(p)
  BY DEF ExecuteQtd
<1>2. /\ qh.active /\ qh' = [qh EXCEPT !.active = FALSE]
      /\ UNCHANGED <<device, pc, after, i, dev_addr, available_address, confBuffer_ptr,
                     last_interfaceDesc, ehci_msb_internals>>
  BY DEF ExecuteQtd, locals
<1>3. p = i /\ Waiting /\ Serving BY <1>1, <1>2, OnlyThis
<1>4. Len(qtds) \in Nat /\ qh \in QH BY DEF TypesInv
<1>5. qh.curr \in 1..Len(qtds) BY <1>2 DEF EnumInv, RingInv
<1>6. Len(qtds') = Len(qtds) BY Retires DEF EnumInv, Retiring
<1>7. ~qh'.active /\ qh'.next = qh.next /\ qh'.halted = qh.halted BY <1>2, <1>4 DEF QH
<1>8. Turn = qh.curr BY <1>2 DEF Turn
<1>9. Turn' = qh.curr + 1
  <2>1. qh.next = IF qh.curr = Len(qtds) THEN TERMINATE ELSE qh.curr + 1 BY <1>2 DEF TurnInv
  <2>2. QED BY <1>4, <1>5, <1>6, <1>7, <2>1 DEF Turn, TERMINATE
<1>10. TurnInv' BY <1>7 DEF TurnInv
<1>11. QED BY <1>1, <1>2, <1>3, <1>5, <1>8, <1>9, <1>10

LEMMA Fetches ==
  ASSUME TypesInv, EnumInv, TurnInv, FetchQtd
  PROVE  /\ Turn' = Turn /\ TurnInv'
         /\ UNCHANGED <<device, port, qtds, pc, after, i, dev_addr, available_address, devDesc_conf,
                        confBuffer, confBuffer_ptr, last_interfaceDesc, ehci_msb_internals>>
<1>1. /\ ~qh.active /\ qh.next # TERMINATE
      /\ qh' = [qh EXCEPT !.curr = qh.next, !.next = qtds[qh.next].next, !.active = TRUE]
      /\ UNCHANGED <<device, port, qtds, pc, after, i, dev_addr, available_address, devDesc_conf,
                     confBuffer, confBuffer_ptr, last_interfaceDesc, ehci_msb_internals>>
  BY DEF FetchQtd, locals, buffers
<1>2. qh \in QH /\ Len(qtds) \in Nat BY DEF TypesInv
<1>3. qh.next \in 1..Len(qtds)
      /\ qtds[qh.next].next = IF qh.next = Len(qtds) THEN TERMINATE ELSE qh.next + 1
  BY <1>1, <1>2 DEF EnumInv, RingInv
<1>4. qh'.active /\ qh'.curr = qh.next /\ qh'.halted = qh.halted
      /\ qh'.next = IF qh.next = Len(qtds) THEN TERMINATE ELSE qh.next + 1
  BY <1>1, <1>2, <1>3 DEF QH
<1>5. QED BY <1>1, <1>4 DEF Turn, TurnInv

LEMMA ShapeKept ==
  ASSUME TypesInv, RingInv, NEW n, NEW req, NEW data, Shape(n, req, data),
         Retiring \/ UNCHANGED qtds
  PROVE  Shape(n, req, data)' /\ Before(n)' = Before(n)
<1>1. /\ Len(qtds') = Len(qtds)
      /\ \A k \in 1..Len(qtds) : /\ qtds'[k].pid = qtds[k].pid /\ qtds'[k].req = qtds[k].req
                                 /\ qtds'[k].data = qtds[k].data /\ qtds'[k].packet = qtds[k].packet
  BY Retires
<1>2. \A k \in Before(n) + 1..Len(qtds) : k \in 1..Len(qtds)
  <2>1. Len(qtds) \in Nat /\ n \in Nat /\ n <= Len(qtds) BY DEF Shape, TypesInv
  <2>2. QED BY <2>1 DEF Before
<1>3. Before(n)' = Before(n) BY <1>1 DEF Before
<1>4. QED BY <1>1, <1>2, <1>3 DEF Shape

-----------------------------------------------------------------------------
(* Each part, while no packet is lost.                                      *)

\* What may happen while the driver waits, or when it begins to.
arrivals == <<qh, qtds, device, port, after, i, dev_addr, devDesc_conf, confBuffer, confBuffer_ptr,
              last_interfaceDesc, ehci_msb_internals>>

LEMMA WaitSteps ==
  ASSUME [Next]_vars, ~HaltQh, Waiting'
  PROVE  Starting \/ FetchQtd \/ ExecuteQtd \/ (Waiting /\ UNCHANGED arrivals)
<1> USE DEF locals, buffers, Goto, Waiting, arrivals
<1>1. CASE BiosReleases \/ UNCHANGED vars BY <1>1 DEF BiosReleases, vars
<1>2. CASE wait_for_qh_next \/ wait_for_qh_token BY <1>2 DEF wait_for_qh_next, wait_for_qh_token
<1>3. CASE \/ EHCI_Reset \/ EHCI_Reset_confirm \/ EHCI_Init_start \/ reset_port \/ reset_port_end
           \/ next_port \/ EHCI_Init_return \/ not_a_disk
  BY <1>3 DEF EHCI_Reset, EHCI_Reset_confirm, EHCI_Init_start, reset_port, reset_port_end,
     next_port, EHCI_Init_return, not_a_disk
<1>4. CASE \/ interface_descriptor \/ endpoint_descriptor \/ association_descriptor
           \/ video_header_descriptor \/ video_endpoint_descriptor
  BY <1>4 DEF interface_descriptor, endpoint_descriptor, association_descriptor,
     video_header_descriptor, video_endpoint_descriptor, Parsing, Advance
<1>5. QED BY <1>1, <1>2, <1>3, <1>4 DEF Next, Driver, Controller, Parse, Starting

\* The device that is served has a configuration.
LEMMA ServedConf ==
  ASSUME AllTruthful, TypesInv, EnumInv, Serving
  PROVE  /\ i \in Scanned /\ i \in Ports /\ i \in Served /\ device[i].speed = "high" /\ port[i].enabled
         /\ DOMAIN Conf(i) = 1..Length(i) /\ Length(i) \in Nat /\ Length(i) >= 1
<1>1. i \in Scanned /\ device[i].speed = "high" /\ port[i].enabled BY DEF EnumInv, PlaceInv, CurrentInv
<1>2. QED BY <1>1, ConfFacts

LEMMA StepTurn ==
  ASSUME TypesInv, EnumInv, TurnInv, [Next]_vars, ~HaltQh
  PROVE  TurnInv'
<1> USE DEF locals, Goto
<1>1. CASE Starting
  <2>1. PICK q \in QH, req \in Requests, data \in Buffers, w \in Nat : \E return :
          /\ q.curr <= Len(qtds) /\ ~q.active /\ (q.halted => qh.halted)
          /\ Submit(q, req, data, w, return)
    BY <1>1, Starts DEF Started, EnumInv
  <2>2. ~qh'.active /\ qh'.halted = q.halted BY <2>1, ShapeMade
  <2>3. QED BY <2>1, <2>2 DEF TurnInv
<1>2. CASE FetchQtd BY <1>2, Fetches
<1>3. CASE ExecuteQtd BY <1>3, Serves
<1>4. CASE EHCI_Init_start
  <2>1. qh' = IdleQH BY <1>4 DEF EHCI_Init_start
  <2>2. QED BY <2>1 DEF IdleQH, TurnInv
<1>5. CASE Moving /\ ~EHCI_Init_start
  BY <1>5 DEF Moving, EHCI_Reset, EHCI_Reset_confirm, reset_port, reset_port_end, next_port,
     EHCI_Init_return, wait_for_qh_next, wait_for_qh_token, not_a_disk, TurnInv
<1>6. CASE UNCHANGED core BY <1>6 DEF core, TurnInv
<1>7. QED BY <1>1, <1>2, <1>3, <1>4, <1>5, <1>6, Steps DEF Retiring

LEMMA StepLength ==
  ASSUME AllTruthful, TypesInv, EnumInv, CleanInv, [Next]_vars, ~HaltQh
  PROVE  LengthInv'
<1> SUFFICES ASSUME Waiting', after' = "conf" PROVE LengthInv' BY DEF LengthInv
<1>0. LengthInv /\ TurnInv /\ RingInv /\ Len(qtds) \in Nat BY DEF CleanInv, EnumInv, TypesInv
<1> DEFINE req == Request("GET_CONFIGURATION", 0)
<1>1. CASE Starting
  <2>1. get_total_length
    BY <1>1 DEF Starting, get_device_descriptor, set_address, get_configuration_descriptors,
       set_configuration, Submit
  <2>2. PICK q \in QH : /\ q.curr <= Len(qtds) /\ ~q.active
                        /\ Submit(q, req, "devDesc_conf", 1, "conf")
    <3> DEFINE q == [qh EXCEPT !.addr = dev_addr]
    <3>1. ~qh.active BY <1>0, <1>1, StartsIdle
    <3>2. dev_addr \in 0..127 BY PortRange DEF TypesInv
    <3>3. q \in QH /\ q.curr <= Len(qtds) /\ ~q.active BY <3>1, <3>2 DEF QH, TypesInv
    <3>4. Submit(q, req, "devDesc_conf", 1, "conf") BY <2>1 DEF get_total_length
    <3> HIDE DEF q
    <3>5. QED BY <3>3, <3>4
  <2>3. req \in Requests /\ "devDesc_conf" \in Buffers BY RequestTypes, PortRange DEF Buffers
  <2>4. Shape(Packets(1), req, "devDesc_conf")' /\ Turn' = Before(Packets(1))' + 1
    BY <2>2, <2>3, ShapeMade
  <2>5. Packets(1) = 3 BY PacketCount
  <2>6. Shape(3, req, "devDesc_conf")' /\ Turn' = Before(3)' + 1 BY <2>4, <2>5
  <2>7. Before(3)' \in Int
    <3>1. Len(qtds') \in Nat BY <2>2, <2>3, Chain
    <3>2. QED BY <3>1 DEF Before
  <2>8. QED BY <2>6, <2>7 DEF LengthInv
<1>2. CASE FetchQtd
  <2>1. /\ Turn' = Turn /\ UNCHANGED <<device, qtds, pc, after, i, devDesc_conf>> BY <1>0, <1>2, Fetches
  <2>2. Waiting /\ after = "conf" BY <2>1 DEF Waiting
  <2>3. Shape(3, req, "devDesc_conf")' /\ Before(3)' = Before(3)
    BY <1>0, <2>1, <2>2, ShapeKept DEF LengthInv
  <2>4. Length(i)' = Length(i) BY <2>1 DEF Length, Conf
  <2>5. QED BY <1>0, <2>1, <2>2, <2>3, <2>4 DEF LengthInv
<1>3. CASE ExecuteQtd
  <2> DEFINE t == qtds[qh.curr]
  <2>1. /\ qh.curr \in 1..Len(qtds)
        /\ \/ t.pid = "SETUP"  /\ Setup(i, t)
           \/ t.pid = "DATA"   /\ Data(i, t)
           \/ t.pid = "STATUS" /\ Status(i)
        /\ Turn = qh.curr /\ Turn' = qh.curr + 1
        /\ UNCHANGED <<device, pc, after, i>>
    BY <1>0, <1>3, Serves
  <2>2. Waiting /\ after = "conf" BY <2>1 DEF Waiting
  <2>3. Shape(3, req, "devDesc_conf") BY <1>0, <2>2 DEF LengthInv
  <2>4. Shape(3, req, "devDesc_conf")' /\ Before(3)' = Before(3)
    BY <1>0, <1>3, <2>3, ShapeKept DEF Retiring
  <2>5. Length(i)' = Length(i) BY <2>1 DEF Length, Conf
  <2>6. ASSUME qh.curr > Before(3) + 1 PROVE devDesc_conf' = Length(i)
    <3>1. Before(3) = Len(qtds) - 3 /\ qh.curr \in Before(3) + 1..Len(qtds)
      BY <1>0, <2>1, <2>3, <2>6 DEF Before, Shape
    <3>a. qh.curr # Before(3) + 1 BY <1>0, <2>6, <3>1
    <3>2. t.data = "devDesc_conf" /\ t.pid = IF qh.curr = Len(qtds) THEN "STATUS" ELSE "DATA"
      BY <2>3, <3>a, <3>1 DEF Shape
    <3>3. CASE qh.curr = Len(qtds)
      <4>1. devDesc_conf' = devDesc_conf BY <2>1, <3>2, <3>3 DEF Status, buffers
      <4>2. Turn > Before(3) + 2 BY <1>0, <2>1, <3>1, <3>3
      <4>3. QED BY <1>0, <2>2, <4>1, <4>2 DEF LengthInv
    <3>4. CASE qh.curr # Len(qtds)
      <4>1. Data(i, t) BY <2>1, <3>2, <3>4
      <4>2. QED BY <3>2, <4>1 DEF Data, Length, Conf
    <3>5. QED BY <3>3, <3>4
  <2>7. Before(3) \in Int BY <1>0 DEF Before
  <2>8. Turn' > Before(3) + 2 => qh.curr > Before(3) + 1 BY <1>0, <2>1, <2>7
  <2>9. QED BY <2>4, <2>5, <2>6, <2>8 DEF LengthInv
<1>4. CASE Waiting /\ UNCHANGED arrivals
  BY <1>0, <1>4 DEF arrivals, LengthInv, Shape, Before, Turn, Length, Conf
<1>5. QED BY <1>1, <1>2, <1>3, <1>4, WaitSteps

LEMMA StepFill ==
  ASSUME AllTruthful, TypesInv, EnumInv, CleanInv, [Next]_vars, ~HaltQh
  PROVE  FillInv'
<1> SUFFICES ASSUME Waiting', after' = "parse" PROVE FillInv' BY DEF FillInv
<1>0. /\ FillInv /\ BufferInv /\ TurnInv /\ RingInv /\ Len(qtds) \in Nat
      /\ confBuffer \in Seq(Descriptors) /\ devDesc_conf \in Nat
  BY DEF CleanInv, EnumInv, TypesInv
<1>a. PacketSize \in Nat /\ PacketSize >= 1 BY EnumAssumption
<1> DEFINE req == Request("GET_CONFIGURATION", 0)
<1>1. CASE Starting
  <2>1. get_configuration_descriptors
    BY <1>1 DEF Starting, get_device_descriptor, set_address, get_total_length,
       set_configuration, Submit
  <2>2. /\ pc = "conf" /\ confBuffer' = [n \in 1..devDesc_conf |-> Junk]
        /\ confBuffer_ptr' = 2 /\ last_interfaceDesc' = 0 /\ UNCHANGED <<device, i>>
        /\ Submit(qh, req, "confBuffer", devDesc_conf, "parse")
    BY <2>1 DEF get_configuration_descriptors
  <2>3. devDesc_conf = Length(i) /\ Length(i)' = Length(i) BY <1>0, <2>2 DEF BufferInv, Length, Conf
  <2>4. Len(confBuffer') = devDesc_conf
    <3>1. confBuffer' \in [1..devDesc_conf -> {Junk}] BY <2>2
    <3>2. QED BY <1>0, <3>1
  <2>5. PICK w \in Nat : w = devDesc_conf BY <1>0
  <2>6. qh \in QH /\ qh.curr <= Len(qtds) /\ ~qh.active BY <1>0, <1>1, StartsIdle DEF TypesInv
  <2>7. req \in Requests /\ "confBuffer" \in Buffers BY RequestTypes, PortRange DEF Buffers
  <2>8. Submit(qh, req, "confBuffer", w, "parse") BY <2>2, <2>5
  <2>9. Shape(Packets(w), req, "confBuffer")' /\ Turn' = Before(Packets(w))' + 1
    BY <2>6, <2>7, <2>8, ShapeMade
  <2>10. Before(Packets(w))' \in Int
    <3>1. Len(qtds') \in Nat BY <2>6, <2>7, <2>8, Chain
    <3>2. QED BY <3>1, PacketCount DEF Before
  <2>11. Filling(Packets(w))'
    <3>1. \A k \in 1..Packets(w) - 2 : ~(Turn' > Before(Packets(w))' + 1 + k)
      BY <2>9, <2>10, PacketCount
    <3>2. QED BY <2>9, <3>1 DEF Filling
  <2>12. Packets(Length(i))' = Packets(w) BY <2>3, <2>5
  <2>13. Filling(Packets(Length(i)))'
    <3>1. Length(i)' = w BY <2>3, <2>5
    <3>2. QED BY <2>11, <3>1
  <2>14. QED BY <2>2, <2>3, <2>4, <2>13 DEF FillInv
<1>2. CASE ~Starting
  <2>1. Waiting /\ UNCHANGED <<device, after, i, confBuffer_ptr, last_interfaceDesc>>
    BY <1>0, <1>2, WaitSteps, Fetches, Serves DEF Waiting, arrivals
  <2>2. Waiting /\ after = "parse" /\ UNCHANGED <<device, i, confBuffer_ptr, last_interfaceDesc>>
    BY <2>1 DEF arrivals
  <2>3. Length(i)' = Length(i) BY <2>2 DEF Length, Conf
  <2>4. Serving BY <2>2 DEF Serving, HasOne
  <2>5. PICK w \in Nat : w = Length(i) BY <2>4, ServedConf
  <2> DEFINE n == Packets(w)
  <2>6. Len(confBuffer) = w /\ Filling(n) /\ confBuffer_ptr = 2 /\ last_interfaceDesc = 0
    BY <1>0, <2>2, <2>5 DEF FillInv
  <2>7. n \in Nat /\ n >= 2 BY PacketCount
  <2> HIDE DEF n
  <2>8. Shape(n, req, "confBuffer") BY <2>6 DEF Filling
  <2>9. Len(confBuffer') = w /\ Filling(n)'
    <3>1. CASE FetchQtd
      <4>1. Turn' = Turn /\ UNCHANGED <<qtds, confBuffer>> BY <1>0, <3>1, Fetches
      <4>2. Shape(n, req, "confBuffer")' /\ Before(n)' = Before(n) BY <1>0, <2>8, <4>1, ShapeKept
      <4>3. QED BY <2>2, <2>6, <4>1, <4>2 DEF Filling, Conf
    <3>2. CASE Waiting /\ UNCHANGED arrivals
      <4>1. UNCHANGED <<qh, qtds, confBuffer>> BY <3>2 DEF arrivals
      <4>2. Turn' = Turn BY <4>1 DEF Turn
      <4>3. Shape(n, req, "confBuffer")' /\ Before(n)' = Before(n) BY <1>0, <2>8, <4>1, ShapeKept
      <4>4. QED BY <2>2, <2>6, <4>1, <4>2, <4>3 DEF Filling, Conf
    <3>3. CASE ExecuteQtd
      <4> DEFINE t == qtds[qh.curr]
      <4>1. /\ qh.curr \in 1..Len(qtds)
            /\ \/ t.pid = "SETUP"  /\ Setup(i, t)
               \/ t.pid = "DATA"   /\ Data(i, t)
               \/ t.pid = "STATUS" /\ Status(i)
            /\ Turn = qh.curr /\ Turn' = qh.curr + 1
        BY <1>0, <3>3, Serves
      <4>2. Shape(n, req, "confBuffer")' /\ Before(n)' = Before(n)
        BY <1>0, <2>8, <3>3, ShapeKept DEF Retiring
      <4>3. Before(n) = Len(qtds) - n /\ Before(n) \in Int BY <1>0, <2>7 DEF Before
      <4>4. DOMAIN Conf(i) = 1..w BY <2>4, <2>5, ServedConf
      <4>5. DOMAIN confBuffer = 1..w BY <1>0, <2>6
      <4>6. CASE qh.curr \in Before(n) + 1..Len(qtds) /\ Data(i, t)
        <5> DEFINE packet == qh.curr - Before(n) - 1
                   part == (packet - 1) * PacketSize + 1 .. packet * PacketSize
        <5>1. t.data = "confBuffer" /\ t.packet = packet BY <2>8, <4>6 DEF Shape
        <5>2. confBuffer' = [m \in DOMAIN confBuffer |->
                IF m \in part \cap DOMAIN Conf(i) THEN Conf(i)[m] ELSE confBuffer[m]]
          BY <4>6, <5>1 DEF Data, Conf
        <5>3. packet \in Int BY <4>1, <4>3
        <5> HIDE DEF packet
        <5>4. /\ DOMAIN confBuffer' = 1..w
              /\ \A m \in 1..w : confBuffer'[m] = IF m \in part THEN Conf(i)[m] ELSE confBuffer[m]
          <6> HIDE DEF part
          <6>1. QED BY <4>4, <4>5, <5>2
        <5>5. Len(confBuffer') = w
          <6>1. confBuffer' \in [1..w -> {confBuffer'[m] : m \in 1..w}] BY <4>5, <5>2, <5>4
          <6>2. QED BY <6>1
        <5>6. ASSUME NEW m \in 1..w, NEW k \in 1..n - 2, m <= k * PacketSize, qh.curr + 1 > Before(n) + 1 + k
              PROVE  confBuffer'[m] = Conf(i)[m]
          <6>1. packet >= k BY <2>7, <4>1, <4>3, <5>6 DEF packet
          <6>2. CASE packet > k
            <7>1. Turn > Before(n) + 1 + k BY <2>7, <4>1, <4>3, <6>2 DEF packet
            <7>2. confBuffer[m] = Conf(i)[m] BY <2>6, <5>6, <7>1 DEF Filling
            <7>3. QED BY <5>4, <7>2
          <6>3. CASE packet = k
            <7>1. CASE m \in part BY <5>4, <7>1
            <7>2. CASE m \notin part
              <8> DEFINE k1 == k - 1
              <8>0. k \in Nat /\ m \in Nat /\ k >= 1 /\ m >= 1 BY <2>7
              <8>1. m <= (k - 1) * PacketSize
                <9>1. (k - 1) * PacketSize \in Int /\ k * PacketSize \in Int BY <1>a, <8>0
                <9>2. ~((k - 1) * PacketSize + 1 <= m /\ m <= k * PacketSize)
                  BY <6>3, <7>2, <8>0, <9>1
                <9>3. QED BY <5>6, <8>0, <9>1, <9>2
              <8>2. k >= 2
                <9>1. k = 1 => (k - 1) * PacketSize = 0 BY <1>a
                <9>2. QED BY <8>0, <8>1, <9>1
              <8>3. k1 \in 1..n - 2 /\ m <= k1 * PacketSize BY <2>7, <8>1, <8>2
              <8>4. Turn > Before(n) + 1 + k1 BY <4>1, <4>3, <6>3, <8>0 DEF packet
              <8> HIDE DEF k1
              <8>5. confBuffer[m] = Conf(i)[m] BY <2>6, <8>3, <8>4 DEF Filling
              <8>6. QED BY <5>4, <7>2, <8>5
            <7>3. QED BY <7>1, <7>2
          <6>4. QED BY <2>7, <5>3, <6>1, <6>2, <6>3
        <5>7. Conf(i)' = Conf(i) BY <2>2 DEF Conf
        <5>8. QED BY <4>1, <4>2, <5>5, <5>6, <5>7 DEF Filling
      <4>7. CASE ~(qh.curr \in Before(n) + 1..Len(qtds) /\ Data(i, t))
        <5>1. CASE qh.curr \in Before(n) + 1..Len(qtds)
          <6>1. UNCHANGED confBuffer BY <4>1, <4>7, <5>1 DEF Setup, Status, buffers
          <6>2. qh.curr = Before(n) + 1 \/ qh.curr = Len(qtds)
            BY <2>8, <4>1, <4>7, <5>1 DEF Shape
          <6>3. ASSUME NEW m \in 1..w, NEW k \in 1..n - 2, m <= k * PacketSize,
                       qh.curr + 1 > Before(n) + 1 + k
                PROVE  confBuffer[m] = Conf(i)[m]
            <7>1. qh.curr = Len(qtds) BY <2>7, <4>3, <6>2, <6>3
            <7>2. Turn > Before(n) + 1 + k BY <1>0, <2>7, <4>1, <4>3, <7>1
            <7>3. QED BY <2>6, <6>3, <7>2 DEF Filling
          <6>4. QED BY <2>2, <2>6, <4>1, <4>2, <6>1, <6>3 DEF Filling, Conf
        <5>2. CASE qh.curr \notin Before(n) + 1..Len(qtds)
          <6>1. qh.curr < Before(n) + 1 BY <1>0, <4>1, <4>3, <5>2
          <6>2. \A k \in 1..n - 2 : ~(Turn' > Before(n) + 1 + k) BY <2>7, <4>1, <4>3, <6>1
          <6>3. Len(confBuffer') = w BY <1>0, <1>a, <2>6, <3>3, <4>1, StepTypes DEF Setup, Status, Data, buffers
          <6>4. QED BY <4>2, <6>2, <6>3 DEF Filling
        <5>3. QED BY <5>1, <5>2
      <4>8. QED BY <4>6, <4>7
    <3>4. QED BY <1>2, <3>1, <3>2, <3>3, WaitSteps
  <2>10. Packets(Length(i))' = n
    <3>1. Length(i)' = w BY <2>3, <2>5
    <3>2. QED BY <3>1 DEF n
  <2>11. Filling(Packets(Length(i)))'
    <3>1. Length(i)' = w BY <2>3, <2>5
    <3>2. QED BY <2>9, <3>1 DEF n
  <2>12. QED BY <2>2, <2>3, <2>5, <2>6, <2>9, <2>11 DEF FillInv
<1>3. QED BY <1>1, <1>2

LEMMA StepSet ==
  ASSUME AllTruthful, TypesInv, EnumInv, CleanInv, [Next]_vars, ~HaltQh
  PROVE  SetInv'
<1> SUFFICES ASSUME Waiting', after' = "next" PROVE SetInv' BY DEF SetInv
<1>0. /\ SetInv /\ BufferInv /\ TurnInv /\ RingInv /\ Len(qtds) \in Nat /\ port \in [Ports -> PORT]
  BY DEF CleanInv, EnumInv, TypesInv
<1>1. CASE Starting
  <2>1. set_configuration
    BY <1>1 DEF Starting, get_device_descriptor, set_address, get_total_length,
       get_configuration_descriptors, Submit
  <2>2. /\ pc = "parse" /\ UNCHANGED <<device, i>> /\ last_interfaceDesc # 0
        /\ Submit(qh, Request("SET_CONFIGURATION", confBuffer[1].bConfigurationValue), "none", 0, "next")
    BY <2>1 DEF set_configuration, locals, Class
  <2>3. Serving BY <2>2 DEF Serving, HasOne
  <2>4. confBuffer[1] = Conf(i)[1] BY <1>0, <2>2, <2>3, ServedConf DEF BufferInv
  <2>5. PICK v \in Values : v = Conf(i)[1].bConfigurationValue
    <3>1. confBuffer[1] \in Descriptors BY <2>2 DEF TypesInv
    <3>2. QED BY <2>4, <3>1 DEF Values
  <2> DEFINE req == Request("SET_CONFIGURATION", v)
  <2>6. qh \in QH /\ qh.curr <= Len(qtds) /\ ~qh.active BY <1>0, <1>1, StartsIdle DEF TypesInv
  <2>7. req \in Requests /\ "none" \in Buffers BY RequestTypes DEF Buffers
  <2>8. Submit(qh, req, "none", 0, "next") BY <2>2, <2>4, <2>5
  <2> HIDE DEF req
  <2>9. Shape(Packets(0), req, "none")' /\ Turn' = Before(Packets(0))' + 1
    BY <2>6, <2>7, <2>8, ShapeMade
  <2>10. Packets(0) = 2 BY PacketCount
  <2>11. Shape(2, req, "none")' /\ Turn' = Before(2)' + 1 BY <2>9, <2>10
  <2>12. Before(2)' \in Int
    <3>1. Len(qtds') \in Nat BY <2>6, <2>7, <2>8, Chain
    <3>2. QED BY <3>1 DEF Before
  <2>13. Choosing(v)' BY <2>11, <2>12 DEF Choosing, req
  <2>14. Conf(i)[1].bConfigurationValue' = v BY <2>2, <2>5 DEF Conf
  <2>15. QED BY <2>13, <2>14 DEF SetInv
<1>2. CASE ~Starting
  <2>1. Waiting /\ UNCHANGED <<device, after, i>>
    BY <1>0, <1>2, WaitSteps, Fetches, Serves DEF Waiting, arrivals
  <2>2. Serving /\ after = "next" BY <2>1 DEF Serving, HasOne
  <2>3. PICK v : v = Conf(i)[1].bConfigurationValue OBVIOUS
  <2>4. Conf(i)[1].bConfigurationValue' = v BY <2>1, <2>3 DEF Conf
  <2>5. Choosing(v) BY <1>0, <2>1, <2>2, <2>3 DEF SetInv
  <2> DEFINE req == Request("SET_CONFIGURATION", v)
  <2>6. Shape(2, req, "none") BY <2>5 DEF Choosing
  <2>7. req.bRequest = "SET_CONFIGURATION" /\ req.wValue = v BY DEF Request
  <2> HIDE DEF req
  <2>8. Choosing(v)'
    <3>1. CASE FetchQtd
      <4>1. Turn' = Turn /\ UNCHANGED <<qtds, port>> BY <1>0, <3>1, Fetches
      <4>2. Shape(2, req, "none")' /\ Before(2)' = Before(2) BY <1>0, <2>6, <4>1, ShapeKept
      <4>3. QED BY <2>1, <2>5, <4>1, <4>2 DEF Choosing, req
    <3>2. CASE Waiting /\ UNCHANGED arrivals
      <4>1. UNCHANGED <<qh, qtds, port>> BY <3>2 DEF arrivals
      <4>2. Turn' = Turn BY <4>1 DEF Turn
      <4>3. Shape(2, req, "none")' /\ Before(2)' = Before(2) BY <1>0, <2>6, <4>1, ShapeKept
      <4>4. QED BY <2>1, <2>5, <4>1, <4>2, <4>3 DEF Choosing, req
    <3>3. CASE ExecuteQtd
      <4> DEFINE t == qtds[qh.curr]
      <4>1. /\ qh.curr \in 1..Len(qtds) /\ i \in Ports
            /\ \/ t.pid = "SETUP"  /\ Setup(i, t)
               \/ t.pid = "DATA"   /\ Data(i, t)
               \/ t.pid = "STATUS" /\ Status(i)
            /\ Turn = qh.curr /\ Turn' = qh.curr + 1
        BY <1>0, <3>3, Serves
      <4>2. Shape(2, req, "none")' /\ Before(2)' = Before(2)
        BY <1>0, <2>6, <3>3, ShapeKept DEF Retiring
      <4>3. Before(2) = Len(qtds) - 2 /\ Before(2) \in Int BY <1>0 DEF Before
      <4>4. port[i] \in PORT BY <1>0, <4>1
      <4>5. CASE qh.curr = Before(2) + 1
        <5>a. qh.curr \in Before(2) + 1..Len(qtds) BY <1>0, <4>1, <4>3, <4>5
        <5>1. t.pid = "SETUP" /\ t.req = req BY <2>6, <4>5, <5>a DEF Shape
        <5>2. port' = [port EXCEPT ![i].request = req] BY <4>1, <5>1 DEF Setup
        <5>3. port'[i].request = req BY <1>0, <4>1, <4>4, <5>2 DEF PORT
        <5>4. QED BY <2>1, <4>1, <4>2, <4>3, <4>5, <5>3 DEF Choosing, req
      <4>6. CASE qh.curr = Len(qtds)
        <5>1. t.pid = "STATUS"
          <6>1. qh.curr \in Before(2) + 1..Len(qtds) /\ qh.curr # Before(2) + 1 BY <1>0, <4>1, <4>3, <4>6
          <6>2. QED BY <2>6, <4>6, <6>1 DEF Shape
        <5>2. port[i].request = req
          <6>1. Turn > Before(2) + 1 BY <1>0, <4>1, <4>3, <4>6
          <6>2. QED BY <2>5, <6>1 DEF Choosing, req
        <5>3. port' = [port EXCEPT ![i].configuration = v]
          BY <2>7, <4>1, <5>1, <5>2 DEF Status, Obeys
        <5>4. port'[i].request = req /\ port'[i].configuration = v BY <1>0, <4>1, <4>4, <5>2, <5>3 DEF PORT
        <5>5. QED BY <2>1, <4>2, <5>4 DEF Choosing, req
      <4>7. CASE qh.curr # Before(2) + 1 /\ qh.curr # Len(qtds)
        <5>1. ~(Turn' > Before(2) + 1) BY <1>0, <4>1, <4>3, <4>7
        <5>2. ~(Turn' > Before(2) + 2) BY <1>0, <4>1, <4>3, <4>7
        <5>3. QED BY <4>2, <5>1, <5>2 DEF Choosing, req
      <4>8. QED BY <4>5, <4>6, <4>7
    <3>4. QED BY <1>2, <3>1, <3>2, <3>3, WaitSteps
  <2>9. QED BY <2>4, <2>8 DEF SetInv
<1>3. QED BY <1>1, <1>2

\* How the driver comes to where it is, if not from a device before.
LEMMA Arrives ==
  ASSUME EnumInv, [Next]_vars, ~HaltQh, pc' \in {"conf", "parse"}
  PROVE  /\ UNCHANGED <<device, port, i, dev_addr>> /\ ~Waiting'
         /\ \/ /\ pc = pc' /\ UNCHANGED <<devDesc_conf, confBuffer>>
               /\ \/ UNCHANGED <<confBuffer_ptr, last_interfaceDesc, ehci_msb_internals>>
                  \/ pc = "parse" /\ Parse
            \/ /\ pc = "wait_token" /\ pc' = after /\ ~qh.active /\ qh.next = TERMINATE
               /\ UNCHANGED <<devDesc_conf, confBuffer, confBuffer_ptr, last_interfaceDesc, ehci_msb_internals>>
<1> USE DEF locals, buffers, Goto, Waiting
<1>1. CASE BiosReleases \/ UNCHANGED vars BY <1>1 DEF BiosReleases, vars
<1>2. CASE wait_for_qh_next \/ wait_for_qh_token
  BY <1>2 DEF wait_for_qh_next, wait_for_qh_token, EnumInv, RingInv
<1>3. CASE \/ EHCI_Reset \/ EHCI_Reset_confirm \/ EHCI_Init_start \/ reset_port \/ reset_port_end
           \/ next_port \/ EHCI_Init_return \/ not_a_disk
  BY <1>3 DEF EHCI_Reset, EHCI_Reset_confirm, EHCI_Init_start, reset_port, reset_port_end,
     next_port, EHCI_Init_return, not_a_disk
<1>4. CASE \/ interface_descriptor \/ endpoint_descriptor \/ association_descriptor
           \/ video_header_descriptor \/ video_endpoint_descriptor
  BY <1>4 DEF interface_descriptor, endpoint_descriptor, association_descriptor,
     video_header_descriptor, video_endpoint_descriptor, Parsing, Advance, Parse
<1>5. CASE Starting
  BY <1>5 DEF Starting, get_device_descriptor, set_address, get_total_length,
     get_configuration_descriptors, set_configuration, Submit
<1>6. CASE FetchQtd \/ ExecuteQtd
  <2>1. qh.next # TERMINATE \/ qh.active BY <1>6 DEF FetchQtd, ExecuteQtd
  <2>2. pc' = pc BY <1>6 DEF FetchQtd, ExecuteQtd
  <2>3. QED BY <2>1, <2>2 DEF EnumInv, RingInv
<1>7. QED BY <1>1, <1>2, <1>3, <1>4, <1>5, <1>6 DEF Next, Driver, Controller, Parse, Starting

LEMMA StepBuffer ==
  ASSUME AllTruthful, TypesInv, EnumInv, CleanInv, [Next]_vars, ~HaltQh
  PROVE  BufferInv'
<1> SUFFICES ASSUME pc' \in {"conf", "parse"} PROVE BufferInv' BY DEF BufferInv
<1>0. /\ LengthInv /\ FillInv /\ BufferInv /\ RingInv /\ Len(qtds) \in Nat
  BY DEF CleanInv, EnumInv, TypesInv
<1>1. UNCHANGED <<device, i, devDesc_conf, confBuffer>> BY Arrives
<1>2. Length(i)' = Length(i) /\ Conf(i)' = Conf(i) BY <1>1 DEF Length, Conf
<1>3. CASE pc' = pc BY <1>0, <1>1, <1>2, <1>3 DEF BufferInv
<1>4. CASE pc' # pc
  <2>1. pc = "wait_token" /\ pc' = after /\ Waiting /\ ~qh.active /\ qh.next = TERMINATE
    BY <1>4, Arrives DEF Waiting
  <2>2. Turn = Len(qtds) + 1 BY <2>1 DEF Turn
  <2>3. Serving BY <2>1 DEF Serving, HasOne
  <2>4. CASE pc' = "conf"
    <3>1. Turn > Before(3) + 2 BY <1>0, <2>2 DEF Before
    <3>2. devDesc_conf = Length(i) BY <1>0, <2>1, <2>4, <3>1 DEF LengthInv
    <3>3. QED BY <1>1, <1>2, <2>4, <3>2 DEF BufferInv
  <2>5. CASE pc' = "parse"
    <3>1. PICK w \in Nat : w = Length(i) BY <2>3, ServedConf
    <3> DEFINE n == Packets(w)
    <3>2. Len(confBuffer) = w /\ Filling(n) BY <1>0, <2>1, <2>5, <3>1 DEF FillInv
    <3>3. n \in Nat /\ n >= 2 /\ w <= (n - 2) * PacketSize BY PacketCount
    <3> HIDE DEF n
    <3>4. PacketSize \in Nat BY EnumAssumption
    <3>5. ASSUME NEW m \in 1..w PROVE confBuffer[m] = Conf(i)[m]
      <4>1. n # 2
        <5>1. n = 2 => (n - 2) * PacketSize = 0 BY <3>4
        <5>2. QED BY <3>3, <5>1
      <4>2. (n - 2) * PacketSize \in Int BY <3>3, <3>4
      <4>3. m <= (n - 2) * PacketSize BY <3>3, <4>2
      <4> DEFINE k == n - 2
      <4>4. k \in 1..n - 2 /\ m <= k * PacketSize BY <3>3, <4>1, <4>3
      <4>5. Turn > Before(n) + 1 + k BY <1>0, <2>2, <3>3 DEF Before
      <4> HIDE DEF k
      <4>6. QED BY <3>2, <4>4, <4>5 DEF Filling
    <3>6. QED BY <1>1, <1>2, <2>5, <3>1, <3>2, <3>5 DEF BufferInv
  <2>6. QED BY <2>4, <2>5
<1>5. QED BY <1>3, <1>4

-----------------------------------------------------------------------------
(* The parser.                                                              *)

LEMMA DeviceFixed == [Next]_vars => device' = device
<1> SUFFICES ASSUME [Next]_vars PROVE device' = device OBVIOUS
<1>1. CASE UNCHANGED core BY <1>1 DEF core
<1>2. CASE ~UNCHANGED core
  BY Steps, <1>2 DEF Moving, Starting, Retiring, EHCI_Reset, EHCI_Reset_confirm, EHCI_Init_start,
     reset_port, reset_port_end, next_port, EHCI_Init_return, wait_for_qh_next, wait_for_qh_token,
     not_a_disk, get_device_descriptor, set_address, get_total_length, get_configuration_descriptors,
     set_configuration, FetchQtd, ExecuteQtd, HaltQh
<1>3. QED BY <1>1, <1>2

\* What is in front of the parser, and the interface behind it.
LEMMA Parser ==
  ASSUME AllTruthful, TypesInv, EnumInv, CleanInv, pc = "parse"
  PROVE  /\ i \in Scanned /\ i \in Served /\ Length(i) \in Nat
         /\ Len(confBuffer) = Length(i) /\ \A n \in 1..Length(i) : confBuffer[n] = Conf(i)[n]
         /\ confBuffer_ptr \in Nat /\ confBuffer_ptr >= 2 /\ last_interfaceDesc \in 0..Length(i)
         /\ last_interfaceDesc = 0 => Class(last_interfaceDesc) = "none"
         /\ last_interfaceDesc # 0 => Class(last_interfaceDesc) = Conf(i)[last_interfaceDesc].class
         /\ \A t : Parsing(t) => /\ confBuffer_ptr \in 2..Length(i) /\ Here = Conf(i)[confBuffer_ptr]
                                 /\ Here.type = t /\ <<i, confBuffer_ptr>> \in Places
                                 /\ At(<<i, confBuffer_ptr>>) = Here
<1>1. Serving BY DEF Serving, HasOne
<1>2. i \in Scanned /\ i \in Served /\ Length(i) \in Nat BY <1>1, ServedConf
<1>3. Len(confBuffer) = Length(i) /\ \A n \in 1..Length(i) : confBuffer[n] = Conf(i)[n]
  BY DEF CleanInv, BufferInv
<1>4. confBuffer_ptr \in Nat /\ confBuffer_ptr >= 2 BY DEF CleanInv, ParseInv, TypesInv
<1>5. last_interfaceDesc \in 0..Length(i) BY <1>3 DEF TypesInv
<1>6. last_interfaceDesc # 0 => Class(last_interfaceDesc) = Conf(i)[last_interfaceDesc].class
  BY <1>2, <1>3, <1>5 DEF Class
<1>7. ASSUME NEW t, Parsing(t)
      PROVE  /\ confBuffer_ptr \in 2..Length(i) /\ Here = Conf(i)[confBuffer_ptr] /\ Here.type = t
             /\ <<i, confBuffer_ptr>> \in Places /\ At(<<i, confBuffer_ptr>>) = Here
  <2>1. confBuffer_ptr \in 2..Length(i) /\ confBuffer_ptr \in 1..Length(i)
    BY <1>2, <1>3, <1>4, <1>7 DEF Parsing
  <2>2. Here = Conf(i)[confBuffer_ptr] /\ Here.type = t BY <1>3, <1>7, <2>1 DEF Parsing, Here
  <2>3. <<i, confBuffer_ptr>> \in Places BY <1>2, <2>1, PlaceFacts
  <2>4. QED BY <2>1, <2>2, <2>3 DEF At
<1>8. last_interfaceDesc = 0 => Class(last_interfaceDesc) = "none" BY DEF Class
<1>9. QED BY <1>2, <1>3, <1>4, <1>5, <1>6, <1>7, <1>8

LEMMA StepParse ==
  ASSUME AllTruthful, TypesInv, EnumInv, CleanInv, [Next]_vars, ~HaltQh
  PROVE  ParseInv'
<1> SUFFICES ASSUME pc' = "parse" PROVE ParseInv' BY DEF ParseInv
<1>0. FillInv /\ ParseInv BY DEF CleanInv
<1>1. UNCHANGED <<device, i>> BY Arrives
<1>2. Length(i)' = Length(i) /\ Conf(i)' = Conf(i) BY <1>1 DEF Length, Conf
<1>3. CASE pc # "parse"
  <2>1. /\ pc = "wait_token" /\ after = "parse" /\ Waiting
        /\ UNCHANGED <<confBuffer_ptr, last_interfaceDesc>>
    BY <1>3, Arrives DEF Waiting
  <2>2. confBuffer_ptr' = 2 /\ last_interfaceDesc' = 0 BY <1>0, <2>1 DEF FillInv
  <2>3. Serving BY <2>1 DEF Serving, HasOne
  <2>4. Length(i) \in Nat BY <2>3, ServedConf
  <2>5. QED BY <1>2, <2>2, <2>4 DEF ParseInv
<1>4. CASE pc = "parse" /\ UNCHANGED <<confBuffer_ptr, last_interfaceDesc, ehci_msb_internals>>
  BY <1>0, <1>1, <1>2, <1>4 DEF ParseInv
<1>5. CASE pc = "parse" /\ Parse
  <2> DEFINE ptr == confBuffer_ptr
             c == Conf(i)[ptr]
  <2>1. /\ i \in Scanned /\ device[i].speed = "high" /\ Length(i) \in Nat
        /\ ptr \in Nat /\ ptr >= 2 /\ last_interfaceDesc \in 0..Length(i)
        /\ \A t : Parsing(t) => ptr \in 2..Length(i) /\ Here = c /\ c.type = t
    BY <1>5, Parser DEF Served
  <2>2. /\ last_interfaceDesc # 0 => /\ last_interfaceDesc \in 2..Length(i) /\ last_interfaceDesc < ptr
                                     /\ Conf(i)[last_interfaceDesc].type = "interface"
        /\ \A n \in 2..Length(i) : Conf(i)[n].type = "interface" /\ n < ptr => n <= last_interfaceDesc
    BY <1>0, <1>5 DEF ParseInv
  <2>3. CASE interface_descriptor
    <3>1. /\ ptr \in 2..Length(i) /\ c.type = "interface" /\ confBuffer_ptr' = ptr + 1 /\ last_interfaceDesc' = ptr
      BY <2>1, <2>3 DEF interface_descriptor, Advance
    <3> HIDE DEF ptr
    <3>2. \A n \in 2..Length(i) : n < ptr + 1 => n <= ptr BY <2>1
    <3>3. QED BY <1>2, <2>1, <3>1, <3>2 DEF ParseInv
  \* Nothing that is passed over is an interface.
  <2>4. ASSUME NEW w \in Nat, confBuffer_ptr' = ptr + w, last_interfaceDesc' = last_interfaceDesc,
               \A n \in 2..Length(i) : n >= ptr /\ n < ptr + w => Conf(i)[n].type # "interface"
        PROVE  ParseInv'
    <3> HIDE DEF ptr
    <3>1. \A n \in 2..Length(i) : Conf(i)[n].type = "interface" /\ n < ptr + w => n <= last_interfaceDesc
      BY <2>1, <2>2, <2>4
    <3>2. last_interfaceDesc # 0 => last_interfaceDesc < ptr + w BY <2>1, <2>2
    <3>3. ptr + w >= 2 BY <2>1
    <3>4. QED BY <1>1, <1>2, <2>2, <2>4, <3>1, <3>2, <3>3 DEF ParseInv
  <2>5. CASE endpoint_descriptor \/ association_descriptor \/ video_endpoint_descriptor
    <3>1. /\ ptr \in 2..Length(i) /\ c.type # "interface" /\ confBuffer_ptr' = ptr + 1
          /\ last_interfaceDesc' = last_interfaceDesc
      BY <2>1, <2>5 DEF endpoint_descriptor, association_descriptor, video_endpoint_descriptor, Advance
    <3> HIDE DEF ptr
    <3>2. \A n \in 2..Length(i) : n >= ptr /\ n < ptr + 1 => n = ptr BY <2>1
    <3>3. QED BY <2>4, <3>1, <3>2
  <2>6. CASE video_header_descriptor
    <3>1. /\ ptr \in 2..Length(i) /\ c.type = "cs_interface" /\ confBuffer_ptr' = ptr + c.wTotalLength
          /\ last_interfaceDesc' = last_interfaceDesc
      BY <2>1, <2>6 DEF video_header_descriptor, Advance
    <3> HIDE DEF ptr
    <3>2. ptr \in 1..Length(i) BY <2>1, <3>1
    <3>3. /\ c.wTotalLength \in Nat
          /\ \A m \in 1..Length(i) : Conf(i)[m].type = "interface" /\ ptr < m => ptr + c.wTotalLength <= m
      BY <2>1, <3>1, <3>2, ConfFacts DEF WellFormed
    <3>4. PICK w \in Nat : w = c.wTotalLength BY <3>3
    <3>5. \A n \in 2..Length(i) : n >= ptr /\ n < ptr + w => Conf(i)[n].type # "interface"
      <4>1. TAKE n \in 2..Length(i)
      <4>2. n = ptr => Conf(i)[n].type # "interface" BY <3>1
      <4>3. n \in 1..Length(i) BY <2>1
      <4>4. Conf(i)[n].type = "interface" /\ ptr < n => ptr + w <= n BY <3>3, <3>4, <4>3
      <4>5. QED BY <2>1, <4>2, <4>4
    <3>6. QED BY <2>4, <3>1, <3>4, <3>5
  <2>7. CASE set_configuration \/ not_a_disk BY <2>7 DEF set_configuration, not_a_disk, Submit
  <2>8. QED BY <1>5, <2>3, <2>5, <2>6, <2>7 DEF Parse
<1>6. QED BY <1>3, <1>4, <1>5, Arrives

-----------------------------------------------------------------------------
(* What the result says of the places behind the parser.                    *)

LEMMA KindsFixed ==
  ASSUME device' = device
  PROVE  /\ Places' = Places /\ Interfaces' = Interfaces /\ Inputs' = Inputs /\ Outputs' = Outputs
         /\ Served' = Served /\ Disks' = Disks /\ \A p : Conf(p)' = Conf(p)
<1>1. Served' = Served /\ \A p : Conf(p)' = Conf(p) BY DEF Served, Conf
<1>2. Places' = Places BY <1>1 DEF Places, Conf, Served
<1>3. Interfaces' = Interfaces BY <1>2 DEF Interfaces, At, Conf
<1>4. Inputs' = Inputs BY <1>2 DEF Inputs, At, OfDisk, Conf
<1>5. Outputs' = Outputs BY <1>2 DEF Outputs, At, OfDisk, Conf
<1>6. Disks' = Disks BY DEF Disks, Served, Conf
<1>7. QED BY <1>1, <1>2, <1>3, <1>4, <1>5, <1>6

LEMMA NumberKept ==
  ASSUME NumberInv, device' = device, (Interfaces \cap Behind)' = Interfaces \cap Behind,
         ehci_msb_internals'.nr = ehci_msb_internals.nr
  PROVE  NumberInv'
<1>1. NumberOf' = NumberOf BY KindsFixed DEF NumberOf, At, Conf
<1>2. QED BY <1>1 DEF NumberInv, Shown

LEMMA InputKept ==
  ASSUME InputInv, device' = device, (Inputs \cap Behind)' = Inputs \cap Behind,
         ehci_msb_internals'.in = ehci_msb_internals.in, ehci_msb_internals'.s_in = ehci_msb_internals.s_in
  PROVE  InputInv'
<1>1. InputOf' = InputOf BY KindsFixed DEF InputOf, At, Conf
<1>2. QED BY <1>1 DEF InputInv, Shown

LEMMA OutputKept ==
  ASSUME OutputInv, device' = device, (Outputs \cap Behind)' = Outputs \cap Behind,
         ehci_msb_internals'.out = ehci_msb_internals.out, ehci_msb_internals'.s_out = ehci_msb_internals.s_out
  PROVE  OutputInv'
<1>1. OutputOf' = OutputOf BY KindsFixed DEF OutputOf, At, Conf
<1>2. QED BY <1>1 DEF OutputInv, Shown

\* No place comes to be behind the parser.
LEMMA ShownKept ==
  ASSUME ShownInv, device' = device, \A x \in Places : Seen(x)' <=> Seen(x),
         ehci_msb_internals'.nr = ehci_msb_internals.nr,
         ehci_msb_internals'.in = ehci_msb_internals.in, ehci_msb_internals'.s_in = ehci_msb_internals.s_in,
         ehci_msb_internals'.out = ehci_msb_internals.out, ehci_msb_internals'.s_out = ehci_msb_internals.s_out
  PROVE  ShownInv'
<1>1. Behind' = Behind BY KindsFixed, Zenon DEF Behind
<1>2. /\ (Interfaces \cap Behind)' = Interfaces \cap Behind /\ (Inputs \cap Behind)' = Inputs \cap Behind
      /\ (Outputs \cap Behind)' = Outputs \cap Behind
  BY <1>1, KindsFixed
<1>3. QED BY <1>2, NumberKept, InputKept, OutputKept DEF ShownInv

\* An endpoint is one of a disk's if the interface behind the parser is, and
\* there is none between.
LEMMA OwnerKnown ==
  ASSUME AllTruthful, TypesInv, EnumInv, CleanInv, pc = "parse", NEW n \in Nat, n >= confBuffer_ptr,
         \A k \in 2..n - 1 : k >= confBuffer_ptr => Conf(i)[k].type # "interface",
         n <= Length(i)
  PROVE  OfDisk(<<i, n>>) <=> Class(last_interfaceDesc) = "bulk_only"
<1>1. /\ Length(i) \in Nat /\ confBuffer_ptr \in Nat /\ last_interfaceDesc \in 0..Length(i)
      /\ last_interfaceDesc = 0 => Class(last_interfaceDesc) = "none"
      /\ last_interfaceDesc # 0 => Class(last_interfaceDesc) = Conf(i)[last_interfaceDesc].class
  BY Parser
<1>2. /\ last_interfaceDesc # 0 => /\ last_interfaceDesc \in 2..Length(i)
                                   /\ last_interfaceDesc < confBuffer_ptr
                                   /\ Conf(i)[last_interfaceDesc].type = "interface"
      /\ \A k \in 2..Length(i) : Conf(i)[k].type = "interface" /\ k < confBuffer_ptr => k <= last_interfaceDesc
  BY DEF CleanInv, ParseInv
<1>3. \A k \in 2..n - 1 : Conf(i)[k].type = "interface" => k <= last_interfaceDesc
  <2>1. TAKE k \in 2..n - 1
  <2>2. k \in 2..Length(i) /\ k \in Nat BY <1>1
  <2>3. QED BY <1>1, <1>2, <2>2
<1>4. OfDisk(<<i, n>>) <=> \E m \in 2..n - 1 : /\ Wanted(Conf(i)[m])
                                               /\ \A k \in m + 1..n - 1 : Conf(i)[k].type # "interface"
  BY DEF OfDisk
<1>5. ASSUME NEW m \in 2..n - 1, Wanted(Conf(i)[m]), \A k \in m + 1..n - 1 : Conf(i)[k].type # "interface"
      PROVE  Class(last_interfaceDesc) = "bulk_only"
  <2>1. m <= last_interfaceDesc /\ Conf(i)[m].class = "bulk_only" BY <1>3, <1>5 DEF Wanted
  <2>2. last_interfaceDesc # 0 BY <2>1
  <2>3. ~(last_interfaceDesc \in m + 1..n - 1) BY <1>2, <1>5, <2>2
  <2>4. last_interfaceDesc = m BY <1>1, <1>2, <2>1, <2>2, <2>3
  <2>5. QED BY <1>1, <2>1, <2>2, <2>4
<1>6. ASSUME Class(last_interfaceDesc) = "bulk_only"
      PROVE  \E m \in 2..n - 1 : /\ Wanted(Conf(i)[m])
                                 /\ \A k \in m + 1..n - 1 : Conf(i)[k].type # "interface"
  <2>1. last_interfaceDesc # 0 BY <1>1, <1>6
  <2>2. last_interfaceDesc \in 2..n - 1 /\ Wanted(Conf(i)[last_interfaceDesc])
    BY <1>1, <1>2, <1>6, <2>1 DEF Wanted
  <2>3. ASSUME NEW k \in last_interfaceDesc + 1..n - 1 PROVE Conf(i)[k].type # "interface"
    <3>1. k \in 2..n - 1 /\ ~(k <= last_interfaceDesc) BY <1>1, <2>2
    <3>2. QED BY <1>3, <3>1
  <2>4. QED BY <2>2, <2>3
<1>7. QED BY <1>4, <1>5, <1>6

\* The place in front of the parser is the last when it is behind.
LEMMA LatestShown ==
  ASSUME NEW A, NEW B, NEW x, B = A \cup {x}, \A y \in A : ~After(y, x), ~After(x, x)
  PROVE  IsLast(x, B)
BY DEF IsLast

\* A step of the parser over one descriptor.
LEMMA OverOne ==
  ASSUME AllTruthful, TypesInv, EnumInv, CleanInv, NEW t, Parsing(t), pc' = pc, i' = i,
         after' = after, device' = device, confBuffer_ptr' = confBuffer_ptr + 1
  PROVE  LET x == <<i, confBuffer_ptr>>
         IN  /\ x \in Places
             /\ Behind' = Behind \cup {x}
             /\ \A y \in Behind : ~After(y, x)
             /\ ~After(x, x)
<1> DEFINE x == <<i, confBuffer_ptr>>
<1>1. pc = "parse" BY DEF Parsing
<1>2. x \in Places /\ confBuffer_ptr \in Nat /\ i \in Nat BY <1>1, Parser, PortRange
<1>3. \A y \in Places : y = <<y[1], y[2]>> /\ y[1] \in Nat /\ y[2] \in Nat BY PlaceFacts
<1>4. ~Passed /\ ~Passed' BY <1>1 DEF Passed, Waiting
<1>5. \A y \in Places : Seen(y) <=> y[1] < i \/ (y[1] = i /\ y[2] < confBuffer_ptr)
  BY <1>1, <1>4 DEF Seen
<1>6. \A y \in Places : Seen(y)' <=> y[1] < i \/ (y[1] = i /\ y[2] < confBuffer_ptr + 1)
  BY <1>1, <1>4 DEF Seen
<1>7. ASSUME NEW y \in Places PROVE Seen(y)' <=> Seen(y) \/ y = x
  <2>1. y[1] \in Nat /\ y[2] \in Nat /\ y = <<y[1], y[2]>> BY <1>3
  <2>2. (y = x) <=> y[1] = i /\ y[2] = confBuffer_ptr BY <2>1
  <2>3. y[2] < confBuffer_ptr + 1 <=> y[2] < confBuffer_ptr \/ y[2] = confBuffer_ptr BY <1>2, <2>1
  <2> HIDE DEF x
  <2>4. QED BY <1>5, <1>6, <2>2, <2>3
<1>8. Places' = Places BY KindsFixed
<1>9. Behind' = Behind \cup {x}
  <2> HIDE DEF x
  <2>1. QED BY <1>2, <1>7, <1>8, Zenon DEF Behind
<1>10. ASSUME NEW y \in Behind PROVE ~After(y, x)
  <2>1. y \in Places /\ Seen(y) BY DEF Behind
  <2>2. y[1] < i \/ (y[1] = i /\ y[2] < confBuffer_ptr) BY <1>5, <2>1
  <2>3. y[1] \in Nat /\ y[2] \in Nat BY <1>3, <2>1
  <2>4. QED BY <1>2, <2>2, <2>3 DEF After
<1>11. ~After(x, x) BY <1>2 DEF After
<1>12. QED BY <1>2, <1>9, <1>10, <1>11

\* Descriptors of no kind are passed over.
LEMMA OtherKept ==
  ASSUME ShownInv, device' = device, ehci_msb_internals' = ehci_msb_internals, NEW S,
         Behind' = Behind \cup S,
         \A x \in S : x \notin Interfaces /\ x \notin Inputs /\ x \notin Outputs
  PROVE  ShownInv'
<1>1. /\ (Interfaces \cap Behind)' = Interfaces \cap Behind /\ (Inputs \cap Behind)' = Inputs \cap Behind
      /\ (Outputs \cap Behind)' = Outputs \cap Behind
  <2>1. Interfaces' = Interfaces /\ Inputs' = Inputs /\ Outputs' = Outputs BY KindsFixed
  <2>2. QED BY <2>1
<1>2. QED BY <1>1, NumberKept, InputKept, OutputKept DEF ShownInv

LEMMA StepInterface ==
  ASSUME AllTruthful, TypesInv, EnumInv, CleanInv, interface_descriptor
  PROVE  ShownInv'
<1>0. PICK x : x = <<i, confBuffer_ptr>> OBVIOUS
<1>1. /\ Parsing("interface") /\ pc = "parse" /\ UNCHANGED <<device, pc, after, i>>
      /\ confBuffer_ptr' = confBuffer_ptr + 1
      /\ ehci_msb_internals' = IF Here.class = "bulk_only"
           THEN [ehci_msb_internals EXCEPT !.nr = Here.bInterfaceNumber] ELSE ehci_msb_internals
  BY DEF interface_descriptor, Advance, Parsing
<1>2. x \in Places /\ Behind' = Behind \cup {x} /\ (\A y \in Behind : ~After(y, x)) /\ ~After(x, x)
  BY <1>0, <1>1, OverOne
<1>3. Here.type = "interface" /\ At(x) = Here BY <1>0, <1>1, Parser
<1>4. x \notin Inputs /\ x \notin Outputs BY <1>3 DEF Inputs, Outputs, Inward, Outward
<1>5. x \in Interfaces <=> Here.class = "bulk_only" BY <1>2, <1>3 DEF Interfaces, Wanted
<1>6. NumberInv /\ InputInv /\ OutputInv /\ ShownInv /\ ehci_msb_internals \in DISK
  BY DEF CleanInv, ShownInv, TypesInv
<1>7. Interfaces' = Interfaces /\ Inputs' = Inputs /\ Outputs' = Outputs /\ Places' = Places BY <1>1, KindsFixed
<1>8. CASE Here.class # "bulk_only"
  <2>1. PICK S : S = {x} OBVIOUS
  <2>2. \A y \in S : y \notin Interfaces /\ y \notin Inputs /\ y \notin Outputs BY <1>4, <1>5, <2>1, <1>8
  <2>3. Behind' = Behind \cup S BY <1>2, <2>1
  <2>4. QED BY <1>1, <1>6, <1>8, <2>2, <2>3, OtherKept
<1>9. CASE Here.class = "bulk_only"
  <2>1. ehci_msb_internals' = [ehci_msb_internals EXCEPT !.nr = Here.bInterfaceNumber] BY <1>1, <1>9
  <2>2. /\ ehci_msb_internals'.nr = Here.bInterfaceNumber
        /\ ehci_msb_internals'.in = ehci_msb_internals.in /\ ehci_msb_internals'.s_in = ehci_msb_internals.s_in
        /\ ehci_msb_internals'.out = ehci_msb_internals.out /\ ehci_msb_internals'.s_out = ehci_msb_internals.s_out
    BY <1>6, <2>1 DEF DISK
  <2>3. InputInv' /\ OutputInv'
    <3>1. (Inputs \cap Behind)' = Inputs \cap Behind /\ (Outputs \cap Behind)' = Outputs \cap Behind
      BY <1>2, <1>4, <1>7
    <3>2. QED BY <1>1, <1>6, <2>2, <3>1, InputKept, OutputKept
  <2>4. (Interfaces \cap Behind)' = (Interfaces \cap Behind) \cup {x} BY <1>2, <1>5, <1>7, <1>9
  <2>5. IsLast(x, (Interfaces \cap Behind)') BY <1>2, <2>4, LatestShown
  <2>6. At(x)' = Here BY <1>1, <1>3 DEF At, Conf
  <2>7. x \in NumberOf' BY <1>2, <1>7, <2>2, <2>6 DEF NumberOf
  <2>8. NumberInv' BY <2>5, <2>7 DEF NumberInv, Shown
  <2>9. QED BY <2>3, <2>8 DEF ShownInv
<1>10. QED BY <1>8, <1>9

LEMMA StepEndpoint ==
  ASSUME AllTruthful, TypesInv, EnumInv, CleanInv, endpoint_descriptor
  PROVE  ShownInv'
<1>0. PICK x : x = <<i, confBuffer_ptr>> OBVIOUS
<1>1. /\ Parsing("endpoint") /\ pc = "parse" /\ UNCHANGED <<device, pc, after, i>>
      /\ confBuffer_ptr' = confBuffer_ptr + 1
      /\ ehci_msb_internals' =
           IF Class(last_interfaceDesc) # "bulk_only" THEN ehci_msb_internals
           ELSE IF Here.bEndpointAddress >= 128
                THEN [ehci_msb_internals EXCEPT !.in = Here.bEndpointAddress % 16, !.s_in = Here.wMaxPacketSize]
                ELSE [ehci_msb_internals EXCEPT !.out = Here.bEndpointAddress % 16, !.s_out = Here.wMaxPacketSize]
  BY DEF endpoint_descriptor, Advance, Parsing
<1>2. x \in Places /\ Behind' = Behind \cup {x} /\ (\A y \in Behind : ~After(y, x)) /\ ~After(x, x)
  BY <1>0, <1>1, OverOne
<1>3. /\ Here.type = "endpoint" /\ At(x) = Here /\ i \in Served /\ Length(i) \in Nat
      /\ confBuffer_ptr \in 2..Length(i) /\ Here = Conf(i)[confBuffer_ptr]
  BY <1>0, <1>1, Parser
<1>4. x \notin Interfaces BY <1>3 DEF Interfaces, Wanted
<1>5. OfDisk(x) <=> Class(last_interfaceDesc) = "bulk_only"
  <2>1. confBuffer_ptr \in Nat /\ confBuffer_ptr >= confBuffer_ptr /\ confBuffer_ptr <= Length(i) BY <1>3
  <2>2. \A k \in 2..confBuffer_ptr - 1 : ~(k >= confBuffer_ptr) BY <1>3
  <2>3. QED BY <1>0, <1>1, <2>1, <2>2, OwnerKnown
<1>6. NumberInv /\ InputInv /\ OutputInv /\ ShownInv /\ ehci_msb_internals \in DISK
  BY DEF CleanInv, ShownInv, TypesInv
<1>7. Interfaces' = Interfaces /\ Inputs' = Inputs /\ Outputs' = Outputs /\ Places' = Places BY <1>1, KindsFixed
<1>8. Here.bEndpointAddress \in 0..255
  <2>1. i \in Scanned /\ device[i].speed = "high" /\ confBuffer_ptr \in 1..Length(i) BY <1>3 DEF Served
  <2>2. QED BY <1>3, <2>1, ConfFacts DEF WellFormed
<1>9. CASE Class(last_interfaceDesc) # "bulk_only"
  <2>1. PICK S : S = {x} OBVIOUS
  <2>2. \A y \in S : y \notin Interfaces /\ y \notin Inputs /\ y \notin Outputs
    BY <1>4, <1>5, <2>1, <1>9 DEF Inputs, Outputs
  <2>3. Behind' = Behind \cup S BY <1>2, <2>1
  <2>4. QED BY <1>1, <1>6, <1>9, <2>2, <2>3, OtherKept
<1>10. At(x)' = Here BY <1>1, <1>3 DEF At, Conf
<1>11. CASE Class(last_interfaceDesc) = "bulk_only" /\ Here.bEndpointAddress >= 128
  <2>1. ehci_msb_internals' = [ehci_msb_internals EXCEPT !.in = Here.bEndpointAddress % 16,
                                                         !.s_in = Here.wMaxPacketSize]
    BY <1>1, <1>11
  <2>2. /\ ehci_msb_internals'.in = Here.bEndpointAddress % 16 /\ ehci_msb_internals'.s_in = Here.wMaxPacketSize
        /\ ehci_msb_internals'.nr = ehci_msb_internals.nr
        /\ ehci_msb_internals'.out = ehci_msb_internals.out /\ ehci_msb_internals'.s_out = ehci_msb_internals.s_out
    BY <1>6, <2>1 DEF DISK
  <2>3. x \in Inputs BY <1>2, <1>3, <1>5, <1>11 DEF Inputs, Inward
  <2>4. x \notin Outputs BY <1>3, <1>8, <1>11 DEF Outputs, Outward
  <2>5. NumberInv' /\ OutputInv'
    <3>1. /\ (Interfaces \cap Behind)' = Interfaces \cap Behind
          /\ (Outputs \cap Behind)' = Outputs \cap Behind
      BY <1>2, <1>4, <1>7, <2>4
    <3>2. QED BY <1>1, <1>6, <2>2, <3>1, NumberKept, OutputKept
  <2>6. (Inputs \cap Behind)' = (Inputs \cap Behind) \cup {x} BY <1>2, <1>7, <2>3
  <2>7. IsLast(x, (Inputs \cap Behind)') BY <1>2, <2>6, LatestShown
  <2>8. x \in InputOf' BY <1>2, <1>7, <1>10, <2>2 DEF InputOf
  <2>9. InputInv' BY <2>7, <2>8 DEF InputInv, Shown
  <2>10. QED BY <2>5, <2>9 DEF ShownInv
<1>12. CASE Class(last_interfaceDesc) = "bulk_only" /\ ~(Here.bEndpointAddress >= 128)
  <2>1. ehci_msb_internals' = [ehci_msb_internals EXCEPT !.out = Here.bEndpointAddress % 16,
                                                         !.s_out = Here.wMaxPacketSize]
    BY <1>1, <1>12
  <2>2. /\ ehci_msb_internals'.out = Here.bEndpointAddress % 16 /\ ehci_msb_internals'.s_out = Here.wMaxPacketSize
        /\ ehci_msb_internals'.nr = ehci_msb_internals.nr
        /\ ehci_msb_internals'.in = ehci_msb_internals.in /\ ehci_msb_internals'.s_in = ehci_msb_internals.s_in
    BY <1>6, <2>1 DEF DISK
  <2>3. x \notin Inputs BY <1>3, <1>12 DEF Inputs, Inward
  <2>4. x \in Outputs BY <1>2, <1>3, <1>5, <1>8, <1>12 DEF Outputs, Outward
  <2>5. NumberInv' /\ InputInv'
    <3>1. (Interfaces \cap Behind)' = Interfaces \cap Behind /\ (Inputs \cap Behind)' = Inputs \cap Behind
      BY <1>2, <1>4, <1>7, <2>3
    <3>2. QED BY <1>1, <1>6, <2>2, <3>1, NumberKept, InputKept
  <2>6. (Outputs \cap Behind)' = (Outputs \cap Behind) \cup {x} BY <1>2, <1>7, <2>4
  <2>7. IsLast(x, (Outputs \cap Behind)') BY <1>2, <2>6, LatestShown
  <2>8. x \in OutputOf' BY <1>2, <1>7, <1>10, <2>2 DEF OutputOf
  <2>9. OutputInv' BY <2>7, <2>8 DEF OutputInv, Shown
  <2>10. QED BY <2>5, <2>9 DEF ShownInv
<1>13. QED BY <1>9, <1>11, <1>12

\* A video header leads over descriptors that are no disk's.
LEMMA StepHeader ==
  ASSUME AllTruthful, TypesInv, EnumInv, CleanInv, video_header_descriptor
  PROVE  ShownInv'
<1>1. /\ Parsing("cs_interface") /\ pc = "parse" /\ UNCHANGED <<device, pc, after, i>>
      /\ Class(last_interfaceDesc) = "video" /\ ehci_msb_internals' = ehci_msb_internals
      /\ confBuffer_ptr' = confBuffer_ptr + Here.wTotalLength
  BY DEF video_header_descriptor, Advance, Parsing
<1>2. /\ Here.type = "cs_interface" /\ i \in Served /\ i \in Scanned /\ Length(i) \in Nat
      /\ confBuffer_ptr \in 2..Length(i) /\ Here = Conf(i)[confBuffer_ptr] /\ device[i].speed = "high"
  BY <1>1, Parser DEF Served
<1>3. /\ Here.wTotalLength \in Nat
      /\ \A m \in 1..Length(i) : Conf(i)[m].type = "interface" /\ confBuffer_ptr < m =>
           confBuffer_ptr + Here.wTotalLength <= m
  <2>1. confBuffer_ptr \in 1..Length(i) BY <1>2
  <2>2. QED BY <1>2, <2>1, ConfFacts DEF WellFormed
<1>4. PICK S : S = {x \in Places : x[1] = i /\ x[2] >= confBuffer_ptr /\ x[2] < confBuffer_ptr'} OBVIOUS
<1>5. \A x \in Places : x[1] \in Nat /\ x[2] \in 2..Length(x[1]) /\ x[2] \in Nat /\ x = <<x[1], x[2]>>
  BY PlaceFacts
<1>6. Behind' = Behind \cup S
  <2>1. ~Passed /\ ~Passed' BY <1>1 DEF Passed, Waiting
  <2>2. ASSUME NEW x \in Places PROVE Seen(x)' <=> Seen(x) \/ x \in S
    <3>1. Seen(x) <=> x[1] < i \/ (x[1] = i /\ x[2] < confBuffer_ptr) BY <1>1, <2>1 DEF Seen
    <3>2. Seen(x)' <=> x[1] < i \/ (x[1] = i /\ x[2] < confBuffer_ptr') BY <1>1, <2>1 DEF Seen
    <3>3. x[2] < confBuffer_ptr' <=> x[2] < confBuffer_ptr \/ (x[2] >= confBuffer_ptr /\ x[2] < confBuffer_ptr')
      <4>1. PICK t \in Nat : t = confBuffer_ptr' BY <1>1, <1>2, <1>3
      <4>2. x[2] \in Nat /\ confBuffer_ptr \in Nat /\ confBuffer_ptr <= t BY <1>1, <1>2, <1>3, <1>5, <4>1
      <4>3. QED BY <4>1, <4>2
    <3>4. x \in S <=> x[1] = i /\ x[2] >= confBuffer_ptr /\ x[2] < confBuffer_ptr' BY <1>4
    <3>5. QED BY <3>1, <3>2, <3>3, <3>4
  <2>3. Places' = Places BY <1>1, KindsFixed
  <2>4. S \subseteq Places BY <1>4
  <2>5. QED BY <2>2, <2>3, <2>4, Zenon DEF Behind
<1>7. ASSUME NEW x \in S PROVE x \notin Interfaces /\ x \notin Inputs /\ x \notin Outputs
  <2>1. PICK n \in Nat : n = x[2] BY <1>4, <1>5
  <2>2. /\ x \in Places /\ x = <<i, n>> /\ n \in 2..Length(i) /\ n >= confBuffer_ptr
        /\ n < confBuffer_ptr + Here.wTotalLength
    BY <1>1, <1>4, <1>5, <2>1
  <2>3. \A k \in 2..n : k >= confBuffer_ptr => Conf(i)[k].type # "interface"
    <3>1. TAKE k \in 2..n
    <3>2. k \in 1..Length(i) /\ k < confBuffer_ptr + Here.wTotalLength BY <1>2, <1>3, <2>2
    <3>3. k = confBuffer_ptr => Conf(i)[k].type # "interface" BY <1>2
    <3>4. k > confBuffer_ptr /\ Conf(i)[k].type = "interface" => confBuffer_ptr + Here.wTotalLength <= k
      BY <1>3, <3>2
    <3>5. QED BY <1>2, <1>3, <3>2, <3>3, <3>4
  <2>4. OfDisk(<<i, n>>) <=> Class(last_interfaceDesc) = "bulk_only"
    <3>1. \A k \in 2..n - 1 : k >= confBuffer_ptr => Conf(i)[k].type # "interface" BY <2>3
    <3>2. n <= Length(i) BY <1>2, <2>2
    <3>3. QED BY <1>1, <2>2, <3>1, <3>2, OwnerKnown
  <2>5. ~OfDisk(x) BY <1>1, <2>2, <2>4
  <2>6. At(x) = Conf(i)[n] /\ n \in 2..n BY <2>2 DEF At
  <2>7. At(x).type # "interface" BY <2>2, <2>3, <2>6
  <2>8. QED BY <2>5, <2>7 DEF Interfaces, Inputs, Outputs, Wanted
<1>8. ShownInv BY DEF CleanInv
<1>9. QED BY <1>1, <1>6, <1>7, <1>8, OtherKept

LEMMA StepOther ==
  ASSUME AllTruthful, TypesInv, EnumInv, CleanInv, association_descriptor \/ video_endpoint_descriptor
  PROVE  ShownInv'
<1>0. PICK x : x = <<i, confBuffer_ptr>> OBVIOUS
<1>1. PICK t \in {"association", "cs_endpoint"} :
        /\ Parsing(t) /\ pc = "parse" /\ UNCHANGED <<device, pc, after, i>>
        /\ confBuffer_ptr' = confBuffer_ptr + 1 /\ ehci_msb_internals' = ehci_msb_internals
  BY DEF association_descriptor, video_endpoint_descriptor, Advance, Parsing
<1>2. x \in Places /\ Behind' = Behind \cup {x} BY <1>0, <1>1, OverOne
<1>3. At(x).type = t BY <1>0, <1>1, Parser
<1>4. PICK S : S = {x} OBVIOUS
<1>5. \A y \in S : y \notin Interfaces /\ y \notin Inputs /\ y \notin Outputs
  BY <1>1, <1>3, <1>4 DEF Interfaces, Inputs, Outputs, Wanted, Inward, Outward
<1>6. ShownInv /\ Behind' = Behind \cup S BY <1>2, <1>4 DEF CleanInv
<1>7. QED BY <1>1, <1>5, <1>6, OtherKept

LEMMA StepShown ==
  ASSUME AllTruthful, TypesInv, EnumInv, CleanInv, [Next]_vars, ~HaltQh
  PROVE  ShownInv'
<1> USE DEF locals, Goto
<1>0. /\ FillInv /\ ShownInv /\ PlaceInv /\ RingInv /\ i \in Nat /\ device' = device
      /\ ehci_msb_internals \in DISK
  BY PortRange, DeviceFixed DEF CleanInv, EnumInv, TypesInv
<1>a. \A x \in Places : x[1] \in Served /\ x[1] \in Nat /\ x[2] \in Nat /\ x[1] >= 1 /\ x[2] >= 2
                        /\ x[2] <= Length(x[1])
  <2>1. TAKE x \in Places
  <2>2. x[1] \in Served /\ x[1] \in Scanned /\ x[2] \in 2..Length(x[1]) BY PlaceFacts
  <2>3. Length(x[1]) \in Nat BY <2>2, ConfFacts DEF Served
  <2>4. QED BY <2>2, <2>3, PortRange
\* Nothing changes between two parsers.
<1>1. ASSUME UNCHANGED <<ehci_msb_internals, i>>, Passed' <=> Passed, pc # "parse", pc' # "parse"
      PROVE  ShownInv'
  <2>1. \A x \in Places : Seen(x)' <=> Seen(x) BY <1>1 DEF Seen
  <2>2. QED BY <1>0, <1>1, <2>1, ShownKept
<1>2. CASE UNCHANGED vars \/ BiosReleases
  <2>1. UNCHANGED <<ehci_msb_internals, pc, after, i, confBuffer_ptr>> BY <1>2 DEF vars, BiosReleases
  <2>2. \A x \in Places : Seen(x)' <=> Seen(x) BY <2>1 DEF Seen, Passed, Waiting
  <2>3. QED BY <1>0, <2>1, <2>2, ShownKept
<1>3. CASE EHCI_Reset \/ EHCI_Reset_confirm \/ EHCI_Init_return \/ reset_port
  <2>1. /\ UNCHANGED <<ehci_msb_internals, i>>
        /\ pc \in {"EHCI_Reset", "confirm", "reset"} /\ pc' \in {"confirm", "EHCI_Init", "done", "reset_end"}
    BY <1>3 DEF EHCI_Reset, EHCI_Reset_confirm, EHCI_Init_return, reset_port
  <2>2. QED BY <1>1, <2>1 DEF Passed, Waiting
<1>4. CASE EHCI_Init_start
  <2>1. i' = 1 /\ pc' = "reset" /\ ehci_msb_internals' = Nowhere BY <1>4 DEF EHCI_Init_start
  <2>2. Places' = Places BY <1>0, KindsFixed
  <2>3. \A x \in Places : ~Seen(x)'
    <3>1. TAKE x \in Places
    <3>2. ~(x[1] < 1) BY <1>a
    <3>3. QED BY <2>1, <3>2 DEF Seen, Passed, Waiting
  <2>4. Behind' = {} BY <2>2, <2>3 DEF Behind
  <2>5. QED BY <2>1, <2>4 DEF ShownInv, NumberInv, InputInv, OutputInv, Shown, Nowhere
<1>5. CASE reset_port_end
  <2>1. /\ pc = "reset_end" /\ pc' = IF port'[i].enabled THEN "device" ELSE "next"
        /\ port' = [port EXCEPT ![i].enabled = (device[i].speed = "high")]
        /\ UNCHANGED <<ehci_msb_internals, i>>
    BY <1>5 DEF reset_port_end
  <2>2. CASE pc' = "device" BY <1>1, <2>1, <2>2 DEF Passed, Waiting
  <2>3. CASE pc' = "next"
    <3>1. i \in Ports BY <1>0, <2>1, PortRange DEF PlaceInv
    <3>2. port'[i].enabled = (device[i].speed = "high") BY <2>1, <3>1 DEF TypesInv, PORT
    <3>3. i \notin Served BY <2>1, <2>3, <3>2 DEF Served
    <3>4. \A x \in Places : x[1] # i BY <1>a, <3>3
    <3>5. \A x \in Places : Seen(x)' <=> Seen(x) BY <2>1, <3>4 DEF Seen
    <3>6. QED BY <1>0, <2>1, <3>5, ShownKept
  <2>4. QED BY <2>1, <2>2, <2>3
<1>6. CASE next_port
  <2>1. pc = "next" /\ pc' = "reset" /\ i' = i + 1 /\ UNCHANGED ehci_msb_internals BY <1>6 DEF next_port
  <2>2. \A x \in Places : Seen(x) <=> x[1] < i \/ x[1] = i BY <2>1 DEF Seen, Passed
  <2>3. \A x \in Places : Seen(x)' <=> x[1] < i + 1 BY <2>1 DEF Seen, Passed, Waiting
  <2>4. \A x \in Places : x[1] < i + 1 <=> x[1] < i \/ x[1] = i BY <1>0, <1>a
  <2>5. \A x \in Places : Seen(x)' <=> Seen(x) BY <2>2, <2>3, <2>4
  <2>6. QED BY <1>0, <2>1, <2>5, ShownKept
<1>7. CASE wait_for_qh_next \/ wait_for_qh_token
  <2>1. /\ Waiting /\ UNCHANGED <<ehci_msb_internals, i, after, confBuffer_ptr>>
        /\ pc' \in {"wait", "wait_token", after}
    BY <1>7 DEF wait_for_qh_next, wait_for_qh_token, Waiting
  <2>2. after \in {"address", "total", "conf", "parse", "next"}
    BY <1>0, <2>1 DEF PlaceInv, Early, Serving, Default, Setting, HasOne, Waiting
  <2>3. CASE pc' = "parse"
    <3>1. confBuffer_ptr = 2 /\ ~Passed /\ ~Passed' /\ pc # "parse"
      BY <1>0, <2>1, <2>2, <2>3 DEF FillInv, Passed, Waiting
    <3>2. \A x \in Places : ~(x[2] < 2) BY <1>a
    <3>3. \A x \in Places : Seen(x)' <=> Seen(x) BY <2>1, <2>3, <3>1, <3>2 DEF Seen
    <3>4. QED BY <1>0, <2>1, <3>3, ShownKept
  <2>4. CASE pc' # "parse"
    <3>1. Passed' <=> Passed BY <2>1, <2>2, <2>4 DEF Passed, Waiting
    <3>2. QED BY <1>1, <2>1, <2>4, <3>1 DEF Waiting
  <2>5. QED BY <2>3, <2>4
<1>8. CASE Starting /\ ~set_configuration
  <2>1. /\ UNCHANGED <<ehci_msb_internals, i>> /\ pc' = "wait" /\ after' # "next"
        /\ pc \in {"device", "address", "total", "conf"}
    BY <1>8 DEF Starting, get_device_descriptor, set_address, get_total_length,
       get_configuration_descriptors, Submit
  <2>2. QED BY <1>1, <2>1 DEF Passed, Waiting
\* The parser is through.
<1>9. ASSUME pc = "parse", confBuffer_ptr > Len(confBuffer), Passed', pc' # "parse", i' = i
      PROVE  \A x \in Places : Seen(x)' <=> Seen(x)
  <2>1. Len(confBuffer) = Length(i) /\ Length(i) \in Nat /\ confBuffer_ptr \in Nat BY <1>9, Parser
  <2>2. \A x \in Places : x[1] = i => x[2] < confBuffer_ptr
    <3>1. ASSUME NEW x \in Places, x[1] = i PROVE x[2] < confBuffer_ptr
      <4>1. x[2] \in Nat /\ x[2] <= Length(i) BY <1>a, <3>1
      <4>2. QED BY <1>9, <2>1, <4>1
    <3>2. QED BY <3>1
  <2>3. QED BY <1>9, <2>2 DEF Seen
<1>10. CASE set_configuration
  <2>1. /\ pc = "parse" /\ confBuffer_ptr > Len(confBuffer)
        /\ ehci_msb_internals' = [ehci_msb_internals EXCEPT !.addr = dev_addr]
        /\ pc' = "wait" /\ after' = "next" /\ i' = i
    BY <1>10 DEF set_configuration, Submit
  <2>2. /\ ehci_msb_internals'.nr = ehci_msb_internals.nr
        /\ ehci_msb_internals'.in = ehci_msb_internals.in /\ ehci_msb_internals'.s_in = ehci_msb_internals.s_in
        /\ ehci_msb_internals'.out = ehci_msb_internals.out /\ ehci_msb_internals'.s_out = ehci_msb_internals.s_out
    BY <1>0, <2>1 DEF DISK
  <2>3. \A x \in Places : Seen(x)' <=> Seen(x) BY <1>9, <2>1 DEF Passed, Waiting
  <2>4. QED BY <1>0, <2>2, <2>3, ShownKept
<1>11. CASE not_a_disk
  <2>1. /\ pc = "parse" /\ confBuffer_ptr > Len(confBuffer) /\ pc' = "next"
        /\ UNCHANGED <<ehci_msb_internals, i>>
    BY <1>11 DEF not_a_disk
  <2>2. \A x \in Places : Seen(x)' <=> Seen(x) BY <1>9, <2>1 DEF Passed
  <2>3. QED BY <1>0, <2>1, <2>2, ShownKept
<1>12. CASE \/ interface_descriptor \/ endpoint_descriptor \/ association_descriptor
            \/ video_header_descriptor \/ video_endpoint_descriptor
  BY <1>12, StepInterface, StepEndpoint, StepHeader, StepOther
<1>13. CASE FetchQtd \/ ExecuteQtd
  <2>1. UNCHANGED <<pc, after, i, ehci_msb_internals>>
    BY <1>13 DEF FetchQtd, ExecuteQtd
  <2>2. pc # "parse" BY <1>0, <1>13 DEF FetchQtd, ExecuteQtd, RingInv, Waiting
  <2>3. QED BY <1>1, <2>1, <2>2 DEF Passed, Waiting
<1>14. QED BY <1>2, <1>3, <1>4, <1>5, <1>6, <1>7, <1>8, <1>10, <1>11, <1>12, <1>13
           DEF Next, Driver, Controller, Parse, Starting

-----------------------------------------------------------------------------
(* What the result says of the last disk.                                   *)

\* What has been found stays found, while those ports are left alone.
LEMMA LastKept ==
  ASSUME NEW q \in Nat, device' = device, ehci_msb_internals'.addr = ehci_msb_internals.addr,
         \A p \in Ports : p < q => port'[p] = port[p], LastDisk(q)
  PROVE  LastDisk(q)'
<1>1. Disks' = Disks /\ Disks \subseteq Ports BY KindsFixed, PortRange DEF Disks, Served
<1>2. \A p \in Disks : p < q /\ Taken(p) => Taken(p)' BY <1>1 DEF Taken, Conf
<1>3. QED BY <1>1, <1>2 DEF LastDisk

LEMMA LastNext ==
  ASSUME NEW q \in Nat, q \notin Disks, LastDisk(q)
  PROVE  LastDisk(q + 1)
<1>1. Disks \subseteq Nat BY PortRange DEF Disks, Served
<1>2. \A p \in Disks : (p >= q <=> p >= q + 1) /\ (p < q <=> p < q + 1) BY <1>1
<1>3. QED BY <1>2 DEF LastDisk

\* The parser is through: the device is a disk if its last interface is one.
LEMMA LastInterface ==
  ASSUME AllTruthful, TypesInv, EnumInv, CleanInv, pc = "parse", confBuffer_ptr > Len(confBuffer)
  PROVE  i \in Disks <=> Class(last_interfaceDesc) = "bulk_only"
<1>1. /\ i \in Served /\ Length(i) \in Nat /\ Len(confBuffer) = Length(i) /\ confBuffer_ptr \in Nat
      /\ last_interfaceDesc \in 0..Length(i)
      /\ last_interfaceDesc = 0 => Class(last_interfaceDesc) = "none"
      /\ last_interfaceDesc # 0 => Class(last_interfaceDesc) = Conf(i)[last_interfaceDesc].class
  BY Parser
<1>2. Len(Conf(i)) = Length(i) BY <1>1, ConfFacts DEF Served
<1>3. /\ last_interfaceDesc # 0 => /\ last_interfaceDesc \in 2..Length(i)
                                   /\ Conf(i)[last_interfaceDesc].type = "interface"
      /\ \A k \in 2..Length(i) : Conf(i)[k].type = "interface" => k <= last_interfaceDesc
  <2>1. \A k \in 2..Length(i) : k < confBuffer_ptr BY <1>1
  <2>2. QED BY <2>1 DEF CleanInv, ParseInv
<1>4. i \in Disks <=> \E n \in 2..Length(i) : /\ Wanted(Conf(i)[n])
                                              /\ \A k \in n + 1..Length(i) : Conf(i)[k].type # "interface"
  BY <1>1, <1>2 DEF Disks
<1>5. ASSUME NEW n \in 2..Length(i), Wanted(Conf(i)[n]),
             \A k \in n + 1..Length(i) : Conf(i)[k].type # "interface"
      PROVE  Class(last_interfaceDesc) = "bulk_only"
  <2>1. n <= last_interfaceDesc /\ Conf(i)[n].class = "bulk_only" BY <1>3, <1>5 DEF Wanted
  <2>2. last_interfaceDesc # 0 BY <2>1
  <2>3. ~(last_interfaceDesc \in n + 1..Length(i)) BY <1>3, <1>5, <2>2
  <2>4. last_interfaceDesc = n BY <1>1, <2>1, <2>3
  <2>5. QED BY <1>1, <2>1, <2>2, <2>4
<1>6. ASSUME Class(last_interfaceDesc) = "bulk_only"
      PROVE  \E n \in 2..Length(i) : /\ Wanted(Conf(i)[n])
                                     /\ \A k \in n + 1..Length(i) : Conf(i)[k].type # "interface"
  <2>1. last_interfaceDesc # 0 BY <1>1, <1>6
  <2>2. last_interfaceDesc \in 2..Length(i) /\ Wanted(Conf(i)[last_interfaceDesc])
    BY <1>1, <1>3, <1>6, <2>1 DEF Wanted
  <2>3. ASSUME NEW k \in last_interfaceDesc + 1..Length(i) PROVE Conf(i)[k].type # "interface"
    <3>1. k \in 2..Length(i) /\ ~(k <= last_interfaceDesc) BY <1>1, <2>2
    <3>2. QED BY <1>3, <3>1
  <2>4. QED BY <2>2, <2>3
<1>7. QED BY <1>4, <1>5, <1>6

LEMMA StepResult ==
  ASSUME AllTruthful, TypesInv, EnumInv, CleanInv, [Next]_vars, ~HaltQh
  PROVE  ResultInv'
<1> USE DEF locals, Goto
<1>0. /\ SetInv /\ ResultInv /\ TurnInv /\ PlaceInv /\ RingInv /\ CurrentInv
      /\ Len(qtds) \in Nat /\ i \in Nat /\ Scanned \subseteq Ports /\ Ports \subseteq Nat
      /\ port \in [Ports -> PORT] /\ ehci_msb_internals \in DISK /\ device' = device
  BY PortRange, DeviceFixed DEF CleanInv, EnumInv, TypesInv
<1>a. Through \in Nat BY <1>0 DEF Through
<1>b. Disks' = Disks BY <1>0, KindsFixed
\* The driver goes on, and leaves the ports behind alone,
<1>1. ASSUME ehci_msb_internals'.addr = ehci_msb_internals.addr, ~Sending, ~Sending', Through' = Through,
             \A p \in Ports : p < Through => port'[p] = port[p]
      PROVE  ResultInv'
  <2>1. PICK q \in Nat : q = Through BY <1>a
  <2>2. LastDisk(q) BY <1>0, <1>1, <2>1 DEF ResultInv
  <2>3. LastDisk(q)' BY <1>0, <1>1, <2>1, <2>2, LastKept
  <2>4. Through' = q BY <1>1, <2>1
  <2>5. LastDisk(Through)' BY <2>3, <2>4
  <2>6. QED BY <1>1, <2>5 DEF ResultInv
\* or waits for the device to take its configuration,
<1>2. ASSUME UNCHANGED <<ehci_msb_internals, i, dev_addr>>, Sending, Sending'
      PROVE  ResultInv'
  <2>1. i \in Disks /\ ehci_msb_internals.addr = dev_addr BY <1>0, <1>2 DEF ResultInv
  <2>2. QED BY <1>2, <1>b, <2>1 DEF ResultInv
\* or has come past a port without a disk.
<1>3. ASSUME ehci_msb_internals' = ehci_msb_internals, i' = i, \A p \in Ports : p < i => port'[p] = port[p],
             ~Sending, i \notin Disks, pc # "next", pc' = "next"
      PROVE  ResultInv'
  <2>1. PICK q \in Nat : q = i BY <1>0
  <2>2. LastDisk(q) BY <1>0, <1>3, <2>1 DEF ResultInv, Through
  <2>3. LastDisk(q)' BY <1>0, <1>3, <2>1, <2>2, LastKept
  <2>4. q \notin Disks' BY <1>3, <1>b, <2>1
  <2>5. LastDisk(q + 1)'
    <3>1. Disks' \subseteq Nat BY <1>0, <1>b DEF Disks, Served
    <3>2. \A p \in Disks' : (p >= q <=> p >= q + 1) /\ (p < q <=> p < q + 1) BY <2>4, <3>1
    <3>3. QED BY <2>3, <3>2 DEF LastDisk
  <2>6. Through' = q + 1 BY <1>3, <2>1 DEF Through
  <2>7. LastDisk(Through)' BY <2>5, <2>6 DEF LastDisk
  <2>8. QED BY <1>3, <2>7 DEF ResultInv, Sending, Waiting
<1>4. CASE UNCHANGED vars \/ BiosReleases
  <2>1. UNCHANGED <<port, ehci_msb_internals, pc, after, i, dev_addr>> BY <1>4 DEF vars, BiosReleases
  <2>2. Sending' <=> Sending BY <2>1 DEF Sending, Waiting
  <2>3. Through' = Through BY <2>1 DEF Through
  <2>4. QED BY <1>1, <1>2, <2>1, <2>2, <2>3
<1>5. CASE EHCI_Reset \/ EHCI_Reset_confirm \/ EHCI_Init_return
  <2>1. /\ UNCHANGED <<port, ehci_msb_internals, i>>
        /\ pc \in {"EHCI_Reset", "confirm", "reset"} /\ pc' \in {"confirm", "EHCI_Init", "done"}
    BY <1>5 DEF EHCI_Reset, EHCI_Reset_confirm, EHCI_Init_return
  <2>2. QED BY <1>1, <2>1 DEF Sending, Waiting, Through
<1>6. CASE EHCI_Init_start
  <2>1. i' = 1 /\ pc' = "reset" /\ ehci_msb_internals' = Nowhere BY <1>6 DEF EHCI_Init_start
  <2>2. \A p \in Disks' : p >= 1 BY <1>b, PortRange DEF Disks, Served
  <2>3. Through' = 1 /\ ehci_msb_internals'.addr = 0 BY <2>1 DEF Through, Nowhere
  <2>4. LastDisk(Through)' BY <2>2, <2>3 DEF LastDisk
  <2>5. QED BY <2>1, <2>4 DEF ResultInv, Sending, Waiting
<1>7. CASE reset_port
  <2>1. /\ pc = "reset" /\ pc' = "reset_end" /\ port' = [port EXCEPT ![i] = Off]
        /\ UNCHANGED <<ehci_msb_internals, i>>
    BY <1>7 DEF reset_port
  <2>2. \A p \in Ports : p < i => port'[p] = port[p] BY <1>0, <2>1
  <2>3. QED BY <1>1, <2>1, <2>2 DEF Sending, Waiting, Through
<1>8. CASE reset_port_end
  <2>1. /\ pc = "reset_end" /\ pc' = IF port'[i].enabled THEN "device" ELSE "next"
        /\ port' = [port EXCEPT ![i].enabled = (device[i].speed = "high")]
        /\ UNCHANGED <<ehci_msb_internals, i>>
    BY <1>8 DEF reset_port_end
  <2>2. i \in Ports BY <1>0, <2>1 DEF PlaceInv
  <2>3. port'[i].enabled = (device[i].speed = "high") BY <1>0, <2>1, <2>2 DEF PORT
  <2>4. \A p \in Ports : p < i => port'[p] = port[p] BY <1>0, <2>1
  <2>5. ~Sending BY <2>1 DEF Sending, Waiting
  <2>6. CASE pc' = "device" BY <1>1, <2>1, <2>4, <2>5, <2>6 DEF Sending, Waiting, Through
  <2>7. CASE pc' = "next"
    <3>1. i \notin Disks BY <2>1, <2>3, <2>7 DEF Disks, Served
    <3>2. QED BY <1>3, <2>1, <2>4, <2>5, <2>7, <3>1
  <2>8. QED BY <2>1, <2>6, <2>7
<1>9. CASE next_port
  <2>1. pc = "next" /\ pc' = "reset" /\ i' = i + 1 /\ UNCHANGED <<port, ehci_msb_internals>>
    BY <1>9 DEF next_port
  <2>2. QED BY <1>1, <2>1 DEF Sending, Waiting, Through
<1>10. CASE wait_for_qh_next \/ wait_for_qh_token
  <2>1. /\ Waiting /\ UNCHANGED <<port, ehci_msb_internals, i, dev_addr, after, qh, qtds>>
        /\ \/ pc' \in {"wait", "wait_token"}
           \/ pc = "wait_token" /\ pc' = after /\ ~qh.active /\ qh.next = TERMINATE
    BY <1>0, <1>10 DEF wait_for_qh_next, wait_for_qh_token, Waiting, RingInv
  <2>2. after \in {"address", "total", "conf", "parse", "next"}
    BY <1>0, <2>1 DEF PlaceInv, Early, Serving, Default, Setting, HasOne, Waiting
  <2>3. CASE after # "next"
    <3>1. ~Sending /\ ~Sending' /\ Through' = Through
      BY <2>1, <2>2, <2>3 DEF Sending, Waiting, Through
    <3>2. QED BY <1>1, <2>1, <3>1
  <2>4. CASE after = "next" /\ pc' \in {"wait", "wait_token"} BY <1>2, <2>1, <2>4 DEF Sending, Waiting
  <2>5. CASE after = "next" /\ pc' \notin {"wait", "wait_token"}
    <3>1. pc' = "next" /\ pc = "wait_token" /\ ~qh.active /\ qh.next = TERMINATE BY <2>1, <2>5
    <3>2. Turn > Before(2) + 2 BY <1>0, <3>1 DEF Turn, Before
    <3>3. port[i].configuration = Conf(i)[1].bConfigurationValue
      BY <1>0, <2>1, <2>5, <3>2 DEF SetInv, Choosing
    <3>4. i \in Disks /\ ehci_msb_internals.addr = dev_addr BY <1>0, <2>1, <2>5 DEF ResultInv, Sending
    <3>5. port[i].enabled /\ port[i].addr = dev_addr
      BY <1>0, <2>1, <2>5, <3>1 DEF CurrentInv, Serving, HasOne, Stuck
    <3>6. Taken(i) BY <3>3, <3>4, <3>5 DEF Taken
    <3>7. PICK r \in Nat : r = i + 1 BY <1>0
    <3>8. LastDisk(r)
      <4>1. Disks \subseteq Nat BY <1>0 DEF Disks, Served
      <4>2. i < r /\ \A p \in Disks : p < r => p <= i BY <1>0, <3>7, <4>1
      <4>3. QED BY <3>4, <3>6, <4>2 DEF LastDisk
    <3>9. LastDisk(r)' BY <1>0, <2>1, <3>8, LastKept
    <3>10. Through' = r BY <2>1, <3>1, <3>7 DEF Through
    <3>11. LastDisk(Through)' BY <3>9, <3>10
    <3>12. QED BY <3>1, <3>11 DEF ResultInv, Sending, Waiting
  <2>6. QED BY <2>3, <2>4, <2>5
<1>11. CASE Starting /\ ~set_configuration
  <2>1. /\ UNCHANGED <<port, ehci_msb_internals, i>> /\ pc' = "wait" /\ after' # "next"
        /\ pc \in {"device", "address", "total", "conf"}
    BY <1>11 DEF Starting, get_device_descriptor, set_address, get_total_length,
       get_configuration_descriptors, Submit
  <2>2. QED BY <1>1, <2>1 DEF Sending, Waiting, Through
<1>12. CASE set_configuration
  <2>1. /\ pc = "parse" /\ confBuffer_ptr > Len(confBuffer) /\ Class(last_interfaceDesc) = "bulk_only"
        /\ ehci_msb_internals' = [ehci_msb_internals EXCEPT !.addr = dev_addr]
        /\ pc' = "wait" /\ after' = "next" /\ UNCHANGED <<i, dev_addr>>
    BY <1>12 DEF set_configuration, Submit
  <2>2. i \in Disks BY <2>1, LastInterface
  <2>3. ehci_msb_internals'.addr = dev_addr BY <1>0, <2>1 DEF DISK
  <2>4. QED BY <1>b, <2>1, <2>2, <2>3 DEF ResultInv, Sending, Waiting
<1>13. CASE not_a_disk
  <2>1. /\ pc = "parse" /\ pc' = "next" /\ confBuffer_ptr > Len(confBuffer)
        /\ Class(last_interfaceDesc) # "bulk_only" /\ UNCHANGED <<port, ehci_msb_internals, i>>
    BY <1>13 DEF not_a_disk
  <2>2. i \notin Disks BY <2>1, LastInterface
  <2>3. QED BY <1>3, <2>1, <2>2 DEF Sending, Waiting
<1>14. CASE \/ interface_descriptor \/ endpoint_descriptor \/ association_descriptor
            \/ video_header_descriptor \/ video_endpoint_descriptor
  <2>1. pc = "parse" /\ UNCHANGED <<port, pc, after, i>>
    BY <1>14 DEF interface_descriptor, endpoint_descriptor, association_descriptor,
       video_header_descriptor, video_endpoint_descriptor, Parsing, Advance
  <2>2. ehci_msb_internals'.addr = ehci_msb_internals.addr
    BY <1>0, <1>14 DEF interface_descriptor, endpoint_descriptor, association_descriptor,
       video_header_descriptor, video_endpoint_descriptor, DISK
  <2>3. QED BY <1>1, <2>1, <2>2 DEF Sending, Waiting, Through
<1>15. CASE FetchQtd \/ ExecuteQtd
  <2>1. /\ UNCHANGED <<pc, after, i, dev_addr, ehci_msb_internals>> /\ Waiting
        /\ \A p \in Ports : p # i => port'[p] = port[p]
    <3>1. CASE FetchQtd
      <4>1. qh.next # TERMINATE BY <3>1 DEF FetchQtd
      <4>2. Waiting BY <1>0, <4>1 DEF RingInv
      <4>3. QED BY <1>0, <3>1, <4>2, Fetches
    <3>2. CASE ExecuteQtd BY <1>0, <3>2, Serves, Executes
    <3>3. QED BY <1>15, <3>1, <3>2
  <2>2. CASE Sending BY <1>2, <2>1, <2>2 DEF Sending, Waiting
  <2>3. CASE ~Sending
    <3>1. ~Sending' /\ Through = i /\ Through' = i BY <2>1, <2>3 DEF Sending, Waiting, Through
    <3>2. \A p \in Ports : p < i => port'[p] = port[p] BY <1>0, <2>1
    <3>3. QED BY <1>1, <2>1, <2>3, <3>1, <3>2
  <2>4. QED BY <2>2, <2>3
<1>16. QED BY <1>4, <1>5, <1>6, <1>7, <1>8, <1>9, <1>10, <1>11, <1>12, <1>13, <1>14, <1>15
           DEF Next, Driver, Controller, Parse, Starting

LEMMA InitDisk == Init => DiskInv
<1> SUFFICES ASSUME Init PROVE DiskInv OBVIOUS
<1>1. /\ pc = "EHCI_Reset" /\ errors = 0 /\ qh = IdleQH /\ i = 1 /\ ehci_msb_internals = Nowhere
  BY DEF Init
<1>0. TypesInv BY InitTypes
<1>2. TurnInv BY <1>1 DEF TurnInv, IdleQH
<1>3. LengthInv /\ FillInv /\ SetInv /\ BufferInv /\ ParseInv
  BY <1>1 DEF LengthInv, FillInv, SetInv, BufferInv, ParseInv, Waiting
<1>4. ASSUME AllTruthful PROVE ShownInv
  <2>1. \A x \in Places : ~(x[1] < 1) BY <1>0, <1>4, PlaceFacts, PortRange
  <2>2. \A x \in Places : ~Seen(x) BY <1>1, <2>1 DEF Seen, Passed, Waiting
  <2>3. Behind = {} BY <2>2 DEF Behind
  <2>4. QED BY <1>1, <2>3 DEF ShownInv, NumberInv, InputInv, OutputInv, Shown, Nowhere
<1>5. ResultInv
  <2>1. \A p \in Disks : p >= 1 BY PortRange DEF Disks, Served
  <2>2. ehci_msb_internals.addr = 0 BY <1>1 DEF Nowhere
  <2>3. LastDisk(1) BY <2>1, <2>2 DEF LastDisk
  <2>4. Through = 1 BY <1>1 DEF Through
  <2>5. QED BY <1>1, <2>3, <2>4 DEF ResultInv, Sending, Waiting
<1>6. QED BY <1>1, <1>2, <1>3, <1>4, <1>5 DEF DiskInv, CleanInv

LEMMA StepDisk ==
  ASSUME TypesInv, EnumInv, DiskInv, [Next]_vars
  PROVE  DiskInv'
<1>1. CASE HaltQh
  <2>1. errors' = errors + 1 /\ errors \in Nat BY <1>1 DEF HaltQh, DiskInv
  <2>2. errors' \in Nat /\ errors' # 0 BY <2>1
  <2>3. QED BY <2>2 DEF DiskInv
<1>2. CASE ~HaltQh
  <2>1. errors' = errors
    <3>1. CASE Starting
      BY <3>1 DEF Starting, get_device_descriptor, set_address, get_total_length,
         get_configuration_descriptors, set_configuration
    <3>2. CASE Moving
      BY <3>2 DEF Moving, EHCI_Reset, EHCI_Reset_confirm, EHCI_Init_start, reset_port, reset_port_end,
         next_port, EHCI_Init_return, wait_for_qh_next, wait_for_qh_token, not_a_disk
    <3>3. CASE FetchQtd \/ ExecuteQtd \/ BiosReleases \/ UNCHANGED vars
      BY <3>3 DEF FetchQtd, ExecuteQtd, BiosReleases, vars
    <3>4. CASE \/ interface_descriptor \/ endpoint_descriptor \/ association_descriptor
               \/ video_header_descriptor \/ video_endpoint_descriptor
      BY <3>4 DEF interface_descriptor, endpoint_descriptor, association_descriptor,
         video_header_descriptor, video_endpoint_descriptor, Advance
    <3>5. QED BY <1>2, <3>1, <3>2, <3>3, <3>4 DEF Next, Driver, Controller, Parse, Starting, Moving
  <2>2. errors \in Nat /\ (errors = 0 /\ AllTruthful => CleanInv) BY DEF DiskInv
  <2>3. AllTruthful' <=> AllTruthful
    <3>1. Served' = Served /\ \A p : Conf(p)' = Conf(p) BY DeviceFixed, KindsFixed
    <3>2. \A p : Truthful(p)' <=> Truthful(p) BY <3>1, Zenon DEF Truthful
    <3>3. QED BY <3>1, <3>2, Zenon DEF AllTruthful
  <2>4. ASSUME errors = 0, AllTruthful PROVE CleanInv'
    <3>1. CleanInv BY <2>2, <2>4
    <3>2. TurnInv' BY <1>2, <3>1, StepTurn DEF CleanInv
    <3>3. LengthInv' BY <1>2, <2>4, <3>1, StepLength
    <3>4. FillInv' BY <1>2, <2>4, <3>1, StepFill
    <3>5. SetInv' BY <1>2, <2>4, <3>1, StepSet
    <3>6. BufferInv' BY <1>2, <2>4, <3>1, StepBuffer
    <3>7. ParseInv' BY <1>2, <2>4, <3>1, StepParse
    <3>8. ShownInv' BY <1>2, <2>4, <3>1, StepShown
    <3>9. ResultInv' BY <1>2, <2>4, <3>1, StepResult
    <3>10. QED BY <3>2, <3>3, <3>4, <3>5, <3>6, <3>7, <3>8, <3>9 DEF CleanInv
  <2>5. QED BY <2>1, <2>2, <2>3, <2>4 DEF DiskInv
<1>3. QED BY <1>1, <1>2

\* If no packet is lost and the devices are truthful, what EHCI_Init returns is
\* the address of the last device whose last interface is a disk's, which has
\* taken its configuration, and the number and endpoints of the last of the
\* disks' interfaces there are, whichever devices are connected, in whichever
\* order, and whatever the BIOS has left (ehci.c: EHCI_Init).
THEOREM LastDiskDescribed == FairSpec => []DiskDescribed
<1>1. TypesInv /\ EnumInv /\ DiskInv => DiskDescribed
  <2> SUFFICES ASSUME TypesInv, EnumInv, DiskInv, pc = "done", errors = 0, AllTruthful
               PROVE DiskDescribed
    BY DEF DiskDescribed, AllTruthful
  <2>1. /\ i = LastPort + 1 /\ LastPort \in Nat /\ Scanned = 1..LastPort /\ ResultInv /\ ShownInv
    BY PortRange DEF EnumInv, PlaceInv, DiskInv, CleanInv
  <2>2. Through = i /\ ~Sending BY DEF Through, Sending, Waiting
  <2>3. LastDisk(i) BY <2>1, <2>2 DEF ResultInv
  <2>4. \A p \in Disks : p \in Nat /\ p < i BY <2>1 DEF Disks, Served
  <2>5. \A x \in Places : Seen(x)
    <3>1. \A x \in Places : x[1] \in Scanned BY PlaceFacts
    <3>2. \A x \in Places : x[1] < i BY <2>1, <3>1
    <3>3. QED BY <3>2 DEF Seen
  <2>6. Places = Behind BY <2>5 DEF Behind
  <2>7. /\ Interfaces \cap Behind = Interfaces /\ Inputs \cap Behind = Inputs
        /\ Outputs \cap Behind = Outputs
    BY <2>6 DEF Interfaces, Inputs, Outputs
  <2>8. /\ Shown(Interfaces, NumberOf, ehci_msb_internals.nr = 0)
        /\ Shown(Inputs, InputOf, ehci_msb_internals.in = 0 /\ ehci_msb_internals.s_in = 0)
        /\ Shown(Outputs, OutputOf, ehci_msb_internals.out = 0 /\ ehci_msb_internals.s_out = 0)
    BY <2>1, <2>7 DEF ShownInv, NumberInv, InputInv, OutputInv
  <2>9. IF Disks = {} THEN ehci_msb_internals.addr = 0
        ELSE \E p \in Disks : /\ \A r \in Disks : r <= p
                              /\ port[p].enabled /\ port[p].addr = ehci_msb_internals.addr
                              /\ port[p].configuration = Conf(p)[1].bConfigurationValue
    BY <2>1, <2>3, <2>4 DEF LastDisk, Taken
  <2>10. IF Interfaces = {} THEN ehci_msb_internals.nr = 0
         ELSE \E x \in Interfaces : /\ IsLast(x, Interfaces)
                                    /\ ehci_msb_internals.nr = At(x).bInterfaceNumber
    BY <2>8, Zenon DEF Shown, NumberOf, IsLast
  <2>11. IF Inputs = {} THEN ehci_msb_internals.in = 0 /\ ehci_msb_internals.s_in = 0
         ELSE \E x \in Inputs : /\ IsLast(x, Inputs)
                                /\ ehci_msb_internals.in = At(x).bEndpointAddress % 16
                                /\ ehci_msb_internals.s_in = At(x).wMaxPacketSize
    BY <2>8, Zenon DEF Shown, InputOf, IsLast
  <2>12. IF Outputs = {} THEN ehci_msb_internals.out = 0 /\ ehci_msb_internals.s_out = 0
         ELSE \E x \in Outputs : /\ IsLast(x, Outputs)
                                 /\ ehci_msb_internals.out = At(x).bEndpointAddress % 16
                                 /\ ehci_msb_internals.s_out = At(x).wMaxPacketSize
    BY <2>8, Zenon DEF Shown, OutputOf, IsLast
  <2>13. QED BY <2>9, <2>10, <2>11, <2>12, Zenon DEF DiskDescribed
<1>2. TypesInv /\ EnumInv /\ DiskInv /\ [Next]_vars => DiskInv' BY StepDisk
<1>3. QED BY <1>1, <1>2, InitDisk, EnumHolds, PTL DEF FairSpec
=============================================================================
