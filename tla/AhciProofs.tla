----------------------------- MODULE AhciProofs -----------------------------
(***************************************************************************)
(* For any ports and anything connected to them: AHCI_init registers each  *)
(* disk it can use, once and with its size in sectors, the adapter finds   *)
(* nothing but the command lists and tables that the driver has made for   *)
(* it, and AHCI_read and AHCI_write move the sectors asked for, those and  *)
(* no others, if those are of 0x200 bytes.                                 *)
(*                                                                         *)
(* The inductive invariant says where AHCI_init's loop is and what it has  *)
(* seen (ProbeInv), which ports have a command list and are in the list of *)
(* devices (ListInv), what the table and the header of the command at hand *)
(* hold (TableInv), that no other command is with the adapter (IssuedInv), *)
(* and that an IDENTIFY DEVICE that is over has brought its port's device  *)
(* (IdentifyInv).  For the data, a call's table is the one made for it     *)
(* (AskedInv) and disks and buffer keep their sizes (SizesInv).            *)
(*                                                                         *)
(* The adapter reads a table back with recursive functions over its bytes  *)
(* and its entries: what they give is proved by induction, in the form     *)
(* that a set of naturals has a least element.                             *)
(***************************************************************************)
EXTENDS Ahci, SequenceTheorems, WellFoundedInduction, TLAPS

PCs == {"init", "handoff", "reset", "register", "ports", "fis", "execute", "issue", "wait",
        "identified", "ready"}

\* A command is being built, issued or waited for; it is AHCI_init's
\* IDENTIFY DEVICE, or that of a call.
Executing == {"execute", "issue", "wait"}
Entries == {Registered(device, p) : device \in Devices, p \in Port}

TypesInv ==
  /\ devices \in Connected /\ devices \in [Port -> Devices]
  /\ pc \in PCs /\ i \in 0..NP /\ request \in Requests \cup {NoRequest} /\ calls \in 0..MaxRequests
  /\ memory \in Seq(Pages) /\ command_table \in 0..Len(memory) /\ command_list_index \in Slot
  /\ g_ahci_device_list \in Seq(Entries)
  /\ HR \in BOOLEAN /\ IE \in BOOLEAN /\ IS \subseteq Port /\ port \in [Port -> Registers]
  /\ stage \in [Port -> {"none", "moved", "failed"}]
  /\ astray \in BOOLEAN /\ enabled \in BOOLEAN /\ irq \in BOOLEAN

\* Which port AHCI_init is at; it has returned before there are calls.
Place ==
  /\ pc \in {"init", "handoff", "reset", "register"} => i = 0
  /\ pc \in {"fis", "identified"} => request = NoRequest
  /\ request # NoRequest => pc \in Executing /\ i = NP
  /\ pc \in {"fis", "identified"} \cup Executing /\ request = NoRequest => i < NP
  /\ pc = "ready" => i = NP
  /\ HR => pc = "reset"

\* What is connected is seen, once the adapter is reset.
Seen == pc \notin {"init", "handoff"} /\ ~HR =>
          \A p \in Port : devices[p].kind \notin {"absent", "none"} => port[p].DET # "no"

ProbeInv == Place /\ Seen

\* Ports behind AHCI_init have their command list; those of disks with 48-bit
\* addresses are in the list, with their sizes.
HasList(p) == /\ port[p].PxCLB \in DOMAIN memory
              /\ memory[port[p].PxCLB].kind = "list"
CurrentInv == pc \in {"fis", "identified"} \cup Executing => HasList(current)
RegisteredInv ==
  /\ \A n \in DOMAIN g_ahci_device_list :
       LET p == g_ahci_device_list[n].port
       IN /\ p \in Port /\ p < i /\ devices[p].kind = "ata48" /\ HasList(p)
          /\ g_ahci_device_list[n] = Registered(devices[p], p)
  /\ \A m, n \in DOMAIN g_ahci_device_list :
       g_ahci_device_list[m].port = g_ahci_device_list[n].port => m = n
  /\ \A p \in Port : p < i /\ devices[p].kind = "ata48" =>
       \E n \in DOMAIN g_ahci_device_list : g_ahci_device_list[n].port = p
ListInv == CurrentInv /\ RegisteredInv

\* The command's table, and the header of its slot once there is one.
TableInv ==
  pc \in Executing \cup {"identified"} =>
    /\ command_table \in DOMAIN memory /\ memory[command_table].kind = "table"
    /\ request # NoRequest => memory[command_table].command # "identify"
    /\ request = NoRequest =>
         /\ memory[command_table].command = "identify"
         /\ memory[command_table].prdt = <<[dba |-> command_table + 1, dbc |-> 0]>>
         /\ command_table + 1 \in DOMAIN memory /\ memory[command_table + 1].kind \in {"page", "data"}
    /\ pc \in {"issue", "wait"} =>
         Header(current, command_list_index) =
           [W |-> FALSE, prdtl |-> Len(memory[command_table].prdt), ctba |-> command_table]

\* One command at a time is with the adapter.
IssuedInv ==
  \A p \in Port :
    /\ port[p].upper = 0
    /\ port[p].CI # {} => pc = "wait" /\ p = current /\ port[p].CI = {command_list_index}
    /\ stage[p] = "moved" => port[p].CI # {}

\* IDENTIFY DEVICE is over when its data is there.
IdentifyInv ==
  request = NoRequest /\ ( \/ pc = "identified"
                           \/ pc = "wait" /\ (stage[i] = "moved" \/ command_list_index \notin port[i].CI) ) =>
    /\ memory[command_table + 1] = [kind |-> "data", device |-> devices[i]]
    /\ i \in Disks(devices)

AhciInv == TypesInv /\ ProbeInv /\ ListInv /\ TableInv /\ IssuedInv /\ IdentifyInv /\ ~astray

-----------------------------------------------------------------------------
(* The operators.                                                           *)

\* Induction over numbers needs no more than that.
LEMMA Least ==
  ASSUME NEW S, S \subseteq Nat, S # {}
  PROVE  \E m \in S : \A k \in S : m <= k
<1> DEFINE R == OpToRel(<, Nat)
<1>1. IsWellFoundedOn(R, Nat) BY NatLessThanWellFounded, Zenon
<1>2. \A x, y \in Nat : x < y => <<x, y>> \in R BY DEF OpToRel
<1> HIDE DEF R
<1>3. PICK m \in S : \A k \in S : <<k, m>> \notin R BY <1>1, WFMin
<1>4. ASSUME NEW k \in S PROVE m <= k
  <2>1. k \in Nat /\ m \in Nat OBVIOUS
  <2>2. ~(k < m) BY <1>2, <1>3, <2>1
  <2>3. QED BY <2>1, <2>2
<1>5. QED BY <1>4

LEMMA PowerFacts ==
  /\ Power[0] = 1
  /\ \A k \in 0..4 : Power[k + 1] = Base * Power[k]
  /\ \A k \in 0..5 : Power[k] \in Nat \ {0}
<1> DEFINE p1 == Base
           p2 == Base * p1
           p3 == Base * p2
           p4 == Base * p3
           p5 == Base * p4
           g == [k \in 0..5 |-> IF k = 0 THEN 1 ELSE IF k = 1 THEN p1 ELSE IF k = 2 THEN p2
                                ELSE IF k = 3 THEN p3 ELSE IF k = 4 THEN p4 ELSE p5]
<1>1. Base \in Nat \ {0} BY AhciAssumption
<1>2. p1 \in Nat \ {0} /\ p1 = Base * 1 BY <1>1
<1>3. ASSUME NEW x \in Nat \ {0} PROVE Base * x \in Nat \ {0} BY <1>1
<1>4. p2 \in Nat \ {0} /\ p3 \in Nat \ {0} /\ p4 \in Nat \ {0} /\ p5 \in Nat \ {0}
  BY <1>2, <1>3
<1>5. g = [k \in 0..5 |-> IF k = 0 THEN 1 ELSE Base * g[k - 1]]
  <2>1. p2 = Base * p1 /\ p3 = Base * p2 /\ p4 = Base * p3 /\ p5 = Base * p4 OBVIOUS
  <2> HIDE DEF p1, p2, p3, p4, p5
  <2>2. QED BY <1>2, <2>1
<1> HIDE DEF g
<1>6. Power = [k \in 0..5 |-> IF k = 0 THEN 1 ELSE Base * Power[k - 1]] BY <1>5 DEF Power
<1>7. Power[0] = 1 /\ \A k \in 0..4 : Power[k + 1] = Base * Power[k] BY <1>6
<1>8. Power[0] \in Nat \ {0} /\ Power[1] \in Nat \ {0} BY <1>2, <1>6
<1>9. ASSUME NEW k \in 0..4, Power[k] \in Nat \ {0} PROVE Power[k + 1] \in Nat \ {0}
  <2> DEFINE x == Power[k]
  <2>1. Power[k + 1] = Base * x BY <1>7
  <2> HIDE DEF x
  <2>2. x \in Nat \ {0} BY <1>9 DEF x
  <2>3. QED BY <1>3, <2>1, <2>2
<1>10. Power[2] \in Nat \ {0} /\ Power[3] \in Nat \ {0} /\ Power[4] \in Nat \ {0} /\ Power[5] \in Nat \ {0}
  <2>1. Power[2] \in Nat \ {0} BY <1>8, <1>9
  <2>2. Power[3] \in Nat \ {0} BY <2>1, <1>9
  <2>3. Power[4] \in Nat \ {0} BY <2>2, <1>9
  <2>4. Power[5] \in Nat \ {0} BY <2>3, <1>9
  <2>5. QED BY <2>1, <2>2, <2>3, <2>4
<1>11. QED BY <1>7, <1>8, <1>10

LEMMA MinOfTwo ==
  ASSUME NEW a \in Nat, NEW b \in Nat
  PROVE  Min({a, b}) \in Nat /\ Min({a, b}) <= a /\ (a = 1 /\ b >= 1 => Min({a, b}) = 1)
<1>1. \E x \in {a, b} : \A y \in {a, b} : x <= y
  <2>1. CASE a <= b BY <2>1
  <2>2. CASE b <= a BY <2>2
  <2>3. QED BY <2>1, <2>2
<1>2. Min({a, b}) \in {a, b} /\ \A y \in {a, b} : Min({a, b}) <= y BY <1>1 DEF Min
<1>3. QED BY <1>2

Tables == [kind : {"table"}, command : {"identify", "read", "write"},
           lba : [1..6 -> Byte], sectorCount : [1..2 -> Byte], prdt : Seq(PrdtEntries)]

LEMMA TablePages == Tables \subseteq Pages /\ \A x \in Pages : x.kind = "table" => x \in Tables
BY DEF Tables, Pages

\* What of a table's page stays when somebody gets the memory behind it.
Cut(x) == IF x.kind = "table"
            THEN [x EXCEPT !.prdt = SubSeq(@, 1, Min({Len(@), PerPage}))]
            ELSE x

LEMMA CutPage ==
  ASSUME NEW x \in Pages
  PROVE  Cut(x) \in Pages /\ Cut(x).kind = x.kind /\ (x.kind # "table" => Cut(x) = x)
<1>1. CASE x.kind = "table"
  <2>1. x \in Tables /\ x.prdt \in Seq(PrdtEntries) BY <1>1, TablePages DEF Tables
  <2>2. PerPage \in Nat BY AhciAssumption
  <2>3. Len(x.prdt) \in Nat BY <2>1
  <2> DEFINE m == Min({Len(x.prdt), PerPage})
  <2>4. m \in Nat /\ m <= Len(x.prdt) BY <2>2, <2>3, MinOfTwo
  <2> HIDE DEF m
  <2> DEFINE short == SubSeq(x.prdt, 1, m)
  <2>5. short \in Seq(PrdtEntries) BY <2>1, <2>3, <2>4
  <2> HIDE DEF short
  <2>6. [x EXCEPT !.prdt = short] \in Tables /\ [x EXCEPT !.prdt = short].kind = "table"
    BY <2>1, <2>5 DEF Tables
  <2>7. Cut(x) = [x EXCEPT !.prdt = short] BY <1>1 DEF Cut, short, m
  <2>8. QED BY <1>1, <2>6, <2>7, TablePages
<1>2. CASE x.kind # "table" BY <1>2 DEF Cut
<1>3. QED BY <1>1, <1>2

\* The pages there were are where they were, and hold what they held except
\* for the ends of tables.
LEMMA GivenPages ==
  ASSUME memory \in Seq(Pages), NEW pages \in Seq(Pages)
  PROVE  /\ Given(pages) \in Seq(Pages)
         /\ Len(Given(pages)) = Len(memory) + Len(pages)
         /\ \A n \in 1..Len(memory) : Given(pages)[n].kind = memory[n].kind
         /\ \A n \in 1..Len(memory) : memory[n].kind # "table" => Given(pages)[n] = memory[n]
         /\ \A n \in 1..Len(pages) : Given(pages)[Len(memory) + n] = pages[n]
<1> DEFINE old == [n \in DOMAIN memory |-> Cut(memory[n])]
<1>1. Given(pages) = old \o pages BY DEF Given, Cut
<1>2. Len(memory) \in Nat /\ DOMAIN memory = 1..Len(memory) /\ \A n \in 1..Len(memory) : memory[n] \in Pages
  OBVIOUS
<1>3. old \in [1..Len(memory) -> Pages] BY <1>2, CutPage
<1>4. old \in Seq(Pages) /\ Len(old) = Len(memory) BY <1>2, <1>3
<1>5. \A n \in 1..Len(memory) : old[n] = Cut(memory[n]) BY <1>2
<1> HIDE DEF old
<1>6. /\ old \o pages \in Seq(Pages)
      /\ Len(old \o pages) = Len(old) + Len(pages)
      /\ \A n \in 1..Len(old) : (old \o pages)[n] = old[n]
      /\ \A n \in 1..Len(pages) : (old \o pages)[Len(old) + n] = pages[n]
  BY <1>4
<1>7. QED BY <1>1, <1>2, <1>4, <1>5, <1>6, CutPage

LEMMA OnePage == ASSUME NEW x \in Pages PROVE <<x>> \in Seq(Pages) /\ Len(<<x>>) = 1 /\ <<x>>[1] = x
OBVIOUS

LEMMA TwoPages ==
  ASSUME NEW x \in Pages, NEW y \in Pages
  PROVE  /\ <<x, y>> \in Seq(Pages) /\ Len(<<x, y>>) = 2
         /\ <<x, y>>[1] = x /\ <<x, y>>[2] = y
OBVIOUS

LEMMA BytesAreBytes ==
  ASSUME NEW n \in Nat, NEW len \in 0..6
  PROVE  Bytes(n, len) \in [1..len -> Byte] /\ Bytes(n, len) \in Seq(Byte) /\ Len(Bytes(n, len)) = len
<1>1. ASSUME NEW k \in 1..len PROVE ((n \div Power[k - 1]) % Base) \in Byte
  <2>1. k - 1 \in 0..5 OBVIOUS
  <2> DEFINE b == Power[k - 1]
  <2>2. b \in Nat \ {0} BY <2>1, PowerFacts
  <2> HIDE DEF b
  <2>3. n \div b \in Int BY <2>2
  <2>4. Base \in Nat \ {0} BY AhciAssumption
  <2>5. ((n \div b) % Base) \in 0..Base - 1 BY <2>3, <2>4
  <2>6. QED BY <2>5 DEF b, Byte
<1>2. Bytes(n, len) \in [1..len -> Byte] BY <1>1 DEF Bytes
<1>3. QED BY <1>2

\* The last of the chunks has something to hold.
LEMMA Chunks ==
  ASSUME NEW units \in Nat, NEW n \in 1..(units + Chunk - 1) \div Chunk
  PROVE  (n - 1) * Chunk \in Nat /\ (n - 1) * Chunk < units
<1>1. Chunk \in Nat \ {0} BY AhciAssumption
<1> DEFINE q == (units + Chunk - 1) \div Chunk
<1>2. q \in Nat /\ q * Chunk <= units + Chunk - 1 BY <1>1
<1> HIDE DEF q
<1>3. n \in Nat /\ n >= 1 /\ n <= q BY <1>2 DEF q
<1>4. n * Chunk <= q * Chunk BY <1>1, <1>2, <1>3
<1>5. (n - 1) * Chunk = n * Chunk - Chunk BY <1>1, <1>3
<1>6. (n - 1) * Chunk \in Nat BY <1>1, <1>3
<1>7. n * Chunk \in Nat /\ q * Chunk \in Nat BY <1>1, <1>2, <1>3
<1>8. QED BY <1>1, <1>2, <1>4, <1>5, <1>6, <1>7

LEMMA PrdtEntriesOfBuffer == ASSUME NEW units \in Nat PROVE Prdt(units) \in Seq(PrdtEntries)
<1>1. Chunk \in Nat \ {0} BY AhciAssumption
<1> DEFINE q == (units + Chunk - 1) \div Chunk
<1>2. q \in Nat BY <1>1
<1>3. ASSUME NEW n \in 1..q
      PROVE  [dba |-> (n - 1) * Chunk,
              dbc |-> (IF units - (n - 1) * Chunk > Chunk THEN Chunk ELSE units - (n - 1) * Chunk) - 1]
               \in PrdtEntries
  <2> DEFINE d == (n - 1) * Chunk
  <2>1. d \in Nat /\ d < units BY Chunks
  <2> HIDE DEF d
  <2>2. (IF units - d > Chunk THEN Chunk ELSE units - d) - 1 \in Nat BY <1>1, <2>1
  <2>3. [dba |-> d, dbc |-> (IF units - d > Chunk THEN Chunk ELSE units - d) - 1] \in PrdtEntries
    BY <2>1, <2>2 DEF PrdtEntries
  <2>4. QED BY <2>3 DEF d
<1>4. Prdt(units) \in [1..q -> PrdtEntries] BY <1>3 DEF Prdt
<1> HIDE DEF q
<1>5. QED BY <1>2, <1>4

-----------------------------------------------------------------------------
(* The registers of a port.                                                 *)

\* Registers u are in place of r, with another command list or commands.
Becomes(r, u, list, issued) ==
  u \in Registers /\ u.upper = r.upper /\ u.DET = r.DET /\ u.PxCLB = list /\ u.CI = issued

LEMMA PortFieldChanges ==
  ASSUME port \in [Port -> Registers], NEW p \in Port, NEW u \in Registers,
         port' = [port EXCEPT ![p] = u]
  PROVE  /\ port' \in [Port -> Registers] /\ port'[p] = u
         /\ \A q \in Port : q # p => port'[q] = port[q]
OBVIOUS

LEMMA PortStarts ==
  ASSUME port \in [Port -> Registers], NEW p \in Port, NEW n \in Nat,
         port' = [port EXCEPT ![p].PxCLB = n, ![p].PxFB = n + 1, ![p].DHRE = TRUE, ![p].FRE = TRUE]
  PROVE  /\ port' \in [Port -> Registers] /\ Becomes(port[p], port'[p], n, port[p].CI)
         /\ \A q \in Port : q # p => port'[q] = port[q]
<1>1. port[p] \in Registers OBVIOUS
<1> DEFINE u == [port[p] EXCEPT !.PxCLB = n, !.PxFB = n + 1, !.DHRE = TRUE, !.FRE = TRUE]
<1>2. n + 1 \in Nat OBVIOUS
<1>3. u \in Registers BY <1>1, <1>2 DEF Registers
<1>4. u.upper = port[p].upper /\ u.DET = port[p].DET /\ u.PxCLB = n /\ u.CI = port[p].CI
  BY <1>1 DEF Registers
<1>5. port' = [port EXCEPT ![p] = u] OBVIOUS
<1> HIDE DEF u
<1>6. port'[p] = u /\ port' \in [Port -> Registers] /\ \A q \in Port : q # p => port'[q] = port[q]
  BY <1>3, <1>5, PortFieldChanges
<1>7. QED BY <1>3, <1>4, <1>6 DEF Becomes

LEMMA RegistersChange ==
  ASSUME NEW r \in Registers, NEW s \in Slot
  PROVE  /\ Becomes(r, [r EXCEPT !.ST = TRUE], r.PxCLB, r.CI)
         /\ Becomes(r, [r EXCEPT !.FR = TRUE], r.PxCLB, r.CI)
         /\ Becomes(r, [r EXCEPT !.DHRS = FALSE], r.PxCLB, r.CI)
         /\ Becomes(r, [r EXCEPT !.CI = @ \cup {s}], r.PxCLB, r.CI \cup {s})
         /\ Becomes(r, [r EXCEPT !.CI = @ \ {s}, !.DHRS = TRUE], r.PxCLB, r.CI \ {s})
<1>1. r.CI \in SUBSET Slot BY DEF Registers
<1>2. r.CI \cup {s} \in SUBSET Slot /\ r.CI \ {s} \in SUBSET Slot BY <1>1
<1>3. Becomes(r, [r EXCEPT !.ST = TRUE], r.PxCLB, r.CI) BY DEF Registers, Becomes
<1>4. Becomes(r, [r EXCEPT !.FR = TRUE], r.PxCLB, r.CI) BY DEF Registers, Becomes
<1>5. Becomes(r, [r EXCEPT !.DHRS = FALSE], r.PxCLB, r.CI) BY DEF Registers, Becomes
<1> DEFINE a == r.CI \cup {s}
           b == r.CI \ {s}
<1>6. a \in SUBSET Slot /\ b \in SUBSET Slot BY <1>2
<1> HIDE DEF a, b
<1>7. Becomes(r, [r EXCEPT !.CI = a], r.PxCLB, a) BY <1>6 DEF Registers, Becomes
<1>8. Becomes(r, [r EXCEPT !.CI = b, !.DHRS = TRUE], r.PxCLB, b) BY <1>6 DEF Registers, Becomes
<1>9. QED BY <1>3, <1>4, <1>5, <1>7, <1>8 DEF a, b

\* Neither command lists nor commands are changed.
PortsKept == /\ port' \in [Port -> Registers]
             /\ \A q \in Port : Becomes(port[q], port'[q], port[q].PxCLB, port[q].CI)

LEMMA PortsFetch ==
  ASSUME port \in [Port -> Registers]
  PROVE  /\ \A p \in Port : \/ port' = [port EXCEPT ![p].ST = TRUE]
                            \/ port' = [port EXCEPT ![p].FR = TRUE]
                            => PortsKept
         /\ port' = [q \in Port |-> IF q \in IS THEN [port[q] EXCEPT !.DHRS = FALSE] ELSE port[q]]
              => PortsKept
<1>1. 0 \in Slot BY AhciAssumption DEF Slot
<1>2. \A q \in Port : /\ Becomes(port[q], port[q], port[q].PxCLB, port[q].CI)
                      /\ Becomes(port[q], [port[q] EXCEPT !.ST = TRUE], port[q].PxCLB, port[q].CI)
                      /\ Becomes(port[q], [port[q] EXCEPT !.FR = TRUE], port[q].PxCLB, port[q].CI)
                      /\ Becomes(port[q], [port[q] EXCEPT !.DHRS = FALSE], port[q].PxCLB, port[q].CI)
  BY <1>1, RegistersChange DEF Becomes
<1> DEFINE k(q, u) == Becomes(port[q], u, port[q].PxCLB, port[q].CI)
<1>3. \A q \in Port : \A u : k(q, u) => u \in Registers BY DEF Becomes
<1> HIDE DEF k
<1>4. \A q \in Port : /\ k(q, port[q]) /\ k(q, [port[q] EXCEPT !.ST = TRUE])
                      /\ k(q, [port[q] EXCEPT !.FR = TRUE]) /\ k(q, [port[q] EXCEPT !.DHRS = FALSE])
  BY <1>2 DEF k
<1>5. ASSUME NEW p \in Port, port' = [port EXCEPT ![p].ST = TRUE] PROVE PortsKept
  <2>1. port' = [port EXCEPT ![p] = [port[p] EXCEPT !.ST = TRUE]] BY <1>5
  <2>2. port' \in [Port -> Registers] /\ \A q \in Port : k(q, port'[q]) BY <1>3, <1>4, <2>1
  <2>3. QED BY <2>2 DEF k, PortsKept
<1>6. ASSUME NEW p \in Port, port' = [port EXCEPT ![p].FR = TRUE] PROVE PortsKept
  <2>1. port' = [port EXCEPT ![p] = [port[p] EXCEPT !.FR = TRUE]] BY <1>6
  <2>2. port' \in [Port -> Registers] /\ \A q \in Port : k(q, port'[q]) BY <1>3, <1>4, <2>1
  <2>3. QED BY <2>2 DEF k, PortsKept
<1>7. ASSUME port' = [q \in Port |-> IF q \in IS THEN [port[q] EXCEPT !.DHRS = FALSE] ELSE port[q]]
      PROVE  PortsKept
  <2>1. port' \in [Port -> Registers] /\ \A q \in Port : k(q, port'[q]) BY <1>3, <1>4, <1>7
  <2>2. QED BY <2>1 DEF k, PortsKept
<1>8. QED BY <1>5, <1>6, <1>7

-----------------------------------------------------------------------------
(* What a step does to the memory and the list of devices.                  *)

\* The pages given out stay so, and command lists stay command lists.
ListsKept == /\ memory' \in Seq(Pages) /\ Len(memory') >= Len(memory)
             /\ \A n \in DOMAIN memory : memory[n].kind = "list" => memory'[n].kind = "list"

NewTable(command, lba, sectorCount, prdt) ==
  [kind |-> "table", command |-> command, lba |-> lba, sectorCount |-> sectorCount, prdt |-> prdt]

\* The table of a call that moves so many units.
TableFor(r, units) ==
  NewTable(IF r.write THEN "write" ELSE "read", Bytes(r.lba_low, 4) \o Bytes(r.lba_high, 2),
           Bytes(r.count, 2), Prdt(units))

LEMMA NewTableIsPage ==
  ASSUME NEW command \in {"identify", "read", "write"}, NEW lba \in [1..6 -> Byte],
         NEW sectorCount \in [1..2 -> Byte], NEW prdt \in Seq(PrdtEntries)
  PROVE  /\ NewTable(command, lba, sectorCount, prdt) \in Pages
         /\ NewTable(command, lba, sectorCount, prdt).kind = "table"
         /\ NewTable(command, lba, sectorCount, prdt).command = command
         /\ NewTable(command, lba, sectorCount, prdt).prdt = prdt
<1>1. NewTable(command, lba, sectorCount, prdt) \in Tables BY DEF NewTable, Tables
<1>2. QED BY <1>1, TablePages DEF NewTable

LEMMA PageFacts == Page \in Pages /\ Page.kind = "page"
BY DEF Page, Pages

LEMMA GivenKeepsLists ==
  ASSUME memory \in Seq(Pages), NEW pages \in Seq(Pages), memory' = Given(pages)
  PROVE  ListsKept /\ Len(memory') = Len(memory) + Len(pages)
         /\ \A n \in 1..Len(pages) : memory'[Len(memory) + n] = pages[n]
<1>1. /\ memory' \in Seq(Pages) /\ Len(memory') = Len(memory) + Len(pages)
      /\ \A n \in 1..Len(memory) : memory'[n].kind = memory[n].kind
      /\ \A n \in 1..Len(pages) : memory'[Len(memory) + n] = pages[n]
  BY GivenPages
<1>2. Len(memory) \in Nat /\ Len(pages) \in Nat /\ DOMAIN memory = 1..Len(memory) OBVIOUS
<1>3. QED BY <1>1, <1>2 DEF ListsKept

LEMMA CurrentPort == ASSUME TypesInv, ProbeInv, pc \in {"fis", "identified"} \cup Executing PROVE current \in Port
<1>1. CASE request = NoRequest
  <2>1. i \in Nat /\ i < NP /\ NP \in Nat BY <1>1, AhciAssumption DEF TypesInv, ProbeInv, Place
  <2>2. QED BY <1>1, <2>1 DEF current, Port
<1>2. CASE request # NoRequest
  <2>1. request \in Requests BY <1>2 DEF TypesInv
  <2>2. request.port \in Port BY <2>1, AhciAssumption
  <2>3. QED BY <1>2, <2>2 DEF current
<1>3. QED BY <1>1, <1>2

LEMMA PortFacts ==
  ASSUME TypesInv, AHCI_init_port
  PROVE  /\ i \in Port /\ i < NP /\ ListsKept /\ port' \in [Port -> Registers]
         /\ port'[i].PxCLB \in DOMAIN memory' /\ memory'[port'[i].PxCLB].kind = "list"
         /\ port'[i].upper = port[i].upper /\ port'[i].CI = port[i].CI /\ port'[i].DET = port[i].DET
         /\ \A q \in Port : q # i => port'[q] = port[q]
<1>1. i \in Port /\ i < NP
  <2>1. i \in Nat /\ NP \in Nat /\ i < NP BY AhciAssumption DEF TypesInv, AHCI_init_port
  <2>2. QED BY <2>1 DEF Port
<1>2. memory \in Seq(Pages) /\ Len(memory) \in Nat /\ port \in [Port -> Registers] BY DEF TypesInv
<1> DEFINE list == [kind |-> "list", header |-> [s \in Slot |-> NoHeader]]
           fis == [kind |-> "fis"]
<1>3. list \in Pages /\ fis \in Pages /\ list.kind = "list"
  <2>1. [s \in Slot |-> NoHeader] \in [Slot -> Headers] BY DEF NoHeader, Headers
  <2>2. QED BY <2>1 DEF Pages
<1>4. memory' = Given(<<list, fis>>) BY DEF AHCI_init_port
<1> HIDE DEF list, fis
<1>5. <<list, fis>> \in Seq(Pages) /\ Len(<<list, fis>>) = 2 /\ <<list, fis>>[1] = list BY <1>3, TwoPages
<1>6. ListsKept /\ Len(memory') = Len(memory) + 2 /\ memory'[Len(memory) + 1] = list
  <2> DEFINE pages == <<list, fis>>
  <2>1. pages \in Seq(Pages) /\ Len(pages) = 2 /\ pages[1] = list /\ memory' = Given(pages) BY <1>4, <1>5
  <2> HIDE DEF pages
  <2>2. /\ ListsKept /\ Len(memory') = Len(memory) + Len(pages)
        /\ \A n \in 1..Len(pages) : memory'[Len(memory) + n] = pages[n]
    BY <1>2, <2>1, GivenKeepsLists
  <2>3. QED BY <2>1, <2>2
<1>7. Len(memory) + 1 \in DOMAIN memory' BY <1>2, <1>6 DEF ListsKept
<1> DEFINE n == Len(memory) + 1
<1>8. n \in Nat /\ Len(memory) + 2 = n + 1 BY <1>2
<1>9. port' = [port EXCEPT ![i].PxCLB = n, ![i].PxFB = n + 1, ![i].DHRE = TRUE, ![i].FRE = TRUE]
  BY <1>8 DEF AHCI_init_port
<1> HIDE DEF n
<1>10. /\ port' \in [Port -> Registers] /\ Becomes(port[i], port'[i], n, port[i].CI)
       /\ \A q \in Port : q # i => port'[q] = port[q]
  BY <1>1, <1>2, <1>8, <1>9, PortStarts
<1>11. n \in DOMAIN memory' /\ memory'[n] = list BY <1>6, <1>7 DEF n
<1>12. QED BY <1>1, <1>3, <1>6, <1>10, <1>11 DEF Becomes

LEMMA IdentifyFacts ==
  ASSUME TypesInv, AHCI_init_identify, i \in Port
  PROVE  /\ ListsKept /\ Len(memory') = Len(memory) + 2 /\ command_table' = Len(memory) + 1
         /\ memory'[command_table'].kind = "table" /\ memory'[command_table'].command = "identify"
         /\ memory'[command_table'].prdt = <<[dba |-> command_table' + 1, dbc |-> 0]>>
         /\ memory'[command_table' + 1] = Page
         /\ PortsKept
<1>1. memory \in Seq(Pages) /\ Len(memory) \in Nat /\ port \in [Port -> Registers] BY DEF TypesInv
<1>2. Bytes(0, 6) \in [1..6 -> Byte] /\ Bytes(0, 2) \in [1..2 -> Byte] BY BytesAreBytes
<1> DEFINE prdt == <<[dba |-> Len(memory) + 2, dbc |-> 0]>>
           table == NewTable("identify", Bytes(0, 6), Bytes(0, 2), prdt)
<1>3. prdt \in Seq(PrdtEntries) BY <1>1 DEF PrdtEntries
<1> HIDE DEF prdt
<1>4. table \in Pages /\ table.kind = "table" /\ table.command = "identify" /\ table.prdt = prdt
  BY <1>2, <1>3, NewTableIsPage
<1>5. memory' = Given(<<table, Page>>) /\ command_table' = Len(memory) + 1
  BY DEF AHCI_init_identify, NewTable, prdt
<1> HIDE DEF table
<1>6. /\ <<table, Page>> \in Seq(Pages) /\ Len(<<table, Page>>) = 2
      /\ <<table, Page>>[1] = table /\ <<table, Page>>[2] = Page
  BY <1>4, PageFacts, TwoPages
<1>7. /\ ListsKept /\ Len(memory') = Len(memory) + 2
      /\ memory'[Len(memory) + 1] = table /\ memory'[Len(memory) + 2] = Page
  <2> DEFINE pages == <<table, Page>>
  <2>1. /\ pages \in Seq(Pages) /\ Len(pages) = 2 /\ pages[1] = table /\ pages[2] = Page
        /\ memory' = Given(pages)
    BY <1>5, <1>6
  <2> HIDE DEF pages
  <2>2. /\ ListsKept /\ Len(memory') = Len(memory) + Len(pages)
        /\ \A n \in 1..Len(pages) : memory'[Len(memory) + n] = pages[n]
    BY <1>1, <2>1, GivenKeepsLists
  <2>3. QED BY <2>1, <2>2
<1>8. Len(memory) + 2 = command_table' + 1 BY <1>1, <1>5
<1>9. prdt = <<[dba |-> command_table' + 1, dbc |-> 0]>> BY <1>8 DEF prdt
<1>10. port' = [port EXCEPT ![i].ST = TRUE] BY DEF AHCI_init_identify
<1>11. PortsKept BY <1>1, <1>10, PortsFetch
<1>12. QED BY <1>4, <1>5, <1>7, <1>8, <1>9, <1>11

LEMMA TransferFacts ==
  ASSUME TypesInv, NEW r \in Requests, AHCI_transfer(r)
  PROVE  /\ ListsKept /\ Len(memory') = Len(memory) + 1 /\ command_table' = Len(memory) + 1
         /\ memory'[command_table'].kind = "table" /\ memory'[command_table'].command # "identify"
         /\ \E n \in DOMAIN g_ahci_device_list :
              /\ g_ahci_device_list[n].port = r.port
              /\ memory'[command_table'] = TableFor(r, r.count * g_ahci_device_list[n].lba_size)
<1>1. memory \in Seq(Pages) /\ Len(memory) \in Nat /\ g_ahci_device_list \in Seq(Entries) BY DEF TypesInv
<1>2. PICK n \in DOMAIN g_ahci_device_list :
        /\ g_ahci_device_list[n].port = r.port
        /\ memory' = Given(<<[kind |-> "table", command |-> IF r.write THEN "write" ELSE "read",
             lba |-> Bytes(r.lba_low, 4) \o Bytes(r.lba_high, 2), sectorCount |-> Bytes(r.count, 2),
             prdt |-> Prdt(r.count * g_ahci_device_list[n].lba_size)]>>)
  BY DEF AHCI_transfer
<1> DEFINE command == IF r.write THEN "write" ELSE "read"
           lba == Bytes(r.lba_low, 4) \o Bytes(r.lba_high, 2)
           prdt == Prdt(r.count * g_ahci_device_list[n].lba_size)
           table == NewTable(command, lba, Bytes(r.count, 2), prdt)
<1>3. r.lba_low \in Nat /\ r.lba_high \in Nat /\ r.count \in Nat
  <2>1. Word \in Int /\ Power[2] \in Int BY PowerFacts DEF Word
  <2> DEFINE w == Word
             b == Power[2]
  <2> HIDE DEF w, b
  <2>2. Requests \subseteq [write : BOOLEAN, port : Port, lba_low : 0..w - 1, lba_high : 0..b - 1, count : 1..b]
    BY AhciAssumption DEF w, b
  <2>3. QED BY <2>1, <2>2 DEF w, b
<1>4. lba \in [1..6 -> Byte]
  <2> DEFINE a == Bytes(r.lba_low, 4)
             b == Bytes(r.lba_high, 2)
  <2>1. a \in Seq(Byte) /\ b \in Seq(Byte) /\ Len(a) = 4 /\ Len(b) = 2 BY <1>3, BytesAreBytes, SMTT(30)
  <2> HIDE DEF a, b
  <2>2. a \o b \in Seq(Byte) /\ Len(a \o b) = Len(a) + Len(b) BY <2>1, ConcatProperties, Zenon
  <2>3. Len(a \o b) = 6 BY <2>1, <2>2
  <2> DEFINE c == a \o b
  <2>4. c \in Seq(Byte) /\ Len(c) = 6 BY <2>2, <2>3
  <2> HIDE DEF c
  <2>5. c \in [1..Len(c) -> Byte] BY <2>4, LenProperties, Zenon
  <2>6. c \in [1..6 -> Byte] BY <2>4, <2>5, Zenon
  <2>7. QED BY <2>6 DEF a, b, c
<1>5. Bytes(r.count, 2) \in [1..2 -> Byte] BY <1>3, BytesAreBytes, SMTT(30)
<1>6. prdt \in Seq(PrdtEntries)
  <2>1. g_ahci_device_list[n] \in Entries BY <1>1
  <2>2. PICK device \in Devices, p \in Port : g_ahci_device_list[n] = Registered(device, p)
    BY <2>1 DEF Entries
  <2>3. g_ahci_device_list[n].lba_size = lba_size(device) BY <2>2 DEF Registered
  <2>4. device.sector \in Nat BY DEF Devices
  <2>5. lba_size(device) \in Nat BY <2>4 DEF lba_size
  <2>6. r.count * lba_size(device) \in Nat BY <1>3, <2>5
  <2>7. QED BY <2>3, <2>6, PrdtEntriesOfBuffer
<1>7. memory' = Given(<<table>>) BY <1>2 DEF NewTable
<1>8. command \in {"identify", "read", "write"} /\ command # "identify" OBVIOUS
<1>a. table = TableFor(r, r.count * g_ahci_device_list[n].lba_size) BY DEF TableFor
<1> HIDE DEF command, lba, prdt
<1>9. table \in Pages /\ table.kind = "table" /\ table.command # "identify"
  BY <1>4, <1>5, <1>6, <1>8, NewTableIsPage
<1> HIDE DEF table
<1>10. <<table>> \in Seq(Pages) /\ Len(<<table>>) = 1 /\ <<table>>[1] = table BY <1>9, OnePage
<1>11. ListsKept /\ Len(memory') = Len(memory) + 1 /\ memory'[Len(memory) + 1] = table
  <2> DEFINE pages == <<table>>
  <2>1. pages \in Seq(Pages) /\ Len(pages) = 1 /\ pages[1] = table /\ memory' = Given(pages)
    BY <1>7, <1>10
  <2> HIDE DEF pages
  <2>2. /\ ListsKept /\ Len(memory') = Len(memory) + Len(pages)
        /\ \A k \in 1..Len(pages) : memory'[Len(memory) + k] = pages[k]
    BY <1>1, <2>1, GivenKeepsLists
  <2>3. QED BY <2>1, <2>2
<1>12. command_table' = Len(memory) + 1 BY DEF AHCI_transfer
<1>13. QED BY <1>2, <1>9, <1>a, <1>11, <1>12

LEMMA RegisterDeviceFacts ==
  ASSUME TypesInv, ProbeInv, TableInv, IdentifyInv, AHCI_init_register_device
  PROVE  /\ i \in Port /\ i < NP /\ ListsKept
         /\ devices[i].kind = "ata48" =>
              g_ahci_device_list' = <<Registered(devices[i], i)>> \o g_ahci_device_list
         /\ devices[i].kind # "ata48" => g_ahci_device_list' = g_ahci_device_list
<1>1. pc = "identified" /\ request = NoRequest BY DEF AHCI_init_register_device, ProbeInv, Place
<1>2. i \in Port /\ i < NP
  <2>1. i \in Nat /\ NP \in Nat /\ i < NP BY <1>1, AhciAssumption DEF TypesInv, ProbeInv, Place
  <2>2. QED BY <2>1 DEF Port
<1>3. memory[command_table + 1].device = devices[i] BY <1>1 DEF IdentifyInv
<1>4. memory \in Seq(Pages) /\ Len(memory) \in Nat BY DEF TypesInv
<1>5. CASE devices[i].kind = "ata48"
  <2>1. memory' = Given(<<Page>>) BY <1>3, <1>5 DEF AHCI_init_register_device
  <2> DEFINE pages == <<Page>>
  <2>2. pages \in Seq(Pages) /\ memory' = Given(pages) BY <2>1, PageFacts, OnePage
  <2> HIDE DEF pages
  <2>3. ListsKept BY <1>4, <2>2, GivenKeepsLists
  <2>4. QED BY <1>2, <1>3, <1>5, <2>3 DEF AHCI_init_register_device
<1>6. CASE devices[i].kind # "ata48"
  <2>1. memory' = memory /\ g_ahci_device_list' = g_ahci_device_list
    BY <1>3, <1>6 DEF AHCI_init_register_device
  <2>2. QED BY <1>2, <1>4, <1>6, <2>1 DEF ListsKept
<1>7. QED BY <1>5, <1>6

Command(table) == [W |-> FALSE, prdtl |-> Len(memory[table].prdt), ctba |-> table]

\* The lowest slot is free, as no command is under way.
LEMMA ExecuteFacts ==
  ASSUME TypesInv, ProbeInv, ListInv, TableInv, IssuedInv, AHCI_execute_command
  PROVE  /\ current \in Port /\ command_list_index' \in Slot
         /\ memory' \in Seq(Pages) /\ Len(memory') = Len(memory)
         /\ \A n \in DOMAIN memory : memory'[n].kind = memory[n].kind
         /\ \A n \in DOMAIN memory : n # port[current].PxCLB => memory'[n] = memory[n]
         /\ memory'[port[current].PxCLB].header[command_list_index'] = Command(command_table)
<1>1. pc = "execute" /\ current \in Port BY CurrentPort DEF AHCI_execute_command, Executing
<1> DEFINE page == port[current].PxCLB
           s == command_list_index'
           h == Command(command_table)
<1>2. page \in DOMAIN memory /\ memory[page].kind = "list" BY <1>1 DEF ListInv, CurrentInv, HasList, Executing
<1>3. memory \in Seq(Pages) /\ Len(memory) \in Nat /\ DOMAIN memory = 1..Len(memory) BY DEF TypesInv
<1>4. port[current].CI = {} BY <1>1 DEF IssuedInv
<1>5. s \in Slot
  <2>1. 0 \in Slot /\ \A t \in Slot : 0 <= t BY AhciAssumption DEF Slot
  <2>2. Slot \ port[current].CI = Slot BY <1>4
  <2>3. s = CHOOSE x \in Slot : \A t \in Slot : x <= t BY <2>1, <2>2 DEF AHCI_execute_command
  <2>4. QED BY <2>1, <2>3
<1>6. h \in Headers
  <2>1. command_table \in DOMAIN memory /\ memory[command_table].kind = "table" BY <1>1 DEF TableInv, Executing
  <2>2. memory[command_table] \in Tables BY <1>3, <2>1, TablePages
  <2>3. memory[command_table].prdt \in Seq(PrdtEntries) BY <2>2 DEF Tables
  <2>4. Len(memory[command_table].prdt) \in Nat /\ command_table \in Nat BY <1>3, <2>1, <2>3
  <2>5. QED BY <2>4 DEF Command, Headers
<1>7. memory' = [memory EXCEPT ![page].header[s] = h] BY DEF AHCI_execute_command, Command
<1> DEFINE old == memory[page]
           new == [old EXCEPT !.header = [old.header EXCEPT ![s] = h]]
<1>8. memory' = [memory EXCEPT ![page] = new] BY <1>7
<1>9. old \in Pages /\ old.kind = "list" BY <1>2, <1>3
<1> HIDE DEF page, s, h, old
<1>10. old \in [kind : {"list"}, header : [Slot -> Headers]] BY <1>9 DEF Pages
<1>11. old.header \in [Slot -> Headers] BY <1>10
<1>12. [old.header EXCEPT ![s] = h] \in [Slot -> Headers] /\ [old.header EXCEPT ![s] = h][s] = h
  BY <1>5, <1>6, <1>11
<1>13. new \in [kind : {"list"}, header : [Slot -> Headers]] /\ new.header[s] = h /\ new.kind = "list"
  BY <1>10, <1>12
<1> HIDE DEF new
<1>14. new \in Pages BY <1>13 DEF Pages
<1>15. /\ memory' \in Seq(Pages) /\ Len(memory') = Len(memory) /\ memory'[page] = new
       /\ \A n \in DOMAIN memory : n # page => memory'[n] = memory[n]
  BY <1>2, <1>3, <1>8, <1>14, ExceptSeq
<1>16. \A n \in DOMAIN memory : memory'[n].kind = memory[n].kind
  BY <1>9, <1>13, <1>15 DEF old
<1>17. QED BY <1>1, <1>5, <1>13, <1>15, <1>16 DEF page, s, h

\* The adapter finds the command that the driver is waiting for.
LEMMA FoundFacts ==
  ASSUME TypesInv, ProbeInv, ListInv, TableInv, IssuedInv, NEW p \in Port, NEW s \in port[p].CI
  PROVE  /\ pc = "wait" /\ p = current /\ s = command_list_index /\ port[p].CI = {s}
         /\ Fetchable(p, s) /\ Table(p, s) = memory[command_table]
<1>1. pc = "wait" /\ p = current /\ port[p].CI = {command_list_index} /\ s = command_list_index
  BY DEF IssuedInv
<1>2. HasList(p) /\ port[p].upper = 0 BY <1>1 DEF ListInv, CurrentInv, IssuedInv, Executing
<1>3. /\ command_table \in DOMAIN memory /\ memory[command_table].kind = "table"
      /\ Header(p, s) = [W |-> FALSE, prdtl |-> Len(memory[command_table].prdt), ctba |-> command_table]
  BY <1>1 DEF TableInv, Executing
<1>4. Header(p, s).ctba = command_table /\ Header(p, s).prdtl = Len(memory[command_table].prdt) BY <1>3
<1>5. memory \in Seq(Pages) BY DEF TypesInv
<1>6. Len(memory[command_table].prdt) \in Nat
  <2>1. memory[command_table] \in Tables BY <1>3, <1>5, TablePages
  <2>2. memory[command_table].prdt \in Seq(PrdtEntries) BY <2>1 DEF Tables
  <2>3. QED BY <2>2
<1>7. Fetchable(p, s) BY <1>2, <1>3, <1>4, <1>6 DEF Fetchable, HasList, Header
<1>8. QED BY <1>1, <1>4, <1>7 DEF Table

LEMMA IdentifiedFacts ==
  ASSUME TypesInv, ProbeInv, ListInv, TableInv, IssuedInv, NEW p \in Port, NEW s \in port[p].CI,
         Table(p, s).command = "identify", Identify(p, s), p \in Disks(devices)
  PROVE  /\ request = NoRequest /\ p = i /\ command_table + 1 \in DOMAIN memory
         /\ memory[command_table + 1].kind \in {"page", "data"}
         /\ memory' \in Seq(Pages) /\ Len(memory') = Len(memory)
         /\ memory'[command_table + 1] = [kind |-> "data", device |-> devices[i]]
         /\ \A n \in DOMAIN memory : n # command_table + 1 => memory'[n] = memory[n]
<1>1. pc = "wait" /\ p = current /\ Table(p, s) = memory[command_table] BY FoundFacts
<1>2. request = NoRequest BY <1>1 DEF TableInv, Executing
<1>3. /\ memory[command_table].prdt = <<[dba |-> command_table + 1, dbc |-> 0]>>
      /\ command_table + 1 \in DOMAIN memory /\ memory[command_table + 1].kind \in {"page", "data"}
  BY <1>1, <1>2 DEF TableInv, Executing
<1>4. memory[command_table].prdt[1].dba = command_table + 1 BY <1>3
<1> DEFINE n == command_table + 1
           data == [kind |-> "data", device |-> devices[p]]
<1>5. memory' = [memory EXCEPT ![n] = data] BY <1>1, <1>4 DEF Identify
<1>6. memory \in Seq(Pages) /\ devices \in [Port -> Devices] BY DEF TypesInv
<1>7. data \in Pages
  <2>1. devices[p] \in Devices BY <1>6
  <2>2. QED BY <2>1 DEF Pages
<1>8. n \in DOMAIN memory BY <1>3
<1> HIDE DEF n, data
<1>9. /\ memory' \in Seq(Pages) /\ Len(memory') = Len(memory) /\ memory'[n] = data
      /\ \A k \in DOMAIN memory : k # n => memory'[k] = memory[k]
  BY <1>5, <1>6, <1>7, <1>8, ExceptSeq
<1>10. p = i BY <1>1, <1>2 DEF current
<1>11. QED BY <1>2, <1>3, <1>9, <1>10 DEF n, data

LEMMA IssueFacts ==
  ASSUME TypesInv, ProbeInv, AHCI_execute_command_issue
  PROVE  /\ current \in Port /\ port' \in [Port -> Registers]
         /\ Becomes(port[current], port'[current], port[current].PxCLB,
                    port[current].CI \cup {command_list_index})
         /\ \A q \in Port : q # current => port'[q] = port[q]
<1>1. current \in Port BY CurrentPort DEF AHCI_execute_command_issue, Executing
<1>2. port \in [Port -> Registers] /\ command_list_index \in Slot BY DEF TypesInv
<1> DEFINE u == [port[current] EXCEPT !.CI = @ \cup {command_list_index}]
<1>3. port' = [port EXCEPT ![current] = u] BY DEF AHCI_execute_command_issue
<1>4. port[current] \in Registers BY <1>1, <1>2
<1>5. Becomes(port[current], u, port[current].PxCLB, port[current].CI \cup {command_list_index})
  BY <1>2, <1>4, RegistersChange
<1> HIDE DEF u
<1>6. u \in Registers BY <1>5 DEF Becomes
<1>7. port' \in [Port -> Registers] /\ port'[current] = u /\ \A q \in Port : q # current => port'[q] = port[q]
  BY <1>1, <1>2, <1>3, <1>6, PortFieldChanges
<1>8. QED BY <1>1, <1>5, <1>7

LEMMA CompleteFacts ==
  ASSUME TypesInv, NEW p \in Port, NEW s \in Slot, Complete(p, s)
  PROVE  /\ port' \in [Port -> Registers]
         /\ Becomes(port[p], port'[p], port[p].PxCLB, port[p].CI \ {s})
         /\ \A q \in Port : q # p => port'[q] = port[q]
<1>1. port \in [Port -> Registers] /\ port[p] \in Registers BY DEF TypesInv
<1> DEFINE u == [port[p] EXCEPT !.CI = @ \ {s}, !.DHRS = TRUE]
<1>2. port' = [port EXCEPT ![p] = u] BY DEF Complete
<1>3. Becomes(port[p], u, port[p].PxCLB, port[p].CI \ {s}) BY <1>1, RegistersChange
<1> HIDE DEF u
<1>4. u \in Registers BY <1>3 DEF Becomes
<1>5. port' \in [Port -> Registers] /\ port'[p] = u /\ \A q \in Port : q # p => port'[q] = port[q]
  BY <1>1, <1>2, <1>4, PortFieldChanges
<1>6. QED BY <1>3, <1>5

LEMMA LinkUpFacts ==
  ASSUME TypesInv, NEW p \in Port, LinkUp(p)
  PROVE  /\ port' \in [Port -> Registers]
         /\ port'[p].upper = port[p].upper /\ port'[p].CI = port[p].CI
         /\ port'[p].PxCLB = port[p].PxCLB /\ port'[p].DET = "link"
         /\ \A q \in Port : q # p => port'[q] = port[q]
<1>1. port \in [Port -> Registers] /\ port[p] \in Registers BY DEF TypesInv
<1> DEFINE u == [port[p] EXCEPT !.DET = "link"]
<1>2. port' = [port EXCEPT ![p] = u] BY DEF LinkUp
<1>3. /\ u \in Registers /\ u.upper = port[p].upper /\ u.CI = port[p].CI
      /\ u.PxCLB = port[p].PxCLB /\ u.DET = "link"
  BY <1>1 DEF Registers
<1> HIDE DEF u
<1>4. port' \in [Port -> Registers] /\ port'[p] = u /\ \A q \in Port : q # p => port'[q] = port[q]
  BY <1>1, <1>2, <1>3, PortFieldChanges
<1>5. QED BY <1>3, <1>4

LEMMA ResetFacts ==
  ASSUME NEW upper \in Nat, NEW det \in {"no", "device", "link"}
  PROVE  /\ Reset(upper, det) \in Registers /\ Reset(upper, det).upper = upper
         /\ Reset(upper, det).CI = {} /\ Reset(upper, det).DET = det
BY DEF Reset, Registers

LEMMA ResetDoneFacts ==
  ASSUME TypesInv, ProbeInv, ResetDone
  PROVE  /\ pc = "reset" /\ i = 0 /\ request = NoRequest /\ port' \in [Port -> Registers]
         /\ \A p \in Port : /\ port'[p].upper = port[p].upper /\ port'[p].CI = {}
                            /\ devices[p].kind \notin {"absent", "none"} => port'[p].DET # "no"
<1>1. pc = "reset" /\ i = 0 /\ request = NoRequest BY DEF ResetDone, ProbeInv, Place, Executing
<1>2. PICK det \in [Port -> {"no", "device", "link"}] :
        /\ \A p \in Port : \/ det[p] = "no" /\ devices[p].kind \in {"absent", "none"}
                           \/ det[p] # "no" /\ devices[p].kind \notin {"absent", "none"}
        /\ port' = [p \in Port |-> Reset(port[p].upper, det[p])]
  BY DEF ResetDone
<1>3. \A p \in Port : port[p].upper \in Nat BY DEF TypesInv, Registers
<1>4. \A p \in Port : LET u == Reset(port[p].upper, det[p])
                      IN  u \in Registers /\ u.upper = port[p].upper /\ u.CI = {} /\ u.DET = det[p]
  BY <1>3, ResetFacts
<1>5. QED BY <1>1, <1>2, <1>4

LEMMA HandlerFacts ==
  ASSUME TypesInv, interrupt_function_ahci \/ \E p \in Port : ReceiveFis(p)
  PROVE  PortsKept
<1>1. port \in [Port -> Registers] BY DEF TypesInv
<1>2. CASE interrupt_function_ahci BY <1>1, <1>2, PortsFetch DEF interrupt_function_ahci
<1>3. CASE \E p \in Port : ReceiveFis(p) BY <1>1, <1>3, PortsFetch DEF ReceiveFis
<1>4. QED BY <1>2, <1>3

\* What the driver has made for a command is what the adapter uses.
LEMMA ExecutionFacts ==
  ASSUME TypesInv, ProbeInv, ListInv, TableInv, IssuedInv, NEW p \in Port, NEW s \in Slot, Execute(p, s)
  PROVE  /\ s \in port[p].CI /\ astray' = astray
         /\ UNCHANGED <<devices, pc, i, request, calls, command_table, command_list_index,
                        g_ahci_device_list, HR, IE, IS, port, enabled, irq>>
         /\ \/ stage' = [stage EXCEPT ![p] = "failed"] /\ memory' = memory
            \/ stage' = [stage EXCEPT ![p] = "moved"] /\ memory' = memory /\ request # NoRequest
            \/ /\ Table(p, s).command = "identify" /\ Identify(p, s) /\ p \in Disks(devices)
               /\ stage' = [stage EXCEPT ![p] = "moved"]
<1>1. s \in port[p].CI BY DEF Execute
<1>2. Fetchable(p, s) /\ Table(p, s) = memory[command_table] /\ pc = "wait" BY <1>1, FoundFacts
<1>3. UNCHANGED <<HR, IE, IS, port, enabled, irq>> BY DEF Execute, pic
<1>4. CASE Table(p, s).command = "identify"
  <2>1. Identify(p, s) BY <1>2, <1>4 DEF Execute
  <2>2. CASE p \in Disks(devices) BY <1>1, <1>3, <1>4, <2>1, <2>2 DEF Identify, contents
  <2>3. CASE p \notin Disks(devices) BY <1>1, <1>3, <2>1, <2>3 DEF Identify, contents
  <2>4. QED BY <2>2, <2>3
<1>5. CASE Table(p, s).command # "identify"
  <2>1. Transfer(p, s) BY <1>2, <1>5 DEF Execute
  <2>2. /\ UNCHANGED <<devices, driver, astray>>
        /\ \/ stage' = [stage EXCEPT ![p] = "moved"]
           \/ stage' = [stage EXCEPT ![p] = "failed"]
    BY <2>1 DEF Transfer
  <2>3. request # NoRequest BY <1>2, <1>5 DEF TableInv, Executing
  <2>4. QED BY <1>1, <1>3, <2>2, <2>3 DEF driver
<1>6. QED BY <1>4, <1>5

-----------------------------------------------------------------------------
(* Every variable has its type.                                             *)

LEMMA InitTypes == Init => TypesInv
<1> SUFFICES ASSUME Init PROVE TypesInv OBVIOUS
<1>1. devices \in Connected /\ devices \in [Port -> Devices] BY AhciAssumption DEF Init
<1>2. PICK upper \in Uppers : port = [p \in Port |-> Reset(upper, "no")] BY DEF Init
<1>3. upper \in Nat BY AhciAssumption
<1>4. Reset(upper, "no") \in Registers BY <1>3, ResetFacts
<1>5. port \in [Port -> Registers] BY <1>2, <1>4
<1>6. 0 \in 0..NP /\ 0 \in 0..MaxRequests /\ 0 \in Slot BY AhciAssumption DEF Slot
<1>7. memory = <<>> /\ g_ahci_device_list = <<>> BY DEF Init
<1>8. memory \in Seq(Pages) /\ Len(memory) = 0 /\ g_ahci_device_list \in Seq(Entries) BY <1>7
<1>9. command_table \in 0..Len(memory) BY <1>8 DEF Init
<1>10. QED BY <1>1, <1>5, <1>6, <1>8, <1>9 DEF Init, TypesInv, PCs

LEMMA RegisteredIsEntry ==
  ASSUME NEW device \in Devices, NEW p \in Port, NEW list \in Seq(Entries)
  PROVE  <<Registered(device, p)>> \o list \in Seq(Entries)
<1>1. Registered(device, p) \in Entries BY DEF Entries
<1> DEFINE e == <<Registered(device, p)>>
<1>2. e \in Seq(Entries) BY <1>1
<1> HIDE DEF e
<1>3. e \o list \in Seq(Entries) BY <1>2, ConcatProperties, Zenon
<1>4. QED BY <1>3 DEF e

\* A table stays where it is while memory is given out behind it.
LEMMA TableStays ==
  ASSUME TypesInv, memory' \in Seq(Pages), Len(memory') >= Len(memory)
  PROVE  command_table \in 0..Len(memory')
BY DEF TypesInv

LEMMA StepTypes ==
  ASSUME AhciInv, [Next]_vars
  PROVE  TypesInv'
<1> USE DEF AhciInv
<1>1. devices' = devices
  <2>1. \A p \in Port, s \in Slot : Execute(p, s) => devices' = devices BY ExecutionFacts
  <2>2. QED
    BY <2>1 DEF Next, vars, Driver, HbaPort, contents, AHCI_init_handoff, AHCI_init_reset, AHCI_init_enable,
      AHCI_init_register, AHCI_init_skip, AHCI_init_port, AHCI_init_identify, AHCI_init_register_device,
      AHCI_init_return, AHCI_execute_command, AHCI_execute_command_issue, AHCI_execute_command_return,
      interrupt_function_ahci, ResetDone, AHCI_transfer, LinkUp, ReceiveFis, Complete
<1>2. devices' \in Connected /\ devices' \in [Port -> Devices] BY <1>1 DEF TypesInv
<1>3. CASE AHCI_init_handoff
  BY <1>2, <1>3 DEF AHCI_init_handoff, TypesInv, PCs, contents, hba, pic
<1>4. CASE AHCI_init_reset
  BY <1>2, <1>4 DEF AHCI_init_reset, TypesInv, PCs, contents, pic
<1>5. CASE AHCI_init_enable
  BY <1>2, <1>5 DEF AHCI_init_enable, TypesInv, PCs, contents, pic
<1>6. CASE AHCI_init_register
  BY <1>2, <1>6 DEF AHCI_init_register, TypesInv, PCs, contents, hba
<1>7. CASE AHCI_init_skip
  <2>1. i' \in 0..NP BY <1>7, AhciAssumption DEF AHCI_init_skip, TypesInv
  <2>2. QED BY <1>2, <1>7, <2>1 DEF AHCI_init_skip, TypesInv, contents, hba, pic
<1>8. CASE AHCI_init_port
  <2>1. memory' \in Seq(Pages) /\ Len(memory') >= Len(memory) /\ port' \in [Port -> Registers]
    BY <1>8, PortFacts DEF ListsKept
  <2>2. command_table' \in 0..Len(memory') BY <1>8, <2>1, TableStays DEF AHCI_init_port
  <2>3. QED BY <1>2, <1>8, <2>1, <2>2 DEF AHCI_init_port, TypesInv, PCs, contents, pic
<1>9. CASE AHCI_init_identify
  <2>1. i \in Port
    <3>1. pc = "fis" /\ request = NoRequest BY <1>9 DEF AHCI_init_identify, ProbeInv, Place
    <3>2. QED BY <3>1, CurrentPort DEF current
  <2>2. /\ memory' \in Seq(Pages) /\ Len(memory') = Len(memory) + 2 /\ command_table' = Len(memory) + 1
        /\ port' \in [Port -> Registers]
    BY <1>9, <2>1, IdentifyFacts DEF ListsKept, PortsKept
  <2>3. command_table' \in 0..Len(memory') BY <2>2 DEF TypesInv
  <2>4. QED BY <1>2, <1>9, <2>2, <2>3 DEF AHCI_init_identify, TypesInv, PCs, contents, pic
<1>10. CASE AHCI_init_register_device
  <2>1. i \in Port /\ i < NP /\ memory' \in Seq(Pages) /\ Len(memory') >= Len(memory)
    BY <1>10, RegisterDeviceFacts DEF ListsKept
  <2>2. g_ahci_device_list' \in Seq(Entries)
    <3>1. devices[i] \in Devices /\ g_ahci_device_list \in Seq(Entries) BY <2>1 DEF TypesInv
    <3>2. <<Registered(devices[i], i)>> \o g_ahci_device_list \in Seq(Entries)
      BY <2>1, <3>1, RegisteredIsEntry
    <3>3. QED BY <1>10, <3>1, <3>2, RegisterDeviceFacts
  <2>3. command_table' \in 0..Len(memory') BY <1>10, <2>1, TableStays DEF AHCI_init_register_device
  <2>4. i' \in 0..NP BY <1>10, <2>1, AhciAssumption DEF AHCI_init_register_device, TypesInv
  <2>5. QED
    BY <1>2, <1>10, <2>1, <2>2, <2>3, <2>4 DEF AHCI_init_register_device, TypesInv, PCs, contents, hba, pic
<1>11. CASE AHCI_init_return
  BY <1>2, <1>11 DEF AHCI_init_return, TypesInv, PCs, contents, hba, pic
<1>12. CASE AHCI_execute_command
  <2>1. memory' \in Seq(Pages) /\ Len(memory') = Len(memory) /\ command_list_index' \in Slot
    BY <1>12, ExecuteFacts
  <2>2. QED BY <1>2, <1>12, <2>1 DEF AHCI_execute_command, TypesInv, PCs, contents, hba, pic
<1>13. CASE AHCI_execute_command_issue
  <2>1. port' \in [Port -> Registers] BY <1>13, IssueFacts
  <2>2. QED BY <1>2, <1>13, <2>1 DEF AHCI_execute_command_issue, TypesInv, PCs, contents, pic
<1>14. CASE AHCI_execute_command_return
  BY <1>2, <1>14 DEF AHCI_execute_command_return, TypesInv, PCs, contents, hba, pic
<1>15. CASE interrupt_function_ahci
  <2>1. port' \in [Port -> Registers] BY <1>15, HandlerFacts DEF PortsKept
  <2>2. IS' \subseteq Port BY <1>15 DEF interrupt_function_ahci, TypesInv
  <2>3. QED BY <1>2, <1>15, <2>1, <2>2 DEF interrupt_function_ahci, TypesInv, contents, driver
<1>16. CASE ResetDone
  <2>1. port' \in [Port -> Registers] BY <1>16, ResetDoneFacts
  <2>2. QED BY <1>2, <1>16, <2>1 DEF ResetDone, TypesInv, contents, driver, pic
<1>17. ASSUME NEW r \in Requests, AHCI_transfer(r) PROVE TypesInv'
  <2>1. memory' \in Seq(Pages) /\ Len(memory') = Len(memory) + 1 /\ command_table' = Len(memory) + 1
    BY <1>17, TransferFacts DEF ListsKept
  <2>2. command_table' \in 0..Len(memory') BY <2>1 DEF TypesInv
  <2>3. calls' \in 0..MaxRequests BY <1>17, AhciAssumption DEF AHCI_transfer, TypesInv
  <2>4. QED BY <1>2, <1>17, <2>1, <2>2, <2>3 DEF AHCI_transfer, TypesInv, PCs, contents, hba, pic
<1>18. ASSUME NEW p \in Port, LinkUp(p) PROVE TypesInv'
  <2>1. port' \in [Port -> Registers] BY <1>18, LinkUpFacts
  <2>2. QED BY <1>2, <1>18, <2>1 DEF LinkUp, TypesInv, contents, driver, pic
<1>19. ASSUME NEW p \in Port, ReceiveFis(p) PROVE TypesInv'
  <2>1. port' \in [Port -> Registers] BY <1>19, HandlerFacts DEF PortsKept
  <2>2. QED BY <1>2, <1>19, <2>1 DEF ReceiveFis, TypesInv, contents, driver, pic
<1>20. ASSUME NEW p \in Port, NEW s \in Slot, Execute(p, s) PROVE TypesInv'
  <2>1. /\ astray' = astray /\ s \in port[p].CI
        /\ UNCHANGED <<pc, i, request, calls, command_table, command_list_index,
                       g_ahci_device_list, HR, IE, IS, port, enabled, irq>>
    BY <1>20, ExecutionFacts
  <2>2. stage' \in [Port -> {"none", "moved", "failed"}]
    <3>1. stage' = [stage EXCEPT ![p] = "failed"] \/ stage' = [stage EXCEPT ![p] = "moved"]
      BY <1>20, ExecutionFacts
    <3>2. QED BY <3>1 DEF TypesInv
  <2>3. memory' \in Seq(Pages) /\ Len(memory') = Len(memory)
    <3>1. CASE memory' = memory BY <3>1 DEF TypesInv
    <3>2. CASE Table(p, s).command = "identify" /\ Identify(p, s) /\ p \in Disks(devices)
      BY <2>1, <3>2, IdentifiedFacts
    <3>3. QED BY <1>20, <3>1, <3>2, ExecutionFacts
  <2>4. QED BY <1>2, <2>1, <2>2, <2>3 DEF TypesInv
<1>21. ASSUME NEW p \in Port, NEW s \in Slot, Complete(p, s) PROVE TypesInv'
  <2>1. port' \in [Port -> Registers] BY <1>21, CompleteFacts
  <2>2. stage' \in [Port -> {"none", "moved", "failed"}] BY <1>21 DEF Complete, TypesInv
  <2>3. IS' \subseteq Port BY <1>21 DEF Complete, TypesInv
  <2>4. irq' \in BOOLEAN BY <1>21 DEF Complete, TypesInv
  <2>5. QED BY <1>2, <1>21, <2>1, <2>2, <2>3, <2>4 DEF Complete, TypesInv, contents, driver
<1>22. CASE UNCHANGED vars BY <1>2, <1>22 DEF vars, driver, hba, pic, TypesInv
<1>23. QED
  BY <1>3, <1>4, <1>5, <1>6, <1>7, <1>8, <1>9, <1>10, <1>11, <1>12, <1>13, <1>14, <1>15, <1>16, <1>17,
    <1>18, <1>19, <1>20, <1>21, <1>22, SMTT(30) DEF Next, Driver, HbaPort

-----------------------------------------------------------------------------
(* AHCI_init's loop, and what it sees on the ports.                         *)

LEMMA InitProbe == Init => ProbeInv
BY DEF Init, ProbeInv, Place, Seen, Executing

LEMMA StepSeen ==
  ASSUME AhciInv, [Next]_vars
  PROVE  Seen'
<1> USE DEF AhciInv
<1>1. Seen BY DEF ProbeInv
<1>2. ASSUME devices' = devices, HR' = HR, pc' \in {"init", "handoff"} \/ pc \notin {"init", "handoff"},
             \A p \in Port : port'[p].DET = port[p].DET \/ port'[p].DET = "link"
      PROVE  Seen'
  BY <1>1, <1>2 DEF Seen
<1>3. CASE AHCI_init_handoff BY <1>2, <1>3 DEF AHCI_init_handoff, contents, hba
<1>4. CASE AHCI_init_reset BY <1>4 DEF AHCI_init_reset, Seen
<1>5. CASE \/ AHCI_init_enable \/ AHCI_init_register \/ AHCI_init_skip \/ AHCI_init_return
           \/ AHCI_execute_command \/ AHCI_execute_command_return
  BY <1>2, <1>5 DEF AHCI_init_enable, AHCI_init_register, AHCI_init_skip, AHCI_init_return,
    AHCI_execute_command, AHCI_execute_command_return, contents, hba
<1>6. CASE AHCI_init_port
  <2>1. \A p \in Port : port'[p].DET = port[p].DET BY <1>6, PortFacts
  <2>2. QED BY <1>2, <1>6, <2>1 DEF AHCI_init_port, contents
<1>7. CASE AHCI_init_identify
  <2>1. i \in Port
    <3>1. pc = "fis" /\ request = NoRequest BY <1>7 DEF AHCI_init_identify, ProbeInv, Place
    <3>2. QED BY <3>1, CurrentPort DEF current
  <2>2. \A p \in Port : port'[p].DET = port[p].DET
    BY <1>7, <2>1, IdentifyFacts DEF PortsKept, Becomes
  <2>3. QED BY <1>2, <1>7, <2>2 DEF AHCI_init_identify, contents
<1>8. CASE AHCI_init_register_device BY <1>2, <1>8 DEF AHCI_init_register_device, contents, hba
<1>9. CASE AHCI_execute_command_issue
  <2>1. \A p \in Port : port'[p].DET = port[p].DET BY <1>9, IssueFacts DEF Becomes
  <2>2. QED BY <1>2, <1>9, <2>1 DEF AHCI_execute_command_issue, contents
<1>10. CASE interrupt_function_ahci
  <2>1. \A p \in Port : port'[p].DET = port[p].DET BY <1>10, HandlerFacts DEF PortsKept, Becomes
  <2>2. QED BY <1>2, <1>10, <2>1 DEF interrupt_function_ahci, contents, driver
<1>11. CASE ResetDone
  <2>1. devices' = devices BY <1>11 DEF ResetDone, contents
  <2>2. QED BY <1>11, <2>1, ResetDoneFacts DEF Seen
<1>12. ASSUME NEW r \in Requests, AHCI_transfer(r) PROVE Seen'
  BY <1>2, <1>12 DEF AHCI_transfer, contents, hba
<1>13. ASSUME NEW p \in Port, LinkUp(p) PROVE Seen'
  <2>1. \A q \in Port : port'[q].DET = port[q].DET \/ port'[q].DET = "link" BY <1>13, LinkUpFacts
  <2>2. QED BY <1>2, <1>13, <2>1 DEF LinkUp, contents, driver
<1>14. ASSUME NEW p \in Port, ReceiveFis(p) PROVE Seen'
  <2>1. \A q \in Port : port'[q].DET = port[q].DET BY <1>14, HandlerFacts DEF PortsKept, Becomes
  <2>2. QED BY <1>2, <1>14, <2>1 DEF ReceiveFis, contents, driver
<1>15. ASSUME NEW p \in Port, NEW s \in Slot, Execute(p, s) PROVE Seen'
  BY <1>2, <1>15, ExecutionFacts
<1>16. ASSUME NEW p \in Port, NEW s \in Slot, Complete(p, s) PROVE Seen'
  <2>1. \A q \in Port : port'[q].DET = port[q].DET BY <1>16, CompleteFacts DEF Becomes
  <2>2. QED BY <1>2, <1>16, <2>1 DEF Complete, contents, driver
<1>17. CASE UNCHANGED vars BY <1>1, <1>17 DEF Seen, vars, contents, driver, hba
<1>18. QED
  BY <1>3, <1>4, <1>5, <1>6, <1>7, <1>8, <1>9, <1>10, <1>11, <1>12, <1>13, <1>14, <1>15, <1>16, <1>17
  DEF Next, Driver, HbaPort

LEMMA StepProbe ==
  ASSUME AhciInv, [Next]_vars
  PROVE  ProbeInv'
<1> USE DEF AhciInv
<1> SUFFICES Place' BY StepSeen DEF ProbeInv
<1>1. Place BY DEF ProbeInv
<1>2. CASE UNCHANGED <<pc, i, request, HR>> BY <1>1, <1>2 DEF Place
<1>3. CASE AHCI_init_handoff BY <1>1, <1>3 DEF Place, AHCI_init_handoff, Executing, hba
<1>4. CASE AHCI_init_reset BY <1>1, <1>4 DEF Place, AHCI_init_reset, Executing
<1>5. CASE AHCI_init_enable BY <1>1, <1>5 DEF Place, AHCI_init_enable, Executing
<1>6. CASE AHCI_init_register BY <1>1, <1>6 DEF Place, AHCI_init_register, Executing, hba
<1>7. CASE AHCI_init_skip BY <1>1, <1>7 DEF Place, AHCI_init_skip, Executing, hba
<1>8. CASE AHCI_init_port BY <1>1, <1>8 DEF Place, AHCI_init_port, Executing
<1>9. CASE AHCI_init_identify BY <1>1, <1>9 DEF Place, AHCI_init_identify, Executing
<1>10. CASE AHCI_init_register_device
  BY <1>1, <1>10 DEF Place, AHCI_init_register_device, Executing, hba
<1>11. CASE AHCI_init_return BY <1>1, <1>11 DEF Place, AHCI_init_return, Executing, hba
<1>12. CASE AHCI_execute_command BY <1>1, <1>12 DEF Place, AHCI_execute_command, Executing, hba
<1>13. CASE AHCI_execute_command_issue BY <1>1, <1>13 DEF Place, AHCI_execute_command_issue, Executing
<1>14. CASE AHCI_execute_command_return
  <2>1. pc = "wait" /\ request' = NoRequest BY <1>14 DEF Place, AHCI_execute_command_return
  <2>2. CASE request = NoRequest BY <1>1, <1>14, <2>1, <2>2 DEF Place, AHCI_execute_command_return, Executing, hba
  <2>3. CASE request # NoRequest
    BY <1>1, <1>14, <2>1, <2>3 DEF Place, AHCI_execute_command_return, Executing, hba
  <2>4. QED BY <2>2, <2>3
<1>15. CASE ResetDone BY <1>1, <1>15 DEF Place, ResetDone, driver
<1>16. ASSUME NEW r \in Requests, AHCI_transfer(r) PROVE Place'
  <2>1. r # NoRequest BY AhciAssumption
  <2>2. QED BY <1>1, <1>16, <2>1 DEF Place, AHCI_transfer, Executing, hba
<1>17. ASSUME NEW p \in Port, NEW s \in Slot, Execute(p, s) PROVE Place'
  BY <1>2, <1>17, ExecutionFacts
<1>18. CASE interrupt_function_ahci BY <1>2, <1>18 DEF interrupt_function_ahci, driver
<1>19. ASSUME NEW p \in Port, LinkUp(p) PROVE Place' BY <1>2, <1>19 DEF LinkUp, driver
<1>20. ASSUME NEW p \in Port, ReceiveFis(p) PROVE Place' BY <1>2, <1>20 DEF ReceiveFis, driver
<1>21. ASSUME NEW p \in Port, NEW s \in Slot, Complete(p, s) PROVE Place'
  BY <1>2, <1>21 DEF Complete, driver
<1>22. CASE UNCHANGED vars BY <1>2, <1>22 DEF vars, driver, hba
<1>23. QED
  BY <1>3, <1>4, <1>5, <1>6, <1>7, <1>8, <1>9, <1>10, <1>11, <1>12, <1>13, <1>14, <1>15, <1>16, <1>17,
    <1>18, <1>19, <1>20, <1>21, <1>22, SMTT(30) DEF Next, Driver, HbaPort

-----------------------------------------------------------------------------
(* The command lists, and the list of devices.                              *)

LEMMA HasListKept ==
  ASSUME TypesInv, ListsKept, NEW p, HasList(p), port'[p].PxCLB = port[p].PxCLB
  PROVE  HasList(p)'
<1>1. Len(memory) \in Nat /\ Len(memory') \in Nat /\ DOMAIN memory = 1..Len(memory)
      /\ DOMAIN memory' = 1..Len(memory') /\ Len(memory') >= Len(memory)
  BY DEF TypesInv, ListsKept
<1>2. QED BY <1>1 DEF HasList, ListsKept

LEMMA NothingGiven == ASSUME TypesInv, memory' = memory PROVE ListsKept
BY DEF TypesInv, ListsKept

\* No step of the others takes a command list from a port.
LEMMA RegisteredKept ==
  ASSUME TypesInv, RegisteredInv, ListsKept, UNCHANGED <<devices, i, g_ahci_device_list>>,
         \A p \in Port : port'[p].PxCLB = port[p].PxCLB
  PROVE  RegisteredInv'
<1>1. \A p \in Port : HasList(p) => HasList(p)' BY HasListKept
<1>2. QED BY <1>1 DEF RegisteredInv

LEMMA InitList == Init => ListInv
<1> SUFFICES ASSUME Init PROVE ListInv OBVIOUS
<1>1. DOMAIN g_ahci_device_list = {} BY DEF Init
<1>2. \A p \in Port : ~(p < 0) BY AhciAssumption DEF Port
<1>3. QED BY <1>1, <1>2 DEF Init, ListInv, CurrentInv, RegisteredInv, Executing

LEMMA Prepended ==
  ASSUME NEW S, NEW e \in S, NEW list \in Seq(S)
  PROVE  LET longer == <<e>> \o list
         IN  /\ DOMAIN longer = 1..Len(list) + 1 /\ longer[1] = e
             /\ \A n \in 2..Len(list) + 1 : n - 1 \in DOMAIN list /\ longer[n] = list[n - 1]
             /\ \A n \in DOMAIN list : n + 1 \in DOMAIN longer /\ longer[n + 1] = list[n]
<1> DEFINE one == <<e>>
<1>1. one \in Seq(S) /\ Len(one) = 1 /\ one[1] = e OBVIOUS
<1> HIDE DEF one
<1>2. /\ Len(one \o list) = Len(one) + Len(list) /\ one \o list \in Seq(S)
      /\ \A n \in 1..Len(one) + Len(list) :
           (one \o list)[n] = IF n <= Len(one) THEN one[n] ELSE list[n - Len(one)]
  BY <1>1, ConcatProperties, Zenon
<1> DEFINE longer == one \o list
<1>3. Len(list) \in Nat /\ DOMAIN list = 1..Len(list) OBVIOUS
<1>4. DOMAIN longer = 1..Len(longer) /\ Len(longer) = Len(list) + 1 BY <1>1, <1>2, <1>3
<1>5. \A n \in 1..Len(list) + 1 : longer[n] = IF n <= 1 THEN one[n] ELSE list[n - 1] BY <1>1, <1>2, <1>3
<1> HIDE DEF longer
<1>6. longer[1] = e BY <1>1, <1>3, <1>5
<1>7. \A n \in 2..Len(list) + 1 : n - 1 \in DOMAIN list /\ longer[n] = list[n - 1] BY <1>3, <1>5
<1>8. \A n \in DOMAIN list : n + 1 \in DOMAIN longer /\ longer[n + 1] = list[n]
  <2>1. \A n \in DOMAIN list : n + 1 \in 2..Len(list) + 1 /\ (n + 1) - 1 = n BY <1>3
  <2>2. QED BY <1>3, <1>4, <1>7, <2>1
<1>9. QED BY <1>4, <1>6, <1>7, <1>8 DEF longer, one

LEMMA RegisterDeviceRegisters ==
  ASSUME AhciInv, AHCI_init_register_device
  PROVE  RegisteredInv'
<1> USE DEF AhciInv
<1>1. /\ i \in Port /\ i < NP /\ ListsKept /\ i' = i + 1
      /\ UNCHANGED <<devices, port>>
  BY RegisterDeviceFacts DEF AHCI_init_register_device, contents, hba
<1>2. /\ i \in Nat /\ \A p \in Port : p \in Nat
  BY AhciAssumption DEF TypesInv, Port
<1>3. \A p \in Port : HasList(p) => HasList(p)' BY <1>1, HasListKept
<1>4. RegisteredInv BY DEF ListInv
<1>5. \A p \in Port : (p < i + 1) <=> (p < i \/ p = i) BY <1>1, <1>2
<1>6. CASE devices[i].kind # "ata48"
  <2>1. g_ahci_device_list' = g_ahci_device_list BY <1>6, RegisterDeviceFacts
  <2>2. QED BY <1>1, <1>3, <1>4, <1>5, <1>6, <2>1 DEF RegisteredInv
<1>7. CASE devices[i].kind = "ata48"
  <2> DEFINE list == g_ahci_device_list
             new == Registered(devices[i], i)
             longer == <<new>> \o list
  <2>1. g_ahci_device_list' = longer BY <1>7, RegisterDeviceFacts
  <2>2. list \in Seq(Entries) /\ new \in Entries /\ new.port = i
    <3>1. devices[i] \in Devices BY <1>1 DEF TypesInv
    <3>2. QED BY <1>1, <3>1 DEF TypesInv, Entries, Registered
  <2>3. /\ DOMAIN longer = 1..Len(list) + 1 /\ longer[1] = new
        /\ \A n \in 2..Len(list) + 1 : n - 1 \in DOMAIN list /\ longer[n] = list[n - 1]
        /\ \A n \in DOMAIN list : n + 1 \in DOMAIN longer /\ longer[n + 1] = list[n]
    BY <2>2, Prepended
  <2>4. Len(list) \in Nat /\ DOMAIN list = 1..Len(list) BY <2>2
  <2> HIDE DEF longer
  <2>5. \A n \in DOMAIN longer : n = 1 \/ n \in 2..Len(list) + 1 BY <2>3, <2>4
  <2>6. \A p \in Port : p = i => HasList(p)'
    <3>1. pc = "identified" BY DEF AHCI_init_register_device
    <3>2. request = NoRequest BY <3>1 DEF ProbeInv, Place
    <3>3. HasList(i) BY <3>1, <3>2 DEF ListInv, CurrentInv, current
    <3>4. QED BY <1>3, <3>3
  <2>7. ASSUME NEW n \in DOMAIN longer
        PROVE  \E p \in Port : /\ longer[n].port = p /\ p < i + 1 /\ devices[p].kind = "ata48"
                               /\ HasList(p)' /\ longer[n] = Registered(devices[p], p)
    <3>1. CASE n = 1 BY <1>1, <1>5, <1>7, <2>2, <2>3, <2>6, <3>1
    <3>2. CASE n \in 2..Len(list) + 1
      <4>1. n - 1 \in DOMAIN list /\ longer[n] = list[n - 1] BY <2>3, <3>2
      <4>2. PICK p \in Port : /\ list[n - 1].port = p /\ p < i /\ devices[p].kind = "ata48"
                              /\ HasList(p) /\ list[n - 1] = Registered(devices[p], p)
        BY <1>4, <4>1 DEF RegisteredInv
      <4>3. QED BY <1>3, <1>5, <4>1, <4>2
    <3>3. QED BY <2>5, <3>1, <3>2
  <2>8. ASSUME NEW m \in DOMAIN longer, NEW n \in DOMAIN longer, longer[m].port = longer[n].port
        PROVE  m = n
    <3>1. \A k \in 2..Len(list) + 1 : longer[k].port # i
      <4>1. \A k \in DOMAIN list : list[k].port \in Port /\ list[k].port < i BY <1>4 DEF RegisteredInv
      <4>2. QED BY <1>2, <2>3, <4>1
    <3>2. CASE m = 1 \/ n = 1 BY <2>2, <2>3, <2>5, <2>8, <3>1, <3>2
    <3>3. CASE m \in 2..Len(list) + 1 /\ n \in 2..Len(list) + 1
      <4>1. m - 1 \in DOMAIN list /\ n - 1 \in DOMAIN list /\ list[m - 1].port = list[n - 1].port
        BY <2>3, <2>8, <3>3
      <4>2. m - 1 = n - 1 BY <1>4, <4>1 DEF RegisteredInv
      <4>3. QED BY <2>4, <3>3, <4>2
    <3>4. QED BY <2>5, <3>2, <3>3
  <2>9. ASSUME NEW p \in Port, p < i + 1, devices[p].kind = "ata48"
        PROVE  \E n \in DOMAIN longer : longer[n].port = p
    <3>1. CASE p = i
      <4>1. 1 \in DOMAIN longer BY <2>3, <2>4
      <4>2. QED BY <2>2, <2>3, <3>1, <4>1
    <3>2. CASE p < i
      <4>1. PICK n \in DOMAIN list : list[n].port = p BY <1>4, <2>9, <3>2 DEF RegisteredInv
      <4>2. n + 1 \in DOMAIN longer /\ longer[n + 1].port = p BY <2>3, <4>1
      <4>3. QED BY <4>2
    <3>3. QED BY <1>5, <2>9, <3>1, <3>2
  <2>10. /\ \A n \in DOMAIN g_ahci_device_list' :
              \E p \in Port : /\ g_ahci_device_list'[n].port = p /\ p < i' /\ devices'[p].kind = "ata48"
                              /\ HasList(p)' /\ g_ahci_device_list'[n] = Registered(devices'[p], p)
         /\ \A m, n \in DOMAIN g_ahci_device_list' :
              g_ahci_device_list'[m].port = g_ahci_device_list'[n].port => m = n
         /\ \A p \in Port : p < i' /\ devices'[p].kind = "ata48" =>
              \E n \in DOMAIN g_ahci_device_list' : g_ahci_device_list'[n].port = p
    BY <1>1, <2>1, <2>7, <2>8, <2>9
  <2>11. QED BY <2>10 DEF RegisteredInv, HasList, Registered, lba_size
<1>8. QED BY <1>6, <1>7

LEMMA StepListsKept ==
  ASSUME AhciInv, [Next]_vars
  PROVE  ListsKept /\ (AHCI_init_port \/ ResetDone \/ \A p \in Port : port'[p].PxCLB = port[p].PxCLB)
<1> USE DEF AhciInv
<1>1. CASE UNCHANGED <<memory, port>> BY <1>1, NothingGiven
<1>2. CASE \/ AHCI_init_handoff \/ AHCI_init_reset \/ AHCI_init_enable \/ AHCI_init_register
           \/ AHCI_init_skip \/ AHCI_init_return \/ AHCI_execute_command_return
  BY <1>1, <1>2 DEF AHCI_init_handoff, AHCI_init_reset, AHCI_init_enable, AHCI_init_register,
    AHCI_init_skip, AHCI_init_return, AHCI_execute_command_return, hba
<1>3. CASE AHCI_init_port BY <1>3, PortFacts
<1>4. CASE AHCI_init_identify
  <2>1. i \in Port
    <3>1. pc = "fis" /\ request = NoRequest BY <1>4 DEF AHCI_init_identify, ProbeInv, Place
    <3>2. QED BY <3>1, CurrentPort DEF current
  <2>2. QED BY <1>4, <2>1, IdentifyFacts DEF PortsKept, Becomes
<1>5. CASE AHCI_init_register_device
  BY <1>5, RegisterDeviceFacts DEF AHCI_init_register_device, hba
<1>6. CASE AHCI_execute_command
  <2>1. ListsKept
    <3>1. /\ memory' \in Seq(Pages) /\ Len(memory') = Len(memory)
          /\ \A n \in DOMAIN memory : memory'[n].kind = memory[n].kind
      BY <1>6, ExecuteFacts
    <3>2. Len(memory) \in Nat BY DEF TypesInv
    <3>3. QED BY <3>1, <3>2 DEF ListsKept
  <2>2. QED BY <1>6, <2>1 DEF AHCI_execute_command, hba
<1>7. CASE AHCI_execute_command_issue
  <2>1. \A p \in Port : port'[p].PxCLB = port[p].PxCLB BY <1>7, IssueFacts DEF Becomes
  <2>2. QED BY <1>7, <2>1, NothingGiven DEF AHCI_execute_command_issue
<1>8. CASE interrupt_function_ahci
  <2>1. \A p \in Port : port'[p].PxCLB = port[p].PxCLB BY <1>8, HandlerFacts DEF PortsKept, Becomes
  <2>2. QED BY <1>8, <2>1, NothingGiven DEF interrupt_function_ahci, driver
<1>9. CASE ResetDone BY <1>9, NothingGiven DEF ResetDone, driver
<1>10. ASSUME NEW r \in Requests, AHCI_transfer(r)
       PROVE  ListsKept /\ \A p \in Port : port'[p].PxCLB = port[p].PxCLB
  BY <1>10, TransferFacts DEF AHCI_transfer, hba
<1>11. ASSUME NEW p \in Port, LinkUp(p)
       PROVE  ListsKept /\ \A q \in Port : port'[q].PxCLB = port[q].PxCLB
  BY <1>11, LinkUpFacts, NothingGiven DEF LinkUp, driver
<1>12. ASSUME NEW p \in Port, ReceiveFis(p)
       PROVE  ListsKept /\ \A q \in Port : port'[q].PxCLB = port[q].PxCLB
  <2>1. \A q \in Port : port'[q].PxCLB = port[q].PxCLB BY <1>12, HandlerFacts DEF PortsKept, Becomes
  <2>2. QED BY <1>12, <2>1, NothingGiven DEF ReceiveFis, driver
<1>13. ASSUME NEW p \in Port, NEW s \in Slot, Execute(p, s)
       PROVE  ListsKept /\ \A q \in Port : port'[q].PxCLB = port[q].PxCLB
  <2>1. s \in port[p].CI /\ port' = port BY <1>13, ExecutionFacts
  <2>2. CASE memory' = memory BY <2>1, <2>2, NothingGiven
  <2>3. CASE Table(p, s).command = "identify" /\ Identify(p, s) /\ p \in Disks(devices)
    <3>1. /\ memory[command_table + 1].kind \in {"page", "data"}
          /\ memory' \in Seq(Pages) /\ Len(memory') = Len(memory)
          /\ \A n \in DOMAIN memory : n # command_table + 1 => memory'[n] = memory[n]
      BY <2>1, <2>3, IdentifiedFacts
    <3>2. Len(memory) \in Nat BY DEF TypesInv
    <3>3. QED BY <2>1, <3>1, <3>2 DEF ListsKept
  <2>4. QED BY <1>13, <2>2, <2>3, ExecutionFacts
<1>14. ASSUME NEW p \in Port, NEW s \in Slot, Complete(p, s)
       PROVE  ListsKept /\ \A q \in Port : port'[q].PxCLB = port[q].PxCLB
  <2>1. \A q \in Port : port'[q].PxCLB = port[q].PxCLB BY <1>14, CompleteFacts DEF Becomes
  <2>2. QED BY <1>14, <2>1, NothingGiven DEF Complete, driver
<1>15. CASE UNCHANGED vars BY <1>1, <1>15 DEF vars, driver, hba
<1>16. QED
  BY <1>2, <1>3, <1>4, <1>5, <1>6, <1>7, <1>8, <1>9, <1>10, <1>11, <1>12, <1>13, <1>14, <1>15
  DEF Next, Driver, HbaPort

\* AHCI_init is at the port it was at, or has looked at it.
LEMMA StepRegistered ==
  ASSUME AhciInv, [Next]_vars
  PROVE  RegisteredInv'
<1> USE DEF AhciInv
<1>1. RegisteredInv /\ ListsKept BY StepListsKept DEF ListInv
<1>2. \A p \in Port : p \in Nat BY DEF Port
<1>3. CASE /\ UNCHANGED <<devices, i, g_ahci_device_list>>
           /\ \A p \in Port : port'[p].PxCLB = port[p].PxCLB
  BY <1>1, <1>3, RegisteredKept
<1>4. CASE AHCI_init_skip
  <2>1. /\ i \in Port /\ i' = i + 1 /\ pc = "ports" /\ ~Present(i)
        /\ UNCHANGED <<devices, memory, port, g_ahci_device_list>>
    <3>1. i \in Nat /\ i < NP /\ NP \in Nat BY <1>4, AhciAssumption DEF AHCI_init_skip, TypesInv
    <3>2. i \in Port BY <3>1 DEF Port
    <3>3. QED BY <1>4, <3>2 DEF AHCI_init_skip, contents, hba
  <2>2. devices[i].kind # "ata48"
    <3>1. ~HR BY <2>1 DEF ProbeInv, Place
    <3>2. devices[i].kind \notin {"absent", "none"} => port[i].DET # "no" BY <2>1, <3>1 DEF ProbeInv, Seen
    <3>3. QED BY <2>1, <3>2 DEF Present
  <2>3. \A p \in Port : HasList(p) => HasList(p)' BY <2>1 DEF HasList
  <2>4. \A p \in Port : p < i + 1 <=> (p < i \/ p = i) BY <1>2, <2>1
  <2>5. QED BY <1>1, <2>1, <2>2, <2>3, <2>4 DEF RegisteredInv
<1>5. CASE AHCI_init_port
  <2>1. i \in Port /\ \A q \in Port : q # i => port'[q] = port[q] BY <1>5, PortFacts
  <2>2. UNCHANGED <<devices, i, g_ahci_device_list>> BY <1>5 DEF AHCI_init_port, contents
  <2>3. \A p \in Port : p < i => p # i BY <1>2, <2>1
  <2>4. \A p \in Port : p < i /\ HasList(p) => HasList(p)' BY <1>1, <2>1, <2>3, HasListKept
  <2>5. QED BY <1>1, <2>2, <2>4 DEF RegisteredInv
<1>6. CASE AHCI_init_register_device BY <1>6, RegisterDeviceRegisters
<1>7. CASE ResetDone
  <2>1. i = 0 /\ UNCHANGED <<devices, i, g_ahci_device_list>>
    BY <1>7, ResetDoneFacts DEF ResetDone, contents, driver
  <2>2. \A p \in Port : ~(p < i) BY <1>2, <2>1
  <2>3. DOMAIN g_ahci_device_list = {} BY <1>1, <2>2 DEF RegisteredInv
  <2>4. QED BY <2>1, <2>2, <2>3 DEF RegisteredInv
<1>8. AHCI_init_skip \/ AHCI_init_register_device \/ UNCHANGED <<devices, i, g_ahci_device_list>>
  <2>1. \A p \in Port, s \in Slot : Execute(p, s) => UNCHANGED <<devices, i, g_ahci_device_list>>
    BY ExecutionFacts
  <2>2. QED
    BY <2>1 DEF Next, vars, Driver, HbaPort, contents, driver, AHCI_init_handoff, AHCI_init_reset,
      AHCI_init_enable, AHCI_init_register, AHCI_init_port, AHCI_init_identify, AHCI_init_return,
      AHCI_execute_command, AHCI_execute_command_issue, AHCI_execute_command_return,
      interrupt_function_ahci, ResetDone, AHCI_transfer, LinkUp, ReceiveFis, Complete
<1>9. QED BY <1>3, <1>4, <1>5, <1>6, <1>7, <1>8, StepListsKept

LEMMA StepCurrent ==
  ASSUME AhciInv, [Next]_vars
  PROVE  CurrentInv'
<1> USE DEF AhciInv
<1> DEFINE stages == {"fis", "identified"} \cup Executing
<1>1. ListsKept /\ CurrentInv /\ RegisteredInv BY StepListsKept DEF ListInv
<1>2. ASSUME UNCHANGED <<i, request>>, pc' \in stages => pc \in stages,
             \A p \in Port : port'[p].PxCLB = port[p].PxCLB
      PROVE  CurrentInv'
  <2> SUFFICES ASSUME pc' \in stages PROVE HasList(current)' BY DEF CurrentInv, Executing
  <2>1. pc \in stages /\ current' = current BY <1>2 DEF current
  <2>2. PICK p \in Port : p = current BY <2>1, CurrentPort
  <2>3. HasList(p) BY <1>1, <2>1, <2>2 DEF CurrentInv
  <2>4. HasList(p)' BY <1>1, <1>2, <2>3, HasListKept
  <2>5. QED BY <2>1, <2>2, <2>4 DEF HasList
<1>3. CASE AHCI_init_port
  <2>1. i \in Port /\ port'[i].PxCLB \in DOMAIN memory' /\ memory'[port'[i].PxCLB].kind = "list"
    BY <1>3, PortFacts
  <2>2. request' = NoRequest /\ i' = i
    BY <1>3 DEF AHCI_init_port, ProbeInv, Place, Executing
  <2>3. current' = i BY <2>2 DEF current
  <2>4. QED BY <2>1, <2>3 DEF CurrentInv, HasList
<1>4. CASE AHCI_init_register_device \/ AHCI_init_skip \/ AHCI_init_return
  BY <1>4 DEF AHCI_init_register_device, AHCI_init_skip, AHCI_init_return, CurrentInv, Executing
<1>5. CASE AHCI_execute_command_return
  <2>1. CASE request = NoRequest
    <3>1. UNCHANGED <<i, request, port>> /\ pc = "wait"
      BY <1>5, <2>1 DEF AHCI_execute_command_return, hba
    <3>2. QED BY <1>2, <3>1 DEF Executing
  <2>2. CASE request # NoRequest
    BY <1>5, <2>2 DEF AHCI_execute_command_return, CurrentInv, Executing
  <2>3. QED BY <2>1, <2>2
<1>6. CASE ResetDone
  BY <1>6, ResetDoneFacts DEF ResetDone, driver, CurrentInv, Executing
<1>7. ASSUME NEW r \in Requests, AHCI_transfer(r) PROVE CurrentInv'
  <2>1. PICK n \in DOMAIN g_ahci_device_list : g_ahci_device_list[n].port = r.port BY <1>7, TransferFacts
  <2>2. PICK p \in Port : p = r.port /\ HasList(p) BY <1>1, <2>1 DEF RegisteredInv
  <2>3. port' = port BY <1>7 DEF AHCI_transfer, hba
  <2>4. HasList(p)' BY <1>1, <2>2, <2>3, HasListKept
  <2>5. r # NoRequest /\ request' = r BY <1>7, AhciAssumption DEF AHCI_transfer
  <2>6. current' = p BY <2>2, <2>5 DEF current
  <2>7. QED BY <2>4, <2>6 DEF CurrentInv, HasList
<1>8. ASSUME ~AHCI_init_port, ~AHCI_init_register_device, ~AHCI_init_skip, ~AHCI_init_return,
             ~AHCI_execute_command_return, ~ResetDone, \A r \in Requests : ~AHCI_transfer(r)
      PROVE  CurrentInv'
  <2>1. \A p \in Port, s \in Slot : Execute(p, s) => UNCHANGED <<pc, i, request>> BY ExecutionFacts
  <2>2. UNCHANGED <<i, request>> /\ (pc' \in stages => pc \in stages)
    BY <1>8, <2>1 DEF Next, vars, Driver, HbaPort, driver, AHCI_init_handoff, AHCI_init_reset,
      AHCI_init_enable, AHCI_init_register, AHCI_init_identify,
      AHCI_execute_command, AHCI_execute_command_issue,
      interrupt_function_ahci, LinkUp, ReceiveFis, Complete, Executing
  <2>3. QED BY <1>2, <1>8, <2>2, StepListsKept
<1>9. QED BY <1>3, <1>4, <1>5, <1>6, <1>7, <1>8

LEMMA StepList == ASSUME AhciInv, [Next]_vars PROVE ListInv'
BY StepRegistered, StepCurrent DEF ListInv

-----------------------------------------------------------------------------
(* One command at a time.                                                   *)

\* The firmware has left the upper halves of the addresses zero: AHCI_init
\* does not write them.
FirmwareLeavesZero == Uppers = {0}

LEMMA InitIssued == ASSUME FirmwareLeavesZero PROVE Init => IssuedInv
<1> SUFFICES ASSUME Init PROVE IssuedInv OBVIOUS
<1>1. port = [p \in Port |-> Reset(0, "no")] BY DEF Init, FirmwareLeavesZero
<1>2. \A p \in Port : port[p].upper = 0 /\ port[p].CI = {} /\ stage[p] = "none"
  BY <1>1 DEF Init, Reset
<1>3. QED BY <1>2 DEF IssuedInv

LEMMA StepIssued ==
  ASSUME AhciInv, [Next]_vars
  PROVE  IssuedInv'
<1> USE DEF AhciInv
<1> DEFINE same == \A p \in Port : port'[p].upper = port[p].upper /\ port'[p].CI = port[p].CI
<1>1. CASE same /\ UNCHANGED <<pc, i, request, command_list_index, stage>>
  <2>1. current' = current BY <1>1 DEF current
  <2>2. QED BY <1>1, <2>1 DEF IssuedInv
<1>2. CASE same /\ stage' = stage /\ pc # "wait"
  <2>1. \A p \in Port : port[p].CI = {} /\ stage[p] # "moved" BY <1>2 DEF IssuedInv
  <2>2. QED BY <1>2, <2>1 DEF IssuedInv
<1>3. CASE \/ AHCI_init_handoff \/ AHCI_init_reset \/ AHCI_init_enable \/ AHCI_init_register
           \/ AHCI_init_skip \/ AHCI_init_return \/ AHCI_init_register_device \/ AHCI_execute_command
  BY <1>2, <1>3 DEF AHCI_init_handoff, AHCI_init_reset, AHCI_init_enable, AHCI_init_register,
    AHCI_init_skip, AHCI_init_return, AHCI_init_register_device, AHCI_execute_command, hba
<1>4. CASE AHCI_init_port
  <2>1. same BY <1>4, PortFacts
  <2>2. QED BY <1>2, <1>4, <2>1 DEF AHCI_init_port
<1>5. CASE AHCI_init_identify
  <2>1. i \in Port
    <3>1. pc = "fis" /\ request = NoRequest BY <1>5 DEF AHCI_init_identify, ProbeInv, Place
    <3>2. QED BY <3>1, CurrentPort DEF current
  <2>2. same BY <1>5, <2>1, IdentifyFacts DEF PortsKept, Becomes
  <2>3. QED BY <1>2, <1>5, <2>2 DEF AHCI_init_identify
<1>6. CASE AHCI_execute_command_issue
  <2>1. \A p \in Port : port[p].CI = {} /\ stage[p] # "moved"
    BY <1>6 DEF IssuedInv, AHCI_execute_command_issue
  <2>2. /\ current \in Port
        /\ \A p \in Port : /\ port'[p].upper = port[p].upper
                           /\ p # current => port'[p].CI = port[p].CI
                           /\ p = current => port'[p].CI = port[p].CI \cup {command_list_index}
    BY <1>6, IssueFacts DEF Becomes
  <2>3. \A p \in Port : port'[p].CI = IF p = current THEN {command_list_index} ELSE {}
    BY <2>1, <2>2
  <2>4. UNCHANGED <<i, request, command_list_index, stage>> /\ pc' = "wait"
    BY <1>6 DEF AHCI_execute_command_issue
  <2>5. current' = current BY <2>4 DEF current
  <2>6. QED BY <2>1, <2>2, <2>3, <2>4, <2>5 DEF IssuedInv
<1>7. CASE AHCI_execute_command_return
  <2>1. \A p \in Port : port[p].CI = {}
    <3>1. command_list_index \notin port[current].CI BY <1>7 DEF AHCI_execute_command_return
    <3>2. QED BY <3>1 DEF IssuedInv
  <2>2. same /\ stage' = stage BY <1>7 DEF AHCI_execute_command_return, hba
  <2>3. QED BY <2>1, <2>2 DEF IssuedInv
<1>8. CASE interrupt_function_ahci
  <2>1. same BY <1>8, HandlerFacts DEF PortsKept, Becomes
  <2>2. QED BY <1>1, <1>8, <2>1 DEF interrupt_function_ahci, driver
<1>9. CASE ResetDone
  <2>1. /\ pc = "reset" /\ stage' = stage
        /\ \A p \in Port : port'[p].upper = port[p].upper /\ port'[p].CI = {}
    BY <1>9, ResetDoneFacts DEF ResetDone
  <2>2. \A p \in Port : stage[p] # "moved" BY <2>1 DEF IssuedInv
  <2>3. QED BY <2>1, <2>2 DEF IssuedInv
<1>10. ASSUME NEW r \in Requests, AHCI_transfer(r) PROVE IssuedInv'
  BY <1>2, <1>10 DEF AHCI_transfer, hba
<1>11. ASSUME NEW p \in Port, LinkUp(p) PROVE IssuedInv'
  <2>1. same BY <1>11, LinkUpFacts
  <2>2. QED BY <1>1, <1>11, <2>1 DEF LinkUp, driver
<1>12. ASSUME NEW p \in Port, ReceiveFis(p) PROVE IssuedInv'
  <2>1. same BY <1>12, HandlerFacts DEF PortsKept, Becomes
  <2>2. QED BY <1>1, <1>12, <2>1 DEF ReceiveFis, driver
<1>13. ASSUME NEW p \in Port, NEW s \in Slot, Execute(p, s) PROVE IssuedInv'
  <2>1. /\ s \in port[p].CI /\ UNCHANGED <<pc, i, request, command_list_index, port>>
        /\ stage' = [stage EXCEPT ![p] = "failed"] \/ stage' = [stage EXCEPT ![p] = "moved"]
    BY <1>13, ExecutionFacts
  <2>2. current' = current BY <2>1 DEF current
  <2>3. \A q \in Port : q # p => stage'[q] = stage[q] BY <2>1 DEF TypesInv
  <2>4. QED BY <2>1, <2>2, <2>3 DEF IssuedInv
<1>14. ASSUME NEW p \in Port, NEW s \in Slot, Complete(p, s) PROVE IssuedInv'
  <2>1. s \in port[p].CI /\ stage' = [stage EXCEPT ![p] = "none"] BY <1>14 DEF Complete
  <2>2. port[p].CI = {s} BY <2>1, FoundFacts
  <2>3. /\ \A q \in Port : port'[q].upper = port[q].upper
        /\ \A q \in Port : q # p => port'[q].CI = port[q].CI
        /\ port'[p].CI = port[p].CI \ {s}
    BY <1>14, CompleteFacts DEF Becomes
  <2>4. port'[p].CI = {} BY <2>2, <2>3
  <2>5. UNCHANGED <<pc, i, request, command_list_index>> BY <1>14 DEF Complete, driver
  <2>6. current' = current BY <2>5 DEF current
  <2>7. \A q \in Port : stage'[q] = IF q = p THEN "none" ELSE stage[q] BY <2>1 DEF TypesInv
  <2>8. QED BY <2>3, <2>4, <2>5, <2>6, <2>7 DEF IssuedInv
<1>15. CASE UNCHANGED vars BY <1>1, <1>15 DEF vars, driver, hba
<1>16. QED
  BY <1>3, <1>4, <1>5, <1>6, <1>7, <1>8, <1>9, <1>10, <1>11, <1>12, <1>13, <1>14, <1>15
  DEF Next, Driver, HbaPort

-----------------------------------------------------------------------------
(* The command's table.                                                     *)

LEMMA InitTable == Init => TableInv /\ IdentifyInv
BY DEF Init, TableInv, IdentifyInv, Executing

\* Nothing of a command is changed but by its own steps.
LEMMA TableKept ==
  ASSUME TypesInv, ProbeInv, TableInv, UNCHANGED <<pc, i, request, memory, command_table, command_list_index>>,
         \A p \in Port : port'[p].PxCLB = port[p].PxCLB
  PROVE  TableInv'
<1> SUFFICES ASSUME pc \in Executing \cup {"identified"} PROVE TableInv' BY DEF TableInv
<1>1. current \in Port /\ current' = current BY CurrentPort DEF current
<1>2. Header(current, command_list_index)' = Header(current, command_list_index) BY <1>1 DEF Header
<1>3. QED BY <1>2 DEF TableInv

LEMMA StepTable ==
  ASSUME AhciInv, [Next]_vars
  PROVE  TableInv'
<1> USE DEF AhciInv
<1> DEFINE same == \A p \in Port : port'[p].PxCLB = port[p].PxCLB
           still == UNCHANGED <<pc, i, request, memory, command_table, command_list_index>>
<1>1. CASE pc' \notin Executing \cup {"identified"} BY <1>1 DEF TableInv
<1>2. CASE same /\ still BY <1>2, TableKept
<1>3. CASE \/ AHCI_init_handoff \/ AHCI_init_reset \/ AHCI_init_enable \/ AHCI_init_register
           \/ AHCI_init_return \/ AHCI_init_register_device \/ AHCI_init_port
  BY <1>1, <1>3 DEF AHCI_init_handoff, AHCI_init_reset, AHCI_init_enable, AHCI_init_register,
    AHCI_init_return, AHCI_init_register_device, AHCI_init_port, Executing
<1>4. CASE AHCI_init_skip BY <1>1, <1>4 DEF AHCI_init_skip, Executing
<1>5. CASE AHCI_init_identify
  <2>1. pc = "fis" /\ request = NoRequest /\ request' = NoRequest /\ pc' = "execute"
    BY <1>5 DEF AHCI_init_identify, ProbeInv, Place
  <2>2. i \in Port BY <2>1, CurrentPort DEF current
  <2>3. /\ memory' \in Seq(Pages) /\ Len(memory') = Len(memory) + 2 /\ command_table' = Len(memory) + 1
        /\ memory'[command_table'].kind = "table" /\ memory'[command_table'].command = "identify"
        /\ memory'[command_table'].prdt = <<[dba |-> command_table' + 1, dbc |-> 0]>>
        /\ memory'[command_table' + 1].kind = "page"
    BY <1>5, <2>2, IdentifyFacts, PageFacts DEF ListsKept
  <2>4. command_table' \in DOMAIN memory' /\ command_table' + 1 \in DOMAIN memory' BY <2>3 DEF TypesInv
  <2>5. QED BY <2>1, <2>3, <2>4 DEF TableInv
<1>6. CASE AHCI_execute_command
  <2>1. /\ pc = "execute" /\ pc' = "issue"
        /\ UNCHANGED <<i, request, command_table, port>>
    BY <1>6 DEF AHCI_execute_command, hba
  <2>2. /\ current \in Port /\ memory' \in Seq(Pages) /\ Len(memory') = Len(memory)
        /\ \A n \in DOMAIN memory : memory'[n].kind = memory[n].kind
        /\ \A n \in DOMAIN memory : n # port[current].PxCLB => memory'[n] = memory[n]
        /\ memory'[port[current].PxCLB].header[command_list_index'] = Command(command_table)
    BY <1>6, ExecuteFacts
  <2>3. command_table \in DOMAIN memory /\ memory[command_table].kind = "table"
    BY <2>1 DEF TableInv, Executing
  <2>4. memory[port[current].PxCLB].kind = "list" BY <2>1 DEF ListInv, CurrentInv, HasList, Executing
  <2>5. memory'[command_table] = memory[command_table] BY <2>2, <2>3, <2>4
  <2>6. DOMAIN memory' = DOMAIN memory BY <2>2 DEF TypesInv
  <2>7. current' = current BY <2>1 DEF current
  <2>8. Header(current, command_list_index)' = Command(command_table) BY <2>1, <2>2, <2>7 DEF Header
  <2>9. Command(command_table) =
          [W |-> FALSE, prdtl |-> Len(memory'[command_table].prdt), ctba |-> command_table]
    BY <2>5 DEF Command
  <2>10. CASE request # NoRequest
    <3>1. memory[command_table].command # "identify" BY <2>1, <2>10 DEF TableInv, Executing
    <3>2. QED BY <2>1, <2>3, <2>5, <2>6, <2>8, <2>9, <2>10, <3>1 DEF TableInv
  <2>11. CASE request = NoRequest
    <3>1. /\ memory[command_table].command = "identify"
          /\ memory[command_table].prdt = <<[dba |-> command_table + 1, dbc |-> 0]>>
          /\ command_table + 1 \in DOMAIN memory
          /\ memory[command_table + 1].kind \in {"page", "data"}
      BY <2>1, <2>11 DEF TableInv, Executing
    <3>2. memory'[command_table + 1].kind \in {"page", "data"} BY <2>2, <3>1
    <3>3. QED BY <2>1, <2>3, <2>5, <2>6, <2>8, <2>9, <2>11, <3>1, <3>2 DEF TableInv
  <2>12. QED BY <2>10, <2>11
<1>7. CASE AHCI_execute_command_issue
  <2>1. same BY <1>7, IssueFacts DEF Becomes
  <2>2. /\ UNCHANGED <<i, request, memory, command_table, command_list_index>>
        /\ pc = "issue" /\ pc' = "wait"
    BY <1>7 DEF AHCI_execute_command_issue
  <2>3. current \in Port /\ current' = current BY <2>2, CurrentPort DEF current, Executing
  <2>4. Header(current, command_list_index)' = Header(current, command_list_index)
    BY <2>1, <2>2, <2>3 DEF Header
  <2>5. QED BY <2>2, <2>4 DEF TableInv, Executing
<1>8. CASE AHCI_execute_command_return
  <2>1. CASE request = NoRequest
    <3>1. pc = "wait" /\ pc' = "identified" /\ request' = NoRequest /\ UNCHANGED <<memory, command_table>>
      BY <1>8, <2>1 DEF AHCI_execute_command_return
    <3>2. QED BY <2>1, <3>1 DEF TableInv, Executing
  <2>2. CASE request # NoRequest BY <1>1, <1>8, <2>2 DEF AHCI_execute_command_return, Executing
  <2>3. QED BY <2>1, <2>2
<1>9. CASE interrupt_function_ahci
  <2>1. same BY <1>9, HandlerFacts DEF PortsKept, Becomes
  <2>2. QED BY <1>2, <1>9, <2>1 DEF interrupt_function_ahci, driver
<1>10. CASE ResetDone
  <2>1. pc = "reset" /\ pc' = pc BY <1>10, ResetDoneFacts DEF ResetDone, driver
  <2>2. QED BY <1>1, <2>1 DEF Executing
<1>11. ASSUME NEW r \in Requests, AHCI_transfer(r) PROVE TableInv'
  <2>1. /\ memory' \in Seq(Pages) /\ Len(memory') = Len(memory) + 1 /\ command_table' = Len(memory) + 1
        /\ memory'[command_table'].kind = "table" /\ memory'[command_table'].command # "identify"
    BY <1>11, TransferFacts DEF ListsKept
  <2>2. command_table' \in DOMAIN memory' BY <2>1 DEF TypesInv
  <2>3. request' # NoRequest /\ pc' = "execute" BY <1>11, AhciAssumption DEF AHCI_transfer
  <2>4. QED BY <2>1, <2>2, <2>3 DEF TableInv
<1>12. ASSUME NEW p \in Port, LinkUp(p) PROVE TableInv'
  <2>1. same BY <1>12, LinkUpFacts
  <2>2. QED BY <1>2, <1>12, <2>1 DEF LinkUp, driver
<1>13. ASSUME NEW p \in Port, ReceiveFis(p) PROVE TableInv'
  <2>1. same BY <1>13, HandlerFacts DEF PortsKept, Becomes
  <2>2. QED BY <1>2, <1>13, <2>1 DEF ReceiveFis, driver
<1>14. ASSUME NEW p \in Port, NEW s \in Slot, Execute(p, s) PROVE TableInv'
  <2>1. /\ s \in port[p].CI
        /\ UNCHANGED <<pc, i, request, command_table, command_list_index, port>>
    BY <1>14, ExecutionFacts
  <2>2. CASE memory' = memory BY <1>2, <2>1, <2>2
  <2>3. CASE Table(p, s).command = "identify" /\ Identify(p, s) /\ p \in Disks(devices)
    <3>1. /\ request = NoRequest /\ p = i /\ command_table + 1 \in DOMAIN memory
          /\ memory[command_table + 1].kind \in {"page", "data"}
          /\ memory' \in Seq(Pages) /\ Len(memory') = Len(memory)
          /\ memory'[command_table + 1] = [kind |-> "data", device |-> devices[i]]
          /\ \A n \in DOMAIN memory : n # command_table + 1 => memory'[n] = memory[n]
      BY <2>1, <2>3, IdentifiedFacts
    <3>2. pc = "wait" /\ p = current BY <2>1, FoundFacts
    <3>3. /\ command_table \in DOMAIN memory /\ memory[command_table].kind = "table"
          /\ memory[command_table].command = "identify"
          /\ memory[command_table].prdt = <<[dba |-> command_table + 1, dbc |-> 0]>>
          /\ Header(current, command_list_index) = Command(command_table)
      BY <3>1, <3>2 DEF TableInv, Executing, Command
    <3>4. port[p].PxCLB \in DOMAIN memory /\ memory[port[p].PxCLB].kind = "list"
      BY <3>2 DEF ListInv, CurrentInv, HasList, Executing
    <3>5. memory'[port[p].PxCLB] = memory[port[p].PxCLB] /\ memory'[command_table] = memory[command_table]
      BY <3>1, <3>3, <3>4
    <3>6. current' = current /\ command_table' = command_table BY <2>1 DEF current
    <3>7. Header(current, command_list_index)' = Header(current, command_list_index)
      BY <2>1, <3>2, <3>5, <3>6 DEF Header
    <3>8. Command(command_table) =
            [W |-> FALSE, prdtl |-> Len(memory'[command_table].prdt), ctba |-> command_table]
      BY <3>5 DEF Command
    <3>9. DOMAIN memory' = DOMAIN memory /\ memory'[command_table + 1].kind = "data"
      BY <3>1 DEF TypesInv
    <3>10. QED BY <2>1, <3>1, <3>2, <3>3, <3>5, <3>6, <3>7, <3>8, <3>9 DEF TableInv
  <2>4. QED BY <1>14, <2>2, <2>3, ExecutionFacts
<1>15. ASSUME NEW p \in Port, NEW s \in Slot, Complete(p, s) PROVE TableInv'
  <2>1. same BY <1>15, CompleteFacts DEF Becomes
  <2>2. QED BY <1>2, <1>15, <2>1 DEF Complete, driver
<1>16. CASE UNCHANGED vars BY <1>2, <1>16 DEF vars, driver, hba
<1>17. QED
  BY <1>3, <1>4, <1>5, <1>6, <1>7, <1>8, <1>9, <1>10, <1>11, <1>12, <1>13, <1>14, <1>15, <1>16
  DEF Next, Driver, HbaPort

-----------------------------------------------------------------------------
(* What IDENTIFY DEVICE has brought.                                        *)

LEMMA StepIdentify ==
  ASSUME AhciInv, [Next]_vars
  PROVE  IdentifyInv'
<1> USE DEF AhciInv
<1>1. CASE pc' \notin {"identified", "wait"} \/ request' # NoRequest BY <1>1 DEF IdentifyInv
<1>2. CASE /\ UNCHANGED <<devices, pc, i, request, memory, command_table, command_list_index, stage>>
           /\ \A p \in Port : port'[p].CI = port[p].CI
  <2>1. CASE pc \in {"identified", "wait"} /\ request = NoRequest
    <3>1. i \in Port BY <2>1, CurrentPort DEF current, Executing
    <3>2. QED BY <1>2, <3>1 DEF IdentifyInv, Disks
  <2>2. CASE pc \notin {"identified", "wait"} \/ request # NoRequest BY <1>1, <1>2, <2>2
  <2>3. QED BY <2>1, <2>2
<1>3. CASE \/ AHCI_init_handoff \/ AHCI_init_reset \/ AHCI_init_enable \/ AHCI_init_register
           \/ AHCI_init_skip \/ AHCI_init_return \/ AHCI_init_register_device \/ AHCI_init_port
           \/ AHCI_init_identify \/ AHCI_execute_command
  BY <1>1, <1>3 DEF AHCI_init_handoff, AHCI_init_reset, AHCI_init_enable, AHCI_init_register,
    AHCI_init_skip, AHCI_init_return, AHCI_init_register_device, AHCI_init_port, AHCI_init_identify,
    AHCI_execute_command
<1>4. CASE AHCI_execute_command_issue
  <2>1. CASE request = NoRequest
    <3>1. current \in Port /\ current = i /\ pc = "issue"
      BY <1>4, <2>1, CurrentPort DEF current, Executing, AHCI_execute_command_issue
    <3>2. stage[i] # "moved" BY <3>1 DEF IssuedInv
    <3>3. command_list_index \in port'[i].CI BY <1>4, <3>1, IssueFacts DEF Becomes
    <3>4. QED BY <1>4, <3>1, <3>2, <3>3 DEF IdentifyInv, AHCI_execute_command_issue
  <2>2. CASE request # NoRequest BY <1>1, <1>4, <2>2 DEF AHCI_execute_command_issue
  <2>3. QED BY <2>1, <2>2
<1>5. CASE AHCI_execute_command_return
  <2>1. CASE request = NoRequest
    <3>1. pc = "wait" /\ command_list_index \notin port[i].CI
      BY <1>5, <2>1 DEF AHCI_execute_command_return, current
    <3>2. memory[command_table + 1] = [kind |-> "data", device |-> devices[i]] /\ i \in Disks(devices)
      BY <2>1, <3>1 DEF IdentifyInv
    <3>3. QED BY <1>5, <3>2 DEF IdentifyInv, AHCI_execute_command_return, contents, Disks
  <2>2. CASE request # NoRequest BY <1>1, <1>5, <2>2 DEF AHCI_execute_command_return
  <2>3. QED BY <2>1, <2>2
<1>6. CASE interrupt_function_ahci
  <2>1. \A p \in Port : port'[p].CI = port[p].CI BY <1>6, HandlerFacts DEF PortsKept, Becomes
  <2>2. QED BY <1>2, <1>6, <2>1 DEF interrupt_function_ahci, contents, driver
<1>7. CASE ResetDone BY <1>1, <1>7, ResetDoneFacts DEF ResetDone, driver
<1>8. ASSUME NEW r \in Requests, AHCI_transfer(r) PROVE IdentifyInv' BY <1>1, <1>8 DEF AHCI_transfer
<1>9. ASSUME NEW p \in Port, LinkUp(p) PROVE IdentifyInv'
  <2>1. \A q \in Port : port'[q].CI = port[q].CI BY <1>9, LinkUpFacts
  <2>2. QED BY <1>2, <1>9, <2>1 DEF LinkUp, contents, driver
<1>10. ASSUME NEW p \in Port, ReceiveFis(p) PROVE IdentifyInv'
  <2>1. \A q \in Port : port'[q].CI = port[q].CI BY <1>10, HandlerFacts DEF PortsKept, Becomes
  <2>2. QED BY <1>2, <1>10, <2>1 DEF ReceiveFis, contents, driver
<1>11. ASSUME NEW p \in Port, NEW s \in Slot, Execute(p, s) PROVE IdentifyInv'
  <2>1. /\ s \in port[p].CI
        /\ UNCHANGED <<devices, pc, i, request, command_table, command_list_index, port>>
    BY <1>11, ExecutionFacts
  <2>2. pc = "wait" /\ p = current /\ s = command_list_index BY <2>1, FoundFacts
  <2>3. CASE request # NoRequest BY <1>1, <2>1, <2>3
  <2>4. CASE request = NoRequest
    <3>1. p = i /\ command_list_index \in port[i].CI BY <2>1, <2>2, <2>4 DEF current
    <3>2. CASE stage' = [stage EXCEPT ![p] = "failed"]
      <4>1. stage'[i] = "failed" BY <3>1, <3>2 DEF TypesInv
      <4>2. QED BY <2>1, <2>2, <3>1, <4>1 DEF IdentifyInv
    <3>3. CASE Table(p, s).command = "identify" /\ Identify(p, s) /\ p \in Disks(devices)
      <4>1. memory'[command_table + 1] = [kind |-> "data", device |-> devices[i]]
        BY <2>1, <3>3, IdentifiedFacts
      <4>2. QED BY <2>1, <3>1, <3>3, <4>1 DEF IdentifyInv, Disks
    <3>4. QED BY <1>11, <2>4, <3>2, <3>3, ExecutionFacts
  <2>5. QED BY <2>3, <2>4
<1>12. ASSUME NEW p \in Port, NEW s \in Slot, Complete(p, s) PROVE IdentifyInv'
  <2>1. s \in port[p].CI /\ stage[p] = "moved" BY <1>12 DEF Complete
  <2>2. pc = "wait" /\ p = current BY <2>1, FoundFacts
  <2>3. UNCHANGED <<devices, pc, i, request, memory, command_table, command_list_index>>
    BY <1>12 DEF Complete, contents, driver
  <2>4. CASE request # NoRequest BY <1>1, <2>3, <2>4
  <2>5. CASE request = NoRequest
    <3>1. memory[command_table + 1] = [kind |-> "data", device |-> devices[i]] /\ i \in Disks(devices)
      BY <2>1, <2>2, <2>5 DEF IdentifyInv, current
    <3>2. QED BY <2>3, <3>1 DEF IdentifyInv, Disks
  <2>6. QED BY <2>4, <2>5
<1>13. CASE UNCHANGED vars BY <1>2, <1>13 DEF vars, contents, driver, hba
<1>14. QED
  BY <1>3, <1>4, <1>5, <1>6, <1>7, <1>8, <1>9, <1>10, <1>11, <1>12, <1>13 DEF Next, Driver, HbaPort

-----------------------------------------------------------------------------

LEMMA StepNotAstray ==
  ASSUME AhciInv, [Next]_vars
  PROVE  ~astray'
<1> USE DEF AhciInv
<1>1. \A p \in Port, s \in Slot : Execute(p, s) => astray' = astray BY ExecutionFacts
<1>2. CASE Driver
  <2>1. AHCI_init_handoff \/ AHCI_init_reset \/ AHCI_init_enable \/ AHCI_init_register => astray' = astray
    BY DEF AHCI_init_handoff, AHCI_init_reset, AHCI_init_enable, AHCI_init_register, hba
  <2>2. AHCI_init_skip \/ AHCI_init_port \/ AHCI_init_identify => astray' = astray
    BY DEF AHCI_init_skip, AHCI_init_port, AHCI_init_identify, hba
  <2>3. AHCI_init_register_device \/ AHCI_init_return => astray' = astray
    BY DEF AHCI_init_register_device, AHCI_init_return, hba
  <2>4. AHCI_execute_command \/ AHCI_execute_command_issue \/ AHCI_execute_command_return => astray' = astray
    BY DEF AHCI_execute_command, AHCI_execute_command_issue, AHCI_execute_command_return, hba
  <2>5. QED BY <1>2, <2>1, <2>2, <2>3, <2>4 DEF Driver
<1>3. interrupt_function_ahci \/ ResetDone => astray' = astray
  BY DEF interrupt_function_ahci, ResetDone
<1>4. \A r \in Requests : AHCI_transfer(r) => astray' = astray
  BY DEF AHCI_transfer, hba
<1>5. \A p \in Port : LinkUp(p) \/ ReceiveFis(p) => astray' = astray
  BY DEF LinkUp, ReceiveFis
<1>6. \A p \in Port, s \in Slot : Complete(p, s) => astray' = astray
  BY DEF Complete
<1>7. UNCHANGED vars => astray' = astray
  BY DEF vars, hba
<1>8. QED BY <1>1, <1>2, <1>3, <1>4, <1>5, <1>6, <1>7 DEF Next, HbaPort

LEMMA AhciHolds == ASSUME FirmwareLeavesZero PROVE Spec => []AhciInv
<1>1. Init => AhciInv
  <2>1. Init => ~astray BY DEF Init
  <2>2. QED BY <2>1, InitTypes, InitProbe, InitList, InitTable, InitIssued DEF AhciInv
<1>2. AhciInv /\ [Next]_vars => AhciInv'
  BY StepTypes, StepProbe, StepList, StepTable, StepIssued, StepIdentify, StepNotAstray DEF AhciInv
<1>3. QED BY <1>1, <1>2, PTL DEF Spec

\* The adapter finds a command list where the port's registers say, and a
\* table behind the slot in use with as many entries as the header says,
\* whatever memory is given out in between (AHCI_execute_command, and
\* alloc_page's callers).  This needs PxCLBU to be zero.
THEOREM NothingAstray == ASSUME FirmwareLeavesZero PROVE Spec => []NeverAstray
<1>1. AhciInv => NeverAstray BY DEF AhciInv, NeverAstray
<1>2. QED BY <1>1, AhciHolds, PTL

\* AHCI_init puts every disk with 48-bit addresses into its list, once, and
\* nothing else, however late the links come up and whatever interrupts come.
THEOREM EveryDiskOnce == ASSUME FirmwareLeavesZero PROVE Spec => []DisksRegistered
<1>1. AhciInv => DisksRegistered
  <2> SUFFICES ASSUME AhciInv, pc = "ready" PROVE DisksRegistered BY DEF DisksRegistered
  <2>1. i = NP /\ RegisteredInv BY DEF AhciInv, ProbeInv, Place, ListInv
  <2>2. \A p \in Port : p < i BY <2>1, AhciAssumption DEF Port
  <2>3. {g_ahci_device_list[n].port : n \in DOMAIN g_ahci_device_list} =
          {p \in Port : devices[p].kind = "ata48"}
    BY <2>1, <2>2 DEF RegisteredInv
  <2>4. QED BY <2>1, <2>3 DEF DisksRegistered, RegisteredInv
<1>2. QED BY <1>1, AhciHolds, PTL

LEMMA LowAndHigh ==
  ASSUME NEW a \in Nat, NEW b \in Nat \ {0}
  PROVE  (a \div b) * b + (a % b) = a
OBVIOUS

\* The sector counts in the list are those the disks have told, the high word
\* and the low one put together, for every disk; the sector sizes are right for
\* the disks with sectors of 0x200 bytes, and wrong for all others, whose size
\* in words is taken for bytes (ahci.c:287-303).
THEOREM SizesRight ==
  ASSUME FirmwareLeavesZero
  PROVE  Spec => []DeviceListRight
<1>1. AhciInv => DeviceListRight
  <2> SUFFICES ASSUME AhciInv, NEW n \in DOMAIN g_ahci_device_list
               PROVE  LET entry == g_ahci_device_list[n]
                      IN /\ entry.lba_count_high * Word + entry.lba_count_low =
                              devices[entry.port].sectors
                         /\ entry.lba_size = devices[entry.port].sector <=>
                              devices[entry.port].sector = 1
    BY DEF DeviceListRight
  <2>1. PICK p \in Port : /\ p = g_ahci_device_list[n].port /\ devices[p].kind = "ata48"
                          /\ g_ahci_device_list[n] = Registered(devices[p], p)
    BY DEF AhciInv, ListInv, RegisteredInv
  <2>2. devices[p] \in Devices BY DEF AhciInv, TypesInv
  <2>3. devices[p].sectors \in Nat /\ devices[p].sector \in Nat \ {0} BY <2>2 DEF Devices
  <2>4. lba_size(devices[p]) = devices[p].sector <=> devices[p].sector = 1 BY <2>3 DEF lba_size
  <2>5. Word \in Nat \ {0} BY PowerFacts DEF Word
  <2>6. (devices[p].sectors \div Word) * Word + (devices[p].sectors % Word) = devices[p].sectors
    BY <2>3, <2>5, LowAndHigh
  <2>7. QED BY <2>1, <2>4, <2>6 DEF Registered
<1>2. QED BY <1>1, AhciHolds, PTL

-----------------------------------------------------------------------------
(* Numbers in bytes.                                                        *)

\* A set with 0 and, with each number, the next one has all of them.
LEMMA AllOfThem ==
  ASSUME NEW N \in Nat, NEW S, 0 \in S, \A n \in 1..N : n - 1 \in S => n \in S
  PROVE  0..N \subseteq S
<1> DEFINE T == {n \in 0..N : n \notin S}
<1> SUFFICES ASSUME T # {} PROVE FALSE OBVIOUS
<1>1. T \subseteq Nat OBVIOUS
<1> HIDE DEF T
<1>2. PICK m \in T : \A k \in T : m <= k BY <1>1, Least
<1>3. m \in 0..N /\ m \notin S BY DEF T
<1>4. m # 0 BY <1>3
<1>5. m \in 1..N /\ m - 1 \in 0..N BY <1>3, <1>4
<1>6. m - 1 \notin T BY <1>2, <1>5
<1>7. m - 1 \in S BY <1>5, <1>6 DEF T
<1>8. QED BY <1>3, <1>5, <1>7

LEMMA NumberIs ==
  ASSUME NEW bytes, Len(bytes) \in Nat, NEW g,
         g = [n \in 0..Len(bytes) |-> IF n = 0 THEN 0 ELSE g[n - 1] + bytes[n] * Power[n - 1]]
  PROVE  Number(bytes) = g[Len(bytes)]
<1> DEFINE N == Len(bytes)
           a(n) == bytes[n] * Power[n - 1]
           f == CHOOSE f : f = [n \in 0..N |-> IF n = 0 THEN 0 ELSE f[n - 1] + a(n)]
<1>1. Number(bytes) = f[N] BY DEF Number
<1> HIDE DEF a
<1>2. g = [n \in 0..N |-> IF n = 0 THEN 0 ELSE g[n - 1] + a(n)] BY DEF a
<1>3. f = [n \in 0..N |-> IF n = 0 THEN 0 ELSE f[n - 1] + a(n)] BY <1>2
<1> HIDE DEF f, N
<1>4. N \in Nat BY DEF N
<1>5. f[0] = 0 /\ g[0] = 0 BY <1>2, <1>3, <1>4
<1>6. \A n \in 1..N : n \in 0..N /\ n # 0 BY <1>4
<1>7. \A n \in 1..N : f[n] = f[n - 1] + a(n) /\ g[n] = g[n - 1] + a(n)
  <2>1. TAKE n \in 1..N
  <2>2. f[n] = f[n - 1] + a(n) BY <1>3, <1>6, Zenon
  <2>3. g[n] = g[n - 1] + a(n) BY <1>2, <1>6, Zenon
  <2>4. QED BY <2>2, <2>3
<1> DEFINE S == {n \in 0..N : f[n] = g[n]}
<1>8. \A n \in 1..N : n - 1 \in S => n \in S
  <2>1. TAKE n \in 1..N
  <2>2. n - 1 \in S => f[n] = g[n] BY <1>7, Zenon
  <2>3. QED BY <1>6, <2>2
<1>9. 0 \in S BY <1>4, <1>5
<1> HIDE DEF S
<1>10. 0..N \subseteq S BY <1>4, <1>8, <1>9, AllOfThem
<1>11. N \in S BY <1>4, <1>10
<1>12. QED BY <1>1, <1>11 DEF N, S

\* The lower digits of a number, and one more.
LEMMA Quotient ==
  ASSUME NEW a \in Nat, NEW b \in Nat \ {0}
  PROVE  /\ a \div b \in Nat /\ (a % b) \in Nat /\ (a % b) < b
         /\ a = (a \div b) * b + (a % b)
OBVIOUS

LEMMA RemainderIs ==
  ASSUME NEW a \in Nat, NEW b \in Nat \ {0}, NEW q \in Nat, NEW r \in Nat, r < b, a = q * b + r
  PROVE  a % b = r
OBVIOUS

LEMMA OneMoreDigit ==
  ASSUME NEW x \in Nat, NEW b \in Nat \ {0}, NEW c \in Nat \ {0}
  PROVE  x % (c * b) = (x % b) + ((x \div b) % c) * b
<1> DEFINE q == x \div b
           r == x % b
           s == q \div c
           t == q % c
<1>1. q \in Nat /\ r \in Nat /\ r < b /\ x = q * b + r BY Quotient
<1>2. s \in Nat /\ t \in Nat /\ t < c /\ q = s * c + t BY <1>1, Quotient
<1> HIDE DEF q, r, s, t
<1>3. c * b \in Nat \ {0} BY SMT
<1>4. t * b \in Nat /\ t * b + b <= c * b
  <2>1. t + 1 <= c BY <1>2
  <2>2. \A u, v, w \in Nat : u <= v => u * w <= v * w OBVIOUS
  <2>3. (t + 1) * b <= c * b BY <1>2, <2>1, <2>2
  <2>4. QED BY <1>2, <2>3
<1>5. r + t * b \in Nat /\ r + t * b < c * b BY <1>1, <1>3, <1>4
<1>6. x = s * (c * b) + (r + t * b)
  <2>1. q * b = (s * c) * b + t * b BY <1>2
  <2>2. (s * c) * b = s * (c * b) BY <1>2
  <2>3. QED BY <1>1, <1>2, <1>3, <1>4, <2>1, <2>2
<1>7. x % (c * b) = r + t * b BY <1>2, <1>3, <1>5, <1>6, RemainderIs
<1>8. QED BY <1>7 DEF q, r, t

LEMMA Digit ==
  ASSUME NEW x \in Nat, NEW n \in 1..5
  PROVE  /\ x % Power[n] = (x % Power[n - 1]) + ((x \div Power[n - 1]) % Base) * Power[n - 1]
         /\ (x % Power[n]) \in Nat /\ x % Power[0] = 0
<1> DEFINE b == Power[n - 1]
<1>1. n - 1 \in 0..4 /\ n - 1 \in 0..5 /\ (n - 1) + 1 = n OBVIOUS
<1>2. b \in Nat \ {0} /\ Power[n] = Base * b BY <1>1, PowerFacts
<1>3. Base \in Nat \ {0} BY AhciAssumption
<1> HIDE DEF b
<1>4. x % (Base * b) = (x % b) + ((x \div b) % Base) * b BY <1>2, <1>3, OneMoreDigit
<1>5. Power[n] \in Nat \ {0} BY PowerFacts
<1>6. (x % Power[n]) \in Nat
  <2> DEFINE c == Power[n]
  <2>1. c \in Nat \ {0} BY <1>5
  <2> HIDE DEF c
  <2>2. (x % c) \in Nat BY <2>1
  <2>3. QED BY <2>2 DEF c
<1>7. x % Power[0] = 0
  <2>1. Power[0] = 1 BY PowerFacts
  <2>2. x % 1 = 0 OBVIOUS
  <2>3. QED BY <2>1, <2>2
<1>8. QED BY <1>2, <1>4, <1>6, <1>7 DEF b

LEMMA BelowIsAll ==
  ASSUME NEW x \in Nat, NEW b \in Nat \ {0}
  PROVE  (x < b => x % b = x) /\ (x = b => x % b = 0)
OBVIOUS

\* A sector count in its bytes.
LEMMA NumberOfCount ==
  ASSUME NEW x \in Nat
  PROVE  Number(Bytes(x, 2)) = x % Power[2]
<1> DEFINE bytes == Bytes(x, 2)
           g == [n \in 0..2 |-> x % Power[n]]
<1>1. Len(bytes) = 2 BY BytesAreBytes
<1>2. \A n \in 1..2 : bytes[n] = (x \div Power[n - 1]) % Base BY DEF Bytes
<1>3. \A n \in 1..2 : x % Power[n] = (x % Power[n - 1]) + bytes[n] * Power[n - 1]
  <2>1. TAKE n \in 1..2
  <2>2. n \in 1..5 OBVIOUS
  <2>3. QED BY <1>2, <2>2, Digit
<1>4. x % Power[0] = 0 BY Digit
<1> HIDE DEF bytes
<1>5. ASSUME NEW n \in 0..2
      PROVE  g[n] = IF n = 0 THEN 0 ELSE g[n - 1] + bytes[n] * Power[n - 1]
  <2>1. CASE n = 0 BY <1>4, <2>1
  <2>2. CASE n # 0
    <3>1. n \in 1..2 /\ n - 1 \in 0..2 BY <2>2
    <3>2. g[n] = x % Power[n] /\ g[n - 1] = x % Power[n - 1] BY <3>1
    <3>3. QED BY <1>3, <2>2, <3>1, <3>2
  <2>3. QED BY <2>1, <2>2
<1>6. g = [n \in 0..2 |-> g[n]] OBVIOUS
<1>7. g[2] = x % Power[2] OBVIOUS
<1> HIDE DEF g
<1>8. g = [n \in 0..Len(bytes) |-> IF n = 0 THEN 0 ELSE g[n - 1] + bytes[n] * Power[n - 1]]
  BY <1>1, <1>5, <1>6
<1>9. Number(bytes) = g[Len(bytes)] BY <1>1, <1>8, NumberIs
<1>10. QED BY <1>1, <1>7, <1>9 DEF bytes

\* A logical block address in its bytes: those of the low word, then two more.
LEMMA NumberOfLba ==
  ASSUME NEW low \in 0..Word - 1, NEW high \in 0..Power[2] - 1
  PROVE  Number(Bytes(low, 4) \o Bytes(high, 2)) = high * Word + low
<1>1. Word \in Nat \ {0} /\ Power[2] \in Nat \ {0} BY PowerFacts DEF Word
<1>2. low \in Nat /\ low < Word /\ high \in Nat /\ high < Power[2]
  <2> DEFINE w == Word
             b == Power[2]
  <2> HIDE DEF w, b
  <2>1. w \in Nat /\ b \in Nat /\ low \in 0..w - 1 /\ high \in 0..b - 1 BY <1>1 DEF w, b
  <2>2. low \in Nat /\ low < w /\ high \in Nat /\ high < b BY <2>1
  <2>3. QED BY <2>2 DEF w, b
<1> DEFINE a == Bytes(low, 4)
           b == Bytes(high, 2)
           bytes == a \o b
           g == [n \in 0..6 |-> IF n <= 4 THEN low % Power[n] ELSE low + (high % Power[n - 4]) * Word]
<1>3. a \in Seq(Byte) /\ b \in Seq(Byte) /\ Len(a) = 4 /\ Len(b) = 2 BY <1>2, BytesAreBytes
<1>4. /\ \A n \in 1..4 : a[n] = (low \div Power[n - 1]) % Base
      /\ \A n \in 1..2 : b[n] = (high \div Power[n - 1]) % Base
  BY DEF Bytes
<1> HIDE DEF a, b
<1>5. /\ Len(bytes) = 6
      /\ \A n \in 1..4 : bytes[n] = a[n]
      /\ \A n \in 5..6 : bytes[n] = b[n - 4]
  <2>1. /\ Len(a \o b) = Len(a) + Len(b)
        /\ \A n \in 1..Len(a) + Len(b) : (a \o b)[n] = IF n <= Len(a) THEN a[n] ELSE b[n - Len(a)]
    BY <1>3, ConcatProperties
  <2> HIDE DEF bytes
  <2>2. Len(bytes) = 6 BY <1>3, <2>1 DEF bytes
  <2>3. \A n \in 1..6 : bytes[n] = IF n <= 4 THEN a[n] ELSE b[n - 4] BY <1>3, <2>1, SMTT(30) DEF bytes
  <2>4. QED BY <2>2, <2>3
<1> HIDE DEF bytes
<1>6. low % Power[4] = low /\ high % Power[2] = high BY <1>1, <1>2, BelowIsAll DEF Word
<1>7. low % Power[0] = 0 /\ high % Power[0] = 0 BY <1>2, Digit
<1>8. ASSUME NEW n \in 1..4
      PROVE  low % Power[n] = (low % Power[n - 1]) + bytes[n] * Power[n - 1]
  <2>1. n \in 1..5 OBVIOUS
  <2>2. bytes[n] = (low \div Power[n - 1]) % Base BY <1>4, <1>5
  <2>3. QED BY <1>2, <2>1, <2>2, Digit
<1>9. ASSUME NEW n \in 5..6
      PROVE  (high % Power[n - 4]) * Word = (high % Power[n - 5]) * Word + bytes[n] * Power[n - 1]
  <2> DEFINE m == n - 4
             u == high % Power[m - 1]
             d == (high \div Power[m - 1]) % Base
             v == Power[m - 1]
  <2>1. m \in 1..2 /\ m \in 1..5 /\ m - 1 = n - 5 /\ m - 1 \in 0..5 OBVIOUS
  <2>2. bytes[n] = d BY <1>4, <1>5, <2>1
  <2>3. high % Power[m] = u + d * v BY <1>2, <2>1, Digit
  <2>4. u \in Nat /\ d \in Nat /\ v \in Nat
    <3>1. v \in Nat \ {0} BY <2>1, PowerFacts
    <3>2. Base \in Nat \ {0} BY AhciAssumption
    <3> HIDE DEF v
    <3>3. (high % v) \in Nat /\ ((high \div v) % Base) \in Nat BY <1>2, <3>1, <3>2
    <3>4. QED BY <3>1, <3>3 DEF v
  <2>5. Power[n - 1] = v * Word
    <3>1. CASE n = 5
      <4>1. v = 1 BY <3>1, PowerFacts
      <4>2. QED BY <1>1, <3>1, <4>1 DEF Word
    <3>2. CASE n = 6
      <4>1. v = Power[1] /\ Power[1] = Base * Power[0] /\ Power[0] = 1 BY <3>2, PowerFacts
      <4>2. Power[5] = Base * Power[4] BY PowerFacts
      <4>3. Base \in Nat BY AhciAssumption
      <4>4. v = Base BY <4>1, <4>3
      <4>5. QED BY <3>2, <4>2, <4>4 DEF Word
    <3>3. QED BY <3>1, <3>2
  <2> HIDE DEF u, d, v
  <2>6. (u + d * v) * Word = u * Word + d * (v * Word) BY <1>1, <2>4
  <2>7. high % Power[n - 5] = u BY <2>1 DEF u
  <2>8. QED BY <2>2, <2>3, <2>5, <2>6, <2>7
<1>10. g[6] = low + high * Word BY <1>6
<1>11. ASSUME NEW n \in 0..6
       PROVE  g[n] = IF n = 0 THEN 0 ELSE g[n - 1] + bytes[n] * Power[n - 1]
  <2>1. CASE n = 0 BY <1>7, <2>1
  <2>2. CASE n \in 1..4
    <3>1. g[n] = low % Power[n] /\ g[n - 1] = low % Power[n - 1] /\ n # 0 BY <2>2
    <3>2. QED BY <1>8, <2>2, <3>1
  <2>3. CASE n \in 5..6
    <3>1. g[n] = low + (high % Power[n - 4]) * Word /\ n # 0 BY <2>3
    <3>2. g[n - 1] = low + (high % Power[n - 5]) * Word
      <4>1. CASE n = 5
        <5>1. g[4] = low BY <1>6
        <5>2. (high % Power[0]) * Word = 0 BY <1>1, <1>7
        <5>3. QED BY <1>2, <4>1, <5>1, <5>2
      <4>2. CASE n = 6 BY <4>2
      <4>3. QED BY <2>3, <4>1, <4>2
    <3>3. (high % Power[n - 4]) * Word = (high % Power[n - 5]) * Word + bytes[n] * Power[n - 1]
      BY <1>9, <2>3
    <3> DEFINE x == (high % Power[n - 5]) * Word
               y == bytes[n] * Power[n - 1]
    <3>4. x \in Nat
      <4>1. n - 5 \in 0..5 BY <2>3
      <4>2. Power[n - 5] \in Nat \ {0} BY <4>1, PowerFacts
      <4>3. (high % Power[n - 5]) \in Nat BY <1>2, <4>2
      <4>4. QED BY <1>1, <4>3
    <3>5. y \in Nat
      <4>1. n - 1 \in 0..5 /\ n - 4 \in 1..2 BY <2>3
      <4>2. Power[n - 1] \in Nat BY <4>1, PowerFacts
      <4>3. b[n - 4] \in Byte
        <5> DEFINE m == n - 4
        <5>1. m \in 1..2 BY <4>1
        <5> HIDE DEF m
        <5>2. b \in Seq(Byte) /\ m \in 1..Len(b) BY <1>3, <5>1
        <5>3. b[m] \in Byte BY <5>2, ElementOfSeq, Zenon
        <5>4. QED BY <5>3 DEF m
      <4>4. bytes[n] \in Nat BY <1>5, <2>3, <4>3 DEF Byte
      <4>5. QED BY <4>2, <4>4
    <3> HIDE DEF x, y
    <3>6. QED BY <1>2, <3>1, <3>2, <3>3, <3>4, <3>5 DEF x, y
  <2>4. QED BY <2>1, <2>2, <2>3
<1>12. g = [n \in 0..6 |-> g[n]] OBVIOUS
<1> HIDE DEF g
<1>13. g = [n \in 0..Len(bytes) |-> IF n = 0 THEN 0 ELSE g[n - 1] + bytes[n] * Power[n - 1]]
  BY <1>5, <1>11, <1>12
<1>14. Number(bytes) = g[Len(bytes)] BY <1>5, <1>13, NumberIs, SMTT(30)
<1>15. QED BY <1>1, <1>2, <1>5, <1>10, <1>14 DEF bytes, a, b

-----------------------------------------------------------------------------
(* Entries of a PRDT.                                                       *)

LEMMA PlacesIs ==
  ASSUME NEW t, NEW N \in Nat, NEW g,
         g = [n \in 0..N |-> IF n = 0 THEN <<>>
                             ELSE g[n - 1] \o [k \in 1..t.prdt[n].dbc + 1 |-> t.prdt[n].dba + k - 1]]
  PROVE  Places(t, N) = g[N]
<1> DEFINE a(n) == [k \in 1..t.prdt[n].dbc + 1 |-> t.prdt[n].dba + k - 1]
           f == CHOOSE f : f = [n \in 0..N |-> IF n = 0 THEN <<>> ELSE f[n - 1] \o a(n)]
<1>1. Places(t, N) = f[N] BY DEF Places
<1> HIDE DEF a
<1>2. g = [n \in 0..N |-> IF n = 0 THEN <<>> ELSE g[n - 1] \o a(n)] BY Zenon DEF a
<1>3. f = [n \in 0..N |-> IF n = 0 THEN <<>> ELSE f[n - 1] \o a(n)] BY <1>2, Zenon
<1> HIDE DEF f
<1>4. 0 \in 0..N /\ \A n \in 1..N : n \in 0..N /\ n # 0 OBVIOUS
<1>5. f[0] = <<>> /\ g[0] = <<>> BY <1>2, <1>3, <1>4, Zenon
<1>6. \A n \in 1..N : f[n] = f[n - 1] \o a(n) /\ g[n] = g[n - 1] \o a(n)
  <2>1. TAKE n \in 1..N
  <2>2. f[n] = f[n - 1] \o a(n) BY <1>3, <1>4, Zenon
  <2>3. g[n] = g[n - 1] \o a(n) BY <1>2, <1>4, Zenon
  <2>4. QED BY <2>2, <2>3, Zenon
<1> DEFINE S == {n \in 0..N : f[n] = g[n]}
<1>7. \A n \in 1..N : n - 1 \in S => n \in S
  <2>1. TAKE n \in 1..N
  <2>2. n - 1 \in S => f[n] = g[n] BY <1>6, Zenon
  <2>3. QED BY <1>4, <2>2
<1>8. 0 \in S BY <1>4, <1>5
<1> HIDE DEF S
<1>9. 0..N \subseteq S BY <1>7, <1>8, AllOfThem
<1>10. N \in S BY <1>9
<1>11. QED BY <1>1, <1>10 DEF S

LEMMA Counted ==
  ASSUME NEW a \in Nat, NEW c \in Nat
  PROVE  [m \in 1..a |-> m - 1] \o [k \in 1..c |-> a + k - 1] = [m \in 1..a + c |-> m - 1]
<1> DEFINE x == [m \in 1..a |-> m - 1]
           y == [k \in 1..c |-> a + k - 1]
           z == [m \in 1..a + c |-> m - 1]
<1>1. x \in Seq(Int) /\ y \in Seq(Int) /\ z \in Seq(Int) /\ Len(x) = a /\ Len(y) = c /\ Len(z) = a + c
  OBVIOUS
<1>2. /\ \A m \in 1..a : x[m] = m - 1
      /\ \A m \in 1..c : y[m] = a + m - 1
      /\ \A m \in 1..a + c : z[m] = m - 1
  OBVIOUS
<1> HIDE DEF x, y, z
<1>3. /\ x \o y \in Seq(Int) /\ Len(x \o y) = a + c
      /\ \A m \in 1..a + c : (x \o y)[m] = IF m <= a THEN x[m] ELSE y[m - a]
  BY <1>1, ConcatProperties
<1>4. \A m \in 1..a + c : (x \o y)[m] = z[m]
  <2>1. TAKE m \in 1..a + c
  <2>2. m <= a => m \in 1..a OBVIOUS
  <2>3. m > a => m - a \in 1..c OBVIOUS
  <2>4. QED BY <1>2, <1>3, <2>2, <2>3
<1> DEFINE w == x \o y
<1>5. w \in Seq(Int) /\ Len(w) = Len(z) /\ \A m \in 1..Len(w) : w[m] = z[m] BY <1>1, <1>3, <1>4
<1> HIDE DEF w
<1>6. w = z BY <1>1, <1>5, SeqEqual
<1>7. QED BY <1>6 DEF w, x, y, z

\* The entries for a buffer cover it, once and in its order.
LEMMA PlacesOfBuffer ==
  ASSUME NEW units \in Nat, NEW t, t.prdt = Prdt(units)
  PROVE  Places(t, Len(t.prdt)) = [m \in 1..units |-> m - 1]
<1> DEFINE q == (units + Chunk - 1) \div Chunk
           upto(n) == IF n * Chunk < units THEN n * Chunk ELSE units
           g == [n \in 0..q |-> [m \in 1..upto(n) |-> m - 1]]
           entry(n) == [k \in 1..t.prdt[n].dbc + 1 |-> t.prdt[n].dba + k - 1]
<1>1. Chunk \in Nat \ {0} BY AhciAssumption
<1>2. q \in Nat /\ q * Chunk > units - 1 /\ q * Chunk \in Nat BY <1>1
<1>3. Len(t.prdt) = q
  <2>1. t.prdt = [n \in 1..q |->
           [dba |-> (n - 1) * Chunk,
            dbc |-> (IF units - (n - 1) * Chunk > Chunk THEN Chunk ELSE units - (n - 1) * Chunk) - 1]]
    BY DEF Prdt
  <2> HIDE DEF q
  <2>2. QED BY <1>2, <2>1
<1>4. ASSUME NEW n \in 1..q
      PROVE  g[n] = g[n - 1] \o entry(n)
  <2> DEFINE d == (n - 1) * Chunk
             c == IF units - d > Chunk THEN Chunk ELSE units - d
  <2>1. t.prdt[n].dba = d /\ t.prdt[n].dbc = c - 1 BY DEF Prdt
  <2>2. d \in Nat /\ d < units BY Chunks
  <2>3. n \in Nat /\ n >= 1 /\ n - 1 \in 0..q /\ n \in 0..q BY <1>2
  <2>4. n * Chunk = d + Chunk
    <3>1. \A x, y \in Nat : x >= 1 => x * y = (x - 1) * y + y OBVIOUS
    <3>2. QED BY <1>1, <2>3, <3>1
  <2>5. upto(n - 1) = d BY <2>2
  <2>6. g[n] = [m \in 1..upto(n) |-> m - 1] /\ g[n - 1] = [m \in 1..d |-> m - 1] BY <2>3, <2>5
  <2> HIDE DEF d, g, q
  <2>7. c \in Nat /\ upto(n) = d + c BY <1>1, <2>2, <2>4
  <2> HIDE DEF c, upto
  <2>8. entry(n) = [k \in 1..c |-> d + k - 1]
    <3>1. t.prdt[n].dbc + 1 = c BY <2>1, <2>7
    <3>2. QED BY <2>1, <3>1
  <2>9. [m \in 1..d |-> m - 1] \o [k \in 1..c |-> d + k - 1] = [m \in 1..d + c |-> m - 1]
    BY <2>2, <2>7, Counted
  <2>10. g[n] = [m \in 1..d + c |-> m - 1] BY <2>6, <2>7, Zenon
  <2> HIDE DEF entry
  <2>11. QED BY <2>6, <2>8, <2>9, <2>10, Zenon
<1>5. g[0] = <<>>
  <2>1. upto(0) = 0 BY <1>1
  <2>2. 0 \in 0..q BY <1>2
  <2> HIDE DEF q, upto
  <2>3. g[0] = [m \in 1..0 |-> m - 1] BY <2>1, <2>2
  <2>4. QED BY <2>3
<1>6. g[q] = [m \in 1..units |-> m - 1]
  <2>1. q \in 0..q /\ upto(q) = units BY <1>2
  <2> HIDE DEF q, upto
  <2>2. QED BY <2>1
<1>7. ASSUME NEW n \in 0..q
      PROVE  g[n] = IF n = 0 THEN <<>> ELSE g[n - 1] \o entry(n)
  <2>1. n # 0 => n \in 1..q BY <1>2
  <2> HIDE DEF q, g, entry
  <2>2. QED BY <1>4, <1>5, <2>1
<1>8. g = [n \in 0..q |-> g[n]] OBVIOUS
<1> HIDE DEF g, q
<1>9. g = [n \in 0..q |-> IF n = 0 THEN <<>> ELSE g[n - 1] \o entry(n)]
  <2> HIDE DEF entry
  <2>1. QED BY <1>7, <1>8
<1>10. Places(t, q) = g[q] BY <1>2, <1>9, PlacesIs
<1>11. QED BY <1>3, <1>6, <1>10

-----------------------------------------------------------------------------
(* What is moved.                                                           *)

\* The driver takes the size of a sector to be in bytes where the disk says
\* how many words it has: only with ordinary sectors does it move what is asked.
OrdinarySectors == \A d \in Connected : \A p \in Port : d[p].kind = "ata48" => d[p].sector = 1

\* The call at hand is about a disk in the list, and its table says so.
AskedInv == request # NoRequest =>
  /\ devices[request.port].kind = "ata48"
  /\ memory[command_table] = TableFor(request, request.count * lba_size(devices[request.port]))

\* Disks and buffer keep their size.
SizesInv ==
  /\ DOMAIN disk = Disks(devices) /\ DOMAIN buffer = 0..Room - 1
  /\ \A p \in Disks(devices) : DOMAIN disk[p] = 0..devices[p].sector * devices[p].sectors - 1

LEMMA StepAsked ==
  ASSUME AhciInv, AskedInv, [Next]_vars
  PROVE  AskedInv'
<1> USE DEF AhciInv
<1>1. CASE request' = NoRequest BY <1>1 DEF AskedInv
<1>2. ASSUME UNCHANGED <<devices, request, command_table>>,
             request # NoRequest => memory'[command_table] = memory[command_table]
      PROVE  AskedInv'
  BY <1>2 DEF AskedInv
<1>3. CASE \/ AHCI_init_handoff \/ AHCI_init_reset \/ AHCI_init_enable \/ AHCI_init_register
           \/ AHCI_init_skip \/ AHCI_init_port \/ AHCI_init_identify \/ AHCI_init_register_device
           \/ AHCI_init_return \/ AHCI_execute_command_return
  <2>1. \/ request' = NoRequest
        \/ request' = request /\ pc \notin Executing
    BY <1>3 DEF AHCI_init_handoff, AHCI_init_reset, AHCI_init_enable, AHCI_init_register,
      AHCI_init_skip, AHCI_init_port, AHCI_init_identify, AHCI_init_register_device,
      AHCI_init_return, AHCI_execute_command_return, Executing
  <2>2. request' = NoRequest BY <2>1 DEF ProbeInv, Place
  <2>3. QED BY <1>1, <2>2
<1>4. CASE AHCI_execute_command
  <2>1. pc = "execute" /\ UNCHANGED <<devices, request, command_table>>
    BY <1>4 DEF AHCI_execute_command, contents
  <2>2. \A n \in DOMAIN memory : n # port[current].PxCLB => memory'[n] = memory[n]
    BY <1>4, ExecuteFacts
  <2>3. command_table \in DOMAIN memory /\ memory[command_table].kind = "table"
    BY <2>1 DEF TableInv, Executing
  <2>4. memory[port[current].PxCLB].kind = "list" BY <2>1 DEF ListInv, CurrentInv, HasList, Executing
  <2>5. memory'[command_table] = memory[command_table] BY <2>2, <2>3, <2>4
  <2>6. QED BY <1>2, <2>1, <2>5
<1>5. CASE AHCI_execute_command_issue \/ interrupt_function_ahci
  BY <1>2, <1>5 DEF AHCI_execute_command_issue, interrupt_function_ahci, contents, driver
<1>6. CASE ResetDone BY <1>2, <1>6 DEF ResetDone, contents, driver
<1>7. ASSUME NEW r \in Requests, AHCI_transfer(r) PROVE AskedInv'
  <2>1. request' = r /\ UNCHANGED devices BY <1>7 DEF AHCI_transfer, contents
  <2>2. PICK n \in DOMAIN g_ahci_device_list :
          /\ g_ahci_device_list[n].port = r.port
          /\ memory'[command_table'] = TableFor(r, r.count * g_ahci_device_list[n].lba_size)
    BY <1>7, TransferFacts
  <2>3. devices[r.port].kind = "ata48" /\ g_ahci_device_list[n] = Registered(devices[r.port], r.port)
    BY <2>2 DEF ListInv, RegisteredInv
  <2>4. g_ahci_device_list[n].lba_size = lba_size(devices[r.port]) BY <2>3 DEF Registered
  <2>5. QED BY <2>1, <2>2, <2>3, <2>4 DEF AskedInv
<1>8. ASSUME NEW p \in Port, LinkUp(p) \/ ReceiveFis(p) PROVE AskedInv'
  BY <1>2, <1>8 DEF LinkUp, ReceiveFis, contents, driver
<1>9. ASSUME NEW p \in Port, NEW s \in Slot, Execute(p, s) PROVE AskedInv'
  <2>1. s \in port[p].CI /\ UNCHANGED <<devices, request, command_table>> BY <1>9, ExecutionFacts
  <2>2. CASE memory' = memory BY <1>2, <2>1, <2>2
  <2>3. CASE Table(p, s).command = "identify" /\ Identify(p, s) /\ p \in Disks(devices)
    <3>1. request = NoRequest BY <2>1, <2>3, IdentifiedFacts
    <3>2. QED BY <1>1, <2>1, <3>1
  <2>4. QED BY <1>9, <2>2, <2>3, ExecutionFacts
<1>10. ASSUME NEW p \in Port, NEW s \in Slot, Complete(p, s) PROVE AskedInv'
  BY <1>2, <1>10 DEF Complete, contents, driver
<1>11. CASE UNCHANGED vars BY <1>2, <1>11 DEF vars, contents, driver
<1>12. QED
  BY <1>3, <1>4, <1>5, <1>6, <1>7, <1>8, <1>9, <1>10, <1>11 DEF Next, Driver, HbaPort

LEMMA RequestTypes ==
  ASSUME NEW r \in Requests
  PROVE  /\ r.write \in BOOLEAN /\ r.port \in Port
         /\ r.lba_low \in 0..Word - 1 /\ r.lba_high \in 0..Power[2] - 1
         /\ r.lba_low \in Nat /\ r.lba_high \in Nat /\ r.count \in Nat \ {0} /\ r.count <= Power[2]
         /\ Word \in Nat \ {0} /\ r.lba_high * Word + r.lba_low \in Nat
<1> DEFINE w == Word
           b == Power[2]
<1>1. w \in Nat \ {0} /\ b \in Nat \ {0} BY PowerFacts DEF Word
<1>2. Requests \subseteq [write : BOOLEAN, port : Port, lba_low : 0..w - 1, lba_high : 0..b - 1, count : 1..b]
  BY AhciAssumption
<1> HIDE DEF w, b
<1>3. r.write \in BOOLEAN /\ r.port \in Port BY <1>2
<1>4. /\ r.lba_low \in 0..w - 1 /\ r.lba_high \in 0..b - 1
      /\ r.lba_low \in Nat /\ r.lba_high \in Nat /\ r.count \in Nat \ {0} /\ r.count <= b
  BY <1>1, <1>2
<1>5. r.lba_high * w + r.lba_low \in Nat BY <1>1, <1>4
<1>6. QED BY <1>1, <1>3, <1>4, <1>5 DEF w, b

\* Where a call's sectors start, if a sector has one unit.
FirstOf(r) == r.lba_high * Word + r.lba_low

\* The table is read as it was meant.
LEMMA TableRead ==
  ASSUME NEW r \in Requests, NEW p \in Port, devices[p].sector = 1,
         NEW t, t = TableFor(r, r.count)
  PROVE  /\ First(p, t) = FirstOf(r) /\ Size(p, t) = r.count
         /\ t.command = IF r.write THEN "write" ELSE "read"
         /\ Places(t, Len(t.prdt)) = [m \in 1..r.count |-> m - 1]
<1>1. /\ t.lba = Bytes(r.lba_low, 4) \o Bytes(r.lba_high, 2) /\ t.sectorCount = Bytes(r.count, 2)
      /\ t.prdt = Prdt(r.count) /\ t.command = IF r.write THEN "write" ELSE "read"
  BY DEF TableFor, NewTable
<1>2. Number(t.lba) = FirstOf(r) BY <1>1, RequestTypes, NumberOfLba DEF FirstOf
<1>3. Number(t.sectorCount) = r.count % Power[2] BY <1>1, RequestTypes, NumberOfCount
<1> DEFINE c == r.count
           b == Power[2]
           n == Number(t.sectorCount)
<1>4. c \in Nat \ {0} /\ b \in Nat \ {0} /\ c <= b /\ n = c % b
  BY <1>3, RequestTypes, PowerFacts
<1>5. (IF n = 0 THEN b ELSE n) = c
  <2> HIDE DEF c, b, n
  <2>1. CASE c < b
    <3>1. n = c BY <1>4, <2>1, BelowIsAll
    <3>2. QED BY <1>4, <3>1
  <2>2. CASE c = b
    <3>1. n = 0 BY <1>4, <2>2, BelowIsAll
    <3>2. QED BY <2>2, <3>1
  <2>3. QED BY <1>4, <2>1, <2>2
<1>6. First(p, t) = FirstOf(r) * 1 /\ Size(p, t) = c * 1 BY <1>2, <1>5 DEF First, Size
<1>7. FirstOf(r) \in Nat /\ c \in Nat BY RequestTypes DEF FirstOf
<1>8. First(p, t) = FirstOf(r) /\ Size(p, t) = c
  <2> DEFINE f == FirstOf(r)
  <2> HIDE DEF f, c
  <2>1. f * 1 = f /\ c * 1 = c BY <1>7 DEF f
  <2>2. QED BY <1>6, <2>1 DEF f
<1>9. Places(t, Len(t.prdt)) = [m \in 1..c |-> m - 1] BY <1>1, <1>7, PlacesOfBuffer
<1>10. QED BY <1>1, <1>8, <1>9

LEMMA InOrder ==
  ASSUME NEW c \in Nat
  PROVE  LET all == [m \in 1..c |-> m - 1]
         IN  /\ DOMAIN all = 1..c /\ SubSeq(all, 1, c) = all /\ Len(all) = c
             /\ \A k \in Nat : k \in Range(all) <=> k < c
             /\ \A k \in Nat : k < c => LastAt(all, k) = k + 1
             /\ \A m \in 1..c : all[m] = m - 1
<1> DEFINE all == [m \in 1..c |-> m - 1]
<1>1. all \in Seq(Int) /\ Len(all) = c /\ DOMAIN all = 1..c /\ \A m \in 1..c : all[m] = m - 1 OBVIOUS
<1> HIDE DEF all
<1>2. SubSeq(all, 1, c) = all
  <2> DEFINE sub == SubSeq(all, 1, c)
  <2>1. sub \in Seq(Int) /\ Len(sub) = c /\ \A m \in 1..c : sub[m] = all[m] BY <1>1, SubSeqProperties
  <2> HIDE DEF sub
  <2>2. sub = all BY <1>1, <2>1, SeqEqual
  <2>3. QED BY <2>2 DEF sub
<1>3. \A k \in Nat : k \in Range(all) <=> k < c
  <2>1. TAKE k \in Nat
  <2>2. ASSUME k < c PROVE k \in Range(all)
    <3>1. k + 1 \in 1..c /\ all[k + 1] = k BY <1>1, <2>2
    <3>2. QED BY <1>1, <3>1 DEF Range
  <2>3. ASSUME k \in Range(all) PROVE k < c
    <3>1. PICK m \in 1..c : all[m] = k BY <1>1, <2>3 DEF Range
    <3>2. QED BY <1>1, <3>1
  <2>4. QED BY <2>2, <2>3
<1>4. ASSUME NEW k \in Nat, k < c PROVE LastAt(all, k) = k + 1
  <2>1. k + 1 \in 1..c BY <1>4
  <2>2. \A m \in 1..c : all[m] = k <=> m = k + 1 BY <1>1
  <2>3. \A m \in DOMAIN all : (all[m] = k /\ \A n \in DOMAIN all : all[n] = k => n <= m) <=> m = k + 1
    BY <1>1, <2>1, <2>2
  <2>4. QED BY <1>1, <2>1, <2>3 DEF LastAt
<1>5. QED BY <1>1, <1>2, <1>3, <1>4 DEF all

LEMMA MoveIs ==
  ASSUME NEW p, NEW t, NEW prdtl, NEW c \in Nat, Size(p, t) = c, Places(t, prdtl) = [m \in 1..c |-> m - 1],
         NEW first \in Nat, First(p, t) = first, DOMAIN buffer \subseteq Nat, DOMAIN disk[p] \subseteq Int,
         p \in DOMAIN disk, Move(p, t, prdtl)
  PROVE  /\ t.command = "read" =>
              /\ buffer' = [k \in DOMAIN buffer |-> IF k < c THEN disk[p][first + k] ELSE buffer[k]]
              /\ disk' = disk
         /\ t.command # "read" =>
              /\ disk' = [disk EXCEPT ![p] = [n \in DOMAIN @ |-> IF n - first \in 0..c - 1
                                                                  THEN buffer[n - first] ELSE @[n]]]
              /\ buffer' = buffer
<1> DEFINE all == [m \in 1..c |-> m - 1]
<1>1. /\ DOMAIN all = 1..c /\ SubSeq(all, 1, c) = all /\ Len(all) = c
      /\ \A k \in Nat : k \in Range(all) <=> k < c
      /\ \A k \in Nat : k < c => LastAt(all, k) = k + 1
      /\ \A m \in 1..c : all[m] = m - 1
  BY InOrder
<1>2. Places(t, prdtl) = all OBVIOUS
<1> HIDE DEF all
<1>3. SubSeq(all, 1, IF c < Len(all) THEN c ELSE Len(all)) = all BY <1>1
<1>4. CASE t.command = "read"
  <2>1. /\ buffer' = [k \in DOMAIN buffer |->
                        IF k \in Range(all) THEN disk[p][first + LastAt(all, k) - 1] ELSE buffer[k]]
        /\ disk' = disk
    BY <1>2, <1>3, <1>4, Zenon DEF Move
  <2>2. ASSUME NEW k \in DOMAIN buffer
        PROVE  (IF k \in Range(all) THEN disk[p][first + LastAt(all, k) - 1] ELSE buffer[k])
                 = IF k < c THEN disk[p][first + k] ELSE buffer[k]
    <3>1. k \in Nat OBVIOUS
    <3>2. k < c => first + LastAt(all, k) - 1 = first + k BY <1>1, <3>1
    <3>3. k \in Range(all) <=> k < c BY <1>1, <3>1
    <3>4. QED BY <3>2, <3>3, Zenon
  <2>3. QED BY <1>4, <2>1, <2>2, Zenon
<1>5. CASE t.command # "read"
  <2>1. /\ disk' = [disk EXCEPT ![p] = [n \in DOMAIN disk[p] |->
                      IF n - first + 1 \in DOMAIN all THEN buffer[all[n - first + 1]] ELSE disk[p][n]]]
        /\ buffer' = buffer
    BY <1>2, <1>3, <1>5, Zenon DEF Move
  <2>2. ASSUME NEW n \in DOMAIN disk[p]
        PROVE  (IF n - first + 1 \in DOMAIN all THEN buffer[all[n - first + 1]] ELSE disk[p][n])
                 = IF n - first \in 0..c - 1 THEN buffer[n - first] ELSE disk[p][n]
    <3>1. n \in Int OBVIOUS
    <3>2. n - first + 1 \in 1..c <=> n - first \in 0..c - 1 BY <3>1
    <3>3. n - first \in 0..c - 1 => all[n - first + 1] = n - first BY <1>1, <3>1
    <3>4. QED BY <1>1, <3>2, <3>3, Zenon
  <2>3. [n \in DOMAIN disk[p] |->
           IF n - first + 1 \in DOMAIN all THEN buffer[all[n - first + 1]] ELSE disk[p][n]]
        = [n \in DOMAIN disk[p] |-> IF n - first \in 0..c - 1 THEN buffer[n - first] ELSE disk[p][n]]
    BY <2>2, Zenon
  <2>4. QED BY <1>5, <2>1, <2>3, Zenon
<1>6. QED BY <1>4, <1>5

\* A call that moves data moves its sectors, in their order.
LEMMA Transfers ==
  ASSUME AhciInv, AskedInv, SizesInv, OrdinarySectors, NEW p \in Port, NEW s \in Slot, Execute(p, s),
         request # NoRequest
  PROVE  /\ p = request.port /\ pc = "wait" /\ s = command_list_index /\ request \in Requests
         /\ devices[p].sector = 1 /\ p \in Disks(devices)
         /\ \/ stage' = [stage EXCEPT ![p] = "failed"] /\ UNCHANGED <<disk, buffer>>
            \/ /\ stage' = [stage EXCEPT ![p] = "moved"]
               /\ FirstOf(request) + request.count <= devices[p].sectors
               /\ ~request.write =>
                    /\ buffer' = [k \in DOMAIN buffer |->
                                    IF k < request.count THEN disk[p][FirstOf(request) + k] ELSE buffer[k]]
                    /\ disk' = disk
               /\ request.write =>
                    /\ disk' = [disk EXCEPT ![p] =
                                  [n \in DOMAIN @ |-> IF n - FirstOf(request) \in 0..request.count - 1
                                                        THEN buffer[n - FirstOf(request)] ELSE @[n]]]
                    /\ buffer' = buffer
<1> USE DEF AhciInv
<1>1. s \in port[p].CI BY DEF Execute
<1>2. /\ pc = "wait" /\ p = current /\ s = command_list_index /\ Fetchable(p, s)
      /\ Table(p, s) = memory[command_table]
  BY <1>1, FoundFacts
<1>3. p = request.port /\ request \in Requests BY <1>2 DEF current, TypesInv
<1>4. devices[p].kind = "ata48" /\ devices[p] \in Devices BY <1>3 DEF AskedInv, TypesInv
<1>5. devices[p].sector = 1 /\ p \in Disks(devices) /\ devices[p].sectors \in Nat
  BY <1>4 DEF OrdinarySectors, TypesInv, Disks, Devices
<1> DEFINE t == Table(p, s)
           c == request.count
<1>6. c \in Nat /\ FirstOf(request) \in Nat BY <1>3, RequestTypes DEF FirstOf
<1>7. t = TableFor(request, c)
  <2>1. lba_size(devices[p]) = 1 BY <1>5 DEF lba_size
  <2>2. c * 1 = c BY <1>6
  <2>3. QED BY <1>2, <1>3, <2>1, <2>2 DEF AskedInv
<1>8. Header(p, s).prdtl = Len(t.prdt) BY <1>2 DEF TableInv, Executing
<1> HIDE DEF t
<1>9. /\ First(p, t) = FirstOf(request) /\ Size(p, t) = c
      /\ t.command = IF request.write THEN "write" ELSE "read"
      /\ Places(t, Len(t.prdt)) = [m \in 1..c |-> m - 1]
  BY <1>3, <1>5, <1>7, TableRead
<1>10. Transfer(p, s) BY <1>2, <1>9 DEF Execute, t
<1>11. \/ /\ First(p, t) + Size(p, t) <= devices[p].sector * devices[p].sectors
          /\ Move(p, t, Header(p, s).prdtl) /\ stage' = [stage EXCEPT ![p] = "moved"]
       \/ stage' = [stage EXCEPT ![p] = "failed"] /\ UNCHANGED <<disk, buffer>>
  BY <1>10 DEF Transfer, t
<1>12. CASE /\ First(p, t) + Size(p, t) <= devices[p].sector * devices[p].sectors
            /\ Move(p, t, Header(p, s).prdtl) /\ stage' = [stage EXCEPT ![p] = "moved"]
  <2>1. FirstOf(request) + c <= devices[p].sectors BY <1>5, <1>9, <1>12
  <2>2. DOMAIN buffer \subseteq Nat BY AhciAssumption DEF SizesInv
  <2>3. p \in DOMAIN disk /\ DOMAIN disk[p] \subseteq Int BY <1>5 DEF SizesInv
  <2>4. Move(p, t, Len(t.prdt)) BY <1>8, <1>12
  <2>5. /\ t.command = "read" =>
             /\ buffer' = [k \in DOMAIN buffer |->
                             IF k < c THEN disk[p][FirstOf(request) + k] ELSE buffer[k]]
             /\ disk' = disk
        /\ t.command # "read" =>
             /\ disk' = [disk EXCEPT ![p] = [n \in DOMAIN @ |-> IF n - FirstOf(request) \in 0..c - 1
                                               THEN buffer[n - FirstOf(request)] ELSE @[n]]]
             /\ buffer' = buffer
    <3> DEFINE prdtl == Len(t.prdt)
               first == FirstOf(request)
    <3>1. /\ c \in Nat /\ first \in Nat /\ Size(p, t) = c /\ First(p, t) = first
          /\ Places(t, prdtl) = [m \in 1..c |-> m - 1] /\ Move(p, t, prdtl)
      BY <1>6, <1>9, <2>4
    <3> HIDE DEF prdtl, first, c
    <3>2. QED BY <2>2, <2>3, <3>1, MoveIs DEF first
  <2>6. (t.command = "read") <=> ~request.write BY <1>9
  <2>7. QED BY <1>2, <1>3, <1>5, <1>12, <2>1, <2>5, <2>6
<1>13. CASE stage' = [stage EXCEPT ![p] = "failed"] /\ UNCHANGED <<disk, buffer>>
  BY <1>2, <1>3, <1>5, <1>13
<1>14. QED BY <1>11, <1>12, <1>13

LEMMA OnlyTransfers ==
  ASSUME AhciInv, [Next]_vars
  PROVE  \/ UNCHANGED contents
         \/ request # NoRequest /\ \E p \in Port, s \in Slot : Execute(p, s)
<1> USE DEF AhciInv
<1>1. ASSUME NEW p \in Port, NEW s \in Slot, Execute(p, s), request = NoRequest PROVE UNCHANGED contents
  <2>1. s \in port[p].CI BY <1>1 DEF Execute
  <2>2. pc = "wait" /\ Fetchable(p, s) /\ Table(p, s) = memory[command_table] BY <2>1, FoundFacts
  <2>3. Table(p, s).command = "identify" BY <1>1, <2>2 DEF TableInv, Executing
  <2>4. QED BY <1>1, <2>2, <2>3 DEF Execute, Identify
<1>2. Driver => UNCHANGED contents
  BY DEF Driver, AHCI_init_handoff, AHCI_init_reset, AHCI_init_enable, AHCI_init_register,
    AHCI_init_skip, AHCI_init_port, AHCI_init_identify, AHCI_init_register_device, AHCI_init_return,
    AHCI_execute_command, AHCI_execute_command_issue, AHCI_execute_command_return
<1>3. interrupt_function_ahci \/ ResetDone => UNCHANGED contents BY DEF interrupt_function_ahci, ResetDone
<1>4. \A r \in Requests : AHCI_transfer(r) => UNCHANGED contents BY DEF AHCI_transfer
<1>5. \A p \in Port : LinkUp(p) \/ ReceiveFis(p) => UNCHANGED contents BY DEF LinkUp, ReceiveFis
<1>6. \A p \in Port, s \in Slot : Complete(p, s) => UNCHANGED contents BY DEF Complete
<1>7. UNCHANGED vars => UNCHANGED contents BY DEF vars
<1>8. QED BY <1>1, <1>2, <1>3, <1>4, <1>5, <1>6, <1>7 DEF Next, HbaPort

LEMMA StepSizes ==
  ASSUME AhciInv, AskedInv, SizesInv, OrdinarySectors, [Next]_vars
  PROVE  SizesInv'
<1> USE DEF AhciInv
<1>1. CASE UNCHANGED contents BY <1>1 DEF SizesInv, contents, Disks
<1>2. ASSUME request # NoRequest, NEW p \in Port, NEW s \in Slot, Execute(p, s) PROVE SizesInv'
  <2>1. UNCHANGED devices BY <1>2, ExecutionFacts
  <2>2. /\ DOMAIN buffer' = DOMAIN buffer /\ DOMAIN disk' = DOMAIN disk
        /\ \A q \in DOMAIN disk : DOMAIN disk'[q] = DOMAIN disk[q]
    <3>1. p \in DOMAIN disk BY <1>2, Transfers DEF SizesInv
    <3>2. \/ UNCHANGED <<disk, buffer>>
          \/ /\ buffer' = [k \in DOMAIN buffer |->
                             IF k < request.count THEN disk[p][FirstOf(request) + k] ELSE buffer[k]]
             /\ disk' = disk
          \/ /\ disk' = [disk EXCEPT ![p] =
                           [n \in DOMAIN @ |-> IF n - FirstOf(request) \in 0..request.count - 1
                                                 THEN buffer[n - FirstOf(request)] ELSE @[n]]]
             /\ buffer' = buffer
      BY <1>2, Transfers, Zenon
    <3>3. QED BY <3>1, <3>2, Zenon
  <2>3. QED BY <2>1, <2>2 DEF SizesInv, Disks
<1>3. QED BY <1>1, <1>2, OnlyTransfers

\* Data has moved for the call at hand.
Carried == request # NoRequest /\ pc = "wait" /\
           (stage[request.port] = "moved" \/ command_list_index \notin port[request.port].CI)
StoreNext == Store!Ask \/ Store!CarryOutRead \/ Store!CarryOutWrite \/ Store!Return
Stutter == UNCHANGED Store!storeVars

LEMMA NothingCarried ==
  ASSUME UNCHANGED <<contents, request>>, Carried' <=> Carried
  PROVE  Stutter
<1>1. UNCHANGED <<devices, disk, buffer, request>> BY DEF contents
<1>2. Carried' = Carried BY DEF Carried
<1>3. [p \in DOMAIN devices |-> devices[p].sector]' = [p \in DOMAIN devices |-> devices[p].sector] BY <1>1
<1>4. QED BY <1>1, <1>2, <1>3 DEF Stutter, Store!storeVars, Carried

\* The adapter's steps are steps of the store when they move a call's data.
LEMMA ExecuteCarries ==
  ASSUME AhciInv, AskedInv, SizesInv, OrdinarySectors, NEW p \in Port, NEW s \in Slot, Execute(p, s)
  PROVE  StoreNext \/ Stutter
<1> USE DEF AhciInv
<1>1. /\ s \in port[p].CI
      /\ UNCHANGED <<devices, pc, request, command_list_index, port>>
  BY ExecutionFacts
<1>2. /\ pc = "wait" /\ p = current /\ s = command_list_index /\ stage[p] = "none"
      /\ Fetchable(p, s) /\ Table(p, s) = memory[command_table]
  BY <1>1, FoundFacts DEF Execute
<1>3. CASE request = NoRequest
  <2>1. Table(p, s).command = "identify" BY <1>2, <1>3 DEF TableInv, Executing
  <2>2. UNCHANGED contents BY <1>2, <2>1 DEF Execute, Identify
  <2>3. ~Carried /\ ~Carried' BY <1>1, <1>3 DEF Carried
  <2>4. QED BY <1>1, <2>2, <2>3, NothingCarried
<1>4. CASE request # NoRequest
  <2>1. /\ p = request.port /\ request \in Requests /\ devices[p].sector = 1 /\ p \in Disks(devices)
    BY <1>4, Transfers
  <2>2. ~Carried BY <1>1, <1>2, <2>1 DEF Carried
  <2>3. stage \in [Port -> {"none", "moved", "failed"}] BY DEF TypesInv
  <2> DEFINE first == FirstOf(request)
             c == request.count
             read == [k \in DOMAIN buffer |-> IF k < c THEN disk[p][first + k] ELSE buffer[k]]
             write == [disk EXCEPT ![p] = [n \in DOMAIN @ |->
                         IF n - first \in 0..c - 1 THEN buffer[n - first] ELSE @[n]]]
  <2>4. \/ stage' = [stage EXCEPT ![p] = "failed"] /\ UNCHANGED <<disk, buffer>>
        \/ /\ stage' = [stage EXCEPT ![p] = "moved"]
           /\ ~request.write => buffer' = read /\ disk' = disk
           /\ request.write => disk' = write /\ buffer' = buffer
    BY <1>4, Transfers
  <2>5. CASE stage' = [stage EXCEPT ![p] = "failed"] /\ UNCHANGED <<disk, buffer>>
    <3>1. stage'[p] = "failed" BY <2>3, <2>5
    <3>2. ~Carried' BY <1>1, <1>2, <2>1, <3>1 DEF Carried
    <3>3. QED BY <1>1, <2>2, <2>5, <3>2, NothingCarried DEF contents
  <2>6. CASE /\ stage' = [stage EXCEPT ![p] = "moved"]
             /\ ~request.write => buffer' = read /\ disk' = disk
             /\ request.write => disk' = write /\ buffer' = buffer
    <3>1. stage'[p] = "moved" BY <2>3, <2>6
    <3>2. Carried' BY <1>1, <1>2, <1>4, <2>1, <3>1 DEF Carried
    <3> DEFINE sector == [q \in DOMAIN devices |-> devices[q].sector]
    <3>3. sector[p] = 1 /\ UNCHANGED sector BY <1>1, <2>1 DEF TypesInv
    <3>4. Store!First(request) = FirstOf(request) /\ Store!Size(request) = request.count
      <4>1. FirstOf(request) \in Nat /\ request.count \in Nat BY <2>1, RequestTypes DEF FirstOf
      <4>2. Store!First(request) = first * 1 /\ Store!Size(request) = c * 1
        BY <2>1, <3>3 DEF Store!First, Store!Size, FirstOf
      <4> HIDE DEF first, c
      <4>3. first * 1 = first /\ c * 1 = c BY <4>1 DEF first, c
      <4>4. QED BY <4>2, <4>3 DEF first, c
    <3>5. CASE ~request.write
      <4>1. buffer' = read /\ disk' = disk BY <2>6, <3>5
      <4>2. Store!CarryOutRead
        BY <1>1, <1>4, <2>1, <2>2, <3>2, <3>3, <3>4, <3>5, <4>1 DEF Store!CarryOutRead, Carried
      <4>3. QED BY <4>2 DEF StoreNext
    <3>6. CASE request.write
      <4>1. disk' = write /\ buffer' = buffer BY <2>6, <3>6
      <4>2. Store!CarryOutWrite
        BY <1>1, <1>4, <2>1, <2>2, <3>2, <3>3, <3>4, <3>6, <4>1 DEF Store!CarryOutWrite, Carried
      <4>3. QED BY <4>2 DEF StoreNext
    <3>7. QED BY <3>5, <3>6
  <2>7. QED BY <2>4, <2>5, <2>6
<1>5. QED BY <1>3, <1>4

LEMMA StepStores ==
  ASSUME AhciInv, AskedInv, SizesInv, OrdinarySectors, [Next]_vars
  PROVE  StoreNext \/ Stutter
<1> USE DEF AhciInv
<1>1. ASSUME UNCHANGED <<contents, request>>, ~Carried, ~Carried' PROVE StoreNext \/ Stutter
  BY <1>1, NothingCarried
<1>2. CASE \/ AHCI_init_handoff \/ AHCI_init_reset \/ AHCI_init_enable \/ AHCI_init_register
           \/ AHCI_init_skip \/ AHCI_init_port \/ AHCI_init_identify \/ AHCI_init_register_device
           \/ AHCI_init_return
  <2>1. UNCHANGED <<contents, request>> /\ pc \notin Executing
    BY <1>2 DEF AHCI_init_handoff, AHCI_init_reset, AHCI_init_enable, AHCI_init_register,
      AHCI_init_skip, AHCI_init_port, AHCI_init_identify, AHCI_init_register_device, AHCI_init_return,
      Executing
  <2>2. request = NoRequest BY <2>1 DEF ProbeInv, Place
  <2>3. QED BY <1>1, <2>1, <2>2 DEF Carried
<1>3. CASE AHCI_execute_command
  <2>1. UNCHANGED <<contents, request>> /\ pc # "wait" /\ pc' # "wait" BY <1>3 DEF AHCI_execute_command
  <2>2. QED BY <1>1, <2>1 DEF Carried
<1>4. CASE AHCI_execute_command_issue
  <2>1. UNCHANGED <<contents, request, stage, command_list_index>> /\ pc = "issue"
    BY <1>4 DEF AHCI_execute_command_issue
  <2>2. ASSUME request # NoRequest PROVE ~Carried'
    <3>1. current \in Port /\ current = request.port
      BY <2>1, <2>2, CurrentPort DEF current, Executing
    <3>2. stage[request.port] # "moved" BY <2>1, <3>1 DEF IssuedInv
    <3>3. command_list_index \in port'[request.port].CI BY <1>4, <3>1, IssueFacts DEF Becomes
    <3>4. QED BY <2>1, <3>2, <3>3 DEF Carried
  <2>3. ~Carried /\ ~Carried' BY <2>1, <2>2 DEF Carried
  <2>4. QED BY <1>1, <2>1, <2>3
<1>5. CASE AHCI_execute_command_return
  <2>1. /\ UNCHANGED contents /\ pc = "wait" /\ command_list_index \notin port[current].CI
        /\ request' = NoRequest
    BY <1>5 DEF AHCI_execute_command_return
  <2>2. ~Carried' BY <2>1 DEF Carried
  <2>3. CASE request = NoRequest BY <1>1, <2>1, <2>2, <2>3 DEF Carried
  <2>4. CASE request # NoRequest
    <3>1. Carried BY <2>1, <2>4 DEF Carried, current
    <3> DEFINE sector == [q \in DOMAIN devices |-> devices[q].sector]
    <3>2. UNCHANGED <<sector, disk, buffer>> BY <2>1 DEF contents
    <3>3. Store!Return BY <2>1, <2>2, <2>4, <3>1, <3>2 DEF Store!Return, Carried
    <3>4. QED BY <3>3 DEF StoreNext
  <2>5. QED BY <2>3, <2>4
<1>6. CASE interrupt_function_ahci
  <2>1. /\ UNCHANGED <<contents, request, pc, stage, command_list_index>>
        /\ \A p \in Port : port'[p].CI = port[p].CI
    BY <1>6, HandlerFacts DEF interrupt_function_ahci, driver, PortsKept, Becomes
  <2>2. request # NoRequest => request.port \in Port BY RequestTypes DEF TypesInv
  <2>3. Carried' <=> Carried BY <2>1, <2>2 DEF Carried
  <2>4. QED BY <2>1, <2>3, NothingCarried
<1>7. CASE ResetDone
  <2>1. UNCHANGED <<contents, request>> /\ request = NoRequest
    BY <1>7, ResetDoneFacts DEF ResetDone, driver
  <2>2. QED BY <1>1, <2>1 DEF Carried
<1>8. ASSUME NEW r \in Requests, AHCI_transfer(r) PROVE StoreNext \/ Stutter
  <2>1. request = NoRequest BY <1>8 DEF AHCI_transfer, ProbeInv, Place, Executing
  <2>2. UNCHANGED contents /\ request' = r /\ pc' = "execute" BY <1>8 DEF AHCI_transfer
  <2>3. ~Carried' BY <2>2 DEF Carried
  <2> DEFINE sector == [q \in DOMAIN devices |-> devices[q].sector]
  <2>4. UNCHANGED <<sector, disk, buffer>> BY <2>2 DEF contents
  <2>5. Store!Ask BY <2>1, <2>2, <2>3, <2>4 DEF Store!Ask, Carried
  <2>6. QED BY <2>5 DEF StoreNext
<1>9. ASSUME NEW p \in Port, LinkUp(p) \/ ReceiveFis(p) PROVE StoreNext \/ Stutter
  <2>1. UNCHANGED <<contents, request, pc, stage, command_list_index>>
    BY <1>9 DEF LinkUp, ReceiveFis, driver
  <2>2. \A q \in Port : port'[q].CI = port[q].CI
    BY <1>9, LinkUpFacts, HandlerFacts DEF PortsKept, Becomes
  <2>3. request # NoRequest => request.port \in Port BY RequestTypes DEF TypesInv
  <2>4. Carried' <=> Carried BY <2>1, <2>2, <2>3 DEF Carried
  <2>5. QED BY <2>1, <2>4, NothingCarried
<1>10. ASSUME NEW p \in Port, NEW s \in Slot, Execute(p, s) PROVE StoreNext \/ Stutter
  BY <1>10, ExecuteCarries
<1>11. ASSUME NEW p \in Port, NEW s \in Slot, Complete(p, s) PROVE StoreNext \/ Stutter
  <2>1. /\ s \in port[p].CI /\ stage[p] = "moved"
        /\ UNCHANGED <<contents, request, pc, command_list_index>>
    BY <1>11 DEF Complete, driver
  <2>2. pc = "wait" /\ p = current /\ s = command_list_index BY <2>1, FoundFacts
  <2>3. CASE request = NoRequest BY <1>1, <2>1, <2>3 DEF Carried
  <2>4. CASE request # NoRequest
    <3>1. p = request.port BY <2>2, <2>4 DEF current
    <3>2. s \notin port'[p].CI BY <1>11, CompleteFacts DEF Becomes
    <3>3. Carried /\ Carried' BY <2>1, <2>2, <2>4, <3>1, <3>2 DEF Carried
    <3>4. QED BY <2>1, <3>3, NothingCarried
  <2>5. QED BY <2>3, <2>4
<1>12. CASE UNCHANGED vars
  <2>1. UNCHANGED <<contents, request>> /\ (Carried' <=> Carried)
    BY <1>12 DEF vars, driver, hba, Carried
  <2>2. QED BY <2>1, NothingCarried
<1>13. QED
  BY <1>2, <1>3, <1>4, <1>5, <1>6, <1>7, <1>8, <1>9, <1>10, <1>11, <1>12 DEF Next, Driver, HbaPort

LEMMA TransfersHold == ASSUME FirmwareLeavesZero, OrdinarySectors PROVE Spec => [](AskedInv /\ SizesInv)
<1>1. Init => AskedInv /\ SizesInv
  <2>1. Init => AskedInv BY DEF Init, AskedInv
  <2>2. Init => SizesInv BY DEF Init, SizesInv
  <2>3. QED BY <2>1, <2>2
<1>2. AhciInv /\ AskedInv /\ SizesInv /\ [Next]_vars => (AskedInv /\ SizesInv)' BY StepAsked, StepSizes
<1>3. QED BY <1>1, <1>2, AhciHolds, PTL DEF Spec

\* AHCI_read and AHCI_write implement the store: a call moves the sectors it
\* names, all of them, in their order and nothing else, before it returns.
\* It is one step of the store, when the disk moves the data; what the
\* driver, the adapter and the handler do before and after it is none.
THEOREM MovesTheSectors == ASSUME FirmwareLeavesZero, OrdinarySectors PROVE Spec => ImplementsStore
<1>1. Init => request = NoRequest /\ Carried = FALSE BY DEF Init, Carried
<1>2. AhciInv /\ AskedInv /\ SizesInv /\ [Next]_vars => [StoreNext]_(Store!storeVars)
  BY StepStores DEF Stutter
<1>3. QED BY <1>1, <1>2, AhciHolds, TransfersHold, PTL DEF Spec, ImplementsStore, Store!StoreSpec, StoreNext, Carried

-----------------------------------------------------------------------------
(* What units hold.                                                         *)

\* Callers pass a buffer with room for what they ask for.
BuffersSuffice == \A r \in Requests : r.count <= Room

\* What is in a unit was once in one.
UnitsInv == /\ buffer \in [0..Room - 1 -> Units]
            /\ \A p \in Disks(devices) : disk[p] \in [0..devices[p].sector * devices[p].sectors - 1 -> Units]

LEMMA InitUnits == Init => UnitsInv
<1> SUFFICES ASSUME Init PROVE UnitsInv OBVIOUS
<1>1. devices \in [Port -> Devices] /\ NP \in Nat /\ Room \in Nat BY AhciAssumption DEF Init
<1>2. buffer \in [0..Room - 1 -> Units] BY <1>1 DEF Init, Units
<1>3. ASSUME NEW p \in Disks(devices)
      PROVE  disk[p] \in [0..devices[p].sector * devices[p].sectors - 1 -> Units]
  <2> DEFINE last == devices[p].sector * devices[p].sectors - 1
  <2>1. disk[p] = [n \in 0..last |-> <<p, n>>] BY <1>3 DEF Init
  <2>2. p \in 0..NP BY <1>1, <1>3 DEF Disks, Port
  <2>3. devices[p].sector \in Nat /\ devices[p].sectors \in Nat BY <1>1, <1>3 DEF Disks, Devices
  <2>4. last \in Int BY <2>3
  <2> HIDE DEF last
  <2>5. \A n \in 0..last : <<p, n>> \in Units BY <2>2, <2>4 DEF Units
  <2>6. QED BY <2>1, <2>5 DEF last
<1>4. QED BY <1>2, <1>3 DEF UnitsInv

LEMMA StepUnits ==
  ASSUME AhciInv, AskedInv, SizesInv, OrdinarySectors, BuffersSuffice, UnitsInv, [Next]_vars
  PROVE  UnitsInv'
<1> USE DEF AhciInv
<1>1. CASE UNCHANGED contents BY <1>1 DEF UnitsInv, contents, Disks
<1>2. ASSUME request # NoRequest, NEW p \in Port, NEW s \in Slot, Execute(p, s) PROVE UnitsInv'
  <2>1. UNCHANGED devices BY <1>2, ExecutionFacts
  <2>2. p \in Disks(devices) /\ devices[p].sector = 1 /\ request \in Requests /\ devices[p] \in Devices
    BY <1>2, Transfers DEF TypesInv
  <2> DEFINE first == FirstOf(request)
             c == request.count
             sectors == devices[p].sectors
             read == [k \in DOMAIN buffer |-> IF k < c THEN disk[p][first + k] ELSE buffer[k]]
             write == [disk EXCEPT ![p] = [n \in DOMAIN @ |->
                         IF n - first \in 0..c - 1 THEN buffer[n - first] ELSE @[n]]]
  <2>3. \/ UNCHANGED <<disk, buffer>>
        \/ /\ first + c <= sectors
           /\ ~request.write => buffer' = read /\ disk' = disk
           /\ request.write => disk' = write /\ buffer' = buffer
    BY <1>2, Transfers
  <2>4. first \in Nat /\ c \in Nat /\ c <= Room /\ Room \in Nat /\ sectors \in Nat
    BY <2>2, RequestTypes, AhciAssumption DEF FirstOf, BuffersSuffice, Devices
  <2>5. buffer \in [0..Room - 1 -> Units] /\ disk[p] \in [0..sectors - 1 -> Units]
    <3>1. devices[p].sector * sectors = sectors BY <2>2, <2>4
    <3>2. QED BY <2>2, <3>1 DEF UnitsInv
  <2>6. CASE UNCHANGED <<disk, buffer>> BY <2>1, <2>6 DEF UnitsInv, Disks
  <2> HIDE DEF first, c, sectors
  <2>7. CASE first + c <= sectors /\ buffer' = read /\ disk' = disk
    <3>1. \A k \in 0..Room - 1 : k < c => first + k \in 0..sectors - 1 BY <2>4, <2>7
    <3>2. buffer' \in [0..Room - 1 -> Units] BY <2>5, <2>7, <3>1
    <3>3. QED BY <2>1, <2>7, <3>2 DEF UnitsInv, Disks
  <2>8. CASE disk' = write /\ buffer' = buffer
    <3> DEFINE content == [n \in 0..sectors - 1 |->
                             IF n - first \in 0..c - 1 THEN buffer[n - first] ELSE disk[p][n]]
    <3>1. \A n \in 0..sectors - 1 : n - first \in 0..c - 1 => n - first \in 0..Room - 1 BY <2>4
    <3>2. content \in [0..sectors - 1 -> Units] BY <2>5, <3>1
    <3>3. disk' = [disk EXCEPT ![p] = content] BY <2>5, <2>8
    <3> HIDE DEF content
    <3>4. p \in DOMAIN disk BY <2>2 DEF SizesInv
    <3>5. disk'[p] = content /\ \A q \in DOMAIN disk : q # p => disk'[q] = disk[q] BY <3>3, <3>4
    <3>6. ASSUME NEW q \in Disks(devices)
          PROVE  disk'[q] \in [0..devices[q].sector * devices[q].sectors - 1 -> Units]
      <4>1. CASE q = p
        <5>1. devices[p].sector * sectors = sectors BY <2>2, <2>4
        <5>2. QED BY <3>2, <3>5, <4>1, <5>1 DEF sectors
      <4>2. CASE q # p BY <3>5, <3>6, <4>2 DEF UnitsInv, SizesInv
      <4>3. QED BY <4>1, <4>2
    <3>7. QED BY <2>1, <2>8, <3>6 DEF UnitsInv, Disks
  <2>9. QED BY <2>3, <2>6, <2>7, <2>8, <2>2, RequestTypes
<1>3. QED BY <1>1, <1>2, OnlyTransfers

\* Whatever moves comes from a unit of a disk or of the buffer, and every
\* other variable of the driver and the adapter has its type, with callers
\* whose buffers have room for what they ask for.
THEOREM AhciTypesHold ==
  ASSUME FirmwareLeavesZero, OrdinarySectors, BuffersSuffice
  PROVE  Spec => []TypeOK
<1>1. AhciInv /\ AskedInv /\ SizesInv /\ UnitsInv /\ [Next]_vars => UnitsInv' BY StepUnits
<1>2. AhciInv /\ SizesInv /\ UnitsInv => TypeOK BY DEF AhciInv, TypesInv, SizesInv, UnitsInv, TypeOK
<1>3. QED BY <1>1, <1>2, InitUnits, AhciHolds, TransfersHold, PTL DEF Spec
=============================================================================
