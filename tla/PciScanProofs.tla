--------------------------- MODULE PciScanProofs ---------------------------
(***************************************************************************)
(* For any configuration spaces, whatever answers in them: each walk comes *)
(* to all functions there are, in their order, and to each once.           *)
(*                                                                         *)
(* The inductive invariant says, for each walk, that what it has noted is  *)
(* what it has passed (Passed): all of the functions that come before the  *)
(* position it is at, as far as it looks at them, and all there are once   *)
(* it has ended.                                                           *)
(***************************************************************************)
EXTENDS PciScan, FiniteSetTheorems, SequenceTheorems, TLAPS

\* The order of the walks.
Before(p, q) == \/ p.bus < q.bus
                \/ p.bus = q.bus /\ p.device < q.device
                \/ p.bus = q.bus /\ p.device = q.device /\ p.function < q.function

\* The positions that are looked at.
Multi(b, d) == space.class[Here(b, d, 0)] # Absent /\ space.multi[[bus |-> b, device |-> d]]
Walked == {p \in Positions : p.function = 0 \/ Multi(p.bus, p.device)}

Passes == {"stub", "count", "fill", "list", "find", "done"}
Later(walk) == CASE walk = "stub"  -> {"count", "fill", "list", "find", "done"}
                 [] walk = "count" -> {"fill", "list", "find", "done"}
                 [] walk = "fill"  -> {"list", "find", "done"}
                 [] walk = "find"  -> {"done"}

\* The functions a walk has come past.
Passed(walk) == IF pass = walk THEN {p \in Present : Before(p, at)}
                ELSE IF pass \in Later(walk) THEN Present ELSE {}
PassedOf(walk, class) == {p \in Passed(walk) : space.class[p] = class}

PlaceInv == /\ space \in Spaces /\ pass \in Passes /\ at \in Walked
            /\ pass \in {"list", "done"} => at = Origin

ResetsInv == /\ resets \in Seq(Positions) /\ InOrder(resets)
             /\ ToSet(resets) = PassedOf("stub", EHCI)
             /\ found = LastOf(PassedOf("stub", EHCI), Origin) /\ found \in Positions

CountInv == IsFiniteSet(Passed("count")) /\ tokens_count = Cardinality(Passed("count"))

TokensInv == /\ tokens \in Seq(Positions) /\ InOrder(tokens)
             /\ ToSet(tokens) = Passed("fill")
             /\ IsFiniteSet(Passed("fill")) /\ Len(tokens) = Cardinality(Passed("fill"))

ListInv == /\ n \in Nat \ {0} /\ n <= tokens_count + 1
           /\ ethernet \subseteq Positions

TokenInv == token = LastOf(PassedOf("find", AHCI), Origin) /\ token \in Positions

ScanInv == PlaceInv /\ ResetsInv /\ CountInv /\ TokensInv /\ ListInv /\ TokenInv

-----------------------------------------------------------------------------
(* Positions and their order.                                               *)

LEMMA Limits ==
  /\ MaxBus \in Nat /\ MaxBus <= 255 /\ MaxDevice \in Nat /\ MaxDevice <= 31
  /\ MaxFunction \in Nat /\ MaxFunction <= 7
BY PciAssumption

LEMMA PositionFields ==
  ASSUME NEW p \in Positions
  PROVE  /\ p.bus \in Nat /\ p.bus <= MaxBus /\ p.device \in Nat /\ p.device <= MaxDevice
         /\ p.function \in Nat /\ p.function <= MaxFunction
         /\ p = Here(p.bus, p.device, p.function)
BY Limits DEF Positions, Here

LEMMA HereIsPosition ==
  ASSUME NEW b \in 0..MaxBus, NEW d \in 0..MaxDevice, NEW f \in 0..MaxFunction
  PROVE  /\ Here(b, d, f) \in Positions
         /\ Here(b, d, f).bus = b /\ Here(b, d, f).device = d /\ Here(b, d, f).function = f
BY DEF Here, Positions

LEMMA Digits ==
  ASSUME NEW m \in Nat, NEW a \in Nat, NEW b \in Nat, NEW r \in Nat, NEW s \in Nat,
         r <= m, \/ a < b
                 \/ a = b /\ r < s
  PROVE  a * (m + 1) + r < b * (m + 1) + s
<1>1. CASE a < b
  <2>1. (a + 1) * (m + 1) <= b * (m + 1)
    <3>1. a + 1 <= b BY <1>1
    <3>2. PICK k \in Nat : b = a + 1 + k
      <4>1. b - (a + 1) \in Nat /\ b = a + 1 + (b - (a + 1)) BY <3>1
      <4>2. QED BY <4>1
    <3>3. k * (m + 1) \in Nat OBVIOUS
    <3>4. b * (m + 1) = (a + 1) * (m + 1) + k * (m + 1) BY <3>2
    <3>5. (a + 1) * (m + 1) \in Nat OBVIOUS
    <3>6. QED BY <3>3, <3>4, <3>5
  <2>2. (a + 1) * (m + 1) = a * (m + 1) + m + 1 OBVIOUS
  <2>3. a * (m + 1) \in Nat /\ b * (m + 1) \in Nat OBVIOUS
  <2>4. QED BY <2>1, <2>2, <2>3
<1>2. CASE a = b /\ r < s
  <2>1. a * (m + 1) \in Nat OBVIOUS
  <2>2. QED BY <1>2, <2>1
<1>3. QED BY <1>1, <1>2

\* The numbers of InOrder and LastOf have the order of the walks.
LEMMA NumberOrder ==
  ASSUME NEW p \in Positions, NEW q \in Positions
  PROVE  Number(p) \in Nat /\ (Before(p, q) => Number(p) < Number(q))
<1>1. /\ p.bus \in Nat /\ p.device \in Nat /\ p.device <= MaxDevice
      /\ p.function \in Nat /\ p.function <= MaxFunction
      /\ q.bus \in Nat /\ q.device \in Nat /\ q.device <= MaxDevice
      /\ q.function \in Nat /\ q.function <= MaxFunction
  BY PositionFields
<1>2. MaxDevice \in Nat /\ MaxFunction \in Nat BY Limits
<1> DEFINE a == p.bus * (MaxDevice + 1) + p.device
           b == q.bus * (MaxDevice + 1) + q.device
<1>3. a \in Nat /\ b \in Nat BY <1>1, <1>2
<1>4. Number(p) = a * (MaxFunction + 1) + p.function /\ Number(q) = b * (MaxFunction + 1) + q.function
  BY DEF Number
<1>5. \/ p.bus < q.bus
      \/ p.bus = q.bus /\ p.device < q.device
      => a < b
  BY <1>1, <1>2, Digits
<1>6. p.bus = q.bus /\ p.device = q.device => a = b OBVIOUS
<1> HIDE DEF a, b
<1>7. Number(p) \in Nat BY <1>1, <1>2, <1>3, <1>4
<1>8. ASSUME Before(p, q) PROVE Number(p) < Number(q)
  <2>1. a < b \/ (a = b /\ p.function < q.function) BY <1>5, <1>6, <1>8 DEF Before
  <2>2. QED BY <1>1, <1>2, <1>3, <1>4, <2>1, Digits
<1>9. QED BY <1>7, <1>8

LEMMA OriginFirst ==
  /\ Origin \in Positions /\ Origin.function = 0
  /\ \A p \in Positions : ~Before(p, Origin)
<1>1. 0 \in 0..MaxBus /\ 0 \in 0..MaxDevice /\ 0 \in 0..MaxFunction BY Limits
<1>2. Origin \in Positions /\ Origin.bus = 0 /\ Origin.device = 0 /\ Origin.function = 0
  BY <1>1, HereIsPosition DEF Origin
<1>3. QED BY <1>2, PositionFields DEF Before

\* Positions are as many as can be counted.
LEMMA PositionsFinite == IsFiniteSet(Positions)
<1> DEFINE A == 0..MaxBus
           B == 0..MaxDevice
           C == 0..MaxFunction
           f == [t \in (A \X B) \X C |-> Here(t[1][1], t[1][2], t[2])]
<1>1. IsFiniteSet(A) /\ IsFiniteSet(B) /\ IsFiniteSet(C) BY Limits, FS_Interval
<1>2. IsFiniteSet(A \X B) BY <1>1, FS_Product
<1>3. IsFiniteSet((A \X B) \X C) BY <1>1, <1>2, FS_Product
<1>4. \A t \in (A \X B) \X C : Here(t[1][1], t[1][2], t[2]) \in Positions
  <2>1. \A t \in (A \X B) \X C : t[1] \in A \X B /\ t[1][1] \in A /\ t[1][2] \in B /\ t[2] \in C OBVIOUS
  <2>2. QED BY <2>1, HereIsPosition
<1>5. \A p \in Positions : \E t \in (A \X B) \X C : f[t] = p
  <2> SUFFICES ASSUME NEW p \in Positions PROVE \E t \in (A \X B) \X C : f[t] = p OBVIOUS
  <2>1. p.bus \in A /\ p.device \in B /\ p.function \in C BY DEF Positions
  <2> DEFINE t == <<<<p.bus, p.device>>, p.function>>
  <2>2. t \in (A \X B) \X C BY <2>1
  <2>3. f[t] = Here(p.bus, p.device, p.function) BY <2>2
  <2>4. QED BY <2>2, <2>3, PositionFields
<1>6. f \in Surjection((A \X B) \X C, Positions) BY <1>4, <1>5 DEF Surjection
<1> HIDE DEF f, A, B, C
<1>7. QED BY <1>3, <1>6, FS_Surjection

-----------------------------------------------------------------------------
(* What is read from the configuration space.                               *)

\* The address that is put together is taken apart into the same position.
LEMMA AddressSelects ==
  ASSUME NEW p \in Positions, NEW offset \in {0, 8, 12}
  PROVE  Selected(config_address(p.bus, p.device, p.function, offset)) = p
<1>1. /\ p.bus \in Nat /\ p.bus <= 255 /\ p.device \in Nat /\ p.device <= 31
      /\ p.function \in Nat /\ p.function <= 7 /\ p = Here(p.bus, p.device, p.function)
  BY PositionFields, Limits
<1> DEFINE b == p.bus
           d == p.device
           f == p.function
           address == b * 65536 + d * 2048 + f * 256 + offset
<1>2. offset \in Nat /\ offset < 256 OBVIOUS
<1>3. b \in Nat /\ b <= 255 /\ d \in Nat /\ d <= 31 /\ f \in Nat /\ f <= 7 BY <1>1
<1> HIDE DEF b, d, f
<1>4. address \div 65536 = b BY <1>2, <1>3
<1>5. address \div 2048 = b * 32 + d BY <1>2, <1>3
<1>6. address \div 256 = (b * 32 + d) * 8 + f BY <1>2, <1>3
<1>7. b % 256 = b /\ ((b * 32 + d) % 32) = d /\ (((b * 32 + d) * 8 + f) % 8) = f BY <1>3
<1>8. Selected(address) = Here(b, d, f) BY <1>4, <1>5, <1>6, <1>7 DEF Selected
<1>9. config_address(p.bus, p.device, p.function, offset) = address BY DEF config_address, b, d, f
<1>10. QED BY <1>1, <1>8, <1>9 DEF b, d, f

LEMMA ReadsItsOwn ==
  ASSUME NEW p \in Positions, NEW offset \in {0, 8, 12}
  PROVE  read_config_data(p, offset) = Dword(p, offset) /\ write_config_data(p, offset) = p
BY AddressSelects DEF read_config_data, write_config_data

LEMMA SpaceTypes ==
  ASSUME PlaceInv, NEW p \in Positions
  PROVE  /\ space.class[p] \in Classes \cup {Absent}
         /\ space.multi[[bus |-> p.bus, device |-> p.device]] \in BOOLEAN
         /\ Here(p.bus, p.device, 0) \in Positions
<1>1. space \in Spaces BY DEF PlaceInv
<1>2. /\ space.class \in [Positions -> Classes \cup {Absent}]
      /\ space.multi \in [[bus : 0..MaxBus, device : 0..MaxDevice] -> BOOLEAN]
  BY <1>1, PciAssumption
<1>3. p.bus \in 0..MaxBus /\ p.device \in 0..MaxDevice BY DEF Positions
<1>4. 0 \in 0..MaxFunction BY Limits
<1>5. QED BY <1>2, <1>3, <1>4, HereIsPosition

LEMMA ClassFields ==
  ASSUME NEW c \in Classes
  PROVE  /\ c.code \in Nat /\ c.code <= 127 /\ c.sub \in Nat /\ c.sub <= 255
         /\ c.progIF \in Nat /\ c.progIF <= 255 /\ c = Class(c.code, c.sub, c.progIF)
<1>1. c \in [code : 0..127, sub : 0..255, progIF : 0..255] BY PciAssumption
<1>2. c = Class(c.code, c.sub, c.progIF) BY <1>1 DEF Class
<1>3. QED BY <1>1, <1>2

\* What the walks ask of a position.
Responds(p) == get_PCI_vendorID(p) # 65535
SaysMulti(p) == get_PCI_header_type(p) \div 128 = 1

LEMMA RespondsIfThere == ASSUME PlaceInv, NEW p \in Positions PROVE Responds(p) <=> space.class[p] # Absent
<1>1. read_config_data(p, 0) = Dword(p, 0) BY ReadsItsOwn
<1>2. CASE space.class[p] = Absent
  <2>1. get_PCI_vendorID(p) = Ones % 65536 BY <1>1, <1>2 DEF get_PCI_vendorID, Dword
  <2>2. Ones % 65536 = 65535 BY DEF Ones
  <2>3. QED BY <1>2, <2>1, <2>2 DEF Responds
<1>3. CASE space.class[p] # Absent
  <2>1. get_PCI_vendorID(p) = 32902 BY <1>1, <1>3 DEF get_PCI_vendorID, Dword
  <2>2. QED BY <1>3, <2>1 DEF Responds
<1>4. QED BY <1>2, <1>3

LEMMA ClassRead ==
  ASSUME PlaceInv, NEW p \in Positions, space.class[p] # Absent
  PROVE  get_PCI_class(p) = space.class[p]
<1>1. read_config_data(p, 8) = Dword(p, 8) BY ReadsItsOwn
<1> DEFINE c == space.class[p]
<1>2. c \in Classes BY SpaceTypes
<1>3. Dword(p, 8) = c.code * 16777216 + c.sub * 65536 + c.progIF * 256 BY DEF Dword
<1> HIDE DEF c
<1> DEFINE x == c.code
           y == c.sub
           z == c.progIF
           dword == x * 16777216 + y * 65536 + z * 256
<1>4. x \in Nat /\ x <= 127 /\ y \in Nat /\ y <= 255 /\ z \in Nat /\ z <= 255 BY <1>2, ClassFields
<1>5. c = Class(x, y, z) BY <1>2, ClassFields
<1>6. get_PCI_class(p) = Class((dword \div 16777216) % 256, (dword \div 65536) % 256, (dword \div 256) % 256)
  BY <1>1, <1>3 DEF get_PCI_class
<1> HIDE DEF x, y, z
<1>7. dword \div 16777216 = x BY <1>4
<1>8. dword \div 65536 = x * 256 + y BY <1>4
<1>9. dword \div 256 = (x * 256 + y) * 256 + z BY <1>4
<1>10. (x % 256) = x /\ ((x * 256 + y) % 256) = y /\ (((x * 256 + y) * 256 + z) % 256) = z BY <1>4
<1> HIDE DEF dword
<1>11. get_PCI_class(p) = Class(x, y, z) BY <1>6, <1>7, <1>8, <1>9, <1>10
<1>12. QED BY <1>5, <1>11 DEF c

\* The multifunction bit is in the header type of each of a device's functions.
LEMMA SaysMultiIfSo ==
  ASSUME PlaceInv, NEW p \in Positions, space.class[p] # Absent
  PROVE  SaysMulti(p) <=> space.multi[[bus |-> p.bus, device |-> p.device]]
<1>1. read_config_data(p, 12) = Dword(p, 12) BY ReadsItsOwn
<1> DEFINE m == space.multi[[bus |-> p.bus, device |-> p.device]]
<1>2. Dword(p, 12) = IF m THEN 128 * 65536 ELSE 0 BY DEF Dword
<1>3. get_PCI_header_type(p) = (Dword(p, 12) \div 65536) % 256 BY <1>1 DEF get_PCI_header_type
<1> HIDE DEF m
<1>4. CASE m
  <2>1. Dword(p, 12) = 128 * 65536 BY <1>2, <1>4
  <2>2. get_PCI_header_type(p) = 128 BY <1>3, <2>1
  <2>3. SaysMulti(p) BY <2>2 DEF SaysMulti
  <2>4. QED BY <1>4, <2>3 DEF m
<1>5. CASE ~m
  <2>1. Dword(p, 12) = 0 BY <1>2, <1>5
  <2>2. get_PCI_header_type(p) = 0 BY <1>3, <2>1
  <2>3. ~SaysMulti(p) BY <2>2 DEF SaysMulti
  <2>4. QED BY <1>5, <2>3 DEF m
<1>6. QED BY <1>4, <1>5

-----------------------------------------------------------------------------
(* A step of a walk.                                                        *)

LEMMA PresentIsWalked == Present \subseteq Walked /\ Walked \subseteq Positions
<1>1. Walked \subseteq Positions BY DEF Walked
<1>2. ASSUME NEW p \in Present PROVE p \in Walked
  <2>1. p \in Positions /\ p.function \in Nat BY PositionFields DEF Present
  <2>2. CASE p.function = 0 BY <2>1, <2>2 DEF Walked
  <2>3. CASE p.function > 0
    <3>1. Multi(p.bus, p.device) BY <2>3 DEF Present, Multi
    <3>2. QED BY <2>1, <3>1 DEF Walked
  <2>4. QED BY <2>1, <2>2, <2>3
<1>3. QED BY <1>1, <1>2

\* What is looked at and responds is a function that is there.
LEMMA AnswersIfPresent ==
  ASSUME PlaceInv
  PROVE  /\ at \in Positions
         /\ Answers <=> at \in Present
         /\ at \in Present => get_PCI_class(at) = space.class[at]
<1>1. at \in Walked /\ at \in Positions BY PresentIsWalked DEF PlaceInv
<1>2. Answers <=> space.class[at] # Absent
  <2>1. Answers <=> Responds(at) BY DEF Answers, Responds
  <2>2. QED BY <1>1, <2>1, RespondsIfThere
<1>3. at.function \in Nat BY <1>1, PositionFields
<1>4. space.class[at] # Absent => at \in Present
  <2>1. CASE at.function = 0 BY <1>1, <2>1 DEF Present
  <2>2. CASE at.function # 0
    <3>1. Multi(at.bus, at.device) BY <1>1, <2>2 DEF Walked
    <3>2. QED BY <1>1, <3>1 DEF Present, Multi
  <2>3. QED BY <2>1, <2>2
<1>5. at \in Present => space.class[at] # Absent BY DEF Present
<1>6. QED BY <1>1, <1>2, <1>4, <1>5, ClassRead

LEMMA MoreIfMulti ==
  ASSUME PlaceInv
  PROVE  MoreFunctions <=> at.function < MaxFunction /\ Multi(at.bus, at.device)
<1>1. at \in Walked /\ at \in Positions BY PresentIsWalked DEF PlaceInv
<1>2. at.function \in Nat /\ at = Here(at.bus, at.device, at.function) BY <1>1, PositionFields
<1>3. MoreFunctions <=> at.function < MaxFunction /\ (at.function > 0 \/ (Responds(at) /\ SaysMulti(at)))
  BY DEF MoreFunctions, Answers, Responds, SaysMulti
<1>4. CASE at.function = 0
  <2>1. Responds(at) /\ SaysMulti(at) <=> Multi(at.bus, at.device)
    BY <1>1, <1>2, <1>4, RespondsIfThere, SaysMultiIfSo DEF Multi
  <2>2. QED BY <1>3, <1>4, <2>1
<1>5. CASE at.function > 0
  <2>1. Multi(at.bus, at.device) BY <1>1, <1>5 DEF Walked
  <2>2. QED BY <1>3, <1>5, <2>1
<1>6. QED BY <1>2, <1>4, <1>5

LEMMA SamePosition ==
  ASSUME NEW p \in Positions, NEW q \in Positions,
         p.bus = q.bus, p.device = q.device, p.function = q.function
  PROVE  p = q
BY PositionFields

\* The next position is the first behind this one that is looked at.
LEMMA WalkStep ==
  ASSUME PlaceInv, NEW next, Advance(next)
  PROVE  /\ at' \in Walked
         /\ \/ pass' = pass /\ \A p \in Walked : Before(p, at') <=> (Before(p, at) \/ p = at)
            \/ pass' = next /\ at' = Origin /\ \A p \in Walked : Before(p, at) \/ p = at
<1> DEFINE b == at.bus
           d == at.device
           f == at.function
<1>1. at \in Walked /\ at \in Positions BY PresentIsWalked DEF PlaceInv
<1>2. /\ b \in Nat /\ b <= MaxBus /\ d \in Nat /\ d <= MaxDevice /\ f \in Nat /\ f <= MaxFunction
      /\ at = Here(b, d, f)
  BY <1>1, PositionFields
<1>3. MaxBus \in Nat /\ MaxDevice \in Nat /\ MaxFunction \in Nat BY Limits
<1>4. \A p \in Walked : /\ p \in Positions
                        /\ p.bus \in Nat /\ p.bus <= MaxBus /\ p.device \in Nat /\ p.device <= MaxDevice
                        /\ p.function \in Nat /\ p.function <= MaxFunction
  BY PresentIsWalked, PositionFields
<1>5. \A p \in Walked : Before(p, at) <=> \/ p.bus < b
                                          \/ p.bus = b /\ p.device < d
                                          \/ p.bus = b /\ p.device = d /\ p.function < f
  BY DEF Before
<1>6. \A p \in Walked : p = at <=> p.bus = b /\ p.device = d /\ p.function = f
  BY <1>1, <1>4, SamePosition
<1>7. MoreFunctions <=> f < MaxFunction /\ Multi(b, d) BY MoreIfMulti
<1>8. ~MoreFunctions => \A p \in Walked : p.bus = b /\ p.device = d => p.function <= f
  <2> SUFFICES ASSUME ~MoreFunctions, NEW p \in Walked, p.bus = b, p.device = d, p.function > f
               PROVE  FALSE
    BY <1>2, <1>4
  <2>1. p.function # 0 BY <1>2, <1>4
  <2>2. Multi(b, d) BY <2>1 DEF Walked
  <2>3. ~(f < MaxFunction) BY <1>7, <2>2
  <2>4. QED BY <1>2, <1>3, <1>4, <2>3
<1>9. CASE MoreFunctions /\ at' = [at EXCEPT !.function = @ + 1] /\ UNCHANGED pass
  <2>1. at' = Here(b, d, f + 1) BY <1>2, <1>9 DEF Here
  <2>2. b \in 0..MaxBus /\ d \in 0..MaxDevice /\ f + 1 \in 0..MaxFunction BY <1>2, <1>3, <1>7, <1>9
  <2>3. at' \in Positions /\ at'.bus = b /\ at'.device = d /\ at'.function = f + 1
    BY <2>1, <2>2, HereIsPosition
  <2>4. at' \in Walked BY <1>7, <1>9, <2>3 DEF Walked
  <2>5. \A p \in Walked : Before(p, at') <=> \/ p.bus < b
                                             \/ p.bus = b /\ p.device < d
                                             \/ p.bus = b /\ p.device = d /\ p.function < f + 1
    BY <2>3 DEF Before
  <2> HIDE DEF b, d, f
  <2>6. \A p \in Walked : Before(p, at') <=> (Before(p, at) \/ p = at) BY <1>2, <1>4, <1>5, <1>6, <2>5
  <2>7. QED BY <1>9, <2>4, <2>6
<1>10. CASE ~MoreFunctions /\ d < MaxDevice /\ at' = Here(b, d + 1, 0) /\ UNCHANGED pass
  <2>1. b \in 0..MaxBus /\ d + 1 \in 0..MaxDevice /\ 0 \in 0..MaxFunction BY <1>2, <1>3, <1>10
  <2>2. at' \in Positions /\ at'.bus = b /\ at'.device = d + 1 /\ at'.function = 0
    BY <1>10, <2>1, HereIsPosition
  <2>3. at' \in Walked BY <2>2 DEF Walked
  <2>4. \A p \in Walked : Before(p, at') <=> \/ p.bus < b
                                             \/ p.bus = b /\ p.device < d + 1
                                             \/ p.bus = b /\ p.device = d + 1 /\ p.function < 0
    BY <2>2 DEF Before
  <2> HIDE DEF b, d, f
  <2>5. \A p \in Walked : Before(p, at') <=> (Before(p, at) \/ p = at)
    BY <1>2, <1>4, <1>5, <1>6, <1>8, <1>10, <2>4
  <2>6. QED BY <1>10, <2>3, <2>5
<1>11. CASE ~MoreFunctions /\ d = MaxDevice /\ b < MaxBus /\ at' = Here(b + 1, 0, 0) /\ UNCHANGED pass
  <2>1. b + 1 \in 0..MaxBus /\ 0 \in 0..MaxDevice /\ 0 \in 0..MaxFunction BY <1>2, <1>3, <1>11
  <2>2. at' \in Positions /\ at'.bus = b + 1 /\ at'.device = 0 /\ at'.function = 0
    BY <1>11, <2>1, HereIsPosition
  <2>3. at' \in Walked BY <2>2 DEF Walked
  <2>4. \A p \in Walked : Before(p, at') <=> \/ p.bus < b + 1
                                             \/ p.bus = b + 1 /\ p.device < 0
                                             \/ p.bus = b + 1 /\ p.device = 0 /\ p.function < 0
    BY <2>2 DEF Before
  <2> HIDE DEF b, d, f
  <2>5. \A p \in Walked : Before(p, at') <=> (Before(p, at) \/ p = at)
    BY <1>2, <1>4, <1>5, <1>6, <1>8, <1>11, <2>4
  <2>6. QED BY <1>11, <2>3, <2>5
<1>12. CASE ~MoreFunctions /\ d = MaxDevice /\ b = MaxBus /\ at' = Origin /\ pass' = next
  <2>1. at' \in Walked BY <1>12, OriginFirst DEF Walked
  <2> HIDE DEF b, d, f
  <2>2. \A p \in Walked : Before(p, at) \/ p = at BY <1>2, <1>4, <1>5, <1>6, <1>8, <1>12
  <2>3. QED BY <1>12, <2>1, <2>2
<1>13. QED BY <1>9, <1>10, <1>11, <1>12 DEF Advance

Walks == {"stub", "count", "fill", "find"}
Following(walk) == CASE walk = "stub"  -> "count"
                     [] walk = "count" -> "fill"
                     [] walk = "fill"  -> "list"
                     [] walk = "find"  -> "done"

LEMMA OtherWalks ==
  ASSUME NEW walk \in Walks, NEW v \in Walks, v # walk
  PROVE  /\ Following(walk) \in Passes /\ Following(walk) # walk
         /\ Following(walk) \in Later(walk)
         /\ walk \in Later(v) => Following(walk) \in Later(v) /\ Following(walk) # v
         /\ walk \notin Later(v) => Following(walk) \notin Later(v)
BY DEF Walks, Passes, Following, Later

LEMMA FollowingWalk ==
  ASSUME NEW walk \in Walks
  PROVE  Following(walk) \in Passes /\ Following(walk) # walk /\ Following(walk) \in Later(walk)
BY DEF Walks, Passes, Following, Later

\* A walk comes past the function it is at, and the other walks past nothing.
LEMMA PassedStep ==
  ASSUME PlaceInv, NEW walk \in Walks, pass = walk, Advance(Following(walk)), space' = space
  PROVE  /\ PlaceInv'
         /\ Present' = Present
         /\ Passed(walk)' = IF at \in Present THEN Passed(walk) \cup {at} ELSE Passed(walk)
         /\ \A v \in Walks : v # walk => Passed(v)' = Passed(v)
<1>1. /\ at' \in Walked
      /\ \/ pass' = pass /\ \A p \in Walked : Before(p, at') <=> (Before(p, at) \/ p = at)
         \/ pass' = Following(walk) /\ at' = Origin /\ \A p \in Walked : Before(p, at) \/ p = at
  BY WalkStep
<1>2. Present' = Present /\ Walked' = Walked BY DEF Present, Walked, Multi
<1>3. Present \subseteq Walked /\ Walked \subseteq Positions BY PresentIsWalked
<1>4. /\ Following(walk) \in Passes /\ Following(walk) # walk /\ Following(walk) \in Later(walk)
  BY FollowingWalk
<1>5. PlaceInv'
  <2>1. pass' \in Passes BY <1>1, <1>4 DEF PlaceInv
  <2>2. pass' \in {"list", "done"} => at' = Origin BY <1>1 DEF Walks
  <2>3. QED BY <1>1, <1>2, <2>1, <2>2 DEF PlaceInv
<1>6. Passed(walk) = {p \in Present : Before(p, at)} BY DEF Passed
<1>7. CASE pass' = pass /\ \A p \in Walked : Before(p, at') <=> (Before(p, at) \/ p = at)
  <2>1. Passed(walk)' = {p \in Present : Before(p, at')} BY <1>2, <1>7 DEF Passed
  <2>2. {p \in Present : Before(p, at')} = {p \in Present : Before(p, at) \/ p = at} BY <1>3, <1>7
  <2>3. Passed(walk)' = IF at \in Present THEN Passed(walk) \cup {at} ELSE Passed(walk)
    BY <1>6, <2>1, <2>2
  <2>4. \A v \in Walks : v # walk => Passed(v)' = Passed(v) BY <1>2, <1>7 DEF Passed
  <2>5. QED BY <1>2, <1>5, <2>3, <2>4
<1>8. CASE pass' = Following(walk) /\ at' = Origin /\ \A p \in Walked : Before(p, at) \/ p = at
  <2>1. Passed(walk)' = Present BY <1>2, <1>4, <1>8 DEF Passed
  <2>2. Present = {p \in Present : Before(p, at) \/ p = at} BY <1>3, <1>8
  <2>3. Passed(walk)' = IF at \in Present THEN Passed(walk) \cup {at} ELSE Passed(walk)
    BY <1>6, <2>1, <2>2
  <2>4. ASSUME NEW v \in Walks, v # walk PROVE Passed(v)' = Passed(v)
    <3>1. CASE walk \in Later(v)
      <4>1. Following(walk) \in Later(v) /\ Following(walk) # v BY <2>4, <3>1, OtherWalks
      <4>2. QED BY <1>2, <1>8, <2>4, <3>1, <4>1 DEF Passed
    <3>2. CASE walk \notin Later(v)
      <4>1. Following(walk) \notin Later(v) BY <2>4, <3>2, OtherWalks
      <4>2. Passed(v) = {} BY <2>4, <3>2 DEF Passed
      <4>3. {p \in Present : Before(p, Origin)} = {} BY <1>3, OriginFirst
      <4>4. Passed(v)' = {} BY <1>2, <1>8, <4>1, <4>3 DEF Passed
      <4>5. QED BY <4>2, <4>4
    <3>3. QED BY <3>1, <3>2
  <2>5. QED BY <1>2, <1>5, <2>3, <2>4
<1>9. QED BY <1>1, <1>7, <1>8

-----------------------------------------------------------------------------
(* What the walks note.                                                     *)

LEMMA NotedInOrder ==
  ASSUME NEW s \in Seq(Positions), InOrder(s), NEW e \in Positions,
         \A p \in ToSet(s) : Before(p, e)
  PROVE  /\ Append(s, e) \in Seq(Positions) /\ InOrder(Append(s, e))
         /\ ToSet(Append(s, e)) = ToSet(s) \cup {e} /\ Len(Append(s, e)) = Len(s) + 1
<1> DEFINE t == Append(s, e)
<1>1. /\ t \in Seq(Positions) /\ Len(t) = Len(s) + 1 /\ t[Len(s) + 1] = e
      /\ \A k \in 1..Len(s) : t[k] = s[k]
      /\ Len(s) \in Nat /\ DOMAIN s = 1..Len(s) /\ DOMAIN t = 1..Len(s) + 1
  OBVIOUS
<1> HIDE DEF t
<1>2. \A k \in 1..Len(s) + 1 : k \in 1..Len(s) \/ k = Len(s) + 1 BY <1>1
<1>3. \A k \in 1..Len(s) : s[k] \in ToSet(s) /\ s[k] \in Positions BY <1>1 DEF ToSet
<1>4. InOrder(t)
  <2> SUFFICES ASSUME NEW a \in DOMAIN t, NEW b \in DOMAIN t, a < b PROVE Number(t[a]) < Number(t[b])
    BY DEF InOrder
  <2>1. a \in 1..Len(s) BY <1>1
  <2>2. CASE b \in 1..Len(s) BY <1>1, <2>1, <2>2 DEF InOrder
  <2>3. CASE b = Len(s) + 1
    <3>1. s[a] \in Positions /\ Before(s[a], e) BY <1>3, <2>1
    <3>2. Number(s[a]) < Number(e) BY <3>1, NumberOrder
    <3>3. QED BY <1>1, <2>1, <2>3, <3>2
  <2>4. QED BY <1>1, <1>2, <2>2, <2>3
<1>5. ToSet(t) = ToSet(s) \cup {e}
  <2>1. \A k \in 1..Len(s) + 1 : t[k] \in ToSet(s) \cup {e} BY <1>1, <1>2, <1>3
  <2>2. \A k \in 1..Len(s) : s[k] \in ToSet(t) BY <1>1 DEF ToSet
  <2>3. e \in ToSet(t) BY <1>1 DEF ToSet
  <2>4. ToSet(t) \subseteq ToSet(s) \cup {e} BY <1>1, <2>1 DEF ToSet
  <2>5. ToSet(s) \subseteq ToSet(t) BY <1>1, <2>2 DEF ToSet
  <2>6. QED BY <2>3, <2>4, <2>5
<1>6. QED BY <1>1, <1>4, <1>5 DEF t

LEMMA LastAdded ==
  ASSUME NEW S \in SUBSET Positions, NEW e \in Positions, \A p \in S : Before(p, e), NEW none
  PROVE  LastOf(S \cup {e}, none) = e
<1>1. \A p \in S : Number(p) < Number(e) /\ Number(p) \in Nat BY NumberOrder
<1>2. Number(e) \in Nat BY NumberOrder
<1> DEFINE last(p) == \A q \in S \cup {e} : Number(q) <= Number(p)
<1>3. last(e) BY <1>1, <1>2
<1>4. \A p \in S \cup {e} : last(p) => p = e BY <1>1, <1>2
<1>5. LastOf(S \cup {e}, none) = CHOOSE p \in S \cup {e} : last(p) BY DEF LastOf
<1> HIDE DEF last
<1>6. QED BY <1>3, <1>4, <1>5

\* What is passed comes before the position the walk is at.
LEMMA PassedBefore ==
  ASSUME PlaceInv, NEW walk \in Walks, pass = walk
  PROVE  /\ Passed(walk) \subseteq Positions /\ at \notin Passed(walk)
         /\ \A p \in Passed(walk) : Before(p, at)
<1>1. at \in Positions /\ Present \subseteq Positions BY PresentIsWalked DEF PlaceInv
<1>2. Passed(walk) = {p \in Present : Before(p, at)} BY DEF Passed
<1>3. ~Before(at, at) BY <1>1, PositionFields DEF Before
<1>4. QED BY <1>1, <1>2, <1>3

LEMMA PassedPresent == ASSUME NEW walk PROVE Passed(walk) \subseteq Present
BY DEF Passed

-----------------------------------------------------------------------------
(* The steps.                                                               *)

LEMMA InitScan == Init => ScanInv
<1> SUFFICES ASSUME Init PROVE ScanInv OBVIOUS
<1>1. PlaceInv
  <2>1. Origin \in Walked BY OriginFirst DEF Walked
  <2>2. QED BY <2>1 DEF Init, PlaceInv, Passes
<1>2. pass = "stub" /\ at = Origin BY DEF Init
<1>3. Passed("stub") = {}
  <2>1. Passed("stub") = {p \in Present : Before(p, Origin)} BY <1>2 DEF Passed
  <2>2. Present \subseteq Positions BY PresentIsWalked
  <2>3. QED BY <2>1, <2>2, OriginFirst
<1>4. Passed("count") = {} /\ Passed("fill") = {} /\ Passed("find") = {} BY <1>2 DEF Passed, Later
<1>5. \A s : s = <<>> => s \in Seq(Positions) /\ InOrder(s) /\ ToSet(s) = {} /\ Len(s) = 0
  BY DEF InOrder, ToSet
<1>6. PassedOf("stub", EHCI) = {} /\ PassedOf("find", AHCI) = {} BY <1>3, <1>4 DEF PassedOf
<1>7. ResetsInv BY <1>5, <1>6, OriginFirst DEF Init, ResetsInv, LastOf
<1>8. CountInv /\ TokensInv BY <1>4, <1>5, FS_EmptySet DEF Init, CountInv, TokensInv
<1>9. ListInv BY DEF Init, ListInv
<1>10. TokenInv BY <1>6, OriginFirst DEF Init, TokenInv, LastOf
<1>11. QED BY <1>1, <1>7, <1>8, <1>9, <1>10 DEF ScanInv

\* A walk leaves alone what the others have noted.
LEMMA OthersKept ==
  ASSUME ScanInv, space' = space, NEW walk \in Walks, pass = walk, Advance(Following(walk))
  PROVE  /\ walk # "stub" /\ UNCHANGED <<found, resets>> => ResetsInv'
         /\ walk # "count" /\ UNCHANGED tokens_count => CountInv'
         /\ walk # "fill" /\ UNCHANGED tokens => TokensInv'
         /\ walk # "find" /\ UNCHANGED token => TokenInv'
<1>1. \A v \in Walks : v # walk => Passed(v)' = Passed(v) BY PassedStep DEF ScanInv
<1>2. \A v \in Walks : v # walk => \A c : PassedOf(v, c)' = PassedOf(v, c) BY <1>1 DEF PassedOf
<1>3. "stub" \in Walks /\ "count" \in Walks /\ "fill" \in Walks /\ "find" \in Walks BY DEF Walks
<1>4. walk # "stub" => PassedOf("stub", EHCI)' = PassedOf("stub", EHCI) BY <1>2, <1>3 DEF EHCI, Class
<1>5. walk # "find" => PassedOf("find", AHCI)' = PassedOf("find", AHCI) BY <1>2, <1>3 DEF AHCI, Class
<1>6. ASSUME walk # "stub", UNCHANGED <<found, resets>> PROVE ResetsInv'
  BY <1>4, <1>6 DEF ScanInv, ResetsInv, InOrder
<1>7. ASSUME walk # "count", UNCHANGED tokens_count PROVE CountInv'
  BY <1>1, <1>3, <1>7 DEF ScanInv, CountInv
<1>8. ASSUME walk # "fill", UNCHANGED tokens PROVE TokensInv'
  BY <1>1, <1>3, <1>8 DEF ScanInv, TokensInv, InOrder
<1>9. ASSUME walk # "find", UNCHANGED token PROVE TokenInv'
  BY <1>5, <1>9 DEF ScanInv, TokenInv
<1>10. QED BY <1>6, <1>7, <1>8, <1>9

\* Of the functions of a class, those passed, after a step.
LEMMA PassedOfStep ==
  ASSUME PlaceInv, NEW walk \in Walks, pass = walk, Advance(Following(walk)), space' = space, NEW class
  PROVE  PassedOf(walk, class)' =
           IF at \in Present /\ space.class[at] = class THEN PassedOf(walk, class) \cup {at}
                                                        ELSE PassedOf(walk, class)
BY PassedStep DEF PassedOf

LEMMA StepStub == ASSUME ScanInv, stub_find_ehci PROVE ScanInv'
<1> DEFINE w == "stub"
           match == at \in Present /\ space.class[at] = EHCI
<1>1. /\ w \in Walks /\ pass = w /\ Advance(Following(w)) /\ space' = space /\ PlaceInv
  BY DEF Walks, stub_find_ehci, Following, ScanInv
<1>2. PlaceInv' BY <1>1, PassedStep
<1>3. CountInv' /\ TokensInv' /\ TokenInv' BY <1>1, OthersKept DEF stub_find_ehci
<1>4. ListInv' BY DEF stub_find_ehci, ScanInv, ListInv
<1>5. PassedOf(w, EHCI)' = IF match THEN PassedOf(w, EHCI) \cup {at} ELSE PassedOf(w, EHCI)
  BY <1>1, PassedOfStep DEF EHCI, Class
<1>6. Answers /\ get_PCI_class(at) = EHCI <=> match BY <1>1, AnswersIfPresent
<1>7. at \in Positions /\ write_config_data(at, 0) = at BY <1>1, AnswersIfPresent, ReadsItsOwn
<1>8. PassedOf(w, EHCI) \subseteq Positions /\ \A p \in PassedOf(w, EHCI) : Before(p, at)
  BY <1>1, PassedBefore DEF PassedOf
<1>9. CASE match
  <2>1. found' = at /\ resets' = Append(resets, at) BY <1>6, <1>7, <1>9 DEF stub_find_ehci
  <2>2. /\ resets \in Seq(Positions) /\ InOrder(resets) /\ ToSet(resets) = PassedOf(w, EHCI)
    BY DEF ScanInv, ResetsInv
  <2>3. /\ Append(resets, at) \in Seq(Positions) /\ InOrder(Append(resets, at))
        /\ ToSet(Append(resets, at)) = PassedOf(w, EHCI) \cup {at}
    BY <1>7, <1>8, <2>2, NotedInOrder
  <2>4. LastOf(PassedOf(w, EHCI) \cup {at}, Origin) = at BY <1>7, <1>8, LastAdded
  <2>5. ResetsInv' BY <1>5, <1>7, <1>9, <2>1, <2>3, <2>4 DEF ResetsInv, InOrder, LastOf, Number, EHCI, Class, Origin, Here
  <2>6. QED BY <1>2, <1>3, <1>4, <2>5 DEF ScanInv
<1>10. CASE ~match
  <2>1. found' = found /\ resets' = resets BY <1>6, <1>10 DEF stub_find_ehci
  <2>2. ResetsInv' BY <1>5, <1>10, <2>1 DEF ScanInv, ResetsInv, InOrder
  <2>3. QED BY <1>2, <1>3, <1>4, <2>2 DEF ScanInv
<1>11. QED BY <1>9, <1>10

LEMMA StepCount == ASSUME ScanInv, enum_PCI_count PROVE ScanInv'
<1> DEFINE w == "count"
<1>1. /\ w \in Walks /\ pass = w /\ Advance(Following(w)) /\ space' = space /\ PlaceInv
  BY DEF Walks, enum_PCI_count, Following, ScanInv
<1>2. PlaceInv' /\ Passed(w)' = IF at \in Present THEN Passed(w) \cup {at} ELSE Passed(w) BY <1>1, PassedStep
<1>3. ResetsInv' /\ TokensInv' /\ TokenInv' BY <1>1, OthersKept DEF enum_PCI_count
<1>4. IsFiniteSet(Passed(w)) /\ tokens_count = Cardinality(Passed(w)) /\ tokens_count \in Nat
  BY FS_CardinalityType DEF ScanInv, CountInv
<1>5. at \notin Passed(w) BY <1>1, PassedBefore
<1>6. CountInv' /\ tokens_count' >= tokens_count /\ tokens_count' \in Nat
  <2>1. CASE at \in Present
    <3>1. tokens_count' = tokens_count + 1 BY <1>1, <2>1, AnswersIfPresent DEF enum_PCI_count
    <3>2. IsFiniteSet(Passed(w) \cup {at}) /\ Cardinality(Passed(w) \cup {at}) = Cardinality(Passed(w)) + 1
      BY <1>4, <1>5, FS_AddElement
    <3>3. CountInv' BY <1>2, <1>4, <2>1, <3>1, <3>2 DEF CountInv
    <3>4. QED BY <1>4, <3>1, <3>3
  <2>2. CASE at \notin Present
    <3>1. tokens_count' = tokens_count BY <1>1, <2>2, AnswersIfPresent DEF enum_PCI_count
    <3>2. CountInv' BY <1>2, <1>4, <2>2, <3>1 DEF CountInv
    <3>3. QED BY <1>4, <3>1, <3>2
  <2>3. QED BY <2>1, <2>2
<1>7. ListInv' BY <1>4, <1>6 DEF enum_PCI_count, ScanInv, ListInv
<1>8. QED BY <1>2, <1>3, <1>6, <1>7 DEF ScanInv

LEMMA StepFill == ASSUME ScanInv, enum_PCI PROVE ScanInv'
<1> DEFINE w == "fill"
<1>1. /\ w \in Walks /\ pass = w /\ Advance(Following(w)) /\ space' = space /\ PlaceInv
  BY DEF Walks, enum_PCI, Following, ScanInv
<1>2. PlaceInv' /\ Passed(w)' = IF at \in Present THEN Passed(w) \cup {at} ELSE Passed(w) BY <1>1, PassedStep
<1>3. ResetsInv' /\ CountInv' /\ TokenInv' BY <1>1, OthersKept DEF enum_PCI
<1>4. ListInv' BY DEF enum_PCI, ScanInv, ListInv
<1>5. /\ tokens \in Seq(Positions) /\ InOrder(tokens) /\ ToSet(tokens) = Passed(w)
      /\ IsFiniteSet(Passed(w)) /\ Len(tokens) = Cardinality(Passed(w))
  BY DEF ScanInv, TokensInv
<1>6. at \notin Passed(w) /\ \A p \in Passed(w) : Before(p, at) BY <1>1, PassedBefore
<1>7. CASE at \in Present
  <2>1. tokens' = Append(tokens, at) /\ at \in Positions BY <1>1, <1>7, AnswersIfPresent DEF enum_PCI
  <2>2. /\ Append(tokens, at) \in Seq(Positions) /\ InOrder(Append(tokens, at))
        /\ ToSet(Append(tokens, at)) = Passed(w) \cup {at} /\ Len(Append(tokens, at)) = Len(tokens) + 1
    BY <1>5, <1>6, <2>1, NotedInOrder
  <2>3. IsFiniteSet(Passed(w) \cup {at}) /\ Cardinality(Passed(w) \cup {at}) = Cardinality(Passed(w)) + 1
    BY <1>5, <1>6, FS_AddElement
  <2>4. TokensInv' BY <1>2, <1>5, <1>7, <2>1, <2>2, <2>3 DEF TokensInv, InOrder, Number
  <2>5. QED BY <1>2, <1>3, <1>4, <2>4 DEF ScanInv
<1>8. CASE at \notin Present
  <2>1. tokens' = tokens BY <1>1, <1>8, AnswersIfPresent DEF enum_PCI
  <2>2. TokensInv' BY <1>2, <1>5, <1>8, <2>1 DEF TokensInv, InOrder, Number
  <2>3. QED BY <1>2, <1>3, <1>4, <2>2 DEF ScanInv
<1>9. QED BY <1>7, <1>8

LEMMA StepFind == ASSUME ScanInv, find_PCI_device PROVE ScanInv'
<1> DEFINE w == "find"
           match == at \in Present /\ space.class[at] = AHCI
<1>1. /\ w \in Walks /\ pass = w /\ Advance(Following(w)) /\ space' = space /\ PlaceInv
  BY DEF Walks, find_PCI_device, Following, ScanInv
<1>2. PlaceInv' BY <1>1, PassedStep
<1>3. ResetsInv' /\ CountInv' /\ TokensInv' BY <1>1, OthersKept DEF find_PCI_device
<1>4. ListInv' BY DEF find_PCI_device, ScanInv, ListInv
<1>5. PassedOf(w, AHCI)' = IF match THEN PassedOf(w, AHCI) \cup {at} ELSE PassedOf(w, AHCI)
  BY <1>1, PassedOfStep DEF AHCI, Class
<1>6. Answers /\ get_PCI_class(at) = AHCI <=> match BY <1>1, AnswersIfPresent
<1>7. PassedOf(w, AHCI) \subseteq Positions /\ \A p \in PassedOf(w, AHCI) : Before(p, at)
  BY <1>1, PassedBefore DEF PassedOf
<1>8. CASE match
  <2>1. token' = at /\ at \in Positions BY <1>1, <1>6, <1>8, AnswersIfPresent DEF find_PCI_device
  <2>2. LastOf(PassedOf(w, AHCI) \cup {at}, Origin) = at BY <1>7, <2>1, LastAdded
  <2>3. TokenInv' BY <1>5, <1>8, <2>1, <2>2 DEF TokenInv, LastOf, Number
  <2>4. QED BY <1>2, <1>3, <1>4, <2>3 DEF ScanInv
<1>9. CASE ~match
  <2>1. token' = token BY <1>6, <1>9 DEF find_PCI_device
  <2>2. TokenInv' BY <1>5, <1>9, <2>1 DEF ScanInv, TokenInv
  <2>3. QED BY <1>2, <1>3, <1>4, <2>2 DEF ScanInv
<1>10. QED BY <1>8, <1>9

\* kernel_main's loop does not touch what the walks have noted.
LEMMA StepList == ASSUME ScanInv, list_ethernet PROVE ScanInv'
<1>1. /\ pass = "list" /\ n <= tokens_count /\ n' = n + 1
      /\ UNCHANGED <<space, pass, at, found, resets, tokens_count, tokens, token>>
  BY DEF list_ethernet
<1>2. Present' = Present BY <1>1 DEF Present
<1>3. \A v : Passed(v)' = Passed(v) BY <1>1, <1>2 DEF Passed
<1>4. PassedOf("stub", EHCI)' = PassedOf("stub", EHCI) BY <1>1, <1>3 DEF PassedOf, EHCI, Class
<1>5. PassedOf("find", AHCI)' = PassedOf("find", AHCI) BY <1>1, <1>3 DEF PassedOf, AHCI, Class
<1>6. PlaceInv' BY <1>1 DEF ScanInv, PlaceInv, Walked, Multi
<1>7. ResetsInv' BY <1>1, <1>4 DEF ScanInv, ResetsInv, InOrder
<1>8. CountInv' BY <1>1, <1>3 DEF ScanInv, CountInv
<1>9. TokensInv' BY <1>1, <1>3 DEF ScanInv, TokensInv, InOrder
<1>10. TokenInv' BY <1>1, <1>5 DEF ScanInv, TokenInv
<1>11. tokens[n] \in Positions
  <2>1. Passed("count") = Present /\ Passed("fill") = Present BY <1>1 DEF Passed, Later
  <2>2. Len(tokens) = tokens_count /\ tokens \in Seq(Positions)
    BY <2>1 DEF ScanInv, CountInv, TokensInv
  <2>3. n \in 1..Len(tokens) BY <1>1, <2>2 DEF ScanInv, ListInv
  <2>4. QED BY <2>2, <2>3
<1>12. tokens_count \in Nat BY FS_CardinalityType DEF ScanInv, CountInv
<1>13. ethernet' \subseteq Positions BY <1>11 DEF list_ethernet, ScanInv, ListInv
<1>14. ListInv' BY <1>1, <1>12, <1>13 DEF ScanInv, ListInv
<1>15. QED BY <1>6, <1>7, <1>8, <1>9, <1>10, <1>14 DEF ScanInv

LEMMA StepListEnd == ASSUME ScanInv, list_ethernet_end PROVE ScanInv'
<1>1. /\ pass = "list" /\ pass' = "find"
      /\ UNCHANGED <<space, at, found, resets, tokens_count, tokens, n, ethernet, token>>
  BY DEF list_ethernet_end
<1>2. at = Origin /\ at \in Walked BY <1>1 DEF ScanInv, PlaceInv
<1>3. Present' = Present /\ Walked' = Walked BY <1>1 DEF Present, Walked, Multi
<1>4. Passed("stub")' = Passed("stub") /\ Passed("count")' = Passed("count") /\ Passed("fill")' = Passed("fill")
  BY <1>1, <1>3 DEF Passed, Later
<1>5. Passed("find")' = Passed("find")
  <2>1. Passed("find") = {} BY <1>1 DEF Passed, Later
  <2>2. Passed("find")' = {p \in Present : Before(p, at)} BY <1>1, <1>3 DEF Passed
  <2>3. QED BY <1>2, <2>1, <2>2, PresentIsWalked, OriginFirst
<1>6. PassedOf("stub", EHCI)' = PassedOf("stub", EHCI) BY <1>1, <1>4 DEF PassedOf, EHCI, Class
<1>7. PassedOf("find", AHCI)' = PassedOf("find", AHCI) BY <1>1, <1>5 DEF PassedOf, AHCI, Class
<1>8. PlaceInv' BY <1>1, <1>2, <1>3 DEF ScanInv, PlaceInv, Passes
<1>9. ResetsInv' BY <1>1, <1>6 DEF ScanInv, ResetsInv, InOrder
<1>10. CountInv' BY <1>1, <1>4 DEF ScanInv, CountInv
<1>11. TokensInv' BY <1>1, <1>4 DEF ScanInv, TokensInv, InOrder
<1>12. TokenInv' BY <1>1, <1>7 DEF ScanInv, TokenInv
<1>13. ListInv' BY <1>1 DEF ScanInv, ListInv
<1>14. QED BY <1>8, <1>9, <1>10, <1>11, <1>12, <1>13 DEF ScanInv

LEMMA ScanStep == ScanInv /\ [Next]_vars => ScanInv'
<1> SUFFICES ASSUME ScanInv, [Next]_vars PROVE ScanInv' OBVIOUS
<1>1. CASE stub_find_ehci BY <1>1, StepStub
<1>2. CASE enum_PCI_count BY <1>2, StepCount
<1>3. CASE enum_PCI BY <1>3, StepFill
<1>4. CASE list_ethernet BY <1>4, StepList
<1>5. CASE list_ethernet_end BY <1>5, StepListEnd
<1>6. CASE find_PCI_device BY <1>6, StepFind
<1>7. CASE UNCHANGED vars
  <2>1. UNCHANGED <<space, pass, at, found, resets, tokens_count, tokens, n, ethernet, token>> BY <1>7 DEF vars
  <2>2. Present' = Present /\ Walked' = Walked BY <2>1 DEF Present, Walked, Multi
  <2>3. \A v : Passed(v)' = Passed(v) BY <2>1, <2>2 DEF Passed
  <2>4. PassedOf("stub", EHCI)' = PassedOf("stub", EHCI) BY <2>1, <2>3 DEF PassedOf, EHCI, Class
  <2>5. PassedOf("find", AHCI)' = PassedOf("find", AHCI) BY <2>1, <2>3 DEF PassedOf, AHCI, Class
  <2>6. PlaceInv' BY <2>1, <2>2 DEF ScanInv, PlaceInv
  <2>7. ResetsInv' BY <2>1, <2>4 DEF ScanInv, ResetsInv, InOrder
  <2>8. CountInv' /\ TokensInv' BY <2>1, <2>3 DEF ScanInv, CountInv, TokensInv, InOrder
  <2>9. ListInv' /\ TokenInv' BY <2>1, <2>5 DEF ScanInv, ListInv, TokenInv
  <2>10. QED BY <2>6, <2>7, <2>8, <2>9 DEF ScanInv
<1>8. QED BY <1>1, <1>2, <1>3, <1>4, <1>5, <1>6, <1>7 DEF Next

LEMMA ScanHolds == Spec => []ScanInv
BY InitScan, ScanStep, PTL DEF Spec

-----------------------------------------------------------------------------
\* Every variable has its type in any configuration space; neither the count
\* nor kernel_main's loop variable goes past what there can be of functions.
THEOREM ScanTypesHold == Spec => []TypeOK
<1>1. ScanInv => TypeOK
  <2> SUFFICES ASSUME ScanInv PROVE TypeOK OBVIOUS
  <2>1. space.class \in [Positions -> Classes \cup {Absent}]
    BY PciAssumption DEF ScanInv, PlaceInv
  <2>2. Present \subseteq Positions /\ at \in Positions BY PresentIsWalked DEF ScanInv, PlaceInv
  <2>3. Passed("count") \subseteq Positions BY <2>2, PassedPresent
  <2>4. /\ Cardinality(Positions) \in Nat /\ tokens_count \in Nat
        /\ tokens_count <= Cardinality(Positions)
    BY <2>3, PositionsFinite, FS_Subset, FS_CardinalityType DEF ScanInv, CountInv
  <2>5. n \in Nat \ {0} /\ n <= tokens_count + 1 /\ ethernet \subseteq Positions
    BY DEF ScanInv, ListInv
  <2>6. tokens_count \in 0..Cardinality(Positions) /\ n \in 1..(Cardinality(Positions) + 1)
    BY <2>4, <2>5
  <2>7. pass \in {"stub", "count", "fill", "list", "find", "done"} BY DEF ScanInv, PlaceInv, Passes
  <2>8. /\ tokens \in Seq(Positions) /\ found \in Positions /\ resets \in Seq(Positions)
        /\ token \in Positions
    BY DEF ScanInv, TokensInv, ResetsInv, TokenInv
  <2>9. QED BY <2>1, <2>2, <2>5, <2>6, <2>7, <2>8 DEF TypeOK
<1>2. QED BY <1>1, ScanHolds, PTL

\* Whatever answers on the bus, the two passes of kernel_main agree: there
\* are as many tokens as were counted, one of each function there is.
THEOREM EachFunctionOnce == Spec => []TokensAreTheFunctions
<1>1. ScanInv => TokensAreTheFunctions
  <2> SUFFICES ASSUME ScanInv, pass \in {"list", "find", "done"}
               PROVE /\ tokens_count = Len(tokens)
                     /\ ToSet(tokens) = Present /\ InOrder(tokens)
    BY DEF TokensAreTheFunctions
  <2>1. Passed("count") = Present /\ Passed("fill") = Present BY DEF Passed, Later
  <2>2. QED BY <2>1 DEF ScanInv, CountInv, TokensInv
<1>2. QED BY <1>1, ScanHolds, PTL

\* Whatever answers on the bus, the drivers' controllers are the last of
\* their class, and the stub resets each EHCI controller once and no more.
THEOREM LastControllers == Spec => []ControllersFound
<1>1. ScanInv => ControllersFound
  <2> SUFFICES ASSUME ScanInv PROVE ControllersFound OBVIOUS
  <2>1. ASSUME pass # "stub"
        PROVE  /\ ToSet(resets) = OfClass(EHCI) /\ InOrder(resets)
               /\ found = LastOf(OfClass(EHCI), Origin)
    <3>1. pass \in Later("stub") BY <2>1 DEF ScanInv, PlaceInv, Passes, Later
    <3>2. Passed("stub") = Present BY <2>1, <3>1 DEF Passed
    <3>3. PassedOf("stub", EHCI) = OfClass(EHCI) BY <3>2 DEF PassedOf, OfClass
    <3>4. QED BY <3>3 DEF ScanInv, ResetsInv
  <2>2. ASSUME pass = "done" PROVE token = LastOf(OfClass(AHCI), Origin)
    <3>1. Passed("find") = Present BY <2>2 DEF Passed, Later
    <3>2. PassedOf("find", AHCI) = OfClass(AHCI) BY <3>1 DEF PassedOf, OfClass
    <3>3. QED BY <3>2 DEF ScanInv, TokenInv
  <2>3. QED BY <2>1, <2>2 DEF ControllersFound
<1>2. QED BY <1>1, ScanHolds, PTL
=============================================================================
