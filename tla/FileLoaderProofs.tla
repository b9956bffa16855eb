-------------------------- MODULE FileLoaderProofs --------------------------
(***************************************************************************)
(* The loader reads the right file: for every disk with a sound FAT32 file *)
(* system, of whatever geometry, with the file's clusters wherever they    *)
(* are, read_fileA leaves its sectors in the buffer in their order.        *)
(***************************************************************************)
EXTENDS FileLoader, TLAPS

-----------------------------------------------------------------------------
(* Division.                                                                *)

LEMMA Product ==
  ASSUME NEW a \in Nat, NEW b \in Nat
  PROVE  a * b \in Nat
BY SMT

LEMMA NextMultiple ==
  ASSUME NEW k \in Nat, NEW w \in Nat
  PROVE  (k + 1) * w = k * w + w
BY SMT

LEMMA Monotone ==
  ASSUME NEW a \in Nat, NEW b \in Nat, NEW w \in Nat, a >= b
  PROVE  a * w >= b * w
<1>1. a * w = b * w + (a - b) * w BY SMT
<1>2. a - b \in Nat OBVIOUS
<1>3. (a - b) * w \in Nat /\ b * w \in Nat BY <1>2, Product
<1>4. QED BY <1>1, <1>3

\* Two numbers less than w, each with a multiple of w, are the same sum only
\* if they are the same.
LEMMA Unique ==
  ASSUME NEW w \in Nat \ {0}, NEW q \in Int, NEW p \in Int, NEW r \in 0..w - 1, NEW s \in 0..w - 1,
         q * w + r = p * w + s
  PROVE  q = p /\ r = s
<1>1. (q - p) * w = s - r BY SMT
<1>2. CASE q - p >= 1
  <2>1. (q - p) * w >= w BY <1>2, SMT
  <2>2. QED BY <1>1, <2>1
<1>3. CASE q - p <= -1
  <2>1. (q - p) * w <= -w BY <1>3, SMT
  <2>2. QED BY <1>1, <2>1
<1>4. CASE q = p BY <1>4, <1>1
<1>5. QED BY <1>2, <1>3, <1>4

\* Quotient and remainder.
LEMMA Division ==
  ASSUME NEW w \in Nat \ {0}, NEW x \in Nat
  PROVE  /\ x \div w \in Nat /\ x % w \in 0..w - 1
         /\ x = (x \div w) * w + (x % w)
<1>1. x = w * (x \div w) + (x % w) /\ x \div w \in Int /\ x % w \in 0..w - 1 OBVIOUS
<1>2. x \div w \in Nat
  <2> SUFFICES ASSUME x \div w <= -1 PROVE FALSE BY <1>1
  <2> DEFINE q == x \div w
             r == x % w
  <2>1. q \in Int /\ r \in 0..w - 1 /\ x = w * q + r /\ q <= -1 BY <1>1
  <2> HIDE DEF q, r
  <2>2. w * q <= -w BY <2>1, SMT
  <2>3. QED BY <2>1, <2>2
<1>3. QED BY <1>1, <1>2

\* They are what a number was made of.
LEMMA Recovered ==
  ASSUME NEW w \in Nat \ {0}, NEW q \in Nat, NEW r \in 0..w - 1
  PROVE  q * w + r \in Nat /\ (q * w + r) \div w = q /\ (q * w + r) % w = r
<1>1. q * w \in Nat BY SMT
<1>2. q * w + r \in Nat BY <1>1
<1> DEFINE x == q * w + r
<1>3. x \div w \in Nat /\ x % w \in 0..w - 1 /\ x = (x \div w) * w + (x % w)
  BY <1>2, Division
<1>4. x = q * w + r OBVIOUS
<1> HIDE DEF x
<1>5. x \div w = q /\ x % w = r BY <1>3, <1>4, Unique
<1>6. QED BY <1>2, <1>5 DEF x

LEMMA Small ==
  ASSUME NEW w \in Nat \ {0}, NEW r \in 0..w - 1
  PROVE  r \div w = 0 /\ r % w = r
<1>1. (0 * w + r) \div w = 0 /\ (0 * w + r) % w = r BY Recovered, 0 \in Nat
<1>2. 0 * w + r = r OBVIOUS
<1>3. QED BY <1>1, <1>2

-----------------------------------------------------------------------------
(* What is where on the disk.                                               *)

\* The numbers of a sound disk.
LEMMA Numbers ==
  ASSUME NEW d \in Disks
  PROVE  /\ d.lbaPartitionStart \in Nat \ {0} /\ d.reservedSectors \in Nat
         /\ d.FSInfoSectorNumber \in Nat \ {0} /\ d.FSInfoSectorNumber < d.reservedSectors
         /\ d.numberOfFATs \in Nat \ {0} /\ d.sectorsPerFAT \in Nat \ {0}
         /\ d.sectorsPerCluster \in Nat \ {0}
         /\ FatStart(d) \in Nat /\ DataStart(d) \in Nat /\ FatStart(d) + d.sectorsPerFAT <= DataStart(d)
         /\ FatStart(d) > d.lbaPartitionStart + d.FSInfoSectorNumber
<1> DEFINE f == d.numberOfFATs
           p == d.sectorsPerFAT
<1>1. WellFormed(d) BY LoaderAssumption
<1>2. /\ d.lbaPartitionStart \in Nat \ {0} /\ d.reservedSectors \in Nat
      /\ d.FSInfoSectorNumber \in Nat \ {0} /\ d.FSInfoSectorNumber < d.reservedSectors
      /\ f \in Nat \ {0} /\ p \in Nat \ {0} /\ d.sectorsPerCluster \in Nat \ {0}
  BY <1>1 DEF WellFormed
<1>3. FatStart(d) \in Nat /\ FatStart(d) > d.lbaPartitionStart + d.FSInfoSectorNumber
  BY <1>2 DEF FatStart
<1>4. f * p \in Nat /\ f * p >= p
  <2> HIDE DEF f, p
  <2>1. QED BY <1>2, SMT
<1>5. DataStart(d) = FatStart(d) + f * p BY DEF DataStart
<1>6. DataStart(d) \in Nat /\ FatStart(d) + p <= DataStart(d)
  <2> HIDE DEF f, p
  <2>1. QED BY <1>2, <1>3, <1>4, <1>5
<1>7. QED BY <1>2, <1>3, <1>6

LEMMA ContentBoot ==
  ASSUME NEW d \in Disks
  PROVE  /\ Content(d, 0) = Sector("mbr", 0, 0)
         /\ Content(d, d.lbaPartitionStart) = Sector("bpb", 0, 0)
<1>1. d.lbaPartitionStart \in Nat \ {0} BY Numbers
<1>2. QED BY <1>1 DEF Content

LEMMA ContentFat ==
  ASSUME NEW d \in Disks, NEW n \in 0..d.sectorsPerFAT - 1
  PROVE  Content(d, FatStart(d) + n) = Sector("fat", n, 0)
<1> DEFINE a == FatStart(d) + n
           p == d.sectorsPerFAT
<1>1. /\ p \in Nat \ {0} /\ FatStart(d) \in Nat /\ DataStart(d) \in Nat /\ FatStart(d) + p <= DataStart(d)
      /\ d.lbaPartitionStart \in Nat \ {0} /\ d.FSInfoSectorNumber \in Nat \ {0}
      /\ FatStart(d) > d.lbaPartitionStart + d.FSInfoSectorNumber
  BY Numbers
<1>2. /\ a # 0 /\ a # d.lbaPartitionStart /\ a # d.lbaPartitionStart + d.FSInfoSectorNumber
      /\ a \in FatStart(d)..DataStart(d) - 1 /\ a - FatStart(d) = n
  BY <1>1
<1>3. n % p = n BY <1>1, Small
<1>4. Content(d, a) = Sector("fat", (a - FatStart(d)) % p, 0) BY <1>2 DEF Content
<1>5. QED BY <1>2, <1>3, <1>4

LEMMA ContentData ==
  ASSUME NEW d \in Disks, NEW c \in Nat, NEW r \in 0..d.sectorsPerCluster - 1
  PROVE  Content(d, DataStart(d) + c * d.sectorsPerCluster + r) = Sector("data", c + 2, r)
<1> DEFINE w == d.sectorsPerCluster
           a == DataStart(d) + c * w + r
<1>1. /\ w \in Nat \ {0} /\ FatStart(d) \in Nat /\ DataStart(d) \in Nat
      /\ d.lbaPartitionStart \in Nat \ {0} /\ d.FSInfoSectorNumber \in Nat \ {0}
      /\ FatStart(d) > d.lbaPartitionStart + d.FSInfoSectorNumber
      /\ DataStart(d) >= FatStart(d)
  BY Numbers
<1>2. c * w + r \in Nat /\ (c * w + r) \div w = c /\ (c * w + r) % w = r
  BY <1>1, Recovered
<1>3. c * w \in Nat BY <1>1, SMT
<1>4. a - DataStart(d) = c * w + r /\ a \in Nat /\ a >= DataStart(d)
  BY <1>1, <1>3
<1>5. /\ a # 0 /\ a # d.lbaPartitionStart /\ a # d.lbaPartitionStart + d.FSInfoSectorNumber
      /\ a \notin FatStart(d)..DataStart(d) - 1
  BY <1>1, <1>4
<1>6. Content(d, a) = Sector("data", 2 + ((a - DataStart(d)) \div w), (a - DataStart(d)) % w)
  <2> HIDE DEF a
  <2>1. QED BY <1>4, <1>5 DEF Content
<1>7. QED BY <1>2, <1>4, <1>6

\* The window of the FAT read for a cluster has its entry: the arithmetic of
\* window, sector and entry comes to the cluster's number again.
LEMMA WindowEntry ==
  ASSUME NEW d \in Disks, NEW c \in DOMAIN d.fat,
         NEW w, w = c \div (FatEntries * FatWindow),
         NEW e, e = c % (FatEntries * FatWindow)
  PROVE  \E s \in Nat :
           /\ (e \div FatEntries) + 1 \in 1..FatWindow
           /\ Content(d, FatStart(d) + w * FatWindow + (e \div FatEntries)) = Sector("fat", s, 0)
           /\ s * FatEntries + (e % FatEntries) = c
<1> DEFINE q == e \div FatEntries
           r == e % FatEntries
           s == w * FatWindow + q
           p == d.sectorsPerFAT
<1>1. FatEntries \in Nat \ {0} /\ FatWindow \in Nat \ {0} BY LoaderAssumption
<1>2. p \in Nat \ {0} /\ FatStart(d) \in Nat BY Numbers
<1>3. c \in 0..p * FatEntries - 1 BY LoaderAssumption DEF WellFormed
<1>4. FatEntries * FatWindow \in Nat \ {0} BY <1>1, SMT
<1>5. c \in Nat BY <1>3
<1>6. w \in Nat /\ e \in 0..FatEntries * FatWindow - 1 /\ c = w * (FatEntries * FatWindow) + e
  BY <1>4, <1>5, Division
<1>7. e \in Nat BY <1>6
<1>8. q \in Nat /\ r \in 0..FatEntries - 1 /\ e = q * FatEntries + r BY <1>1, <1>7, Division
<1> HIDE DEF q, r, p
<1>9. q < FatWindow
  <2> SUFFICES ASSUME q >= FatWindow PROVE FALSE BY <1>1, <1>8
  <2>1. q * FatEntries >= FatWindow * FatEntries BY <1>1, <1>8, Monotone
  <2>2. FatWindow * FatEntries = FatEntries * FatWindow BY <1>1
  <2>3. q * FatEntries \in Nat /\ FatEntries * FatWindow \in Nat BY <1>1, <1>8, Product
  <2>4. e < FatEntries * FatWindow BY <1>4, <1>6
  <2>5. e >= q * FatEntries BY <2>3, <1>1, <1>8
  <2>6. QED BY <2>1, <2>2, <2>3, <2>4, <2>5, <1>7
<1>10. s \in Nat /\ s * FatEntries + r = c
  <2>1. w * FatWindow \in Nat BY <1>1, <1>6, Product
  <2>2. s \in Nat BY <2>1, <1>8
  <2>3. s * FatEntries = (w * FatWindow) * FatEntries + q * FatEntries BY <2>1, <1>1, <1>8
  <2>4. (w * FatWindow) * FatEntries = w * (FatEntries * FatWindow) BY <1>1, <1>6
  <2>5. w * (FatEntries * FatWindow) \in Nat /\ q * FatEntries \in Nat BY <1>1, <1>4, <1>6, <1>8, Product
  <2>6. QED BY <2>2, <2>3, <2>4, <2>5, <1>6, <1>8
<1>11. FatStart(d) + w * FatWindow + q = FatStart(d) + s
  <2>1. w * FatWindow \in Nat BY <1>1, <1>6, Product
  <2>2. QED BY <2>1, <1>2, <1>8
<1> HIDE DEF s
<1>12. s \in 0..p - 1
  <2> SUFFICES ASSUME s >= p PROVE FALSE BY <1>2, <1>10
  <2>1. s * FatEntries >= p * FatEntries BY <1>1, <1>2, <1>10, Monotone
  <2>2. s * FatEntries \in Nat /\ p * FatEntries \in Nat BY <1>1, <1>2, <1>10, Product
  <2>3. QED BY <2>1, <2>2, <1>3, <1>8, <1>10
<1>13. Content(d, FatStart(d) + s) = Sector("fat", s, 0) BY <1>12, ContentFat DEF p
<1>14. q + 1 \in 1..FatWindow BY <1>1, <1>8, <1>9
<1>15. Content(d, FatStart(d) + w * FatWindow + q) = Sector("fat", s, 0) BY <1>11, <1>13
<1>16. s \in Nat /\ s * FatEntries + r = c BY <1>10
<1>17. QED BY <1>14, <1>15, <1>16 DEF q, r

\* Entry n of the buffer is that of the directory.
LEMMA EntryIs ==
  ASSUME disk \in Disks, NEW n \in 0..Len(disk.dir) - 1,
         rootDir_buf = [m \in 1..disk.sectorsPerCluster |-> Sector("data", 2, m - 1)]
  PROVE  Entry(n) = disk.dir[n + 1]
<1> DEFINE w == disk.sectorsPerCluster
           q == n \div DirEntries
           r == n % DirEntries
<1>1. w \in Nat \ {0} /\ DirEntries \in Nat \ {0} BY Numbers, LoaderAssumption
<1>2. Len(disk.dir) \in Nat /\ Len(disk.dir) <= DirEntries * w
  <2>1. disk.dir \in Seq(Entries) /\ Len(disk.dir) <= DirEntries * w BY LoaderAssumption DEF WellFormed
  <2>2. QED BY <2>1
<1>3. n \in Nat /\ n < DirEntries * w
  <2>1. DirEntries * w \in Nat BY <1>1, Product
  <2>2. QED BY <2>1, <1>2
<1>4. q \in Nat /\ r \in 0..DirEntries - 1 /\ n = q * DirEntries + r BY <1>1, <1>3, Division
<1> HIDE DEF q, r, w
<1>5. q < w
  <2> SUFFICES ASSUME q >= w PROVE FALSE BY <1>1, <1>4
  <2>1. q * DirEntries >= w * DirEntries BY <1>1, <1>4, Monotone
  <2>2. w * DirEntries = DirEntries * w BY <1>1
  <2>3. q * DirEntries \in Nat /\ DirEntries * w \in Nat BY <1>1, <1>4, Product
  <2>4. n >= q * DirEntries BY <2>3, <1>1, <1>4
  <2>5. QED BY <2>1, <2>2, <2>3, <2>4, <1>3
<1>6. rootDir_buf[q + 1] = Sector("data", 2, q) BY <1>1, <1>4, <1>5 DEF w
<1> DEFINE s == rootDir_buf[q + 1]
<1>7. s.kind = "data" /\ s.at = 2 /\ s.sector = q BY <1>6 DEF Sector
<1>8. Entry(n) = disk.dir[s.sector * DirEntries + r + 1] BY <1>7 DEF Entry, q, r
<1>9. QED BY <1>4, <1>7, <1>8

-----------------------------------------------------------------------------
(* The inductive invariant: what each part of the loader has done so far.   *)

\* The window of the FAT that has cluster c's entry.
Window(d, c) ==
  [n \in 1..FatWindow |->
     Content(d, FatStart(d) + (c \div (FatEntries * FatWindow)) * FatWindow + n - 1)]

\* Memory after k clusters of the file.
Loaded(d, k) == [a \in Addresses |-> IF a - Buf \in 0..k * d.sectorsPerCluster - 1
                                       THEN FileSector(d, a - Buf) ELSE Junk]

Mounted ==
  /\ pc # "mbr" => lba = disk.lbaPartitionStart
  /\ pc \notin {"mbr", "bpb"} => bpb = [f \in Geometry |-> disk[f]]
  /\ pc \notin {"mbr", "bpb", "rootDir"} =>
       rootDir_buf = [n \in 1..disk.sectorsPerCluster |-> Sector("data", 2, n - 1)]

\* The scan has found what the entries so far have.
Scanned ==
  /\ pc \in {"mbr", "bpb", "rootDir"} =>
       entry = 0 /\ previous_entry_is_ext = FALSE /\ startCluster = 0
  /\ pc \in {"mbr", "bpb", "rootDir", "find"} => memory = [a \in Addresses |-> Junk]
  /\ pc = "find" =>
       /\ entry \in 0..Len(disk.dir) - 1
       /\ previous_entry_is_ext \in BOOLEAN
       /\ previous_entry_is_ext = TRUE <=> entry > 0 /\ disk.dir[entry].attributes = "ext"
       /\ startCluster = IF \E n \in 1..entry : Named(disk, n) THEN disk.file[1] ELSE 0

\* k clusters are read, and the next one is the chain's.
Progress(k) ==
  /\ file_offset = k * disk.sectorsPerCluster /\ memory = Loaded(disk, k)
  /\ pc = "fat" => file_cluster = IF k < Len(disk.file) THEN disk.file[k + 1] ELSE 0
  /\ pc = "cluster" => k < Len(disk.file) /\ file_cluster = disk.file[k + 1]
  /\ pc = "next" => k > 0 /\ file_cluster = disk.file[k]
  /\ pc # "fat" => fat_buf = Window(disk, file_cluster)

Reading == pc \in {"fat", "cluster", "next"} => \E k \in 0..Len(disk.file) : Progress(k)

Placed(d, m, k) == \A n \in 0..d.segments[k].p_filesz - 1 :
  m[d.segments[k].p_vaddr + n] = FileSector(d, d.segments[k].p_offset + n)

Copying ==
  /\ pc \in {"copy", "core_start"} =>
       /\ disk.file # <<>> /\ programHeaders = disk.segments /\ i \in Nat \ {0}
       /\ \A n \in 0..FileSize(disk) - 1 : memory[Buf + n] = FileSector(disk, n)
       /\ i = 1 => \A a \in Addresses \ (Buf..Buf + FileSize(disk) - 1) : memory[a] = Junk
       /\ \A k \in 1..Len(disk.segments) : k < i => Placed(disk, memory, k)
  /\ pc = "core_start" => i > Len(disk.segments)
  /\ pc = "undefined" => disk.file = <<>>

IInv == disk \in Disks /\ Mounted /\ Scanned /\ Reading /\ Copying

LEMMA FatTypes ==
  ASSUME NEW d \in Disks, NEW c \in DOMAIN d.fat
  PROVE  c \in Nat /\ d.fat[c] \in Nat
<1>1. d.fat \in [0..d.sectorsPerFAT * FatEntries - 1 -> Nat] BY LoaderAssumption DEF WellFormed
<1>2. d.sectorsPerFAT * FatEntries \in Nat BY Numbers, LoaderAssumption, Product
<1>3. QED BY <1>1, <1>2

\* The file's clusters, and what the FAT says of them.
LEMMA Chain ==
  ASSUME NEW d \in Disks
  PROVE  /\ Len(d.file) \in Nat /\ d.file \in Seq(Nat)
         /\ \A k \in 1..Len(d.file) : /\ d.file[k] \in DOMAIN d.fat /\ d.file[k] \in Nat
                                      /\ d.file[k] > 2 /\ d.file[k] < EndOfChain
         /\ \A k \in 1..Len(d.file) : k < Len(d.file) => (d.fat[d.file[k]] % Mask) = d.file[k + 1]
         /\ Len(d.file) > 0 => (d.fat[d.file[Len(d.file)]] % Mask) >= EndOfChain
<1>1. WellFormed(d) BY LoaderAssumption
<1>2. DOMAIN d.fat \subseteq Nat BY FatTypes
<1>3. d.file \in Seq(DOMAIN d.fat \ {0, 1, 2}) BY <1>1 DEF WellFormed
<1>4. Len(d.file) \in Nat /\ d.file \in Seq(Nat) BY <1>2, <1>3
<1>5. \A k \in 1..Len(d.file) : d.file[k] \in DOMAIN d.fat \ {0, 1, 2} BY <1>3
<1>6. \A k \in 1..Len(d.file) : d.file[k] < EndOfChain
  BY <1>1 DEF WellFormed
<1>7. \A k \in 1..Len(d.file) : k < Len(d.file) => (d.fat[d.file[k]] % Mask) = d.file[k + 1]
  BY <1>1, <1>4 DEF WellFormed
<1>8. Len(d.file) > 0 => (d.fat[d.file[Len(d.file)]] % Mask) >= EndOfChain
  <2>1. SUFFICES ASSUME Len(d.file) > 0 PROVE (d.fat[d.file[Len(d.file)]] % Mask) >= EndOfChain
    OBVIOUS
  <2>2. d.file # <<>> BY <2>1
  <2>3. (d.fat[d.file[Len(d.file)]] % Mask) \in EndOfChain..Mask - 1 BY <1>1, <2>2 DEF WellFormed
  <2>4. QED BY <2>3
<1>9. ASSUME NEW k \in 1..Len(d.file)
      PROVE  /\ d.file[k] \in DOMAIN d.fat /\ d.file[k] \in Nat
             /\ d.file[k] > 2 /\ d.file[k] < EndOfChain
  <2>1. d.file[k] \in DOMAIN d.fat \ {0, 1, 2} BY <1>5
  <2>2. d.file[k] \in Nat BY <1>2, <2>1
  <2>3. d.file[k] > 2 BY <2>1, <2>2
  <2>4. QED BY <1>6, <2>1, <2>2, <2>3
<1>10. QED BY <1>4, <1>7, <1>8, <1>9

-----------------------------------------------------------------------------
(* Each step keeps the invariant.                                           *)

LEMMA InitIInv == Init => IInv
<1> SUFFICES ASSUME Init PROVE IInv OBVIOUS
<1>1. disk \in Disks /\ Mounted /\ Scanned BY DEF Init, Mounted, Scanned
<1>2. Reading /\ Copying BY DEF Init, Reading, Copying
<1>3. QED BY <1>1, <1>2 DEF IInv

LEMMA Step_parse_MBR == IInv /\ parse_MBR => IInv'
<1> SUFFICES ASSUME IInv, parse_MBR PROVE IInv' OBVIOUS
<1>1. disk' = disk /\ disk \in Disks /\ pc = "mbr" /\ pc' = "bpb" BY DEF IInv, parse_MBR
<1>2. lba' = disk.lbaPartitionStart BY <1>1, ContentBoot DEF parse_MBR, Sector
<1>3. Mounted' BY <1>1, <1>2 DEF Mounted
<1>4. Scanned' BY <1>1 DEF IInv, Scanned, parse_MBR, scanning
<1>5. Reading' /\ Copying' BY <1>1 DEF Reading, Copying
<1>6. QED BY <1>1, <1>3, <1>4, <1>5 DEF IInv

LEMMA Step_parse_BPB_EBR == IInv /\ parse_BPB_EBR => IInv'
<1> SUFFICES ASSUME IInv, parse_BPB_EBR PROVE IInv' OBVIOUS
<1>1. disk' = disk /\ disk \in Disks /\ pc = "bpb" /\ pc' = "rootDir" /\ lba' = lba
  BY DEF IInv, parse_BPB_EBR
<1>2. lba = disk.lbaPartitionStart BY <1>1 DEF IInv, Mounted
<1>3. bpb' = [f \in Geometry |-> disk[f]] BY <1>1, <1>2, ContentBoot DEF parse_BPB_EBR, Sector
<1>4. Mounted' BY <1>1, <1>2, <1>3 DEF Mounted
<1>5. Scanned' BY <1>1 DEF IInv, Scanned, parse_BPB_EBR, scanning
<1>6. Reading' /\ Copying' BY <1>1 DEF Reading, Copying
<1>7. QED BY <1>1, <1>4, <1>5, <1>6 DEF IInv

\* What has been mounted is where the disk has it.
LEMMA Places ==
  ASSUME disk \in Disks, Mounted, pc \notin {"mbr", "bpb"}
  PROVE  /\ bpb.sectorsPerCluster = disk.sectorsPerCluster
         /\ fat_sector = FatStart(disk) /\ rootDir_sector = DataStart(disk)
<1>1. lba = disk.lbaPartitionStart /\ bpb = [f \in Geometry |-> disk[f]] BY DEF Mounted
<1>2. /\ bpb.sectorsPerCluster = disk.sectorsPerCluster /\ bpb.reservedSectors = disk.reservedSectors
      /\ bpb.numberOfFATs = disk.numberOfFATs /\ bpb.sectorsPerFAT = disk.sectorsPerFAT
  BY <1>1 DEF Geometry
<1>3. QED BY <1>1, <1>2 DEF fat_sector, rootDir_sector, FatStart, DataStart

LEMMA Step_read_rootDir == IInv /\ read_rootDir => IInv'
<1> SUFFICES ASSUME IInv, read_rootDir PROVE IInv' OBVIOUS
<1>1. /\ disk' = disk /\ disk \in Disks /\ pc = "rootDir" /\ pc' = "find" /\ lba' = lba /\ bpb' = bpb
      /\ entry' = entry /\ previous_entry_is_ext' = previous_entry_is_ext
      /\ startCluster' = startCluster /\ memory' = memory
  BY DEF IInv, read_rootDir, scanning
<1> DEFINE w == disk.sectorsPerCluster
<1>2. w \in Nat \ {0} /\ DataStart(disk) \in Nat BY <1>1, Numbers
<1>3. bpb.sectorsPerCluster = w /\ rootDir_sector = DataStart(disk) BY <1>1, Places DEF IInv
<1>4. \A n \in 1..w : Content(disk, DataStart(disk) + n - 1) = Sector("data", 2, n - 1)
  <2> SUFFICES ASSUME NEW n \in 1..w
               PROVE  Content(disk, DataStart(disk) + n - 1) = Sector("data", 2, n - 1)
    OBVIOUS
  <2>1. n - 1 \in 0..w - 1 /\ DataStart(disk) + 0 * w + (n - 1) = DataStart(disk) + n - 1 BY <1>2
  <2>2. Content(disk, DataStart(disk) + 0 * w + (n - 1)) = Sector("data", 0 + 2, n - 1)
    BY <1>1, <2>1, ContentData, 0 \in Nat
  <2>3. QED BY <2>1, <2>2
<1>5. rootDir_buf' = [n \in 1..w |-> Sector("data", 2, n - 1)]
  <2>1. rootDir_buf' = [n \in 1..w |-> Content(disk, DataStart(disk) + n - 1)]
    BY <1>3 DEF read_rootDir, EHCI_Read
  <2>2. QED BY <1>4, <2>1
<1>6. Mounted' BY <1>1, <1>5 DEF IInv, Mounted
<1>7. 0 \in 0..Len(disk.dir) - 1
  <2>1. disk.dir \in Seq(Entries) /\ disk.dir # <<>> BY <1>1, LoaderAssumption DEF WellFormed
  <2>2. QED BY <2>1
<1>8. Scanned'
  <2>1. entry = 0 /\ previous_entry_is_ext = FALSE /\ startCluster = 0
        /\ memory = [a \in Addresses |-> Junk]
    BY <1>1 DEF IInv, Scanned
  <2>2. /\ entry' = 0 /\ previous_entry_is_ext' = FALSE /\ startCluster' = 0
        /\ memory' = [a \in Addresses |-> Junk]
    BY <1>1, <2>1
  <2>3. startCluster' = IF \E n \in 1..entry' : Named(disk', n) THEN disk'.file[1] ELSE 0
    BY <2>2
  <2>4. entry' \in 0..Len(disk'.dir) - 1 BY <1>1, <1>7, <2>2
  <2>5. ~(entry' > 0) BY <2>2
  <2>6. previous_entry_is_ext' \in BOOLEAN /\ previous_entry_is_ext' # TRUE BY <2>2, Zenon
  <2>7. QED BY <1>1, <2>2, <2>3, <2>4, <2>5, <2>6, Zenon DEF Scanned
<1>9. Reading' /\ Copying' BY <1>1 DEF Reading, Copying
<1>10. QED BY <1>1, <1>6, <1>8, <1>9 DEF IInv

\* The directory: the entry looked at, and that the last one is the only end.
LEMMA Directory ==
  ASSUME IInv, pc = "find"
  PROVE  /\ Entry(entry) = disk.dir[entry + 1] /\ Len(disk.dir) \in Nat
         /\ entry \in 0..Len(disk.dir) - 1
         /\ disk.dir[entry + 1].attributes # "none" => entry + 1 \in 0..Len(disk.dir) - 1
         /\ disk.dir[entry + 1].attributes = "none" => entry + 1 = Len(disk.dir)
<1>1. disk \in Disks /\ entry \in 0..Len(disk.dir) - 1 BY DEF IInv, Scanned
<1>2. rootDir_buf = [m \in 1..disk.sectorsPerCluster |-> Sector("data", 2, m - 1)] BY DEF IInv, Mounted
<1>3. Entry(entry) = disk.dir[entry + 1] BY <1>1, <1>2, EntryIs
<1>4. WellFormed(disk) BY <1>1, LoaderAssumption
<1>5. disk.dir \in Seq(Entries) BY <1>4 DEF WellFormed
<1>6. Len(disk.dir) \in Nat BY <1>5
<1>7. \A n \in 1..Len(disk.dir) : disk.dir[n].attributes = "none" <=> n = Len(disk.dir)
  BY <1>4 DEF WellFormed
<1>8. entry + 1 \in 1..Len(disk.dir) BY <1>1, <1>6
<1>9. QED BY <1>1, <1>3, <1>6, <1>7, <1>8

\* What a step of the scan has to show.
LEMMA ScanStep ==
  ASSUME IInv, pc = "find", pc' = "find", entry' = entry + 1,
         disk' = disk, lba' = lba, bpb' = bpb, rootDir_buf' = rootDir_buf, memory' = memory,
         disk.dir[entry + 1].attributes # "none",
         previous_entry_is_ext' \in BOOLEAN,
         previous_entry_is_ext' = TRUE <=> disk.dir[entry + 1].attributes = "ext",
         startCluster' = IF Named(disk, entry + 1) THEN disk.file[1] ELSE startCluster
  PROVE  IInv'
<1>1. disk \in Disks BY DEF IInv
<1>2. Mounted' BY DEF IInv, Mounted
<1>3. entry' \in 0..Len(disk'.dir) - 1 /\ entry \in Nat BY Directory
<1>4. entry' > 0 BY <1>3
<1>5. startCluster' = IF \E n \in 1..entry' : Named(disk', n) THEN disk'.file[1] ELSE 0
  <2>1. startCluster = IF \E n \in 1..entry : Named(disk, n) THEN disk.file[1] ELSE 0
    BY DEF IInv, Scanned
  <2>2. (\E n \in 1..entry + 1 : Named(disk, n))
          <=> (\E n \in 1..entry : Named(disk, n)) \/ Named(disk, entry + 1)
    <3>1. \A n : n \in 1..entry + 1 <=> n \in 1..entry \/ n = entry + 1 BY <1>3
    <3>2. QED BY <3>1, Zenon
  <2>3. QED BY <2>1, <2>2
<1>6. memory' = [a \in Addresses |-> Junk] BY DEF IInv, Scanned
<1>7. previous_entry_is_ext' = TRUE <=> entry' > 0 /\ disk'.dir[entry'].attributes = "ext"
  BY <1>4, Zenon
<1>8. Scanned' BY <1>3, <1>5, <1>6, <1>7, Zenon DEF Scanned
<1>9. Reading' /\ Copying' BY DEF Reading, Copying
<1>10. QED BY <1>1, <1>2, <1>8, <1>9 DEF IInv

LEMMA Step_parse_directory_findA_ext == IInv /\ parse_directory_findA_ext => IInv'
<1> SUFFICES ASSUME IInv, parse_directory_findA_ext PROVE IInv' OBVIOUS
<1>1. /\ pc = "find" /\ pc' = pc /\ disk' = disk /\ entry' = entry + 1
      /\ lba' = lba /\ bpb' = bpb /\ rootDir_buf' = rootDir_buf /\ memory' = memory
      /\ previous_entry_is_ext' = TRUE /\ startCluster' = startCluster
      /\ Entry(entry).attributes = "ext"
  BY DEF parse_directory_findA_ext, mounting
<1>2. disk.dir[entry + 1].attributes = "ext" BY <1>1, Directory
<1>3. ~Named(disk, entry + 1) BY <1>2 DEF Named
<1>4. QED BY <1>1, <1>2, <1>3, ScanStep

LEMMA Step_parse_directory_findA_file == IInv /\ parse_directory_findA_file => IInv'
<1> SUFFICES ASSUME IInv, parse_directory_findA_file PROVE IInv' OBVIOUS
<1> DEFINE e == disk.dir[entry + 1]
<1>1. /\ pc = "find" /\ pc' = pc /\ disk' = disk /\ entry' = entry + 1
      /\ lba' = lba /\ bpb' = bpb /\ rootDir_buf' = rootDir_buf /\ memory' = memory
      /\ previous_entry_is_ext' = FALSE /\ startCluster' = StartAt(Entry(entry))
      /\ Entry(entry).attributes = "file"
  BY DEF parse_directory_findA_file, mounting
<1>2. Entry(entry) = e /\ e.attributes = "file" /\ entry + 1 \in 1..Len(disk.dir) /\ entry \in Nat
  BY <1>1, Directory
<1>3. /\ previous_entry_is_ext \in BOOLEAN
      /\ previous_entry_is_ext = TRUE <=> entry > 0 /\ disk.dir[entry].attributes = "ext"
  BY <1>1 DEF IInv, Scanned
<1>4. Named(disk, entry + 1) <=> e.filename \in Matching /\ ~(entry > 0 /\ disk.dir[entry].attributes = "ext")
  <2>1. entry + 1 > 1 <=> entry > 0 BY <1>2
  <2>2. (entry + 1) - 1 = entry BY <1>2
  <2>3. QED BY <1>2, <2>1, <2>2 DEF Named
<1>5. Named(disk, entry + 1) <=> ~previous_entry_is_ext /\ e.filename \in Matching
  BY <1>3, <1>4, Zenon
<1>6. Named(disk, entry + 1) => e.high * Half + e.low = disk.file[1]
  BY <1>2, LoaderAssumption DEF IInv, WellFormed
<1>7. startCluster' = IF Named(disk, entry + 1) THEN disk.file[1] ELSE startCluster
  BY <1>1, <1>2, <1>5, <1>6, Zenon DEF StartAt
<1>8. e.attributes # "none" /\ ~(e.attributes = "ext") BY <1>2
<1>9. QED BY <1>1, <1>7, <1>8, ScanStep

LEMMA Step_parse_directory_findA_return == IInv /\ parse_directory_findA_return => IInv'
<1> SUFFICES ASSUME IInv, parse_directory_findA_return PROVE IInv' OBVIOUS
<1>1. /\ pc = "find" /\ pc' = "fat" /\ disk' = disk /\ disk \in Disks
      /\ lba' = lba /\ bpb' = bpb /\ rootDir_buf' = rootDir_buf /\ memory' = memory
      /\ file_cluster' = startCluster /\ file_offset' = 0 /\ Entry(entry).attributes = "none"
  BY DEF IInv, parse_directory_findA_return, mounting
<1>2. Mounted' /\ Scanned' /\ Copying' BY <1>1 DEF IInv, Mounted, Scanned, Copying
<1>3. entry + 1 = Len(disk.dir) /\ disk.dir[entry + 1].attributes = "none" BY <1>1, Directory
<1>4. startCluster = IF \E n \in 1..entry : Named(disk, n) THEN disk.file[1] ELSE 0
  BY <1>1 DEF IInv, Scanned
<1>5. (\E n \in 1..entry : Named(disk, n)) <=> disk.file # <<>>
  <2>1. WellFormed(disk) BY <1>1, LoaderAssumption
  <2>2. ~Named(disk, entry + 1) BY <1>3 DEF Named
  <2>3. entry \in Nat BY <1>1, Directory
  <2>4. \A n \in 1..Len(disk.dir) : n \in 1..entry \/ n = entry + 1 BY <1>3, <2>3
  <2>5. \A n \in 1..entry : n \in 1..Len(disk.dir) BY <1>3, <2>3
  <2>6. QED BY <2>1, <2>2, <2>4, <2>5 DEF WellFormed
<1>6. Len(disk.file) \in Nat /\ (disk.file # <<>> <=> 0 < Len(disk.file)) BY <1>1, Chain
<1>7. startCluster = IF 0 < Len(disk.file) THEN disk.file[0 + 1] ELSE 0 BY <1>4, <1>5, <1>6
<1>8. Loaded(disk, 0) = [a \in Addresses |-> Junk]
  <2>1. 0 * disk.sectorsPerCluster = 0 BY <1>1, Numbers
  <2>2. \A a \in Addresses : ~(a - Buf \in 0..0 - 1) BY LoaderAssumption DEF Addresses
  <2>3. QED BY <2>1, <2>2 DEF Loaded
<1>9. file_offset' = 0 * disk.sectorsPerCluster BY <1>1, Numbers
<1>10. memory' = Loaded(disk, 0) BY <1>1, <1>8 DEF IInv, Scanned
<1>11. Progress(0)' BY <1>1, <1>7, <1>9, <1>10 DEF Progress
<1>12. Reading' BY <1>1, <1>6, <1>11 DEF Reading
<1>13. QED BY <1>1, <1>2, <1>12 DEF IInv

LEMMA Step_read_fileA_fat == IInv /\ read_fileA_fat => IInv'
<1> SUFFICES ASSUME IInv, read_fileA_fat PROVE IInv' OBVIOUS
<1>1. /\ pc = "fat" /\ pc' = "cluster" /\ disk' = disk /\ disk \in Disks /\ file_cluster # 0
      /\ lba' = lba /\ bpb' = bpb /\ rootDir_buf' = rootDir_buf /\ memory' = memory
      /\ file_cluster' = file_cluster /\ file_offset' = file_offset
  BY DEF IInv, read_fileA_fat, mounting
<1>2. Mounted' /\ Scanned' /\ Copying' BY <1>1 DEF IInv, Mounted, Scanned, Copying
<1>3. PICK k \in 0..Len(disk.file) : Progress(k) BY <1>1 DEF IInv, Reading
<1>4. k < Len(disk.file) /\ file_cluster = disk.file[k + 1] BY <1>1, <1>3 DEF Progress
<1>5. fat_sector = FatStart(disk) BY <1>1, Places DEF IInv
<1>6. fat_buf' = Window(disk, file_cluster)
  BY <1>5 DEF read_fileA_fat, EHCI_Read, fat_offset, Window
<1>7. Progress(k)' BY <1>1, <1>3, <1>4, <1>6 DEF Progress
<1>8. Reading' BY <1>1, <1>7 DEF Reading
<1>9. QED BY <1>1, <1>2, <1>8 DEF IInv

\* The next cluster goes behind those already read.
LEMMA OneMore ==
  ASSUME NEW d \in Disks, NEW k \in 0..Len(d.file), k < Len(d.file), memory = Loaded(d, k),
         NEW s, s = [n \in 1..d.sectorsPerCluster |->
                       Content(d, DataStart(d) + (d.file[k + 1] - 2) * d.sectorsPerCluster + n - 1)]
  PROVE  Overwritten(Buf + k * d.sectorsPerCluster, s) = Loaded(d, k + 1)
<1> DEFINE w == d.sectorsPerCluster
           c == d.file[k + 1]
           to == Buf + k * w
<1>1. w \in Nat \ {0} /\ DataStart(d) \in Nat BY Numbers
<1>2. Len(d.file) \in Nat /\ c \in Nat /\ c > 2 BY Chain
<1>3. k \in Nat /\ k * w \in Nat /\ (k + 1) * w = k * w + w
  <2>1. k \in Nat BY <1>2
  <2>2. QED BY <1>1, <2>1, Product, NextMultiple
<1>4. Len(s) = w BY <1>1
<1>5. Buf \in Nat /\ Addresses \subseteq Nat BY LoaderAssumption DEF Addresses
<1> HIDE DEF w, c
<1>6. ASSUME NEW a \in Addresses, a - to + 1 \in 1..w
      PROVE  s[a - to + 1] = FileSector(d, a - Buf) /\ a - Buf \in 0..(k + 1) * w - 1
  <2> DEFINE r == a - to
  <2>1. r \in 0..w - 1 /\ a - Buf = k * w + r BY <1>1, <1>3, <1>5, <1>6
  <2>2. (k * w + r) \div w = k /\ (k * w + r) % w = r BY <1>1, <1>3, <2>1, Recovered
  <2>3. FileSector(d, a - Buf) = Sector("data", c, r) BY <2>1, <2>2 DEF FileSector, w, c
  <2>4. s[r + 1] = Content(d, DataStart(d) + (c - 2) * w + (r + 1) - 1)
    <3>1. r + 1 \in 1..w BY <1>1, <2>1
    <3>2. QED BY <3>1 DEF w, c
  <2>5. c - 2 \in Nat /\ (c - 2) * w \in Nat BY <1>1, <1>2, Product
  <2>6. DataStart(d) + (c - 2) * w + (r + 1) - 1 = DataStart(d) + (c - 2) * w + r
    BY <1>1, <2>1, <2>5
  <2>7. Content(d, DataStart(d) + (c - 2) * w + r) = Sector("data", (c - 2) + 2, r)
    BY <2>1, <2>5, ContentData DEF w
  <2>8. (c - 2) + 2 = c BY <1>2
  <2>9. a - Buf \in 0..(k + 1) * w - 1 BY <1>1, <1>3, <2>1
  <2>10. QED BY <2>3, <2>4, <2>6, <2>7, <2>8, <2>9
<1>7. ASSUME NEW a \in Addresses, a - to + 1 \notin 1..w
      PROVE  a - Buf \in 0..k * w - 1 <=> a - Buf \in 0..(k + 1) * w - 1
  BY <1>1, <1>3, <1>5, <1>7
<1>8. \A a \in Addresses : memory[a] = IF a - Buf \in 0..k * w - 1 THEN FileSector(d, a - Buf) ELSE Junk
  BY DEF Loaded, w
<1>9. \A a \in Addresses : (IF a - to + 1 \in 1..Len(s) THEN s[a - to + 1] ELSE memory[a])
                          = IF a - Buf \in 0..(k + 1) * w - 1 THEN FileSector(d, a - Buf) ELSE Junk
  <2> SUFFICES ASSUME NEW a \in Addresses
               PROVE  (IF a - to + 1 \in 1..w THEN s[a - to + 1] ELSE memory[a])
                        = IF a - Buf \in 0..(k + 1) * w - 1 THEN FileSector(d, a - Buf) ELSE Junk
    BY <1>4
  <2>1. CASE a - to + 1 \in 1..w BY <2>1, <1>6
  <2>2. CASE a - to + 1 \notin 1..w BY <2>2, <1>7, <1>8
  <2>3. QED BY <2>1, <2>2
<1>10. QED BY <1>9 DEF Overwritten, Loaded, w

LEMMA Step_read_fileA_cluster == IInv /\ read_fileA_cluster => IInv'
<1> SUFFICES ASSUME IInv, read_fileA_cluster PROVE IInv' OBVIOUS
<1> DEFINE w == disk.sectorsPerCluster
<1>1. /\ pc = "cluster" /\ pc' = "next" /\ disk' = disk /\ disk \in Disks
      /\ lba' = lba /\ bpb' = bpb /\ rootDir_buf' = rootDir_buf
      /\ file_cluster' = file_cluster /\ fat_buf' = fat_buf
  BY DEF IInv, read_fileA_cluster, mounting
<1>2. Mounted' /\ Scanned' /\ Copying' BY <1>1 DEF IInv, Mounted, Scanned, Copying
<1>3. PICK k \in 0..Len(disk.file) : Progress(k) BY <1>1 DEF IInv, Reading
<1>4. /\ k < Len(disk.file) /\ file_cluster = disk.file[k + 1] /\ memory = Loaded(disk, k)
      /\ file_offset = k * w /\ fat_buf = Window(disk, file_cluster)
  BY <1>1, <1>3 DEF Progress
<1>5. bpb.sectorsPerCluster = w /\ rootDir_sector = DataStart(disk) BY <1>1, Places DEF IInv
<1>6. memory' = Loaded(disk, k + 1)
  <2>1. memory' = Overwritten(Buf + k * w, EHCI_Read(DataStart(disk) + (disk.file[k + 1] - 2) * w, w))
    BY <1>4, <1>5 DEF read_fileA_cluster, cluster_lba
  <2>2. EHCI_Read(DataStart(disk) + (disk.file[k + 1] - 2) * w, w)
          = [n \in 1..w |-> Content(disk, DataStart(disk) + (disk.file[k + 1] - 2) * w + n - 1)]
    BY DEF EHCI_Read
  <2>3. QED BY <1>1, <1>4, <2>1, <2>2, OneMore
<1>7. k + 1 \in 0..Len(disk.file) /\ k \in Nat /\ Len(disk.file) \in Nat BY <1>1, <1>4, Chain
<1>8. file_offset' = (k + 1) * w
  <2>1. w \in Nat \ {0} BY <1>1, Numbers
  <2>2. (k + 1) * w = k * w + w /\ (k + 1) * w \in Nat BY <1>7, <2>1, Product, NextMultiple
  <2>3. (k + 1) * w <= Len(disk.file) * w BY <1>7, <2>1, Monotone
  <2>4. Buf + Len(disk.file) * w < Word BY <1>1, LoaderAssumption DEF WellFormed
  <2>5. Len(disk.file) * w \in Nat BY <1>7, <2>1, Product
  <2>6. Buf \in Nat /\ Word \in Nat BY LoaderAssumption DEF Addresses
  <2>7. (k + 1) * w \in 0..Word - 1 /\ Word \in Nat \ {0} BY <2>2, <2>3, <2>4, <2>5, <2>6
  <2>8. (k * w + w) % Word = k * w + w BY <2>2, <2>7, Small
  <2>9. QED BY <1>4, <1>5, <2>2, <2>8 DEF read_fileA_cluster
<1>9. k + 1 > 0 /\ (k + 1) \in 0..Len(disk.file) BY <1>7
<1>10. Progress(k + 1)' BY <1>1, <1>4, <1>6, <1>8, <1>9 DEF Progress
<1>11. Reading' BY <1>1, <1>9, <1>10 DEF Reading
<1>12. QED BY <1>1, <1>2, <1>11 DEF IInv

\* The entry taken from the window is the cluster's.
LEMMA NextCluster ==
  ASSUME disk \in Disks, file_cluster \in DOMAIN disk.fat, fat_buf = Window(disk, file_cluster)
  PROVE  next_cluster = disk.fat[file_cluster] % Mask
<1> DEFINE w == file_cluster \div (FatEntries * FatWindow)
           e == file_cluster % (FatEntries * FatWindow)
           q == e \div FatEntries
<1>1. PICK n \in Nat :
        /\ q + 1 \in 1..FatWindow
        /\ Content(disk, FatStart(disk) + w * FatWindow + q) = Sector("fat", n, 0)
        /\ n * FatEntries + (e % FatEntries) = file_cluster
  <2> HIDE DEF w, e
  <2>1. w = file_cluster \div (FatEntries * FatWindow) /\ e = file_cluster % (FatEntries * FatWindow)
    BY DEF w, e
  <2>2. QED BY <2>1, WindowEntry
<1>2. fat_buf[q + 1] = Content(disk, FatStart(disk) + w * FatWindow + (q + 1) - 1)
  <2> HIDE DEF q
  <2>1. QED BY <1>1 DEF Window, w
<1>3. FatStart(disk) + w * FatWindow + (q + 1) - 1 = FatStart(disk) + w * FatWindow + q
  <2>1. FatEntries \in Nat \ {0} /\ FatWindow \in Nat \ {0} BY LoaderAssumption
  <2>2. file_cluster \in Nat BY FatTypes
  <2>3. FatEntries * FatWindow \in Nat \ {0} BY <2>1, SMT
  <2>4. w \in Nat BY <2>2, <2>3, Division
  <2>5. w * FatWindow \in Nat BY <2>1, <2>4, Product
  <2>6. FatStart(disk) \in Nat BY Numbers
  <2>7. q \in Nat
    <3>1. e \in Nat BY <2>2, <2>3, Division
    <3> HIDE DEF e
    <3>2. QED BY <3>1, <2>1, Division
  <2> HIDE DEF q, w
  <2>8. QED BY <2>5, <2>6, <2>7
<1>4. fat_buf[q + 1].kind = "fat" /\ fat_buf[q + 1].at = n BY <1>1, <1>2, <1>3 DEF Sector
<1>5. QED BY <1>1, <1>4 DEF next_cluster

LEMMA Step_read_fileA_next == IInv /\ read_fileA_next => IInv'
<1> SUFFICES ASSUME IInv, read_fileA_next PROVE IInv' OBVIOUS
<1>1. /\ pc = "next" /\ pc' = "fat" /\ disk' = disk /\ disk \in Disks
      /\ lba' = lba /\ bpb' = bpb /\ rootDir_buf' = rootDir_buf /\ memory' = memory
      /\ file_offset' = file_offset
  BY DEF IInv, read_fileA_next, mounting
<1>2. Mounted' /\ Scanned' /\ Copying' BY <1>1 DEF IInv, Mounted, Scanned, Copying
<1>3. PICK k \in 0..Len(disk.file) : Progress(k) BY <1>1 DEF IInv, Reading
<1>4. /\ k > 0 /\ file_cluster = disk.file[k] /\ memory = Loaded(disk, k)
      /\ file_offset = k * disk.sectorsPerCluster /\ fat_buf = Window(disk, file_cluster)
  BY <1>1, <1>3 DEF Progress
<1>5. Len(disk.file) \in Nat /\ k \in 1..Len(disk.file) BY <1>1, <1>4, Chain
<1>6. file_cluster \in DOMAIN disk.fat BY <1>1, <1>4, <1>5, Chain
<1>7. next_cluster = disk.fat[disk.file[k]] % Mask BY <1>1, <1>4, <1>6, NextCluster
<1>8. file_cluster' = IF k < Len(disk.file) THEN disk.file[k + 1] ELSE 0
  <2>1. CASE k < Len(disk.file)
    <3>1. next_cluster = disk.file[k + 1] BY <1>1, <1>5, <1>7, <2>1, Chain
    <3>2. k + 1 \in 1..Len(disk.file) BY <1>5, <2>1
    <3>3. next_cluster < EndOfChain BY <1>1, <3>1, <3>2, Chain
    <3>4. QED BY <2>1, <3>1, <3>3 DEF read_fileA_next
  <2>2. CASE k = Len(disk.file)
    <3>1. next_cluster >= EndOfChain BY <1>1, <1>5, <1>7, <2>2, Chain, SMTT(30)
    <3>2. next_cluster \in Int
      <4>1. disk.fat[disk.file[k]] \in Nat BY <1>1, <1>4, <1>6, FatTypes
      <4>2. Mask \in Nat \ {0} BY LoaderAssumption
      <4>3. QED BY <1>7, <4>1, <4>2, Division
    <3>3. ~(next_cluster < EndOfChain) BY <3>1, <3>2, LoaderAssumption
    <3>4. QED BY <2>2, <3>3, <1>5 DEF read_fileA_next
  <2>3. QED BY <1>5, <2>1, <2>2
<1>9. Progress(k)' BY <1>1, <1>4, <1>8 DEF Progress
<1>10. Reading' BY <1>1, <1>9 DEF Reading
<1>11. QED BY <1>1, <1>2, <1>10 DEF IInv

\* All clusters read: the buffer is the file, and there is a file or there is not.
LEMMA AllLoaded ==
  ASSUME NEW d \in Disks, memory = Loaded(d, Len(d.file))
  PROVE  /\ \A n \in 0..FileSize(d) - 1 : memory[Buf + n] = FileSector(d, n)
         /\ \A a \in Addresses \ (Buf..Buf + FileSize(d) - 1) : memory[a] = Junk
         /\ d.file # <<>> => memory[Buf] = Sector("data", d.file[1], 0)
<1> DEFINE w == d.sectorsPerCluster
           size == FileSize(d)
<1>1. w \in Nat \ {0} /\ Len(d.file) \in Nat BY Numbers, Chain
<1>2. size \in Nat /\ size = Len(d.file) * w BY <1>1, Product DEF FileSize
<1>3. Buf \in Nat /\ Word \in Nat /\ Buf + size < Word
  <2>1. Buf + Len(d.file) * w < Word BY LoaderAssumption DEF WellFormed
  <2>2. QED BY <1>2, <2>1, LoaderAssumption DEF Addresses
<1>4. \A a \in Addresses : memory[a] = IF a - Buf \in 0..size - 1 THEN FileSector(d, a - Buf) ELSE Junk
  BY <1>2 DEF Loaded
<1> HIDE DEF size
<1>5. ASSUME NEW n \in 0..size - 1
      PROVE  memory[Buf + n] = FileSector(d, n)
  <2>1. Buf + n \in Addresses /\ (Buf + n) - Buf = n BY <1>2, <1>3 DEF Addresses
  <2>2. QED BY <1>4, <2>1
<1>6. ASSUME NEW a \in Addresses \ (Buf..Buf + size - 1)
      PROVE  memory[a] = Junk
  <2>1. ~(a - Buf \in 0..size - 1) BY <1>2, <1>3 DEF Addresses
  <2>2. QED BY <1>4, <2>1
<1>7. ASSUME d.file # <<>>
      PROVE  memory[Buf] = Sector("data", d.file[1], 0)
  <2>1. Len(d.file) > 0 BY <1>1, <1>7, Chain
  <2>2. size >= w
    <3>1. Len(d.file) * w >= 1 * w BY <1>1, <2>1, Monotone
    <3>2. 1 * w = w BY <1>1
    <3>3. QED BY <1>2, <3>1, <3>2
  <2>3. 0 \in 0..size - 1 BY <1>1, <1>2, <2>2
  <2>4. memory[Buf + 0] = FileSector(d, 0) BY <2>3, <1>5
  <2>5. 0 \div w = 0 /\ 0 % w = 0
    <3>1. 0 \in 0..w - 1 BY <1>1
    <3>2. QED BY <1>1, <3>1, Small
  <2>6. Buf + 0 = Buf BY <1>3
  <2>7. QED BY <2>4, <2>5, <2>6 DEF FileSector
<1>8. QED BY <1>5, <1>6, <1>7 DEF size

LEMMA Step_parse_ELF == IInv /\ parse_ELF => IInv'
<1> SUFFICES ASSUME IInv, parse_ELF PROVE IInv' OBVIOUS
<1>1. /\ pc = "fat" /\ file_cluster = 0 /\ disk' = disk /\ disk \in Disks
      /\ lba' = lba /\ bpb' = bpb /\ rootDir_buf' = rootDir_buf /\ memory' = memory /\ i' = 1
  BY DEF IInv, parse_ELF, mounting
<1>2. pc' \in {"copy", "undefined"} BY DEF parse_ELF
<1>3. PICK k \in 0..Len(disk.file) : Progress(k) BY <1>1 DEF IInv, Reading
<1>4. k = Len(disk.file)
  <2> SUFFICES ASSUME k < Len(disk.file) PROVE FALSE BY <1>1, Chain
  <2>1. file_cluster = disk.file[k + 1] BY <1>1, <1>3 DEF Progress
  <2>2. k + 1 \in 1..Len(disk.file) BY <1>1, Chain
  <2>3. disk.file[k + 1] > 2 BY <1>1, <2>2, Chain
  <2>4. QED BY <1>1, <2>1, <2>3
<1>5. memory = Loaded(disk, Len(disk.file)) BY <1>3, <1>4 DEF Progress
<1>6. /\ \A n \in 0..FileSize(disk) - 1 : memory[Buf + n] = FileSector(disk, n)
      /\ \A a \in Addresses \ (Buf..Buf + FileSize(disk) - 1) : memory[a] = Junk
      /\ disk.file # <<>> => memory[Buf] = Sector("data", disk.file[1], 0)
  BY <1>1, <1>5, AllLoaded
<1>7. IF disk.file # <<>> THEN pc' = "copy" /\ programHeaders' = disk.segments ELSE pc' = "undefined"
  BY <1>6 DEF parse_ELF
<1>8. Mounted' /\ Scanned' /\ Reading' BY <1>1, <1>2 DEF IInv, Mounted, Scanned, Reading
<1>9. \A m \in 1..Len(disk.segments) : ~(m < 1) OBVIOUS
<1>10. ASSUME disk.file # <<>> PROVE Copying'
  <2>1. pc' = "copy" /\ programHeaders' = disk.segments /\ i' \in Nat \ {0} BY <1>1, <1>7, <1>10
  <2>2. \A n \in 0..FileSize(disk') - 1 : memory'[Buf + n] = FileSector(disk', n) BY <1>1, <1>6
  <2>3. \A a \in Addresses \ (Buf..Buf + FileSize(disk') - 1) : memory'[a] = Junk BY <1>1, <1>6
  <2>4. \A m \in 1..Len(disk'.segments) : ~(m < i') BY <1>1, <1>9
  <2>5. QED BY <1>1, <1>10, <2>1, <2>2, <2>3, <2>4 DEF Copying
<1>11. ASSUME disk.file = <<>> PROVE Copying'
  <2>1. pc' = "undefined" BY <1>7, <1>11
  <2>2. QED BY <1>1, <1>11, <2>1 DEF Copying
<1>12. Copying' BY <1>10, <1>11
<1>13. QED BY <1>1, <1>8, <1>12 DEF IInv

LEMMA Step_core_start == IInv /\ core_start => IInv'
<1> SUFFICES ASSUME IInv, core_start PROVE IInv' OBVIOUS
<1>1. /\ pc = "copy" /\ pc' = "core_start" /\ disk' = disk /\ disk \in Disks /\ i > Len(programHeaders)
      /\ lba' = lba /\ bpb' = bpb /\ rootDir_buf' = rootDir_buf /\ memory' = memory
      /\ i' = i /\ programHeaders' = programHeaders
  BY DEF IInv, core_start, mounting, program
<1>2. Mounted' /\ Scanned' /\ Reading' BY <1>1 DEF IInv, Mounted, Scanned, Reading
<1>3. Copying' BY <1>1 DEF IInv, Copying, FileSize, FileSector, Placed
<1>4. QED BY <1>1, <1>2, <1>3 DEF IInv

LEMMA Stutter == IInv /\ UNCHANGED vars => IInv'
<1> SUFFICES ASSUME IInv, UNCHANGED vars PROVE IInv' OBVIOUS
<1>1. /\ pc' = pc /\ disk' = disk /\ disk \in Disks
      /\ lba' = lba /\ bpb' = bpb /\ rootDir_buf' = rootDir_buf /\ memory' = memory
      /\ entry' = entry /\ previous_entry_is_ext' = previous_entry_is_ext /\ startCluster' = startCluster
      /\ fat_buf' = fat_buf /\ file_cluster' = file_cluster /\ file_offset' = file_offset
      /\ i' = i /\ programHeaders' = programHeaders
  BY DEF IInv, vars, mounting, scanning, reading, program
<1>2. Mounted' BY <1>1 DEF IInv, Mounted
<1>3. Scanned' BY <1>1 DEF IInv, Scanned
<1>4. Reading' BY <1>1 DEF IInv, Reading, Progress
<1>5. Copying' BY <1>1 DEF IInv, Copying
<1>6. QED BY <1>1, <1>2, <1>3, <1>4, <1>5 DEF IInv

\* A segment's copy puts it in place, and leaves the file and the segments
\* copied before as they were.
LEMMA OneSegment ==
  ASSUME NEW d \in Disks, NEW k \in 1..Len(d.segments),
         \A n \in 0..FileSize(d) - 1 : memory[Buf + n] = FileSector(d, n),
         \A j \in 1..k - 1 : Placed(d, memory, j),
         NEW m, m = Overwritten(d.segments[k].p_vaddr,
                      [n \in 1..d.segments[k].p_filesz |-> memory[Buf + d.segments[k].p_offset + n - 1]])
  PROVE  /\ \A n \in 0..FileSize(d) - 1 : m[Buf + n] = FileSector(d, n)
         /\ \A j \in 1..k : Placed(d, m, j)
<1> DEFINE s == d.segments[k]
           size == FileSize(d)
<1>1. WellFormed(d) BY LoaderAssumption
<1>2. d.segments \in Seq(Segments) BY <1>1 DEF WellFormed
<1>3. Len(d.segments) \in Nat /\ k \in Nat BY <1>2
<1>4. \A j \in 1..Len(d.segments) : d.segments[j] \in Segments BY <1>2
<1>5. \A j \in 1..Len(d.segments) :
        /\ d.segments[j].p_vaddr \in Nat /\ d.segments[j].p_filesz \in Nat /\ d.segments[j].p_offset \in Nat
  <2>1. Addresses \subseteq Nat BY LoaderAssumption DEF Addresses
  <2>2. QED BY <1>4, <2>1 DEF Segments
<1>6. \A j \in 1..Len(d.segments) :
        /\ d.segments[j].p_offset + d.segments[j].p_filesz <= size
        /\ Buf + size <= d.segments[j].p_vaddr /\ d.segments[j].p_vaddr + d.segments[j].p_filesz <= Word
  BY <1>1 DEF WellFormed, FileSize
<1>7. \A j \in 1..k - 1 : \/ s.p_vaddr + s.p_filesz <= d.segments[j].p_vaddr
                           \/ d.segments[j].p_vaddr + d.segments[j].p_filesz <= s.p_vaddr
  BY <1>1 DEF WellFormed
<1>8. size \in Nat /\ Buf \in Nat /\ Word \in Nat
  <2>1. Len(d.file) * d.sectorsPerCluster \in Nat BY Numbers, Chain, Product
  <2>2. QED BY <2>1, LoaderAssumption DEF Addresses, FileSize
<1> HIDE DEF size
<1>9. s.p_vaddr \in Nat /\ s.p_filesz \in Nat /\ s.p_offset \in Nat /\ s.p_offset + s.p_filesz <= size
      /\ Buf + size <= s.p_vaddr /\ s.p_vaddr + s.p_filesz <= Word
  BY <1>5, <1>6
<1> DEFINE src == [n \in 1..s.p_filesz |-> memory[Buf + s.p_offset + n - 1]]
<1>10. Len(src) = s.p_filesz BY <1>9
<1>11. \A a \in Addresses : m[a] = IF a - s.p_vaddr + 1 \in 1..s.p_filesz
                                     THEN src[a - s.p_vaddr + 1] ELSE memory[a]
  BY <1>10 DEF Overwritten
<1> HIDE DEF s, src
<1>12. ASSUME NEW a \in Addresses, a < s.p_vaddr \/ s.p_vaddr + s.p_filesz <= a
       PROVE  m[a] = memory[a]
  <2>1. a \in Nat BY LoaderAssumption DEF Addresses
  <2>2. ~(a - s.p_vaddr + 1 \in 1..s.p_filesz) BY <1>9, <1>12, <2>1
  <2>3. QED BY <1>11, <2>2
<1>13. ASSUME NEW n \in 0..size - 1
       PROVE  m[Buf + n] = FileSector(d, n)
  <2>1. Buf + n \in Addresses /\ Buf + n < s.p_vaddr BY <1>8, <1>9, SMTT(30) DEF Addresses
  <2>2. memory[Buf + n] = FileSector(d, n) BY DEF size
  <2>3. QED BY <1>12, <2>1, <2>2
<1>14. ASSUME NEW j \in 1..k - 1
       PROVE  Placed(d, m, j)
  <2>1. j \in 1..Len(d.segments) BY <1>3
  <2> SUFFICES ASSUME NEW n \in 0..d.segments[j].p_filesz - 1
               PROVE  m[d.segments[j].p_vaddr + n] = FileSector(d, d.segments[j].p_offset + n)
    BY DEF Placed
  <2> DEFINE t == d.segments[j]
             a == t.p_vaddr + n
  <2>2. t.p_vaddr \in Nat /\ t.p_filesz \in Nat /\ t.p_vaddr + t.p_filesz <= Word BY <1>5, <1>6, <2>1
  <2>3. s.p_vaddr + s.p_filesz <= t.p_vaddr \/ t.p_vaddr + t.p_filesz <= s.p_vaddr BY <1>7 DEF s
  <2>4. memory[a] = FileSector(d, t.p_offset + n) BY DEF Placed
  <2> HIDE DEF t
  <2>5. n \in Nat /\ n < t.p_filesz BY <2>2 DEF t
  <2>6. a \in Addresses /\ (a < s.p_vaddr \/ s.p_vaddr + s.p_filesz <= a)
    <3>1. a \in Nat /\ t.p_vaddr <= a /\ a < t.p_vaddr + t.p_filesz BY <2>2, <2>5
    <3>2. a \in Addresses BY <1>8, <2>2, <3>1 DEF Addresses
    <3> HIDE DEF a
    <3>3. a < s.p_vaddr \/ s.p_vaddr + s.p_filesz <= a BY <1>9, <2>2, <2>3, <3>1
    <3>4. QED BY <3>2, <3>3
  <2> HIDE DEF a
  <2>7. m[a] = memory[a] BY <1>12, <2>6
  <2>8. QED BY <2>4, <2>7 DEF a, t
<1>15. Placed(d, m, k)
  <2> SUFFICES ASSUME NEW n \in 0..s.p_filesz - 1
               PROVE  m[s.p_vaddr + n] = FileSector(d, s.p_offset + n)
    BY DEF Placed, s
  <2> DEFINE a == s.p_vaddr + n
  <2>1. n \in Nat /\ n < s.p_filesz BY <1>9
  <2>2. a \in Addresses /\ a - s.p_vaddr + 1 = n + 1 /\ n + 1 \in 1..s.p_filesz
    BY <1>8, <1>9, <2>1, SMTT(30) DEF Addresses
  <2> HIDE DEF a
  <2>3. m[a] = src[n + 1] BY <1>11, <2>2
  <2>4. src[n + 1] = memory[Buf + s.p_offset + (n + 1) - 1] BY <2>2 DEF src
  <2>5. Buf + s.p_offset + (n + 1) - 1 = Buf + (s.p_offset + n) /\ s.p_offset + n \in 0..size - 1
    <3>1. Buf + s.p_offset + (n + 1) - 1 = Buf + (s.p_offset + n) BY <1>8, <1>9, <2>1
    <3>2. s.p_offset + n \in Nat /\ s.p_offset + n < size BY <1>8, <1>9, <2>1, SMTT(30)
    <3>3. QED BY <1>8, <3>1, <3>2
  <2>6. memory[Buf + (s.p_offset + n)] = FileSector(d, s.p_offset + n) BY <2>5 DEF size
  <2>7. QED BY <2>3, <2>4, <2>5, <2>6 DEF a
<1>16. \A j \in 1..k : j \in 1..k - 1 \/ j = k BY <1>3
<1>17. QED BY <1>13, <1>14, <1>15, <1>16 DEF size

LEMMA Step_copy_segment == IInv /\ copy_segment => IInv'
<1> SUFFICES ASSUME IInv, copy_segment PROVE IInv' OBVIOUS
<1> DEFINE s == disk.segments[i]
           src == [n \in 1..s.p_filesz |-> memory[Buf + s.p_offset + n - 1]]
<1>1. /\ pc = "copy" /\ pc' = pc /\ disk' = disk /\ disk \in Disks /\ i <= Len(programHeaders)
      /\ lba' = lba /\ bpb' = bpb /\ rootDir_buf' = rootDir_buf /\ i' = i + 1
      /\ programHeaders' = programHeaders
  BY DEF IInv, copy_segment, mounting
<1>2. /\ disk.file # <<>> /\ programHeaders = disk.segments /\ i \in Nat \ {0}
      /\ \A n \in 0..FileSize(disk) - 1 : memory[Buf + n] = FileSector(disk, n)
      /\ \A k \in 1..Len(disk.segments) : k < i => Placed(disk, memory, k)
  BY <1>1 DEF IInv, Copying
<1>3. Len(disk.segments) \in Nat
  <2>1. disk.segments \in Seq(Segments) BY <1>1, LoaderAssumption DEF WellFormed
  <2>2. QED BY <2>1
<1>4. i \in 1..Len(disk.segments) BY <1>1, <1>2, <1>3
<1>5. \A j \in 1..i - 1 : Placed(disk, memory, j)
  <2>1. \A j \in 1..i - 1 : j \in 1..Len(disk.segments) /\ j < i BY <1>3, <1>4
  <2>2. QED BY <1>2, <2>1
<1>6. memory' = Overwritten(s.p_vaddr, src) BY <1>2 DEF copy_segment
<1>7. /\ \A n \in 0..FileSize(disk) - 1 : memory'[Buf + n] = FileSector(disk, n)
      /\ \A j \in 1..i : Placed(disk, memory', j)
  BY <1>1, <1>2, <1>4, <1>5, <1>6, OneSegment
<1>8. \A j \in 1..Len(disk.segments) : j < i' => j \in 1..i BY <1>1, <1>2, <1>3
<1>9. i' # 1 /\ i' \in Nat \ {0} BY <1>1, <1>2
<1>10. Copying' BY <1>1, <1>2, <1>7, <1>8, <1>9 DEF Copying
<1>11. Mounted' /\ Scanned' /\ Reading' BY <1>1 DEF IInv, Mounted, Scanned, Reading
<1>12. QED BY <1>1, <1>10, <1>11 DEF IInv

-----------------------------------------------------------------------------
(* Types.                                                                   *)

LEMMA SectorTypes ==
  ASSUME NEW kind \in {"mbr", "bpb", "fsinfo", "fat", "data", "other"}, NEW a \in Nat, NEW s \in Nat
  PROVE  Sector(kind, a, s) \in Sectors
BY DEF Sector, Sectors

LEMMA ContentTypes ==
  ASSUME NEW d \in Disks, NEW l \in Nat
  PROVE  Content(d, l) \in Sectors
<1> DEFINE w == d.sectorsPerCluster
           p == d.sectorsPerFAT
           x == l - FatStart(d)
           y == l - DataStart(d)
<1>1. w \in Nat \ {0} /\ p \in Nat \ {0} /\ FatStart(d) \in Nat /\ DataStart(d) \in Nat BY Numbers
<1>2. Content(d, l) =
        IF l = 0 THEN Sector("mbr", 0, 0)
        ELSE IF l = d.lbaPartitionStart THEN Sector("bpb", 0, 0)
        ELSE IF l = d.lbaPartitionStart + d.FSInfoSectorNumber THEN Sector("fsinfo", 0, 0)
        ELSE IF l \in FatStart(d)..DataStart(d) - 1 THEN Sector("fat", x % p, 0)
        ELSE IF l >= DataStart(d) THEN Sector("data", 2 + (y \div w), y % w)
        ELSE Junk
  BY DEF Content
<1>3. l \in FatStart(d)..DataStart(d) - 1 => x \in Nat BY <1>1
<1>4. l >= DataStart(d) => y \in Nat BY <1>1
<1> HIDE DEF w, p, x, y
<1>5. \A s : s \in {Sector("mbr", 0, 0), Sector("bpb", 0, 0), Sector("fsinfo", 0, 0), Junk} => s \in Sectors
  BY SectorTypes, 0 \in Nat DEF Junk
<1>6. x \in Nat => Sector("fat", x % p, 0) \in Sectors
  <2> SUFFICES ASSUME x \in Nat PROVE Sector("fat", x % p, 0) \in Sectors OBVIOUS
  <2>1. x % p \in Nat BY <1>1, Division
  <2>2. QED BY <2>1, SectorTypes, 0 \in Nat
<1>7. y \in Nat => Sector("data", 2 + (y \div w), y % w) \in Sectors
  <2> SUFFICES ASSUME y \in Nat PROVE Sector("data", 2 + (y \div w), y % w) \in Sectors OBVIOUS
  <2>1. y \div w \in Nat /\ y % w \in Nat
    <3>1. y \div w \in Nat /\ y % w \in 0..w - 1 BY <1>1, Division, Zenon
    <3>2. QED BY <1>1, <3>1
  <2>2. 2 + (y \div w) \in Nat BY <2>1
  <2>3. QED BY <2>1, <2>2, SectorTypes
<1>8. QED BY <1>2, <1>3, <1>4, <1>5, <1>6, <1>7, Zenon

LEMMA ReadTypes ==
  ASSUME disk \in Disks, NEW start \in Nat, NEW count \in Nat
  PROVE  EHCI_Read(start, count) \in Seq(Sectors) /\ Len(EHCI_Read(start, count)) = count
<1>1. \A n \in 1..count : start + n - 1 \in Nat OBVIOUS
<1>2. \A n \in 1..count : Content(disk, start + n - 1) \in Sectors BY <1>1, ContentTypes
<1>3. EHCI_Read(start, count) = [n \in 1..count |-> Content(disk, start + n - 1)] BY DEF EHCI_Read
<1>4. QED BY <1>2, <1>3

LEMMA OverwrittenTypes ==
  ASSUME memory \in [Addresses -> Sectors], NEW s \in Seq(Sectors), NEW to
  PROVE  Overwritten(to, s) \in [Addresses -> Sectors]
<1>1. \A n \in 1..Len(s) : s[n] \in Sectors OBVIOUS
<1>2. QED BY <1>1 DEF Overwritten

\* The cluster looked at is one of the file's, or 0 behind the last.
LEMMA ClusterTypes ==
  ASSUME IInv, pc \in {"fat", "cluster", "next"}
  PROVE  /\ file_cluster \in 0..EndOfChain - 1 /\ file_offset \in Nat
         /\ pc = "cluster" => file_cluster - 2 \in Nat
<1>1. disk \in Disks BY DEF IInv
<1>2. PICK k \in 0..Len(disk.file) : Progress(k) BY DEF IInv, Reading
<1>3. /\ Len(disk.file) \in Nat
      /\ \A m \in 1..Len(disk.file) : /\ disk.file[m] \in Nat /\ disk.file[m] > 2
                                      /\ disk.file[m] < EndOfChain
  BY <1>1, Chain
<1>4. file_offset \in Nat
  <2>1. file_offset = k * disk.sectorsPerCluster BY <1>2 DEF Progress
  <2>2. QED BY <1>1, <1>3, <2>1, Numbers, Product
<1>5. EndOfChain \in Nat \ {0} BY LoaderAssumption
<1>6. CASE pc = "fat"
  <2>1. file_cluster = IF k < Len(disk.file) THEN disk.file[k + 1] ELSE 0 BY <1>2, <1>6 DEF Progress
  <2>2. k < Len(disk.file) => k + 1 \in 1..Len(disk.file) BY <1>3
  <2>3. QED BY <1>3, <1>4, <1>5, <1>6, <2>1, <2>2
<1>7. CASE pc = "cluster"
  <2>1. k < Len(disk.file) /\ file_cluster = disk.file[k + 1] BY <1>2, <1>7 DEF Progress
  <2>2. k + 1 \in 1..Len(disk.file) BY <1>3, <2>1
  <2>3. file_cluster \in Nat /\ file_cluster > 2 /\ file_cluster < EndOfChain BY <1>3, <2>1, <2>2
  <2>4. QED BY <1>4, <1>5, <2>3
<1>8. CASE pc = "next"
  <2>1. k > 0 /\ file_cluster = disk.file[k] BY <1>2, <1>8 DEF Progress
  <2>2. k \in 1..Len(disk.file) BY <1>3, <2>1
  <2>3. file_cluster \in Nat /\ file_cluster > 2 /\ file_cluster < EndOfChain BY <1>3, <2>1, <2>2
  <2>4. QED BY <1>4, <1>5, <1>8, <2>3
<1>9. QED BY <1>6, <1>7, <1>8

LEMMA InitTypes == Init => TypeOK
<1> SUFFICES ASSUME Init PROVE TypeOK OBVIOUS
<1>1. Word \in Nat \ {0} /\ EndOfChain \in Nat \ {0} BY LoaderAssumption DEF Addresses
<1>2. 0 \in 0..EndOfChain - 1 /\ 0 \in 0..Word - 1 BY <1>1
<1>3. Junk \in Sectors BY SectorTypes, 0 \in Nat DEF Junk
<1>4. <<>> \in Seq(Sectors) /\ <<>> \in Seq(Segments) OBVIOUS
<1>5. QED BY <1>2, <1>3, <1>4 DEF Init, TypeOK

LEMMA MountTypes ==
  ASSUME IInv, TypeOK, parse_MBR \/ parse_BPB_EBR \/ read_rootDir
  PROVE  TypeOK'
<1>1. disk \in Disks BY DEF IInv
<1>2. CASE parse_MBR
  <2>1. lba' \in Nat BY <1>1, <1>2, Numbers DEF parse_MBR
  <2>2. QED BY <1>2, <2>1 DEF parse_MBR, TypeOK, scanning, reading, program
<1>3. CASE parse_BPB_EBR
  <2>1. \A f \in Geometry : disk[f] \in Nat BY <1>1, Numbers DEF Geometry
  <2>2. bpb' \in [Geometry -> Nat] BY <1>3, <2>1 DEF parse_BPB_EBR
  <2>3. QED BY <1>3, <2>2 DEF parse_BPB_EBR, TypeOK, scanning, reading, program
<1>4. CASE read_rootDir
  <2>1. /\ bpb.sectorsPerCluster = disk.sectorsPerCluster /\ rootDir_sector = DataStart(disk)
    BY <1>1, <1>4, Places DEF IInv, read_rootDir
  <2>2. disk.sectorsPerCluster \in Nat /\ DataStart(disk) \in Nat BY <1>1, Numbers
  <2>3. rootDir_buf' \in Seq(Sectors) BY <1>1, <1>4, <2>1, <2>2, ReadTypes DEF read_rootDir
  <2>4. QED BY <1>4, <2>3 DEF read_rootDir, TypeOK, scanning, reading, program
<1>5. QED BY <1>2, <1>3, <1>4

LEMMA ScanTypes ==
  ASSUME IInv, TypeOK, IInv', parse_directory_findA_ext \/ parse_directory_findA_file
                              \/ parse_directory_findA_return
  PROVE  TypeOK'
<1>1. disk \in Disks BY DEF IInv
<1>2. CASE parse_directory_findA_ext
  <2>1. entry' \in Nat
    <3>1. entry \in Nat BY DEF TypeOK
    <3>2. entry' = entry + 1 BY <1>2 DEF parse_directory_findA_ext
    <3>3. QED BY <3>1, <3>2
  <2>2. previous_entry_is_ext' \in BOOLEAN BY <1>2, Zenon DEF parse_directory_findA_ext
  <2>3. QED BY <1>2, <2>1, <2>2 DEF parse_directory_findA_ext, TypeOK, mounting, reading, program
<1>3. CASE parse_directory_findA_file
  <2>1. entry' \in Nat
    <3>1. entry \in Nat BY DEF TypeOK
    <3>2. entry' = entry + 1 BY <1>3 DEF parse_directory_findA_file
    <3>3. QED BY <3>1, <3>2
  <2>2. previous_entry_is_ext' \in BOOLEAN BY <1>3, Zenon DEF parse_directory_findA_file
  <2>3. Entry(entry) \in Entries
    <3>1. Entry(entry) = disk.dir[entry + 1] /\ Len(disk.dir) \in Nat /\ entry \in 0..Len(disk.dir) - 1
      BY <1>3, Directory DEF parse_directory_findA_file
    <3>2. disk.dir \in Seq(Entries) BY <1>1, LoaderAssumption DEF WellFormed
    <3>3. entry + 1 \in 1..Len(disk.dir) BY <3>1
    <3>4. QED BY <3>1, <3>2, <3>3
  <2>4. Entry(entry).high \in Nat /\ Entry(entry).low \in Nat BY <2>3, LoaderAssumption DEF Entries
  <2>5. Entry(entry).high * Half + Entry(entry).low \in Nat
    <3>1. Entry(entry).high * Half \in Nat BY <2>4, Product, LoaderAssumption
    <3>2. QED BY <2>4, <3>1
  <2>6. startCluster \in Nat BY DEF TypeOK
  <2>7. startCluster' \in Nat BY <1>3, <2>5, <2>6, Zenon DEF parse_directory_findA_file, StartAt
  <2>8. QED BY <1>3, <2>1, <2>7, <2>2 DEF parse_directory_findA_file, TypeOK, mounting, reading, program
<1>4. CASE parse_directory_findA_return
  <2>1. pc' = "fat" /\ file_offset' = 0 BY <1>4 DEF parse_directory_findA_return
  <2>2. (file_cluster \in 0..EndOfChain - 1)'
    <3>1. (pc \in {"fat", "cluster", "next"})' BY <2>1
    <3>2. (IInv /\ pc \in {"fat", "cluster", "next"} => file_cluster \in 0..EndOfChain - 1)'
      BY ClusterTypes, PTL
    <3>3. QED BY <3>1, <3>2
  <2>3. 0 \in 0..Word - 1 BY LoaderAssumption DEF Addresses
  <2>4. QED BY <1>4, <2>1, <2>2, <2>3 DEF parse_directory_findA_return, TypeOK, mounting, scanning, program
<1>5. QED BY <1>2, <1>3, <1>4

LEMMA ReadingTypes ==
  ASSUME IInv, TypeOK, IInv', read_fileA_fat \/ read_fileA_cluster \/ read_fileA_next
  PROVE  TypeOK'
<1>1. disk \in Disks BY DEF IInv
<1>2. CASE read_fileA_fat
  <2>1. file_cluster \in Nat BY <1>2, ClusterTypes DEF read_fileA_fat
  <2>2. fat_sector = FatStart(disk) /\ FatStart(disk) \in Nat
    BY <1>1, <1>2, Places, Numbers DEF IInv, read_fileA_fat
  <2> DEFINE q == file_cluster \div (FatEntries * FatWindow)
  <2>3. FatWindow \in Nat \ {0} /\ FatEntries \in Nat \ {0} BY LoaderAssumption
  <2>4. FatEntries * FatWindow \in Nat \ {0} BY <2>3, SMT
  <2>5. q \in Nat BY <2>1, <2>4, Division
  <2>6. fat_offset = fat_sector + q * FatWindow BY DEF fat_offset
  <2> HIDE DEF q
  <2>7. q * FatWindow \in Nat BY <2>3, <2>5, Product
  <2>8. fat_offset \in Nat BY <2>2, <2>6, <2>7
  <2>9. fat_buf' \in Seq(Sectors) BY <1>1, <1>2, <2>3, <2>8, ReadTypes DEF read_fileA_fat
  <2>10. QED BY <1>2, <2>9 DEF read_fileA_fat, TypeOK, mounting, scanning, program
<1>3. CASE read_fileA_cluster
  <2>1. pc = "cluster" BY <1>3 DEF read_fileA_cluster
  <2>2. file_cluster - 2 \in Nat /\ file_offset \in Nat BY <2>1, ClusterTypes
  <2>3. /\ bpb.sectorsPerCluster = disk.sectorsPerCluster /\ rootDir_sector = DataStart(disk)
    BY <1>1, <2>1, Places DEF IInv
  <2>4. disk.sectorsPerCluster \in Nat /\ DataStart(disk) \in Nat BY <1>1, Numbers
  <2>5. (file_cluster - 2) * bpb.sectorsPerCluster \in Nat BY <2>2, <2>3, <2>4, Product
  <2>6. cluster_lba \in Nat BY <2>3, <2>4, <2>5 DEF cluster_lba
  <2>7. EHCI_Read(cluster_lba, bpb.sectorsPerCluster) \in Seq(Sectors) BY <1>1, <2>3, <2>4, <2>6, ReadTypes
  <2>8. memory \in [Addresses -> Sectors] BY DEF TypeOK
  <2>9. memory' \in [Addresses -> Sectors] BY <1>3, <2>7, <2>8, OverwrittenTypes DEF read_fileA_cluster
  <2>10. file_offset' \in 0..Word - 1
    <3>1. file_offset + bpb.sectorsPerCluster \in Nat BY <2>2, <2>3, <2>4
    <3>2. Word \in Nat \ {0} BY LoaderAssumption DEF Addresses
    <3>3. (file_offset + bpb.sectorsPerCluster) % Word \in 0..Word - 1 BY <3>1, <3>2, Division
    <3>4. QED BY <1>3, <3>3 DEF read_fileA_cluster
  <2>11. QED BY <1>3, <2>9, <2>10 DEF read_fileA_cluster, TypeOK, mounting, scanning, program
<1>4. CASE read_fileA_next
  <2>1. pc' = "fat" BY <1>4 DEF read_fileA_next
  <2>2. (file_cluster \in 0..EndOfChain - 1)'
    <3>1. (pc \in {"fat", "cluster", "next"})' BY <2>1
    <3>2. (IInv /\ pc \in {"fat", "cluster", "next"} => file_cluster \in 0..EndOfChain - 1)'
      BY ClusterTypes, PTL
    <3>3. QED BY <3>1, <3>2
  <2>3. QED BY <1>4, <2>1, <2>2 DEF read_fileA_next, TypeOK, mounting, scanning, program
<1>5. QED BY <1>2, <1>3, <1>4

LEMMA CopyTypes ==
  ASSUME IInv, TypeOK, parse_ELF \/ copy_segment \/ core_start
  PROVE  TypeOK'
<1>1. disk \in Disks BY DEF IInv
<1>2. disk.segments \in Seq(Segments) /\ WellFormed(disk) BY <1>1, LoaderAssumption DEF WellFormed
<1>3. CASE parse_ELF
  <2>1. pc' \in {"copy", "undefined"} /\ programHeaders' \in Seq(Segments) /\ i' \in Nat
    BY <1>2, <1>3 DEF parse_ELF, TypeOK
  <2>2. QED BY <1>3, <2>1 DEF parse_ELF, TypeOK, mounting, reading, scanning
<1>4. CASE copy_segment
  <2>1. pc = "copy" /\ i <= Len(programHeaders) /\ i' = i + 1 BY <1>4 DEF copy_segment
  <2>2. programHeaders = disk.segments /\ i \in Nat \ {0} BY <2>1 DEF IInv, Copying
  <2>3. Len(disk.segments) \in Nat BY <1>2
  <2>4. i \in 1..Len(disk.segments) BY <2>1, <2>2, <2>3
  <2> DEFINE s == disk.segments[i]
             src == [n \in 1..s.p_filesz |-> memory[Buf + s.p_offset + n - 1]]
  <2>5. s \in Segments BY <1>2, <2>4
  <2>6. s.p_filesz \in Nat /\ s.p_offset \in Nat BY <2>5 DEF Segments
  <2>7. s.p_offset + s.p_filesz <= Len(disk.file) * disk.sectorsPerCluster BY <1>2, <2>4 DEF WellFormed
  <2>8. Buf + Len(disk.file) * disk.sectorsPerCluster < Word BY <1>2 DEF WellFormed
  <2>9. Len(disk.file) * disk.sectorsPerCluster \in Nat BY <1>1, Numbers, Chain, Product
  <2>10. Buf \in Nat /\ Word \in Nat BY LoaderAssumption DEF Addresses
  <2>11. memory' = Overwritten(s.p_vaddr, src) BY <1>4, <2>2 DEF copy_segment
  <2> HIDE DEF s
  <2>12. \A n \in 1..s.p_filesz : Buf + s.p_offset + n - 1 \in Addresses
    <3> DEFINE size == Len(disk.file) * disk.sectorsPerCluster
    <3>1. size \in Nat /\ s.p_offset + s.p_filesz <= size /\ Buf + size < Word BY <2>7, <2>8, <2>9
    <3> HIDE DEF size
    <3>2. QED BY <2>6, <2>10, <3>1, SMTT(30) DEF Addresses
  <2>13. memory \in [Addresses -> Sectors] BY DEF TypeOK
  <2>14. src \in Seq(Sectors)
    <3>1. \A n \in 1..s.p_filesz : memory[Buf + s.p_offset + n - 1] \in Sectors BY <2>12, <2>13
    <3>2. QED BY <2>6, <3>1
  <2> HIDE DEF src
  <2>15. memory' \in [Addresses -> Sectors] BY <2>11, <2>13, <2>14, OverwrittenTypes
  <2>16. i' \in Nat BY <2>1, <2>2
  <2>17. QED BY <1>4, <2>15, <2>16 DEF copy_segment, TypeOK, mounting, reading, scanning
<1>5. CASE core_start BY <1>5 DEF core_start, TypeOK, mounting, reading, scanning, program
<1>6. QED BY <1>3, <1>4, <1>5

-----------------------------------------------------------------------------
(* The theorems.                                                            *)

\* The invariant holds for every disk.
THEOREM LoaderSafe == Spec => []IInv
<1>1. IInv /\ [Next]_vars => IInv'
  BY Step_parse_MBR, Step_parse_BPB_EBR, Step_read_rootDir, Step_parse_directory_findA_ext,
     Step_parse_directory_findA_file, Step_parse_directory_findA_return, Step_read_fileA_fat,
     Step_read_fileA_cluster, Step_read_fileA_next, Step_parse_ELF, Step_copy_segment,
     Step_core_start, Stutter DEF Next
<1>2. QED BY InitIInv, <1>1, PTL DEF Spec

\* read_fileA brings all of the kernel's file and nothing else, whatever the
\* disk's geometry and the file's place.
THEOREM FileAlwaysRead == Spec => []FileInBuffer
<1>1. IInv => FileInBuffer BY DEF IInv, Copying, FileInBuffer
<1>2. QED BY LoaderSafe, <1>1, PTL

\* The stub jumps to a program whose segments are all in place.
THEOREM SegmentsAlwaysInPlace == Spec => []SegmentsInPlace
<1>1. IInv => SegmentsInPlace
  <2> SUFFICES ASSUME IInv, pc = "core_start", NEW k \in 1..Len(disk.segments)
               PROVE  Placed(disk, memory, k)
    BY DEF SegmentsInPlace, Placed
  <2>1. i > Len(disk.segments) /\ i \in Nat BY DEF IInv, Copying
  <2>2. Len(disk.segments) \in Nat
    <3>1. disk.segments \in Seq(Segments) BY LoaderAssumption DEF IInv, WellFormed
    <3>2. QED BY <3>1
  <2>3. k < i BY <2>1, <2>2
  <2>4. QED BY <2>3 DEF IInv, Copying
<1>2. QED BY LoaderSafe, <1>1, PTL

\* The kernel is found exactly if it is there.
THEOREM KernelAlwaysFound == Spec => []KernelFound
<1>1. IInv => KernelFound BY DEF IInv, Copying, KernelFound
<1>2. QED BY LoaderSafe, <1>1, PTL

\* Every variable has its type on every sound disk; no cluster number is one
\* of the chain's end, and no offset in the buffer wraps.
THEOREM LoaderTypesHold == Spec => []TypeOK
<1>1. IInv /\ TypeOK /\ IInv' /\ [Next]_vars => TypeOK'
  <2> SUFFICES ASSUME IInv, TypeOK, IInv', [Next]_vars PROVE TypeOK' OBVIOUS
  <2>1. CASE UNCHANGED vars
    BY <2>1 DEF TypeOK, vars, mounting, scanning, reading, program
  <2>2. QED BY <2>1, MountTypes, ScanTypes, ReadingTypes, CopyTypes DEF Next
<1>2. QED BY InitTypes, LoaderSafe, <1>1, PTL DEF Spec
=============================================================================
