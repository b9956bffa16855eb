----------------------------- MODULE FileLoader -----------------------------
(***************************************************************************)
(* The stub's way from the disk to the kernel: stub/kernel.c from its      *)
(* first EHCI_Read to the jump, with stub/fs.c and stub/elf.c.  It finds   *)
(* partition 0 in the MBR, the root directory and the FAT in the BPB,      *)
(* KERNEL.ELF in the directory, follows its clusters into a buffer, and    *)
(* copies the program's segments to where they are linked.                 *)
(*                                                                         *)
(* An EHCI_Read is one step here: EhciBulk says what is behind it.  What a *)
(* sector holds is told by the sector's place on the disk, so that a wrong *)
(* LBA reads something wrong.  Memory counts in sectors.                   *)
(***************************************************************************)
EXTENDS Integers, Sequences

CONSTANTS
  Disks,             \* the disks there may be, see WellFormed
  Matching,          \* names strncmp takes for KERNEL and ELF, a prefix each
  Word,              \* what 32 bits can count, in sectors: a write past it is lost
  Buf,               \* 0x05000000
  FatEntries,        \* FAT entries per sector, 0x80
  FatWindow,         \* sectors of the FAT read at once, 0x20
  DirEntries,        \* directory entries per sector, 16
  Half,              \* 2^16
  Mask, EndOfChain   \* 2^28, 0x0FFFFFF8

Addresses == 0..Word - 1

\* Offset, length and address of a segment (ELF_PROGRAM_HEADER).
Segments == [p_offset : Nat, p_filesz : Nat, p_vaddr : Addresses]

\* A directory entry, by its attribute byte: 0xF, 0, or another.
Entries == [attributes : {"ext", "none", "file"}, filename : STRING, high : 0..Half - 1, low : 0..Half - 1]

Sectors == [kind : {"mbr", "bpb", "fsinfo", "fat", "data", "other"}, at : Nat, sector : Nat]
Sector(kind, at, sector) == [kind |-> kind, at |-> at, sector |-> sector]
Junk == Sector("other", 0, 0)    \* what memory holds before

\* The first sectors of the FATs and of the data, which starts with cluster 2.
FatStart(d) == d.lbaPartitionStart + d.reservedSectors
DataStart(d) == FatStart(d) + d.numberOfFATs * d.sectorsPerFAT

\* What a FAT32 disk has at an LBA.
Content(d, lba) ==
  IF lba = 0 THEN Sector("mbr", 0, 0)
  ELSE IF lba = d.lbaPartitionStart THEN Sector("bpb", 0, 0)
  ELSE IF lba = d.lbaPartitionStart + d.FSInfoSectorNumber THEN Sector("fsinfo", 0, 0)
  ELSE IF lba \in FatStart(d)..DataStart(d) - 1
    THEN Sector("fat", (lba - FatStart(d)) % d.sectorsPerFAT, 0)
  ELSE IF lba >= DataStart(d)
    THEN Sector("data", 2 + ((lba - DataStart(d)) \div d.sectorsPerCluster),
                (lba - DataStart(d)) % d.sectorsPerCluster)
  ELSE Junk

\* An entry with a name of the kernel, and no long one.
Named(d, n) == /\ d.dir[n].attributes = "file" /\ d.dir[n].filename \in Matching
               /\ n > 1 => d.dir[n - 1].attributes # "ext"

\* A disk with a FAT32 file system: file are the clusters of KERNEL.ELF in
\* their order, if it is in the directory's first cluster under a name of
\* its own, and no other entry's name without a long one matches.  The
\* directory starts in cluster 2 and ends in it, with an attribute byte of 0.
\* Only this entry has none.  The file fits between Buf and its segments.
WellFormed(d) ==
  /\ d.lbaPartitionStart \in Nat \ {0} /\ d.reservedSectors \in Nat /\ d.FSInfoSectorNumber \in Nat
  /\ 0 < d.FSInfoSectorNumber /\ d.FSInfoSectorNumber < d.reservedSectors
  /\ d.numberOfFATs \in Nat \ {0} /\ d.sectorsPerFAT \in Nat \ {0}
  /\ d.sectorsPerCluster \in Nat \ {0}
  /\ d.fat \in [0..d.sectorsPerFAT * FatEntries - 1 -> Nat]
  /\ d.dir \in Seq(Entries) \ {<<>>} /\ Len(d.dir) <= DirEntries * d.sectorsPerCluster
  /\ \A n \in 1..Len(d.dir) : d.dir[n].attributes = "none" <=> n = Len(d.dir)
  /\ d.file \in Seq(DOMAIN d.fat \ {0, 1, 2})
  /\ Buf + Len(d.file) * d.sectorsPerCluster < Word
  /\ \A k \in 1..Len(d.file) :
       /\ d.file[k] < EndOfChain
       /\ k = Len(d.file) \/ (d.fat[d.file[k]] % Mask) = d.file[k + 1]
  /\ d.file # <<>> => (d.fat[d.file[Len(d.file)]] % Mask) \in EndOfChain..Mask - 1
  /\ \A n \in 1..Len(d.dir) : Named(d, n) => /\ d.file # <<>>
                                             /\ d.dir[n].high * Half + d.dir[n].low = d.file[1]
  /\ d.file # <<>> => \E n \in 1..Len(d.dir) : Named(d, n)
  /\ d.segments \in Seq(Segments)
  /\ \A k \in 1..Len(d.segments) : LET s == d.segments[k] IN
       /\ s.p_offset + s.p_filesz <= Len(d.file) * d.sectorsPerCluster
       /\ Buf + Len(d.file) * d.sectorsPerCluster <= s.p_vaddr /\ s.p_vaddr + s.p_filesz <= Word
       /\ \A j \in 1..k - 1 : \/ s.p_vaddr + s.p_filesz <= d.segments[j].p_vaddr
                              \/ d.segments[j].p_vaddr + d.segments[j].p_filesz <= s.p_vaddr

ASSUME LoaderAssumption ==
  /\ Word \in Nat /\ Buf \in Addresses /\ Half \in Nat \ {0}
  /\ FatEntries \in Nat \ {0} /\ FatWindow \in Nat \ {0} /\ DirEntries \in Nat \ {0}
  /\ EndOfChain \in Nat \ {0} /\ Mask \in Nat /\ EndOfChain < Mask
  /\ \A d \in Disks : WellFormed(d)

VARIABLES
  disk,
  pc,            \* what kernel_main does next
  lba,           \* mbr_data.partitions[0].lbaPartitionStart
  bpb,           \* bpb_data and ebr_data, the fields that are used
  rootDir_buf, fat_buf,                \* buffers on the stack
  entry, previous_entry_is_ext,        \* of parse_directory_findA
  startCluster,
  file_cluster, file_offset,           \* of read_fileA
  programHeaders, i,                   \* i: the segment to copy
  memory

mounting == <<lba, bpb, rootDir_buf>>
scanning == <<entry, previous_entry_is_ext, startCluster>>
reading == <<fat_buf, file_cluster, file_offset>>
program == <<programHeaders, i>>
vars == <<disk, pc, mounting, scanning, reading, program, memory>>

Geometry == {"reservedSectors", "numberOfFATs", "sectorsPerFAT", "sectorsPerCluster"}

Init == /\ disk \in Disks /\ pc = "mbr"
        /\ lba = 0 /\ bpb = [f \in Geometry |-> 0]
        /\ rootDir_buf = <<>> /\ fat_buf = <<>>
        /\ entry = 0 /\ previous_entry_is_ext = FALSE /\ startCluster = 0
        /\ file_cluster = 0 /\ file_offset = 0 /\ programHeaders = <<>> /\ i = 0
        /\ memory = [a \in Addresses |-> Junk]

\* count sectors from start on.
EHCI_Read(start, count) == [n \in 1..count |-> Content(disk, start + n - 1)]

\* Memory, with the sectors s from address to on.
Overwritten(to, s) ==
  [a \in Addresses |-> IF a - to + 1 \in 1..Len(s) THEN s[a - to + 1] ELSE memory[a]]

\* The MBR, and partition 0's first LBA in it.
parse_MBR ==
  /\ pc = "mbr" /\ pc' = "bpb"
  /\ lba' = IF Content(disk, 0).kind = "mbr" THEN disk.lbaPartitionStart ELSE 0
  /\ UNCHANGED <<disk, bpb, rootDir_buf, scanning, reading, program, memory>>

\* The partition's first sector.  That of FSINFO is read next, for nothing.
parse_BPB_EBR ==
  /\ pc = "bpb" /\ pc' = "rootDir"
  /\ bpb' = [f \in Geometry |-> IF Content(disk, lba).kind = "bpb" THEN disk[f] ELSE 0]
  /\ UNCHANGED <<disk, lba, rootDir_buf, scanning, reading, program, memory>>

\* The FAT's first sector, and the data's: the root directory is taken to be there.
fat_sector == lba + bpb.reservedSectors
rootDir_sector == lba + bpb.reservedSectors + bpb.numberOfFATs * bpb.sectorsPerFAT

read_rootDir ==
  /\ pc = "rootDir" /\ pc' = "find"
  /\ rootDir_buf' = EHCI_Read(rootDir_sector, bpb.sectorsPerCluster)
  /\ UNCHANGED <<disk, lba, bpb, reading, scanning, program, memory>>

\* Entry n of the directory, from the buffer: one of the disk's, or an end.
Entry(n) ==
  LET s == rootDir_buf[(n \div DirEntries) + 1]
  IN IF s.kind = "data" /\ s.at = 2 THEN disk.dir[s.sector * DirEntries + (n % DirEntries) + 1]
     ELSE [attributes |-> "none", filename |-> "", high |-> 0, low |-> 0]

\* An entry of a long name: the short name's entry follows, and is skipped.
parse_directory_findA_ext ==
  /\ pc = "find" /\ Entry(entry).attributes = "ext"
  /\ entry' = entry + 1 /\ previous_entry_is_ext' = TRUE
  /\ UNCHANGED <<disk, pc, mounting, reading, startCluster, program, memory>>

StartAt(e) == IF ~previous_entry_is_ext /\ e.filename \in Matching
                THEN e.high * Half + e.low ELSE startCluster

\* Mutant: the flag stays once it is set.
parse_directory_findA_file_sticky ==
  /\ pc = "find" /\ Entry(entry).attributes = "file"
  /\ entry' = entry + 1
  /\ startCluster' = StartAt(Entry(entry))
  /\ UNCHANGED <<disk, pc, mounting, reading, previous_entry_is_ext, program, memory>>

\* The last match is the one that stays.
parse_directory_findA_file ==
  /\ pc = "find" /\ Entry(entry).attributes = "file"
  /\ entry' = entry + 1 /\ previous_entry_is_ext' = FALSE
  /\ startCluster' = StartAt(Entry(entry))
  /\ UNCHANGED <<disk, pc, mounting, reading, program, memory>>

\* The scan ends, and kernel_main calls read_fileA, match or no match.
parse_directory_findA_return ==
  /\ pc = "find" /\ Entry(entry).attributes = "none"
  /\ pc' = "fat" /\ file_cluster' = startCluster /\ file_offset' = 0
  /\ UNCHANGED <<disk, mounting, fat_buf, scanning, program, memory>>

\* The window of the FAT that has this cluster's entry.
fat_offset == fat_sector + (file_cluster \div (FatEntries * FatWindow)) * FatWindow

\* Mutant: the FAT is read for the first cluster only.
read_fileA_fat_once ==
  /\ pc = "fat" /\ file_cluster # 0 /\ pc' = "cluster"
  /\ fat_buf' = IF fat_buf = <<>> THEN EHCI_Read(fat_offset, FatWindow) ELSE fat_buf
  /\ UNCHANGED <<disk, mounting, scanning, file_cluster, file_offset, program, memory>>

read_fileA_fat ==
  /\ pc = "fat" /\ file_cluster # 0 /\ pc' = "cluster"
  /\ fat_buf' = EHCI_Read(fat_offset, FatWindow)
  /\ UNCHANGED <<disk, mounting, scanning, file_cluster, file_offset, program, memory>>

cluster_lba == rootDir_sector + (file_cluster - 2) * bpb.sectorsPerCluster

\* Mutant: each cluster goes one sector behind the last.
read_fileA_cluster_packed ==
  /\ pc = "cluster" /\ pc' = "next"
  /\ memory' = Overwritten(Buf + file_offset, EHCI_Read(cluster_lba, bpb.sectorsPerCluster))
  /\ file_offset' = (file_offset + 1) % Word
  /\ UNCHANGED <<disk, mounting, fat_buf, scanning, file_cluster, program>>

\* One cluster, behind the last one in the buffer.
read_fileA_cluster ==
  /\ pc = "cluster" /\ pc' = "next"
  /\ memory' = Overwritten(Buf + file_offset, EHCI_Read(cluster_lba, bpb.sectorsPerCluster))
  /\ file_offset' = (file_offset + bpb.sectorsPerCluster) % Word
  /\ UNCHANGED <<disk, mounting, fat_buf, scanning, file_cluster, program>>

\* The entry in the window, without its reserved bits.
next_cluster ==
  LET n == file_cluster % (FatEntries * FatWindow)
      s == fat_buf[(n \div FatEntries) + 1]
  IN IF s.kind = "fat" THEN disk.fat[s.at * FatEntries + (n % FatEntries)] % Mask ELSE 0

\* Mutant: the first end-of-chain value is taken for a cluster.
read_fileA_next_limit ==
  /\ pc = "next" /\ pc' = "fat"
  /\ file_cluster' = IF next_cluster <= EndOfChain THEN next_cluster ELSE 0
  /\ UNCHANGED <<disk, mounting, fat_buf, scanning, file_offset, program, memory>>

\* 0 ends the chain as well.
read_fileA_next ==
  /\ pc = "next" /\ pc' = "fat"
  /\ file_cluster' = IF next_cluster < EndOfChain THEN next_cluster ELSE 0
  /\ UNCHANGED <<disk, mounting, fat_buf, scanning, file_offset, program, memory>>

\* The headers are in the file's first sector.  The magic number is not looked
\* at: if no file was read, what is found in their place is anything.
parse_ELF ==
  /\ pc = "fat" /\ file_cluster = 0
  /\ IF disk.file # <<>> /\ memory[Buf] = Sector("data", disk.file[1], 0)
       THEN pc' = "copy" /\ programHeaders' = disk.segments
       ELSE pc' = "undefined" /\ UNCHANGED programHeaders
  /\ i' = 1
  /\ UNCHANGED <<disk, mounting, reading, scanning, memory>>

\* Mutant: the source is taken from the start of the file.
copy_segment_no_offset ==
  /\ pc = "copy" /\ i <= Len(programHeaders)
  /\ LET s == programHeaders[i]
     IN memory' = Overwritten(s.p_vaddr, [n \in 1..s.p_filesz |-> memory[Buf + n - 1]])
  /\ i' = i + 1
  /\ UNCHANGED <<disk, pc, mounting, reading, scanning, programHeaders>>

\* Of every header, whatever its type, p_filesz sectors; the rest of p_memsz
\* stays as it is.
copy_segment ==
  /\ pc = "copy" /\ i <= Len(programHeaders)
  /\ LET s == programHeaders[i]
     IN memory' = Overwritten(s.p_vaddr, [n \in 1..s.p_filesz |-> memory[Buf + s.p_offset + n - 1]])
  /\ i' = i + 1
  /\ UNCHANGED <<disk, pc, mounting, reading, scanning, programHeaders>>

core_start ==
  /\ pc = "copy" /\ i > Len(programHeaders) /\ pc' = "core_start"
  /\ UNCHANGED <<disk, mounting, reading, scanning, program, memory>>

Next == \/ parse_MBR \/ parse_BPB_EBR \/ read_rootDir
        \/ parse_directory_findA_ext \/ parse_directory_findA_file \/ parse_directory_findA_return
        \/ read_fileA_fat \/ read_fileA_cluster \/ read_fileA_next
        \/ parse_ELF \/ copy_segment \/ core_start

Spec == Init /\ [][Next]_vars /\ WF_vars(Next)

-----------------------------------------------------------------------------
(* Properties.                                                              *)

\* Every variable the stub keeps has its type.
TypeOK ==
  /\ pc \in {"mbr", "bpb", "rootDir", "find", "fat", "cluster", "next", "copy",
             "core_start", "undefined"}
  /\ lba \in Nat /\ bpb \in [Geometry -> Nat]
  /\ rootDir_buf \in Seq(Sectors) /\ fat_buf \in Seq(Sectors)
  /\ entry \in Nat /\ previous_entry_is_ext \in BOOLEAN
  /\ startCluster \in Nat /\ file_cluster \in 0..EndOfChain - 1 /\ file_offset \in 0..Word - 1
  /\ programHeaders \in Seq(Segments) /\ i \in Nat
  /\ memory \in [Addresses -> Sectors]

\* Sector n of KERNEL.ELF, and how many there are.
FileSector(d, n) == Sector("data", d.file[(n \div d.sectorsPerCluster) + 1], n % d.sectorsPerCluster)
FileSize(d) == Len(d.file) * d.sectorsPerCluster

\* read_fileA brings the file: when it is done the buffer holds the sectors of
\* all its clusters, in the chain's order, wherever they are on the disk and
\* in the FAT, and behind them nothing has changed.
FileInBuffer ==
  pc \in {"copy", "core_start"} =>
    /\ \A n \in 0..FileSize(disk) - 1 : memory[Buf + n] = FileSector(disk, n)
    /\ i = 1 => \A a \in Addresses \ (Buf..Buf + FileSize(disk) - 1) : memory[a] = Junk

\* The stub jumps when every segment's part of the file is at its address, of
\* the segments copied first too.
SegmentsInPlace ==
  pc = "core_start" =>
    \A k \in 1..Len(disk.segments) : LET s == disk.segments[k] IN
      \A n \in 0..s.p_filesz - 1 : memory[s.p_vaddr + n] = FileSector(disk, s.p_offset + n)

\* What is copied was read: no kernel found, or one with a long name, never
\* passes for one; and one that is there is not missed.
KernelFound == pc \in {"copy", "core_start", "undefined"} => (pc = "undefined" <=> disk.file = <<>>)

\* The loader comes to an end.
LoaderEnds == <>(pc \in {"core_start", "undefined"})
=============================================================================
