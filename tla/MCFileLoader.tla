---------------------------- MODULE MCFileLoader ----------------------------
(* A FAT of ten entries, two per sector, of which four are read at once: the *)
(* third window goes beyond the FAT.  All chains of up to three of four      *)
(* clusters in different windows; one and two FATs, clusters of one and two  *)
(* sectors; the reserved bits set and not; directories with the kernel's     *)
(* entry in every position towards long names and other entries.             *)
EXTENDS FileLoader, FiniteSets

MCMatching == {"KERNEL  ELF", "KERNEL~1ELF"}
MCClusters == {3, 4, 7, 9}

Chains == UNION {{f \in [1..n -> MCClusters] : \A j, k \in 1..n : f[j] = f[k] => j = k} : n \in 1..3}

E(attributes, filename, cluster) ==
  [attributes |-> attributes, filename |-> filename, high |-> cluster \div 4, low |-> cluster % 4]
Ext == E("ext", "", 0)
End == E("none", "", 0)
Stub == E("file", "STUB    ELF", 5)
Older == E("file", "KERNEL~1ELF", 6)    \* the short name of a long one

DirsWith(c, kernel) ==
  {<<kernel, End>>, <<Stub, kernel, End>>} \cup
  IF c = 1 THEN {} ELSE {<<Ext, Older, kernel, End>>, <<kernel, Ext, Ext, Older, End>>}
DirsWithout(c, kernel) ==
  {<<Stub, End>>} \cup IF c = 1 THEN {} ELSE {<<Ext, kernel, End>>}

Fat(chain, end, reserved) ==
  [n \in 0..9 |->
     IF n \in {0, 1, 2} THEN end
     ELSE IF \E k \in 1..Len(chain) : chain[k] = n
       THEN LET k == CHOOSE k \in 1..Len(chain) : chain[k] = n
            IN reserved * 32 + (IF k = Len(chain) THEN end ELSE chain[k + 1])
     ELSE 0]

\* Two segments that share a sector, the later one lower; one with nothing to
\* copy between them.
Program(size) ==
  IF size < 2 THEN <<[p_offset |-> 0, p_filesz |-> size, p_vaddr |-> 8]>>
  ELSE <<[p_offset |-> size - 2, p_filesz |-> 2, p_vaddr |-> 9], [p_offset |-> 0, p_filesz |-> 0, p_vaddr |-> 9],
         [p_offset |-> size - 1, p_filesz |-> 1, p_vaddr |-> 8]>>

Disk(f, c, chain, file, dir, end, reserved) ==
  [lbaPartitionStart |-> 1, FSInfoSectorNumber |-> 1, reservedSectors |-> 2, numberOfFATs |-> f,
   sectorsPerFAT |-> 5, sectorsPerCluster |-> c, fat |-> Fat(chain, end, reserved), dir |-> dir,
   file |-> file, segments |-> Program(Len(file) * c)]

MCDisks ==
  UNION {{Disk(f, c, chain, chain, dir, end, reserved) :
            f \in {1, 2}, dir \in DirsWith(c, E("file", "KERNEL  ELF", chain[1])),
            end \in {24, 31}, reserved \in {0, 1}} : c \in {1, 2}, chain \in Chains}
  \cup
  UNION {{Disk(1, c, <<3>>, <<>>, dir, 31, 0) : dir \in DirsWithout(c, E("file", "KERNEL  ELF", 3))} :
         c \in {1, 2}}
=============================================================================
