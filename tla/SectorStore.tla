---------------------------- MODULE SectorStore ----------------------------
(***************************************************************************)
(* What callers of AHCI_read and AHCI_write expect: a request moves its    *)
(* sectors between the buffer and the disk, all of them and nothing else,  *)
(* before the call returns.  Positions in a disk count units of 0x200      *)
(* bytes, like the buffer's; the buffer starts at 0.                       *)
(***************************************************************************)
EXTENDS Integers

CONSTANTS
  Requests,     \* [write, port, lba_low, lba_high, count]
  NoRequest,
  Word          \* lba_high counts multiples of this, 2^32

VARIABLES sector,     \* units in a sector of the disk on each port
          disk,       \* what the disk on each port has, by position
          buffer,     \* what the caller's buffer has
          asked,      \* the call's request, or NoRequest
          carried     \* it has been carried out

storeVars == <<sector, disk, buffer, asked, carried>>

First(r) == (r.lba_high * Word + r.lba_low) * sector[r.port]
Size(r) == r.count * sector[r.port]

Ask == /\ asked = NoRequest /\ asked' \in Requests /\ carried' = FALSE
       /\ UNCHANGED <<sector, disk, buffer>>

CarryOutRead ==
  /\ asked # NoRequest /\ ~asked.write /\ ~carried /\ carried' = TRUE
  /\ buffer' = [k \in DOMAIN buffer |->
                  IF k < Size(asked) THEN disk[asked.port][First(asked) + k] ELSE buffer[k]]
  /\ UNCHANGED <<sector, disk, asked>>

CarryOutWrite ==
  /\ asked # NoRequest /\ asked.write /\ ~carried /\ carried' = TRUE
  /\ LET first == First(asked) IN
     disk' = [disk EXCEPT ![asked.port] =
                [n \in DOMAIN @ |-> IF n - first \in 0..Size(asked) - 1 THEN buffer[n - first] ELSE @[n]]]
  /\ UNCHANGED <<sector, buffer, asked>>

Return == /\ asked # NoRequest /\ carried /\ asked' = NoRequest /\ carried' = FALSE
          /\ UNCHANGED <<sector, disk, buffer>>

StoreSpec == /\ asked = NoRequest /\ carried = FALSE
             /\ [][Ask \/ CarryOutRead \/ CarryOutWrite \/ Return]_storeVars
============================================================================
