------------------------------- MODULE MCAhci -------------------------------
(* Bytes of two values: 16 sectors below lba_high, so that a disk of 20 has  *)
(* four above, and a count of 4 that is written 0.  Requests within one      *)
(* chunk of two units and over two of them, at both ends of the disk and     *)
(* across the low word's end.  The first port may have a disk with large     *)
(* sectors, of 8 units or 0x1000 bytes, which nobody reads or writes.        *)
EXTENDS Ahci

Device(kind, sector, sectors) == [kind |-> kind, sector |-> sector, sectors |-> sectors]
Ata48  == Device("ata48", 1, 20)
Absent == Device("absent", 1, 0)
None   == Device("none", 1, 0)

Ordinary == {Absent, None, Device("atapi", 1, 0), Device("ata28", 1, 20), Ata48}
Large    == {Device("ata28", 8, 3), Device("ata48", 8, 18)}

MCConnected == {connected \in [Port -> Ordinary \cup Large] :
                  /\ connected[0] \in {None} \cup Large
                  /\ \A p \in Port \ {0} : connected[p] \in Ordinary}
MCConnectedDisks == [Port -> {None, Ata48}]

\* lba_low, lba_high and count.
Ranges == {<<0, 0, 1>>, <<0, 0, 4>>, <<15, 0, 3>>, <<1, 1, 3>>}
AskFor(ports) == {[write |-> w, port |-> p, lba_low |-> r[1], lba_high |-> r[2], count |-> r[3]] :
                    w \in BOOLEAN, p \in ports, r \in Ranges}
MCRequests    == AskFor(Port \ {0})
MCRequestsAll == AskFor(Port)
=============================================================================
