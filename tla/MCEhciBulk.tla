----------------------------- MODULE MCEhciBulk -----------------------------
(* The commands of EHCI_BulkOnly_Setup with their tags, its own EHCI_Read   *)
(* of two sectors and one more of a single sector, over a bus that loses    *)
(* two acknowledgements.                                                    *)
EXTENDS EhciBulk

MCSetupCommands == <<[tag |-> 272, packets |-> 1],    \* INQUIRY, 0x110
                     [tag |-> 531, packets |-> 0],    \* TEST UNIT READY, 0x213
                     [tag |-> 5, packets |-> 1]>>     \* READ CAPACITY
MCReads == <<2, 1>>
=============================================================================
