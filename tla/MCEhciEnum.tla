----------------------------- MODULE MCEhciEnum -----------------------------
(* Three ports, and on each nothing, a slow device or a fast one: a disk, a  *)
(* camera, a composite whose last interface is a disk's, an enclosure whose  *)
(* last interface is not, or one with a descriptor for which the parser has  *)
(* no branch.  Two descriptors in a packet, so that the configuration takes  *)
(* up to five.  The BIOS may have given any different addresses of 1 to 3.   *)
EXTENDS EhciEnum

Interface(nr, class) == [type |-> "interface", bInterfaceNumber |-> nr, class |-> class]
Endpoint(number, size) ==
  [type |-> "endpoint", bEndpointAddress |-> number, wMaxPacketSize |-> size]
Of(value, descriptors) ==
  << [type |-> "configuration", bConfigurationValue |-> value,
      wTotalLength |-> Len(descriptors) + 1] >> \o descriptors
High(value, descriptors) == [speed |-> "high", configuration |-> Of(value, descriptors)]
Simple(speed) == [speed |-> speed, configuration |-> <<>>]

Disk == High(1, << Interface(0, "bulk_only"), Endpoint(129, 512), Endpoint(2, 512) >>)

\* The streaming header's length is at another offset: what is read there
\* leads past the end.
Camera == High(1, << [type |-> "association"], Interface(0, "video"),
                     [type |-> "cs_interface", wTotalLength |-> 2], [type |-> "unit"],
                     Endpoint(131, 16), [type |-> "cs_endpoint"], Interface(1, "video"),
                     [type |-> "cs_interface", wTotalLength |-> 9] >>)

Composite == High(2, << Interface(0, "vendor"), Endpoint(3, 64), Endpoint(132, 64),
                        Interface(1, "bulk_only"), Endpoint(1, 512), Endpoint(130, 512) >>)

\* A disk with an alternate setting of its interface, for another protocol.
Enclosure == High(1, << Interface(2, "bulk_only"), Endpoint(5, 512), Endpoint(134, 512),
                        Interface(2, "uas"), Endpoint(135, 512) >>)

\* Descriptors for which the parser has no branch, or none here.
Keyboard == High(1, << Interface(0, "hid"), [type |-> "hid"], Endpoint(129, 8) >>)
Speaker  == High(1, << Interface(0, "audio"), [type |-> "cs_interface", wTotalLength |-> 1] >>)

MCDevices == {Simple("none"), Simple("full"), Disk, Camera, Composite, Enclosure, Keyboard, Speaker}
=============================================================================
