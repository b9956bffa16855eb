--------------------------- MODULE MCInterrupts ---------------------------
(***************************************************************************)
(* Interrupts on small instances: the timer, the keyboard, a device on     *)
(* line 7, which nobody has asked for, an AHCI controller on each PIC; and *)
(* the boot as kernel_main has it, without AHCI_init, where nobody has     *)
(* asked for the controllers' lines either.                                *)
(***************************************************************************)
EXTENDS Interrupts

MCSources     == {0, 1, 5, 7, 10}
MCDriverLines == <<10, 5>>
NoDriverLines == <<>>

\* What the build's handlers leave in %eax besides the count: the byte of the
\* end of interrupt, which they send last.
BuildLeftInEax == {32}
===========================================================================
