------------------------------ MODULE Console ------------------------------
(***************************************************************************)
(* Text on the VGA screen: print.c and string.c of the stub and of the     *)
(* kernel, which differ in where they keep the index, and the procedures   *)
(* that print a structure field by field (stub/fs.c, stub/elf.c,           *)
(* stub/ehci.c).                                                           *)
(*                                                                         *)
(* A screen is the sequence of what has been written to it: a place, the   *)
(* characters, and the hex digits a reader is meant to find there.  The    *)
(* characters of a label are all the same one.                             *)
(***************************************************************************)
EXTENDS Integers, Sequences

VGA_WIDTH  == 80
VGA_HEIGHT == 25
Window     == 16384     \* characters in the 32 KB of text memory
Space      == 32
Letter     == 0         \* any character of a label

\* Mutant: the letters begin behind 10.
Digit_up_to_ten(n) == n + (IF n <= 10 THEN 48 ELSE 55)

Digit(n) == n + (IF n < 10 THEN 48 ELSE 55)

print_byte(b)  == <<Digit(b \div 16), Digit(b % 16)>>
print_word(w)  == print_byte(w \div 256) \o print_byte(w % 256)
print_dword(d) == print_word(d \div 65536) \o print_word(d % 65536)
print_space(n) == [k \in 1..n |-> Space]
print_string(n) == [k \in 1..n |-> Letter]      \* strlen of it is n

\* The digits of a value, as they are meant.
Nibbles(d, n) == [k \in 1..n |-> (d \div 16^(n - k)) % 16]

\* n digits of d by the procedure for their width.
Hex(d, n) == CASE n = 2 -> print_byte(d) [] n = 4 -> print_word(d) [] n = 8 -> print_dword(d)

\* A row: a label of some length, and a value of n digits behind it.
Labelled(at, label, d, n) ==
  [at |-> at, text |-> print_string(label) \o Hex(d, n), says |-> Nibbles(d, n)]

\* The sequence s without the members of S.
Without(s, S) ==
  LET without[k \in 0..Len(s)] ==
        IF k = 0 THEN <<>> ELSE without[k - 1] \o (IF s[k] \in S THEN <<>> ELSE <<s[k]>>)
  IN  without[Len(s)]

\* All that is displayed is cleared.  The memory behind it is not.
cls(screen) == LET written == {screen[k] : k \in DOMAIN screen}
               IN  Without(screen, {w \in written : w.at < VGA_WIDTH * VGA_HEIGHT})

-----------------------------------------------------------------------------
(* The fields of a structure, one in a row: label, digits.  Characters that *)
(* are printed as they are, and dots, count with the label.                *)

SCSI_READ_CAPACITY == <<<<48, 8>>, <<39, 8>>>>

FSINFO_DATA == <<<<27, 8>>, <<30, 8>>, <<39, 8>>, <<36, 8>>, <<28, 8>>>>

EBR_DATA == <<<<24, 8>>, <<16, 4>>, <<28, 4>>, <<37, 8>>, <<29, 4>>, <<39, 4>>, <<22, 2>>,
              <<25, 2>>, <<20, 2>>, <<19, 8>>, <<33, 0>>, <<35, 0>>>>

BPB_DATA == <<<<21, 6>>, <<32, 0>>, <<25, 4>>, <<28, 2>>, <<26, 4>>, <<23, 2>>, <<34, 4>>,
              <<27, 4>>, <<30, 2>>, <<24, 4>>, <<26, 4>>, <<38, 4>>, <<24, 8>>, <<27, 8>>>>

MBR_PARTITION_DATA == <<<<29, 2>>, <<34, 2>>, <<38, 8>>, <<39, 8>>>>

ELF_HEADER == <<<<24, 2>>, <<19, 0>>, <<23, 2>>, <<23, 2>>, <<26, 2>>, <<18, 2>>, <<17, 4>>,
                <<27, 4>>, <<23, 8>>>>

ELF_HEADER_32_EXT == <<<<35, 8>>, <<41, 8>>, <<44, 8>>, <<25, 8>>, <<30, 4>>, <<35, 4>>,
                       <<36, 4>>, <<38, 4>>, <<39, 4>>, <<43, 4>>>>

ELF_PROGRAM_HEADER == <<<<27, 8>>, <<29, 8>>, <<28, 8>>, <<28, 8>>, <<29, 8>>, <<28, 8>>,
                        <<28, 8>>, <<28, 8>>>>

\* The rows of a structure printed at an index, and the index behind them.
\* What the values are is left open: a digit is a letter like others here.
Rows(structure, index) ==
  [k \in DOMAIN structure |->
     [at   |-> IF k = 1 THEN index ELSE (index \div VGA_WIDTH + k - 1) * VGA_WIDTH,
      text |-> print_string(structure[k][1]) \o print_string(structure[k][2]), says |-> <<>>]]

Behind(structure, index) == (index \div VGA_WIDTH + Len(structure)) * VGA_WIDTH

-----------------------------------------------------------------------------
(* What can be read back from the text memory, displayed or not.           *)

Cells(w) == w.at .. w.at + Len(w.text) - 1

\* The character codes of the hex digits, in order.
Codes == <<48, 49, 50, 51, 52, 53, 54, 55, 56, 57, 65, 66, 67, 68, 69, 70>>

Read(text) == Without(text, {Space, Letter})

\* The k-th thing written: its digits are those meant, it is in one row, in
\* the text memory, and nothing written later, nor one of the counters the
\* handlers and the loops keep at the end of the rows, is on top of it.
Intact(screen, k, counters) ==
  LET w == screen[k]
  IN /\ Read(w.text) = [n \in DOMAIN w.says |-> Codes[w.says[n] + 1]]
     /\ w.at \div VGA_WIDTH = (w.at + Len(w.text) - 1) \div VGA_WIDTH
     /\ w.at + Len(w.text) <= Window
     /\ \A c \in counters : c \notin Cells(w)
     /\ \A j \in k + 1..Len(screen) :
          \/ w.at + Len(w.text) <= screen[j].at
          \/ screen[j].at + Len(screen[j].text) <= w.at
=============================================================================
