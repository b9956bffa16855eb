---------------------------- MODULE BlockReader ----------------------------
(***************************************************************************)
(* What the stub expects of its USB disk: commands are answered one at a   *)
(* time, each with its own data and no other's, and every one is answered  *)
(* that the disk has carried out, or has failed with as much padding as    *)
(* was asked for.                                                          *)
(***************************************************************************)
EXTENDS Naturals, Sequences

CONSTANTS Sizes,          \* data packets each command asks for, in order
          Fates           \* what may become of a command

VARIABLES number,         \* the command at hand
          state,          \* "asked", or "answered" when the call has returned
          fate,           \* what the disk has made of it, "open" before
          answer          \* the data the caller has when the call returns

readerVars == <<number, state, fate, answer>>

\* The data command n brings, packet by packet.
Data(n) == [p \in 1..Sizes[n] |-> [cmd |-> n, packet |-> p, good |-> fate = "done"]]

ReaderInit == number = 1 /\ state = "asked" /\ fate = "open" /\ answer = <<>>

CarryOut == /\ state = "asked" /\ fate = "open" /\ fate' \in Fates
            /\ Sizes[number] = 0 => fate' \in {"done", "failed"}
            /\ UNCHANGED <<number, state, answer>>

\* One packet is too few for a command that asks for more.
Whole == fate \in {"done", "failed"} \/ (fate = "short" /\ Sizes[number] <= 1)

Answer == /\ state = "asked" /\ Whole
          /\ state' = "answered" /\ answer' = Data(number)
          /\ UNCHANGED <<number, fate>>

Ask == /\ state = "answered" /\ number < Len(Sizes)
       /\ number' = number + 1 /\ state' = "asked" /\ fate' = "open" /\ answer' = <<>>

ReaderNext == CarryOut \/ Answer \/ Ask

ReaderSpec == /\ ReaderInit /\ [][ReaderNext]_readerVars
              /\ WF_readerVars(CarryOut) /\ WF_readerVars(Answer)
============================================================================
