------------------------------ MODULE EhciBulk ------------------------------
(***************************************************************************)
(* Reading a USB disk through the EHCI asynchronous schedule: the stub's   *)
(* EHCI_BulkOnly_Setup, EHCI_Read and usb_bulk_transaction (ehci.c).       *)
(*                                                                         *)
(* Three actors share memory without a lock.  The driver builds transfer   *)
(* descriptors (qTDs), links them into queue heads (QHs) and polls.  The   *)
(* host controller walks the ring of QHs at its own pace, fetches qTDs,    *)
(* moves packets and writes the result back.  The device answers when it   *)
(* is ready.  Acknowledgements may get lost: what keeps the two ends in    *)
(* step is the data toggle, which the driver computes for every qTD.       *)
(***************************************************************************)
EXTENDS Integers, Sequences, FiniteSetsExt

CONSTANTS
  SetupCommands,  \* the SCSI commands of EHCI_BulkOnly_Setup: tag and number
                  \* of data packets of each
  Reads,          \* the EHCI_Read calls after them: packets (sectors) of each
  LunStalls,      \* the disk answers GET_MAX_LUN with STALL, as it may
  MaxLosses,      \* bound on the acknowledgements that get lost
  Fates,          \* what may become of a command: "done"; "failed", its data
                  \* padded; "short", failed with less data than asked for;
                  \* "stalled", failed with STALL in the place of data
  PoolSize        \* qTDs there is room for

ReadTag == 5
Commands == SetupCommands \o [r \in DOMAIN Reads |-> [tag |-> ReadTag, packets |-> Reads[r]]]

ASSUME BulkAssumption ==
  /\ SetupCommands \in Seq([tag : Nat \ {0}, packets : Nat])
  /\ Reads \in Seq(Nat) /\ Len(Commands) > 0
  /\ LunStalls \in BOOLEAN
  /\ MaxLosses \in 0..2     \* at three in a row the controller gives up (CERR)
  /\ "done" \in Fates /\ Fates \subseteq {"done", "failed", "short", "stalled"}
  /\ PoolSize \in Nat

QHs  == {"control", "out", "in"}
Qtds == 0..(PoolSize - 1)
TERMINATE == -1                     \* the pointer that leads nowhere
Slots == {1} \cup UNION {1..Commands[n].packets : n \in DOMAIN Commands}

\* There are qTDs for GET_MAX_LUN and the setup's commands, one after the
\* other, and for any one read.
ASSUME PoolAssumption ==
  /\ \E start \in [1..Len(SetupCommands) + 1 -> 3..PoolSize] :
       /\ start[1] = 3
       /\ \A n \in DOMAIN SetupCommands : start[n + 1] = start[n] + 2 + SetupCommands[n].packets
  /\ \A r \in DOMAIN Reads : Reads[r] + 2 <= PoolSize

VARIABLES
  pc, c,              \* where the driver is, and which command it carries out
  qtd_count, cmd_qtd, \* qTDs allocated; the first of this command
  out_token, in_token,\* ehci_bulk_out_token and ehci_bulk_in_token
  qtd, qh,            \* the descriptors, in memory
  buf, csw,           \* the caller's buffer and the command status wrapper
  result,             \* what usb_bulk_transaction returned
  cursor,             \* the QH the controller is at
  outToggle, inToggle,\* the device's data toggles
  inq,                \* packets the device has to send, the first of them
                      \* until it has seen it acknowledged
  fate,               \* what has become of the command, "open" before it has it
  losses

driverVars == <<c, qtd_count, cmd_qtd, out_token, in_token, result>>
deviceVars == <<outToggle, inToggle, inq, fate, losses>>
vars == <<pc, driverVars, qtd, qh, buf, csw, cursor, deviceVars>>

NoPacket == [cmd |-> 0, packet |-> 0, good |-> FALSE]
STALL == -1

\* The packets of the answer to command n, its status last.  Data of a failed
\* command is padding.
Packet(n, p, f) == [cmd |-> n, packet |-> p, good |-> f = "done"]
DataOf(n, f) == [p \in 1..Commands[n].packets |-> Packet(n, p, f)]
Reply(n, f) ==
  CASE f \in {"done", "failed"} -> Append(DataOf(n, f), Packet(n, 0, f))
    [] f = "short" -> SubSeq(DataOf(n, f), 1, Min({1, Commands[n].packets})) \o <<Packet(n, 0, f)>>
    [] f = "stalled" -> <<Packet(n, STALL, f)>>

\* What a disk makes of command n: it can only stop short of data it owes.
Ends(n) == IF Commands[n].packets > 0 THEN Fates ELSE Fates \cap {"done", "failed"}

\* bCSWStatus, in which a failure is, is never read.
dCSWTag == IF csw.packet = 0 /\ csw.cmd # 0 THEN Commands[csw.cmd].tag ELSE 0

status_qtd == cmd_qtd + 1
data_head  == cmd_qtd + 2

-----------------------------------------------------------------------------
(* EHCI_Init leaves the control QH alone in the ring, the enumeration's    *)
(* transfers over, and the disk configured, both its toggles at zero.       *)

IdleQH(link) == [link |-> link, next |-> TERMINATE, cur |-> TERMINATE, active |-> FALSE,
                 halted |-> FALSE, toggle |-> 0, pid |-> "SETUP", slot |-> 0]

Init ==
  /\ pc = "init_control" /\ c = 1
  /\ qtd_count = 0 /\ cmd_qtd = 0 /\ out_token = 0 /\ in_token = 0
  /\ qtd = [t \in Qtds |-> [next |-> TERMINATE, active |-> FALSE,
                            toggle |-> 0, pid |-> "SETUP", slot |-> 0]]
  /\ qh = [q \in QHs |-> IdleQH(IF q = "control" THEN "control" ELSE "unset")]
  /\ buf = [p \in Slots |-> NoPacket] /\ csw = NoPacket /\ result = 1
  /\ cursor = "control"
  /\ outToggle = 0 /\ inToggle = 0 /\ inq = <<>> /\ fate = "open" /\ losses = 0

-----------------------------------------------------------------------------
(* The driver.  A descriptor the controller cannot reach yet is filled in  *)
(* in one step; each store to a QH of the ring is a step.                  *)

Goto(from, to) == pc = from /\ pc' = to

\* Everything but the link.
init_qh(q, from, to) == /\ Goto(from, to)
                        /\ qh' = [qh EXCEPT ![q] = IdleQH(@.link)]
                        /\ UNCHANGED <<driverVars, qtd, buf, csw, cursor, deviceVars>>

\* Mutant: the ring leads to the new QH before that leads on.
insert_qh_swapped(q, store) ==
  qh' = IF store = 2 THEN [qh EXCEPT ![q].link = qh["control"].link]
                     ELSE [qh EXCEPT !["control"].link = q]

\* The two stores of insert_qh; first_qh is the control QH.
insert_qh(q, store) ==
  qh' = IF store = 1 THEN [qh EXCEPT ![q].link = qh["control"].link]
                     ELSE [qh EXCEPT !["control"].link = q]

insert(q, store, from, to) == /\ Goto(from, to) /\ insert_qh(q, store)
                              /\ UNCHANGED <<driverVars, qtd, buf, csw, cursor, deviceVars>>

Inserting == \/ init_qh("control", "init_control", "init_out")
             \/ init_qh("out", "init_out", "init_in")
             \/ init_qh("in", "init_in", "link_out")
             \/ insert("out", 1, "link_out", "hook_out")
             \/ insert("out", 2, "hook_out", "link_in")
             \/ insert("in", 1, "link_in", "hook_in")
             \/ insert("in", 2, "hook_in", "lun")

\* GET_MAX_LUN: three qTDs, for the request, its byte of data, the status.
usb_control_transaction ==
  /\ Goto("lun", "link_lun")
  /\ qtd_count' = 3
  /\ qtd' = [t \in Qtds |->
       IF t > 2 THEN qtd[t]
       ELSE [next |-> IF t = 2 THEN TERMINATE ELSE t + 1, active |-> TRUE,
             toggle |-> IF t = 0 THEN 0 ELSE 1,
             pid |-> <<"SETUP", "IN", "OUT">>[t + 1], slot |-> 0]]
  /\ UNCHANGED <<c, cmd_qtd, out_token, in_token, result, qh, buf, csw, cursor, deviceVars>>

lun_link == /\ Goto("link_lun", "sleep")
            /\ qh' = [qh EXCEPT !["control"].next = 0]
            /\ UNCHANGED <<driverVars, qtd, buf, csw, cursor, deviceVars>>

\* Mutant: GET_MAX_LUN is slower than sleep(10).
lun_sleep_short == /\ Goto("sleep", "cmd")
                   /\ UNCHANGED <<driverVars, qtd, qh, buf, csw, cursor, deviceVars>>

\* sleep(10): nothing checks that the request is over, it has been by then.
lun_sleep == /\ Goto("sleep", "cmd")
             /\ qh["control"].halted \/ ~qtd[2].active
             /\ UNCHANGED <<driverVars, qtd, qh, buf, csw, cursor, deviceVars>>

init_qtd(t, prev, toggle, pid, slot) ==
  qtd' = [u \in Qtds |->
    IF u = t THEN [next |-> TERMINATE, active |-> TRUE, toggle |-> toggle, pid |-> pid, slot |-> slot]
    ELSE IF u = prev THEN [qtd[u] EXCEPT !.next = t] ELSE qtd[u]]

\* data_prev of usb_bulk_transaction.
data_prev == IF qtd_count = data_head THEN TERMINATE ELSE qtd_count - 1

\* Mutant: EHCI_Read goes on where the last call's qTDs end.
first_qtd_kept == qtd_count

\* EHCI_Read starts from the first qTD each time, the setup never does.
first_qtd == IF c > Len(SetupCommands) THEN 0 ELSE qtd_count

init_cmd == /\ Goto("cmd", "data")
            /\ cmd_qtd' = first_qtd /\ qtd_count' = first_qtd + 2
            /\ csw' = NoPacket
            /\ init_qtd(first_qtd, TERMINATE, out_token, "OUT", 0)
            /\ out_token' = 1 - out_token
            /\ UNCHANGED <<c, in_token, result, qh, buf, cursor, deviceVars>>

init_data == /\ pc = "data" /\ qtd_count - data_head < Commands[c].packets
             /\ qtd_count' = qtd_count + 1
             /\ init_qtd(qtd_count, data_prev, in_token, "IN", qtd_count - data_head + 1)
             /\ in_token' = 1 - in_token
             /\ UNCHANGED <<pc, c, cmd_qtd, out_token, result, qh, buf, csw, cursor, deviceVars>>

\* Mutant: the toggle is not flipped after the status.
init_status_no_flip ==
  /\ Goto("data", "link_cmd") /\ qtd_count - data_head = Commands[c].packets
  /\ init_qtd(status_qtd, data_prev, in_token, "IN", 0)
  /\ UNCHANGED <<driverVars, qh, buf, csw, cursor, deviceVars>>

init_status ==
  /\ Goto("data", "link_cmd") /\ qtd_count - data_head = Commands[c].packets
  /\ init_qtd(status_qtd, data_prev, in_token, "IN", 0)
  /\ in_token' = 1 - in_token
  /\ UNCHANGED <<c, qtd_count, cmd_qtd, out_token, result, qh, buf, csw, cursor, deviceVars>>

link_cmd == /\ Goto("link_cmd", "poll_cmd")
            /\ qh' = [qh EXCEPT !["out"].next = cmd_qtd]
            /\ UNCHANGED <<driverVars, qtd, buf, csw, cursor, deviceVars>>

poll_cmd == /\ Goto("poll_cmd", "link_answer") /\ ~qtd[cmd_qtd].active
            /\ UNCHANGED <<driverVars, qtd, qh, buf, csw, cursor, deviceVars>>

\* Mutant: the status alone is linked, the data never.
link_answer_status == /\ Goto("link_answer", "poll_status")
                      /\ qh' = [qh EXCEPT !["in"].next = status_qtd]
                      /\ UNCHANGED <<driverVars, qtd, buf, csw, cursor, deviceVars>>

link_answer ==
  /\ Goto("link_answer", "poll_status")
  /\ qh' = [qh EXCEPT !["in"].next = IF qtd_count = data_head THEN status_qtd ELSE data_head]
  /\ UNCHANGED <<driverVars, qtd, buf, csw, cursor, deviceVars>>

\* The status has come: the call compares the tags and returns.
poll_status == /\ Goto("poll_status", "returned") /\ ~qtd[status_qtd].active
               /\ result' = IF dCSWTag = Commands[c].tag THEN 0 ELSE 1
               /\ UNCHANGED <<c, qtd_count, cmd_qtd, out_token, in_token, qtd, qh, buf, csw, cursor, deviceVars>>

\* The caller goes on to its next command, into the same buffer.
next_command == /\ Goto("returned", "cmd") /\ c < Len(Commands)
                /\ c' = c + 1 /\ result' = 1 /\ fate' = "open"
                /\ UNCHANGED <<qtd_count, cmd_qtd, out_token, in_token, qtd, qh, buf, csw, cursor,
                               outToggle, inToggle, inq, losses>>

Driver == \/ Inserting \/ usb_control_transaction \/ lun_link \/ lun_sleep
          \/ init_cmd \/ init_data \/ init_status \/ link_cmd \/ poll_cmd
          \/ link_answer \/ poll_status \/ next_command

-----------------------------------------------------------------------------
(* The host controller, at the QH under its cursor.                        *)

\* Advance the queue: the next qTD, if active, is overlaid on the QH.
Fetch == \E q \in {cursor} \cap QHs :
  /\ ~qh[q].active /\ ~qh[q].halted
  /\ qh[q].next # TERMINATE /\ qtd[qh[q].next].active
  /\ LET t == qtd[qh[q].next] IN
       qh' = [qh EXCEPT ![q] = [link |-> @.link, next |-> t.next, cur |-> @.next,
                                active |-> TRUE, halted |-> FALSE,
                                toggle |-> t.toggle, pid |-> t.pid, slot |-> t.slot]]
  /\ UNCHANGED <<pc, driverVars, qtd, buf, csw, cursor, deviceVars>>

\* Retire the overlaid qTD and write its status back.
Retire(q, stalled) == /\ qh' = [qh EXCEPT ![q].active = FALSE, ![q].halted = stalled]
                      /\ qtd' = [qtd EXCEPT ![qh[q].cur].active = FALSE]

Loses == losses < MaxLosses /\ losses' = losses + 1

\* The stages of GET_MAX_LUN; a disk with one unit may refuse it.
ExecuteControl == /\ cursor = "control" /\ qh["control"].active
                  /\ \E stalled \in {FALSE} \cup (IF qh["control"].pid = "IN" THEN {LunStalls} ELSE {}) :
                       Retire("control", stalled)
                  /\ UNCHANGED <<pc, driverVars, buf, csw, cursor, deviceVars>>

\* The command block is sent; the device takes it once, by its toggle, and
\* carries it out or fails.
ExecuteOut == /\ cursor = "out" /\ qh["out"].active
              /\ IF qh["out"].toggle = outToggle
                   THEN \E f \in Ends(c) : /\ fate' = f /\ inq' = inq \o Reply(c, f)
                                         /\ outToggle' = 1 - outToggle
                   ELSE UNCHANGED <<fate, inq, outToggle>>
              /\ \/ Retire("out", FALSE) /\ UNCHANGED losses
                 \/ Loses /\ UNCHANGED <<qh, qtd>>
              /\ UNCHANGED <<pc, driverVars, buf, csw, cursor, inToggle>>

\* The device sends a packet.  With the expected toggle it is stored and ends
\* the qTD, else it is one sent again; in both cases it is acknowledged.
ExecuteIn == /\ cursor = "in" /\ qh["in"].active /\ inq # <<>> /\ Head(inq).packet # STALL
             /\ IF qh["in"].toggle = inToggle
                  THEN /\ Retire("in", FALSE)
                       /\ IF qh["in"].slot = 0
                            THEN csw' = Head(inq) /\ UNCHANGED buf
                            ELSE buf' = [buf EXCEPT ![qh["in"].slot] = Head(inq)] /\ UNCHANGED csw
                  ELSE UNCHANGED <<qh, qtd, buf, csw>>
             /\ \/ inq' = Tail(inq) /\ inToggle' = 1 - inToggle /\ UNCHANGED losses
                \/ Loses /\ UNCHANGED <<inq, inToggle>>
             /\ UNCHANGED <<pc, driverVars, cursor, outToggle, fate>>

\* The endpoint stays stalled until somebody clears it: nobody does.
ExecuteStall == /\ cursor = "in" /\ qh["in"].active /\ inq # <<>> /\ Head(inq).packet = STALL
                /\ Retire("in", TRUE)
                /\ UNCHANGED <<pc, driverVars, buf, csw, cursor, deviceVars>>

Execute == ExecuteControl \/ ExecuteOut \/ ExecuteIn \/ ExecuteStall

\* On to the next QH, whatever is left to do at this one.
MoveOn == \E q \in {cursor} \cap QHs :
  /\ cursor' = qh[q].link
  /\ UNCHANGED <<pc, driverVars, qtd, qh, buf, csw, deviceVars>>

-----------------------------------------------------------------------------
Next == Driver \/ Fetch \/ Execute \/ MoveOn

Spec == Init /\ [][Next]_vars

(***************************************************************************)
(* Fairness: the driver runs alone and goes on when it can; the controller *)
(* goes round and round the ring, and comes to serve a QH it has work at.  *)
(***************************************************************************)
FairSpec == Spec /\ WF_vars(Driver) /\ WF_vars(MoveOn) /\ SF_vars(Fetch) /\ SF_vars(Execute)

-----------------------------------------------------------------------------
(* Properties.                                                              *)

PCs == {"init_control", "init_out", "init_in", "link_out", "hook_out", "link_in", "hook_in",
        "lun", "link_lun", "sleep", "cmd", "data", "link_cmd", "poll_cmd",
        "link_answer", "poll_status", "returned"}

Pointers == Qtds \cup {TERMINATE}
Transfer == [next : Pointers, active : BOOLEAN, toggle : 0..1,
             pid : {"SETUP", "IN", "OUT"}, slot : Slots \cup {0}]
Packets  == [cmd : 0..Len(Commands), packet : {STALL, 0} \cup Slots, good : BOOLEAN]

\* Every variable has its type; in particular the qTD pool is not overrun.
TypeOK ==
  /\ pc \in PCs /\ c \in 1..Len(Commands)
  /\ qtd_count \in 0..PoolSize /\ cmd_qtd \in 0..PoolSize
  /\ out_token \in 0..1 /\ in_token \in 0..1 /\ result \in 0..1
  /\ qtd \in [Qtds -> Transfer]
  /\ \A q \in QHs : /\ qh[q].link \in QHs \cup {"unset"}
                    /\ qh[q].next \in Pointers /\ qh[q].cur \in Pointers
                    /\ qh[q].active \in BOOLEAN /\ qh[q].halted \in BOOLEAN
                    /\ qh[q].toggle \in 0..1 /\ qh[q].slot \in Slots \cup {0}
  /\ buf \in [Slots -> Packets] /\ csw \in Packets
  /\ cursor \in QHs \cup {"unset"}
  /\ outToggle \in 0..1 /\ inToggle \in 0..1
  /\ inq \in Seq(Packets) /\ fate \in Fates \cup {"open"} /\ losses \in 0..MaxLosses

\* The controller never follows a link nobody has set, although QHs are
\* inserted into the ring it is walking.
RingIntact == cursor \in QHs

\* The qTDs the controller works on, or will read next.
Live(q) == (IF qh[q].active THEN {qh[q].cur} ELSE {}) \cup
           (IF qh[q].halted THEN {}
            ELSE {t \in {qh[q].next} \ {TERMINATE} : qtd[t].active})

\* The driver never writes to a qTD the controller is at work on, although
\* every EHCI_Read takes its qTDs from the start of the pool again, where
\* GET_MAX_LUN's were and nothing has checked that it is over.
NoLiveQtdRewritten ==
  [][Driver => \A t \in Qtds : qtd'[t] # qtd[t] => \A q \in QHs : t \notin Live(q)]_vars

\* When a call returns, the toggles the driver will use next are those the
\* device will; if the device has not seen its status packet acknowledged
\* and will send it again, they differ, so that it is told from an answer.
TogglesInSync ==
  pc = "returned" => /\ out_token = outToggle
                     /\ inq = <<>> => in_token = inToggle
                     /\ inq # <<>> => Len(inq) = 1 /\ in_token # inToggle

\* The stub's disk implements the abstract block reader: each call returns
\* and has left in the caller's buffer what its own command brought, although
\* all EHCI_Reads share one tag and packets are repeated.  A command the disk
\* fails goes wrong alone: the ones after it have their own data again, unless
\* it was failed with less than the data asked for, and never returns.  That
\* it failed the caller does not learn.
Reader == INSTANCE BlockReader WITH
  Sizes  <- [n \in DOMAIN Commands |-> Commands[n].packets],
  number <- c,
  state  <- IF pc = "returned" THEN "answered" ELSE "asked",
  answer <- IF pc = "returned" /\ result = 0 THEN SubSeq(buf, 1, Commands[c].packets) ELSE <<>>
ImplementsReader == Reader!ReaderSpec
=============================================================================
