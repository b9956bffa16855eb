--------------------------- MODULE EhciBulkProofs ---------------------------
(***************************************************************************)
(* For any commands, any losses and whatever the disk fails: the ring of   *)
(* queue heads stays whole while the driver inserts into it, a qTD is only *)
(* rewritten when the controller is through with it, the data toggles of   *)
(* driver and device agree between the calls, and each call brings the     *)
(* data of its own command.                                                *)
(*                                                                         *)
(* The inductive invariant says, for every stage of the driver, which qTDs *)
(* are built and which of them are retired (PoolInv, Built, Chain), where  *)
(* each queue head is among them (ControlInv, OutInv, At), and how what    *)
(* the device has still to send continues what has been stored (Sync,      *)
(* Stored): either it starts with the packet the next active qTD is for,   *)
(* or with one sent again, and then the toggles differ.                    *)
(***************************************************************************)
EXTENDS EhciBulk, SequenceTheorems, TLAPS

\* Where the driver is, as far as the ring is concerned.
OutLinked == {"hook_out", "link_in", "hook_in", "lun", "link_lun", "sleep", "cmd", "data",
              "link_cmd", "poll_cmd", "link_answer", "poll_status", "returned"}
OutHooked == OutLinked \ {"hook_out"}
InLinked  == OutLinked \ {"hook_out", "link_in"}
InHooked  == InLinked \ {"hook_in"}

\* A QH that the ring leads to, or the controller is at, has been given a
\* link; and the control QH, where the ring starts, leads to nothing else.
Linked == {"control"} \cup (IF pc \in OutLinked THEN {"out"} ELSE {})
                      \cup (IF pc \in InLinked THEN {"in"} ELSE {})
Reached == {"control"} \cup (IF pc \in OutHooked THEN {"out"} ELSE {})
                       \cup (IF pc \in InHooked THEN {"in"} ELSE {})

RingInv == /\ pc \in PCs
           /\ cursor \in Reached
           /\ DOMAIN qh = QHs
           /\ \A q \in Linked : qh[q].link \in Reached

\* A step that leaves pc and the links alone leaves the ring alone.
LEMMA LinksKept ==
  ASSUME RingInv, pc' = pc, cursor' = cursor, DOMAIN qh' = QHs,
         \A q \in QHs : qh'[q].link = qh[q].link
  PROVE  RingInv'
BY DEF RingInv, Linked, Reached, QHs

LEMMA InitRing == Init => RingInv
BY DEF Init, RingInv, Linked, Reached, OutLinked, OutHooked, InLinked, InHooked, PCs, QHs, IdleQH

LEMMA StepRing == RingInv /\ [Next]_vars => RingInv'
<1> SUFFICES ASSUME RingInv, [Next]_vars PROVE RingInv' OBVIOUS
\* Past the insertions, where pc moves on and the links stay.
<1>1. ASSUME pc \in InHooked, pc' \in InHooked, UNCHANGED cursor, DOMAIN qh' = QHs,
             \A q \in QHs : qh'[q].link = qh[q].link
      PROVE  RingInv'
  BY <1>1 DEF RingInv, Linked, Reached, OutLinked, OutHooked, InLinked, InHooked, PCs, QHs
<1>2. CASE Inserting
  <2>1. ASSUME NEW q \in QHs, NEW from, NEW to, init_qh(q, from, to)
        PROVE  UNCHANGED cursor /\ DOMAIN qh' = QHs /\ \A r \in QHs : qh'[r].link = qh[r].link
    BY <2>1 DEF init_qh, RingInv, IdleQH
  <2>2. CASE init_qh("control", "init_control", "init_out")
    BY <2>1, <2>2 DEF init_qh, Goto, RingInv, Linked, Reached, OutLinked, OutHooked, InLinked, InHooked, PCs, QHs
  <2>3. CASE init_qh("out", "init_out", "init_in")
    BY <2>1, <2>3 DEF init_qh, Goto, RingInv, Linked, Reached, OutLinked, OutHooked, InLinked, InHooked, PCs, QHs
  <2>4. CASE init_qh("in", "init_in", "link_out")
    BY <2>1, <2>4 DEF init_qh, Goto, RingInv, Linked, Reached, OutLinked, OutHooked, InLinked, InHooked, PCs, QHs
  <2>5. CASE insert("out", 1, "link_out", "hook_out")
    BY <2>5 DEF insert, insert_qh, Goto, RingInv, Linked, Reached, OutLinked, OutHooked, InLinked, InHooked, PCs, QHs
  <2>6. CASE insert("out", 2, "hook_out", "link_in")
    BY <2>6 DEF insert, insert_qh, Goto, RingInv, Linked, Reached, OutLinked, OutHooked, InLinked, InHooked, PCs, QHs
  <2>7. CASE insert("in", 1, "link_in", "hook_in")
    BY <2>7 DEF insert, insert_qh, Goto, RingInv, Linked, Reached, OutLinked, OutHooked, InLinked, InHooked, PCs, QHs
  <2>8. CASE insert("in", 2, "hook_in", "lun")
    BY <2>8 DEF insert, insert_qh, Goto, RingInv, Linked, Reached, OutLinked, OutHooked, InLinked, InHooked, PCs, QHs
  <2>9. QED BY <1>2, <2>2, <2>3, <2>4, <2>5, <2>6, <2>7, <2>8 DEF Inserting
<1>3. ASSUME usb_control_transaction \/ lun_link \/ lun_sleep \/ init_cmd \/ init_data
             \/ init_status \/ link_cmd \/ poll_cmd \/ link_answer \/ poll_status \/ next_command
      PROVE  RingInv'
  <2>1. pc \in InHooked /\ pc' \in InHooked /\ UNCHANGED cursor
    BY <1>3 DEF usb_control_transaction, lun_link, lun_sleep, init_cmd, init_data, init_status, link_cmd,
                poll_cmd, link_answer, poll_status, next_command, Goto, InHooked, InLinked, OutLinked
  <2>2. \/ qh' = qh
        \/ \E t \in {0} : qh' = [qh EXCEPT !["control"].next = t]
        \/ \E t : qh' = [qh EXCEPT !["out"].next = t]
        \/ \E t : qh' = [qh EXCEPT !["in"].next = t]
    BY <1>3 DEF usb_control_transaction, lun_link, lun_sleep, init_cmd, init_data, init_status, link_cmd,
                poll_cmd, link_answer, poll_status, next_command
  <2>3. DOMAIN qh' = QHs /\ \A q \in QHs : qh'[q].link = qh[q].link
    <3>1. CASE qh' = qh BY <3>1 DEF RingInv
    <3>2. ASSUME NEW q \in QHs, NEW t, qh' = [qh EXCEPT ![q].next = t]
          PROVE  DOMAIN qh' = QHs /\ \A r \in QHs : qh'[r].link = qh[r].link
      BY <3>2 DEF RingInv
    <3>3. QED BY <2>2, <3>1, <3>2 DEF QHs
  <2>4. QED BY <1>1, <2>1, <2>3
<1>4. CASE Fetch
  <2>1. UNCHANGED <<pc, cursor>> BY <1>4 DEF Fetch
  <2>2. PICK q \in QHs : LET t == qtd[qh[q].next] IN
          qh' = [qh EXCEPT ![q] = [link |-> @.link, next |-> t.next, cur |-> @.next,
                                   active |-> TRUE, halted |-> FALSE,
                                   toggle |-> t.toggle, pid |-> t.pid, slot |-> t.slot]]
    BY <1>4 DEF Fetch
  <2>3. DOMAIN qh' = QHs /\ \A r \in QHs : qh'[r].link = qh[r].link BY <2>2 DEF RingInv
  <2>4. QED BY <2>1, <2>3, LinksKept
<1>5. CASE Execute
  <2>1. UNCHANGED <<pc, cursor>> BY <1>5 DEF Execute, ExecuteControl, ExecuteOut, ExecuteIn, ExecuteStall
  <2>2. qh' = qh \/ \E q \in QHs, stalled \in BOOLEAN : Retire(q, stalled)
    BY <1>5, BulkAssumption DEF Execute, ExecuteControl, ExecuteOut, ExecuteIn, ExecuteStall, QHs
  <2>3. DOMAIN qh' = QHs /\ \A q \in QHs : qh'[q].link = qh[q].link 
    <3>1. CASE qh' = qh BY <3>1 DEF RingInv
    <3>2. ASSUME NEW q \in QHs, NEW stalled \in BOOLEAN, Retire(q, stalled)
          PROVE  DOMAIN qh' = QHs /\ \A r \in QHs : qh'[r].link = qh[r].link
      BY <3>2 DEF Retire, RingInv
    <3>3. QED BY <2>2, <3>1, <3>2
  <2>4. QED BY <2>1, <2>3, LinksKept
<1>6. CASE MoveOn
  <2>1. cursor' \in Reached
    BY <1>6 DEF MoveOn, RingInv, Reached, Linked, OutHooked, InHooked, InLinked
  <2>2. QED BY <1>6, <2>1 DEF MoveOn, RingInv, Reached, Linked
<1>7. CASE UNCHANGED vars BY <1>7, LinksKept DEF vars, RingInv
<1>8. QED BY <1>2, <1>3, <1>4, <1>5, <1>6, <1>7 DEF Next, Driver

\* The controller never follows a link that has not been set, in whatever
\* order its steps and those of insert_qh come.
THEOREM RingNeverBroken == Spec => []RingIntact
<1>1. RingInv => RingIntact BY DEF RingInv, RingIntact, Reached, QHs
<1>2. QED BY <1>1, InitRing, StepRing, PTL DEF Spec

-----------------------------------------------------------------------------
(* One command after the other.                                             *)

\* The stages of the work on a command, and those before the first.
Starting == {"init_control", "init_out", "init_in", "link_out", "hook_out", "link_in", "hook_in", "lun"}
Building == {"data", "link_cmd"}
Linked_in == {"link_cmd", "poll_cmd", "link_answer", "poll_status"}
Sent     == {"link_answer", "poll_status", "returned"}

P == Commands[c].packets

\* The qTDs of a command are the next ones, or the first if it is a read;
\* start says where the setup's are.
Starts(start) == /\ start \in [1..Len(SetupCommands) + 1 -> 3..PoolSize] /\ start[1] = 3
                 /\ \A n \in DOMAIN SetupCommands : start[n + 1] = start[n] + 2 + SetupCommands[n].packets

PoolInv(start) ==
  /\ pc \in Starting \cup {"link_lun", "sleep"} => c = 1 /\ cmd_qtd = 0
  /\ pc \in Starting => qtd_count = 0
  /\ pc \in {"link_lun", "sleep"} => qtd_count = 3
  /\ pc = "cmd" /\ c <= Len(SetupCommands) => qtd_count = start[c]
  /\ pc \in Building \cup Linked_in \cup Sent =>
       /\ cmd_qtd = IF c <= Len(SetupCommands) THEN start[c] ELSE 0
       /\ qtd_count - data_head \in 0..P
       /\ pc # "data" => qtd_count - data_head = P

-----------------------------------------------------------------------------
(* The three queue heads.                                                   *)

Idle(q) == ~qh[q].active /\ ~qh[q].halted /\ qh[q].next = TERMINATE

\* GET_MAX_LUN's qTDs, the first k of them retired.
Lun(k) == \A t \in 0..2 : qtd[t] = [next |-> IF t = 2 THEN TERMINATE ELSE t + 1, active |-> t >= k,
                                   toggle |-> IF t = 0 THEN 0 ELSE 1,
                                   pid |-> <<"SETUP", "IN", "OUT">>[t + 1], slot |-> 0]

ControlInv ==
  LET h == qh["control"]
  IN  /\ pc \in Starting \cup {"link_lun"} => Idle("control")
      /\ pc = "link_lun" => Lun(0)
      /\ pc = "sleep" =>
           \/ h.halted /\ ~h.active
           \/ \E k \in 0..3 : /\ Lun(k) /\ ~h.halted
                              /\ \/ ~h.active /\ h.next = (IF k = 3 THEN TERMINATE ELSE k)
                                 \/ /\ h.active /\ k < 3 /\ h.cur = k
                                    /\ h.next = (IF k = 2 THEN TERMINATE ELSE k + 1)
      /\ pc \notin Starting \cup {"link_lun", "sleep"} =>
           ~h.active /\ (h.halted \/ h.next = TERMINATE)

\* The command block: waiting, with the controller, or taken.
CmdQtd(active) == [next |-> TERMINATE, active |-> active, toggle |-> 1 - out_token, pid |-> "OUT", slot |-> 0]
OutInv ==
  LET h == qh["out"]
  IN  /\ pc # "poll_cmd" => Idle("out")
      /\ pc \notin Building \cup {"poll_cmd"} => outToggle = out_token
      /\ pc \in Building => outToggle = 1 - out_token /\ qtd[cmd_qtd] = CmdQtd(TRUE)
      /\ pc \notin Sent \cup {"poll_cmd"} => fate = "open"
      /\ pc \in Sent => fate # "open"
      /\ pc = "poll_cmd" =>
           /\ ~h.halted
           /\ \/ /\ ~h.active /\ h.next = cmd_qtd /\ qtd[cmd_qtd] = CmdQtd(TRUE)
                 /\ fate = "open" /\ outToggle = 1 - out_token
              \/ /\ h.active /\ h.cur = cmd_qtd /\ h.next = TERMINATE /\ h.toggle = 1 - out_token
                 /\ qtd[cmd_qtd] = CmdQtd(TRUE)
                 /\ outToggle = IF fate = "open" THEN 1 - out_token ELSE out_token
              \/ /\ ~h.active /\ h.next = TERMINATE /\ qtd[cmd_qtd] = CmdQtd(FALSE)
                 /\ fate # "open" /\ outToggle = out_token

\* The qTDs of the answer in their order, the last one for the status.
Elem(k) == IF k < P THEN data_head + k ELSE status_qtd
After(k) == IF k < P THEN Elem(k + 1) ELSE TERMINATE
Toggle(b, k) == (b + k) % 2

InQtd(b, k, next, active) == [next |-> next, active |-> active, toggle |-> Toggle(b, k), pid |-> "IN",
                              slot |-> IF k < P THEN k + 1 ELSE 0]

\* Those built so far; all of them, the first j retired.
Built(b) == \A k \in 0..qtd_count - data_head - 1 :
              qtd[data_head + k] = InQtd(b, k, IF k = qtd_count - data_head - 1 THEN TERMINATE
                                               ELSE data_head + k + 1, TRUE)
Chain(b, j) == \A k \in 0..P : qtd[Elem(k)] = InQtd(b, k, After(k), k >= j)

\* The controller comes to the qTD after the first j, is at it, or through.
At(b, j) == LET h == qh["in"] IN
  /\ ~h.halted
  /\ \/ j <= P /\ ~h.active /\ h.next = Elem(j)
     \/ /\ j <= P /\ h.active /\ h.cur = Elem(j) /\ h.next = After(j)
        /\ h.toggle = Toggle(b, j) /\ h.slot = (IF j < P THEN j + 1 ELSE 0)
     \/ j = P + 1 /\ ~h.active /\ h.next = TERMINATE

\* What the device has still to send is the answer from its packet j + 1 on,
\* behind d packets that it sends again; the toggles say which it is.
Queue(d, j, f) ==
  LET reply == IF f = "open" THEN <<>> ELSE Reply(c, f)
  IN  /\ j <= Len(reply) /\ Len(inq) = d + Len(reply) - j
      /\ \A k \in 1..Len(reply) - j : inq[d + k] = reply[j + k]
Sync(b, j, f) == \E d \in 0..1 :
  /\ Queue(d, j, f)
  /\ d = 1 => inq[1].packet # STALL
  /\ inToggle = IF d = 0 THEN Toggle(b, j) ELSE 1 - Toggle(b, j)

\* The packets that have come are where they belong.
Stored(j) == /\ \A k \in 1..P : k <= j => buf[k] = Reply(c, fate)[k]
             /\ j = P + 1 => csw = Reply(c, fate)[j]

\* A stalled endpoint stays so, before the status.
Stalled(b) == /\ P > 0 /\ qh["in"].halted /\ ~qh["in"].active /\ Chain(b, 1)
              /\ fate = "stalled"

InAt(b) ==
  /\ pc \notin Building \cup Linked_in => b = in_token
  /\ pc = "data" => Built(b) /\ in_token = Toggle(b, qtd_count - data_head)
  /\ pc \in Linked_in => in_token = Toggle(b, P + 1)
  /\ pc \in Linked_in \ {"poll_status"} => Chain(b, 0)
  /\ pc # "poll_status" => Idle("in") /\ Sync(b, 0, IF pc = "returned" THEN "open" ELSE fate)
  /\ pc = "poll_status" =>
       \/ Stalled(b)
       \/ \E j \in 0..P + 1 : Chain(b, j) /\ At(b, j) /\ Sync(b, j, fate) /\ Stored(j)
InInv == \E b \in 0..1 : InAt(b)

\* What the call has brought when it returns.
Whole == fate \in {"done", "failed"} \/ (fate = "short" /\ P = 1)
AnswerInv == pc = "returned" =>
  /\ Whole /\ result = 0
  /\ \A k \in 1..P : buf[k] = Packet(c, k, fate)

-----------------------------------------------------------------------------
(* Types.                                                                   *)

PID == {"SETUP", "IN", "OUT"}
QH == [link : QHs \cup {"unset"}, next : Pointers, cur : Pointers, active : BOOLEAN, halted : BOOLEAN,
       toggle : 0..1, pid : PID, slot : Slots \cup {0}]

TypesInv ==
  /\ pc \in PCs /\ c \in 1..Len(Commands)
  /\ qtd_count \in 0..PoolSize /\ cmd_qtd \in 0..PoolSize
  /\ out_token \in 0..1 /\ in_token \in 0..1 /\ result \in 0..1
  /\ qtd \in [Qtds -> Transfer] /\ qh \in [QHs -> QH]
  /\ buf \in [Slots -> Packets] /\ csw \in Packets
  /\ cursor \in QHs \cup {"unset"}
  /\ outToggle \in 0..1 /\ inToggle \in 0..1
  /\ inq \in Seq(Packets) /\ fate \in Ends(c) \cup {"open"} /\ losses \in 0..MaxLosses

LEMMA CommandTypes ==
  /\ Len(Commands) \in Nat \ {0} /\ Len(SetupCommands) \in Nat /\ DOMAIN SetupCommands = 1..Len(SetupCommands)
  /\ DOMAIN Commands = 1..Len(Commands)
  /\ \A n \in 1..Len(Commands) :
       /\ Commands[n].packets \in Nat /\ Commands[n].tag \in Nat \ {0}
       /\ 1..Commands[n].packets \subseteq Slots
       /\ n <= Len(SetupCommands) => Commands[n] = SetupCommands[n]
       /\ n > Len(SetupCommands) => Commands[n].packets + 2 <= PoolSize
<1> DEFINE COMMAND == [tag : Nat \ {0}, packets : Nat]
           calls == [r \in DOMAIN Reads |-> [tag |-> ReadTag, packets |-> Reads[r]]]
<1>1. SetupCommands \in Seq(COMMAND) /\ Reads \in Seq(Nat) BY BulkAssumption
<1>2. calls \in Seq(COMMAND) /\ Len(calls) = Len(Reads) /\ Len(Reads) \in Nat
  <2>1. calls \in [1..Len(Reads) -> COMMAND] BY <1>1 DEF ReadTag
  <2>2. Len(Reads) \in Nat BY <1>1
  <2>3. QED BY <2>1, <2>2
<1>3. Commands = SetupCommands \o calls BY DEF Commands
<1> HIDE DEF COMMAND, calls
<1>4. /\ Commands \in Seq(COMMAND) /\ Len(Commands) = Len(SetupCommands) + Len(calls)
      /\ \A n \in 1..Len(SetupCommands) + Len(calls) :
           Commands[n] = IF n <= Len(SetupCommands) THEN SetupCommands[n] ELSE calls[n - Len(SetupCommands)]
  BY <1>1, <1>2, <1>3, ConcatProperties
<1>5. Len(SetupCommands) \in Nat /\ DOMAIN SetupCommands = 1..Len(SetupCommands)
      /\ DOMAIN Commands = 1..Len(Commands) /\ Len(Commands) \in Nat
  BY <1>1, <1>4
<1>6. Len(Commands) > 0 BY BulkAssumption
<1>7. ASSUME NEW n \in 1..Len(Commands)
      PROVE  /\ Commands[n].packets \in Nat /\ Commands[n].tag \in Nat \ {0}
             /\ 1..Commands[n].packets \subseteq Slots
             /\ n <= Len(SetupCommands) => Commands[n] = SetupCommands[n]
             /\ n > Len(SetupCommands) => Commands[n].packets + 2 <= PoolSize
  <2>1. Commands[n] \in COMMAND BY <1>4
  <2>2. Commands[n].packets \in Nat /\ Commands[n].tag \in Nat \ {0} BY <2>1 DEF COMMAND
  <2>3. 1..Commands[n].packets \subseteq Slots BY <1>5 DEF Slots
  <2>4. n <= Len(SetupCommands) => Commands[n] = SetupCommands[n] BY <1>4
  <2>5. ASSUME n > Len(SetupCommands) PROVE Commands[n].packets + 2 <= PoolSize
    <3>1. n - Len(SetupCommands) \in 1..Len(Reads) /\ Commands[n] = calls[n - Len(SetupCommands)]
      BY <1>2, <1>4, <1>5, <2>5
    <3>2. Commands[n].packets = Reads[n - Len(SetupCommands)] BY <1>1, <3>1 DEF calls
    <3>3. QED BY <1>1, <3>1, <3>2, PoolAssumption
  <2>6. QED BY <2>2, <2>3, <2>4, <2>5
<1>8. QED BY <1>5, <1>6, <1>7

LEMMA SlotTypes == /\ Slots \subseteq Nat \ {0} /\ 1 \in Slots
                   /\ NoPacket \in Packets /\ PoolSize \in Nat /\ 3 <= PoolSize
<1>1. \A n \in DOMAIN Commands : 1..Commands[n].packets \subseteq Nat \ {0} BY CommandTypes
<1>2. Slots \subseteq Nat \ {0} /\ 1 \in Slots BY <1>1 DEF Slots
<1>3. NoPacket \in Packets BY CommandTypes DEF NoPacket, Packets
<1>4. PICK start \in [1..Len(SetupCommands) + 1 -> 3..PoolSize] : start[1] = 3 BY PoolAssumption
<1>5. start[1] \in 3..PoolSize BY <1>4, CommandTypes
<1>6. PoolSize \in Nat BY BulkAssumption
<1>7. QED BY <1>2, <1>3, <1>4, <1>5, <1>6

\* The packets of an answer.
LEMMA ReplyFacts ==
  ASSUME NEW n \in 1..Len(Commands), NEW f \in Ends(n)
  PROVE  LET reply == Reply(n, f)
             packets == Commands[n].packets
         IN  /\ reply \in Seq(Packets) /\ Len(reply) \in Nat
             /\ f \in {"done", "failed", "short", "stalled"}
             /\ f \in {"short", "stalled"} => packets > 0
             /\ f \in {"done", "failed"} =>
                  /\ Len(reply) = packets + 1 /\ reply[packets + 1] = Packet(n, 0, f)
                  /\ \A k \in 1..packets : reply[k] = Packet(n, k, f)
             /\ f = "short" => Len(reply) = 2 /\ reply[1] = Packet(n, 1, f) /\ reply[2] = Packet(n, 0, f)
             /\ f = "stalled" => Len(reply) = 1 /\ reply[1] = Packet(n, STALL, f)
             /\ \A k \in 1..Len(reply) : (reply[k].packet = STALL) <=> (f = "stalled")
<1> DEFINE packets == Commands[n].packets
<1>1. packets \in Nat /\ 1..packets \subseteq Slots BY CommandTypes
<1>2. f \in {"done", "failed", "short", "stalled"} /\ (f \in {"short", "stalled"} => packets > 0)
  BY <1>1, BulkAssumption DEF Ends
<1>3. \A p \in {STALL, 0} \cup Slots : Packet(n, p, f) \in Packets /\ Packet(n, p, f).packet = p
  BY CommandTypes DEF Packet, Packets
<1>4. /\ DataOf(n, f) \in [1..packets -> Packets] /\ DataOf(n, f) \in Seq(Packets) /\ Len(DataOf(n, f)) = packets
      /\ \A k \in 1..packets : DataOf(n, f)[k] = Packet(n, k, f)
  <2>1. DataOf(n, f) = [p \in 1..packets |-> Packet(n, p, f)] BY DEF DataOf
  <2>2. DataOf(n, f) \in [1..packets -> Packets] BY <1>1, <1>3, <2>1
  <2>3. QED BY <1>1, <2>1, <2>2
<1>5. STALL # 0 /\ \A k \in 1..packets : k # STALL BY <1>1 DEF STALL
<1> HIDE DEF packets
<1>6. CASE f \in {"done", "failed"}
  <2>1. Reply(n, f) = Append(DataOf(n, f), Packet(n, 0, f)) BY <1>6 DEF Reply
  <2>2. /\ Reply(n, f) \in Seq(Packets) /\ Len(Reply(n, f)) = packets + 1
        /\ \A k \in 1..packets : Reply(n, f)[k] = DataOf(n, f)[k]
        /\ Reply(n, f)[packets + 1] = Packet(n, 0, f)
    BY <1>1, <1>3, <1>4, <2>1, AppendProperties
  <2>3. ASSUME NEW k \in 1..packets + 1 PROVE Reply(n, f)[k].packet # STALL
    <3>1. CASE k = packets + 1 BY <1>3, <1>5, <2>2, <3>1
    <3>2. CASE k # packets + 1
      <4>1. k \in 1..packets BY <1>1, <3>2
      <4>2. Reply(n, f)[k] = Packet(n, k, f) /\ k \in Slots BY <1>1, <1>4, <2>2, <4>1
      <4>3. QED BY <1>3, <1>5, <4>1, <4>2
    <3>3. QED BY <3>1, <3>2
  <2>4. QED BY <1>1, <1>4, <1>6, <2>2, <2>3 DEF packets
<1>7. CASE f = "short"
  <2>1. Min({1, packets}) = 1
    <3>1. 1 <= packets BY <1>1, <1>2, <1>7
    <3>2. 1 \in {1, packets} /\ (\A y \in {1, packets} : 1 <= y) BY <1>1, <3>1
    <3>3. \A x \in {1, packets} : (\A y \in {1, packets} : x <= y) => x = 1 BY <1>1, <3>1
    <3>4. QED BY <3>2, <3>3 DEF Min
  <2> DEFINE one == SubSeq(DataOf(n, f), 1, 1)
             status == <<Packet(n, 0, f)>>
  <2>2. Reply(n, f) = one \o status BY <1>7, <2>1 DEF Reply, packets
  <2>3. one \in Seq(Packets) /\ Len(one) = 1 /\ one[1] = Packet(n, 1, f)
    <3>1. 1 \in 1..packets BY <1>1, <1>2, <1>7 DEF packets
    <3>2. one = [k \in 1..1 |-> DataOf(n, f)[k]] BY <1>4, <3>1
    <3>3. one \in [1..1 -> Packets]
      <4>1. \A k \in 1..1 : k = 1 OBVIOUS
      <4>2. DataOf(n, f)[1] \in Packets BY <1>4, <3>1
      <4>3. QED BY <3>2, <4>1, <4>2
    <3>4. QED BY <1>4, <3>1, <3>2, <3>3
  <2>4. status \in Seq(Packets) /\ Len(status) = 1 /\ status[1] = Packet(n, 0, f) BY <1>3
  <2> HIDE DEF one, status
  <2>5. /\ Reply(n, f) \in Seq(Packets) /\ Len(Reply(n, f)) = 2
        /\ Reply(n, f)[1] = Packet(n, 1, f) /\ Reply(n, f)[2] = Packet(n, 0, f)
    <3>1. /\ Reply(n, f) \in Seq(Packets) /\ Len(Reply(n, f)) = Len(one) + Len(status)
          /\ \A k \in 1..Len(one) + Len(status) :
               Reply(n, f)[k] = IF k <= Len(one) THEN one[k] ELSE status[k - Len(one)]
      <4>1. /\ one \o status \in Seq(Packets) /\ Len(one \o status) = Len(one) + Len(status)
            /\ \A k \in 1..Len(one) + Len(status) :
                 (one \o status)[k] = IF k <= Len(one) THEN one[k] ELSE status[k - Len(one)]
        <5>1. one \in Seq(Packets) /\ status \in Seq(Packets) BY <2>3, <2>4
        <5>2. QED BY <5>1, ConcatProperties, Zenon
      <4>2. QED BY <2>2, <4>1
    <3>2. QED BY <2>3, <2>4, <3>1
  <2>6. 1 \in Slots /\ STALL # 1 BY SlotTypes DEF STALL
  <2>7. \A k \in 1..2 : Reply(n, f)[k].packet # STALL
    <3>1. \A k \in 1..2 : k = 1 \/ k = 2 OBVIOUS
    <3>2. Packet(n, 1, f).packet = 1 /\ Packet(n, 0, f).packet = 0 BY DEF Packet
    <3>3. QED BY <1>5, <2>5, <2>6, <3>1, <3>2
  <2>8. f # "stalled" /\ f \notin {"done", "failed"} BY <1>7
  <2>9. QED BY <1>2, <1>7, <2>5, <2>7, <2>8 DEF packets
<1>8. CASE f = "stalled"
  <2>1. Reply(n, f) = <<Packet(n, STALL, f)>> BY <1>8 DEF Reply
  <2>2. Packet(n, STALL, f) \in Packets /\ Packet(n, STALL, f).packet = STALL BY <1>3
  <2>3. Reply(n, f) \in Seq(Packets) /\ Len(Reply(n, f)) = 1 /\ Reply(n, f)[1] = Packet(n, STALL, f)
    BY <2>1, <2>2
  <2>4. \A k \in 1..1 : k = 1 OBVIOUS
  <2>5. f # "short" /\ f \notin {"done", "failed"} BY <1>8
  <2>6. QED BY <1>2, <1>8, <2>2, <2>3, <2>4, <2>5 DEF packets
<1>9. QED BY <1>6, <1>7, <1>8, <1>2

-----------------------------------------------------------------------------
(* What the steps do to the queue heads and the qTDs.                       *)

LEMMA ToggleFacts ==
  /\ \A b \in 0..1 : Toggle(b, 0) = b
  /\ \A b \in 0..1, k \in Nat : Toggle(b, k) \in 0..1 /\ Toggle(b, k + 1) = 1 - Toggle(b, k)
<1>1. \A b \in 0..1 : Toggle(b, 0) = b BY DEF Toggle
<1>2. \A x \in Nat : x % 2 \in 0..1 /\ (x + 1) % 2 = 1 - (x % 2) OBVIOUS
<1>3. ASSUME NEW b \in 0..1, NEW k \in Nat
      PROVE  Toggle(b, k) \in 0..1 /\ Toggle(b, k + 1) = 1 - Toggle(b, k)
  <2>1. b + k \in Nat /\ b + (k + 1) = (b + k) + 1 OBVIOUS
  <2>2. QED BY <1>2, <2>1 DEF Toggle
<1>4. QED BY <1>1, <1>3

\* A qTD retired, and one led on to another.
Over(t) == [next |-> t.next, active |-> FALSE, toggle |-> t.toggle, pid |-> t.pid, slot |-> t.slot]
Leading(t, u) == [next |-> u, active |-> t.active, toggle |-> t.toggle, pid |-> t.pid, slot |-> t.slot]

LEMMA Rewritten ==
  ASSUME NEW t \in Transfer, NEW u \in Pointers
  PROVE  /\ [t EXCEPT !.active = FALSE] = Over(t) /\ Over(t) \in Transfer
         /\ [t EXCEPT !.next = u] = Leading(t, u) /\ Leading(t, u) \in Transfer
<1>1. /\ t = [next |-> t.next, active |-> t.active, toggle |-> t.toggle, pid |-> t.pid, slot |-> t.slot]
      /\ t.next \in Pointers /\ t.active \in BOOLEAN /\ t.toggle \in 0..1
      /\ t.pid \in {"SETUP", "IN", "OUT"} /\ t.slot \in Slots \cup {0}
  BY DEF Transfer
<1>2. [t EXCEPT !.active = FALSE] = Over(t)
  <2> DEFINE x == [t EXCEPT !.active = FALSE]
  <2>1. x \in Transfer BY DEF Transfer
  <2>2. x.next = t.next /\ x.toggle = t.toggle /\ x.pid = t.pid /\ x.slot = t.slot BY DEF Transfer
  <2>3. x.active = FALSE BY DEF Transfer
  <2> HIDE DEF x
  <2>4. x = [next |-> x.next, active |-> x.active, toggle |-> x.toggle, pid |-> x.pid, slot |-> x.slot]
    BY <2>1 DEF Transfer
  <2>5. x = Over(t) BY <2>2, <2>3, <2>4 DEF Over
  <2>6. QED BY <2>5 DEF x
<1>3. [t EXCEPT !.next = u] = Leading(t, u) BY <1>1 DEF Leading
<1>4. Over(t) \in Transfer BY <1>1 DEF Over, Transfer
<1>5. Leading(t, u) \in Transfer BY <1>1 DEF Leading, Transfer
<1>6. QED BY <1>2, <1>3, <1>4, <1>5

LEMMA LinkFacts ==
  ASSUME TypesInv, NEW q \in QHs, NEW t \in Pointers, qh' = [qh EXCEPT ![q].next = t]
  PROVE  /\ qh' \in [QHs -> QH] /\ \A r \in QHs : r # q => qh'[r] = qh[r]
         /\ qh'[q] = [qh[q] EXCEPT !.next = t]
         /\ qh'[q].next = t /\ qh'[q].active = qh[q].active /\ qh'[q].halted = qh[q].halted
<1>1. qh \in [QHs -> QH] /\ qh[q] \in QH BY DEF TypesInv
<1>2. qh' = [qh EXCEPT ![q] = [qh[q] EXCEPT !.next = t]] OBVIOUS
<1>3. [qh[q] EXCEPT !.next = t] \in QH BY <1>1 DEF QH
<1>4. QED BY <1>1, <1>2, <1>3 DEF QH

LEMMA FetchFacts ==
  ASSUME TypesInv, Fetch
  PROVE  LET q == cursor
             t == qh[q].next
         IN  /\ q \in QHs /\ ~qh[q].active /\ ~qh[q].halted /\ t \in Qtds /\ qtd[t].active
             /\ qh' \in [QHs -> QH] /\ \A r \in QHs : r # q => qh'[r] = qh[r]
             /\ qh'[q].active /\ ~qh'[q].halted /\ qh'[q].cur = t /\ qh'[q].next = qtd[t].next
             /\ qh'[q].toggle = qtd[t].toggle /\ qh'[q].slot = qtd[t].slot /\ qh'[q].pid = qtd[t].pid
<1> DEFINE q == cursor
           t == qh[q].next
           new == [link |-> qh[q].link, next |-> qtd[t].next, cur |-> qh[q].next,
                   active |-> TRUE, halted |-> FALSE,
                   toggle |-> qtd[t].toggle, pid |-> qtd[t].pid, slot |-> qtd[t].slot]
<1>1. /\ q \in QHs /\ ~qh[q].active /\ ~qh[q].halted /\ t # TERMINATE /\ qtd[t].active
      /\ qh' = [qh EXCEPT ![q] = new]
  BY DEF Fetch
<1>2. qh \in [QHs -> QH] /\ qh[q] \in QH /\ qtd \in [Qtds -> Transfer] BY <1>1 DEF TypesInv
<1>3. t \in Qtds BY <1>1, <1>2 DEF QH, Pointers
<1>4. new \in QH
  <2>1. qtd[t] \in Transfer BY <1>2, <1>3
  <2>2. QED BY <1>2, <2>1 DEF QH, Transfer, PID
<1>5. qh' \in [QHs -> QH] /\ qh'[q] = new /\ \A r \in QHs : r # q => qh'[r] = qh[r] BY <1>1, <1>2, <1>4
<1>6. QED BY <1>1, <1>3, <1>5

LEMMA RetireFacts ==
  ASSUME TypesInv, NEW q \in QHs, NEW stalled \in BOOLEAN, Retire(q, stalled)
  PROVE  /\ qh' \in [QHs -> QH] /\ \A r \in QHs : r # q => qh'[r] = qh[r]
         /\ ~qh'[q].active /\ (qh'[q].halted <=> stalled) /\ qh'[q].next = qh[q].next
         /\ qtd' \in [Qtds -> Transfer] /\ \A t \in Qtds : t # qh[q].cur => qtd'[t] = qtd[t]
         /\ qh[q].cur \in Qtds => qtd'[qh[q].cur] = Over(qtd[qh[q].cur])
<1> DEFINE new == [qh[q] EXCEPT !.active = FALSE, !.halted = stalled]
           t == qh[q].cur
<1>1. qh \in [QHs -> QH] /\ qh[q] \in QH /\ qtd \in [Qtds -> Transfer] BY DEF TypesInv
<1>2. qh' = [qh EXCEPT ![q] = new] BY <1>1 DEF Retire
<1>3. new \in QH /\ ~new.active /\ (new.halted <=> stalled) /\ new.next = qh[q].next BY <1>1 DEF QH
<1> HIDE DEF new
<1>4. qh' \in [QHs -> QH] /\ qh'[q] = new /\ \A r \in QHs : r # q => qh'[r] = qh[r] BY <1>1, <1>2, <1>3
<1>5. qtd' = [qtd EXCEPT ![t] = [qtd[t] EXCEPT !.active = FALSE]] BY DEF Retire
<1>6. \A u \in Qtds : [qtd[u] EXCEPT !.active = FALSE] = Over(qtd[u]) /\ Over(qtd[u]) \in Transfer
  <2>1. TERMINATE \in Pointers BY DEF Pointers
  <2>2. QED BY <1>1, <2>1, Rewritten
<1>7. /\ qtd' \in [Qtds -> Transfer] /\ \A u \in Qtds : u # t => qtd'[u] = qtd[u]
      /\ t \in Qtds => qtd'[t] = Over(qtd[t])
  BY <1>1, <1>5, <1>6
<1>8. QED BY <1>3, <1>4, <1>7

LEMMA BuildFacts ==
  ASSUME TypesInv, NEW t \in Qtds, NEW prev \in Pointers, prev # t,
         NEW toggle \in 0..1, NEW pid \in PID, NEW slot \in Slots \cup {0},
         init_qtd(t, prev, toggle, pid, slot)
  PROVE  /\ qtd' \in [Qtds -> Transfer]
         /\ qtd'[t] = [next |-> TERMINATE, active |-> TRUE, toggle |-> toggle, pid |-> pid, slot |-> slot]
         /\ prev # TERMINATE => qtd'[prev] = Leading(qtd[prev], t)
         /\ \A u \in Qtds : u # t /\ u # prev => qtd'[u] = qtd[u]
<1> DEFINE new == [next |-> TERMINATE, active |-> TRUE, toggle |-> toggle, pid |-> pid, slot |-> slot]
<1>1. qtd \in [Qtds -> Transfer] BY DEF TypesInv
<1>2. qtd' = [u \in Qtds |-> IF u = t THEN new ELSE IF u = prev THEN [qtd[u] EXCEPT !.next = t] ELSE qtd[u]]
  BY DEF init_qtd
<1>3. new \in Transfer BY DEF Transfer, PID, Pointers
<1>4. \A u \in Qtds : [qtd[u] EXCEPT !.next = t] = Leading(qtd[u], t) /\ Leading(qtd[u], t) \in Transfer
  <2>1. t \in Pointers BY DEF Pointers
  <2>2. QED BY <1>1, <2>1, Rewritten
<1> HIDE DEF new
<1>5. prev # TERMINATE => prev \in Qtds BY DEF Pointers
<1>6. /\ qtd' \in [Qtds -> Transfer] /\ qtd'[t] = new
      /\ prev # TERMINATE => qtd'[prev] = Leading(qtd[prev], t)
      /\ \A u \in Qtds : u # t /\ u # prev => qtd'[u] = qtd[u]
  BY <1>1, <1>2, <1>3, <1>4, <1>5
<1>7. QED BY <1>6 DEF new

\* There are qTDs left for each command.
LEMMA Room ==
  ASSUME TypesInv, NEW start, Starts(start), PoolInv(start)
  PROVE  /\ P \in Nat /\ 1..P \subseteq Slots
         /\ pc = "cmd" => first_qtd \in Nat /\ first_qtd + 2 + P <= PoolSize
                          /\ first_qtd = IF c <= Len(SetupCommands) THEN start[c] ELSE 0
         /\ pc \in Building \cup Linked_in \cup Sent =>
              /\ cmd_qtd \in Nat /\ cmd_qtd + 2 + P <= PoolSize
              /\ c <= Len(SetupCommands) => start[c + 1] = cmd_qtd + 2 + P
<1>1. P \in Nat /\ 1..P \subseteq Slots BY CommandTypes DEF P, TypesInv
<1>2. /\ Len(SetupCommands) \in Nat /\ c \in Nat \ {0} /\ PoolSize \in Nat
      /\ start \in [1..Len(SetupCommands) + 1 -> 3..PoolSize]
  BY CommandTypes, SlotTypes DEF TypesInv, Starts
<1>3. ASSUME c <= Len(SetupCommands)
      PROVE  start[c] \in Nat /\ start[c] + 2 + P <= PoolSize /\ start[c + 1] = start[c] + 2 + P
  <2>1. c \in 1..Len(SetupCommands) /\ c \in 1..Len(SetupCommands) + 1 /\ c + 1 \in 1..Len(SetupCommands) + 1
    BY <1>2, <1>3
  <2>2. start[c] \in 3..PoolSize /\ start[c + 1] \in 3..PoolSize BY <1>2, <2>1
  <2>3. start[c + 1] = start[c] + 2 + SetupCommands[c].packets BY <2>1, CommandTypes DEF Starts
  <2>4. Commands[c] = SetupCommands[c] BY <1>3, CommandTypes DEF TypesInv
  <2>5. QED BY <1>1, <1>2, <2>2, <2>3, <2>4 DEF P
<1>4. c > Len(SetupCommands) => P + 2 <= PoolSize BY CommandTypes DEF P, TypesInv
<1>5. CASE c <= Len(SetupCommands) BY <1>1, <1>2, <1>3, <1>5 DEF PoolInv, first_qtd
<1>6. CASE c > Len(SetupCommands) BY <1>1, <1>2, <1>4, <1>6 DEF PoolInv, first_qtd
<1>7. QED BY <1>2, <1>5, <1>6

-----------------------------------------------------------------------------
(* Every variable keeps its type.                                           *)

LEMMA InitTypes == Init => TypesInv
<1> SUFFICES ASSUME Init PROVE TypesInv OBVIOUS
<1>1. \A l \in QHs \cup {"unset"} : IdleQH(l) \in QH BY DEF IdleQH, QH, Pointers, PID
<1>2. qh \in [QHs -> QH]
  <2>1. qh = [q \in QHs |-> IdleQH(IF q = "control" THEN "control" ELSE "unset")] BY DEF Init
  <2>2. \A q \in QHs : (IF q = "control" THEN "control" ELSE "unset") \in QHs \cup {"unset"} BY DEF QHs
  <2>3. QED BY <1>1, <2>1, <2>2
<1>3. qtd \in [Qtds -> Transfer]
  <2>1. [next |-> TERMINATE, active |-> FALSE, toggle |-> 0, pid |-> "SETUP", slot |-> 0] \in Transfer
    BY DEF Transfer, Pointers
  <2>2. QED BY <2>1 DEF Init
<1>4. buf \in [Slots -> Packets] /\ csw \in Packets BY SlotTypes DEF Init
<1>5. inq \in Seq(Packets) BY EmptySeq DEF Init
<1>6. pc \in PCs /\ cursor \in QHs \cup {"unset"} BY DEF Init, PCs, QHs
<1>7. c \in 1..Len(Commands) /\ MaxLosses \in 0..2 /\ PoolSize \in Nat BY CommandTypes, SlotTypes, BulkAssumption DEF Init
<1>8. /\ qtd_count = 0 /\ cmd_qtd = 0 /\ out_token = 0 /\ in_token = 0 /\ result = 1
      /\ outToggle = 0 /\ inToggle = 0 /\ fate = "open" /\ losses = 0
  BY DEF Init
<1>9. qtd_count \in 0..PoolSize /\ cmd_qtd \in 0..PoolSize /\ losses \in 0..MaxLosses
  BY <1>7, <1>8
<1>10. out_token \in 0..1 /\ in_token \in 0..1 /\ result \in 0..1 /\ outToggle \in 0..1 /\ inToggle \in 0..1
  BY <1>8
<1>11. fate \in Ends(c) \cup {"open"} BY <1>8
<1>12. QED BY <1>2, <1>3, <1>4, <1>5, <1>6, <1>7, <1>9, <1>10, <1>11 DEF TypesInv

LEMMA StepTypes ==
  ASSUME TypesInv, NEW start, Starts(start), PoolInv(start), [Next]_vars
  PROVE  TypesInv'
<1> USE DEF driverVars, deviceVars, Goto
<1>0. /\ qtd \in [Qtds -> Transfer] /\ qh \in [QHs -> QH] /\ PoolSize \in Nat /\ 3 <= PoolSize
      /\ qtd_count \in 0..PoolSize /\ cmd_qtd \in 0..PoolSize /\ P \in Nat
      /\ Len(SetupCommands) \in Nat /\ c \in Nat /\ MaxLosses \in Nat /\ losses \in 0..MaxLosses
  BY SlotTypes, CommandTypes, Room, BulkAssumption DEF TypesInv
<1>1. CASE Inserting
  <2>1. ASSUME NEW q \in QHs, NEW from, NEW to \in PCs, init_qh(q, from, to) PROVE TypesInv'
    <3>1. IdleQH(qh[q].link) \in QH BY <1>0 DEF IdleQH, QH, Pointers, PID
    <3>2. qh' \in [QHs -> QH] BY <1>0, <2>1, <3>1 DEF init_qh
    <3>3. QED BY <2>1, <3>2 DEF init_qh, TypesInv
  <2>2. ASSUME NEW q \in QHs, NEW store, NEW from, NEW to \in PCs, insert(q, store, from, to) PROVE TypesInv'
    <3>1. "control" \in QHs BY DEF QHs
    <3>2. [qh[q] EXCEPT !.link = qh["control"].link] \in QH /\ [qh["control"] EXCEPT !.link = q] \in QH
      BY <1>0, <3>1 DEF QH
    <3>3. qh' = (IF store = 1 THEN [qh EXCEPT ![q] = [qh[q] EXCEPT !.link = qh["control"].link]]
                              ELSE [qh EXCEPT !["control"] = [qh["control"] EXCEPT !.link = q]])
      BY <2>2 DEF insert, insert_qh
    <3>4. qh' \in [QHs -> QH] BY <1>0, <3>1, <3>2, <3>3
    <3>5. QED BY <2>2, <3>4 DEF insert, TypesInv
  <2>3. QED BY <1>1, <2>1, <2>2 DEF Inserting, QHs, PCs
<1>2. CASE usb_control_transaction
  <2>1. 3 \in 0..PoolSize BY <1>0
  <2>2. qtd' \in [Qtds -> Transfer]
    <3> DEFINE new(t) == [next |-> IF t = 2 THEN TERMINATE ELSE t + 1, active |-> TRUE,
             toggle |-> IF t = 0 THEN 0 ELSE 1, pid |-> <<"SETUP", "IN", "OUT">>[t + 1], slot |-> 0]
    <3>1. qtd' = [t \in Qtds |-> IF t > 2 THEN qtd[t] ELSE new(t)] BY <1>2 DEF usb_control_transaction
    <3>2. ASSUME NEW t \in Qtds, ~(t > 2) PROVE new(t) \in Transfer
      <4>1. t \in 0..2 BY <1>0, <3>2 DEF Qtds
      <4>2. t = 2 \/ t + 1 \in Qtds BY <1>0, <4>1 DEF Qtds
      <4>3. <<"SETUP", "IN", "OUT">>[t + 1] \in {"SETUP", "IN", "OUT"} BY <4>1
      <4>4. QED BY <4>1, <4>2, <4>3 DEF Transfer, Pointers
    <3> HIDE DEF new
    <3>3. QED BY <1>0, <3>1, <3>2
  <2>3. QED BY <1>2, <2>1, <2>2 DEF usb_control_transaction, TypesInv, PCs
<1>3. CASE lun_link
  <2>1. 0 \in Pointers /\ "control" \in QHs BY <1>0 DEF Pointers, Qtds, QHs
  <2>2. qh' \in [QHs -> QH] BY <1>3, <2>1, LinkFacts DEF lun_link
  <2>3. QED BY <1>3, <2>2 DEF lun_link, TypesInv, PCs
<1>4. CASE lun_sleep \/ poll_cmd
  BY <1>4 DEF lun_sleep, poll_cmd, TypesInv, PCs
<1>5. CASE init_cmd
  <2>1. first_qtd \in Qtds /\ first_qtd + 2 \in 0..PoolSize /\ first_qtd \in 0..PoolSize
    BY <1>0, <1>5, Room DEF init_cmd, Qtds
  <2>2. first_qtd # TERMINATE /\ TERMINATE \in Pointers BY <1>0, <2>1 DEF Pointers, TERMINATE
  <2>3. qtd' \in [Qtds -> Transfer]
    <3>1. init_qtd(first_qtd, TERMINATE, out_token, "OUT", 0) /\ out_token \in 0..1 BY <1>5 DEF init_cmd, TypesInv
    <3>2. "OUT" \in PID /\ 0 \in Slots \cup {0} BY DEF PID
    <3>3. QED BY <2>1, <2>2, <3>1, <3>2, BuildFacts
  <2>4. 1 - out_token \in 0..1 BY DEF TypesInv
  <2>5. QED BY <1>5, <2>1, <2>3, <2>4, SlotTypes DEF init_cmd, TypesInv, PCs
<1>6. CASE init_data
  <2>1. /\ cmd_qtd \in Nat /\ cmd_qtd + 2 + P <= PoolSize /\ 1..P \subseteq Slots
        /\ qtd_count - (cmd_qtd + 2) \in 0..P /\ qtd_count - (cmd_qtd + 2) < P
    BY <1>6, Room DEF init_data, Building, PoolInv, data_head, P
  <2>2. qtd_count \in Qtds /\ qtd_count + 1 \in 0..PoolSize /\ qtd_count - data_head + 1 \in 1..P
    BY <1>0, <2>1 DEF Qtds, data_head
  <2>3. data_prev \in Pointers /\ data_prev # qtd_count
    BY <1>0, <2>1, <2>2 DEF data_prev, Pointers, Qtds, data_head, TERMINATE
  <2>4. qtd' \in [Qtds -> Transfer]
    <3>1. init_qtd(qtd_count, data_prev, in_token, "IN", qtd_count - data_head + 1) /\ in_token \in 0..1
      BY <1>6 DEF init_data, TypesInv
    <3>2. "IN" \in PID /\ qtd_count - data_head + 1 \in Slots \cup {0} BY <2>1, <2>2 DEF PID
    <3>3. QED BY <2>2, <2>3, <3>1, <3>2, BuildFacts
  <2>5. 1 - in_token \in 0..1 BY DEF TypesInv
  <2>6. QED BY <1>6, <2>2, <2>4, <2>5 DEF init_data, TypesInv
<1>7. CASE init_status
  <2>1. /\ cmd_qtd \in Nat /\ cmd_qtd + 2 + P <= PoolSize /\ qtd_count - (cmd_qtd + 2) = P
    BY <1>7, Room DEF init_status, Building, P, data_head
  <2>2. status_qtd \in Qtds BY <1>0, <2>1 DEF Qtds, status_qtd
  <2>3. data_prev \in Pointers /\ data_prev # status_qtd
    BY <1>0, <2>1, <2>2 DEF data_prev, Pointers, Qtds, data_head, status_qtd, TERMINATE
  <2>4. qtd' \in [Qtds -> Transfer]
    <3>1. init_qtd(status_qtd, data_prev, in_token, "IN", 0) /\ in_token \in 0..1 BY <1>7 DEF init_status, TypesInv
    <3>2. "IN" \in PID /\ 0 \in Slots \cup {0} BY DEF PID
    <3>3. QED BY <2>2, <2>3, <3>1, <3>2, BuildFacts
  <2>5. 1 - in_token \in 0..1 BY DEF TypesInv
  <2>6. QED BY <1>7, <2>4, <2>5 DEF init_status, TypesInv, PCs
<1>8. CASE link_cmd \/ link_answer
  <2>1. /\ cmd_qtd \in Nat /\ cmd_qtd + 2 + P <= PoolSize /\ qtd_count - (cmd_qtd + 2) = P
    BY <1>0, <1>8, Room DEF link_cmd, link_answer, Building, Linked_in, P, PoolInv, data_head
  <2>2. cmd_qtd \in Pointers /\ (IF qtd_count = data_head THEN status_qtd ELSE data_head) \in Pointers
    BY <1>0, <2>1 DEF Pointers, Qtds, status_qtd, data_head
  <2>3. "out" \in QHs /\ "in" \in QHs BY DEF QHs
  <2>4. qh' \in [QHs -> QH] BY <1>8, <2>2, <2>3, LinkFacts DEF link_cmd, link_answer
  <2>5. QED BY <1>8, <2>4 DEF link_cmd, link_answer, TypesInv, PCs
<1>9. CASE poll_status BY <1>9 DEF poll_status, TypesInv, PCs
<1>10. CASE next_command
  <2>1. c + 1 \in 1..Len(Commands) BY <1>10, CommandTypes DEF next_command, TypesInv
  <2>2. QED BY <1>10, <2>1 DEF next_command, TypesInv, PCs
<1>11. CASE Fetch
  <2>1. qh' \in [QHs -> QH] BY <1>11, FetchFacts
  <2>2. QED BY <1>11, <2>1 DEF Fetch, TypesInv
<1>12. CASE ExecuteControl \/ ExecuteStall
  <2>1. PICK q \in QHs, stalled \in BOOLEAN : Retire(q, stalled)
    BY <1>12, BulkAssumption DEF ExecuteControl, ExecuteStall, QHs
  <2>2. qh' \in [QHs -> QH] /\ qtd' \in [Qtds -> Transfer] BY <2>1, RetireFacts
  <2>3. QED BY <1>12, <2>2 DEF ExecuteControl, ExecuteStall, TypesInv
<1>13. CASE ExecuteOut
  <2>1. qh' \in [QHs -> QH] /\ qtd' \in [Qtds -> Transfer]
    <3>1. CASE UNCHANGED <<qh, qtd>> BY <1>0, <3>1
    <3>2. CASE Retire("out", FALSE) BY <3>2, RetireFacts DEF QHs
    <3>3. QED BY <1>13, <3>1, <3>2 DEF ExecuteOut
  <2>2. losses' \in 0..MaxLosses
    <3>1. losses' = losses \/ (losses < MaxLosses /\ losses' = losses + 1) BY <1>13 DEF ExecuteOut, Loses
    <3>2. QED BY <1>0, <3>1
  <2>3. inq' \in Seq(Packets) /\ fate' \in Ends(c) \cup {"open"} /\ outToggle' \in 0..1
    <3>1. CASE UNCHANGED <<fate, inq, outToggle>> BY <3>1 DEF TypesInv
    <3>2. ASSUME NEW f \in Ends(c), fate' = f, inq' = inq \o Reply(c, f), outToggle' = 1 - outToggle
          PROVE  inq' \in Seq(Packets) /\ fate' \in Ends(c) \cup {"open"} /\ outToggle' \in 0..1
      <4>1. Reply(c, f) \in Seq(Packets) /\ inq \in Seq(Packets) BY <3>2, ReplyFacts DEF TypesInv
      <4>2. inq' \in Seq(Packets) BY <3>2, <4>1, ConcatProperties
      <4>3. 1 - outToggle \in 0..1 BY DEF TypesInv
      <4>4. QED BY <3>2, <4>2, <4>3
    <3>3. QED BY <1>13, <3>1, <3>2 DEF ExecuteOut
  <2>4. QED BY <1>13, <2>1, <2>2, <2>3 DEF ExecuteOut, TypesInv
<1>14. CASE ExecuteIn
  <2>1. inq \in Seq(Packets) /\ inq # <<>> /\ Head(inq) \in Packets /\ Tail(inq) \in Seq(Packets)
    BY <1>14, HeadTailProperties DEF ExecuteIn, TypesInv
  <2>2. qh' \in [QHs -> QH] /\ qtd' \in [Qtds -> Transfer]
    <3>1. CASE UNCHANGED <<qh, qtd>> BY <1>0, <3>1
    <3>2. CASE Retire("in", FALSE) BY <3>2, RetireFacts DEF QHs
    <3>3. QED BY <1>14, <3>1, <3>2 DEF ExecuteIn
  <2>3. buf' \in [Slots -> Packets] /\ csw' \in Packets BY <1>14, <2>1 DEF ExecuteIn, TypesInv
  <2>4. inq' \in Seq(Packets) /\ inToggle' \in 0..1 /\ losses' \in 0..MaxLosses
    <3>1. 1 - inToggle \in 0..1 /\ inToggle \in 0..1 BY DEF TypesInv
    <3>2. \/ inq' = Tail(inq) /\ inToggle' = 1 - inToggle /\ losses' = losses
          \/ losses < MaxLosses /\ losses' = losses + 1 /\ inq' = inq /\ inToggle' = inToggle
      BY <1>14 DEF ExecuteIn, Loses
    <3>3. inq' \in Seq(Packets) BY <2>1, <3>2
    <3>4. inToggle' \in 0..1 BY <3>1, <3>2
    <3>5. losses' \in 0..MaxLosses BY <1>0, <3>2
    <3>6. QED BY <3>3, <3>4, <3>5
  <2>5. QED BY <1>14, <2>2, <2>3, <2>4 DEF ExecuteIn, TypesInv
<1>15. CASE MoveOn
  <2>1. cursor' \in QHs \cup {"unset"} BY <1>0, <1>15 DEF MoveOn, QH
  <2>2. QED BY <1>15, <2>1 DEF MoveOn, TypesInv
<1>16. CASE UNCHANGED vars BY <1>16 DEF vars, TypesInv
<1>17. QED BY <1>1, <1>2, <1>3, <1>4, <1>5, <1>6, <1>7, <1>8, <1>9, <1>10, <1>11, <1>12, <1>13, <1>14, <1>15, <1>16
           DEF Next, Driver, Execute

-----------------------------------------------------------------------------
(* The driver's stages, and who is at work in each.                         *)

LEMMA Quiet == Fetch \/ Execute \/ MoveOn \/ UNCHANGED vars =>
                 UNCHANGED <<pc, c, qtd_count, cmd_qtd, out_token, in_token, result>>
BY DEF Fetch, Execute, ExecuteControl, ExecuteOut, ExecuteIn, ExecuteStall, MoveOn, vars, driverVars

LEMMA InsertFacts ==
  ASSUME TypesInv, Inserting
  PROVE  /\ pc \in Starting /\ pc' \in Starting
         /\ UNCHANGED <<driverVars, qtd, buf, csw, cursor, deviceVars>>
         /\ \A q \in QHs : Idle(q) => Idle(q)'
<1>1. qh \in [QHs -> QH] /\ "control" \in QHs BY DEF TypesInv, QHs
<1>2. ASSUME NEW q \in QHs, NEW from \in Starting, NEW to \in Starting, init_qh(q, from, to)
      PROVE  /\ pc \in Starting /\ pc' \in Starting
             /\ UNCHANGED <<driverVars, qtd, buf, csw, cursor, deviceVars>>
             /\ \A r \in QHs : Idle(r) => Idle(r)'
  BY <1>1, <1>2 DEF init_qh, Goto, Idle, IdleQH
<1>3. ASSUME NEW q \in QHs, NEW store, NEW from \in Starting, NEW to \in Starting, insert(q, store, from, to)
      PROVE  /\ pc \in Starting /\ pc' \in Starting
             /\ UNCHANGED <<driverVars, qtd, buf, csw, cursor, deviceVars>>
             /\ \A r \in QHs : Idle(r) => Idle(r)'
  <2>1. pc \in Starting /\ pc' \in Starting /\ UNCHANGED <<driverVars, qtd, buf, csw, cursor, deviceVars>>
    BY <1>3 DEF insert, Goto
  <2>2. PICK s \in QHs : \E l : qh' = [qh EXCEPT ![s].link = l]
    BY <1>1, <1>3 DEF insert, insert_qh
  <2>3. \A r \in QHs : /\ qh'[r].active = qh[r].active /\ qh'[r].halted = qh[r].halted
                       /\ qh'[r].next = qh[r].next
    BY <1>1, <2>2 DEF QH
  <2>4. QED BY <2>1, <2>3 DEF Idle
<1>4. QED BY <1>2, <1>3 DEF Inserting, QHs, Starting

LEMMA InitPool == ASSUME Init, NEW start PROVE PoolInv(start)
BY DEF Init, PoolInv, Starting, Building, Linked_in, Sent

LEMMA StepPool ==
  ASSUME TypesInv, NEW start, Starts(start), PoolInv(start), [Next]_vars
  PROVE  PoolInv(start)'
<1> DEFINE Stages == Building \cup Linked_in \cup Sent
<1> USE DEF driverVars, Goto, Starting, Building, Linked_in, Sent
<1>0. /\ PoolSize \in Nat /\ qtd_count \in Nat /\ cmd_qtd \in Nat /\ P \in Nat
      /\ Len(SetupCommands) \in Nat /\ c \in Nat
  BY SlotTypes, CommandTypes, Room DEF TypesInv
<1>1. CASE UNCHANGED <<pc, c, qtd_count, cmd_qtd>> BY <1>1 DEF PoolInv, P, data_head
<1>2. CASE Inserting
  <2>1. pc \in Starting /\ pc' \in Starting /\ UNCHANGED driverVars BY <1>2, InsertFacts
  <2>2. QED BY <2>1 DEF PoolInv
<1>3. CASE usb_control_transaction BY <1>3 DEF PoolInv, usb_control_transaction
<1>4. CASE lun_link BY <1>4 DEF PoolInv, lun_link
<1>5. CASE lun_sleep
  <2>1. pc = "sleep" /\ pc' = "cmd" /\ c' = c /\ qtd_count' = qtd_count BY <1>5 DEF lun_sleep
  <2>2. c = 1 /\ qtd_count = 3 /\ start[1] = 3 BY <2>1 DEF PoolInv, Starts
  <2>3. QED BY <2>1, <2>2 DEF PoolInv
<1>6. CASE init_cmd
  <2>1. /\ pc = "cmd" /\ pc' = "data" /\ c' = c /\ cmd_qtd' = first_qtd /\ qtd_count' = first_qtd + 2
    BY <1>6 DEF init_cmd
  <2>2. first_qtd \in Nat /\ first_qtd = IF c <= Len(SetupCommands) THEN start[c] ELSE 0 BY <2>1, Room
  <2>3. P' = P /\ qtd_count' - data_head' = 0 BY <2>1, <2>2 DEF P, data_head
  <2>4. QED BY <1>0, <2>1, <2>2, <2>3 DEF PoolInv
<1>7. CASE init_data
  <2>1. /\ pc = "data" /\ pc' = "data" /\ c' = c /\ cmd_qtd' = cmd_qtd /\ qtd_count' = qtd_count + 1
        /\ qtd_count - data_head < P
    BY <1>7 DEF init_data, P
  <2>2. cmd_qtd = (IF c <= Len(SetupCommands) THEN start[c] ELSE 0) /\ qtd_count - data_head \in 0..P
    BY <2>1 DEF PoolInv
  <2>3. P' = P /\ data_head' = data_head /\ data_head \in Nat BY <1>0, <2>1 DEF P, data_head
  <2>4. qtd_count' - data_head' \in 0..P' BY <1>0, <2>1, <2>2, <2>3
  <2>5. QED BY <2>1, <2>2, <2>4 DEF PoolInv
<1>8. CASE init_status
  <2>1. pc = "data" /\ pc' = "link_cmd" /\ UNCHANGED <<c, cmd_qtd, qtd_count>> /\ qtd_count - data_head = P
    BY <1>8 DEF init_status, P
  <2>2. QED BY <2>1 DEF PoolInv, P, data_head
<1>9. CASE link_cmd \/ poll_cmd \/ link_answer \/ poll_status
  <2>1. /\ pc \in Stages \ {"data"} /\ pc' \in Stages \ {"data"} /\ UNCHANGED <<c, cmd_qtd, qtd_count>>
    BY <1>9 DEF link_cmd, poll_cmd, link_answer, poll_status
  <2>2. QED BY <2>1 DEF PoolInv, P, data_head
<1>10. CASE next_command
  <2>1. pc = "returned" /\ pc' = "cmd" /\ c' = c + 1 /\ UNCHANGED <<cmd_qtd, qtd_count>>
    BY <1>10 DEF next_command
  <2>2. c <= Len(SetupCommands) => start[c + 1] = cmd_qtd + 2 + P BY <2>1, Room
  <2>3. qtd_count - (cmd_qtd + 2) = P /\ cmd_qtd = (IF c <= Len(SetupCommands) THEN start[c] ELSE 0)
    BY <2>1 DEF PoolInv, data_head
  <2>4. c <= Len(SetupCommands) => qtd_count = start[c + 1]
    <3>1. qtd_count = cmd_qtd + 2 + P BY <1>0, <2>3
    <3>2. QED BY <2>2, <3>1
  <2>5. c' <= Len(SetupCommands) => qtd_count' = start[c'] BY <1>0, <2>1, <2>4
  <2>6. QED BY <2>1, <2>5 DEF PoolInv
<1>11. QED BY <1>1, <1>2, <1>3, <1>4, <1>5, <1>6, <1>7, <1>8, <1>9, <1>10, Quiet DEF Next, Driver

\* The controller has work for one queue head at a time: the control QH's
\* while the driver sleeps, that of the command while it polls for the
\* command, that of the answer while it polls for the status.
LEMMA OneAtWork ==
  ASSUME TypesInv, ControlInv, OutInv, InInv
  PROVE  /\ Fetch => \/ pc = "sleep" /\ cursor = "control"
                     \/ pc = "poll_cmd" /\ cursor = "out"
                     \/ pc = "poll_status" /\ cursor = "in"
         /\ ExecuteControl => pc = "sleep"
         /\ ExecuteOut => pc = "poll_cmd"
         /\ ExecuteIn \/ ExecuteStall => pc = "poll_status"
<1>1. qh["control"].active \/ (~qh["control"].halted /\ qh["control"].next # TERMINATE) => pc = "sleep"
  BY DEF ControlInv, Idle
<1>2. qh["out"].active \/ (~qh["out"].halted /\ qh["out"].next # TERMINATE) => pc = "poll_cmd"
  BY DEF OutInv, Idle
<1>3. qh["in"].active \/ (~qh["in"].halted /\ qh["in"].next # TERMINATE) => pc = "poll_status"
  BY DEF InInv, InAt, Idle
<1>4. QED BY <1>1, <1>2, <1>3 DEF Fetch, ExecuteControl, ExecuteOut, ExecuteIn, ExecuteStall, QHs

-----------------------------------------------------------------------------
(* GET_MAX_LUN.                                                             *)

LEMMA InitControl == Init => ControlInv
BY DEF Init, ControlInv, Idle, IdleQH, Starting, QHs

LEMMA StepControl ==
  ASSUME TypesInv, ControlInv, OutInv, InInv, [Next]_vars
  PROVE  ControlInv'
<1> DEFINE h == qh["control"]
<1> USE DEF Goto, Starting
<1>0. qh \in [QHs -> QH] /\ qtd \in [Qtds -> Transfer] /\ PoolSize \in Nat /\ 3 <= PoolSize
      /\ "control" \in QHs /\ "out" \in QHs /\ "in" \in QHs
  BY SlotTypes DEF TypesInv, QHs
<1>1. CASE UNCHANGED <<pc, qh, qtd>> BY <1>1 DEF ControlInv, Idle, Lun
<1>2. CASE Inserting
  <2>1. pc \in Starting /\ pc' \in Starting /\ (Idle("control") => Idle("control")') BY <1>0, <1>2, InsertFacts
  <2>2. QED BY <2>1 DEF ControlInv
<1>3. CASE usb_control_transaction
  <2>1. pc = "lun" /\ pc' = "link_lun" /\ qh' = qh BY <1>3 DEF usb_control_transaction
  <2>2. Lun(0)'
    <3>1. ASSUME NEW t \in 0..2
          PROVE  qtd'[t] = [next |-> IF t = 2 THEN TERMINATE ELSE t + 1, active |-> t >= 0,
                            toggle |-> IF t = 0 THEN 0 ELSE 1,
                            pid |-> <<"SETUP", "IN", "OUT">>[t + 1], slot |-> 0]
      <4>1. t \in Qtds /\ ~(t > 2) /\ (t >= 0) = TRUE BY <1>0 DEF Qtds
      <4>2. QED BY <1>3, <4>1 DEF usb_control_transaction
    <3>2. QED BY <3>1 DEF Lun
  <2>3. QED BY <2>1, <2>2 DEF ControlInv, Idle
<1>4. CASE lun_link
  <2>1. pc = "link_lun" /\ pc' = "sleep" /\ qtd' = qtd /\ qh' = [qh EXCEPT !["control"].next = 0]
    BY <1>4 DEF lun_link
  <2>2. 0 \in Pointers BY <1>0 DEF Pointers, Qtds
  <2>3. h'.next = 0 /\ h'.active = h.active /\ h'.halted = h.halted BY <1>0, <2>1, <2>2, LinkFacts
  <2>4. Lun(0)' /\ ~h.active /\ ~h.halted BY <2>1 DEF ControlInv, Idle, Lun
  <2>5. 0 \in 0..3 /\ 0 # 3 OBVIOUS
  <2>6. QED BY <2>1, <2>3, <2>4, <2>5 DEF ControlInv
<1>5. CASE lun_sleep
  <2>1. pc = "sleep" /\ pc' = "cmd" /\ UNCHANGED <<qh, qtd>> /\ (h.halted \/ ~qtd[2].active)
    BY <1>5 DEF lun_sleep
  <2>2. ~h.active /\ (h.halted \/ h.next = TERMINATE)
    <3>1. CASE h.halted /\ ~h.active BY <3>1
    <3>2. ASSUME NEW k \in 0..3, Lun(k), ~h.halted,
                 \/ ~h.active /\ h.next = (IF k = 3 THEN TERMINATE ELSE k)
                 \/ h.active /\ k < 3
          PROVE  ~h.active /\ h.next = TERMINATE
      <4>1. 2 \in 0..2 OBVIOUS
      <4>2. qtd[2].active = (2 >= k) BY <3>2, <4>1 DEF Lun
      <4>3. ~(2 >= k) BY <2>1, <3>2, <4>2, Zenon
      <4>4. k = 3 BY <4>3
      <4>5. QED BY <3>2, <4>4
    <3>3. QED BY <2>1, <3>1, <3>2 DEF ControlInv
  <2>3. QED BY <2>1, <2>2 DEF ControlInv
<1>6. CASE init_cmd \/ init_data \/ init_status \/ link_cmd \/ poll_cmd \/ link_answer \/ poll_status \/ next_command
  <2>1. pc \notin Starting \cup {"link_lun", "sleep"} /\ pc' \notin Starting \cup {"link_lun", "sleep"}
    BY <1>6 DEF init_cmd, init_data, init_status, link_cmd, poll_cmd, link_answer, poll_status, next_command
  <2>2. \/ qh' = qh
        \/ \E t : qh' = [qh EXCEPT !["out"].next = t]
        \/ \E t : qh' = [qh EXCEPT !["in"].next = t]
    BY <1>6 DEF init_cmd, init_data, init_status, link_cmd, poll_cmd, link_answer, poll_status, next_command
  <2>3. h' = h BY <1>0, <2>2
  <2>4. QED BY <2>1, <2>3 DEF ControlInv
<1>7. CASE Fetch
  <2>1. pc' = pc /\ qtd' = qtd BY <1>7 DEF Fetch
  <2>2. CASE pc # "sleep"
    <3>1. cursor # "control" BY <1>7, <2>2, OneAtWork
    <3>2. h' = h BY <1>0, <1>7, <3>1, FetchFacts
    <3>3. QED BY <2>1, <2>2, <3>2 DEF ControlInv, Idle, Lun
  <2>3. CASE pc = "sleep"
    <3>1. cursor = "control" BY <1>7, <2>3, OneAtWork
    <3>2. /\ ~h.active /\ ~h.halted /\ h.next \in Qtds /\ qtd[h.next].active
          /\ h'.active /\ ~h'.halted /\ h'.cur = h.next /\ h'.next = qtd[h.next].next
      BY <1>7, <3>1, FetchFacts
    <3>3. PICK k \in 0..3 : Lun(k) /\ h.next = IF k = 3 THEN TERMINATE ELSE k BY <2>3, <3>2 DEF ControlInv
    <3>4. k \in 0..2 /\ h.next = k BY <1>0, <3>2, <3>3 DEF Qtds, TERMINATE
    <3>5. qtd[k].next = IF k = 2 THEN TERMINATE ELSE k + 1 BY <3>3, <3>4 DEF Lun
    <3>6. Lun(k)' BY <2>1, <3>3 DEF Lun
    <3>7. k < 3 BY <3>4
    <3>8. QED BY <2>1, <2>3, <3>2, <3>4, <3>5, <3>6, <3>7 DEF ControlInv
  <2>4. QED BY <2>2, <2>3
<1>8. CASE ExecuteControl
  <2>1. pc = "sleep" /\ pc' = "sleep" /\ h.active BY <1>8, OneAtWork DEF ExecuteControl
  <2>2. PICK stalled \in BOOLEAN : Retire("control", stalled) BY <1>8, BulkAssumption DEF ExecuteControl
  <2>3. PICK k \in 0..3 : Lun(k) /\ k < 3 /\ h.cur = k /\ h.next = IF k = 2 THEN TERMINATE ELSE k + 1
    BY <2>1 DEF ControlInv
  <2>4. k \in 0..2 /\ k \in Qtds BY <1>0, <2>3 DEF Qtds
  <2>5. /\ ~h'.active /\ (h'.halted <=> stalled) /\ h'.next = h.next
        /\ \A t \in Qtds : t # k => qtd'[t] = qtd[t]
        /\ qtd'[k] = Over(qtd[k])
    BY <1>0, <2>2, <2>3, <2>4, RetireFacts
  <2>6. Lun(k + 1)'
    <3>1. ASSUME NEW t \in 0..2
          PROVE  qtd'[t] = [next |-> IF t = 2 THEN TERMINATE ELSE t + 1, active |-> t >= k + 1,
                            toggle |-> IF t = 0 THEN 0 ELSE 1,
                            pid |-> <<"SETUP", "IN", "OUT">>[t + 1], slot |-> 0]
      <4>1. t \in Qtds BY <1>0 DEF Qtds
      <4>2. CASE t # k
        <5>1. (t >= k) = (t >= k + 1) BY <2>4, <4>2
        <5>2. QED BY <2>3, <2>5, <4>1, <4>2, <5>1 DEF Lun
      <4>3. CASE t = k
        <5>1. (t >= k + 1) = FALSE BY <2>4, <4>3
        <5>2. qtd[k] = [next |-> IF k = 2 THEN TERMINATE ELSE k + 1, active |-> k >= k,
                        toggle |-> IF k = 0 THEN 0 ELSE 1,
                        pid |-> <<"SETUP", "IN", "OUT">>[k + 1], slot |-> 0]
          BY <2>3, <2>4 DEF Lun
        <5>3. /\ qtd[k].next = (IF k = 2 THEN TERMINATE ELSE k + 1) /\ qtd[k].slot = 0
              /\ qtd[k].toggle = (IF k = 0 THEN 0 ELSE 1) /\ qtd[k].pid = <<"SETUP", "IN", "OUT">>[k + 1]
          BY <5>2
        <5>4. QED BY <2>5, <4>3, <5>1, <5>3 DEF Over
      <4>4. QED BY <4>2, <4>3
    <3>2. QED BY <3>1 DEF Lun
  <2>7. k + 1 \in 0..3 /\ h'.next = (IF k + 1 = 3 THEN TERMINATE ELSE k + 1) BY <2>3, <2>4, <2>5
  <2>8. h'.halted \/ ~h'.halted OBVIOUS
  <2>9. QED BY <2>1, <2>5, <2>6, <2>7, <2>8 DEF ControlInv
<1>9. CASE ExecuteOut \/ ExecuteIn \/ ExecuteStall
  <2>1. pc' = pc /\ pc \in {"poll_cmd", "poll_status"}
    BY <1>9, OneAtWork DEF ExecuteOut, ExecuteIn, ExecuteStall
  <2>2. qh' = qh \/ \E q \in {"out", "in"}, stalled \in BOOLEAN : Retire(q, stalled)
    BY <1>9 DEF ExecuteOut, ExecuteIn, ExecuteStall
  <2>3. h' = h
    <3>1. ASSUME NEW q \in {"out", "in"}, NEW stalled \in BOOLEAN, Retire(q, stalled) PROVE h' = h
      <4>1. q \in QHs /\ q # "control" BY <1>0
      <4>2. QED BY <1>0, <3>1, <4>1, RetireFacts
    <3>2. QED BY <2>2, <3>1
  <2>4. QED BY <2>1, <2>3 DEF ControlInv
<1>10. MoveOn \/ UNCHANGED vars => UNCHANGED <<pc, qh, qtd>> BY DEF MoveOn, vars
<1>11. QED BY <1>1, <1>2, <1>3, <1>4, <1>5, <1>6, <1>7, <1>8, <1>9, <1>10 DEF Next, Driver, Execute

-----------------------------------------------------------------------------
(* The qTDs of a command.                                                   *)

\* They are distinct, and there is room for them.
LEMMA ElemFacts ==
  ASSUME TypesInv, NEW start, Starts(start), PoolInv(start), pc \in Building \cup Linked_in \cup Sent
  PROVE  /\ P \in Nat /\ PoolSize \in Nat /\ qtd_count \in Nat /\ cmd_qtd \in Qtds
         /\ qtd_count - data_head \in 0..P /\ (pc # "data" => qtd_count - data_head = P)
         /\ \A k \in 0..P : Elem(k) \in Qtds /\ Elem(k) # cmd_qtd /\ Elem(k) # TERMINATE
         /\ \A k, l \in 0..P : Elem(k) = Elem(l) => k = l
         /\ \A k \in 0..P : k < P => Elem(k) = data_head + k
         /\ Elem(P) = status_qtd
<1>1. P \in Nat /\ cmd_qtd \in Nat /\ cmd_qtd + 2 + P <= PoolSize /\ PoolSize \in Nat /\ qtd_count \in Nat
  BY Room, SlotTypes DEF TypesInv
<1>2. qtd_count - data_head \in 0..P /\ (pc # "data" => qtd_count - data_head = P) BY DEF PoolInv
<1>3. cmd_qtd \in Qtds /\ cmd_qtd # TERMINATE BY <1>1 DEF Qtds, TERMINATE
<1>4. ASSUME NEW k \in 0..P
      PROVE  Elem(k) \in Qtds /\ Elem(k) # cmd_qtd /\ Elem(k) # TERMINATE
  BY <1>1 DEF Elem, data_head, status_qtd, Qtds, TERMINATE
<1>5. ASSUME NEW k \in 0..P, NEW l \in 0..P, Elem(k) = Elem(l) PROVE k = l
  BY <1>1, <1>5 DEF Elem, data_head, status_qtd
<1>6. \A k \in 0..P : k < P => Elem(k) = data_head + k BY DEF Elem
<1>7. Elem(P) = status_qtd BY <1>1 DEF Elem
<1>8. QED BY <1>1, <1>2, <1>3, <1>4, <1>5, <1>6, <1>7

\* The steps that fill in the qTDs.
LEMMA InitCmdFacts ==
  ASSUME TypesInv, NEW start, Starts(start), PoolInv(start), init_cmd
  PROVE  qtd'[cmd_qtd'] = CmdQtd(TRUE)'
<1>1. first_qtd \in Nat /\ first_qtd + 2 + P <= PoolSize /\ P \in Nat /\ PoolSize \in Nat
  BY Room, SlotTypes DEF init_cmd, Goto
<1>2. first_qtd \in Qtds /\ first_qtd # TERMINATE BY <1>1 DEF Qtds, TERMINATE
<1>3. cmd_qtd' = first_qtd /\ out_token' = 1 - out_token /\ out_token \in 0..1
      /\ init_qtd(first_qtd, TERMINATE, out_token, "OUT", 0)
  BY DEF init_cmd, TypesInv
<1>4. TERMINATE \in Pointers /\ "OUT" \in PID /\ 0 \in Slots \cup {0} BY DEF Pointers, PID
<1>5. qtd'[first_qtd] = [next |-> TERMINATE, active |-> TRUE, toggle |-> out_token, pid |-> "OUT", slot |-> 0]
  BY <1>2, <1>3, <1>4, BuildFacts
<1>6. 1 - out_token' = out_token BY <1>3
<1>7. QED BY <1>3, <1>5, <1>6 DEF CmdQtd

LEMMA InitAnswerFacts ==
  ASSUME TypesInv, NEW start, Starts(start), PoolInv(start), init_data \/ init_status
  PROVE  LET m == qtd_count - data_head
             t == IF init_data THEN qtd_count ELSE status_qtd
         IN  /\ pc = "data" /\ m \in 0..P /\ t \in Qtds /\ t = Elem(m)
             /\ init_data <=> m < P
             /\ qtd'[t] = [next |-> TERMINATE, active |-> TRUE, toggle |-> in_token, pid |-> "IN",
                           slot |-> IF m < P THEN m + 1 ELSE 0]
             /\ m > 0 => qtd'[data_head + (m - 1)] = Leading(qtd[data_head + (m - 1)], t)
             /\ \A k \in 0..m - 2 : qtd'[data_head + k] = qtd[data_head + k]
             /\ qtd'[cmd_qtd] = qtd[cmd_qtd]
<1> DEFINE m == qtd_count - data_head
           t == IF init_data THEN qtd_count ELSE status_qtd
<1> USE DEF Goto
<1>1. pc = "data" /\ pc \in Building /\ (init_data => m < P) /\ (init_status => m = P)
  BY DEF init_data, init_status, P, Building
<1>2. /\ P \in Nat /\ PoolSize \in Nat /\ qtd_count \in Nat /\ cmd_qtd \in Qtds /\ m \in 0..P
      /\ \A k \in 0..P : Elem(k) \in Qtds /\ Elem(k) # cmd_qtd /\ Elem(k) # TERMINATE
      /\ \A k, l \in 0..P : Elem(k) = Elem(l) => k = l
      /\ \A k \in 0..P : k < P => Elem(k) = data_head + k
      /\ Elem(P) = status_qtd
  BY <1>1, ElemFacts
<1>3. data_head \in Nat /\ cmd_qtd \in Nat BY <1>2 DEF data_head, Qtds
<1>4. (init_data <=> m < P) /\ (init_status => ~init_data) BY <1>1, <1>2
<1>5. t = Elem(m) /\ t \in Qtds
  <2>1. CASE init_data
    <3>1. Elem(m) = data_head + m BY <1>2, <1>4, <2>1
    <3>2. data_head + m = qtd_count BY <1>2, <1>3
    <3>3. QED BY <1>2, <2>1, <3>1, <3>2
  <2>2. CASE ~init_data
    <3>1. m = P BY <1>1, <2>2
    <3>2. QED BY <1>2, <2>2, <3>1
  <2>3. QED BY <2>1, <2>2
<1>6. data_prev = IF m = 0 THEN TERMINATE ELSE data_head + (m - 1)
  BY <1>2, <1>3 DEF data_prev
<1>7. ASSUME m > 0
      PROVE  data_head + (m - 1) = Elem(m - 1) /\ m - 1 \in 0..P /\ data_head + (m - 1) # t
             /\ data_head + (m - 1) # TERMINATE /\ data_head + (m - 1) \in Qtds
  <2>1. m - 1 \in 0..P /\ m - 1 < P /\ m - 1 # m BY <1>2, <1>7
  <2>2. QED BY <1>2, <1>5, <2>1
<1>8. data_prev \in Pointers /\ data_prev # t
  <2>1. t # TERMINATE BY <1>2, <1>5
  <2>2. CASE m = 0 BY <1>6, <2>1, <2>2 DEF Pointers
  <2>3. CASE m # 0
    <3>1. m > 0 BY <1>2, <2>3
    <3>2. QED BY <1>6, <1>7, <2>3, <3>1 DEF Pointers
  <2>4. QED BY <2>2, <2>3
<1>9. init_qtd(t, data_prev, in_token, "IN", IF m < P THEN m + 1 ELSE 0)
  BY <1>1, <1>4 DEF init_data, init_status
<1>10. in_token \in 0..1 /\ "IN" \in PID /\ (IF m < P THEN m + 1 ELSE 0) \in Slots \cup {0}
  <2>1. 1..P \subseteq Slots BY Room
  <2>2. m < P => m + 1 \in 1..P BY <1>2
  <2>3. QED BY <2>1, <2>2 DEF TypesInv, PID
<1> HIDE DEF t
<1>11. /\ qtd'[t] = [next |-> TERMINATE, active |-> TRUE, toggle |-> in_token, pid |-> "IN",
                     slot |-> IF m < P THEN m + 1 ELSE 0]
       /\ data_prev # TERMINATE => qtd'[data_prev] = Leading(qtd[data_prev], t)
       /\ \A u \in Qtds : u # t /\ u # data_prev => qtd'[u] = qtd[u]
  BY <1>5, <1>8, <1>9, <1>10, BuildFacts
<1>12. m > 0 => qtd'[data_head + (m - 1)] = Leading(qtd[data_head + (m - 1)], t)
  BY <1>2, <1>6, <1>7, <1>11
<1>13. ASSUME NEW k \in 0..m - 2 PROVE qtd'[data_head + k] = qtd[data_head + k]
  <2>1. k \in 0..P /\ k < P /\ k # m /\ m > 0 /\ k # m - 1 /\ m - 1 \in 0..P BY <1>2
  <2>2. data_head + k = Elem(k) /\ Elem(k) \in Qtds /\ Elem(k) # Elem(m) /\ Elem(k) # Elem(m - 1) BY <1>2, <2>1
  <2>3. data_prev = Elem(m - 1) BY <1>2, <1>6, <1>7, <2>1
  <2>4. QED BY <1>5, <1>11, <2>2, <2>3
<1>14. qtd'[cmd_qtd] = qtd[cmd_qtd]
  <2>1. cmd_qtd # t BY <1>2, <1>5
  <2>2. cmd_qtd # data_prev
    <3>1. CASE m = 0 BY <1>3, <1>6, <3>1 DEF TERMINATE
    <3>2. CASE m # 0
      <4>1. m > 0 BY <1>2, <3>2
      <4>2. QED BY <1>2, <1>6, <1>7, <3>2, <4>1
    <3>3. QED BY <3>1, <3>2
  <2>3. QED BY <1>2, <1>11, <2>1, <2>2
<1>15. QED BY <1>1, <1>2, <1>4, <1>5, <1>11, <1>12, <1>13, <1>14 DEF t

-----------------------------------------------------------------------------
(* The command block.                                                       *)

LEMMA InitOut == Init => OutInv
BY DEF Init, OutInv, Idle, IdleQH, Starting, Building, Sent, QHs

\* What the device makes of a command is never "open".
LEMMA Decided == ASSUME TypesInv, NEW f \in Ends(c) PROVE f # "open"
<1>1. c \in 1..Len(Commands) BY DEF TypesInv
<1>2. f \in {"done", "failed", "short", "stalled"} BY <1>1, ReplyFacts
<1>3. QED BY <1>2

LEMMA StepOut ==
  ASSUME TypesInv, NEW start, Starts(start), PoolInv(start), ControlInv, OutInv, InInv, [Next]_vars
  PROVE  OutInv'
<1> DEFINE h == qh["out"]
<1> USE DEF Goto, Building, Sent, driverVars, deviceVars
<1>0. /\ qh \in [QHs -> QH] /\ qtd \in [Qtds -> Transfer] /\ "control" \in QHs /\ "out" \in QHs /\ "in" \in QHs
      /\ out_token \in 0..1 /\ outToggle \in 0..1
  BY SlotTypes DEF TypesInv, QHs
<1>1. ASSUME pc' = pc, qh'["out"] = qh["out"], pc \in Building \cup {"poll_cmd"} => qtd' = qtd,
             UNCHANGED <<out_token, outToggle, fate, cmd_qtd>>
      PROVE  OutInv'
  BY <1>1 DEF OutInv, Idle, CmdQtd
<1>2. CASE Inserting
  <2>1. /\ pc \in Starting /\ pc' \in Starting /\ (Idle("out") => Idle("out")')
        /\ UNCHANGED <<out_token, outToggle, fate>>
    BY <1>0, <1>2, InsertFacts
  <2>2. QED BY <2>1 DEF OutInv, Starting
<1>3. CASE usb_control_transaction \/ lun_sleep
  <2>1. /\ pc \in {"lun", "sleep"} /\ pc' \in {"link_lun", "cmd"} /\ qh' = qh
        /\ UNCHANGED <<out_token, outToggle, fate>>
    BY <1>3 DEF usb_control_transaction, lun_sleep
  <2>2. QED BY <2>1 DEF OutInv, Idle
<1>4. CASE lun_link
  <2>1. /\ pc = "link_lun" /\ pc' = "sleep" /\ qh' = [qh EXCEPT !["control"].next = 0]
        /\ UNCHANGED <<out_token, outToggle, fate>>
    BY <1>4 DEF lun_link
  <2>2. h' = h BY <1>0, <2>1
  <2>3. QED BY <2>1, <2>2 DEF OutInv, Idle
<1>5. CASE init_cmd
  <2>1. /\ pc = "cmd" /\ pc' = "data" /\ qh' = qh /\ out_token' = 1 - out_token
        /\ UNCHANGED <<outToggle, fate>>
    BY <1>5 DEF init_cmd
  <2>2. qtd'[cmd_qtd'] = CmdQtd(TRUE)' BY <1>5, InitCmdFacts
  <2>3. outToggle = out_token /\ fate = "open" /\ Idle("out") BY <2>1 DEF OutInv
  <2>4. outToggle' = 1 - out_token' BY <1>0, <2>1, <2>3
  <2>5. QED BY <2>1, <2>2, <2>3, <2>4 DEF OutInv, Idle
<1>6. CASE init_data \/ init_status
  <2>1. /\ pc = "data" /\ pc' \in Building /\ qh' = qh
        /\ UNCHANGED <<out_token, outToggle, fate, cmd_qtd>>
    BY <1>6 DEF init_data, init_status
  <2>2. qtd'[cmd_qtd] = qtd[cmd_qtd] BY <1>6, InitAnswerFacts
  <2>3. QED BY <2>1, <2>2 DEF OutInv, Idle, CmdQtd
<1>7. CASE link_cmd
  <2>1. /\ pc = "link_cmd" /\ pc' = "poll_cmd" /\ qtd' = qtd /\ qh' = [qh EXCEPT !["out"].next = cmd_qtd]
        /\ UNCHANGED <<out_token, outToggle, fate, cmd_qtd>>
    BY <1>7 DEF link_cmd
  <2>2. cmd_qtd \in Pointers
    <3>1. cmd_qtd \in Qtds BY <2>1, ElemFacts
    <3>2. QED BY <3>1 DEF Pointers
  <2>3. h'.next = cmd_qtd /\ h'.active = h.active /\ h'.halted = h.halted BY <1>0, <2>1, <2>2, LinkFacts
  <2>4. ~h.active /\ ~h.halted /\ fate = "open" /\ outToggle = 1 - out_token /\ qtd[cmd_qtd] = CmdQtd(TRUE)
    BY <2>1 DEF OutInv, Idle
  <2>5. qtd'[cmd_qtd'] = CmdQtd(TRUE)' BY <2>1, <2>4 DEF CmdQtd
  <2>6. ~h'.active /\ ~h'.halted /\ h'.next = cmd_qtd' /\ fate' = "open" /\ outToggle' = 1 - out_token'
    BY <2>1, <2>3, <2>4
  <2>7. QED BY <2>1, <2>5, <2>6 DEF OutInv
<1>8. CASE poll_cmd
  <2>1. /\ pc = "poll_cmd" /\ pc' = "link_answer" /\ qh' = qh /\ ~qtd[cmd_qtd].active
        /\ UNCHANGED <<out_token, outToggle, fate>>
    BY <1>8 DEF poll_cmd
  <2>2. qtd[cmd_qtd] # CmdQtd(TRUE) BY <2>1 DEF CmdQtd
  <2>3. ~h.halted /\ ~h.active /\ h.next = TERMINATE /\ fate # "open" /\ outToggle = out_token
    BY <2>1, <2>2 DEF OutInv
  <2>4. QED BY <2>1, <2>3 DEF OutInv, Idle
<1>9. CASE link_answer
  <2>1. /\ pc = "link_answer" /\ pc' = "poll_status" /\ UNCHANGED <<out_token, outToggle, fate>>
    BY <1>9 DEF link_answer
  <2>2. h' = h BY <1>0, <1>9 DEF link_answer
  <2>3. QED BY <2>1, <2>2 DEF OutInv, Idle
<1>10. CASE poll_status
  <2>1. pc = "poll_status" /\ pc' = "returned" /\ qh' = qh /\ UNCHANGED <<out_token, outToggle, fate>>
    BY <1>10 DEF poll_status
  <2>2. QED BY <2>1 DEF OutInv, Idle
<1>11. CASE next_command
  <2>1. pc = "returned" /\ pc' = "cmd" /\ qh' = qh /\ fate' = "open" /\ UNCHANGED <<out_token, outToggle>>
    BY <1>11 DEF next_command
  <2>2. QED BY <2>1 DEF OutInv, Idle
<1>12. CASE Fetch
  <2>1. pc' = pc /\ qtd' = qtd /\ UNCHANGED <<out_token, outToggle, fate, cmd_qtd>> BY <1>12 DEF Fetch
  <2>2. CASE cursor # "out"
    <3>1. h' = h BY <1>0, <1>12, <2>2, FetchFacts
    <3>2. QED BY <1>1, <2>1, <3>1
  <2>3. CASE cursor = "out"
    <3>1. pc = "poll_cmd" BY <1>12, <2>3, OneAtWork
    <3>2. /\ ~h.active /\ h.next \in Qtds /\ qtd[h.next].active
          /\ h'.active /\ ~h'.halted /\ h'.cur = h.next /\ h'.next = qtd[h.next].next
          /\ h'.toggle = qtd[h.next].toggle
      BY <1>12, <2>3, FetchFacts
    <3>3. h.next # TERMINATE BY <3>2, SlotTypes DEF Qtds, TERMINATE
    <3>4. h.next = cmd_qtd /\ qtd[cmd_qtd] = CmdQtd(TRUE) /\ fate = "open" /\ outToggle = 1 - out_token
      BY <3>1, <3>2, <3>3 DEF OutInv
    <3>5. h'.cur = cmd_qtd /\ h'.next = TERMINATE /\ h'.toggle = 1 - out_token BY <3>2, <3>4 DEF CmdQtd
    <3>6. qtd'[cmd_qtd'] = CmdQtd(TRUE)' BY <2>1, <3>4 DEF CmdQtd
    <3>7. QED BY <2>1, <3>1, <3>2, <3>4, <3>5, <3>6 DEF OutInv
  <2>4. QED BY <2>2, <2>3
<1>13. CASE ExecuteControl
  <2>1. pc = "sleep" /\ pc' = pc /\ UNCHANGED <<out_token, outToggle, fate, cmd_qtd>>
    BY <1>13, OneAtWork DEF ExecuteControl
  <2>2. PICK stalled \in BOOLEAN : Retire("control", stalled) BY <1>13, BulkAssumption DEF ExecuteControl
  <2>3. h' = h BY <1>0, <2>2, RetireFacts
  <2>4. QED BY <1>1, <2>1, <2>3
<1>14. CASE ExecuteIn \/ ExecuteStall
  <2>1. pc = "poll_status" /\ pc' = pc /\ UNCHANGED <<out_token, outToggle, fate, cmd_qtd>>
    BY <1>14, OneAtWork DEF ExecuteIn, ExecuteStall
  <2>2. UNCHANGED <<qh, qtd>> \/ \E stalled \in BOOLEAN : Retire("in", stalled)
    BY <1>14 DEF ExecuteIn, ExecuteStall
  <2>3. h' = h BY <1>0, <2>2, RetireFacts
  <2>4. QED BY <1>1, <2>1, <2>3
<1>15. CASE ExecuteOut
  <2>1. /\ pc = "poll_cmd" /\ pc' = pc /\ UNCHANGED <<out_token, cmd_qtd>> /\ h.active
    BY <1>15, OneAtWork DEF ExecuteOut
  <2>2. /\ ~h.halted /\ h.cur = cmd_qtd /\ h.next = TERMINATE /\ h.toggle = 1 - out_token
        /\ qtd[cmd_qtd] = CmdQtd(TRUE)
        /\ outToggle = IF fate = "open" THEN 1 - out_token ELSE out_token
    BY <2>1 DEF OutInv
  <2>3. fate' # "open" /\ outToggle' = out_token
    <3>1. CASE fate = "open"
      <4>1. h.toggle = outToggle BY <2>2, <3>1
      <4>2. PICK f \in Ends(c) : fate' = f /\ outToggle' = 1 - outToggle BY <1>15, <4>1 DEF ExecuteOut
      <4>3. f # "open" BY Decided
      <4>4. 1 - outToggle = out_token BY <1>0, <2>2, <3>1
      <4>5. QED BY <4>2, <4>3, <4>4
    <3>2. CASE fate # "open"
      <4>1. h.toggle # outToggle BY <1>0, <2>2, <3>2
      <4>2. QED BY <1>15, <2>2, <3>2, <4>1 DEF ExecuteOut
    <3>3. QED BY <3>1, <3>2
  <2>4. CASE UNCHANGED <<qh, qtd>>
    <3>1. qtd'[cmd_qtd'] = CmdQtd(TRUE)' BY <2>1, <2>2, <2>4 DEF CmdQtd
    <3>2. h' = h BY <2>4
    <3>3. QED BY <2>1, <2>2, <2>3, <3>1, <3>2 DEF OutInv
  <2>5. CASE Retire("out", FALSE)
    <3>1. cmd_qtd \in Qtds BY <2>1, ElemFacts DEF Linked_in
    <3>2. /\ ~h'.active /\ ~h'.halted /\ h'.next = TERMINATE /\ qtd'[cmd_qtd] = Over(qtd[cmd_qtd])
      BY <1>0, <2>2, <2>5, <3>1, RetireFacts
    <3>3. qtd'[cmd_qtd'] = CmdQtd(FALSE)' BY <2>1, <2>2, <3>2 DEF CmdQtd, Over
    <3>4. QED BY <2>1, <2>3, <3>2, <3>3 DEF OutInv
  <2>6. QED BY <1>15, <2>4, <2>5 DEF ExecuteOut
<1>16. CASE MoveOn \/ UNCHANGED vars
  <2>1. pc' = pc /\ UNCHANGED <<qh, qtd, out_token, outToggle, fate, cmd_qtd>> BY <1>16 DEF MoveOn, vars
  <2>2. QED BY <1>1, <2>1
<1>17. QED BY <1>2, <1>3, <1>4, <1>5, <1>6, <1>7, <1>8, <1>9, <1>10, <1>11, <1>12, <1>13, <1>14, <1>15, <1>16
           DEF Next, Driver, Execute

-----------------------------------------------------------------------------
(* The answer.                                                              *)

LEMMA QueueFacts ==
  ASSUME TypesInv, inq # <<>>
  PROVE  /\ Head(inq) = inq[1] /\ Head(inq) \in Packets /\ Len(inq) \in Nat \ {0}
         /\ Tail(inq) \in Seq(Packets) /\ Len(Tail(inq)) = Len(inq) - 1
         /\ \A k \in 1..Len(inq) - 1 : Tail(inq)[k] = inq[k + 1]
<1>1. inq \in Seq(Packets) BY DEF TypesInv
<1>2. /\ Head(inq) \in Packets /\ Tail(inq) \in Seq(Packets) /\ Len(Tail(inq)) = Len(inq) - 1
      /\ \A k \in 1..Len(Tail(inq)) : Tail(inq)[k] = inq[k + 1]
  BY <1>1, HeadTailProperties
<1>3. Head(inq) = inq[1] /\ Len(inq) \in Nat \ {0} BY <1>1
<1>4. QED BY <1>2, <1>3

\* The qTD after the first j is retired, its packet stored.
LEMMA StoreFacts ==
  ASSUME TypesInv, NEW start, Starts(start), PoolInv(start), pc = "poll_status",
         NEW b \in 0..1, NEW j \in 0..P, NEW stalled \in BOOLEAN,
         Chain(b, j), qh["in"].cur = Elem(j), qh["in"].next = After(j),
         Retire("in", stalled), UNCHANGED <<c, cmd_qtd, qtd_count>>
  PROVE  /\ Chain(b, j + 1)' /\ ~qh'["in"].active /\ (qh'["in"].halted <=> stalled)
         /\ j < P => qh'["in"].next = Elem(j + 1)'
         /\ j = P => qh'["in"].next = TERMINATE
<1>1. /\ P \in Nat /\ \A k \in 0..P : Elem(k) \in Qtds
      /\ \A k, l \in 0..P : Elem(k) = Elem(l) => k = l
  BY ElemFacts DEF Linked_in
<1>2. "in" \in QHs BY DEF QHs
<1>3. /\ ~qh'["in"].active /\ (qh'["in"].halted <=> stalled) /\ qh'["in"].next = After(j)
      /\ \A t \in Qtds : t # Elem(j) => qtd'[t] = qtd[t]
      /\ qtd'[Elem(j)] = Over(qtd[Elem(j)])
  BY <1>1, <1>2, RetireFacts
<1>4. P' = P /\ \A k : Elem(k)' = Elem(k) /\ After(k)' = After(k)
  BY DEF P, Elem, After, data_head, status_qtd
<1>5. ASSUME NEW k \in 0..P PROVE qtd'[Elem(k)] = InQtd(b, k, After(k), k >= j + 1)
  <2>1. qtd[Elem(k)] = InQtd(b, k, After(k), k >= j) BY <1>5 DEF Chain
  <2>2. CASE k # j
    <3>1. (k >= j) = (k >= j + 1) BY <1>1, <2>2
    <3>2. Elem(k) \in Qtds /\ Elem(k) # Elem(j) BY <1>1, <2>2
    <3>3. QED BY <1>3, <2>1, <3>1, <3>2
  <2>3. CASE k = j
    <3>1. (k >= j + 1) = FALSE BY <1>1, <2>3
    <3>2. qtd'[Elem(k)] = Over(InQtd(b, k, After(k), k >= j)) BY <1>3, <2>1, <2>3
    <3>3. QED BY <3>1, <3>2 DEF Over, InQtd
  <2>4. QED BY <2>2, <2>3
<1>6. Chain(b, j + 1)'
  <2>1. \A k \in 0..P : InQtd(b, k, After(k), k >= j + 1)' = InQtd(b, k, After(k), k >= j + 1)
    BY <1>4 DEF InQtd
  <2>2. QED BY <1>4, <1>5, <2>1 DEF Chain
<1>7. j < P => After(j) = Elem(j + 1)' BY <1>4 DEF After
<1>8. j = P => After(j) = TERMINATE BY <1>1 DEF After
<1>9. QED BY <1>3, <1>6, <1>7, <1>8

LEMMA Receive ==
  ASSUME TypesInv, NEW start, Starts(start), PoolInv(start), pc = "poll_status", fate # "open",
         NEW b \in 0..1, NEW j \in 0..P + 1, Chain(b, j), At(b, j), Sync(b, j, fate), Stored(j), ExecuteIn
  PROVE  \E i \in 0..P + 1 : (Chain(b, i) /\ At(b, i) /\ Sync(b, i, fate) /\ Stored(i))'
<1> DEFINE h == qh["in"]
           reply == Reply(c, fate)
<1>1. /\ h.active /\ inq # <<>> /\ Head(inq).packet # STALL
      /\ UNCHANGED <<pc, c, qtd_count, cmd_qtd, in_token, fate>>
  BY DEF ExecuteIn, driverVars
<1>2. P \in Nat /\ 1..P \subseteq Slots /\ c \in 1..Len(Commands) /\ fate \in Ends(c) BY Room DEF TypesInv
<1>3. /\ j \in 0..P /\ ~h.halted /\ h.cur = Elem(j) /\ h.next = After(j)
      /\ h.toggle = Toggle(b, j) /\ h.slot = (IF j < P THEN j + 1 ELSE 0)
  BY <1>1, <1>2 DEF At
<1>4. PICK d \in 0..1 :
        /\ Queue(d, j, fate) /\ (d = 1 => inq[1].packet # STALL)
        /\ inToggle = IF d = 0 THEN Toggle(b, j) ELSE 1 - Toggle(b, j)
  BY DEF Sync
<1>5. Len(reply) \in Nat BY <1>2, ReplyFacts
<1>6. /\ j <= Len(reply) /\ Len(inq) = d + Len(reply) - j
      /\ \A k \in 1..Len(reply) - j : inq[d + k] = reply[j + k]
  BY <1>4 DEF Queue
<1>7. /\ Head(inq) = inq[1] /\ Head(inq) \in Packets /\ Len(inq) \in Nat \ {0} /\ Len(Tail(inq)) = Len(inq) - 1
      /\ \A k \in 1..Len(inq) - 1 : Tail(inq)[k] = inq[k + 1]
  BY <1>1, QueueFacts
<1>8. P' = P /\ \A k : Elem(k)' = Elem(k) /\ After(k)' = After(k)
  BY <1>1 DEF P, Elem, After, data_head, status_qtd
<1>9. Toggle(b, j) \in 0..1 /\ Toggle(b, j + 1) = 1 - Toggle(b, j) BY <1>3, ToggleFacts
<1> HIDE DEF reply
<1>10. \/ inq' = Tail(inq) /\ inToggle' = 1 - inToggle
       \/ inq' = inq /\ inToggle' = inToggle
  BY DEF ExecuteIn
\* The first packet is new, or sent again; then the device has it
\* acknowledged or will send it again.
<1>11. ASSUME NEW i \in {j, j + 1}, i = IF d = 0 THEN j + 1 ELSE j PROVE Sync(b, i, fate)'
  <2>1. Len(reply)' = Len(reply) /\ reply' = reply BY <1>1 DEF reply
  <2>2. i <= Len(reply) /\ Len(inq) - 1 = Len(reply) - i
        /\ \A k \in 1..Len(reply) - i : inq[1 + k] = reply[i + k]
    <3>1. CASE d = 0
      <4>1. Len(inq) = Len(reply) - j /\ i = j + 1 BY <1>3, <1>5, <1>6, <1>11, <3>1
      <4>2. i <= Len(reply) /\ Len(inq) - 1 = Len(reply) - i BY <1>3, <1>5, <1>7, <4>1
      <4>3. ASSUME NEW k \in 1..Len(reply) - i PROVE inq[1 + k] = reply[i + k]
        <5>1. k + 1 \in 1..Len(reply) - j /\ d + (k + 1) = 1 + k /\ j + (k + 1) = i + k
          BY <1>3, <1>5, <3>1, <4>1
        <5>2. inq[d + (k + 1)] = reply[j + (k + 1)] BY <1>6, <5>1
        <5>3. QED BY <5>1, <5>2
      <4>4. QED BY <4>2, <4>3
    <3>2. CASE d = 1
      <4>1. i = j BY <1>11, <3>2
      <4>2. QED BY <1>3, <1>5, <1>6, <3>2, <4>1
    <3>3. QED BY <3>1, <3>2
  <2>3. i \in Nat BY <1>3
  <2>4. CASE inq' = Tail(inq) /\ inToggle' = 1 - inToggle
    <3>1. Queue(0, i, fate)'
      <4>1. Len(inq') = Len(inq) - 1 BY <1>7, <2>4
      <4>2. ASSUME NEW k \in 1..Len(reply) - i PROVE inq'[0 + k] = reply[i + k]
        <5>1. k \in 1..Len(inq) - 1 BY <2>2
        <5>2. 0 + k = k /\ k + 1 = 1 + k BY <5>1, <1>7
        <5>3. QED BY <1>7, <2>2, <2>4, <5>1, <5>2
      <4>3. Len(inq') = 0 + Len(reply) - i BY <1>5, <2>2, <2>3, <4>1
      <4>4. QED BY <1>1, <2>2, <4>2, <4>3 DEF Queue, reply
    <3>2. inToggle' = Toggle(b, i)
      <4>1. CASE d = 0 BY <1>4, <1>9, <1>11, <2>4, <4>1
      <4>2. CASE d = 1
        <5>1. i = j /\ inToggle = 1 - Toggle(b, j) BY <1>4, <1>11, <4>2
        <5>2. QED BY <1>9, <2>4, <5>1
      <4>3. QED BY <4>1, <4>2
    <3>3. QED BY <3>1, <3>2 DEF Sync, Toggle
  <2>5. CASE inq' = inq /\ inToggle' = inToggle
    <3>1. Queue(1, i, fate)'
      <4>1. Len(inq') = 1 + Len(reply) - i BY <1>5, <1>7, <2>2, <2>3, <2>5
      <4>2. QED BY <1>1, <2>2, <2>5, <4>1 DEF Queue, reply
    <3>2. inToggle' = 1 - Toggle(b, i)
      <4>1. CASE d = 0
        <5>1. i = j + 1 /\ inToggle = Toggle(b, j) BY <1>4, <1>11, <4>1
        <5>2. QED BY <1>9, <2>5, <5>1
      <4>2. CASE d = 1 BY <1>4, <1>11, <2>5, <4>2
      <4>3. QED BY <4>1, <4>2
    <3>3. inq'[1].packet # STALL BY <1>1, <1>7, <2>5
    <3>4. QED BY <3>1, <3>2, <3>3 DEF Sync, Toggle
  <2>6. QED BY <1>10, <2>4, <2>5
<1>12. CASE d = 0
  <2>1. h.toggle = inToggle BY <1>3, <1>4, <1>12
  <2>2. /\ Retire("in", FALSE)
        /\ IF h.slot = 0 THEN csw' = Head(inq) /\ buf' = buf
                         ELSE buf' = [buf EXCEPT ![h.slot] = Head(inq)] /\ csw' = csw
    BY <2>1 DEF ExecuteIn
  <2>3. /\ Chain(b, j + 1)' /\ ~qh'["in"].active /\ ~qh'["in"].halted
        /\ j < P => qh'["in"].next = Elem(j + 1)'
        /\ j = P => qh'["in"].next = TERMINATE
    BY <1>1, <1>3, <2>2, StoreFacts
  <2>4. j + 1 \in 0..P + 1 /\ (j < P => j + 1 <= P) /\ (j = P => j + 1 = P + 1) /\ (j < P \/ j = P)
    BY <1>2, <1>3
  <2>5. At(b, j + 1)' BY <1>8, <2>3, <2>4 DEF At
  <2>6. Sync(b, j + 1, fate)' BY <1>11, <1>12
  <2>7. Head(inq) = reply[j + 1]
    <3>1. 1 \in 1..Len(reply) - j /\ d + 1 = 1 BY <1>3, <1>5, <1>6, <1>7, <1>12
    <3>2. QED BY <1>6, <1>7, <3>1
  <2>8. Stored(j + 1)'
    <3>1. buf \in [Slots -> Packets] BY DEF TypesInv
    <3>2. (\A k \in 1..P : k <= j => buf[k] = reply[k]) /\ j # P + 1 BY <1>2, <1>3 DEF Stored, reply
    <3>3. CASE j < P
      <4>1. j + 1 \in Slots /\ h.slot = j + 1 /\ h.slot # 0 BY <1>2, <1>3, <3>3
      <4>2. buf' = [buf EXCEPT ![j + 1] = Head(inq)] BY <2>2, <4>1
      <4>3. ASSUME NEW k \in 1..P, k <= j + 1 PROVE buf'[k] = reply[k]
        <5>1. k \in Slots BY <1>2
        <5>2. CASE k = j + 1 BY <2>7, <3>1, <4>2, <5>1, <5>2
        <5>3. CASE k # j + 1
          <6>1. k <= j BY <1>2, <1>3, <4>3, <5>3
          <6>2. QED BY <3>1, <3>2, <4>2, <5>1, <5>3, <6>1
        <5>4. QED BY <5>2, <5>3
      <4>4. j + 1 # P + 1 BY <1>2, <1>3, <3>3
      <4>5. QED BY <1>1, <1>8, <4>3, <4>4 DEF Stored, reply
    <3>4. CASE j = P
      <4>1. csw' = reply[j + 1] /\ buf' = buf BY <1>3, <2>2, <2>7, <3>4
      <4>2. \A k \in 1..P : k <= j BY <1>2, <3>4
      <4>3. QED BY <1>1, <1>8, <3>2, <4>1, <4>2 DEF Stored, reply
    <3>5. QED BY <2>4, <3>3, <3>4
  <2>9. QED BY <1>8, <2>3, <2>4, <2>5, <2>6, <2>8
<1>13. CASE d = 1
  <2>1. h.toggle # inToggle BY <1>3, <1>4, <1>9, <1>13
  <2>2. UNCHANGED <<qh, qtd, buf, csw>> BY <2>1 DEF ExecuteIn
  <2>3. Chain(b, j)' BY <1>8, <2>2 DEF Chain, InQtd, Toggle
  <2>4. At(b, j)' BY <1>8, <2>2 DEF At, Toggle
  <2>5. Stored(j)' BY <1>1, <1>8, <2>2 DEF Stored
  <2>6. Sync(b, j, fate)' BY <1>11, <1>13
  <2>7. QED BY <1>8, <2>3, <2>4, <2>5, <2>6
<1>14. QED BY <1>12, <1>13

LEMMA InitIn == Init => InInv
<1> SUFFICES ASSUME Init PROVE InAt(0) BY DEF InInv
<1>1. /\ pc = "init_control" /\ in_token = 0 /\ inToggle = 0 /\ inq = <<>> /\ fate = "open"
      /\ qh["in"] = IdleQH("unset")
  BY DEF Init, QHs
<1>2. pc \notin Building \cup Linked_in /\ pc # "poll_status" /\ pc # "returned" BY <1>1 DEF Building, Linked_in
<1>3. Idle("in") BY <1>1 DEF Idle, IdleQH
<1>4. Toggle(0, 0) = 0 BY ToggleFacts
<1>5. Queue(0, 0, "open")
  <2>1. Len(<<>>) = 0 OBVIOUS
  <2>2. QED BY <1>1, <2>1 DEF Queue
<1>6. Sync(0, 0, "open") BY <1>1, <1>4, <1>5 DEF Sync
<1>7. QED BY <1>1, <1>2, <1>3, <1>6 DEF InAt

\* What the answer brings is known when its status has been stored.
LEMMA Complete ==
  ASSUME TypesInv, NEW start, Starts(start), PoolInv(start), OutInv, NEW b \in 0..1, InAt(b), poll_status
  PROVE  /\ Idle("in") /\ \E d \in 0..1 : /\ Len(inq) = d
                                          /\ inToggle = IF d = 0 THEN Toggle(b, P + 1) ELSE 1 - Toggle(b, P + 1)
                                          /\ d = 1 => inq[1].packet # STALL
         /\ Whole /\ Stored(P + 1)
<1>1. pc = "poll_status" /\ ~qtd[status_qtd].active BY DEF poll_status, Goto
<1>2. P \in Nat /\ status_qtd = Elem(P) BY <1>1, ElemFacts DEF Linked_in
<1>3. ASSUME NEW j \in 0..P + 1, Chain(b, j) PROVE j = P + 1
  <2>1. P \in 0..P BY <1>2
  <2>2. qtd[Elem(P)] = InQtd(b, P, After(P), P >= j) BY <1>3, <2>1 DEF Chain
  <2>3. ~(P >= j)
    <3>1. SUFFICES ASSUME P >= j PROVE FALSE OBVIOUS
    <3>2. (P >= j) = TRUE BY <3>1
    <3>3. InQtd(b, P, After(P), TRUE).active = TRUE BY DEF InQtd
    <3>4. QED BY <1>1, <1>2, <2>2, <3>2, <3>3
  <2>4. QED BY <1>2, <2>3
<1>4. ~Stalled(b)
  <2>1. SUFFICES ASSUME Stalled(b) PROVE FALSE OBVIOUS
  <2>2. Chain(b, 1) /\ P > 0 BY <2>1 DEF Stalled
  <2>3. 1 \in 0..P + 1 /\ 1 # P + 1 BY <1>2, <2>2
  <2>4. QED BY <1>3, <2>2, <2>3
<1>5. At(b, P + 1) /\ Sync(b, P + 1, fate) /\ Stored(P + 1) BY <1>1, <1>3, <1>4 DEF InAt
<1>6. Idle("in") BY <1>2, <1>5 DEF At, Idle
<1>7. fate \in Ends(c) /\ c \in 1..Len(Commands) BY <1>1 DEF OutInv, Sent, TypesInv
<1>8. PICK d \in 0..1 : /\ Queue(d, P + 1, fate)
                        /\ inToggle = IF d = 0 THEN Toggle(b, P + 1) ELSE 1 - Toggle(b, P + 1)
                        /\ d = 1 => inq[1].packet # STALL
  BY <1>5 DEF Sync
<1>9. fate # "open" BY <1>7, Decided
<1>10. P + 1 <= Len(Reply(c, fate)) /\ Len(inq) = d + Len(Reply(c, fate)) - (P + 1) BY <1>8, <1>9 DEF Queue
<1>11. /\ fate \in {"done", "failed", "short", "stalled"} /\ Len(Reply(c, fate)) \in Nat
       /\ fate \in {"short", "stalled"} => P > 0
       /\ fate \in {"done", "failed"} => Len(Reply(c, fate)) = P + 1
       /\ fate = "short" => Len(Reply(c, fate)) = 2
       /\ fate = "stalled" => Len(Reply(c, fate)) = 1
  BY <1>7, ReplyFacts DEF P
<1>12. Len(inq) = d /\ Whole
  <2>1. CASE fate \in {"done", "failed"}
    <3>1. Len(Reply(c, fate)) = P + 1 BY <1>11, <2>1
    <3>2. Len(inq) = d BY <1>2, <1>10, <3>1
    <3>3. QED BY <2>1, <3>2 DEF Whole
  <2>2. CASE fate = "short"
    <3>1. Len(Reply(c, fate)) = 2 /\ P > 0 BY <1>11, <2>2
    <3>2. P + 1 <= 2 /\ Len(inq) = d + 2 - (P + 1) BY <1>10, <3>1
    <3>3. P = 1 /\ Len(inq) = d BY <1>2, <3>1, <3>2
    <3>4. QED BY <2>2, <3>3 DEF Whole
  <2>3. CASE fate = "stalled"
    <3>1. Len(Reply(c, fate)) = 1 /\ P > 0 BY <1>11, <2>3
    <3>2. P + 1 <= 1 BY <1>10, <3>1
    <3>3. QED BY <1>2, <3>1, <3>2
  <2>4. QED BY <1>11, <2>1, <2>2, <2>3
<1>13. QED BY <1>5, <1>6, <1>8, <1>12

LEMMA StepIn ==
  ASSUME TypesInv, NEW start, Starts(start), PoolInv(start), ControlInv, OutInv, InInv, [Next]_vars
  PROVE  InInv'
<1> DEFINE h == qh["in"]
<1> USE DEF Goto, Building, Linked_in, driverVars, deviceVars
<1>0. /\ qh \in [QHs -> QH] /\ qtd \in [Qtds -> Transfer] /\ "control" \in QHs /\ "out" \in QHs /\ "in" \in QHs
      /\ P \in Nat /\ in_token \in 0..1
  BY Room DEF TypesInv, QHs
<1> PICK b \in 0..1 : InAt(b) BY DEF InInv
\* Nothing that is looked at changes.
<1>1. ASSUME UNCHANGED <<in_token, inq, inToggle, fate, c>> PROVE P' = P /\ Sync(b, 0, fate)' = Sync(b, 0, fate)
             /\ Sync(b, 0, "open")' = Sync(b, 0, "open")
  BY <1>1 DEF P, Sync, Queue, Toggle
<1>2. ASSUME UNCHANGED <<in_token, inq, inToggle, fate, c>>, Idle("in") => Idle("in")',
             pc \notin Building \cup Linked_in \cup {"returned"},
             pc' \notin Building \cup Linked_in \cup {"returned"}
      PROVE  InInv'
  <2>1. InAt(b)' BY <1>1, <1>2 DEF InAt
  <2>2. QED BY <2>1 DEF InInv
<1>3. ASSUME UNCHANGED <<pc, in_token, inq, inToggle, fate, c, cmd_qtd, qtd_count, buf, csw>>, qh'["in"] = qh["in"],
             pc \in Building \cup Linked_in => qtd' = qtd
      PROVE  InInv'
  <2>1. P' = P /\ data_head' = data_head /\ \A k : Elem(k)' = Elem(k) /\ After(k)' = After(k)
    BY <1>3 DEF P, Elem, After, data_head, status_qtd
  <2>2. \A k, next, active : InQtd(b, k, next, active)' = InQtd(b, k, next, active)
    BY <2>1 DEF InQtd, Toggle
  <2>3. ASSUME pc \in Building \cup Linked_in
        PROVE  /\ Built(b)' = Built(b)
               /\ \A j : Chain(b, j)' = Chain(b, j) /\ At(b, j)' = At(b, j) /\ Stored(j)' = Stored(j)
               /\ Stalled(b)' = Stalled(b)
    <3>1. qtd' = qtd BY <1>3, <2>3
    <3>2. \A j : Chain(b, j)' = Chain(b, j) BY <2>1, <2>2, <3>1 DEF Chain
    <3>3. Built(b)' = Built(b)
      <4>1. qtd_count' = qtd_count /\ data_head' = data_head BY <1>3, <2>1
      <4>2. \A k, next : InQtd(b, k, next, TRUE)' = InQtd(b, k, next, TRUE) BY <2>2
      <4>3. QED BY ONLY <3>1, <4>1, <4>2 DEF Built
    <3>4. \A j : At(b, j)' = At(b, j) BY <1>3, <2>1 DEF At, Toggle
    <3>5. \A j : Stored(j)' = Stored(j) BY <1>3, <2>1 DEF Stored
    <3>6. Stalled(b)' = Stalled(b) BY <1>3, <2>1, <3>2 DEF Stalled
    <3>7. QED BY <3>2, <3>3, <3>4, <3>5, <3>6
  <2>4. \A j : Sync(b, j, fate)' = Sync(b, j, fate) /\ Sync(b, j, "open")' = Sync(b, j, "open")
    BY <1>3 DEF Sync, Queue, Toggle
  <2>5. Idle("in")' = Idle("in") BY <1>3 DEF Idle
  <2>6. InAt(b)'
    <3>1. CASE pc \notin Building \cup Linked_in BY <1>3, <2>4, <2>5, <3>1 DEF InAt
    <3>2. CASE pc \in Building \cup Linked_in
      <4>2. pc = "data" => Built(b)' /\ in_token' = Toggle(b, qtd_count - data_head)'
        BY <1>3, <2>1, <2>3, <3>2 DEF InAt, Toggle
      <4>3. pc \in Linked_in => in_token' = Toggle(b, P + 1)' BY <1>3, <2>1 DEF InAt, Toggle
      <4>4. pc \in Linked_in \ {"poll_status"} => Chain(b, 0)' BY <2>3, <3>2 DEF InAt
      <4>5. pc # "poll_status" => Idle("in")' /\ Sync(b, 0, fate)' BY <2>4, <2>5, <3>2 DEF InAt
      <4>6. pc = "poll_status" =>
              \/ Stalled(b)'
              \/ \E j \in 0..P' + 1 : (Chain(b, j) /\ At(b, j) /\ Sync(b, j, fate) /\ Stored(j))'
        BY <2>1, <2>3, <2>4, <3>2 DEF InAt
      <4>7. QED BY <1>3, <3>2, <4>2, <4>3, <4>4, <4>5, <4>6 DEF InAt
    <3>3. QED BY <3>1, <3>2
  <2>7. QED BY <2>6 DEF InInv
<1>4. CASE Inserting
  <2>1. /\ pc \in Starting /\ pc' \in Starting /\ (Idle("in") => Idle("in")')
        /\ UNCHANGED <<in_token, inq, inToggle, fate, c>>
    BY <1>0, <1>4, InsertFacts
  <2>2. QED BY <1>2, <2>1 DEF Starting
<1>5. CASE usb_control_transaction \/ lun_link \/ lun_sleep
  <2>1. /\ pc \in {"lun", "link_lun", "sleep"} /\ pc' \in {"link_lun", "sleep", "cmd"}
        /\ UNCHANGED <<in_token, inq, inToggle, fate, c>>
        /\ qh' = qh \/ qh' = [qh EXCEPT !["control"].next = 0]
    BY <1>5 DEF usb_control_transaction, lun_link, lun_sleep
  <2>2. h' = h BY <1>0, <2>1
  <2>3. QED BY <1>2, <2>1, <2>2 DEF Idle
<1>6. CASE init_cmd
  <2>1. /\ pc = "cmd" /\ pc' = "data" /\ qh' = qh /\ UNCHANGED <<in_token, inq, inToggle, fate, c>>
        /\ cmd_qtd' = first_qtd /\ qtd_count' = first_qtd + 2
    BY <1>6 DEF init_cmd
  <2>2. first_qtd \in Nat BY <2>1, Room
  <2>3. qtd_count' - data_head' = 0 BY <2>1, <2>2 DEF data_head
  <2>4. Built(b)' 
    <3>1. ASSUME NEW k \in 0..qtd_count' - data_head' - 1 PROVE FALSE BY <2>3, <3>1
    <3>2. QED BY <3>1 DEF Built
  <2>5. b = in_token /\ Idle("in") /\ Sync(b, 0, fate) BY <2>1 DEF InAt
  <2>6. in_token' = Toggle(b, qtd_count - data_head)'
    <3>1. Toggle(b, 0) = b BY ToggleFacts
    <3>2. QED BY <2>1, <2>3, <2>5, <3>1 DEF Toggle
  <2>7. InAt(b)' BY <1>1, <2>1, <2>4, <2>5, <2>6 DEF InAt, Idle
  <2>8. QED BY <2>7 DEF InInv
<1>7. CASE init_data
  <2> DEFINE m == qtd_count - data_head
             t == qtd_count
  <2>1. /\ pc = "data" /\ pc' = "data" /\ qh' = qh /\ UNCHANGED <<cmd_qtd, inq, inToggle, fate, c>>
        /\ qtd_count' = qtd_count + 1 /\ in_token' = 1 - in_token
    BY <1>7 DEF init_data
  <2>2. /\ m \in 0..P /\ t \in Qtds /\ m < P /\ cmd_qtd \in Qtds /\ qtd_count \in Nat
        /\ qtd'[t] = [next |-> TERMINATE, active |-> TRUE, toggle |-> in_token, pid |-> "IN", slot |-> m + 1]
        /\ m > 0 => qtd'[data_head + (m - 1)] = Leading(qtd[data_head + (m - 1)], t)
        /\ \A k \in 0..m - 2 : qtd'[data_head + k] = qtd[data_head + k]
    BY <1>7, <2>1, InitAnswerFacts, ElemFacts
  <2>3. /\ \A k \in 0..m - 1 : qtd[data_head + k] = InQtd(b, k, IF k = m - 1 THEN TERMINATE
                                                              ELSE data_head + k + 1, TRUE)
        /\ in_token = Toggle(b, m) /\ Idle("in") /\ Sync(b, 0, fate)
    BY <2>1 DEF InAt, Built
  <2>4. data_head \in Nat /\ data_head' = data_head /\ P' = P /\ t = data_head + m
    <3>1. cmd_qtd \in Nat BY <2>2 DEF Qtds
    <3>2. QED BY <2>1, <2>2, <3>1 DEF data_head, P
  <2>5. qtd_count' - data_head' = m + 1 BY <2>1, <2>2, <2>4
  <2> HIDE DEF t, m
  <2>6. ASSUME NEW k \in 0..m
        PROVE  qtd'[data_head + k] = InQtd(b, k, IF k = m THEN TERMINATE ELSE data_head + k + 1, TRUE)
    <3>1. CASE k = m
      <4>1. k < P BY <2>2, <3>1
      <4>2. qtd'[data_head + k] = [next |-> TERMINATE, active |-> TRUE, toggle |-> Toggle(b, k), pid |-> "IN", slot |-> k + 1]
        BY <2>2, <2>3, <2>4, <3>1
      <4>3. QED BY <3>1, <4>1, <4>2 DEF InQtd
    <3>2. CASE k = m - 1
      <4>1. m > 0 /\ k \in 0..m - 1 /\ k # m /\ data_head + k + 1 = t BY <2>2, <2>4, <3>2
      <4>2. qtd[data_head + k] = InQtd(b, k, TERMINATE, TRUE) BY <2>3, <3>2, <4>1
      <4>3. qtd'[data_head + k] = Leading(qtd[data_head + k], t) BY <2>2, <3>2, <4>1
      <4>4. Leading(InQtd(b, k, TERMINATE, TRUE), t) = InQtd(b, k, t, TRUE) BY DEF Leading, InQtd
      <4>5. QED BY <4>1, <4>2, <4>3, <4>4
    <3>3. CASE k # m /\ k # m - 1
      <4>1. k \in 0..m - 2 /\ k \in 0..m - 1 BY <2>2, <3>3
      <4>2. QED BY <2>2, <2>3, <3>3, <4>1
    <3>4. QED BY <3>1, <3>2, <3>3
  <2>7. Built(b)'
    <3>2. qtd_count' - data_head' - 1 = m BY <2>2, <2>5
    <3>3. ASSUME NEW k \in 0..m
          PROVE  qtd'[data_head' + k] =
                   [next |-> IF k = m THEN TERMINATE ELSE data_head' + k + 1, active |-> TRUE,
                    toggle |-> (b + k) % 2, pid |-> "IN", slot |-> IF k < P' THEN k + 1 ELSE 0]
      BY <2>4, <2>6 DEF InQtd, Toggle
    <3>4. QED BY <3>2, <3>3 DEF Built, InQtd, Toggle
  <2>8. in_token' = Toggle(b, qtd_count - data_head)'
    <3>1. Toggle(b, m + 1) = 1 - Toggle(b, m) BY <2>2, ToggleFacts
    <3>2. QED BY <2>1, <2>3, <2>5, <3>1 DEF Toggle
  <2>9. Sync(b, 0, fate)' BY <2>1, <2>3 DEF Sync, Queue, Toggle
  <2>10. InAt(b)' BY <2>1, <2>3, <2>7, <2>8, <2>9 DEF InAt, Idle
  <2>11. QED BY <2>10 DEF InInv
<1>8. CASE init_status
  <2> DEFINE m == qtd_count - data_head
             t == status_qtd
  <2>1. /\ pc = "data" /\ pc' = "link_cmd" /\ qh' = qh /\ UNCHANGED <<cmd_qtd, qtd_count, inq, inToggle, fate, c>>
        /\ in_token' = 1 - in_token /\ m = P
    BY <1>8 DEF init_status, P
  <2>2. ~init_data BY <2>1 DEF init_data, P
  <2>3. /\ t \in Qtds /\ cmd_qtd \in Qtds /\ t = Elem(P)
        /\ qtd'[t] = [next |-> TERMINATE, active |-> TRUE, toggle |-> in_token, pid |-> "IN", slot |-> 0]
        /\ m > 0 => qtd'[data_head + (m - 1)] = Leading(qtd[data_head + (m - 1)], t)
        /\ \A k \in 0..m - 2 : qtd'[data_head + k] = qtd[data_head + k]
    <3>1. ~(P < P) BY <1>0
    <3>2. QED BY <1>8, <2>1, <2>2, <3>1, InitAnswerFacts, ElemFacts
  <2>4. /\ \A k \in 0..m - 1 : qtd[data_head + k] = InQtd(b, k, IF k = m - 1 THEN TERMINATE
                                                              ELSE data_head + k + 1, TRUE)
        /\ in_token = Toggle(b, m) /\ Idle("in") /\ Sync(b, 0, fate)
    BY <2>1 DEF InAt, Built
  <2>5. data_head \in Nat
    <3>1. cmd_qtd \in Nat BY <2>3 DEF Qtds
    <3>2. QED BY <3>1 DEF data_head
  <2>6. P' = P /\ \A k : Elem(k)' = Elem(k) /\ After(k)' = After(k)
    BY <2>1 DEF P, Elem, After, data_head, status_qtd
  <2> HIDE DEF t, m
  <2>7. ASSUME NEW k \in 0..P PROVE qtd'[Elem(k)] = InQtd(b, k, After(k), TRUE)
    <3>1. CASE k = P
      <4>1. After(k) = TERMINATE /\ ~(k < P) BY <1>0, <3>1 DEF After
      <4>2. QED BY <2>1, <2>3, <2>4, <3>1, <4>1 DEF InQtd
    <3>2. CASE k = P - 1
      <4>1. m > 0 /\ k \in 0..m - 1 /\ k < P /\ k + 1 = P BY <1>0, <2>1, <3>2
      <4>2. Elem(k) = data_head + k /\ After(k) = t BY <2>3, <4>1 DEF Elem, After
      <4>3. qtd[data_head + k] = InQtd(b, k, TERMINATE, TRUE) BY <2>1, <2>4, <3>2, <4>1
      <4>4. qtd'[data_head + k] = Leading(qtd[data_head + k], t) BY <2>1, <2>3, <3>2, <4>1
      <4>5. Leading(InQtd(b, k, TERMINATE, TRUE), t) = InQtd(b, k, t, TRUE) BY DEF Leading, InQtd
      <4>6. QED BY <4>2, <4>3, <4>4, <4>5
    <3>3. CASE k # P /\ k # P - 1
      <4>1. k \in 0..m - 2 /\ k \in 0..m - 1 /\ k < P /\ k + 1 < P /\ k # m - 1 BY <1>0, <2>1, <3>3
      <4>2. Elem(k) = data_head + k /\ After(k) = data_head + (k + 1) BY <4>1 DEF Elem, After
      <4>3. data_head + k + 1 = data_head + (k + 1) BY <2>5
      <4>4. QED BY <2>3, <2>4, <4>1, <4>2, <4>3
    <3>4. QED BY <3>1, <3>2, <3>3
  <2>8. Chain(b, 0)'
    <3>1. \A k, next, active : InQtd(b, k, next, active)' = InQtd(b, k, next, active) BY <2>6 DEF InQtd, Toggle
    <3>2. \A k \in 0..P : (k >= 0) = TRUE BY <1>0
    <3>3. QED BY <2>6, <2>7, <3>1, <3>2 DEF Chain
  <2>9. in_token' = Toggle(b, P + 1)'
    <3>1. Toggle(b, P + 1) = 1 - Toggle(b, P) BY <1>0, ToggleFacts
    <3>2. QED BY <2>1, <2>4, <2>6, <3>1 DEF Toggle
  <2>10. Sync(b, 0, fate)' BY <2>1, <2>4 DEF Sync, Queue, Toggle
  <2>11. InAt(b)' BY <2>1, <2>4, <2>8, <2>9, <2>10 DEF InAt, Idle
  <2>12. QED BY <2>11 DEF InInv
<1>9. CASE link_cmd \/ poll_cmd
  <2>1. /\ pc \in {"link_cmd", "poll_cmd"} /\ pc' \in {"poll_cmd", "link_answer"}
        /\ UNCHANGED <<qtd, cmd_qtd, qtd_count, in_token, inq, inToggle, fate, c>>
        /\ qh' = qh \/ qh' = [qh EXCEPT !["out"].next = cmd_qtd]
    BY <1>9 DEF link_cmd, poll_cmd
  <2>2. h' = h BY <1>0, <2>1
  <2>3. P' = P /\ \A k : Elem(k)' = Elem(k) /\ After(k)' = After(k)
    BY <2>1 DEF P, Elem, After, data_head, status_qtd
  <2>4. in_token = Toggle(b, P + 1) /\ Chain(b, 0) /\ Idle("in") /\ Sync(b, 0, fate) BY <2>1 DEF InAt
  <2>5. Chain(b, 0)' BY <2>1, <2>3, <2>4 DEF Chain, InQtd, Toggle
  <2>6. in_token' = Toggle(b, P + 1)' BY <2>1, <2>3, <2>4 DEF Toggle
  <2>7. InAt(b)' BY <1>1, <2>1, <2>2, <2>4, <2>5, <2>6 DEF InAt, Idle
  <2>8. QED BY <2>7 DEF InInv
<1>10. CASE link_answer
  <2> DEFINE first == IF qtd_count = data_head THEN status_qtd ELSE data_head
  <2>1. /\ pc = "link_answer" /\ pc' = "poll_status"
        /\ UNCHANGED <<qtd, cmd_qtd, qtd_count, in_token, inq, inToggle, fate, c, buf, csw>>
        /\ qh' = [qh EXCEPT !["in"].next = first]
    BY <1>10 DEF link_answer
  <2>2. P' = P /\ \A k : Elem(k)' = Elem(k) /\ After(k)' = After(k)
    BY <2>1 DEF P, Elem, After, data_head, status_qtd
  <2>3. in_token = Toggle(b, P + 1) /\ Chain(b, 0) /\ Idle("in") /\ Sync(b, 0, fate) BY <2>1 DEF InAt
  <2>4. first = Elem(0) /\ first \in Pointers
    <3>1. qtd_count - data_head = P /\ qtd_count \in Nat /\ cmd_qtd \in Qtds /\ \A k \in 0..P : Elem(k) \in Qtds
      BY <2>1, ElemFacts
    <3>2. cmd_qtd \in Nat /\ 0 \in 0..P BY <1>0, <3>1 DEF Qtds
    <3>3. (qtd_count = data_head) <=> ~(0 < P) BY <1>0, <3>1, <3>2 DEF data_head
    <3>4. data_head + 0 = data_head BY <3>2 DEF data_head
    <3>5. first = Elem(0) BY <3>3, <3>4 DEF Elem
    <3>6. QED BY <3>1, <3>2, <3>5 DEF Pointers
  <2> HIDE DEF first
  <2>5. h'.next = first /\ h'.active = h.active /\ h'.halted = h.halted BY <1>0, <2>1, <2>4, LinkFacts
  <2>6. At(b, 0)' BY <1>0, <2>2, <2>3, <2>4, <2>5 DEF At, Idle
  <2>7. Chain(b, 0)' BY <2>1, <2>2, <2>3 DEF Chain, InQtd, Toggle
  <2>8. Stored(0)'
    <3>1. 0 # P' + 1 /\ \A k \in 1..P' : ~(k <= 0) BY <1>0, <2>2
    <3>2. QED BY <3>1 DEF Stored
  <2>9. in_token' = Toggle(b, P + 1)' BY <2>1, <2>2, <2>3 DEF Toggle
  <2>10. 0 \in 0..P' + 1 BY <1>0, <2>2
  <2>11. InAt(b)' BY <1>1, <2>1, <2>3, <2>6, <2>7, <2>8, <2>9, <2>10 DEF InAt
  <2>12. QED BY <2>11 DEF InInv
<1>11. CASE poll_status
  <2>1. pc = "poll_status" /\ pc' = "returned" /\ qh' = qh /\ UNCHANGED <<in_token, inq, inToggle, fate, c>>
    BY <1>11 DEF poll_status
  <2>2. PICK d \in 0..1 : /\ Len(inq) = d
                          /\ inToggle = IF d = 0 THEN Toggle(b, P + 1) ELSE 1 - Toggle(b, P + 1)
                          /\ d = 1 => inq[1].packet # STALL
    BY <1>11, Complete
  <2>3. Idle("in") BY <1>11, Complete
  <2>4. in_token = Toggle(b, P + 1) BY <2>1 DEF InAt
  <2>5. Toggle(in_token, 0) = in_token BY <1>0, ToggleFacts
  <2>6. Sync(in_token, 0, "open")'
    <3>1. Queue(d, 0, "open")'
      <4>1. Len(<<>>) = 0 /\ d = d + 0 - 0 OBVIOUS
      <4>2. QED BY <2>1, <2>2, <4>1 DEF Queue
    <3>2. QED BY <2>1, <2>2, <2>4, <2>5, <3>1 DEF Sync, Toggle
  <2>7. InAt(in_token)' BY <2>1, <2>3, <2>6 DEF InAt, Idle
  <2>8. QED BY <1>0, <2>1, <2>7 DEF InInv
<1>12. CASE next_command
  <2>1. pc = "returned" /\ pc' = "cmd" /\ qh' = qh /\ fate' = "open" /\ UNCHANGED <<in_token, inq, inToggle>>
    BY <1>12 DEF next_command
  <2>2. b = in_token /\ Idle("in") /\ Sync(b, 0, "open") BY <2>1 DEF InAt
  <2>3. Sync(b, 0, "open")' BY <2>1, <2>2 DEF Sync, Queue, Toggle
  <2>4. InAt(b)' BY <2>1, <2>2, <2>3 DEF InAt, Idle
  <2>5. QED BY <2>4 DEF InInv
<1>13. CASE Fetch
  <2>1. UNCHANGED <<pc, in_token, inq, inToggle, fate, c, cmd_qtd, qtd_count, buf, csw, qtd>> BY <1>13 DEF Fetch
  <2>2. CASE cursor # "in"
    <3>1. h' = h BY <1>0, <1>13, <2>2, FetchFacts
    <3>2. QED BY <1>3, <2>1, <3>1
  <2>3. CASE cursor = "in"
    <3>1. pc = "poll_status" BY <1>13, <2>3, OneAtWork
    <3>2. /\ ~h.active /\ ~h.halted /\ h.next \in Qtds
          /\ h'.active /\ ~h'.halted /\ h'.cur = h.next /\ h'.next = qtd[h.next].next
          /\ h'.toggle = qtd[h.next].toggle /\ h'.slot = qtd[h.next].slot
      BY <1>13, <2>3, FetchFacts
    <3>3. PICK j \in 0..P + 1 : Chain(b, j) /\ At(b, j) /\ Sync(b, j, fate) /\ Stored(j)
      BY <3>1, <3>2 DEF InAt, Stalled
    <3>4. h.next # TERMINATE BY <3>2, SlotTypes DEF Qtds, TERMINATE
    <3>5. j <= P /\ h.next = Elem(j) BY <3>2, <3>3, <3>4 DEF At
    <3>6. j \in 0..P BY <1>0, <3>5
    <3>7. qtd[Elem(j)] = InQtd(b, j, After(j), j >= j) BY <3>3, <3>6 DEF Chain
    <3>8. h'.next = After(j) /\ h'.toggle = Toggle(b, j) /\ h'.slot = (IF j < P THEN j + 1 ELSE 0)
      BY <3>2, <3>5, <3>7 DEF InQtd
    <3>9. P' = P /\ \A k : Elem(k)' = Elem(k) /\ After(k)' = After(k)
      BY <2>1 DEF P, Elem, After, data_head, status_qtd
    <3>10. At(b, j)' BY <3>2, <3>5, <3>8, <3>9 DEF At, Toggle
    <3>11. Chain(b, j)' BY <2>1, <3>3, <3>9 DEF Chain, InQtd, Toggle
    <3>12. Sync(b, j, fate)' BY <2>1, <3>3 DEF Sync, Queue, Toggle
    <3>13. Stored(j)' BY <2>1, <3>3, <3>9 DEF Stored
    <3>14. in_token' = Toggle(b, P + 1)' BY <2>1, <3>1, <3>9 DEF InAt, Toggle
    <3>15. InAt(b)' BY <2>1, <3>1, <3>9, <3>10, <3>11, <3>12, <3>13, <3>14 DEF InAt
    <3>16. QED BY <3>15 DEF InInv
  <2>4. QED BY <2>2, <2>3
<1>14. CASE ExecuteControl
  <2>1. pc = "sleep" /\ UNCHANGED <<pc, in_token, inq, inToggle, fate, c, cmd_qtd, qtd_count, buf, csw>>
    BY <1>14, OneAtWork DEF ExecuteControl
  <2>2. PICK stalled \in BOOLEAN : Retire("control", stalled) BY <1>14, BulkAssumption DEF ExecuteControl
  <2>3. h' = h BY <1>0, <2>2, RetireFacts
  <2>4. QED BY <1>3, <2>1, <2>3
<1>15. CASE ExecuteOut
  <2>1. /\ pc = "poll_cmd" /\ UNCHANGED <<pc, in_token, inToggle, c, cmd_qtd, qtd_count>> /\ qh["out"].active
    BY <1>15, OneAtWork DEF ExecuteOut
  <2>2. qh["out"].cur = cmd_qtd /\ qh["out"].toggle = 1 - out_token
        /\ outToggle = (IF fate = "open" THEN 1 - out_token ELSE out_token)
    BY <2>1 DEF OutInv
  <2>3. in_token = Toggle(b, P + 1) /\ Chain(b, 0) /\ Idle("in") /\ Sync(b, 0, fate) BY <2>1 DEF InAt
  <2>4. P' = P /\ \A k : Elem(k)' = Elem(k) /\ After(k)' = After(k)
    BY <2>1 DEF P, Elem, After, data_head, status_qtd
  <2>5. h' = h /\ \A k \in 0..P : qtd'[Elem(k)] = qtd[Elem(k)]
    <3>1. CASE UNCHANGED <<qh, qtd>> BY <3>1
    <3>2. CASE Retire("out", FALSE)
      <4>1. \A k \in 0..P : Elem(k) \in Qtds /\ Elem(k) # cmd_qtd BY <2>1, ElemFacts
      <4>2. QED BY <1>0, <2>2, <3>2, <4>1, RetireFacts
    <3>3. QED BY <1>15, <3>1, <3>2 DEF ExecuteOut
  <2>6. Chain(b, 0)' BY <2>3, <2>4, <2>5 DEF Chain, InQtd, Toggle
  <2>7. Sync(b, 0, fate)'
    <3>1. CASE qh["out"].toggle # outToggle
      <4>1. UNCHANGED <<fate, inq>> BY <1>15, <3>1 DEF ExecuteOut
      <4>2. QED BY <2>1, <2>3, <4>1 DEF Sync, Queue, Toggle
    <3>2. CASE qh["out"].toggle = outToggle
      <4>1. fate = "open"
        <5>1. 1 - out_token # out_token BY DEF TypesInv
        <5>2. QED BY <2>2, <3>2, <5>1
      <4>2. PICK f \in Ends(c) : fate' = f /\ inq' = inq \o Reply(c, f) BY <1>15, <3>2 DEF ExecuteOut
      <4> DEFINE reply == Reply(c, f)
      <4>3. c \in 1..Len(Commands) /\ f # "open" BY Decided DEF TypesInv
      <4>4. reply \in Seq(Packets) /\ Len(reply) \in Nat BY <4>3, ReplyFacts
      <4>5. PICK d \in 0..1 :
              /\ Queue(d, 0, "open") /\ (d = 1 => inq[1].packet # STALL)
              /\ inToggle = IF d = 0 THEN Toggle(b, 0) ELSE 1 - Toggle(b, 0)
        BY <2>3, <4>1 DEF Sync
      <4>6. Len(inq) = d
        <5>1. Len(<<>>) = 0 /\ d + 0 - 0 = d OBVIOUS
        <5>2. QED BY <4>5, <5>1 DEF Queue
      <4> HIDE DEF reply
      <4>7. /\ Len(inq \o reply) = Len(inq) + Len(reply)
            /\ \A k \in 1..Len(inq) + Len(reply) :
                 (inq \o reply)[k] = IF k <= Len(inq) THEN inq[k] ELSE reply[k - Len(inq)]
        <5>1. inq \in Seq(Packets) /\ reply \in Seq(Packets) BY <4>4 DEF TypesInv
        <5>2. QED BY <5>1, ConcatProperties, Zenon
      <4>8. Len(inq') = d + Len(reply) /\ \A k \in 1..Len(reply) : inq'[d + k] = reply[k]
        <5>1. inq' = inq \o reply BY <4>2 DEF reply
        <5>2. ASSUME NEW k \in 1..Len(reply) PROVE inq'[d + k] = reply[k]
          <6>1. d + k \in 1..Len(inq) + Len(reply) /\ ~(d + k <= Len(inq)) /\ d + k - Len(inq) = k
            BY <4>4, <4>6
          <6>2. QED BY <4>7, <5>1, <6>1
        <5>3. QED BY <4>6, <4>7, <5>1, <5>2
      <4>9. d = 1 => inq'[1].packet # STALL
        <5>1. SUFFICES ASSUME d = 1 PROVE inq'[1] = inq[1] BY <4>5
        <5>2. 1 \in 1..Len(inq) + Len(reply) /\ 1 <= Len(inq) BY <4>4, <4>6, <5>1
        <5>3. QED BY <4>2, <4>7, <5>2 DEF reply
      <4>10. Queue(d, 0, fate)'
        <5>1. Reply(c, fate)' = reply /\ fate' # "open" BY <2>1, <4>2, <4>3 DEF reply
        <5>2. Len(inq') = d + Len(reply) - 0 /\ 0 <= Len(reply) BY <4>4, <4>8
        <5>3. \A k \in 1..Len(reply) - 0 : inq'[d + k] = reply[0 + k] BY <4>4, <4>8
        <5>4. QED BY <5>1, <5>2, <5>3 DEF Queue
      <4>11. inToggle' = IF d = 0 THEN Toggle(b, 0) ELSE 1 - Toggle(b, 0) BY <2>1, <4>5
      <4>12. QED BY <4>9, <4>10, <4>11 DEF Sync, Toggle
    <3>3. QED BY <3>1, <3>2
  <2>8. in_token' = Toggle(b, P + 1)' BY <2>1, <2>3, <2>4 DEF Toggle
  <2>9. InAt(b)' BY <2>1, <2>3, <2>5, <2>6, <2>7, <2>8 DEF InAt, Idle
  <2>10. QED BY <2>9 DEF InInv
<1>16. CASE ExecuteIn
  <2>1. pc = "poll_status" /\ UNCHANGED <<pc, c, in_token>> /\ h.active BY <1>16, OneAtWork DEF ExecuteIn
  <2>2. fate # "open" BY <2>1 DEF OutInv, Sent
  <2>3. PICK j \in 0..P + 1 : Chain(b, j) /\ At(b, j) /\ Sync(b, j, fate) /\ Stored(j)
    BY <2>1 DEF InAt, Stalled
  <2>4. \E i \in 0..P + 1 : (Chain(b, i) /\ At(b, i) /\ Sync(b, i, fate) /\ Stored(i))'
    BY <1>16, <2>1, <2>2, <2>3, Receive
  <2>5. P' = P /\ in_token' = Toggle(b, P + 1)' BY <2>1 DEF InAt, P, Toggle
  <2>6. InAt(b)' BY <2>1, <2>4, <2>5 DEF InAt
  <2>7. QED BY <2>6 DEF InInv
<1>17. CASE ExecuteStall
  <2>1. /\ pc = "poll_status" /\ UNCHANGED <<pc, c, in_token, cmd_qtd, qtd_count, fate>> /\ h.active
        /\ inq # <<>> /\ Head(inq).packet = STALL /\ Retire("in", TRUE)
    BY <1>17, OneAtWork DEF ExecuteStall
  <2>2. PICK j \in 0..P + 1 : Chain(b, j) /\ At(b, j) /\ Sync(b, j, fate)
    BY <2>1 DEF InAt, Stalled
  <2>3. fate # "open" /\ fate \in Ends(c) /\ c \in 1..Len(Commands) BY <2>1 DEF OutInv, Sent, TypesInv
  <2>4. j \in 0..P /\ h.cur = Elem(j) /\ h.next = After(j) BY <1>0, <2>1, <2>2 DEF At
  <2>5. PICK d \in 0..1 : Queue(d, j, fate) /\ (d = 1 => inq[1].packet # STALL) BY <2>2 DEF Sync
  <2>6. Head(inq) = inq[1] /\ Len(inq) \in Nat \ {0} BY <2>1, QueueFacts
  <2>7. d = 0 BY <2>1, <2>5, <2>6
  <2>8. /\ Len(inq) = Len(Reply(c, fate)) - j
        /\ \A k \in 1..Len(Reply(c, fate)) - j : inq[0 + k] = Reply(c, fate)[j + k]
    <3>1. Len(Reply(c, fate)) \in Nat BY <2>3, ReplyFacts
    <3>2. QED BY <2>3, <2>4, <2>5, <2>7, <3>1 DEF Queue
  <2>9. inq[1] = Reply(c, fate)[j + 1] /\ j + 1 \in 1..Len(Reply(c, fate))
    <3>1. Len(Reply(c, fate)) \in Nat BY <2>3, ReplyFacts
    <3>2. 1 \in 1..Len(Reply(c, fate)) - j /\ 0 + 1 = 1 BY <2>4, <2>6, <2>8, <3>1
    <3>3. inq[1] = Reply(c, fate)[j + 1] BY <2>8, <3>2
    <3>4. QED BY <2>4, <3>1, <3>2, <3>3
  <2>10. fate = "stalled" BY <2>1, <2>3, <2>6, <2>9, ReplyFacts
  <2>11. P > 0 /\ Len(Reply(c, fate)) = 1 BY <2>3, <2>10, ReplyFacts DEF P
  <2>12. j = 0 BY <2>4, <2>9, <2>11
  <2>13. Chain(b, 0 + 1)' /\ ~h'.active /\ h'.halted BY <2>1, <2>2, <2>4, <2>12, StoreFacts
  <2>14. Stalled(b)'
    <3>1. P' = P BY <2>1 DEF P
    <3>2. QED BY <2>1, <2>10, <2>11, <2>13, <3>1 DEF Stalled
  <2>15. in_token' = Toggle(b, P + 1)' BY <2>1 DEF InAt, P, Toggle
  <2>16. InAt(b)' BY <2>1, <2>14, <2>15 DEF InAt
  <2>17. QED BY <2>16 DEF InInv
<1>18. CASE MoveOn \/ UNCHANGED vars
  <2>1. UNCHANGED <<pc, in_token, inq, inToggle, fate, c, cmd_qtd, qtd_count, buf, csw, qh, qtd>>
    BY <1>18 DEF MoveOn, vars
  <2>2. QED BY <1>3, <2>1
<1>19. QED BY <1>4, <1>5, <1>6, <1>7, <1>8, <1>9, <1>10, <1>11, <1>12, <1>13, <1>14, <1>15, <1>16, <1>17, <1>18
           DEF Next, Driver, Execute

-----------------------------------------------------------------------------
(* What the caller has when the call returns.                               *)

LEMMA StepAnswer ==
  ASSUME TypesInv, NEW start, Starts(start), PoolInv(start), ControlInv, OutInv, InInv, AnswerInv, [Next]_vars
  PROVE  AnswerInv'
<1> USE DEF Goto, driverVars, deviceVars
<1>1. CASE poll_status
  <2>1. PICK b \in 0..1 : InAt(b) BY DEF InInv
  <2>2. Whole /\ Stored(P + 1) BY <1>1, <2>1, Complete
  <2>3. /\ pc = "poll_status" /\ UNCHANGED <<c, fate, buf>>
        /\ result' = IF dCSWTag = Commands[c].tag THEN 0 ELSE 1
    BY <1>1 DEF poll_status
  <2>4. P \in Nat /\ c \in 1..Len(Commands) /\ fate \in Ends(c)
    <3>1. fate # "open" BY <2>3 DEF OutInv, Sent
    <3>2. QED BY <3>1, Room DEF TypesInv
  <2>5. /\ Reply(c, fate)[P + 1] = Packet(c, 0, fate)
        /\ \A k \in 1..P : Reply(c, fate)[k] = Packet(c, k, fate)
    <3>1. CASE fate \in {"done", "failed"} BY <2>4, <3>1, ReplyFacts DEF P
    <3>2. CASE fate = "short" /\ P = 1
      <4>1. \A k \in 1..1 : k = 1 OBVIOUS
      <4>2. Reply(c, fate)[1] = Packet(c, 1, fate) /\ Reply(c, fate)[2] = Packet(c, 0, fate)
        BY <2>4, <3>2, ReplyFacts
      <4>3. QED BY <3>2, <4>1, <4>2
    <3>3. QED BY <2>2, <3>1, <3>2 DEF Whole
  <2>6. csw = Packet(c, 0, fate) /\ \A k \in 1..P : buf[k] = Packet(c, k, fate)
    <3>1. \A k \in 1..P : k <= P + 1 BY <2>4
    <3>2. QED BY <2>2, <2>5, <3>1 DEF Stored
  <2>7. csw.packet = 0 /\ csw.cmd = c /\ c # 0 BY <2>4, <2>6, CommandTypes DEF Packet
  <2>8. dCSWTag = Commands[c].tag BY <2>7 DEF dCSWTag
  <2>9. result' = 0 /\ Whole' /\ P' = P BY <2>2, <2>3, <2>8 DEF Whole, P
  <2>10. \A k \in 1..P' : buf'[k] = Packet(c, k, fate)' BY <2>3, <2>6, <2>9 DEF Packet
  <2>11. QED BY <2>9, <2>10 DEF AnswerInv
<1>2. ASSUME UNCHANGED <<pc, c, fate, result>>, pc = "returned" => buf' = buf PROVE AnswerInv'
  BY <1>2 DEF AnswerInv, Whole, P, Packet
<1>3. CASE Execute
  <2>1. UNCHANGED <<pc, c, result>> /\ pc \in {"sleep", "poll_cmd", "poll_status"}
    BY <1>3, OneAtWork DEF Execute, ExecuteControl, ExecuteOut, ExecuteIn, ExecuteStall
  <2>2. QED BY <2>1 DEF AnswerInv
<1>4. CASE Fetch \/ MoveOn \/ UNCHANGED vars
  <2>1. UNCHANGED <<pc, c, fate, result, buf>> BY <1>4 DEF Fetch, MoveOn, vars
  <2>2. QED BY <1>2, <2>1
<1>5. CASE Inserting
  <2>1. pc' \in Starting BY <1>5, InsertFacts
  <2>2. QED BY <2>1 DEF AnswerInv, Starting
<1>6. ASSUME \/ usb_control_transaction \/ lun_link \/ lun_sleep \/ init_cmd \/ init_data \/ init_status
             \/ link_cmd \/ poll_cmd \/ link_answer \/ next_command
      PROVE  AnswerInv'
  <2>1. pc' # "returned"
    BY <1>6 DEF usb_control_transaction, lun_link, lun_sleep, init_cmd, init_data, init_status, link_cmd,
                poll_cmd, link_answer, next_command
  <2>2. QED BY <2>1 DEF AnswerInv
<1>7. QED BY <1>1, <1>3, <1>4, <1>5, <1>6 DEF Next, Driver

\* Together they are inductive.
BulkInv(start) == TypesInv /\ PoolInv(start) /\ ControlInv /\ OutInv /\ InInv /\ AnswerInv

LEMMA BulkStep ==
  ASSUME NEW start, Starts(start), BulkInv(start), [Next]_vars
  PROVE  BulkInv(start)'
BY StepTypes, StepPool, StepControl, StepOut, StepIn, StepAnswer DEF BulkInv

LEMMA BulkHolds == ASSUME NEW start, Starts(start) PROVE Spec => []BulkInv(start)
<1>1. Init => AnswerInv BY DEF Init, AnswerInv
<1>2. Init => BulkInv(start) BY <1>1, InitTypes, InitPool, InitControl, InitOut, InitIn DEF BulkInv
<1>3. BulkInv(start) /\ [Next]_vars => BulkInv(start)' BY BulkStep
<1>4. QED BY <1>2, <1>3, PTL DEF Spec

LEMMA SomeStart == \E start : Starts(start)
BY PoolAssumption DEF Starts

\* Every variable has its type: no qTD is taken that is not there, whatever
\* the commands, as long as GET_MAX_LUN's and the setup's fit in the pool one
\* after the other, and each read by itself.
THEOREM BulkTypesHold == Spec => []TypeOK
<1> PICK start : Starts(start) BY SomeStart
<1>1. BulkInv(start) => TypeOK
  <2> SUFFICES ASSUME TypesInv PROVE TypeOK BY DEF BulkInv
  <2>1. fate \in Fates \cup {"open"} BY DEF TypesInv, Ends
  <2>2. \A q \in QHs : qh[q] \in QH BY DEF TypesInv
  <2>3. QED BY <2>1, <2>2 DEF TypeOK, TypesInv, QH
<1>2. QED BY <1>1, BulkHolds, PTL

\* When a call returns, the driver's toggles are the device's, or show that
\* the device will send its status again, for any losses.
THEOREM TogglesAgree == Spec => []TogglesInSync
<1> PICK start : Starts(start) BY SomeStart
<1>1. BulkInv(start) => TogglesInSync
  <2> SUFFICES ASSUME BulkInv(start), pc = "returned"
               PROVE  /\ out_token = outToggle
                      /\ inq = <<>> => in_token = inToggle
                      /\ inq # <<>> => Len(inq) = 1 /\ in_token # inToggle
    BY DEF TogglesInSync
  <2>1. out_token = outToggle BY DEF BulkInv, OutInv, Building
  <2>2. in_token \in 0..1 /\ inq \in Seq(Packets) BY DEF BulkInv, TypesInv
  <2>3. PICK b \in 0..1 : InAt(b) BY DEF BulkInv, InInv
  <2>4. b = in_token /\ Sync(b, 0, "open") BY <2>3 DEF InAt, Building, Linked_in
  <2>5. PICK d \in 0..1 : /\ Queue(d, 0, "open")
                          /\ inToggle = IF d = 0 THEN Toggle(b, 0) ELSE 1 - Toggle(b, 0)
    BY <2>4 DEF Sync
  <2>6. Toggle(b, 0) = in_token BY <2>4, ToggleFacts
  <2>7. Len(inq) = d
    <3>1. Len(<<>>) = 0 /\ d + 0 - 0 = d OBVIOUS
    <3>2. QED BY <2>5, <3>1 DEF Queue
  <2>8. CASE d = 0
    <3>1. inq = <<>> BY <2>2, <2>7, <2>8, EmptySeq
    <3>2. QED BY <2>1, <2>5, <2>6, <2>8, <3>1
  <2>9. CASE d = 1
    <3>1. inq # <<>> /\ Len(inq) = 1 BY <2>7, <2>9
    <3>2. in_token # inToggle BY <2>2, <2>5, <2>6, <2>9
    <3>3. QED BY <2>1, <3>1, <3>2
  <2>10. QED BY <2>8, <2>9
<1>2. QED BY <1>1, BulkHolds, PTL

\* The driver never writes to a qTD the controller has, or is led to next,
\* although it takes the same qTDs again and again and never asks whether
\* GET_MAX_LUN is over.
THEOREM OnlyFreeQtds == Spec => NoLiveQtdRewritten
<1> PICK start : Starts(start) BY SomeStart
<1> DEFINE OnlyFree == Driver => \A t \in Qtds : qtd'[t] # qtd[t] => \A q \in QHs : t \notin Live(q)
<1>1. ASSUME BulkInv(start), Next PROVE OnlyFree
  <2> SUFFICES ASSUME Driver, NEW t \in Qtds, qtd'[t] # qtd[t], NEW q \in QHs PROVE t \notin Live(q)
    OBVIOUS
  <2>1. pc \in {"lun", "cmd", "data"}
    <3>1. ASSUME Inserting PROVE qtd' = qtd
      <4>1. TypesInv BY <1>1 DEF BulkInv
      <4>2. QED BY <3>1, <4>1, InsertFacts
    <3>2. QED BY <3>1 DEF Driver, usb_control_transaction, lun_link, lun_sleep, init_cmd, init_data,
                          init_status, link_cmd, poll_cmd, link_answer, poll_status, next_command, Goto
  <2>2. ~qh["out"].active /\ qh["out"].next = TERMINATE /\ ~qh["in"].active /\ qh["in"].next = TERMINATE
    BY <1>1, <2>1 DEF BulkInv, OutInv, InInv, InAt, Idle
  <2>3. ~qh["control"].active /\ (qh["control"].halted \/ qh["control"].next = TERMINATE)
    BY <1>1, <2>1 DEF BulkInv, ControlInv, Idle, Starting
  <2>4. QED BY <2>2, <2>3 DEF Live, QHs
<1>2. BulkInv(start) /\ [Next]_vars => [OnlyFree]_vars BY <1>1
<1>3. QED BY <1>2, BulkHolds, PTL DEF Spec, NoLiveQtdRewritten

-----------------------------------------------------------------------------
(* The stub's disk as a block reader.                                       *)

asked  == IF pc = "returned" THEN "answered" ELSE "asked"
answer == IF pc = "returned" /\ result = 0 THEN SubSeq(buf, 1, Commands[c].packets) ELSE <<>>

LEMMA Sizes ==
  LET sizes == [n \in DOMAIN Commands |-> Commands[n].packets]
  IN  /\ Len(sizes) = Len(Commands)
      /\ \A n \in 1..Len(Commands) : sizes[n] = Commands[n].packets
<1> DEFINE sizes == [n \in DOMAIN Commands |-> Commands[n].packets]
<1>1. DOMAIN Commands = 1..Len(Commands) /\ Len(Commands) \in Nat BY CommandTypes
<1>2. sizes \in [1..Len(Commands) -> Nat] BY <1>1, CommandTypes
<1>3. Len(sizes) = Len(Commands) BY <1>1, <1>2
<1>4. QED BY <1>1, <1>3

LEMMA Part ==
  ASSUME NEW S, NEW T, NEW f \in [S -> T], NEW n \in Nat, 1..n \subseteq S
  PROVE  SubSeq(f, 1, n) = [k \in 1..n |-> f[k]]
OBVIOUS

LEMMA ReaderStep ==
  ASSUME NEW start, Starts(start), BulkInv(start), [Next]_vars
  PROVE  Reader!ReaderNext \/ UNCHANGED <<c, asked, fate, answer>>
<1> USE DEF Goto, driverVars, deviceVars
<1> DEFINE sizes == [n \in DOMAIN Commands |-> Commands[n].packets]
<1>0. /\ TypesInv /\ PoolInv(start) /\ ControlInv /\ OutInv /\ InInv /\ AnswerInv BY DEF BulkInv
<1>1. c \in 1..Len(Commands) /\ P \in Nat /\ 1..P \subseteq Slots /\ sizes[c] = P /\ Len(sizes) = Len(Commands)
  BY <1>0, Room, Sizes DEF TypesInv, P
<1> HIDE DEF sizes
<1>2. CASE poll_status
  <2>1. TypesInv' /\ AnswerInv' BY BulkStep DEF BulkInv
  <2>2. pc = "poll_status" /\ pc' = "returned" /\ UNCHANGED <<c, fate>> /\ P' = P BY <1>2 DEF poll_status, P
  <2>3. Whole /\ result' = 0 /\ \A k \in 1..P : buf'[k] = Packet(c, k, fate)
    BY <2>1, <2>2 DEF AnswerInv, Whole, Packet
  <2>4. Reader!Whole
    <3>1. fate \in {"done", "failed"} \/ (fate = "short" /\ sizes[c] <= 1) BY <1>1, <2>3 DEF Whole
    <3>2. QED BY <3>1 DEF Reader!Whole, sizes
  <2>5. answer' = Reader!Data(c)
    <3>1. buf' \in [Slots -> Packets] BY <2>1 DEF TypesInv
    <3>2. answer' = SubSeq(buf', 1, P) BY <2>2, <2>3 DEF answer, P
    <3>3. SubSeq(buf', 1, P) = [k \in 1..P |-> buf'[k]] BY <1>1, <3>1, Part
    <3>4. [k \in 1..P |-> buf'[k]] = [k \in 1..sizes[c] |-> [cmd |-> c, packet |-> k, good |-> fate = "done"]]
      BY <1>1, <2>3 DEF Packet
    <3>5. QED BY <3>2, <3>3, <3>4 DEF Reader!Data, sizes
  <2>6. asked = "asked" /\ asked' = "answered" BY <2>2 DEF asked
  <2>7. Reader!Answer BY <2>2, <2>4, <2>5, <2>6 DEF Reader!Answer, asked, answer
  <2>8. QED BY <2>7 DEF Reader!ReaderNext
<1>3. CASE next_command
  <2>1. pc = "returned" /\ pc' = "cmd" /\ c < Len(Commands) /\ c' = c + 1 /\ fate' = "open"
    BY <1>3 DEF next_command
  <2>2. asked = "answered" /\ asked' = "asked" /\ answer' = <<>> BY <2>1 DEF asked, answer
  <2>3. c < Len(sizes) BY <1>1, <2>1
  <2>4. Reader!Ask BY <2>1, <2>2, <2>3 DEF Reader!Ask, asked, answer, sizes
  <2>5. QED BY <2>4 DEF Reader!ReaderNext
<1>4. CASE ExecuteOut
  <2>1. pc = "poll_cmd" /\ pc' = pc /\ UNCHANGED c /\ qh["out"].active BY <1>0, <1>4, OneAtWork DEF ExecuteOut
  <2>2. asked = "asked" /\ UNCHANGED asked /\ answer = <<>> /\ UNCHANGED answer BY <2>1 DEF asked, answer
  <2>3. CASE qh["out"].toggle # outToggle
    <3>1. UNCHANGED fate BY <1>4, <2>3 DEF ExecuteOut
    <3>2. QED BY <2>1, <2>2, <3>1
  <2>4. CASE qh["out"].toggle = outToggle
    <3>1. fate = "open"
      <4>1. 1 - out_token # out_token BY <1>0 DEF TypesInv
      <4>2. qh["out"].toggle = 1 - out_token /\ outToggle = (IF fate = "open" THEN 1 - out_token ELSE out_token)
        BY <1>0, <2>1 DEF OutInv
      <4>3. QED BY <2>4, <4>1, <4>2
    <3>2. fate' \in Ends(c) BY <1>4, <2>4 DEF ExecuteOut
    <3>3. fate' \in Fates /\ (P = 0 => fate' \in {"done", "failed"}) BY <1>1, <3>2 DEF Ends, P
    <3>4. sizes[c] = 0 => fate' \in {"done", "failed"} BY <1>1, <3>3
    <3>5. Reader!CarryOut BY <2>1, <2>2, <3>1, <3>3, <3>4 DEF Reader!CarryOut, asked, answer, sizes
    <3>6. QED BY <3>5 DEF Reader!ReaderNext
  <2>5. QED BY <2>3, <2>4
<1>5. ASSUME UNCHANGED <<c, fate>>, pc # "returned", pc' # "returned"
      PROVE  UNCHANGED <<c, asked, fate, answer>>
  BY <1>5 DEF asked, answer
<1>6. CASE ExecuteControl \/ ExecuteIn \/ ExecuteStall
  <2>1. UNCHANGED <<pc, c, fate>> /\ pc \in {"sleep", "poll_status"}
    BY <1>0, <1>6, OneAtWork DEF ExecuteControl, ExecuteIn, ExecuteStall
  <2>2. QED BY <1>5, <2>1
<1>7. CASE Fetch \/ MoveOn \/ UNCHANGED vars
  <2>1. UNCHANGED <<pc, c, fate, result, buf>> BY <1>7 DEF Fetch, MoveOn, vars
  <2>2. QED BY <2>1 DEF asked, answer
<1>8. CASE Inserting
  <2>1. pc \in Starting /\ pc' \in Starting /\ UNCHANGED <<c, fate>> BY <1>0, <1>8, InsertFacts
  <2>2. QED BY <1>5, <2>1 DEF Starting
<1>9. CASE \/ usb_control_transaction \/ lun_link \/ lun_sleep \/ init_cmd \/ init_data \/ init_status
           \/ link_cmd \/ poll_cmd \/ link_answer
  <2>1. pc # "returned" /\ pc' # "returned" /\ UNCHANGED <<c, fate>>
    BY <1>9 DEF usb_control_transaction, lun_link, lun_sleep, init_cmd, init_data, init_status, link_cmd,
                poll_cmd, link_answer
  <2>2. QED BY <1>5, <2>1
<1>10. QED BY <1>2, <1>3, <1>4, <1>6, <1>7, <1>8, <1>9 DEF Next, Driver, Execute

\* Every step of the driver, of the controller and of the device is a step of
\* the abstract block reader or none: each call brings the data of its own
\* command, for any commands, any losses and whatever the disk fails.
THEOREM ReadsTheBlocksAskedFor == Spec => Reader!ReaderInit /\ [][Reader!ReaderNext]_(Reader!readerVars)
<1> PICK start : Starts(start) BY SomeStart
<1>1. Init => Reader!ReaderInit BY DEF Init, Reader!ReaderInit
<1>2. BulkInv(start) /\ [Next]_vars => [Reader!ReaderNext]_(Reader!readerVars)
  BY ReaderStep DEF Reader!readerVars, asked, answer
<1>3. QED BY <1>1, <1>2, BulkHolds, PTL DEF Spec

=============================================================================
