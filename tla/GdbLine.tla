------------------------------ MODULE GdbLine -------------------------------
(***************************************************************************)
(* The remote serial protocol of gdb/Gdb.cc: getpacket, putpacket and what *)
(* handlePacket executes, for the CPU whose turn it is, against a front    *)
(* end that resends and a line that garbles bytes of frames.               *)
(*                                                                         *)
(* A byte sequence is a sequence of tokens: Dollar, the data of a packet   *)
(* as one token, Hash, and the checksum as one token that says which data  *)
(* it was computed from; a garbled token is Noise.  Plus and Minus arrive. *)
(* The front end (external) is gdb: one request at a time, resent on "-"   *)
(* and when nothing happens any more; it inserts a breakpoint only where   *)
(* it has none.                                                            *)
(***************************************************************************)
EXTENDS Integers, Sequences, SequencesExt

CONSTANTS
  Place,      \* addresses of breakpoints
  BufLen,     \* tokens of data that fit into the packet buffer
  MaxAsk,     \* bound: requests of the front end
  MaxNoise    \* bound: garbled tokens

ASSUME GdbLineAssumption == BufLen \in Nat /\ MaxAsk \in Nat /\ MaxNoise \in Nat

VARIABLES
  toStub, toGdb,   \* bytes on the line
  noise,           \* garbled so far
  rx,              \* where the stub is, and its packet buffer
  reply,           \* what putpacket sends
  front,           \* front end: "idle", "sent", "reply"
  issued,          \* requests of the front end, in order
  executed,        \* requests that handlePacket has executed, in order
  Htid,            \* CPU chosen by 'H', or none
  regs,            \* register buffers: number of the request that wrote them
  wanted,          \* the same, as the front end means it
  faultOn,         \* gdbFaultHandlerEnabled
  mem, bpMap       \* what is stored at an address; the opcode saved for it

line == <<toStub, toGdb, noise>>
gdb == <<front, issued, wanted>>
target == <<Htid, regs, faultOn, mem, bpMap>>
lineVars == <<line, gdb, rx, reply, executed, target>>

Me == 0                       \* the reporting CPU
Cpus == {0, 1}
None == -1

Request ==
  [op : {"H"}, arg : Cpus]                  \* choose a CPU for the next packet
    \cup [op : {"G"}, arg : {None}]         \* write registers
    \cup [op : {"g"}, arg : {None}]         \* only read: registers, queries
    \cup [op : {"m"}, arg : {None}]         \* access memory
    \cup [op : {"Z", "z"}, arg : Place]     \* insert, remove a breakpoint
    \cup [op : {"vCont"}, arg : {None}]

(* What a byte or a run of bytes is, and the data it carries.              *)
Token(k) == [is |-> k, of |-> None]
Dollar == Token("$")
Hash == Token("#")
Plus == Token("+")
Minus == Token("-")
Noise == Token("noise")
DataOf(d) == [is |-> "data", of |-> d]
SumOf(d) == [is |-> "sum", of |-> d]
Frame(d) == <<Dollar, DataOf(d), Hash, SumOf(d)>>

LineInit ==
  /\ toStub = <<>> /\ toGdb = <<>> /\ noise = 0
  /\ rx = [at |-> "seek", buf |-> <<>>]
  /\ reply = [op |-> "none", arg |-> None]
  /\ front = "idle" /\ issued = <<>> /\ executed = <<>>
  /\ Htid = None
  /\ regs = [c \in Cpus |-> 0] /\ wanted = [c \in Cpus |-> 0]
  /\ faultOn = FALSE
  /\ mem = [a \in Place |-> "code"]
  /\ bpMap = [a \in Place |-> "none"]

(* Frame(d) on its way, intact or with one token garbled.                  *)
Put(l, d, l2, n2) ==
  \/ l2 = l \o Frame(d) /\ n2 = noise
  \/ /\ noise < MaxNoise /\ n2 = noise + 1
     /\ \E i \in 1 .. 4 : l2 = l \o [Frame(d) EXCEPT ![i] = Noise]

-----------------------------------------------------------------------------
(* Mutants.                                                                *)

KeepHtid(h) == h

-----------------------------------------------------------------------------
(* The front end.                                                          *)

Ask(r) ==
  /\ front = "idle" /\ Len(issued) < MaxAsk
  /\ r.op = "Z" => mem[r.arg] = "code"
  /\ r.op = "z" => mem[r.arg] = "0xcc"
  /\ issued' = Append(issued, r)
  /\ wanted' = IF r.op # "G" THEN wanted
               ELSE [wanted EXCEPT ![IF issued # <<>> /\ Last(issued).op = "H"
                                     THEN Last(issued).arg ELSE Me] = Len(issued) + 1]
  /\ Put(toStub, r, toStub', noise')
  /\ front' = "sent"
  /\ UNCHANGED <<toGdb, rx, reply, executed, target>>

(* An acknowledgement.                                                     *)
FrontAck ==
  /\ front = "sent" /\ toGdb # <<>>
  /\ toGdb' = Tail(toGdb)
  /\ \/ Head(toGdb) = Plus /\ front' = "reply" /\ UNCHANGED <<toStub, noise>>
     \/ Head(toGdb) = Minus /\ Put(toStub, Last(issued), toStub', noise') /\ UNCHANGED front
  /\ UNCHANGED <<issued, wanted, rx, reply, executed, target>>

(* A reply: acknowledged if it arrived intact.                             *)
FrontReply ==
  /\ front = "reply" /\ Len(toGdb) >= 4
  /\ toGdb' = SubSeq(toGdb, 5, Len(toGdb))
  /\ IF SubSeq(toGdb, 1, 4) = Frame(reply)
     THEN toStub' = Append(toStub, Plus) /\ front' = "idle"
     ELSE toStub' = Append(toStub, Minus) /\ UNCHANGED front
  /\ UNCHANGED <<noise, issued, wanted, rx, reply, executed, target>>

(* Nothing moves: the request is sent again.                               *)
FrontTimeout ==
  /\ front = "sent" /\ toStub = <<>> /\ toGdb = <<>>
  /\ rx.at \in {"seek", "data", "sum"}
  /\ Put(toStub, Last(issued), toStub', noise')
  /\ UNCHANGED <<toGdb, front, issued, wanted, rx, reply, executed, target>>

-----------------------------------------------------------------------------
(* getpacket, by byte.                                                     *)

Seek(t) == rx' = [at |-> IF t = Dollar THEN "data" ELSE "seek", buf |-> <<>>] /\ UNCHANGED toGdb

Data(t) ==
  /\ rx' = CASE t = Dollar -> [at |-> "data", buf |-> <<>>]                \* goto retry
             [] t = Hash -> [rx EXCEPT !.at = "sum"]
             [] OTHER   -> [at  |-> IF Len(rx.buf) + 1 < BufLen THEN "data" ELSE "seek",
                            buf |-> Append(rx.buf, t)]
  /\ UNCHANGED toGdb

(* Whatever comes after "#" is taken for the checksum.                     *)
Sum(t) ==
  IF Len(rx.buf) = 1 /\ Head(rx.buf).is = "data" /\ t = SumOf(Head(rx.buf).of)
  THEN rx' = [rx EXCEPT !.at = "exec"] /\ toGdb' = Append(toGdb, Plus)
  ELSE rx' = [at |-> "seek", buf |-> <<>>] /\ toGdb' = Append(toGdb, Minus)

GetPacket ==
  /\ toStub # <<>>
  /\ toStub' = Tail(toStub)
  /\ LET t == Head(toStub) IN
       \/ rx.at = "seek" /\ Seek(t)
       \/ rx.at = "data" /\ Data(t)
       \/ rx.at = "sum" /\ Sum(t)
  /\ UNCHANGED <<noise, gdb, reply, executed, target>>

-----------------------------------------------------------------------------
(* handlePacket.                                                           *)

(* handleSetSoftBreak: the opcode is saved before 0xcc is stored; either   *)
(* access may fault, which leaves the fault handler on.                    *)
SetSoftBreak(a) ==
  /\ bpMap' = [bpMap EXCEPT ![a] = mem[a]]
  /\ mem' = [mem EXCEPT ![a] = "0xcc"]

HandleZ(a) ==
  \/ SetSoftBreak(a) /\ faultOn' = FALSE
  \/ faultOn' = TRUE /\ UNCHANGED <<mem, bpMap>>

(* handleRemoveSoftBreak: the entry of bpMap stays.                        *)
HandleRemove(a) ==
  /\ mem' = [mem EXCEPT ![a] = bpMap[a]]
  /\ faultOn' = FALSE
  /\ UNCHANGED bpMap

(* handleWriteRegisters, of the chosen CPU or of the reporting one.        *)
HandleWriteRegisters ==
  regs' = [regs EXCEPT ![IF Htid # None THEN Htid ELSE Me] = Len(executed) + 1]

(* mem2hex and hex2mem: with may_fault = 0 the handler is off; an access   *)
(* that faults returns before it is switched off.                          *)
HexAccess(mayFault) == faultOn' \in (IF mayFault THEN BOOLEAN ELSE {FALSE})

HandleReadRegisters == HexAccess(FALSE)
HandleMemory == HexAccess(TRUE)

(* The queries read the state of the stub, and some convert it with        *)
(* mem2hex.                                                                *)
HandleQuery == faultOn' \in {faultOn, FALSE}

(* After each packet but 'H': Htid = -2.                                   *)
ResetHtid(h) == None

HandlePacket ==
  /\ rx.at = "exec"
  /\ LET r == Head(rx.buf).of IN
       /\ executed' = Append(executed, r)
       /\ Htid' = IF r.op = "H" THEN r.arg ELSE ResetHtid(Htid)
       /\ \/ r.op \in {"H", "vCont"} /\ UNCHANGED <<regs, faultOn, mem, bpMap>>
          \/ r.op = "g" /\ (HandleReadRegisters \/ HandleQuery) /\ UNCHANGED <<regs, mem, bpMap>>
          \/ r.op = "G" /\ HandleWriteRegisters /\ HexAccess(FALSE) /\ UNCHANGED <<mem, bpMap>>
          \/ r.op = "m" /\ HandleMemory /\ UNCHANGED <<regs, mem, bpMap>>
          \/ r.op = "Z" /\ HandleZ(r.arg) /\ UNCHANGED regs
          \/ r.op = "z" /\ HandleRemove(r.arg) /\ UNCHANGED regs
       /\ reply' = r
       /\ rx' = [rx EXCEPT !.at = IF r.op = "vCont" THEN "kernel" ELSE "send"]
  /\ UNCHANGED <<line, gdb>>

(* The kernel runs until the next exception, whose stop reply answers the  *)
(* vCont packet.                                                           *)
StopReply ==
  /\ rx.at = "kernel"
  /\ faultOn' = FALSE
  /\ rx' = [rx EXCEPT !.at = "send"]
  /\ UNCHANGED <<line, gdb, reply, executed, Htid, regs, mem, bpMap>>

(* putpacket: the frame ...                                                *)
PutPacket ==
  /\ rx.at = "send"
  /\ Put(toGdb, reply, toGdb', noise')
  /\ rx' = [rx EXCEPT !.at = "ack"]
  /\ UNCHANGED <<toStub, gdb, reply, executed, target>>

(* ... again, until "+" is heard.                                          *)
Resend == Put(toGdb, reply, toGdb', noise') /\ UNCHANGED rx

PutAck ==
  /\ rx.at = "ack" /\ toStub # <<>>
  /\ toStub' = Tail(toStub)
  /\ IF Head(toStub) = Plus
     THEN rx' = [at |-> "seek", buf |-> <<>>] /\ UNCHANGED <<toGdb, noise>>
     ELSE Resend
  /\ UNCHANGED <<gdb, reply, executed, target>>

Transport ==
  FrontAck \/ FrontReply \/ FrontTimeout \/ GetPacket \/ HandlePacket \/ StopReply \/ PutPacket \/ PutAck

(* No further request (the bound): the stub waits in getpacket.            *)
LineQuiet == front = "idle" /\ Len(issued) = MaxAsk /\ rx.at = "seek" /\ UNCHANGED lineVars

LineNext == (\E r \in Request : Ask(r)) \/ Transport \/ LineQuiet

(* The line moves, the front end times out, the kernel comes back.         *)
LineFairness == WF_lineVars(Transport)
LineSpec == LineInit /\ [][LineNext]_lineVars /\ LineFairness

-----------------------------------------------------------------------------
(* Over a line that garbles frames, each request is executed exactly once  *)
(* and in order (getpacket lines 83-116, putpacket lines 119-132).         *)
ExactlyOnce ==
  /\ IsPrefix(executed, issued)
  /\ Len(issued) - Len(executed) \in {0, 1}
  /\ front \in {"idle", "reply"} => Len(executed) + (IF rx.at = "exec" THEN 1 ELSE 0) = Len(issued)

(* Register packets reach the CPU that the front end means: the last 'H'   *)
(* for the packet after it, the reporting CPU for all others.              *)
RegistersAsMeant == Len(executed) = Len(issued) => regs = wanted

(* The opcode that a breakpoint replaced can be put back (bpMap).          *)
OpcodesKept == \A a \in Place : mem[a] = "0xcc" => bpMap[a] = "code"

(* Once the line is good again, every request is answered and gdb is idle. *)
Answered == []<>(front = "idle")

(* Line 59: "can activate fault handler for gdb session": when the kernel  *)
(* runs again, its own page faults must not go to mem_fault.               *)
FaultHandlerInSession == rx.at = "kernel" => ~faultOn

(* What gdb asks for is done once although packets are damaged and sent    *)
(* again, with the registers of the thread it means, and breakpoints that  *)
(* are removed leave the code as it was (Gdb.cc getpacket, putpacket).     *)
LineSound == ExactlyOnce /\ RegistersAsMeant /\ OpcodesKept

=============================================================================
