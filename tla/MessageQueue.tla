---------------------------- MODULE MessageQueue ----------------------------
(***************************************************************************)
(* MessageQueue of runtime/SyncQueues.h over the RingBuffer of             *)
(* generic/Buffers.h.  Slots, not the buffer, say who may proceed: a       *)
(* sender that finds a waiting receiver passes it the message's slot       *)
(* instead of adding to recvSlots, and the other way round.  A call that   *)
(* waited takes the lock a second time, so other calls come in between.    *)
(*                                                                         *)
(* internalSend and internalRecv mirror each other; they are written once, *)
(* for the direction d of the call.                                        *)
(***************************************************************************)
EXTENDS BlockingSync

CONSTANTS
  QueueOf,    \* [send |-> sendQueue, recv |-> recvQueue]
  Capacity,   \* buffer.max_size()
  MaxCalls    \* bound: how many calls each thread makes

Dir == {"send", "recv"}
Other(d) == IF d = "send" THEN "recv" ELSE "send"

ASSUME MessageQueueAssumption ==
  /\ QueueOf \in [Dir -> Queue]
  /\ QueueOf["send"] # QueueOf["recv"]
  /\ LockOf[QueueOf["send"]] = LockOf[QueueOf["recv"]]
  /\ Capacity \in Nat \ {0}
  /\ MaxCalls \in Nat
  /\ IsFiniteSet(Thread)

VARIABLES
  next, count, array,   \* RingBuffer
  slots,                \* sendSlots and recvSlots
  call,                 \* the call a thread is in: direction and stage
  elem,                 \* the message it sends, or has received
  calls                 \* how many calls it has made

bufVars == <<next, count, array>>
qvars == <<bufVars, slots, call, elem, calls>>
allVars == <<vars, qvars>>

MqLock == LockOf[QueueOf["send"]]
Limit == {"none", "zero", "some"}    \* the time limit of a call
NoElement == <<Nobody, 0>>
Element == {NoElement} \cup (Thread \X (1 .. MaxCalls))
Idle == [d |-> "none", limit |-> "none", at |-> "idle"]

MqInit ==
  /\ Init
  /\ next = 0
  /\ count = 0
  /\ array = [i \in 0 .. Capacity - 1 |-> NoElement]
  /\ slots = [d \in Dir |-> IF d = "send" THEN Capacity ELSE 0]
  /\ call = [t \in Thread |-> Idle]
  /\ elem = [t \in Thread |-> NoElement]
  /\ calls = [t \in Thread |-> 0]

Reach(t, stage) == call' = [call EXCEPT ![t].at = stage]
Leave(t) == call' = [call EXCEPT ![t] = Idle]

(***************************************************************************)
(* Mutants.                                                                *)
(***************************************************************************)

(* The slot is added although it has been passed to a waiter.              *)
PassedAdds(t, d) ==
  /\ call[t].d = d /\ call[t].at = "pass"
  /\ pc[t] = "run"
  /\ result[t]
  /\ slots' = [slots EXCEPT ![Other(d)] = @ + 1]
  /\ Leave(t)
  /\ UNCHANGED <<vars, bufVars, elem, calls>>

(* recv takes the back of the buffer instead of its front.                 *)
PopBackwards(t) ==
  /\ count > 0
  /\ elem' = [elem EXCEPT ![t] = array[(next + count - 1) % Capacity]]
  /\ count' = count - 1
  /\ UNCHANGED <<next, array>>

-----------------------------------------------------------------------------
(* RingBuffer::push; front followed by pop.  Both assert that there is     *)
(* room, or an element.                                                    *)
Push(t) ==
  /\ count < Capacity
  /\ array' = [array EXCEPT ![(next + count) % Capacity] = elem[t]]
  /\ count' = count + 1
  /\ UNCHANGED <<next, elem>>

Pop(t) ==
  /\ count > 0
  /\ elem' = [elem EXCEPT ![t] = array[next]]
  /\ next' = (next + 1) % Capacity
  /\ count' = count - 1
  /\ UNCHANGED array

(* lock.acquire() at the start of send, trySend, recv and tryRecv.         *)
Enter(t, d, limit) ==
  /\ call[t] = Idle
  /\ calls[t] < MaxCalls
  /\ HoldsNone(t)
  /\ Acquire(t, MqLock)
  /\ call' = [call EXCEPT ![t] = [d |-> d, limit |-> limit, at |-> "start"]]
  /\ calls' = [calls EXCEPT ![t] = @ + 1]
  /\ elem' = IF d = "send" THEN [elem EXCEPT ![t] = <<t, calls'[t]>>] ELSE elem
  /\ UNCHANGED <<bufVars, slots>>

TakeSlot(t, d) ==
  /\ call[t].d = d /\ call[t].at = "start"
  /\ slots[d] > 0
  /\ slots' = [slots EXCEPT ![d] = @ - 1]
  /\ Reach(t, "slot")
  /\ UNCHANGED <<vars, bufVars, elem, calls>>

BlockFor(t, d) ==
  /\ call[t].d = d /\ call[t].at = "start"
  /\ slots[d] = 0
  /\ \/ call[t].limit = "none" /\ Block(t, QueueOf[d], FALSE) /\ Reach(t, "wait")
     \/ call[t].limit = "some" /\ Block(t, QueueOf[d], TRUE) /\ Reach(t, "wait")
     \/ call[t].limit = "zero" /\ BlockNot(t, QueueOf[d]) /\ Leave(t)
  /\ UNCHANGED <<bufVars, slots, elem, calls>>

Interrupted(t, d) ==
  /\ call[t].d = d /\ call[t].at = "wait"
  /\ pc[t] = "run"
  /\ ~ result[t]
  /\ Leave(t)
  /\ UNCHANGED <<vars, bufVars, slots, elem, calls>>

(* block returned true, and with it a slot; the lock must be taken again.  *)
Granted(t, d) ==
  /\ call[t].d = d /\ call[t].at = "wait"
  /\ result[t]
  /\ Acquire(t, MqLock)
  /\ Reach(t, "slot")
  /\ UNCHANGED <<bufVars, slots, elem, calls>>

(* Move the message and look for a waiter on the other side.               *)
Transfer(t, d) ==
  /\ call[t].d = d /\ call[t].at = "slot"
  /\ IF d = "send" THEN Push(t) ELSE Pop(t)
  /\ Resume(t, QueueOf[Other(d)])
  /\ Reach(t, "pass")
  /\ UNCHANGED <<slots, calls>>

Passed(t, d) ==
  /\ call[t].d = d /\ call[t].at = "pass"
  /\ pc[t] = "run"
  /\ result[t]
  /\ Leave(t)
  /\ UNCHANGED <<vars, bufVars, slots, elem, calls>>

NotPassed(t, d) ==
  /\ call[t].d = d /\ call[t].at = "pass"
  /\ ~ result[t]
  /\ slots' = [slots EXCEPT ![Other(d)] = @ + 1]
  /\ Release(t, MqLock)
  /\ Leave(t)
  /\ UNCHANGED <<bufVars, elem, calls>>

(* Process::exit cancels other threads with threadLock held.               *)
CancelBegin(t) ==
  /\ call[t] = Idle
  /\ calls[t] < MaxCalls
  /\ Cancellable # {}
  /\ HoldsNone(t)
  /\ Acquire(t, ThreadLock)
  /\ call' = [call EXCEPT ![t].d = "cancel"]
  /\ calls' = [calls EXCEPT ![t] = @ + 1]
  /\ UNCHANGED <<bufVars, slots, elem>>

CancelOne(t) ==
  /\ call[t].d = "cancel"
  /\ \E v \in Thread : state[v] = "Running" /\ Cancel(t, v)
  /\ UNCHANGED qvars

CancelEnd(t) ==
  /\ call[t].d = "cancel"
  /\ \A v \in Cancellable \ {t} : state[v] # "Running"
  /\ Release(t, ThreadLock)
  /\ Leave(t)
  /\ UNCHANGED <<bufVars, slots, elem, calls>>

ThreadStep(t) ==
  \E d \in Dir :
    \/ TakeSlot(t, d) \/ BlockFor(t, d) \/ Interrupted(t, d) \/ Granted(t, d)
    \/ Transfer(t, d) \/ Passed(t, d) \/ NotPassed(t, d)

CoreStep(t) == Step(t) /\ UNCHANGED qvars

MqNext ==
  \/ ClockStep /\ UNCHANGED qvars
  \/ \E t \in Thread : CoreStep(t) \/ ThreadStep(t)
  \/ \E t \in Thread, d \in Dir, limit \in Limit : Enter(t, d, limit)
  \/ \E t \in Thread : CancelBegin(t) \/ CancelOne(t) \/ CancelEnd(t)

MqSpec == MqInit /\ [][MqNext]_allVars

(* CPUs make progress and the RTC ticks.                                   *)
MqFairSpec ==
  /\ MqSpec
  /\ \A t \in Thread : WF_allVars(ThreadStep(t) \/ CoreStep(t))
  /\ WF_allVars(ClockStep /\ UNCHANGED qvars)

-----------------------------------------------------------------------------
(* A waiter that has been given a slot and has not used it yet.            *)
HasSlot(t, d) ==
  /\ call[t].d = d
  /\ \/ call[t].at = "slot"
     \/ /\ call[t].at = "wait"
        /\ \/ /\ pc[t] \in {"switch", "off", "on"}
              /\ ~ unblockInfo[t]
              /\ ~ info[t].timedOut
              /\ t \notin ToSet(queue[QueueOf[d]])
           \/ pc[t] = "run" /\ result[t]

(* A call that has moved its message and still has to hand on the slot.    *)
Owes(t, d) ==
  /\ call[t].d = Other(d)
  /\ call[t].at = "pass"
  /\ pc[t] = "scan" \/ (pc[t] = "run" /\ ~ result[t])

Slots(d) ==
  slots[d] + Cardinality({t \in Thread : HasSlot(t, d)})
           + Cardinality({t \in Thread : Owes(t, d)})

(* Slots are neither lost nor duplicated by baton passing, by a timeout    *)
(* that races a resume, or by calls that slip in before a resumed waiter   *)
(* has the lock again.  So RingBuffer's assertions hold: there is room for *)
(* every push and an element for every pop.  A thread that is cancelled    *)
(* may take a slot with it; none is ever duplicated.                       *)
SlotsBalance ==
  /\ Slots("recv") <= count /\ Slots("send") <= Capacity - count
  /\ (\A t \in Thread : state[t] = "Running") =>
       Slots("recv") = count /\ Slots("send") = Capacity - count

AbsOf(c) ==
  IF c.at = "pass" THEN "done"
  ELSE CASE c.d = "send" -> IF c.limit = "none" THEN "send" ELSE "trySend"
         [] c.d = "recv" -> IF c.limit = "none" THEN "recv" ELSE "tryRecv"
         [] OTHER -> "none"

absCall == [t \in Thread |-> AbsOf(call[t])]

absChan == [i \in 1 .. count |-> array[(next + i - 1) % Capacity]]

Abs == INSTANCE ChannelSpec WITH chan <- absChan, call <- absCall

(* The ring buffer and the slots implement a bounded FIFO channel.         *)
ImplementsChannel == Abs!Spec

(* A receiver does not wait for ever next to a message nobody else will    *)
(* take, nor a sender next to free room, unless a thread is cancelled (its *)
(* slot is lost with it).                                                  *)
NobodyStuck ==
  [](\A t \in Thread : state[t] = "Running") =>
    \A t \in Thread :
      (call[t].at = "wait") ~>
        (call[t].at # "wait" \/ count = IF call[t].d = "recv" THEN 0 ELSE Capacity)

-----------------------------------------------------------------------------
(***************************************************************************)
(* The inductive invariant, with SlotsBalance and those of the blocking    *)
(* core.                                                                   *)
(***************************************************************************)
MqTypeOK ==
  /\ next \in 0 .. Capacity - 1
  /\ count \in 0 .. Capacity
  /\ array \in [0 .. Capacity - 1 -> Element]
  /\ slots \in [Dir -> Nat]
  /\ call \in [Thread -> [d : Dir \cup {"none", "cancel"}, limit : Limit,
                          at : {"idle", "start", "wait", "slot", "pass"}]]
  /\ elem \in [Thread -> Element]
  /\ calls \in [Thread -> 0 .. MaxCalls]

(* Where a thread is inside the blocking core tells which call it is in.   *)
CallsAt(t) ==
  /\ pc[t] # "sleep"
  /\ pc[t] \in {"timed", "check", "store", "switch", "off", "on"} =>
       call[t].at = "wait" /\ info[t].q = QueueOf[call[t].d]
  /\ pc[t] = "scan" => call[t].at = "pass" /\ scan[t].q = QueueOf[Other(call[t].d)]
  /\ pc[t] = "claim" => call[t].d = "cancel"
  /\ pc[t] \in {"erase", "remove", "wake"} => call[t].at \in {"pass", "idle"}
  /\ call[t].at = "idle" <=> call[t].d \notin Dir
  /\ pc[t] \in {"timed", "check", "store"} \/ unblockInfo[t] => ~ info[t].timedOut

(* The locks a thread may hold; one that has been granted a slot holds     *)
(* none when it takes the queue's lock again.                              *)
MayHold(t, l) ==
  \/ l = MqLock /\ \/ pc[t] \in {"timed", "check", "store", "switch", "scan"}
                   \/ pc[t] = "run" /\ call[t].at \in {"start", "slot"}
                   \/ pc[t] = "run" /\ call[t].at = "pass" /\ ~ result[t]
  \/ l = TimeoutLock /\ pc[t] \in {"check", "store", "switch"} /\ info[t].timed
  \/ l = ThreadLock /\ call[t].d = "cancel"
LocksAt(t) == \A l \in Lock \cup {TimeoutLock} : lock[l] = t => MayHold(t, l)

MqInv == MqTypeOK /\ \A t \in Thread : CallsAt(t) /\ LocksAt(t)

(* Who may find that its wait ended without a slot: only a thread with a   *)
(* time limit or one that may be cancelled.                                *)
Endless(t) == call[t].at = "wait" /\ call[t].limit = "none"
GiveUpInv ==
  /\ \A t \in Thread :
       /\ state[t] = "Cancelled" => t \in Cancellable
       /\ pc[t] \in {"claim", "remove"} \/ (pc[t] = "erase" /\ cause[t] # "event") =>
            victim[t] \in Cancellable
       /\ Endless(t) /\ pc[t] \in {"timed", "check", "store", "switch", "off"} => ~ info[t].timed
       /\ Endless(t) /\ pc[t] \in {"switch", "off", "on"} /\ info[t].timedOut => t \in Cancellable
       /\ Endless(t) /\ pc[t] = "run" /\ ~ result[t] => t \in Cancellable
  /\ pc[Clock] = "remove" => info[victim[Clock]].timed
=============================================================================
