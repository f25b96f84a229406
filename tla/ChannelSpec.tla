---------------------------- MODULE ChannelSpec -----------------------------
(***************************************************************************)
(* What MessageQueue promises: a first-in first-out channel of bounded     *)
(* capacity.  A call of send or recv takes effect at one instant between   *)
(* its start and its return; only the forms with a time limit, and calls   *)
(* of a thread that gets cancelled, may return without an effect.          *)
(***************************************************************************)
EXTENDS Naturals, Sequences

CONSTANTS Thread, Capacity, Element, Cancellable

VARIABLES
  chan,   \* the messages that have been sent and not yet received
  call,   \* the call each thread is in
  elem    \* the message it sends, or has received

chvars == <<chan, call, elem>>

Sends == {"send", "trySend"}
Recvs == {"recv", "tryRecv"}

ChInit ==
  /\ chan = <<>>
  /\ call = [t \in Thread |-> "none"]
  /\ elem \in [Thread -> Element]

Become(t, c) == call' = [call EXCEPT ![t] = c]

Begin(t) ==
  /\ call[t] = "none"
  /\ \E c \in Sends, m \in Element : Become(t, c) /\ elem' = [elem EXCEPT ![t] = m]
  /\ UNCHANGED chan

BeginRecv(t) ==
  /\ call[t] = "none"
  /\ \E c \in Recvs : Become(t, c)
  /\ UNCHANGED <<chan, elem>>

Send(t) ==
  /\ call[t] \in Sends
  /\ Len(chan) < Capacity
  /\ chan' = Append(chan, elem[t])
  /\ Become(t, "done")
  /\ UNCHANGED elem

Recv(t) ==
  /\ call[t] \in Recvs
  /\ chan # <<>>
  /\ chan' = Tail(chan)
  /\ elem' = [elem EXCEPT ![t] = Head(chan)]
  /\ Become(t, "done")

Return(t) ==
  /\ \/ call[t] \in {"done", "trySend", "tryRecv"}
     \/ call[t] \in {"send", "recv"} /\ t \in Cancellable
  /\ Become(t, "none")
  /\ UNCHANGED <<chan, elem>>

ChNext == \E t \in Thread : Begin(t) \/ BeginRecv(t) \/ Send(t) \/ Recv(t) \/ Return(t)

Spec == ChInit /\ [][ChNext]_chvars
=============================================================================
