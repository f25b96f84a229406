--------------------------- MODULE SemaphoreSpec ----------------------------
(***************************************************************************)
(* What a counting semaphore promises, with no queue, lock or thread       *)
(* switch: V adds a token, P takes one or, when it need not wait for ever, *)
(* gives up without taking one.  A thread that may be cancelled can give   *)
(* up any call, or vanish from it with the token it was waiting for.       *)
(***************************************************************************)
EXTENDS Naturals

CONSTANTS Thread, Cancellable, Tokens

VARIABLES
  tokens,   \* tokens that are available
  call      \* the call each thread is in

vars == <<tokens, call>>

Init ==
  /\ tokens = Tokens
  /\ call = [t \in Thread |-> "none"]

Enter(t, c) ==
  /\ call[t] = "none"
  /\ call' = [call EXCEPT ![t] = c]
  /\ UNCHANGED tokens

P(t) ==
  /\ call[t] \in {"P", "tryP"}
  /\ tokens > 0
  /\ tokens' = tokens - 1
  /\ call' = [call EXCEPT ![t] = "none"]

GiveUp(t) ==
  /\ call[t] = "tryP" \/ (call[t] = "P" /\ t \in Cancellable)
  /\ call' = [call EXCEPT ![t] = "none"]
  /\ UNCHANGED tokens

V(t) ==
  /\ call[t] = "V"
  /\ tokens' = tokens + 1
  /\ \E c \in {"posted", "none"} : call' = [call EXCEPT ![t] = c]

Leave(t) ==
  /\ call[t] = "posted"
  /\ call' = [call EXCEPT ![t] = "none"]
  /\ UNCHANGED tokens

Vanish(t) ==
  /\ t \in Cancellable
  /\ call' = [call EXCEPT ![t] = "dead"]
  /\ \/ UNCHANGED tokens
     \/ call[t] \in {"P", "tryP"} /\ tokens > 0 /\ tokens' = tokens - 1

Next == \E t \in Thread :
  \/ \E c \in {"P", "tryP", "V"} : Enter(t, c)
  \/ P(t) \/ GiveUp(t) \/ V(t) \/ Leave(t) \/ Vanish(t)

Spec == Init /\ [][Next]_vars
=============================================================================
