----------------------------- MODULE HandleTable ----------------------------
(***************************************************************************)
(* A process's ioHandles: SynchronizedArray (runtime/SynchronizedArray.h)  *)
(* over ManagedArray (generic/ManagedArray.h), used by open, close, read,  *)
(* write and lseek (kernel/syscalls.cc).  access and done bracket the use  *)
(* of an element; remove waits until nobody uses it any more.              *)
(*                                                                         *)
(* The table's lock is only held within an action, except while the array  *)
(* grows.  store writes the element and its check bit without the lock:    *)
(* the check bits are a vector<bool>, so that setting one reads and writes *)
(* the others too.  BasicCondition is a first-in first-out queue, as       *)
(* BlockingSync shows for threads that are not cancelled.  Programs use    *)
(* the handles that open has returned and close has not yet closed.        *)
(***************************************************************************)
EXTENDS Integers, Sequences, FiniteSets

CONSTANTS
  Thread,
  Openers,      \* threads that call open
  Closers,      \* threads that call close
  Access,       \* memory for Access objects
  Std,          \* the objects that the process starts with
  Limit,        \* bound on the capacity
  None, Garbage

ASSUME HandleAssumption ==
  /\ Openers \subseteq Thread /\ Closers \subseteq Thread
  /\ IsFiniteSet(Thread) /\ None \notin Thread
  /\ Std \in Seq(Access) /\ Len(Std) > 0 /\ Limit \in Nat /\ Limit >= Len(Std)
  /\ \A j, k \in DOMAIN Std : Std[j] = Std[k] => j = k
  /\ None \notin Access /\ Garbage \notin Access /\ None # Garbage

VARIABLES
  data,         \* data[i]: field i of the array in use
  capacity, index, freestack, checkbits,
  copy,         \* the array that will replace data, while it grows
  grower,       \* the thread that lets the array grow and holds the lock
  live,         \* Access objects that exist
  users,        \* users[a]: SynchronizedElement::count
  wait,         \* wait[a]: SynchronizedElement::wait
  stage,        \* stage[t]: where thread t is
  fd,           \* fd[t]: its handle
  elem,         \* elem[t]: the object it works with
  ref,          \* ref[t]: remove's reference points into the array in use
  word,         \* word[t]: the check bits that store has read
  given         \* handles that programs may use

htVars == <<data, capacity, index, freestack, checkbits, copy, grower,
            live, users, wait, stage, fd, elem, ref, word, given>>

arrayVars == <<data, capacity, index, freestack, copy, grower>>
Slot == 0 .. Limit - 1
InOpen == {"mark", "marking", "store"}
InClose == {"woken", "delete", "release"}

HtInit ==
  /\ data = [i \in Slot |-> IF i < Len(Std) THEN Std[i + 1] ELSE Garbage]
  /\ capacity = Len(Std) /\ index = Len(Std) /\ freestack = <<>>
  /\ checkbits = 0 .. Len(Std) - 1 /\ given = checkbits
  /\ copy = data /\ grower = None
  /\ live = {Std[k] : k \in DOMAIN Std}
  /\ users = [a \in Access |-> 0]
  /\ wait = [a \in Access |-> <<>>]
  /\ stage = [t \in Thread |-> "user"]
  /\ fd = [t \in Thread |-> 0]
  /\ elem = [t \in Thread |-> None]
  /\ ref = [t \in Thread |-> FALSE]
  /\ word = [t \in Thread |-> {}]

Proceed(t, l) == stage' = [stage EXCEPT ![t] = l]
Unlocked == grower = None
valid(i) == i < index /\ i \in checkbits
Usable(i) == i \in given /\ valid(i)

(***************************************************************************)
(* Mutants.                                                                *)
(***************************************************************************)

(* access admits users although somebody waits to remove the element.      *)
AccessElemAlways(t, i) ==
  /\ stage[t] = "user" /\ Unlocked
  /\ Usable(i) /\ data[i] \in live
  /\ users' = [users EXCEPT ![data[i]] = @ + 1]
  /\ fd' = [fd EXCEPT ![t] = i]
  /\ elem' = [elem EXCEPT ![t] = data[i]]
  /\ Proceed(t, "use")
  /\ UNCHANGED <<arrayVars, checkbits, live, wait, ref, word, given>>

(* close releases the slot although remove has done so.                    *)
ReleaseTwice(t) ==
  /\ stage[t] = "release" /\ Unlocked
  /\ freestack' = <<fd[t], fd[t]>> \o freestack
  /\ given' = given \ {fd[t]}
  /\ Proceed(t, "user")
  /\ UNCHANGED <<data, capacity, index, copy, grower, checkbits, live, users, wait, fd, elem, ref, word>>

-----------------------------------------------------------------------------
(* open: a new object, and a slot from the free stack or from the end of   *)
(* the array.                                                              *)
Open(t, a) ==
  /\ stage[t] = "user" /\ t \in Openers /\ Unlocked
  /\ a \notin live
  /\ \/ freestack # <<>> /\ UNCHANGED index
     \/ freestack = <<>> /\ index < capacity /\ index' = index + 1
  /\ fd' = [fd EXCEPT ![t] = IF freestack # <<>> THEN Head(freestack) ELSE index]
  /\ freestack' = IF freestack # <<>> THEN Tail(freestack) ELSE <<>>
  /\ live' = live \cup {a}
  /\ users' = [users EXCEPT ![a] = 0]
  /\ wait' = [wait EXCEPT ![a] = <<>>]
  /\ elem' = [elem EXCEPT ![t] = a]
  /\ Proceed(t, "mark")
  /\ UNCHANGED <<data, capacity, copy, grower, checkbits, ref, word, given>>

Copy == [i \in Slot |-> IF i < capacity THEN data[i] ELSE Garbage]

(* open with a full array: it is copied, under the lock, ...               *)
OpenGrow(t) ==
  /\ stage[t] = "user" /\ t \in Openers /\ Unlocked
  /\ freestack = <<>> /\ index = capacity /\ 2 * capacity <= Limit
  /\ Access # live
  /\ copy' = Copy
  /\ grower' = t
  /\ Proceed(t, "grow")
  /\ UNCHANGED <<data, capacity, index, freestack, checkbits, live, users, wait, fd, elem, ref, word, given>>

(* ... and then replaced by its copy; references into it are stale now.    *)
Grown(t, a) ==
  /\ stage[t] = "grow" /\ a \notin live
  /\ data' = copy /\ copy' = [i \in Slot |-> Garbage]
  /\ capacity' = 2 * capacity
  /\ ref' = [u \in Thread |-> FALSE]
  /\ grower' = None
  /\ fd' = [fd EXCEPT ![t] = index] /\ index' = index + 1
  /\ live' = live \cup {a}
  /\ users' = [users EXCEPT ![a] = 0]
  /\ wait' = [wait EXCEPT ![a] = <<>>]
  /\ elem' = [elem EXCEPT ![t] = a]
  /\ Proceed(t, "mark")
  /\ UNCHANGED <<freestack, checkbits, word, given>>

(* The rest of store, without the lock: the check bit, ...                 *)
MarkRead(t) ==
  /\ stage[t] = "mark"
  /\ word' = [word EXCEPT ![t] = checkbits]
  /\ Proceed(t, "marking")
  /\ UNCHANGED <<arrayVars, checkbits, live, users, wait, fd, elem, ref, given>>

MarkWrite(t) ==
  /\ stage[t] = "marking"
  /\ checkbits' = word[t] \cup {fd[t]}
  /\ word' = [word EXCEPT ![t] = {}]
  /\ Proceed(t, "store")
  /\ UNCHANGED <<arrayVars, live, users, wait, fd, elem, ref, given>>

(* ... the element, and the return to the program.                         *)
Store(t) ==
  /\ stage[t] = "store"
  /\ data' = [data EXCEPT ![fd[t]] = elem[t]]
  /\ given' = given \cup {fd[t]}
  /\ elem' = [elem EXCEPT ![t] = None]
  /\ Proceed(t, "user")
  /\ UNCHANGED <<capacity, index, freestack, checkbits, copy, grower, live, users, wait, fd, ref, word>>

(* access at the start of read, write and lseek; nullptr, and thus EBADF,  *)
(* for a handle that is not valid or that somebody waits to remove.        *)
AccessElem(t, i) ==
  /\ stage[t] = "user" /\ Unlocked
  /\ Usable(i) /\ data[i] \in live /\ wait[data[i]] = <<>>
  /\ users' = [users EXCEPT ![data[i]] = @ + 1]
  /\ fd' = [fd EXCEPT ![t] = i]
  /\ elem' = [elem EXCEPT ![t] = data[i]]
  /\ Proceed(t, "use")
  /\ UNCHANGED <<arrayVars, checkbits, live, wait, ref, word, given>>

(* done at their end: the last one lets the thread that waits go on.       *)
Done(t) ==
  LET a == data[fd[t]]
      last == users[a] = 1 /\ wait[a] # <<>>
  IN
  /\ stage[t] = "use" /\ Unlocked
  /\ users' = [users EXCEPT ![a] = @ - 1]
  /\ IF last
       THEN /\ checkbits' = checkbits \ {fd[t]}
            /\ wait' = [wait EXCEPT ![a] = Tail(@)]
            /\ stage' = [stage EXCEPT ![t] = "user", ![Head(wait[a])] = "woken"]
       ELSE Proceed(t, "user") /\ UNCHANGED <<checkbits, wait>>
  /\ elem' = [elem EXCEPT ![t] = None]
  /\ UNCHANGED <<arrayVars, live, fd, ref, word, given>>

(* remove in close: either nobody uses the object, ...                     *)
RemoveHandle(t, i) ==
  /\ stage[t] = "user" /\ t \in Closers /\ Unlocked
  /\ Usable(i) /\ data[i] \in live /\ users[data[i]] = 0
  /\ fd' = [fd EXCEPT ![t] = i]
  /\ elem' = [elem EXCEPT ![t] = data[i]]
  /\ checkbits' = checkbits \ {i}
  /\ Proceed(t, "delete")
  /\ UNCHANGED <<arrayVars, live, users, wait, ref, word, given>>

(* ... or close waits, with a reference to the field of the array.         *)
RemoveWait(t, i) ==
  /\ stage[t] = "user" /\ t \in Closers /\ Unlocked
  /\ Usable(i) /\ data[i] \in live /\ users[data[i]] > 0
  /\ fd' = [fd EXCEPT ![t] = i]
  /\ wait' = [wait EXCEPT ![data[i]] = Append(@, t)]
  /\ ref' = [ref EXCEPT ![t] = TRUE]
  /\ Proceed(t, "wait")
  /\ UNCHANGED <<arrayVars, checkbits, live, users, elem, word, given>>

(* After the wait remove returns what the reference gives.                 *)
RemoveWoken(t) ==
  /\ stage[t] = "woken"
  /\ elem' = [elem EXCEPT ![t] = IF ref[t] THEN data[fd[t]] ELSE Garbage]
  /\ ref' = [ref EXCEPT ![t] = FALSE]
  /\ Proceed(t, "delete")
  /\ UNCHANGED <<arrayVars, checkbits, live, users, wait, fd, word, given>>

(* delete access in close.                                                 *)
Delete(t) ==
  /\ stage[t] = "delete" /\ elem[t] \in live
  /\ live' = live \ {elem[t]}
  /\ elem' = [elem EXCEPT ![t] = None]
  /\ Proceed(t, "release")
  /\ UNCHANGED <<arrayVars, checkbits, users, wait, fd, ref, word, given>>

(* release in close: the slot can be used again.                           *)
Release(t) ==
  /\ stage[t] = "release" /\ Unlocked
  /\ freestack' = <<fd[t]>> \o freestack
  /\ given' = given \ {fd[t]}
  /\ Proceed(t, "user")
  /\ UNCHANGED <<data, capacity, index, copy, grower, checkbits, live, users, wait, fd, elem, ref, word>>

HtNext ==
  \E t \in Thread :
    \/ \E a \in Access : Open(t, a) \/ Grown(t, a)
    \/ OpenGrow(t) \/ MarkRead(t) \/ MarkWrite(t) \/ Store(t)
    \/ \E i \in Slot : AccessElem(t, i) \/ RemoveHandle(t, i) \/ RemoveWait(t, i)
    \/ Done(t) \/ RemoveWoken(t) \/ Delete(t) \/ Release(t)

HtSpec == HtInit /\ [][HtNext]_htVars

(* A thread that is in a call goes on: CPUs and the scheduler serve it.    *)
HtFairness ==
  \A t \in Thread : WF_htVars(MarkRead(t) \/ MarkWrite(t) \/ Store(t) \/ (\E a \in Access : Grown(t, a)) \/ Done(t)
                              \/ RemoveWoken(t) \/ Delete(t) \/ Release(t))

HtFairSpec == HtSpec /\ HtFairness

-----------------------------------------------------------------------------
(* The array's bookkeeping: a slot is in use, on the free stack, or between *)
(* the two in exactly one thread's call of open or close.                  *)
SlotsAccounted ==
  /\ index <= capacity
  /\ \A i \in 0 .. index - 1 :
       LET busy == {t \in Thread : fd[t] = i /\ stage[t] \in InOpen \cup InClose} IN
       (IF i \in checkbits /\ \A t \in busy : stage[t] # "store" THEN 1 ELSE 0)
         + Cardinality({k \in DOMAIN freestack : freestack[k] = i})
         + Cardinality(busy) = 1

(* GENASSERT0(elem) in access, done and remove: a valid field holds the    *)
(* object that has been stored there, which exists, whatever open writes   *)
(* without the lock and whenever the array moves.                          *)
ElemTrue ==
  /\ \A i \in checkbits \cap given : data[i] \in live
  /\ \A t \in Thread : stage[t] = "use" => data[fd[t]] = elem[t]
  /\ \A t \in Thread : stage[t] = "delete" => elem[t] \in live

(* Nobody deletes an object while somebody uses it, and what count says is *)
(* true: it is the number of threads between access and done.              *)
UsersCounted ==
  /\ \A t \in Thread : stage[t] = "use" => elem[t] \in live
  /\ \A a \in live : users[a] = Cardinality({t \in Thread : stage[t] = "use" /\ elem[t] = a})

(* close returns: the last user lets it go on, and users can not delay it  *)
(* for ever because access fails while it waits.                           *)
CloseReturns == \A t \in Thread : stage[t] = "wait" ~> stage[t] = "user"

(* A handle leads to the object it was opened for, nobody deletes an object *)
(* in use, and every slot is in use or free (SynchronizedArray.h).         *)
HandlesSound == SlotsAccounted /\ ElemTrue /\ UsersCounted

=============================================================================
