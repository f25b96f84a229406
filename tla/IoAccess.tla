------------------------------- MODULE IoAccess -------------------------------
(***************************************************************************)
(* What a descriptor refers to (world/Access): a file of the kernel's ram   *)
(* file system with an offset that the readers share, and the keyboard      *)
(* queue behind standard input.  Several threads use one descriptor; the    *)
(* handle table keeps it alive meanwhile (HandleTable).                     *)
(*                                                                         *)
(* A file is its length; a read is the interval it copies.  `strayed'       *)
(* records that a program has sought behind the end of the file, or while   *)
(* another call was between its load and its store of the offset.           *)
(***************************************************************************)
EXTENDS Integers, Sequences, FiniteSets, SequencesExt

CONSTANTS
  IoThread,   \* threads that use the descriptor
  FileSize,   \* bytes in the file
  MaxBytes,   \* largest nbyte
  MaxOffset,  \* furthest a program seeks, behind the end of the file
  MaxKeys     \* keys typed in a run

ASSUME AccessAssumption ==
  /\ IoThread # {} /\ FileSize \in Nat \ {0} /\ MaxBytes \in Nat \ {0}
  /\ MaxOffset \in Nat /\ MaxOffset > FileSize /\ MaxKeys \in Nat
  /\ "none" \notin IoThread

NoReader == "none"

VARIABLES
  olock, offset,  \* FileAccess
  io,             \* io[t]: what thread t is doing
  chunks,         \* the intervals read since the last seek
  strayed,        \* a seek has gone behind the end or met another update
  keysTyped, kbq, \* keys typed so far, and those in the keyboard's queue
  got,            \* got[t]: keys in t's buffer
  delivered,      \* all keys stored in buffers so far
  dropped,        \* keys taken from the queue and not stored
  fullReads       \* reads that have filled their buffer

fileVars == <<olock, offset, chunks, strayed>>
keyVars == <<keysTyped, kbq, got, delivered, dropped, fullReads>>
accessVars == <<fileVars, io, keyVars>>

Outside == [op |-> "out", n |-> 0, k |-> 0]

AccessInit ==
  /\ olock = NoReader /\ offset = 0 /\ chunks = <<>> /\ strayed = FALSE
  /\ io = [t \in IoThread |-> Outside]
  /\ keysTyped = 0 /\ kbq = <<>> /\ delivered = {} /\ dropped = {} /\ fullReads = 0
  /\ got = [t \in IoThread |-> <<>>]

Does(t, op) == io[t].op = op
Now(t, op, n, k) == io' = [io EXCEPT ![t] = [op |-> op, n |-> n, k |-> k]]

\* Mutant: readers do not exclude each other.
NoOlock(t) == TRUE

(* olock.acquire(). *)
OlockFree(t) == olock = NoReader

(* read(fildes, buf, nbyte) on a file. *)
ReadBegin(t, n) ==
  /\ Does(t, "out") /\ OlockFree(t)
  /\ olock' = t
  /\ Now(t, "pread", n, 0)
  /\ UNCHANGED <<offset, chunks, strayed, keyVars>>

(* pread: what is left of the file limits nbyte. *)
PreadLen(o, n) == IF o + n > FileSize THEN FileSize - o ELSE n

Pread(t) ==
  /\ Does(t, "pread")
  /\ offset <= FileSize
  /\ LET len == PreadLen(offset, io[t].n)
     IN /\ chunks' = IF len = 0 THEN chunks ELSE Append(chunks, [from |-> offset, len |-> len])
        /\ Now(t, "add", len, 0)
  /\ UNCHANGED <<olock, offset, strayed, keyVars>>

(* Behind the end of the file the length underflows and the copy runs wild: *)
(* the kernel does not get further.                                          *)
PreadWild ==
  /\ \E t \in IoThread : Does(t, "pread")
  /\ offset > FileSize
  /\ UNCHANGED accessVars

(* offset += len is a load and a store. *)
AdvanceLoad(t) ==
  /\ Does(t, "add")
  /\ Now(t, "store", io[t].n, offset)
  /\ UNCHANGED <<fileVars, keyVars>>

AdvanceStore(t) ==
  /\ Does(t, "store")
  /\ offset' = io[t].k + io[t].n
  /\ olock' = NoReader
  /\ Now(t, "out", 0, 0)
  /\ UNCHANGED <<chunks, strayed, keyVars>>

(* lseek, without the lock: SEEK_SET and SEEK_END give an absolute offset,  *)
(* SEEK_CUR loads the current one; a negative result is refused.             *)
LseekFrom(t, base) ==
  /\ Does(t, "out")
  /\ Now(t, "seek", 0, base)
  /\ UNCHANGED <<fileVars, keyVars>>

Updating(t) ==
  \E u \in IoThread : Does(u, "add") \/ Does(u, "store") \/ (u # t /\ Does(u, "seek"))

Lseek(t, o) ==
  /\ Does(t, "seek")
  /\ LET new == io[t].k + o
     IN IF new < 0 THEN UNCHANGED <<offset, chunks, strayed>>
        ELSE /\ offset' = new
             /\ chunks' = <<>>
             /\ strayed' = (strayed \/ new > FileSize \/ Updating(t))
  /\ Now(t, "out", 0, 0)
  /\ UNCHANGED <<olock, keyVars>>

(* Keys arrive; InputAccess::read waits for the first one ... *)
Type ==
  /\ keysTyped < MaxKeys
  /\ keysTyped' = keysTyped + 1
  /\ kbq' = Append(kbq, keysTyped + 1)
  /\ UNCHANGED <<fileVars, io, got, delivered, dropped, fullReads>>

InputBegin(t, n) ==
  /\ Does(t, "out") /\ kbq # <<>>
  /\ IF n = 0 THEN UNCHANGED <<io, kbq>>
     ELSE Now(t, "input", n, Head(kbq)) /\ kbq' = Tail(kbq)
  /\ got' = [got EXCEPT ![t] = <<>>]
  /\ UNCHANGED <<fileVars, keysTyped, delivered, dropped, fullReads>>

(* s[r] = k. *)
StoreKey(t) == Append(got[t], io[t].k)

(* ... and stores it, then takes one more without waiting, even if the      *)
(* buffer is full: that key is dropped.                                      *)
InputNext(t) ==
  /\ Does(t, "input")
  /\ got' = [got EXCEPT ![t] = StoreKey(t)]
  /\ delivered' = delivered \cup ToSet(StoreKey(t))
  /\ IF kbq = <<>>
     THEN Now(t, "out", 0, 0) /\ UNCHANGED <<kbq, dropped, fullReads>>
     ELSE /\ kbq' = Tail(kbq)
          /\ IF Len(got[t]) + 1 < io[t].n
             THEN Now(t, "input", io[t].n, Head(kbq)) /\ UNCHANGED <<dropped, fullReads>>
             ELSE /\ Now(t, "out", 0, 0)
                  /\ dropped' = dropped \cup {Head(kbq)}
                  /\ fullReads' = fullReads + 1
  /\ UNCHANGED <<fileVars, keysTyped>>

AccessNext ==
  \/ Type \/ PreadWild
  \/ \E t \in IoThread :
       \/ Pread(t) \/ AdvanceLoad(t) \/ AdvanceStore(t) \/ InputNext(t)
       \/ \E n \in 0..MaxBytes : ReadBegin(t, n) \/ InputBegin(t, n)
       \/ \E base \in {0, offset, FileSize} : LseekFrom(t, base)
       \/ \E o \in -FileSize..FileSize : io[t].k + o <= MaxOffset /\ Lseek(t, o)

AccessSpec == AccessInit /\ [][AccessNext]_accessVars

-----------------------------------------------------------------------------
(* As long as no seek has strayed, concurrent readers of one                 *)
(* descriptor share the file out between them: the intervals they copy       *)
(* follow each other without gap or overlap, end inside the file, and the    *)
(* offset stays inside it, which pread's subtraction relies on (Access.cc    *)
(* read, pread, lseek).                                                      *)
ReadsTile ==
  ~strayed =>
    /\ offset \in 0..FileSize
    /\ \A i \in DOMAIN chunks : chunks[i].from + chunks[i].len <= FileSize
    /\ \A i \in 1..(Len(chunks) - 1) : chunks[i + 1].from = chunks[i].from + chunks[i].len

(* A key is read by at most one thread, keys reach a reader in the order    *)
(* they were typed, and the only keys that get lost are those that a read    *)
(* takes out when its buffer is full already, one per read (Access.h         *)
(* InputAccess::read).                                                       *)
InHand == {io[t].k : t \in {u \in IoThread : Does(u, "input")}}

KeysAccounted ==
  LET places == <<ToSet(kbq), InHand, delivered, dropped>>
  IN /\ UNION {places[i] : i \in 1..4} = 1..keysTyped
     /\ \A i, j \in 1..4 : i < j => places[i] \cap places[j] = {}
     /\ \A t \in IoThread : \A i \in 1..(Len(got[t]) - 1) : got[t][i] < got[t][i + 1]
     /\ \A t, u \in IoThread : t # u => ToSet(got[t]) \cap ToSet(got[u]) = {}
     /\ Cardinality(dropped) <= fullReads

(* Threads that read one descriptor share a file or the keyboard input     *)
(* between them (Access.cc, Access.h).                                     *)
AccessSound == ReadsTile /\ KeysAccounted

-----------------------------------------------------------------------------
(***************************************************************************)
(* The inductive invariant.                                                *)
(***************************************************************************)
AccessTypeOK ==
  /\ olock \in IoThread \cup {NoReader} /\ offset \in Nat /\ strayed \in BOOLEAN
  /\ chunks \in Seq([from : Nat, len : Nat])
  /\ io \in [IoThread -> [op : {"out", "pread", "add", "store", "seek", "input"}, n : Nat, k : Nat]]
  /\ keysTyped \in Nat /\ kbq \in Seq(Nat) /\ got \in [IoThread -> Seq(Nat)]
  /\ delivered \subseteq Nat /\ dropped \subseteq Nat /\ fullReads \in Nat

(* The reader that has copied and not yet advanced the offset: it is the    *)
(* one that holds olock.                                                     *)
Advancing(t) == Does(t, "add") \/ Does(t, "store")
OlockHeld == \A t \in IoThread : olock = t <=> Does(t, "pread") \/ Advancing(t)

(* The last interval ends where the next one will begin.                    *)
TileEnd(o) == chunks # <<>> => chunks[Len(chunks)].from + chunks[Len(chunks)].len = o

FileInv ==
  ~strayed =>
    /\ ReadsTile
    /\ \A t \in IoThread : Advancing(t) =>
         /\ offset + io[t].n <= FileSize /\ TileEnd(offset + io[t].n)
         /\ Does(t, "store") => io[t].k = offset
    /\ (\A t \in IoThread : ~Advancing(t)) => TileEnd(offset)

(* Keys are taken in the order they were typed, by one thread each.         *)
Taken == InHand \cup delivered \cup dropped

KeysInOrder ==
  /\ ToSet(kbq) \cup Taken = 1..keysTyped
  /\ \A i, j \in DOMAIN kbq : i < j => kbq[i] < kbq[j]
  /\ \A x \in Taken : \A y \in ToSet(kbq) : x < y

KeysApart ==
  /\ InHand \cap delivered = {} /\ InHand \cap dropped = {} /\ delivered \cap dropped = {}
  /\ \A t, u \in IoThread : t # u /\ Does(t, "input") /\ Does(u, "input") => io[t].k # io[u].k
  /\ IsFiniteSet(dropped) /\ Cardinality(dropped) <= fullReads

GotInv ==
  /\ \A t \in IoThread :
       /\ ToSet(got[t]) \subseteq delivered
       /\ Does(t, "input") => \A x \in ToSet(got[t]) : x < io[t].k
       /\ \A i \in 1..(Len(got[t]) - 1) : got[t][i] < got[t][i + 1]
  /\ \A t, u \in IoThread : t # u => ToSet(got[t]) \cap ToSet(got[u]) = {}

AccessInv == AccessTypeOK /\ OlockHeld /\ FileInv /\ KeysInOrder /\ KeysApart /\ GotInv

=============================================================================
