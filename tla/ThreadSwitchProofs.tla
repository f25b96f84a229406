------------------------- MODULE ThreadSwitchProofs -------------------------
(***************************************************************************)
(* Proofs about ThreadSwitch, for any number of CPUs and threads and any   *)
(* balancing margin: no stack is used by two CPUs, ready threads are       *)
(* linked once and where their scheduler looks for them, a CPU that gives  *)
(* up a thread always finds another, and a destroyed thread is not used.   *)
(* Then about IntrusiveList, the lists that the ready queues are: they     *)
(* stay rings in both directions whatever is inserted and taken off; and   *)
(* about BootMemory, the region sets that memory is kept in until the      *)
(* frame manager has it: each page has one use through all of boot; and    *)
(* about FrameManager itself, over bitmaps that keep their contract: each  *)
(* frame is in one place, and free ones are zeroed.                        *)
(***************************************************************************)
EXTENDS ThreadSwitch, IntrusiveList, BootMemory, FrameManager, SequenceTheorems, FiniteSetTheorems,
        NaturalsInduction, WellFoundedInduction, TLAPS

-----------------------------------------------------------------------------
(* What linking at the end and unlinking the first do to a ready queue.    *)
LEMMA AppendQueue ==
  ASSUME NEW S, NEW s \in Seq(S), NEW v \in S
  PROVE  /\ Append(s, v) \in Seq(S)
         /\ ToSet(Append(s, v)) = ToSet(s) \cup {v}
         /\ IsInjective(s) /\ v \notin ToSet(s) => IsInjective(Append(s, v))
  <1>1. /\ Append(s, v) \in Seq(S)
        /\ Len(Append(s, v)) = Len(s) + 1
        /\ \A i \in 1 .. Len(s) : Append(s, v)[i] = s[i]
        /\ Append(s, v)[Len(s) + 1] = v
    BY AppendProperties
  <1>2. ToSet(Append(s, v)) = ToSet(s) \cup {v}
    BY <1>1 DEF ToSet
  <1>3. IsInjective(s) /\ v \notin ToSet(s) => IsInjective(Append(s, v))
    BY <1>1 DEF IsInjective, ToSet
  <1> QED BY <1>1, <1>2, <1>3

LEMMA TailQueue ==
  ASSUME NEW S, NEW s \in Seq(S), s # <<>>
  PROVE  /\ Head(s) \in S /\ Head(s) \in ToSet(s)
         /\ Tail(s) \in Seq(S)
         /\ IsInjective(s) => IsInjective(Tail(s)) /\ ToSet(Tail(s)) = ToSet(s) \ {Head(s)}
  <1>1. /\ Head(s) = s[1] /\ Head(s) \in S
        /\ Tail(s) \in Seq(S)
        /\ Len(s) \in Nat /\ Len(s) > 0
        /\ Len(Tail(s)) = Len(s) - 1
        /\ \A i \in 1 .. Len(s) - 1 : Tail(s)[i] = s[i + 1]
    BY HeadTailProperties, LenProperties, EmptySeq
  <1>2. DOMAIN s = 1 .. Len(s) /\ DOMAIN Tail(s) = 1 .. Len(s) - 1
    BY <1>1, LenProperties
  <1>3. Head(s) \in ToSet(s)
    BY <1>1, <1>2 DEF ToSet
  <1>4. ASSUME IsInjective(s)
        PROVE  IsInjective(Tail(s)) /\ ToSet(Tail(s)) = ToSet(s) \ {Head(s)}
    <2>1. \A i, j \in 1 .. Len(s) : s[i] = s[j] => i = j
      BY <1>2, <1>4 DEF IsInjective
    <2>2. IsInjective(Tail(s))
      BY <1>1, <1>2, <2>1 DEF IsInjective
    <2>3. \A x : x \in ToSet(Tail(s)) => x \in ToSet(s) \ {Head(s)}
      BY <1>1, <1>2, <2>1 DEF ToSet
    <2>4. \A x : x \in ToSet(s) \ {Head(s)} => x \in ToSet(Tail(s))
      <3> SUFFICES ASSUME NEW x \in ToSet(s), x # Head(s) PROVE x \in ToSet(Tail(s))
        OBVIOUS
      <3>1. PICK i \in 1 .. Len(s) : s[i] = x
        BY <1>2 DEF ToSet
      <3>2. i - 1 \in 1 .. Len(s) - 1 /\ Tail(s)[i - 1] = x
        BY <1>1, <3>1
      <3> QED BY <1>2, <3>2 DEF ToSet
    <2> QED BY <2>2, <2>3, <2>4
  <1> QED BY <1>1, <1>3, <1>4

LEMMA EnqueueEffect ==
  ASSUME TypeOK, NEW c \in CPU, NEW t \in Thread, Enqueue(c, t)
  PROVE  /\ readyQueue' \in [CPU -> [Level -> Seq(Thread)]]
         /\ \A d \in CPU, i \in Level :
              d # c \/ i # Prio[t] => readyQueue'[d][i] = readyQueue[d][i]
         /\ ToSet(readyQueue'[c][Prio[t]]) = ToSet(readyQueue[c][Prio[t]]) \cup {t}
         /\ IsInjective(readyQueue[c][Prio[t]]) /\ t \notin ToSet(readyQueue[c][Prio[t]])
              => IsInjective(readyQueue'[c][Prio[t]])
  <1> DEFINE s == readyQueue[c][Prio[t]]
  <1>1. Prio[t] \in Level /\ s \in Seq(Thread)
    BY ThreadSwitchAssumption DEF TypeOK
  <1>2. Append(s, t) \in Seq(Thread)
    BY <1>1, AppendQueue
  <1>3. readyQueue'[c][Prio[t]] = Append(s, t)
    BY <1>1 DEF TypeOK, Enqueue
  <1>4. readyQueue' \in [CPU -> [Level -> Seq(Thread)]]
    BY <1>1, <1>2 DEF TypeOK, Enqueue
  <1>5. \A d \in CPU, i \in Level :
          d # c \/ i # Prio[t] => readyQueue'[d][i] = readyQueue[d][i]
    BY <1>1 DEF TypeOK, Enqueue
  <1> QED BY <1>1, <1>3, <1>4, <1>5, AppendQueue

LEMMA DequeueEffect ==
  ASSUME TypeOK, NEW c \in CPU, NEW i \in Level, Dequeue(c, i),
         readyQueue[c][i] # <<>>, IsInjective(readyQueue[c][i])
  PROVE  /\ readyQueue' \in [CPU -> [Level -> Seq(Thread)]]
         /\ nextThread' \in [CPU -> Thread \cup {None}]
         /\ nextThread'[c] \in Thread
         /\ nextThread'[c] \in ToSet(readyQueue[c][i])
         /\ \A d \in CPU : d # c => nextThread'[d] = nextThread[d]
         /\ \A d \in CPU, j \in Level :
              d # c \/ j # i => readyQueue'[d][j] = readyQueue[d][j]
         /\ ToSet(readyQueue'[c][i]) = ToSet(readyQueue[c][i]) \ {nextThread'[c]}
         /\ IsInjective(readyQueue'[c][i])
  <1> DEFINE s == readyQueue[c][i]
  <1>1. s \in Seq(Thread)
    BY DEF TypeOK
  <1>2. Head(s) \in Thread /\ Head(s) \in ToSet(s) /\ Tail(s) \in Seq(Thread)
        /\ IsInjective(Tail(s)) /\ ToSet(Tail(s)) = ToSet(s) \ {Head(s)}
    BY <1>1, TailQueue
  <1>3. readyQueue'[c][i] = Tail(s) /\ nextThread'[c] = Head(s)
    BY DEF TypeOK, Dequeue
  <1>4. readyQueue' \in [CPU -> [Level -> Seq(Thread)]]
    BY <1>2 DEF TypeOK, Dequeue
  <1>5. nextThread' \in [CPU -> Thread \cup {None}]
    BY <1>2 DEF TypeOK, Dequeue
  <1>6. \A d \in CPU : d # c => nextThread'[d] = nextThread[d]
    BY DEF TypeOK, Dequeue
  <1>7. \A d \in CPU, j \in Level :
          d # c \/ j # i => readyQueue'[d][j] = readyQueue[d][j]
    BY DEF TypeOK, Dequeue
  <1> QED BY <1>2, <1>3, <1>4, <1>5, <1>6, <1>7

-----------------------------------------------------------------------------
(* What a step leaves alone.                                               *)
Same(c) ==
  /\ at'[c] = at[c] /\ curr'[c] = curr[c] /\ yield'[c] = yield[c]
  /\ nextThread'[c] = nextThread[c] /\ prevThread'[c] = prevThread[c]

Stays(t) ==
  /\ scheduler'[t] = scheduler[t]
  /\ status'[t] \notin {"new", "dead"}
  /\ status[t] = "active" => status'[t] = "active"

Untouched(t) ==
  scheduler'[t] = scheduler[t] /\ status'[t] = status[t] /\ saved'[t] = saved[t]

Alive(c, t) == t \in Thread /\ scheduler[t] = c /\ status[t] \notin {"new", "dead"}

LEMMA CpuFrame ==
  ASSUME SwitchInv, NEW c \in CPU, Same(c), \A t \in Thread : Alive(c, t) => Stays(t)
  PROVE  CpuInv(c)'
  <1>0. TypeOK /\ CpuInv(c)
    BY DEF SwitchInv
  <1>1. curr[c] \in Thread /\ IdleOf[c] \in Thread /\ None \notin Thread
        /\ nextThread[c] \in Thread \cup {None} /\ prevThread[c] \in Thread \cup {None}
    BY <1>0, ThreadSwitchAssumption DEF TypeOK
  <1>2. Alive(c, curr[c]) /\ Alive(c, IdleOf[c])
    BY <1>0, <1>1 DEF CpuInv, Own, Alive
  <1>3. /\ nextThread[c] \in Thread => Alive(c, nextThread[c])
        /\ prevThread[c] \in Thread => Alive(c, prevThread[c])
    BY <1>0 DEF CpuInv, Own, Alive
  <1>4. Stays(curr[c]) /\ Stays(IdleOf[c])
    BY <1>1, <1>2
  <1>5. /\ nextThread[c] \in Thread => Stays(nextThread[c])
        /\ prevThread[c] \in Thread => Stays(prevThread[c])
    BY <1>3
  <1>6. Own(c, curr[c])' /\ Own(c, nextThread[c])' /\ Own(c, prevThread[c])'
    BY <1>0, <1>2, <1>3, <1>4, <1>5 DEF Own, Stays, Same, Alive
  <1> QED BY <1>0, <1>1, <1>4, <1>5, <1>6 DEF CpuInv, Stays, Same, Keeping

LEMMA QueueFrame ==
  ASSUME SwitchInv, NEW c \in CPU, NEW i \in Level, Same(c),
         readyQueue'[c][i] = readyQueue[c][i],
         \A t \in Thread : Alive(c, t) => Stays(t)
  PROVE  QueueInv(c, i)'
  <1>0. QueueInv(c, i) /\ readyQueue[c][i] \in Seq(Thread)
    BY DEF SwitchInv, TypeOK
  <1>1. \A t \in ToSet(readyQueue[c][i]) : t \in Thread
    BY <1>0 DEF ToSet
  <1>2. ASSUME NEW t \in ToSet(readyQueue[c][i]) PROVE Prio[t] = i /\ Linkable(c, t)'
    <2>1. Prio[t] = i /\ Linkable(c, t) /\ t \in Thread
      BY <1>0, <1>1 DEF QueueInv
    <2>2. Stays(t)
      BY <2>1 DEF Linkable, Alive
    <2> QED BY <2>1, <2>2 DEF Linkable, Stays, Same, Keeping
  <1> QED BY <1>0, <1>2 DEF QueueInv

LEMMA ThreadFrame ==
  ASSUME SwitchInv, NEW t \in Thread, Untouched(t), Same(scheduler[t]),
         ToSet(readyQueue[scheduler[t]][Prio[t]]) \subseteq ToSet(readyQueue'[scheduler[t]][Prio[t]])
  PROVE  ThreadInv(t)'
  <1>1. ThreadInv(t)
    BY DEF SwitchInv
  <1>2. saved'[t] <=> t # curr'[scheduler'[t]]
    BY <1>1 DEF ThreadInv, Untouched, Same
  <1>3. status'[t] = "active" => Accounted(scheduler[t], t)
    BY <1>1 DEF ThreadInv, Untouched
  <1>4. Accounted(scheduler[t], t) => Accounted(scheduler[t], t)'
    BY DEF Accounted, Same, Untouched, Keeping
  <1> QED BY <1>2, <1>3, <1>4 DEF ThreadInv, Untouched

(* The threads that a CPU has linked.                                      *)
LEMMA Chained ==
  ASSUME SwitchInv, NEW c \in CPU, NEW i \in Level, NEW t \in ToSet(readyQueue[c][i])
  PROVE  t \in Thread /\ Prio[t] = i /\ Linkable(c, t)
  <1>1. readyQueue[c][i] \in Seq(Thread) /\ QueueInv(c, i)
    BY DEF SwitchInv, TypeOK
  <1> QED BY <1>1 DEF ToSet, QueueInv

-----------------------------------------------------------------------------
(* Yield, Suspend and Terminate choose the next thread: it is linked, so   *)
(* it is not the thread that the CPU runs on, and its registers are saved. *)
LEMMA ChooseStep ==
  ASSUME SwitchInv, TypeOK', NEW c \in CPU, NEW i \in Level,
         at[c] = "run", readyQueue[c][i] # <<>>, Dequeue(c, i),
         UNCHANGED <<curr, prevThread, scheduler, saved>>,
         \A d \in CPU : d # c => at'[d] = at[d] /\ yield'[d] = yield[d],
         \A t \in Thread : t # curr[c] => status'[t] = status[t],
         \/ at'[c] = "switch" /\ yield'[c] /\ status'[curr[c]] = status[curr[c]]
         \/ /\ at'[c] = "unlock" /\ ~ yield'[c] /\ status'[curr[c]] = status[curr[c]]
            /\ curr[c] \notin IdleThread
         \/ /\ at'[c] = "switch" /\ ~ yield'[c] /\ status'[curr[c]] = "finishing"
            /\ curr[c] \notin IdleThread
  PROVE  SwitchInv'
  <1>0. TypeOK /\ CpuInv(c) /\ QueueInv(c, i)
    BY DEF SwitchInv
  <1>1. curr[c] \in Thread /\ IdleOf[c] \in Thread /\ None \notin Thread
        /\ nextThread[c] \in Thread \cup {None} /\ prevThread[c] \in Thread \cup {None}
    BY <1>0, ThreadSwitchAssumption DEF TypeOK
  <1>2. /\ scheduler[curr[c]] = c /\ status[curr[c]] = "active"
        /\ nextThread[c] \notin Thread /\ prevThread[c] \notin Thread
    BY <1>0, <1>1 DEF CpuInv, Own, Keeping
  <1>n. PICK n \in Thread : n = nextThread'[c]
    BY <1>0, DequeueEffect DEF QueueInv
  <1>3. /\ n \in ToSet(readyQueue[c][i])
        /\ \A d \in CPU : d # c => nextThread'[d] = nextThread[d]
        /\ \A d \in CPU, j \in Level : d # c \/ j # i => readyQueue'[d][j] = readyQueue[d][j]
        /\ ToSet(readyQueue'[c][i]) = ToSet(readyQueue[c][i]) \ {n}
        /\ IsInjective(readyQueue'[c][i])
    BY <1>0, <1>n, DequeueEffect DEF QueueInv
  <1>4. Prio[n] = i /\ scheduler[n] = c /\ status[n] = "active" /\ n # curr[c]
    BY <1>0, <1>3, Chained DEF Linkable, Keeping
  <1>5. \A d \in CPU : d # c => Same(d)
    BY <1>3 DEF Same
  <1>6. \A t \in Thread : t # curr[c] => Untouched(t)
    BY DEF Untouched
  <1>7. \A d \in CPU : d # c => \A t \in Thread : Alive(d, t) => Stays(t)
    BY <1>2, <1>6 DEF Alive, Stays, Untouched
  <1>8. ASSUME NEW d \in CPU PROVE CpuInv(d)'
    <2>1. CASE d # c
      BY <1>5, <1>7, <2>1, CpuFrame
    <2>2. CASE d = c
      <3>1. Own(c, curr[c])' /\ Own(c, nextThread[c])' /\ Own(c, prevThread[c])'
        BY <1>1, <1>2, <1>4, <1>n DEF Own
      <3>2. scheduler'[IdleOf[c]] = c /\ status'[IdleOf[c]] = "active"
        BY <1>0, <1>1 DEF CpuInv, IdleThread
      <3> QED BY <1>1, <1>2, <1>4, <1>n, <2>2, <3>1, <3>2 DEF CpuInv, Keeping
    <2> QED BY <2>1, <2>2
  <1>9. ASSUME NEW d \in CPU, NEW j \in Level PROVE QueueInv(d, j)'
    <2>1. CASE d # c
      BY <1>3, <1>5, <1>7, <2>1, QueueFrame
    <2>2. CASE d = c
      <3>1. IsInjective(readyQueue[c][j])
        BY DEF SwitchInv, QueueInv
      <3>2. IsInjective(readyQueue'[c][j])
        BY <1>3, <3>1
      <3>3. ASSUME NEW t \in ToSet(readyQueue'[c][j])
            PROVE  Prio[t] = j /\ Linkable(c, t)'
        <4>1. t \in ToSet(readyQueue[c][j]) /\ (j = i => t # n)
          BY <1>3, <3>3
        <4>2. t \in Thread /\ Prio[t] = j /\ Linkable(c, t)
          BY <4>1, Chained
        <4>3. t # n /\ t # curr[c] /\ t # prevThread[c]
          BY <1>1, <1>2, <1>4, <4>1, <4>2 DEF Linkable, Keeping
        <4> QED BY <1>n, <4>2, <4>3 DEF Linkable
      <3> QED BY <2>2, <3>2, <3>3 DEF QueueInv
    <2> QED BY <2>1, <2>2
  <1>10. ASSUME NEW t \in Thread PROVE ThreadInv(t)'
    <2>0. ThreadInv(t) /\ scheduler[t] \in CPU /\ Prio[t] \in Level
      BY <1>0, ThreadSwitchAssumption DEF SwitchInv, TypeOK
    <2>1. CASE scheduler[t] # c
      <3>1. readyQueue'[scheduler[t]][Prio[t]] = readyQueue[scheduler[t]][Prio[t]]
        BY <1>3, <2>0, <2>1
      <3> QED BY <1>2, <1>5, <1>6, <2>0, <2>1, <3>1, ThreadFrame
    <2>2. CASE scheduler[t] = c
      <3>1. saved'[t] <=> t # curr'[scheduler'[t]]
        BY <2>0 DEF ThreadInv
      <3>2. ASSUME status'[t] = "active" PROVE Accounted(c, t)'
        <4>1. CASE t = curr[c]
          BY <1>0, <1>2, <3>2, <4>1 DEF Accounted, Keeping
        <4>2. CASE t = n
          BY <1>n, <4>2 DEF Accounted
        <4>3. CASE t # curr[c] /\ t # n
          <5>1. Accounted(c, t)
            BY <2>0, <2>2, <3>2, <4>3 DEF ThreadInv
          <5>2. t \in ToSet(readyQueue[c][Prio[t]])
            BY <1>2, <4>3, <5>1 DEF Accounted
          <5>3. t \in ToSet(readyQueue'[c][Prio[t]])
            BY <1>3, <2>0, <4>3, <5>2
          <5> QED BY <5>3 DEF Accounted
        <4> QED BY <4>1, <4>2, <4>3
      <3> QED BY <2>2, <3>1, <3>2 DEF ThreadInv
    <2> QED BY <2>1, <2>2
  <1> QED BY <1>8, <1>9, <1>10 DEF SwitchInv

-----------------------------------------------------------------------------
(* From the unlock on, the thread can be resumed; its CPU does not account *)
(* for it any more.                                                        *)
LEMMA UnlockStep ==
  ASSUME SwitchInv, TypeOK', NEW c \in CPU, Unlock(c)
  PROVE  SwitchInv'
  <1>0. TypeOK /\ CpuInv(c)
    BY DEF SwitchInv
  <1>1. curr[c] \in Thread /\ IdleOf[c] \in Thread /\ None \notin Thread
        /\ nextThread[c] \in Thread \cup {None} /\ prevThread[c] \in Thread \cup {None}
    BY <1>0, ThreadSwitchAssumption DEF TypeOK
  <1>2. /\ at[c] = "unlock" /\ at'[c] = "switch" /\ status'[curr[c]] = "waiting"
        /\ \A d \in CPU : d # c => at'[d] = at[d]
        /\ \A t \in Thread : t # curr[c] => status'[t] = status[t]
        /\ UNCHANGED <<curr, nextThread, prevThread, yield, readyQueue, scheduler, saved>>
    BY <1>0, <1>1 DEF Unlock, Goto, TypeOK
  <1>3. /\ scheduler[curr[c]] = c /\ status[curr[c]] = "active" /\ ~ yield[c]
        /\ nextThread[c] \in Thread /\ prevThread[c] \notin Thread /\ curr[c] \notin IdleThread
    BY <1>0, <1>1, <1>2 DEF CpuInv, Own, Keeping
  <1>5. \A d \in CPU : d # c => Same(d)
    BY <1>2 DEF Same
  <1>6. \A t \in Thread : t # curr[c] => Untouched(t)
    BY <1>2 DEF Untouched
  <1>7. \A d \in CPU : d # c => \A t \in Thread : Alive(d, t) => Stays(t)
    BY <1>3, <1>6 DEF Alive, Stays, Untouched
  <1>8. ASSUME NEW d \in CPU PROVE CpuInv(d)'
    <2>1. CASE d # c
      BY <1>5, <1>7, <2>1, CpuFrame
    <2>2. CASE d = c
      <3>1. Own(c, curr[c])' /\ Own(c, nextThread[c])' /\ Own(c, prevThread[c])'
        BY <1>0, <1>1, <1>2, <1>3 DEF Own, CpuInv
      <3>2. scheduler'[IdleOf[c]] = c /\ status'[IdleOf[c]] = "active"
        BY <1>0, <1>1, <1>2, <1>3 DEF CpuInv, IdleThread
      <3> QED BY <1>0, <1>1, <1>2, <1>3, <2>2, <3>1, <3>2 DEF CpuInv, Keeping
    <2> QED BY <2>1, <2>2
  <1>9. ASSUME NEW d \in CPU, NEW j \in Level PROVE QueueInv(d, j)'
    <2>1. CASE d # c
      BY <1>2, <1>5, <1>7, <2>1, QueueFrame
    <2>2. CASE d = c
      <3>1. IsInjective(readyQueue'[c][j])
        BY <1>2 DEF SwitchInv, QueueInv
      <3>2. ASSUME NEW t \in ToSet(readyQueue[c][j])
            PROVE  Prio[t] = j /\ Linkable(c, t)'
        <4>1. t \in Thread /\ Prio[t] = j /\ Linkable(c, t)
          BY Chained
        <4>2. t # curr[c]
          BY <1>2, <4>1 DEF Linkable, Keeping
        <4> QED BY <1>2, <4>1, <4>2 DEF Linkable, Keeping
      <3> QED BY <1>2, <2>2, <3>1, <3>2 DEF QueueInv
    <2> QED BY <2>1, <2>2
  <1>10. ASSUME NEW t \in Thread PROVE ThreadInv(t)'
    <2>0. ThreadInv(t) /\ scheduler[t] \in CPU
      BY <1>0 DEF SwitchInv, TypeOK
    <2>1. CASE scheduler[t] # c
      BY <1>2, <1>3, <1>5, <1>6, <2>0, <2>1, ThreadFrame
    <2>2. CASE scheduler[t] = c
      <3>1. saved'[t] <=> t # curr'[scheduler'[t]]
        BY <1>2, <2>0 DEF ThreadInv
      <3>2. ASSUME status'[t] = "active" PROVE Accounted(c, t)'
        <4>1. t # curr[c]
          BY <1>2, <3>2
        <4>2. Accounted(c, t)
          BY <1>2, <2>0, <2>2, <3>2, <4>1 DEF ThreadInv
        <4> QED BY <1>2, <4>1, <4>2 DEF Accounted
      <3> QED BY <1>2, <2>2, <3>1, <3>2 DEF ThreadInv
    <2> QED BY <2>1, <2>2
  <1> QED BY <1>8, <1>9, <1>10 DEF SwitchInv

-----------------------------------------------------------------------------
(* The switch itself: the chosen thread is not the one that the CPU leaves,*)
(* so each has its registers in one place only.                            *)
LEMMA StackSwitchStep ==
  ASSUME SwitchInv, TypeOK', NEW c \in CPU, StackSwitch(c)
  PROVE  SwitchInv'
  <1>0. TypeOK /\ CpuInv(c)
    BY DEF SwitchInv
  <1>1. curr[c] \in Thread /\ IdleOf[c] \in Thread /\ None \notin Thread
        /\ nextThread[c] \in Thread \cup {None} /\ prevThread[c] \in Thread \cup {None}
    BY <1>0, ThreadSwitchAssumption DEF TypeOK
  <1>2. at[c] = "switch" /\ UNCHANGED <<yield, readyQueue, scheduler, status>>
    BY DEF StackSwitch
  <1>3. /\ scheduler[curr[c]] = c /\ status[curr[c]] \notin {"new", "dead"}
        /\ nextThread[c] \in Thread /\ scheduler[nextThread[c]] = c
        /\ status[nextThread[c]] = "active"
        /\ yield[c] => status[curr[c]] = "active"
        /\ prevThread[c] \notin Thread /\ curr[c] # nextThread[c]
    BY <1>0, <1>1, <1>2 DEF CpuInv, Own, Keeping
  <1>p. PICK p \in Thread, n \in Thread : p = curr[c] /\ n = nextThread[c] /\ p # n
    BY <1>1, <1>3
  <1>4. /\ at'[c] = "post" /\ curr'[c] = n /\ prevThread'[c] = p /\ nextThread'[c] = None
        /\ saved'[p] = TRUE /\ saved'[n] = FALSE
    BY <1>0, <1>1, <1>3, <1>p DEF StackSwitch, Goto, TypeOK
  <1>5. \A d \in CPU : d # c => Same(d)
    BY <1>0, <1>2 DEF StackSwitch, Goto, TypeOK, Same
  <1>6. \A t \in Thread : t # p /\ t # n => Untouched(t)
    BY <1>0, <1>2, <1>p DEF StackSwitch, TypeOK, Untouched
  <1>7. \A d \in CPU : d # c => \A t \in Thread : Alive(d, t) => Stays(t)
    BY <1>2 DEF Alive, Stays
  <1>8. ASSUME NEW d \in CPU PROVE CpuInv(d)'
    <2>1. CASE d # c
      BY <1>5, <1>7, <2>1, CpuFrame
    <2>2. CASE d = c
      <3>1. Own(c, curr[c])' /\ Own(c, nextThread[c])' /\ Own(c, prevThread[c])'
        BY <1>1, <1>2, <1>3, <1>4, <1>p DEF Own
      <3>2. scheduler'[IdleOf[c]] = c /\ status'[IdleOf[c]] = "active"
        BY <1>0, <1>2 DEF CpuInv
      <3> QED BY <1>1, <1>2, <1>3, <1>4, <1>p, <2>2, <3>1, <3>2 DEF CpuInv, Keeping
    <2> QED BY <2>1, <2>2
  <1>9. ASSUME NEW d \in CPU, NEW j \in Level PROVE QueueInv(d, j)'
    <2>1. CASE d # c
      BY <1>2, <1>5, <1>7, <2>1, QueueFrame
    <2>2. CASE d = c
      <3>1. IsInjective(readyQueue'[c][j])
        BY <1>2 DEF SwitchInv, QueueInv
      <3>2. ASSUME NEW t \in ToSet(readyQueue[c][j])
            PROVE  Prio[t] = j /\ Linkable(c, t)'
        <4>1. t \in Thread /\ Prio[t] = j /\ Linkable(c, t)
          BY Chained
        <4> QED BY <1>1, <1>2, <1>4, <1>p, <4>1 DEF Linkable, Keeping
      <3> QED BY <1>2, <2>2, <3>1, <3>2 DEF QueueInv
    <2> QED BY <2>1, <2>2
  <1>10. ASSUME NEW t \in Thread PROVE ThreadInv(t)'
    <2>0. ThreadInv(t) /\ scheduler[t] \in CPU
      BY <1>0 DEF SwitchInv, TypeOK
    <2>1. CASE scheduler[t] # c
      BY <1>2, <1>3, <1>p, <1>5, <1>6, <2>0, <2>1, ThreadFrame
    <2>2. CASE scheduler[t] = c
      <3>1. saved'[t] <=> t # n
        <4>1. CASE t = p \/ t = n
          BY <1>4, <1>p, <4>1
        <4>2. CASE t # p /\ t # n
          BY <1>6, <1>p, <2>0, <2>2, <4>2 DEF ThreadInv, Untouched
        <4> QED BY <4>1, <4>2
      <3>2. ASSUME status'[t] = "active" PROVE Accounted(c, t)'
        <4>1. Accounted(c, t)
          BY <1>2, <2>0, <2>2, <3>2 DEF ThreadInv
        <4> QED BY <1>1, <1>2, <1>3, <1>4, <1>p, <4>1 DEF Accounted, Keeping
      <3> QED BY <1>2, <1>4, <2>2, <3>1, <3>2 DEF ThreadInv
    <2> QED BY <2>1, <2>2
  <1> QED BY <1>8, <1>9, <1>10 DEF SwitchInv

-----------------------------------------------------------------------------
(* postYield links the thread that has been left, on the CPU's own         *)
(* scheduler or on its peer (target).                                      *)
LEMMA PostYieldStep ==
  ASSUME SwitchInv, TypeOK', NEW c \in CPU, NEW target \in CPU,
         at[c] = "post", yield[c], at'[c] = "run", prevThread'[c] = None,
         \A d \in CPU : d # c => at'[d] = at[d] /\ prevThread'[d] = prevThread[d],
         UNCHANGED <<curr, nextThread, yield, status, saved>>,
         Enqueue(target, prevThread[c]),
         scheduler'[prevThread[c]] = target,
         \A t \in Thread : t # prevThread[c] => scheduler'[t] = scheduler[t],
         target # c => prevThread[c] \notin Pinned
  PROVE  SwitchInv'
  <1>0. TypeOK /\ CpuInv(c)
    BY DEF SwitchInv
  <1>1. curr[c] \in Thread /\ IdleOf[c] \in Thread /\ None \notin Thread
        /\ nextThread[c] \in Thread \cup {None} /\ IdleOf[c] \in Pinned
    BY <1>0, ThreadSwitchAssumption DEF TypeOK
  <1>2. /\ prevThread[c] \in Thread /\ scheduler[prevThread[c]] = c
        /\ status[prevThread[c]] = "active"
        /\ nextThread[c] \notin Thread /\ curr[c] # prevThread[c]
        /\ scheduler[curr[c]] = c /\ status[curr[c]] = "active"
        /\ scheduler[IdleOf[c]] = c /\ status[IdleOf[c]] = "active"
    BY <1>0, <1>1 DEF CpuInv, Own, Keeping
  <1>p. PICK p \in Thread : p = prevThread[c]
    BY <1>2
  <1>q. PICK k \in Level : k = Prio[p]
    BY ThreadSwitchAssumption
  <1>f. ASSUME NEW d \in CPU, NEW j \in Level PROVE p \notin ToSet(readyQueue[d][j])
    <2> SUFFICES ASSUME p \in ToSet(readyQueue[d][j]) PROVE FALSE
      OBVIOUS
    <2>1. Linkable(d, p)
      BY Chained
    <2> QED BY <1>2, <1>p, <2>1 DEF Linkable
  <1>3. /\ \A d \in CPU, j \in Level : d # target \/ j # k => readyQueue'[d][j] = readyQueue[d][j]
        /\ ToSet(readyQueue'[target][k]) = ToSet(readyQueue[target][k]) \cup {p}
        /\ IsInjective(readyQueue'[target][k])
    <2>1. IsInjective(readyQueue[target][k]) /\ p \notin ToSet(readyQueue[target][k])
      BY <1>f DEF SwitchInv, QueueInv
    <2>2. Enqueue(target, p)
      BY <1>p
    <2>3. /\ \A d \in CPU, j \in Level :
               d # target \/ j # Prio[p] => readyQueue'[d][j] = readyQueue[d][j]
          /\ ToSet(readyQueue'[target][Prio[p]]) = ToSet(readyQueue[target][Prio[p]]) \cup {p}
          /\ IsInjective(readyQueue[target][Prio[p]]) /\ p \notin ToSet(readyQueue[target][Prio[p]])
               => IsInjective(readyQueue'[target][Prio[p]])
      BY <1>0, <2>2, EnqueueEffect
    <2> QED BY <1>q, <2>1, <2>3
  <1>5. \A d \in CPU : d # c => Same(d)
    BY DEF Same
  <1>6. \A t \in Thread : t # p => Untouched(t)
    BY <1>p DEF Untouched
  <1>7. \A d \in CPU : d # c => \A t \in Thread : Alive(d, t) => Stays(t)
    BY <1>2, <1>p, <1>6 DEF Alive, Stays, Untouched
  <1>s. \A d \in CPU, j \in Level : \A t \in ToSet(readyQueue[d][j]) : t \in Thread /\ t # p
    BY <1>f, Chained
  <1>8. ASSUME NEW d \in CPU PROVE CpuInv(d)'
    <2>1. CASE d # c
      BY <1>5, <1>7, <2>1, CpuFrame
    <2>2. CASE d = c
      <3>1. Own(c, curr[c])' /\ Own(c, nextThread[c])' /\ Own(c, prevThread[c])'
        BY <1>1, <1>2 DEF Own
      <3>2. scheduler'[IdleOf[c]] = c /\ status'[IdleOf[c]] = "active"
        BY <1>1, <1>2
      <3> QED BY <1>1, <1>2, <2>2, <3>1, <3>2 DEF CpuInv, Keeping
    <2> QED BY <2>1, <2>2
  <1>l. Linkable(target, p)'
    <2>1. CASE target = c
      BY <1>1, <1>2, <1>p, <2>1 DEF Linkable
    <2>2. CASE target # c
      <3>1. CpuInv(target) /\ curr[target] \in Thread
        BY <1>0 DEF SwitchInv, TypeOK
      <3>2. p # curr[target] /\ p # nextThread[target] /\ p # prevThread[target]
        BY <1>2, <1>p, <2>2, <3>1 DEF CpuInv, Own
      <3>3. Same(target)
        BY <1>5, <2>2
      <3> QED BY <1>2, <1>p, <3>2, <3>3 DEF Linkable, Same
    <2> QED BY <2>1, <2>2
  <1>9. ASSUME NEW d \in CPU, NEW j \in Level PROVE QueueInv(d, j)'
    <2>1. IsInjective(readyQueue[d][j])
      BY DEF SwitchInv, QueueInv
    <2>2. IsInjective(readyQueue'[d][j])
      BY <1>3, <2>1
    <2>3. ASSUME NEW t \in ToSet(readyQueue'[d][j])
          PROVE  Prio[t] = j /\ Linkable(d, t)'
      <3>1. CASE t = p
        <4>1. d = target /\ j = k
          BY <1>3, <1>f, <2>3, <3>1
        <4> QED BY <1>l, <1>q, <3>1, <4>1
      <3>2. CASE t # p
        <4>1. t \in ToSet(readyQueue[d][j])
          BY <1>3, <2>3, <3>2
        <4>2. t \in Thread /\ Prio[t] = j /\ Linkable(d, t)
          BY <4>1, Chained
        <4>3. Untouched(t)
          BY <1>6, <3>2, <4>2
        <4>4. CASE d = c
          BY <1>1, <1>2, <4>2, <4>3, <4>4 DEF Linkable, Untouched, Keeping
        <4>5. CASE d # c
          <5>1. Same(d)
            BY <1>5, <4>5
          <5> QED BY <4>2, <4>3, <5>1 DEF Linkable, Untouched, Keeping, Same
        <4> QED BY <4>4, <4>5
      <3> QED BY <3>1, <3>2
    <2> QED BY <2>2, <2>3 DEF QueueInv
  <1>10. ASSUME NEW t \in Thread PROVE ThreadInv(t)'
    <2>0. ThreadInv(t) /\ scheduler[t] \in CPU /\ Prio[t] \in Level
      BY <1>0, ThreadSwitchAssumption DEF SwitchInv, TypeOK
    <2>1. CASE t = p
      <3>1. saved[t]
        BY <1>2, <1>p, <2>0, <2>1 DEF ThreadInv
      <3>2. t # curr[target]
        <4>1. CpuInv(target) /\ curr[target] \in Thread
          BY <1>0 DEF SwitchInv, TypeOK
        <4> QED BY <1>2, <1>p, <2>1, <4>1 DEF CpuInv, Own
      <3>3. t \in ToSet(readyQueue'[target][Prio[t]])
        BY <1>3, <1>q, <2>1
      <3> QED BY <1>p, <2>1, <3>1, <3>2, <3>3 DEF ThreadInv, Accounted
    <2>2. CASE t # p /\ scheduler[t] # c
      <3>1. ToSet(readyQueue[scheduler[t]][Prio[t]]) \subseteq ToSet(readyQueue'[scheduler[t]][Prio[t]])
        BY <1>3, <2>0
      <3> QED BY <1>5, <1>6, <2>0, <2>2, <3>1, ThreadFrame
    <2>3. CASE t # p /\ scheduler[t] = c
      <3>0. Untouched(t)
        BY <1>6, <2>3
      <3>1. saved'[t] <=> t # curr'[scheduler'[t]]
        BY <2>0, <3>0 DEF ThreadInv, Untouched
      <3>2. ASSUME status'[t] = "active" PROVE Accounted(c, t)'
        <4>1. Accounted(c, t)
          BY <2>0, <2>3, <3>0, <3>2 DEF ThreadInv, Untouched
        <4>2. ToSet(readyQueue[c][Prio[t]]) \subseteq ToSet(readyQueue'[c][Prio[t]])
          BY <1>3, <2>0
        <4> QED BY <1>p, <2>3, <4>1, <4>2 DEF Accounted, Keeping
      <3> QED BY <2>3, <3>0, <3>1, <3>2 DEF ThreadInv, Untouched
    <2> QED BY <2>1, <2>2, <2>3
  <1> QED BY <1>8, <1>9, <1>10 DEF SwitchInv

-----------------------------------------------------------------------------
(* postSuspend: the thread that has been left waits, is linked already, or *)
(* is finishing; in the last case nothing refers to it any more.           *)
LEMMA PostSuspendStep ==
  ASSUME SwitchInv, TypeOK', NEW c \in CPU, PostSuspend(c)
  PROVE  SwitchInv'
  <1>0. TypeOK /\ CpuInv(c)
    BY DEF SwitchInv
  <1>1. curr[c] \in Thread /\ IdleOf[c] \in Thread /\ None \notin Thread
        /\ nextThread[c] \in Thread \cup {None}
    BY <1>0, ThreadSwitchAssumption DEF TypeOK
  <1>2. at[c] = "post" /\ ~ yield[c] /\ UNCHANGED <<curr, nextThread, yield, readyQueue, scheduler, saved>>
    BY DEF PostSuspend
  <1>3. /\ prevThread[c] \in Thread /\ scheduler[prevThread[c]] = c
        /\ nextThread[c] \notin Thread /\ curr[c] # prevThread[c]
        /\ scheduler[curr[c]] = c /\ status[curr[c]] = "active"
        /\ scheduler[IdleOf[c]] = c /\ status[IdleOf[c]] = "active"
    BY <1>0, <1>1, <1>2 DEF CpuInv, Own, Keeping
  <1>p. PICK p \in Thread : p = prevThread[c]
    BY <1>3
  <1>4. /\ at'[c] = "run" /\ prevThread'[c] = None
        /\ status[p] # "finishing" => status'[p] = status[p]
        /\ status[p] = "finishing" => status'[p] = "dead"
    BY <1>0, <1>p DEF PostSuspend, Goto, TypeOK
  <1>5. \A d \in CPU : d # c => Same(d)
    BY <1>0, <1>2 DEF PostSuspend, Goto, TypeOK, Same
  <1>6. \A t \in Thread : t # p => Untouched(t)
    BY <1>0, <1>2, <1>p DEF PostSuspend, TypeOK, Untouched
  <1>7. \A d \in CPU : d # c => \A t \in Thread : Alive(d, t) => Stays(t)
    BY <1>3, <1>p, <1>6 DEF Alive, Stays, Untouched
  <1>8. ASSUME NEW d \in CPU PROVE CpuInv(d)'
    <2>1. CASE d # c
      BY <1>5, <1>7, <2>1, CpuFrame
    <2>2. CASE d = c
      <3>0. Untouched(curr[c])
        BY <1>1, <1>3, <1>6, <1>p
      <3>1. Own(c, curr[c])' /\ Own(c, nextThread[c])' /\ Own(c, prevThread[c])'
        BY <1>1, <1>2, <1>3, <1>4, <3>0 DEF Own, Untouched
      <3>2. scheduler'[IdleOf[c]] = c /\ status'[IdleOf[c]] = "active"
        BY <1>1, <1>2, <1>3, <1>4, <1>6 DEF Untouched
      <3> QED BY <1>1, <1>2, <1>3, <1>4, <2>2, <3>0, <3>1, <3>2 DEF CpuInv, Keeping, Untouched
    <2> QED BY <2>1, <2>2
  <1>9. ASSUME NEW d \in CPU, NEW j \in Level PROVE QueueInv(d, j)'
    <2>1. CASE d # c
      BY <1>2, <1>5, <1>7, <2>1, QueueFrame
    <2>2. CASE d = c
      <3>1. IsInjective(readyQueue'[c][j])
        BY <1>2 DEF SwitchInv, QueueInv
      <3>2. ASSUME NEW t \in ToSet(readyQueue[c][j])
            PROVE  Prio[t] = j /\ Linkable(c, t)'
        <4>1. t \in Thread /\ Prio[t] = j /\ Linkable(c, t)
          BY Chained
        <4>2. status'[t] = "active"
          BY <1>4, <1>6, <4>1 DEF Linkable, Untouched
        <4> QED BY <1>1, <1>2, <1>4, <4>1, <4>2 DEF Linkable, Keeping
      <3> QED BY <1>2, <2>2, <3>1, <3>2 DEF QueueInv
    <2> QED BY <2>1, <2>2
  <1>10. ASSUME NEW t \in Thread PROVE ThreadInv(t)'
    <2>0. ThreadInv(t) /\ scheduler[t] \in CPU
      BY <1>0 DEF SwitchInv, TypeOK
    <2>1. CASE scheduler[t] # c
      BY <1>2, <1>3, <1>p, <1>5, <1>6, <2>0, <2>1, ThreadFrame
    <2>2. CASE scheduler[t] = c
      <3>1. saved'[t] <=> t # curr'[scheduler'[t]]
        BY <1>2, <2>0 DEF ThreadInv
      <3>2. ASSUME status'[t] = "active" PROVE Accounted(c, t)'
        <4>1. status[t] = "active"
          BY <1>4, <1>6, <3>2 DEF Untouched
        <4>2. Accounted(c, t)
          BY <2>0, <2>2, <4>1 DEF ThreadInv
        <4> QED BY <1>2, <1>4, <4>2 DEF Accounted, Keeping
      <3> QED BY <1>2, <2>2, <3>1, <3>2 DEF ThreadInv
    <2> QED BY <2>1, <2>2
  <1> QED BY <1>8, <1>9, <1>10 DEF SwitchInv

-----------------------------------------------------------------------------
(* Resume and Start link a thread that waits, or is new, on its scheduler, *)
(* whatever that CPU is doing at the time.                                 *)
LEMMA LinkStep ==
  ASSUME SwitchInv, TypeOK', NEW t \in Thread, NEW target \in CPU,
         UNCHANGED <<switchVars, saved>>,
         status[t] \in {"waiting", "new"}, status'[t] = "active",
         status[t] = "waiting" => scheduler[t] = target,
         scheduler'[t] = target,
         \A u \in Thread : u # t => status'[u] = status[u] /\ scheduler'[u] = scheduler[u],
         Enqueue(target, t)
  PROVE  SwitchInv'
  <1>0. TypeOK /\ CpuInv(target)
    BY DEF SwitchInv
  <1>1. None \notin Thread /\ curr[target] \in Thread /\ scheduler[t] \in CPU
        /\ nextThread[target] \in Thread \cup {None} /\ prevThread[target] \in Thread \cup {None}
    BY <1>0, ThreadSwitchAssumption DEF TypeOK
  <1>2. UNCHANGED <<at, curr, nextThread, prevThread, yield, saved>>
    BY DEF switchVars
  <1>q. PICK k \in Level : k = Prio[t]
    BY ThreadSwitchAssumption
  <1>f. ASSUME NEW d \in CPU, NEW j \in Level PROVE t \notin ToSet(readyQueue[d][j])
    <2> SUFFICES ASSUME t \in ToSet(readyQueue[d][j]) PROVE FALSE
      OBVIOUS
    <2>1. Linkable(d, t)
      BY Chained
    <2> QED BY <2>1 DEF Linkable
  <1>3. /\ \A d \in CPU, j \in Level : d # target \/ j # k => readyQueue'[d][j] = readyQueue[d][j]
        /\ ToSet(readyQueue'[target][k]) = ToSet(readyQueue[target][k]) \cup {t}
        /\ IsInjective(readyQueue'[target][k])
    <2>1. IsInjective(readyQueue[target][k]) /\ t \notin ToSet(readyQueue[target][k])
      BY <1>f DEF SwitchInv, QueueInv
    <2>3. /\ \A d \in CPU, j \in Level :
               d # target \/ j # Prio[t] => readyQueue'[d][j] = readyQueue[d][j]
          /\ ToSet(readyQueue'[target][Prio[t]]) = ToSet(readyQueue[target][Prio[t]]) \cup {t}
          /\ IsInjective(readyQueue[target][Prio[t]]) /\ t \notin ToSet(readyQueue[target][Prio[t]])
               => IsInjective(readyQueue'[target][Prio[t]])
      BY <1>0, EnqueueEffect
    <2> QED BY <1>q, <2>1, <2>3
  <1>5. \A d \in CPU : Same(d)
    BY <1>2 DEF Same
  <1>6. \A u \in Thread : u # t => Untouched(u)
    BY <1>2 DEF Untouched
  <1>7. ASSUME NEW d \in CPU PROVE \A u \in Thread : Alive(d, u) => Stays(u)
    BY <1>6 DEF Alive, Stays, Untouched
  <1>8. ASSUME NEW d \in CPU PROVE CpuInv(d)'
    BY <1>5, <1>7, CpuFrame
  <1>l. Linkable(target, t)'
    <2>1. t # nextThread[target]
      BY <1>0, <1>1 DEF CpuInv
    <2>2. t = curr[target] => ~ Keeping(target)
      BY <1>0, <1>1 DEF CpuInv
    <2>3. t = prevThread[target] => ~ yield[target]
      BY <1>0, <1>1 DEF CpuInv
    <2> QED BY <1>2, <2>1, <2>2, <2>3 DEF Linkable, Keeping
  <1>9. ASSUME NEW d \in CPU, NEW j \in Level PROVE QueueInv(d, j)'
    <2>1. IsInjective(readyQueue[d][j])
      BY DEF SwitchInv, QueueInv
    <2>2. IsInjective(readyQueue'[d][j])
      BY <1>3, <2>1
    <2>3. ASSUME NEW u \in ToSet(readyQueue'[d][j])
          PROVE  Prio[u] = j /\ Linkable(d, u)'
      <3>1. CASE u = t
        <4>1. d = target /\ j = k
          BY <1>3, <1>f, <2>3, <3>1
        <4> QED BY <1>l, <1>q, <3>1, <4>1
      <3>2. CASE u # t
        <4>1. u \in ToSet(readyQueue[d][j])
          BY <1>3, <2>3, <3>2
        <4>2. u \in Thread /\ Prio[u] = j /\ Linkable(d, u)
          BY <4>1, Chained
        <4>3. Untouched(u)
          BY <1>6, <3>2, <4>2
        <4> QED BY <1>2, <4>2, <4>3 DEF Linkable, Untouched, Keeping
      <3> QED BY <3>1, <3>2
    <2> QED BY <2>2, <2>3 DEF QueueInv
  <1>10. ASSUME NEW u \in Thread PROVE ThreadInv(u)'
    <2>0. ThreadInv(u) /\ scheduler[u] \in CPU /\ Prio[u] \in Level
      BY <1>0, ThreadSwitchAssumption DEF SwitchInv, TypeOK
    <2>1. CASE u # t
      <3>1. ToSet(readyQueue[scheduler[u]][Prio[u]]) \subseteq ToSet(readyQueue'[scheduler[u]][Prio[u]])
        BY <1>3, <2>0
      <3> QED BY <1>5, <1>6, <2>0, <2>1, <3>1, ThreadFrame
    <2>2. CASE u = t
      <3>1. saved'[t] <=> t # curr'[target]
        <4>1. CASE status[t] = "waiting"
          BY <1>2, <2>0, <2>2, <4>1 DEF ThreadInv
        <4>2. CASE status[t] = "new"
          <5>1. CpuInv(scheduler[t]) /\ curr[scheduler[t]] \in Thread
            BY <1>0, <1>1 DEF SwitchInv, TypeOK
          <5>2. t # curr[scheduler[t]] /\ t # curr[target]
            BY <1>0, <1>1, <4>2, <5>1 DEF CpuInv, Own
          <5> QED BY <1>2, <2>0, <2>2, <5>2 DEF ThreadInv
        <4> QED BY <4>1, <4>2
      <3>2. t \in ToSet(readyQueue'[target][Prio[t]])
        BY <1>3, <1>q
      <3> QED BY <2>2, <3>1, <3>2 DEF ThreadInv, Accounted
    <2> QED BY <2>1, <2>2
  <1> QED BY <1>8, <1>9, <1>10 DEF SwitchInv

-----------------------------------------------------------------------------
LEMMA TypeStep ==
  ASSUME SwitchInv, [Next]_vars
  PROVE  TypeOK'
  <1>0. TypeOK /\ None \notin Thread /\ Peer \in [CPU -> CPU]
    BY ThreadSwitchAssumption DEF SwitchInv
  <1>1. CASE UNCHANGED vars
    BY <1>0, <1>1 DEF vars, switchVars, TypeOK
  <1>2. ASSUME NEW c \in CPU, NEW i \in Level,
               ReadyAt(scheduler[curr[c]], i, maxPriority) \/ ReadyAt(scheduler[curr[c]], i, idlePriority),
               Dequeue(scheduler[curr[c]], i)
        PROVE  /\ readyQueue' \in [CPU -> [Level -> Seq(Thread)]]
               /\ nextThread' \in [CPU -> Thread \cup {None}]
    <2>1. scheduler[curr[c]] \in CPU
      BY <1>0 DEF TypeOK
    <2>2. readyQueue[scheduler[curr[c]]][i] # <<>>
      BY <1>2 DEF ReadyAt
    <2>3. IsInjective(readyQueue[scheduler[curr[c]]][i])
      BY <2>1 DEF SwitchInv, QueueInv
    <2> QED BY <1>0, <1>2, <2>1, <2>2, <2>3, DequeueEffect
  <1>3. ASSUME NEW c \in CPU, NEW i \in Level, Yield(c, i) PROVE TypeOK'
    BY <1>0, <1>2, <1>3 DEF Yield, Goto, TypeOK
  <1>4. ASSUME NEW c \in CPU, NEW i \in Level, Suspend(c, i) PROVE TypeOK'
    BY <1>0, <1>2, <1>4 DEF Suspend, Goto, TypeOK
  <1>5. ASSUME NEW c \in CPU, NEW i \in Level, Terminate(c, i) PROVE TypeOK'
    BY <1>0, <1>2, <1>5 DEF Terminate, Goto, TypeOK
  <1>6. ASSUME NEW c \in CPU, Unlock(c) PROVE TypeOK'
    BY <1>0, <1>6 DEF Unlock, Goto, TypeOK
  <1>7. ASSUME NEW c \in CPU, StackSwitch(c) PROVE TypeOK'
    <2>1. nextThread[c] \in Thread
      BY <1>7 DEF StackSwitch, SwitchInv, CpuInv
    <2> QED BY <1>0, <1>7, <2>1 DEF StackSwitch, Goto, TypeOK
  <1>8. ASSUME NEW c \in CPU, at[c] = "post" PROVE prevThread[c] \in Thread /\ scheduler[prevThread[c]] \in CPU
    BY <1>0, <1>8 DEF SwitchInv, CpuInv, TypeOK
  <1>9. ASSUME NEW c \in CPU, PostYieldStay(c) PROVE TypeOK'
    <2>1. Enqueue(scheduler[prevThread[c]], prevThread[c]) /\ at[c] = "post"
      BY <1>9 DEF PostYieldStay
    <2>2. readyQueue' \in [CPU -> [Level -> Seq(Thread)]]
      BY <1>0, <1>8, <2>1, EnqueueEffect
    <2> QED BY <1>0, <1>9, <2>2 DEF PostYieldStay, Goto, TypeOK
  <1>10. ASSUME NEW c \in CPU, PostYieldMigrate(c) PROVE TypeOK'
    <2>1. Enqueue(Peer[scheduler[prevThread[c]]], prevThread[c]) /\ at[c] = "post"
      BY <1>10 DEF PostYieldMigrate
    <2>2. Peer[scheduler[prevThread[c]]] \in CPU
      BY <1>0, <1>8, <2>1
    <2>3. readyQueue' \in [CPU -> [Level -> Seq(Thread)]]
      BY <1>0, <1>8, <2>1, <2>2, EnqueueEffect
    <2> QED BY <1>0, <1>10, <2>2, <2>3 DEF PostYieldMigrate, Goto, TypeOK
  <1>11. ASSUME NEW c \in CPU, PostSuspend(c) PROVE TypeOK'
    BY <1>0, <1>8, <1>11 DEF PostSuspend, Goto, TypeOK
  <1>12. ASSUME NEW c \in CPU, NEW t \in Thread, Resume(c, t) PROVE TypeOK'
    <2>1. scheduler[t] \in CPU /\ Enqueue(scheduler[t], t)
      BY <1>0, <1>12 DEF Resume, TypeOK
    <2>2. readyQueue' \in [CPU -> [Level -> Seq(Thread)]]
      BY <1>0, <2>1, EnqueueEffect
    <2> QED BY <1>0, <1>12, <2>2 DEF Resume, switchVars, TypeOK
  <1>13. ASSUME NEW c \in CPU, NEW t \in Thread, Start(c, t) PROVE TypeOK'
    <2>1. scheduler' \in [Thread -> CPU] /\ Enqueue(scheduler'[t], t)
      BY <1>0, <1>13 DEF Start, TypeOK
    <2>2. readyQueue' \in [CPU -> [Level -> Seq(Thread)]]
      BY <1>0, <2>1, EnqueueEffect
    <2> QED BY <1>0, <1>13, <2>1, <2>2 DEF Start, switchVars, TypeOK
  <1> QED
    BY <1>1, <1>3, <1>4, <1>5, <1>6, <1>7, <1>9, <1>10, <1>11, <1>12, <1>13 DEF Next, SwitchStep

LEMMA InitSwitch == Init => SwitchInv
  <1> SUFFICES ASSUME Init PROVE SwitchInv
    OBVIOUS
  <1> USE ThreadSwitchAssumption
  <1>l. idlePriority \in Level
    BY DEF idlePriority, Level, maxPriority
  <1>1. /\ Home \in [Thread -> CPU]
        /\ \A c \in CPU : Home[IdleOf[c]] = c /\ Home[MainOf[c]] = c
    <2>1. ASSUME NEW t \in Thread PROVE Home[t] \in CPU
      BY DEF Home
    <2>2. ASSUME NEW c \in CPU PROVE Home[IdleOf[c]] = c
      <3>1. IdleOf[c] \in Thread /\ \A d \in CPU : IdleOf[c] \in {IdleOf[d], MainOf[d]} <=> d = c
        OBVIOUS
      <3> QED BY <3>1 DEF Home
    <2>3. ASSUME NEW c \in CPU PROVE Home[MainOf[c]] = c
      <3>1. MainOf[c] \in Thread /\ \A d \in CPU : MainOf[c] \in {IdleOf[d], MainOf[d]} <=> d = c
        OBVIOUS
      <3> QED BY <3>1 DEF Home
    <2>4. Home = [t \in Thread |-> Home[t]]
      BY DEF Home
    <2> QED BY <2>1, <2>2, <2>3, <2>4
  <1>2. \A c \in CPU : /\ IdleOf[c] \in Thread /\ MainOf[c] \in Thread
                       /\ status[IdleOf[c]] = "active" /\ status[MainOf[c]] = "active"
                       /\ scheduler[IdleOf[c]] = c /\ scheduler[MainOf[c]] = c
    BY <1>1 DEF Init
  <1>3. ASSUME NEW c \in CPU, NEW i \in Level
        PROVE  readyQueue[c][i] = IF i = idlePriority THEN <<IdleOf[c]>> ELSE <<>>
    BY DEF Init
  <1>4. TypeOK
    <2>1. \A c \in CPU : <<IdleOf[c]>> \in Seq(Thread)
      OBVIOUS
    <2>2. readyQueue \in [CPU -> [Level -> Seq(Thread)]]
      BY <2>1 DEF Init
    <2> QED BY <1>1, <2>2 DEF Init, TypeOK
  <1>5. ASSUME NEW c \in CPU PROVE CpuInv(c)
    <2>1. at[c] = "run" /\ curr[c] = MainOf[c] /\ nextThread[c] = None /\ prevThread[c] = None
      BY DEF Init
    <2> QED BY <1>2, <2>1 DEF CpuInv, Own, Keeping
  <1>6. ASSUME NEW c \in CPU, NEW i \in Level PROVE QueueInv(c, i)
    <2>1. at[c] = "run" /\ curr[c] = MainOf[c] /\ nextThread[c] = None /\ prevThread[c] = None
      BY DEF Init
    <2>2. IsInjective(readyQueue[c][i])
      <3>1. IsInjective(<<>>) /\ IsInjective(<<IdleOf[c]>>)
        BY DEF IsInjective
      <3> QED BY <1>3, <3>1
    <2>3. ASSUME NEW t \in ToSet(readyQueue[c][i]) PROVE t = IdleOf[c] /\ i = idlePriority
      <3>1. ToSet(<<>>) = {} /\ ToSet(<<IdleOf[c]>>) = {IdleOf[c]}
        BY DEF ToSet
      <3> QED BY <1>3, <2>3, <3>1
    <2>4. Prio[IdleOf[c]] = idlePriority /\ IdleOf[c] # MainOf[c] /\ IdleOf[c] # None
      BY <1>2
    <2> QED BY <1>2, <2>1, <2>2, <2>3, <2>4 DEF QueueInv, Linkable
  <1>7. ASSUME NEW t \in Thread PROVE ThreadInv(t)
    <2>1. scheduler[t] \in CPU /\ curr[scheduler[t]] = MainOf[scheduler[t]]
      BY <1>1 DEF Init
    <2>2. saved[t] <=> \A c \in CPU : t # MainOf[c]
      BY DEF Init
    <2>3. saved[t] <=> t # curr[scheduler[t]]
      BY <1>2, <2>1, <2>2
    <2>4. ASSUME status[t] = "active" PROVE Accounted(scheduler[t], t)
      <3>1. PICK c \in CPU : t \in {IdleOf[c], MainOf[c]}
        BY <2>4 DEF Init
      <3>2. scheduler[t] = c /\ curr[c] = MainOf[c] /\ Keeping(c)
        BY <1>2, <2>1, <3>1 DEF Init, Keeping
      <3>3. t = IdleOf[c] => t \in ToSet(readyQueue[c][Prio[t]])
        <4>1. Prio[IdleOf[c]] = idlePriority
          BY <1>2
        <4>2. ToSet(<<IdleOf[c]>>) = {IdleOf[c]}
          BY DEF ToSet
        <4> QED BY <1>3, <1>l, <4>1, <4>2
      <3> QED BY <3>1, <3>2, <3>3 DEF Accounted
    <2> QED BY <2>3, <2>4 DEF ThreadInv
  <1> QED BY <1>4, <1>5, <1>6, <1>7 DEF SwitchInv

(* The invariant holds in every reachable state.                           *)
THEOREM SwitchInvariance == Spec => []SwitchInv
  <1>1. SwitchInv /\ [Next]_vars => SwitchInv'
    <2> SUFFICES ASSUME SwitchInv, [Next]_vars PROVE SwitchInv'
      OBVIOUS
    <2>0. TypeOK /\ TypeOK' /\ Peer \in [CPU -> CPU]
      BY TypeStep, ThreadSwitchAssumption DEF SwitchInv
    <2>c. ASSUME NEW c \in CPU PROVE scheduler[curr[c]] = c
      BY <2>0 DEF SwitchInv, CpuInv, Own, TypeOK
    <2>1. CASE UNCHANGED vars
      BY <2>1 DEF vars, switchVars, SwitchInv, TypeOK, CpuInv, QueueInv, ThreadInv, Own, Linkable,
                  Accounted, Keeping
    <2>2. ASSUME NEW c \in CPU, NEW i \in Level, Yield(c, i) \/ Suspend(c, i) \/ Terminate(c, i)
          PROVE  SwitchInv'
      <3>1. at[c] = "run" /\ scheduler[curr[c]] = c
        BY <2>c, <2>2 DEF Yield, Suspend, Terminate
      <3>2. readyQueue[c][i] # <<>> /\ Dequeue(c, i)
        BY <2>2, <3>1 DEF Yield, Suspend, Terminate, ReadyAt
      <3>3. UNCHANGED <<curr, prevThread, scheduler, saved>>
        BY <2>2 DEF Yield, Suspend, Terminate
      <3>4. \A d \in CPU : d # c => at'[d] = at[d] /\ yield'[d] = yield[d]
        <4>1. \A d \in CPU : d # c => at'[d] = at[d]
          BY <2>0, <2>2 DEF Yield, Suspend, Terminate, Goto, TypeOK
        <4>2. \/ yield' = [yield EXCEPT ![c] = TRUE]
              \/ yield' = [yield EXCEPT ![c] = FALSE]
          BY <2>2 DEF Yield, Suspend, Terminate
        <4>3. yield \in [CPU -> BOOLEAN]
          BY <2>0 DEF TypeOK
        <4>4. \A d \in CPU : d # c => yield'[d] = yield[d]
          BY <4>2, <4>3
        <4> QED BY <4>1, <4>4
      <3>5. \A t \in Thread : t # curr[c] => status'[t] = status[t]
        BY <2>0, <2>2 DEF Yield, Suspend, Terminate, TypeOK
      <3>6. curr[c] \in Thread
        BY <2>0 DEF TypeOK
      <3>7. CASE Yield(c, i)
        <4>1. at'[c] = "switch" /\ yield'[c] /\ status'[curr[c]] = status[curr[c]]
          BY <2>0, <3>7 DEF Yield, Goto, TypeOK
        <4> QED BY <2>0, <3>1, <3>2, <3>3, <3>4, <3>5, <4>1, ChooseStep
      <3>8. CASE Suspend(c, i)
        <4>1. /\ at'[c] = "unlock" /\ ~ yield'[c] /\ status'[curr[c]] = status[curr[c]]
              /\ curr[c] \notin IdleThread
          BY <2>0, <3>8 DEF Suspend, Goto, TypeOK
        <4> QED BY <2>0, <3>1, <3>2, <3>3, <3>4, <3>5, <4>1, ChooseStep
      <3>9. CASE Terminate(c, i)
        <4>1. /\ at'[c] = "switch" /\ ~ yield'[c] /\ status'[curr[c]] = "finishing"
              /\ curr[c] \notin IdleThread
          BY <2>0, <3>6, <3>9 DEF Terminate, Goto, TypeOK
        <4> QED BY <2>0, <3>1, <3>2, <3>3, <3>4, <3>5, <4>1, ChooseStep
      <3> QED BY <2>2, <3>7, <3>8, <3>9
    <2>3. ASSUME NEW c \in CPU, SwitchStep(c) PROVE SwitchInv'
      <3>1. CASE Unlock(c)
        BY <2>0, <3>1, UnlockStep
      <3>2. CASE StackSwitch(c)
        BY <2>0, <3>2, StackSwitchStep
      <3>3. CASE PostYieldStay(c) \/ PostYieldMigrate(c)
        <4>1. at[c] = "post" /\ yield[c] /\ UNCHANGED <<curr, nextThread, yield, status, saved>>
          BY <3>3 DEF PostYieldStay, PostYieldMigrate
        <4>2. prevThread[c] \in Thread /\ scheduler[prevThread[c]] = c
          BY <4>1 DEF SwitchInv, CpuInv, Own
        <4>3. at'[c] = "run" /\ prevThread'[c] = None
          BY <2>0, <3>3 DEF PostYieldStay, PostYieldMigrate, Goto, TypeOK
        <4>4. \A d \in CPU : d # c => at'[d] = at[d] /\ prevThread'[d] = prevThread[d]
          BY <2>0, <3>3 DEF PostYieldStay, PostYieldMigrate, Goto, TypeOK
        <4>5. CASE PostYieldStay(c)
          <5>1. Enqueue(c, prevThread[c]) /\ scheduler' = scheduler
            BY <4>2, <4>5 DEF PostYieldStay
          <5> QED BY <2>0, <4>1, <4>2, <4>3, <4>4, <5>1, PostYieldStep
        <4>6. CASE PostYieldMigrate(c)
          <5>1. Enqueue(Peer[c], prevThread[c]) /\ Peer[c] \in CPU /\ prevThread[c] \notin Pinned
            BY <2>0, <4>2, <4>6 DEF PostYieldMigrate
          <5>2. /\ scheduler'[prevThread[c]] = Peer[c]
                /\ \A t \in Thread : t # prevThread[c] => scheduler'[t] = scheduler[t]
            BY <2>0, <4>2, <4>6 DEF PostYieldMigrate, TypeOK
          <5> QED BY <2>0, <4>1, <4>2, <4>3, <4>4, <5>1, <5>2, PostYieldStep
        <4> QED BY <3>3, <4>5, <4>6
      <3>4. CASE PostSuspend(c)
        BY <2>0, <3>4, PostSuspendStep
      <3> QED BY <2>3, <3>1, <3>2, <3>3, <3>4 DEF SwitchStep
    <2>4. ASSUME NEW c \in CPU, NEW t \in Thread, Resume(c, t) PROVE SwitchInv'
      <3>1. /\ status[t] = "waiting" /\ UNCHANGED <<switchVars, saved>> /\ Enqueue(scheduler[t], t)
            /\ scheduler' = scheduler
        BY <2>4 DEF Resume
      <3>2. status'[t] = "active" /\ \A u \in Thread : u # t => status'[u] = status[u]
        BY <2>0, <2>4 DEF Resume, TypeOK
      <3>3. scheduler[t] \in CPU
        BY <2>0 DEF TypeOK
      <3> QED BY <2>0, <3>1, <3>2, <3>3, LinkStep
    <2>5. ASSUME NEW c \in CPU, NEW t \in Thread, Start(c, t) PROVE SwitchInv'
      <3>1. status[t] = "new" /\ UNCHANGED <<switchVars, saved>> /\ Enqueue(scheduler'[t], t)
        BY <2>5 DEF Start
      <3>2. status'[t] = "active" /\ \A u \in Thread : u # t => status'[u] = status[u]
        BY <2>0, <2>5 DEF Start, TypeOK
      <3>3. \A u \in Thread : u # t => scheduler'[u] = scheduler[u]
        BY <2>0, <2>5 DEF Start, TypeOK
      <3>4. PICK target \in CPU : target = scheduler'[t]
        BY <2>0 DEF TypeOK
      <3>5. Enqueue(target, t) /\ scheduler'[t] = target
        BY <3>1, <3>4
      <3> QED BY <2>0, <3>1, <3>2, <3>3, <3>5, LinkStep
    <2> QED BY <2>1, <2>2, <2>3, <2>4, <2>5 DEF Next
  <1> QED BY <1>1, InitSwitch, PTL DEF Spec

-----------------------------------------------------------------------------
(* No two CPUs run on one stack, no CPU switches to a thread whose         *)
(* registers are not saved, in particular not to the one it is leaving:    *)
(* Thread::switchThread's assertion, with resumes by other CPUs in every   *)
(* window of the switch.                                                   *)
THEOREM StacksExclusive == Spec => []StackExclusive
  <1>1. SwitchInv => StackExclusive
    <2> SUFFICES ASSUME SwitchInv PROVE StackExclusive
      OBVIOUS
    <2>0. TypeOK
      BY DEF SwitchInv
    <2>1. ASSUME NEW c \in CPU PROVE curr[c] \in Thread /\ scheduler[curr[c]] = c /\ ~ saved[curr[c]]
      <3>1. curr[c] \in Thread /\ CpuInv(c)
        BY <2>0 DEF SwitchInv, TypeOK
      <3>2. scheduler[curr[c]] = c /\ ThreadInv(curr[c])
        BY <3>1 DEF CpuInv, Own, SwitchInv
      <3> QED BY <3>1, <3>2 DEF ThreadInv
    <2>2. ASSUME NEW c \in CPU, at[c] = "switch" PROVE saved[nextThread[c]]
      <3>1. nextThread[c] \in Thread /\ scheduler[nextThread[c]] = c /\ curr[c] # nextThread[c]
        BY <2>2 DEF SwitchInv, CpuInv, Own
      <3>2. ThreadInv(nextThread[c])
        BY <3>1 DEF SwitchInv
      <3> QED BY <3>1, <3>2 DEF ThreadInv
    <2>3. \A c, d \in CPU : curr[c] = curr[d] => c = d
      BY <2>1
    <2> QED BY <2>1, <2>2, <2>3 DEF StackExclusive
  <1> QED BY <1>1, SwitchInvariance, PTL

(* The ready queues: every active thread is running, chosen, just left or  *)
(* linked exactly once where its scheduler looks for it; and a CPU that    *)
(* gives up a thread finds at least its idle thread (switchThread's        *)
(* GENASSERT0(yield)).                                                     *)
THEOREM SchedulingSound == Spec => []SwitchSound
  <1>1. SwitchInv => SwitchSound
    <2> SUFFICES ASSUME SwitchInv PROVE SwitchSound
      OBVIOUS
    <2>0. TypeOK /\ IdleOf \in [CPU -> Thread] /\ None \notin Thread /\ Prio \in [Thread -> Level]
      BY ThreadSwitchAssumption DEF SwitchInv
    <2>1. \A c \in CPU, i \in Level : IsInjective(readyQueue[c][i])
      BY DEF SwitchInv, QueueInv
    <2>2. ASSUME NEW c \in CPU, NEW i \in Level, NEW t \in ToSet(readyQueue[c][i])
          PROVE  /\ scheduler[t] = c /\ Prio[t] = i
                 /\ status[t] = "active"
                 /\ \A d \in CPU : nextThread[d] # t
                 /\ \A d \in CPU : curr[d] = t => d = c /\ at[c] = "switch" /\ ~ yield[c]
      <3>1. t \in Thread /\ Prio[t] = i /\ Linkable(c, t)
        BY Chained
      <3>2. ASSUME NEW d \in CPU
            PROVE  /\ nextThread[d] = t => d = c
                   /\ curr[d] = t => d = c
        BY <3>1 DEF SwitchInv, CpuInv, Own, Linkable
      <3> QED BY <3>1, <3>2 DEF Linkable, Keeping
    <2>3. ASSUME NEW t \in Thread, status[t] = "active"
          PROVE  \/ \E c \in CPU : t \in {curr[c], nextThread[c]} \cup Ready(c)
                 \/ \E c \in CPU : prevThread[c] = t /\ yield[c]
      <3>1. scheduler[t] \in CPU /\ Accounted(scheduler[t], t) /\ Prio[t] \in Level
        BY <2>0, <2>3 DEF SwitchInv, ThreadInv, TypeOK
      <3> QED BY <3>1 DEF Accounted, Ready
    <2>4. ASSUME NEW c \in CPU, at[c] = "run"
          PROVE  scheduler[curr[c]] = c /\ (curr[c] # IdleOf[c] => IdleOf[c] \in Ready(c))
      <3>1. CpuInv(c) /\ curr[c] \in Thread /\ IdleOf[c] \in Thread
        BY <2>0 DEF SwitchInv, TypeOK
      <3>2. scheduler[curr[c]] = c /\ nextThread[c] \notin Thread /\ prevThread[c] \notin Thread
        BY <2>4, <3>1 DEF CpuInv, Own
      <3>3. Accounted(c, IdleOf[c])
        BY <3>1 DEF SwitchInv, CpuInv, ThreadInv
      <3>4. curr[c] # IdleOf[c] => IdleOf[c] \in ToSet(readyQueue[c][Prio[IdleOf[c]]])
        BY <3>1, <3>2, <3>3 DEF Accounted
      <3> QED BY <2>0, <3>1, <3>2, <3>4 DEF Ready
    <2> QED BY <2>0, <2>1, <2>2, <2>3, <2>4 DEF SwitchSound, ReadyOnce, IdleReady
  <1> QED BY <1>1, SwitchInvariance, PTL

(* Once postSuspend has destroyed a finishing thread, no CPU runs on its   *)
(* stack, has chosen it, is leaving it or links it.                        *)
THEOREM DestroyedUnused == Spec => []NoUseAfterDestroy
  <1>1. SwitchInv => NoUseAfterDestroy
    <2> SUFFICES ASSUME SwitchInv, NEW t \in Thread, status[t] = "dead", NEW c \in CPU
                 PROVE  t \notin {curr[c], nextThread[c], prevThread[c]} \cup Ready(c)
      BY DEF NoUseAfterDestroy
    <2>1. t # curr[c] /\ t # nextThread[c] /\ t # prevThread[c]
      BY DEF SwitchInv, CpuInv, Own
    <2>2. ASSUME NEW i \in Level PROVE t \notin ToSet(readyQueue[c][i])
      BY Chained DEF Linkable
    <2> QED BY <2>1, <2>2 DEF Ready
  <1> QED BY <1>1, SwitchInvariance, PTL

-----------------------------------------------------------------------------
(***************************************************************************)
(* Intrusive lists (module IntrusiveList).                                 *)
(***************************************************************************)
LinkRecord == [prev : Links \cup {Null}, next : Links \cup {Null}]

(* Consecutive elements of s are linked in l, in both directions.          *)
LinkedIn(l, s) == \A i \in 1 .. Len(s) - 1 : l[s[i]].next = s[i + 1] /\ l[s[i + 1]].prev = s[i]
RingOf(a, s) == <<a>> \o s \o <<a>>

LEMMA RingFacts ==
  ASSUME NEW S, NEW s \in Seq(S), NEW a, NEW r, r = RingOf(a, s)
  PROVE  /\ Len(s) \in Nat /\ DOMAIN s = 1 .. Len(s) /\ Len(r) = Len(s) + 2 /\ DOMAIN r = 1 .. Len(s) + 2
         /\ r[1] = a /\ r[Len(s) + 2] = a
         /\ \A i \in 2 .. Len(s) + 1 : r[i] = s[i - 1]
         /\ \A i \in 1 .. Len(s) : r[i + 1] = s[i]
  <1> DEFINE T == S \cup {a}
  <1>1. s \in Seq(T) /\ <<a>> \in Seq(T) /\ Len(<<a>>) = 1 /\ <<a>>[1] = a /\ Len(s) \in Nat /\ DOMAIN s = 1 .. Len(s)
    <2>1. s \in Seq(T)
      BY SeqMonotonic
    <2>2. Len(s) \in Nat /\ DOMAIN s = 1 .. Len(s)
      BY LenProperties
    <2> QED BY <2>1, <2>2
  <1> HIDE DEF T
  <1>2. PICK q : q = <<a>> \o s
    OBVIOUS
  <1>3. /\ q \in Seq(T) /\ Len(q) = Len(s) + 1
        /\ \A i \in 1 .. Len(s) + 1 : q[i] = IF i <= 1 THEN a ELSE s[i - 1]
    <2>1. /\ q \in Seq(T) /\ Len(q) = 1 + Len(s)
          /\ \A i \in 1 .. 1 + Len(s) : q[i] = IF i <= 1 THEN <<a>>[i] ELSE s[i - 1]
      BY <1>1, <1>2, ConcatProperties
    <2>2. ASSUME NEW i \in 1 .. Len(s) + 1 PROVE q[i] = IF i <= 1 THEN a ELSE s[i - 1]
      <3>1. i <= 1 => i = 1
        OBVIOUS
      <3> QED BY <1>1, <2>1, <3>1
    <2> QED BY <1>1, <2>1, <2>2
  <1>4. /\ r \in Seq(T) /\ Len(r) = Len(s) + 2
        /\ \A i \in 1 .. Len(s) + 2 : r[i] = IF i <= Len(s) + 1 THEN q[i] ELSE <<a>>[i - (Len(s) + 1)]
    <2>1. r = q \o <<a>>
      BY <1>2 DEF RingOf
    <2>2. /\ r \in Seq(T) /\ Len(r) = Len(q) + 1
          /\ \A i \in 1 .. Len(q) + 1 : r[i] = IF i <= Len(q) THEN q[i] ELSE <<a>>[i - Len(q)]
      BY <1>1, <1>3, <2>1, ConcatProperties
    <2>3. Len(q) + 1 = Len(s) + 2
      BY <1>1, <1>3
    <2> QED BY <1>3, <2>2, <2>3
  <1>5. DOMAIN r = 1 .. Len(s) + 2
    BY <1>4, LenProperties
  <1>6. r[1] = a /\ r[Len(s) + 2] = a
    <2>1. (Len(s) + 2) - (Len(s) + 1) = 1 /\ Len(s) + 2 \in 1 .. Len(s) + 2 /\ ~ (Len(s) + 2 <= Len(s) + 1)
          /\ 1 \in 1 .. Len(s) + 1 /\ 1 \in 1 .. Len(s) + 2 /\ 1 <= Len(s) + 1
      BY <1>1
    <2> QED BY <1>1, <1>3, <1>4, <2>1
  <1>7. ASSUME NEW i \in 2 .. Len(s) + 1 PROVE r[i] = s[i - 1]
    BY <1>1, <1>3, <1>4
  <1>8. ASSUME NEW i \in 1 .. Len(s) PROVE r[i + 1] = s[i]
    <2>1. i + 1 \in 2 .. Len(s) + 1 /\ (i + 1) - 1 = i
      BY <1>1
    <2> QED BY <1>7, <2>1
  <1> QED BY <1>1, <1>4, <1>5, <1>6, <1>7, <1>8

(* A ring is linked when the anchor and the elements are.                  *)
LEMMA RingLinked ==
  ASSUME NEW S, NEW s \in Seq(S), NEW a, NEW l
  PROVE  LinkedIn(l, RingOf(a, s)) <=>
           /\ LinkedIn(l, s)
           /\ s = <<>> => l[a].next = a /\ l[a].prev = a
           /\ s # <<>> => /\ l[a].next = s[1] /\ l[s[1]].prev = a
                          /\ l[s[Len(s)]].next = a /\ l[a].prev = s[Len(s)]
  <1>1. PICK r, n : r = RingOf(a, s) /\ n = Len(s)
    OBVIOUS
  <1>2. /\ n \in Nat /\ Len(r) = n + 2 /\ r[1] = a /\ r[n + 2] = a
        /\ \A i \in 1 .. n : r[i + 1] = s[i]
    BY <1>1, RingFacts
  <1>3. s = <<>> <=> n = 0
    BY <1>1, EmptySeq
  <1>4. ASSUME LinkedIn(l, r)
        PROVE  /\ LinkedIn(l, s)
               /\ n = 0 => l[a].next = a /\ l[a].prev = a
               /\ n # 0 => /\ l[a].next = s[1] /\ l[s[1]].prev = a
                           /\ l[s[n]].next = a /\ l[a].prev = s[n]
    <2>1. \A i \in 1 .. n + 1 : l[r[i]].next = r[i + 1] /\ l[r[i + 1]].prev = r[i]
      BY <1>2, <1>4 DEF LinkedIn
    <2>2. ASSUME NEW i \in 1 .. n - 1 PROVE l[s[i]].next = s[i + 1] /\ l[s[i + 1]].prev = s[i]
      <3>1. i + 1 \in 1 .. n + 1 /\ i \in 1 .. n /\ i + 1 \in 1 .. n
        BY <1>2
      <3>2. r[i + 1] = s[i] /\ r[(i + 1) + 1] = s[i + 1]
        BY <1>2, <3>1
      <3> QED BY <2>1, <3>1, <3>2
    <2>3. LinkedIn(l, s)
      BY <1>1, <2>2 DEF LinkedIn
    <2>4. n = 0 => l[a].next = a /\ l[a].prev = a
      BY <1>2, <2>1
    <2>5. ASSUME n # 0 PROVE /\ l[a].next = s[1] /\ l[s[1]].prev = a
                             /\ l[s[n]].next = a /\ l[a].prev = s[n]
      <3>1. 1 \in 1 .. n /\ n \in 1 .. n /\ 1 \in 1 .. n + 1 /\ n + 1 \in 1 .. n + 1 /\ (n + 1) + 1 = n + 2
        BY <1>2, <2>5
      <3>2. r[1 + 1] = s[1] /\ r[n + 1] = s[n]
        BY <1>2, <3>1
      <3> QED BY <1>2, <2>1, <3>1, <3>2
    <2> QED BY <2>3, <2>4, <2>5
  <1>5. ASSUME LinkedIn(l, s),
               n = 0 => l[a].next = a /\ l[a].prev = a,
               n # 0 => /\ l[a].next = s[1] /\ l[s[1]].prev = a
                        /\ l[s[n]].next = a /\ l[a].prev = s[n]
        PROVE  LinkedIn(l, r)
    <2> SUFFICES ASSUME NEW i \in 1 .. n + 1
                 PROVE  l[r[i]].next = r[i + 1] /\ l[r[i + 1]].prev = r[i]
      BY <1>2 DEF LinkedIn
    <2>1. CASE n = 0
      <3>1. i = 1 /\ i + 1 = n + 2
        BY <2>1
      <3> QED BY <1>2, <1>5, <2>1, <3>1
    <2>2. CASE n # 0 /\ i = 1
      <3>1. r[i + 1] = s[1]
        BY <1>2, <2>2
      <3> QED BY <1>2, <1>5, <2>2, <3>1
    <2>3. CASE n # 0 /\ i = n + 1
      <3>1. n \in 1 .. n /\ i + 1 = n + 2 /\ r[i] = s[n]
        BY <1>2, <2>3
      <3> QED BY <1>2, <1>5, <2>3, <3>1
    <2>4. CASE i # 1 /\ i # n + 1
      <3>1. i - 1 \in 1 .. n - 1 /\ i - 1 \in 1 .. n /\ (i - 1) + 1 \in 1 .. n /\ (i - 1) + 1 = i
        BY <1>2, <2>4
      <3>2. r[i] = s[i - 1] /\ r[i + 1] = s[(i - 1) + 1]
        BY <1>2, <3>1
      <3>3. l[s[i - 1]].next = s[(i - 1) + 1] /\ l[s[(i - 1) + 1]].prev = s[i - 1]
        BY <1>1, <1>5, <3>1 DEF LinkedIn
      <3> QED BY <3>2, <3>3
    <2> QED BY <2>1, <2>2, <2>3, <2>4
  <1> QED BY <1>1, <1>3, <1>4, <1>5

(* A sequence of distinct elements, and what it has in common with another.*)
Distinct(s) == \A i, j \in 1 .. Len(s) : s[i] = s[j] => i = j
Apart(s, t) == \A i \in 1 .. Len(s), j \in 1 .. Len(t) : s[i] # t[j]

(* u is s with t inserted before position i.                               *)
Spliced(s, i, t, u) ==
  /\ Len(u) = Len(s) + Len(t)
  /\ \A k \in 1 .. Len(u) : u[k] = IF k < i THEN s[k] ELSE IF k < i + Len(t) THEN t[k - i + 1] ELSE s[k - Len(t)]

SpliceReady(m, n, i, s, t, u) ==
  /\ m \in Nat /\ n \in Nat /\ i \in 1 .. m + 1
  /\ \A k \in 1 .. m + n : u[k] = IF k < i THEN s[k] ELSE IF k < i + n THEN t[k - i + 1] ELSE s[k - n]

SpliceDone(m, n, s, t, u) ==
  /\ /\ \A x, y \in 1 .. m : s[x] = s[y] => x = y
     /\ \A x, y \in 1 .. n : t[x] = t[y] => x = y
     /\ \A x \in 1 .. m, y \in 1 .. n : s[x] # t[y]
     => \A x, y \in 1 .. m + n : u[x] = u[y] => x = y
  /\ \A x : (\E k \in 1 .. m + n : u[k] = x)
              <=> (\E k \in 1 .. m : s[k] = x) \/ (\E k \in 1 .. n : t[k] = x)

LEMMA SplicedFacts ==
  ASSUME NEW m, NEW n, NEW i, NEW s, NEW t, NEW u, SpliceReady(m, n, i, s, t, u)
  PROVE  SpliceDone(m, n, s, t, u)
  <1> USE DEF SpliceReady
  <1>2. ASSUME NEW k \in 1 .. m + n
        PROVE  \/ k < i /\ k \in 1 .. m /\ u[k] = s[k]
               \/ k >= i /\ k - i + 1 \in 1 .. n /\ u[k] = t[k - i + 1]
               \/ k >= i + n /\ k - n \in 1 .. m /\ u[k] = s[k - n]
    OBVIOUS
  <1>3. ASSUME \A x, y \in 1 .. m : s[x] = s[y] => x = y,
               \A x, y \in 1 .. n : t[x] = t[y] => x = y,
               \A x \in 1 .. m, y \in 1 .. n : s[x] # t[y],
               NEW j \in 1 .. m + n, NEW k \in 1 .. m + n, u[j] = u[k]
        PROVE  j = k
    <2>1. \/ k < i /\ k \in 1 .. m /\ u[k] = s[k]
          \/ k >= i /\ k - i + 1 \in 1 .. n /\ u[k] = t[k - i + 1]
          \/ k >= i + n /\ k - n \in 1 .. m /\ u[k] = s[k - n]
      BY <1>2
    <2>4. CASE j < i /\ j \in 1 .. m /\ u[j] = s[j]
      <3>1. CASE k < i /\ k \in 1 .. m /\ u[k] = s[k]
        BY <1>3, <2>4, <3>1
      <3>2. CASE k >= i /\ k - i + 1 \in 1 .. n /\ u[k] = t[k - i + 1]
        BY <1>3, <2>4, <3>2
      <3>3. CASE k >= i + n /\ k - n \in 1 .. m /\ u[k] = s[k - n]
        <4>1. j = k - n
          BY <1>3, <2>4, <3>3
        <4> QED BY <2>4, <3>3, <4>1
      <3> QED BY <2>1, <3>1, <3>2, <3>3
    <2>5. CASE j >= i /\ j - i + 1 \in 1 .. n /\ u[j] = t[j - i + 1]
      <3>1. CASE k < i /\ k \in 1 .. m /\ u[k] = s[k]
        BY <1>3, <2>5, <3>1
      <3>2. CASE k >= i /\ k - i + 1 \in 1 .. n /\ u[k] = t[k - i + 1]
        <4>1. j - i + 1 = k - i + 1
          BY <1>3, <2>5, <3>2
        <4> QED BY <4>1
      <3>3. CASE k >= i + n /\ k - n \in 1 .. m /\ u[k] = s[k - n]
        BY <1>3, <2>5, <3>3
      <3> QED BY <2>1, <3>1, <3>2, <3>3
    <2>6. CASE j >= i + n /\ j - n \in 1 .. m /\ u[j] = s[j - n]
      <3>1. CASE k < i /\ k \in 1 .. m /\ u[k] = s[k]
        <4>1. j - n = k
          BY <1>3, <2>6, <3>1
        <4> QED BY <2>6, <3>1, <4>1
      <3>2. CASE k >= i /\ k - i + 1 \in 1 .. n /\ u[k] = t[k - i + 1]
        BY <1>3, <2>6, <3>2
      <3>3. CASE k >= i + n /\ k - n \in 1 .. m /\ u[k] = s[k - n]
        <4>1. j - n = k - n
          BY <1>3, <2>6, <3>3
        <4> QED BY <4>1
      <3> QED BY <2>1, <3>1, <3>2, <3>3
    <2> QED BY <1>2, <2>4, <2>5, <2>6
  <1>5. ASSUME NEW k \in 1 .. m
        PROVE  \E j \in 1 .. m + n : u[j] = s[k]
    <2>1. CASE k < i
      <3>1. k \in 1 .. m + n /\ u[k] = s[k]
        BY <2>1
      <3> QED BY <3>1
    <2>2. CASE ~ (k < i)
      <3>1. k + n \in 1 .. m + n /\ ~ (k + n < i) /\ ~ (k + n < i + n) /\ (k + n) - n = k
        BY <2>2
      <3>2. u[k + n] = s[k]
        BY <3>1
      <3> QED BY <3>1, <3>2
    <2> QED BY <2>1, <2>2
  <1>6. ASSUME NEW k \in 1 .. n
        PROVE  \E j \in 1 .. m + n : u[j] = t[k]
    <2>1. i + k - 1 \in 1 .. m + n /\ ~ (i + k - 1 < i) /\ (i + k - 1 < i + n) /\ (i + k - 1) - i + 1 = k
      OBVIOUS
    <2>2. u[i + k - 1] = t[k]
      BY <2>1
    <2> QED BY <2>1, <2>2
  <1>7. ASSUME NEW x PROVE (\E k \in 1 .. m + n : u[k] = x)
                             <=> (\E k \in 1 .. m : s[k] = x) \/ (\E k \in 1 .. n : t[k] = x)
    <2>1. ASSUME NEW k \in 1 .. m + n, u[k] = x PROVE (\E j \in 1 .. m : s[j] = x) \/ (\E j \in 1 .. n : t[j] = x)
      BY <1>2, <2>1
    <2>2. ASSUME NEW k \in 1 .. m, s[k] = x PROVE \E j \in 1 .. m + n : u[j] = x
      BY <1>5, <2>2
    <2>3. ASSUME NEW k \in 1 .. n, t[k] = x PROVE \E j \in 1 .. m + n : u[j] = x
      BY <1>6, <2>3
    <2> QED BY <2>1, <2>2, <2>3
  <1> QED BY <1>3, <1>7 DEF SpliceDone

(* insert_after of a linked chain t, of n elements, into the ring of a and *)
(* the m elements of s gives the ring with the chain in it.                *)
InsertReady(m, n, i, s, t, u, l, l2, a, p, q) ==
  /\ m \in Nat
  /\ n \in Nat
  /\ n > 0
  /\ i \in 1 .. m + 1
  /\ a \in Links
  /\ \A k \in 1 .. m + n : u[k] = IF k < i THEN s[k] ELSE IF k < i + n THEN t[k - i + 1] ELSE s[k - n]
  /\ \A k \in 1 .. m : s[k] \in Links /\ s[k] # a
  /\ \A k \in 1 .. n : t[k] \in Links /\ t[k] # a
  /\ \A x, y \in 1 .. m : s[x] = s[y] => x = y
  /\ \A x, y \in 1 .. n : t[x] = t[y] => x = y
  /\ \A x \in 1 .. m, y \in 1 .. n : s[x] # t[y]
  /\ \A k \in 1 .. m - 1 : l[s[k]].next = s[k + 1] /\ l[s[k + 1]].prev = s[k]
  /\ (m = 0 => l[a].next = a /\ l[a].prev = a)
  /\ (m # 0 => l[a].next = s[1] /\ l[s[1]].prev = a /\ l[s[m]].next = a /\ l[a].prev = s[m])
  /\ \A k \in 1 .. n - 1 : l[t[k]].next = t[k + 1] /\ l[t[k + 1]].prev = t[k]
  /\ p = (IF i = 1 THEN a ELSE s[i - 1])
  /\ q = (IF i = m + 1 THEN a ELSE s[i])
  /\ \A x \in Links : /\ l2[x].next = IF x = p THEN t[1] ELSE IF x = t[n] THEN q ELSE l[x].next
                      /\ l2[x].prev = IF x = t[1] THEN p ELSE IF x = q THEN t[n] ELSE l[x].prev

LEMMA InsertedLinks ==
  ASSUME NEW m, NEW n, NEW i, NEW s, NEW t, NEW u, NEW l, NEW l2, NEW a, NEW p, NEW q,
         InsertReady(m, n, i, s, t, u, l, l2, a, p, q)
  PROVE  /\ \A k \in 1 .. m + n - 1 : l2[u[k]].next = u[k + 1] /\ l2[u[k + 1]].prev = u[k]
         /\ l2[a].next = u[1] /\ l2[u[1]].prev = a /\ l2[u[m + n]].next = a /\ l2[a].prev = u[m + n]
  <1> USE DEF InsertReady
  <1>8. /\ i = 1 => p = a
        /\ i # 1 => p = s[i - 1] /\ i - 1 \in 1 .. m
        /\ i = m + 1 => q = a
        /\ i # m + 1 => q = s[i] /\ i \in 1 .. m
    OBVIOUS
  <1>9. p \in Links /\ q \in Links /\ 1 \in 1 .. n /\ n \in 1 .. n
    BY <1>8
  <1>n. /\ \A k \in 1 .. n : t[k] # p /\ t[k] # q
        /\ \A k \in 1 .. m : (s[k] = p <=> k = i - 1) /\ (s[k] = q <=> k = i)
        /\ \A k \in 1 .. m : s[k] # t[1] /\ s[k] # t[n]
        /\ a # t[1] /\ a # t[n]
    <2>1. ASSUME NEW k \in 1 .. n PROVE t[k] # p /\ t[k] # q
      BY <1>8, <2>1
    <2>2. ASSUME NEW k \in 1 .. m PROVE (s[k] = p <=> k = i - 1) /\ (s[k] = q <=> k = i)
      BY <1>8, <2>2
    <2> QED BY <1>9, <2>1, <2>2
  (* The links of the elements of s, apart from the gap, of t, and at the ends. *)
  <1>10. /\ \A k \in 1 .. m : k # i - 1 => l2[s[k]].next = l[s[k]].next
         /\ \A k \in 1 .. m : k # i => l2[s[k]].prev = l[s[k]].prev
         /\ \A k \in 1 .. n : k # n => l2[t[k]].next = l[t[k]].next
         /\ \A k \in 1 .. n : k # 1 => l2[t[k]].prev = l[t[k]].prev
    <2>1. ASSUME NEW k \in 1 .. m, k # i - 1 PROVE l2[s[k]].next = l[s[k]].next
      BY <1>9, <1>n, <2>1
    <2>2. ASSUME NEW k \in 1 .. m, k # i PROVE l2[s[k]].prev = l[s[k]].prev
      BY <1>9, <1>n, <2>2
    <2>3. ASSUME NEW k \in 1 .. n, k # n PROVE l2[t[k]].next = l[t[k]].next
      BY <1>9, <1>n, <2>3
    <2>4. ASSUME NEW k \in 1 .. n, k # 1 PROVE l2[t[k]].prev = l[t[k]].prev
      BY <1>9, <1>n, <2>4
    <2> QED BY <2>1, <2>2, <2>3, <2>4
  <1>11. l2[p].next = t[1] /\ l2[t[1]].prev = p /\ l2[t[n]].next = q /\ l2[q].prev = t[n]
    BY <1>8, <1>9, <1>n
  <1>12. /\ i # 1 => l2[a].next = l[a].next
         /\ i # m + 1 => l2[a].prev = l[a].prev
    BY <1>8, <1>9, <1>n
  <1>13. ASSUME NEW k \in 1 .. m + n - 1
         PROVE  l2[u[k]].next = u[k + 1] /\ l2[u[k + 1]].prev = u[k]
    <2>0. k \in 1 .. m + n /\ k + 1 \in 1 .. m + n
      OBVIOUS
    <2>1. CASE k + 1 < i
      <3>1. u[k] = s[k] /\ u[k + 1] = s[k + 1] /\ k \in 1 .. m - 1 /\ k \in 1 .. m /\ k + 1 \in 1 .. m
            /\ k # i - 1 /\ k + 1 # i
        BY <2>0, <2>1
      <3> QED BY <1>10, <3>1
    <2>2. CASE k + 1 = i
      <3>1. u[k] = s[k] /\ u[k + 1] = t[1] /\ p = s[k]
        BY <1>8, <2>0, <2>2
      <3> QED BY <1>11, <3>1
    <2>3. CASE k >= i /\ k + 1 < i + n
      <3>1. u[k] = t[k - i + 1] /\ u[k + 1] = t[(k - i + 1) + 1] /\ k - i + 1 \in 1 .. n - 1 /\ k - i + 1 \in 1 .. n
            /\ (k - i + 1) + 1 \in 1 .. n /\ k - i + 1 # n /\ (k - i + 1) + 1 # 1
        BY <2>0, <2>3
      <3> QED BY <1>10, <3>1
    <2>4. CASE k + 1 = i + n
      <3>1. u[k] = t[n] /\ u[k + 1] = s[i] /\ q = s[i]
        <4>1. k - i + 1 = n /\ (k + 1) - n = i /\ ~ (k < i) /\ k < i + n /\ ~ (k + 1 < i) /\ ~ (k + 1 < i + n) /\ i # m + 1
          BY <2>0, <2>4
        <4> QED BY <1>8, <2>0, <4>1
      <3> QED BY <1>11, <3>1
    <2>5. CASE k + 1 > i + n
      <3>1. u[k] = s[k - n] /\ u[k + 1] = s[(k - n) + 1] /\ k - n \in 1 .. m - 1 /\ k - n \in 1 .. m
            /\ (k - n) + 1 \in 1 .. m /\ k - n # i - 1 /\ (k - n) + 1 # i
        BY <2>0, <2>5
      <3> QED BY <1>10, <3>1
    <2> QED BY <2>0, <2>1, <2>2, <2>3, <2>4, <2>5
  <1>14. l2[a].next = u[1] /\ l2[u[1]].prev = a
    <2>1. 1 \in 1 .. m + n
      OBVIOUS
    <2>2. CASE i = 1
      <3>1. u[1] = t[1]
        BY <2>1, <2>2
      <3> QED BY <1>8, <1>11, <2>2, <3>1
    <2>3. CASE i # 1
      <3>1. u[1] = s[1] /\ 1 \in 1 .. m /\ m # 0
        BY <2>1, <2>3
      <3> QED BY <1>10, <1>12, <2>3, <3>1
    <2> QED BY <2>2, <2>3
  <1>15. l2[u[m + n]].next = a /\ l2[a].prev = u[m + n]
    <2>1. m + n \in 1 .. m + n
      OBVIOUS
    <2>2. CASE i = m + 1
      <3>1. u[m + n] = t[n]
        <4>1. ~ (m + n < i) /\ m + n < i + n /\ m + n - i + 1 = n
          BY <2>2
        <4> QED BY <2>1, <4>1
      <3> QED BY <1>8, <1>11, <2>2, <3>1
    <2>3. CASE i # m + 1
      <3>1. u[m + n] = s[m] /\ m \in 1 .. m /\ m # 0 /\ m # i - 1
        <4>1. ~ (m + n < i) /\ ~ (m + n < i + n) /\ m + n - n = m
          BY <2>3
        <4> QED BY <2>1, <2>3, <4>1
      <3> QED BY <1>10, <1>12, <2>3, <3>1
    <2> QED BY <2>2, <2>3
  <1> QED BY <1>13, <1>14, <1>15

(* Taking s[i] .. s[j] out of the ring of a and s closes the ring, and     *)
(* leaves them linked to each other and to nothing else.                   *)
CutReady(m, i, j, d, s, t, u, l, l2, a, p, q) ==
  /\ m \in Nat
  /\ i \in 1 .. m
  /\ j \in i .. m
  /\ d = j - i + 1
  /\ a \in Links
  /\ \A k \in 1 .. d : t[k] = s[i + k - 1]
  /\ \A k \in 1 .. m - d : u[k] = IF k < i THEN s[k] ELSE s[k + d]
  /\ \A k \in 1 .. m : s[k] \in Links /\ s[k] # a
  /\ \A x, y \in 1 .. m : s[x] = s[y] => x = y
  /\ \A k \in 1 .. m - 1 : l[s[k]].next = s[k + 1] /\ l[s[k + 1]].prev = s[k]
  /\ l[a].next = s[1] /\ l[s[1]].prev = a /\ l[s[m]].next = a /\ l[a].prev = s[m]
  /\ p = (IF i = 1 THEN a ELSE s[i - 1])
  /\ q = (IF j = m THEN a ELSE s[j + 1])
  /\ \A x \in Links : /\ l2[x].next = IF x = s[j] THEN Null ELSE IF x = p THEN q ELSE l[x].next
                      /\ l2[x].prev = IF x = s[i] THEN Null ELSE IF x = q THEN p ELSE l[x].prev

LEMMA CutLinks ==
  ASSUME NEW m, NEW i, NEW j, NEW d, NEW s, NEW t, NEW u, NEW l, NEW l2, NEW a, NEW p, NEW q,
         CutReady(m, i, j, d, s, t, u, l, l2, a, p, q)
  PROVE  /\ \A k \in 1 .. m - d - 1 : l2[u[k]].next = u[k + 1] /\ l2[u[k + 1]].prev = u[k]
         /\ m - d = 0 => l2[a].next = a /\ l2[a].prev = a
         /\ m - d # 0 => l2[a].next = u[1] /\ l2[u[1]].prev = a /\ l2[u[m - d]].next = a /\ l2[a].prev = u[m - d]
         /\ \A k \in 1 .. d - 1 : l2[t[k]].next = t[k + 1] /\ l2[t[k + 1]].prev = t[k]
         /\ l2[t[1]].prev = Null /\ l2[t[d]].next = Null
  <1> USE DEF CutReady
  <1>1. d \in 1 .. m /\ m - d \in Nat
    OBVIOUS
  <1>2. /\ i = 1 => p = a
        /\ i # 1 => p = s[i - 1] /\ i - 1 \in 1 .. m
        /\ j = m => q = a
        /\ j # m => q = s[j + 1] /\ j + 1 \in 1 .. m
        /\ p \in Links /\ q \in Links
    OBVIOUS
  <1>3. /\ \A k \in 1 .. m : (s[k] = p <=> k = i - 1) /\ (s[k] = q <=> k = j + 1)
        /\ \A k \in 1 .. m : (s[k] = s[i] <=> k = i) /\ (s[k] = s[j] <=> k = j)
        /\ a # s[i] /\ a # s[j] /\ p # s[j] /\ q # s[i]
    <2>1. ASSUME NEW k \in 1 .. m PROVE (s[k] = p <=> k = i - 1) /\ (s[k] = q <=> k = j + 1)
      BY <1>2
    <2>2. ASSUME NEW k \in 1 .. m PROVE (s[k] = s[i] <=> k = i) /\ (s[k] = s[j] <=> k = j)
      OBVIOUS
    <2>3. a # s[i] /\ a # s[j]
      OBVIOUS
    <2> QED BY <1>2, <2>1, <2>2, <2>3
  <1>4. /\ \A k \in 1 .. m : k # i - 1 /\ k # j => l2[s[k]].next = l[s[k]].next
        /\ \A k \in 1 .. m : k # j + 1 /\ k # i => l2[s[k]].prev = l[s[k]].prev
    BY <1>3
  <1>5. /\ l2[p].next = q /\ l2[q].prev = p /\ l2[s[i]].prev = Null /\ l2[s[j]].next = Null
        /\ i # 1 => l2[a].next = l[a].next
        /\ j # m => l2[a].prev = l[a].prev
    BY <1>2, <1>3
  <1>6. ASSUME NEW k \in 1 .. m - d - 1 PROVE l2[u[k]].next = u[k + 1] /\ l2[u[k + 1]].prev = u[k]
    <2>1. CASE k + 1 < i
      <3>1. u[k] = s[k] /\ u[k + 1] = s[k + 1] /\ k \in 1 .. m - 1 /\ k \in 1 .. m /\ k + 1 \in 1 .. m
            /\ k # i - 1 /\ k # j /\ k + 1 # j + 1 /\ k + 1 # i
        BY <1>1, <2>1
      <3> QED BY <1>4, <3>1
    <2>2. CASE k + 1 = i
      <3>1. u[k] = s[k] /\ u[k + 1] = s[j + 1] /\ p = s[k] /\ q = s[j + 1]
        <4>1. (k + 1) + d = j + 1 /\ k + 1 \in 1 .. m - d /\ k \in 1 .. m - d /\ ~ (k + 1 < i) /\ k < i /\ j # m /\ i # 1 /\ k = i - 1
          BY <1>1, <2>2
        <4> QED BY <1>2, <4>1
      <3> QED BY <1>5, <3>1
    <2>3. CASE k >= i
      <3>1. u[k] = s[k + d] /\ u[k + 1] = s[(k + d) + 1] /\ k + d \in 1 .. m - 1 /\ k + d \in 1 .. m
            /\ (k + d) + 1 \in 1 .. m /\ k + d # i - 1 /\ k + d # j /\ (k + d) + 1 # j + 1 /\ (k + d) + 1 # i
        <4>1. k \in 1 .. m - d /\ k + 1 \in 1 .. m - d /\ ~ (k < i) /\ ~ (k + 1 < i) /\ (k + 1) + d = (k + d) + 1
          BY <1>1, <2>3
        <4>2. u[k] = s[k + d] /\ u[k + 1] = s[(k + d) + 1]
          BY <4>1
        <4> QED BY <1>1, <2>3, <4>2
      <3> QED BY <1>4, <3>1
    <2> QED BY <2>1, <2>2, <2>3
  <1>7. m - d = 0 => l2[a].next = a /\ l2[a].prev = a
    <2>1. m - d = 0 => i = 1 /\ j = m
      OBVIOUS
    <2> QED BY <1>2, <1>5, <2>1
  <1>8. ASSUME m - d # 0
        PROVE  l2[a].next = u[1] /\ l2[u[1]].prev = a
    <2>1. 1 \in 1 .. m - d
      BY <1>1, <1>8
    <2>2. CASE i = 1
      <3>1. u[1] = s[j + 1] /\ j # m
        <4>1. ~ (1 < i) /\ 1 + d = j + 1
          BY <2>2
        <4> QED BY <1>1, <1>8, <2>1, <2>2, <4>1
      <3> QED BY <1>2, <1>5, <2>2, <3>1
    <2>3. CASE i # 1
      <3>1. u[1] = s[1] /\ 1 \in 1 .. m /\ 1 # i /\ 1 # j + 1
        BY <2>1, <2>3
      <3> QED BY <1>4, <1>5, <2>3, <3>1
    <2> QED BY <2>2, <2>3
  <1>9. ASSUME m - d # 0
        PROVE  l2[u[m - d]].next = a /\ l2[a].prev = u[m - d]
    <2>1. m - d \in 1 .. m - d
      BY <1>1, <1>9
    <2>2. CASE j = m
      <3>1. u[m - d] = s[i - 1] /\ i # 1
        <4>1. m - d < i /\ m - d = i - 1
          BY <2>2
        <4> QED BY <1>1, <1>9, <2>1, <2>2, <4>1
      <3> QED BY <1>2, <1>5, <2>2, <3>1
    <2>3. CASE j # m
      <3>1. u[m - d] = s[m] /\ m \in 1 .. m /\ m # i - 1 /\ m # j
        <4>1. j < m
          BY <2>3
        <4>2. ~ (m - d < i)
          BY <4>1
        <4>3. (m - d) + d = m
          BY <1>1
        <4> QED BY <2>1, <4>1, <4>2, <4>3
      <3> QED BY <1>4, <1>5, <2>3, <3>1
    <2> QED BY <2>2, <2>3
  <1>10. ASSUME NEW k \in 1 .. d - 1 PROVE l2[t[k]].next = t[k + 1] /\ l2[t[k + 1]].prev = t[k]
    <2>1. k \in 1 .. d /\ k + 1 \in 1 .. d /\ i + (k + 1) - 1 = (i + k - 1) + 1
      BY <1>1
    <2>2. t[k] = s[i + k - 1] /\ t[k + 1] = s[(i + k - 1) + 1]
      BY <2>1
    <2>3. /\ i + k - 1 \in 1 .. m - 1 /\ i + k - 1 \in 1 .. m /\ (i + k - 1) + 1 \in 1 .. m
          /\ i + k - 1 # i - 1 /\ i + k - 1 # j /\ (i + k - 1) + 1 # j + 1 /\ (i + k - 1) + 1 # i
      BY <1>1, <2>1
    <2> QED BY <1>4, <2>2, <2>3
  <1>11. l2[t[1]].prev = Null /\ l2[t[d]].next = Null
    <2>1. 1 \in 1 .. d /\ d \in 1 .. d /\ i + 1 - 1 = i /\ i + d - 1 = j
      BY <1>1
    <2>2. t[1] = s[i] /\ t[d] = s[j]
      BY <2>1
    <2> QED BY <1>5, <2>2
  <1> QED BY <1>6, <1>7, <1>8, <1>9, <1>10, <1>11

-----------------------------------------------------------------------------
(* The assignments of insert_after and remove, and what they amount to.    *)
LEMMA InsertAfterIs ==
  ASSUME link \in [Links -> LinkRecord], NEW p \in Links, NEW f \in Links, NEW la \in Links, NEW q \in Links,
         q = link[p].next, p # la, q # f, NEW l2, l2 = InsertAfter(p, f, la)
  PROVE  /\ l2 \in [Links -> LinkRecord]
         /\ \A x \in Links : /\ l2[x].next = IF x = p THEN f ELSE IF x = la THEN q ELSE link[x].next
                             /\ l2[x].prev = IF x = f THEN p ELSE IF x = q THEN la ELSE link[x].prev
  <1>1. PICK m1 : m1 = SetPrev(link, q, la)
    OBVIOUS
  <1>2. PICK m2 : m2 = SetNext(m1, la, m1[p].next)
    OBVIOUS
  <1>3. PICK m3 : m3 = SetNext(m2, p, f)
    OBVIOUS
  <1>4. l2 = SetPrev(m3, f, p)
    BY <1>1, <1>2, <1>3 DEF InsertAfter
  <1>5. /\ m1 \in [Links -> LinkRecord]
        /\ \A x \in Links : m1[x].next = link[x].next /\ m1[x].prev = IF x = q THEN la ELSE link[x].prev
    BY <1>1 DEF SetPrev, LinkRecord
  <1>6. /\ m2 \in [Links -> LinkRecord]
        /\ \A x \in Links : m2[x].next = (IF x = la THEN q ELSE m1[x].next) /\ m2[x].prev = m1[x].prev
    BY <1>2, <1>5 DEF SetNext, LinkRecord
  <1>7. /\ m3 \in [Links -> LinkRecord]
        /\ \A x \in Links : m3[x].next = (IF x = p THEN f ELSE m2[x].next) /\ m3[x].prev = m2[x].prev
    BY <1>3, <1>6 DEF SetNext, LinkRecord
  <1>8. /\ l2 \in [Links -> LinkRecord]
        /\ \A x \in Links : l2[x].next = m3[x].next /\ l2[x].prev = IF x = f THEN p ELSE m3[x].prev
    BY <1>4, <1>7 DEF SetPrev, LinkRecord
  <1> QED BY <1>5, <1>6, <1>7, <1>8

LEMMA CutIs ==
  ASSUME link \in [Links -> LinkRecord], NEW p \in Links, NEW f \in Links, NEW la \in Links, NEW q \in Links,
         p = link[f].prev, q = link[la].next, p # la, q # f, NEW l2, l2 = Cut(f, la)
  PROVE  /\ l2 \in [Links -> LinkRecord]
         /\ \A x \in Links : /\ l2[x].next = IF x = la THEN Null ELSE IF x = p THEN q ELSE link[x].next
                             /\ l2[x].prev = IF x = f THEN Null ELSE IF x = q THEN p ELSE link[x].prev
  <1>1. PICK m1 : m1 = SetNext(link, p, q)
    OBVIOUS
  <1>2. PICK m2 : m2 = SetPrev(m1, m1[la].next, m1[f].prev)
    OBVIOUS
  <1>3. PICK m3 : m3 = SetPrev(m2, f, Null)
    OBVIOUS
  <1>4. l2 = SetNext(m3, la, Null)
    BY <1>1, <1>2, <1>3 DEF Cut
  <1>5. /\ m1 \in [Links -> LinkRecord]
        /\ \A x \in Links : m1[x].next = (IF x = p THEN q ELSE link[x].next) /\ m1[x].prev = link[x].prev
    BY <1>1 DEF SetNext, LinkRecord
  <1>6. m1[la].next = q /\ m1[f].prev = p
    BY <1>5
  <1>7. /\ m2 \in [Links -> LinkRecord]
        /\ \A x \in Links : m2[x].next = m1[x].next /\ m2[x].prev = IF x = q THEN p ELSE m1[x].prev
    BY <1>2, <1>5, <1>6 DEF SetPrev, LinkRecord
  <1>8. /\ m3 \in [Links -> LinkRecord]
        /\ \A x \in Links : m3[x].next = m2[x].next /\ m3[x].prev = IF x = f THEN Null ELSE m2[x].prev
    BY <1>3, <1>7 DEF SetPrev, LinkRecord
  <1>9. /\ l2 \in [Links -> LinkRecord]
        /\ \A x \in Links : l2[x].next = (IF x = la THEN Null ELSE m3[x].next) /\ l2[x].prev = m3[x].prev
    BY <1>4, <1>8 DEF SetNext, LinkRecord
  <1> QED BY <1>5, <1>7, <1>8, <1>9

(* The contents after an insertion, a splice and a removal.                *)
LEMMA InsertAtIs ==
  ASSUME NEW s \in Seq(Elem), NEW x \in Elem, NEW i \in 1 .. Len(s) + 1
  PROVE  InsertAt(s, i, x) \in Seq(Elem) /\ Spliced(s, i, <<x>>, InsertAt(s, i, x))
  <1>1. PICK m, b, c, r, u : /\ m = Len(s) /\ b = SubSeq(s, 1, i - 1) /\ c = SubSeq(s, i, m) /\ r = b \o <<x>> /\ u = r \o c
    OBVIOUS
  <1>2. m \in Nat /\ i \in 1 .. m + 1 /\ u = InsertAt(s, i, x)
    BY <1>1, LenProperties DEF InsertAt
  <1>3. b \in Seq(Elem) /\ Len(b) = i - 1 /\ \A k \in 1 .. i - 1 : b[k] = s[k]
    <2>1. \A k \in 1 .. i - 1 : s[k] \in Elem
      BY <1>1, <1>2, ElementOfSeq
    <2> QED BY <1>1, <1>2, <2>1, SubSeqProperties
  <1>4. c \in Seq(Elem) /\ Len(c) = m - i + 1 /\ \A k \in 1 .. m - i + 1 : c[k] = s[i + k - 1]
    <2>1. \A k \in i .. m : s[k] \in Elem
      BY <1>1, <1>2, ElementOfSeq
    <2>2. c \in Seq(Elem) /\ Len(c) = IF i <= m THEN m - i + 1 ELSE 0
      BY <1>1, <1>2, <2>1, SubSeqProperties
    <2>3. \A k \in 1 .. m - i + 1 : c[k] = s[i + k - 1]
      BY <1>1, <1>2, <2>1, SubSeqProperties
    <2>4. (IF i <= m THEN m - i + 1 ELSE 0) = m - i + 1
      BY <1>2
    <2> QED BY <2>2, <2>3, <2>4
  <1>5. <<x>> \in Seq(Elem) /\ Len(<<x>>) = 1 /\ <<x>>[1] = x
    OBVIOUS
  <1>6. r \in Seq(Elem) /\ Len(r) = i /\ \A k \in 1 .. i : r[k] = IF k < i THEN s[k] ELSE x
    <2>1. r \in Seq(Elem) /\ Len(r) = (i - 1) + 1 /\ \A k \in 1 .. (i - 1) + 1 : r[k] = IF k <= i - 1 THEN b[k] ELSE <<x>>[k - (i - 1)]
      BY <1>1, <1>3, <1>5, ConcatProperties
    <2>2. ASSUME NEW k \in 1 .. i PROVE r[k] = IF k < i THEN s[k] ELSE x
      <3>1. ~ (k < i) => k - (i - 1) = 1 /\ ~ (k <= i - 1)
        BY <1>2
      <3>2. k \in 1 .. (i - 1) + 1 /\ (k < i => k <= i - 1)
        BY <1>2
      <3>3. r[k] = IF k <= i - 1 THEN b[k] ELSE <<x>>[k - (i - 1)]
        BY <2>1, <3>2
      <3>4. k < i => r[k] = s[k]
        BY <1>2, <1>3, <3>2, <3>3
      <3>5. ~ (k < i) => r[k] = x
        BY <1>5, <3>1, <3>3
      <3> QED BY <3>4, <3>5
    <2> QED BY <1>2, <2>1, <2>2
  <1>7. u \in Seq(Elem) /\ Len(u) = m + 1 /\ \A k \in 1 .. m + 1 : u[k] = IF k <= i THEN r[k] ELSE c[k - i]
    <2>0. r \in Seq(Elem) /\ c \in Seq(Elem) /\ Len(r) = i /\ Len(c) = m - i + 1 /\ u = r \o c
      BY <1>1, <1>4, <1>6
    <2>1. u \in Seq(Elem) /\ Len(u) = i + (m - i + 1)
          /\ \A k \in 1 .. i + (m - i + 1) : u[k] = IF k <= i THEN r[k] ELSE c[k - i]
      <3>1. PICK y : y = m - i + 1
        OBVIOUS
      <3>2. i = Len(r) /\ y = Len(c)
        BY <2>0, <3>1
      <3>3. u \in Seq(Elem) /\ Len(u) = i + y /\ \A k \in 1 .. i + y : u[k] = IF k <= i THEN r[k] ELSE c[k - i]
        <4>1. r \in Seq(Elem) /\ c \in Seq(Elem)
          BY <2>0
        <4>2. /\ r \o c \in Seq(Elem) /\ Len(r \o c) = Len(r) + Len(c)
              /\ \A k \in 1 .. Len(r) + Len(c) : (r \o c)[k] = IF k <= Len(r) THEN r[k] ELSE c[k - Len(r)]
          BY <4>1, ConcatProperties
        <4> QED BY <2>0, <3>2, <4>2
      <3> QED BY <3>1, <3>3
    <2>2. i + (m - i + 1) = m + 1
      BY <1>2
    <2> QED BY <2>1, <2>2
  <1>8. ASSUME NEW k \in 1 .. m + 1
        PROVE  u[k] = IF k < i THEN s[k] ELSE IF k < i + 1 THEN <<x>>[k - i + 1] ELSE s[k - 1]
    <2>1. CASE k < i
      BY <1>2, <1>6, <1>7, <2>1
    <2>2. CASE k = i
      <3>1. k - i + 1 = 1 /\ k \in 1 .. i
        BY <1>2, <2>2
      <3> QED BY <1>2, <1>5, <1>6, <1>7, <2>2, <3>1
    <2>3. CASE k > i
      <3>1. k - i \in 1 .. m - i + 1 /\ i + (k - i) - 1 = k - 1 /\ ~ (k <= i)
        BY <1>2, <2>3
      <3>2. u[k] = c[k - i] /\ c[k - i] = s[i + (k - i) - 1]
        BY <1>4, <1>7, <3>1
      <3>3. ~ (k < i) /\ ~ (k < i + 1)
        BY <1>2, <2>3
      <3> QED BY <3>1, <3>2, <3>3
    <2> QED BY <1>2, <2>1, <2>2, <2>3
  <1> QED BY <1>1, <1>2, <1>5, <1>7, <1>8 DEF Spliced

LEMMA SplicedBack ==
  ASSUME NEW s \in Seq(Elem), NEW t \in Seq(Elem)
  PROVE  s \o t \in Seq(Elem) /\ Spliced(s, Len(s) + 1, t, s \o t)
  <1>1. PICK m, n, u : m = Len(s) /\ n = Len(t) /\ u = s \o t
    OBVIOUS
  <1>2. /\ u \in Seq(Elem) /\ Len(u) = m + n /\ m \in Nat /\ n \in Nat
        /\ \A k \in 1 .. m + n : u[k] = IF k <= m THEN s[k] ELSE t[k - m]
    BY <1>1, ConcatProperties, LenProperties
  <1>3. ASSUME NEW k \in 1 .. m + n
        PROVE  u[k] = IF k < m + 1 THEN s[k] ELSE IF k < m + 1 + n THEN t[k - (m + 1) + 1] ELSE s[k - n]
    <2>1. k - (m + 1) + 1 = k - m /\ (k < m + 1 <=> k <= m) /\ k < m + 1 + n
      BY <1>2
    <2> QED BY <1>2, <2>1
  <1> QED BY <1>1, <1>2, <1>3 DEF Spliced

(* u is s without s[i] .. s[j].                                            *)
CutOut(s, i, j, u) ==
  /\ Len(u) = Len(s) - (j - i + 1)
  /\ \A k \in 1 .. Len(u) : u[k] = IF k < i THEN s[k] ELSE s[k + (j - i + 1)]

LEMMA CutOutIs ==
  ASSUME NEW s \in Seq(Elem), NEW i \in 1 .. Len(s), NEW j \in i .. Len(s), NEW u,
         u = SubSeq(s, 1, i - 1) \o SubSeq(s, j + 1, Len(s))
  PROVE  u \in Seq(Elem) /\ CutOut(s, i, j, u)
  <1>1. PICK m, b, c : m = Len(s) /\ b = SubSeq(s, 1, i - 1) /\ c = SubSeq(s, j + 1, m)
    OBVIOUS
  <1>2. m \in Nat /\ i \in 1 .. m /\ j \in i .. m
    BY <1>1, LenProperties
  <1>3. b \in Seq(Elem) /\ Len(b) = i - 1 /\ \A k \in 1 .. i - 1 : b[k] = s[k]
    <2>1. \A k \in 1 .. i - 1 : s[k] \in Elem
      BY <1>1, <1>2, ElementOfSeq
    <2> QED BY <1>1, <1>2, <2>1, SubSeqProperties
  <1>4. c \in Seq(Elem) /\ Len(c) = m - j /\ \A k \in 1 .. m - j : c[k] = s[j + k]
    <2>1. \A k \in j + 1 .. m : s[k] \in Elem
      BY <1>1, <1>2, ElementOfSeq
    <2>2. c \in Seq(Elem) /\ Len(c) = IF j + 1 <= m THEN m - (j + 1) + 1 ELSE 0
      BY <1>1, <1>2, <2>1, SubSeqProperties
    <2>3. \A k \in 1 .. m - (j + 1) + 1 : c[k] = s[(j + 1) + k - 1]
      BY <1>1, <1>2, <2>1, SubSeqProperties
    <2> QED BY <1>2, <2>2, <2>3
  <1>5. /\ u \in Seq(Elem) /\ Len(u) = m - (j - i + 1)
        /\ \A k \in 1 .. m - (j - i + 1) : u[k] = IF k <= i - 1 THEN b[k] ELSE c[k - (i - 1)]
    <2>0. b \in Seq(Elem) /\ c \in Seq(Elem) /\ Len(b) = i - 1 /\ Len(c) = m - j /\ u = b \o c
      BY <1>1, <1>3, <1>4
    <2>1. u \in Seq(Elem) /\ Len(u) = (i - 1) + (m - j)
          /\ \A k \in 1 .. (i - 1) + (m - j) : u[k] = IF k <= i - 1 THEN b[k] ELSE c[k - (i - 1)]
      <3>1. PICK x, y : x = i - 1 /\ y = m - j
        OBVIOUS
      <3>2. x = Len(b) /\ y = Len(c)
        BY <2>0, <3>1
      <3>3. u \in Seq(Elem) /\ Len(u) = x + y /\ \A k \in 1 .. x + y : u[k] = IF k <= x THEN b[k] ELSE c[k - x]
        <4>1. b \in Seq(Elem) /\ c \in Seq(Elem)
          BY <2>0
        <4>2. /\ b \o c \in Seq(Elem) /\ Len(b \o c) = Len(b) + Len(c)
              /\ \A k \in 1 .. Len(b) + Len(c) : (b \o c)[k] = IF k <= Len(b) THEN b[k] ELSE c[k - Len(b)]
          BY <4>1, ConcatProperties
        <4> QED BY <2>0, <3>2, <4>2
      <3> QED BY <3>1, <3>3
    <2>2. (i - 1) + (m - j) = m - (j - i + 1)
      BY <1>2
    <2> QED BY <2>1, <2>2
  <1>6. ASSUME NEW k \in 1 .. m - (j - i + 1) PROVE u[k] = IF k < i THEN s[k] ELSE s[k + (j - i + 1)]
    <2>1. CASE k < i
      <3>1. k \in 1 .. i - 1 /\ k <= i - 1
        BY <1>2, <2>1
      <3> QED BY <1>3, <1>5, <2>1, <3>1
    <2>2. CASE ~ (k < i)
      <3>1. k - (i - 1) \in 1 .. m - j /\ j + (k - (i - 1)) = k + (j - i + 1) /\ ~ (k <= i - 1)
        BY <1>2, <2>2
      <3>2. u[k] = c[k - (i - 1)] /\ c[k - (i - 1)] = s[j + (k - (i - 1))]
        BY <1>4, <1>5, <3>1
      <3> QED BY <2>2, <3>1, <3>2
    <2> QED BY <2>1, <2>2
  <1> QED BY <1>1, <1>5, <1>6 DEF CutOut

-----------------------------------------------------------------------------
(* Every element is at most once on the lists and in the chain.            *)
RingInv ==
  /\ link \in [Links -> LinkRecord]
  /\ content \in [ListAnchor -> Seq(Elem)]
  /\ chain \in Seq(Elem)
  /\ \A a \in ListAnchor : Distinct(content[a]) /\ Apart(content[a], chain)
  /\ \A a, b \in ListAnchor : a # b => Apart(content[a], content[b])
  /\ Distinct(chain)
  /\ RingsSound

(* Its parts, with the links made explicit.                                *)
OnNoList(con, ch, x) ==
  /\ \A a \in ListAnchor : \A k \in 1 .. Len(con[a]) : con[a][k] # x
  /\ \A k \in 1 .. Len(ch) : ch[k] # x

LEMMA RingsSoundIs ==
  ASSUME content \in [ListAnchor -> Seq(Elem)], chain \in Seq(Elem)
  PROVE  RingsSound <=>
           /\ \A a \in ListAnchor : LinkedIn(link, RingOf(a, content[a]))
           /\ chain # <<>> => LinkedIn(link, chain) /\ link[chain[1]].prev = Null /\ link[chain[Len(chain)]].next = Null
           /\ \A x \in Elem : OnNoList(content, chain, x) => link[x] = [prev |-> Null, next |-> Null]
  <1>1. \A a \in ListAnchor : Linked(Ring(a)) <=> LinkedIn(link, RingOf(a, content[a]))
    BY DEF Linked, LinkedIn, Ring, RingOf
  <1>2. Linked(chain) <=> LinkedIn(link, chain)
    BY DEF Linked, LinkedIn
  <1>3. chain # <<>> => Head(chain) = chain[1] /\ Last(chain) = chain[Len(chain)]
    BY DEF Last
  <1>4. ASSUME NEW x \in Elem
        PROVE  (\A a \in ListAnchor : x \notin ToSet(content[a])) /\ ~InChain(x) <=> OnNoList(content, chain, x)
    <2>1. \A a \in ListAnchor : DOMAIN content[a] = 1 .. Len(content[a])
      BY LenProperties
    <2>2. DOMAIN chain = 1 .. Len(chain)
      BY LenProperties
    <2>3. \A a \in ListAnchor : x \notin ToSet(content[a]) <=> \A k \in 1 .. Len(content[a]) : content[a][k] # x
      BY <2>1 DEF ToSet
    <2>4. ~InChain(x) <=> \A k \in 1 .. Len(chain) : chain[k] # x
      BY <2>2 DEF ToSet, InChain
    <2> QED BY <2>3, <2>4 DEF OnNoList
  <1> QED BY <1>1, <1>2, <1>3, <1>4 DEF RingsSound

LEMMA RingsSoundIsNext ==
  ASSUME content' \in [ListAnchor -> Seq(Elem)], chain' \in Seq(Elem)
  PROVE  RingsSound' <=>
           /\ \A a \in ListAnchor : LinkedIn(link', RingOf(a, content'[a]))
           /\ chain' # <<>> => LinkedIn(link', chain') /\ link'[chain'[1]].prev = Null /\ link'[chain'[Len(chain')]].next = Null
           /\ \A x \in Elem : OnNoList(content', chain', x) => link'[x] = [prev |-> Null, next |-> Null]
  <1>1. \A a \in ListAnchor : Linked(Ring(a))' <=> LinkedIn(link', RingOf(a, content'[a]))
    BY DEF Linked, LinkedIn, Ring, RingOf
  <1>2. Linked(chain)' <=> LinkedIn(link', chain')
    BY DEF Linked, LinkedIn
  <1>3. chain' # <<>> => Head(chain') = chain'[1] /\ Last(chain') = chain'[Len(chain')]
    BY DEF Last
  <1>4. ASSUME NEW x \in Elem
        PROVE  (\A a \in ListAnchor : x \notin ToSet(content'[a])) /\ ~InChain(x)' <=> OnNoList(content', chain', x)
    <2>1. \A a \in ListAnchor : DOMAIN content'[a] = 1 .. Len(content'[a])
      BY LenProperties
    <2>2. DOMAIN chain' = 1 .. Len(chain')
      BY LenProperties
    <2>3. \A a \in ListAnchor : x \notin ToSet(content'[a]) <=> \A k \in 1 .. Len(content'[a]) : content'[a][k] # x
      BY <2>1 DEF ToSet
    <2>4. ~InChain(x)' <=> \A k \in 1 .. Len(chain') : chain'[k] # x
      BY <2>2 DEF ToSet, InChain
    <2> QED BY <2>3, <2>4 DEF OnNoList
  <1> QED BY <1>1, <1>2, <1>3, <1>4 DEF RingsSound

(* What does not touch the links of a sequence leaves it linked.           *)
LEMMA KeptLinked ==
  ASSUME NEW l, NEW l2, NEW r, LinkedIn(l, r), \A k \in 1 .. Len(r) : l2[r[k]] = l[r[k]], Len(r) \in Nat
  PROVE  LinkedIn(l2, r)
  <1> SUFFICES ASSUME NEW k \in 1 .. Len(r) - 1 PROVE l2[r[k]].next = r[k + 1] /\ l2[r[k + 1]].prev = r[k]
    BY DEF LinkedIn
  <1>1. k \in 1 .. Len(r) /\ k + 1 \in 1 .. Len(r)
    OBVIOUS
  <1> QED BY <1>1 DEF LinkedIn

LEMMA KeptRing ==
  ASSUME NEW l, NEW l2, NEW b \in ListAnchor, NEW s \in Seq(Elem), LinkedIn(l, RingOf(b, s)),
         l2[b] = l[b], \A k \in 1 .. Len(s) : l2[s[k]] = l[s[k]]
  PROVE  LinkedIn(l2, RingOf(b, s))
  <1>1. PICK r : r = RingOf(b, s)
    OBVIOUS
  <1>2. /\ Len(s) \in Nat /\ Len(r) = Len(s) + 2 /\ r[1] = b /\ r[Len(s) + 2] = b
        /\ \A i \in 2 .. Len(s) + 1 : r[i] = s[i - 1]
    BY <1>1, RingFacts
  <1>3. ASSUME NEW k \in 1 .. Len(r) PROVE l2[r[k]] = l[r[k]]
    <2>1. k = 1 \/ k = Len(s) + 2 \/ (k \in 2 .. Len(s) + 1 /\ k - 1 \in 1 .. Len(s))
      BY <1>2
    <2>2. CASE k \in 2 .. Len(s) + 1 /\ k - 1 \in 1 .. Len(s)
      <3>1. r[k] = s[k - 1]
        BY <1>2, <2>2
      <3> QED BY <2>2, <3>1
    <2>3. CASE k = 1 \/ k = Len(s) + 2
      BY <1>2, <2>3
    <2> QED BY <2>1, <2>2, <2>3
  <1>4. Len(r) \in Nat
    BY <1>2
  <1> QED BY <1>1, <1>3, <1>4, KeptLinked

(* The ring of the elements of s, as the core lemmas have it, and back.    *)
RingLinks(l, a, s, m) ==
  /\ \A k \in 1 .. m - 1 : l[s[k]].next = s[k + 1] /\ l[s[k + 1]].prev = s[k]
  /\ m = 0 => l[a].next = a /\ l[a].prev = a
  /\ m # 0 => l[a].next = s[1] /\ l[s[1]].prev = a /\ l[s[m]].next = a /\ l[a].prev = s[m]

LEMMA RingParts ==
  ASSUME NEW a \in ListAnchor, NEW s \in Seq(Elem), NEW m, m = Len(s), NEW l
  PROVE  /\ m \in Nat /\ a \in Links
         /\ \A k \in 1 .. m : s[k] \in Links /\ s[k] \in Elem /\ s[k] # a
         /\ LinkedIn(l, RingOf(a, s)) <=> RingLinks(l, a, s, m)
  <1>1. m \in Nat /\ (m = 0 <=> s = <<>>)
    BY LenProperties, EmptySeq
  <1>2. \A k \in 1 .. m : s[k] \in Elem
    BY <1>1, ElementOfSeq
  <1>3. a \in Links /\ \A k \in 1 .. m : s[k] \in Links /\ s[k] # a
    BY <1>2, IntrusiveListAssumption DEF Links
  <1>4. LinkedIn(l, s) <=> \A k \in 1 .. m - 1 : l[s[k]].next = s[k + 1] /\ l[s[k + 1]].prev = s[k]
    BY DEF LinkedIn
  <1>5. LinkedIn(l, RingOf(a, s)) <=>
           /\ LinkedIn(l, s)
           /\ s = <<>> => l[a].next = a /\ l[a].prev = a
           /\ s # <<>> => /\ l[a].next = s[1] /\ l[s[1]].prev = a
                          /\ l[s[Len(s)]].next = a /\ l[a].prev = s[Len(s)]
    BY RingLinked
  <1> QED BY <1>1, <1>2, <1>3, <1>4, <1>5 DEF RingLinks

(* An insertion of t, new or the chain, into the ring of a.                *)
SpliceTaken(a, i, t, u) ==
  /\ a \in ListAnchor /\ i \in 1 .. Len(content[a]) + 1
  /\ t \in Seq(Elem) /\ t # <<>> /\ Distinct(t) /\ LinkedIn(link, t) /\ \A b \in ListAnchor : Apart(content[b], t)
  /\ u \in Seq(Elem) /\ Spliced(content[a], i, t, u)
  /\ link' = InsertAfter(Ring(a)[i], t[1], t[Len(t)]) /\ content' = [content EXCEPT ![a] = u]
  /\ \/ chain' = chain /\ Apart(t, chain)
     \/ chain' = <<>> /\ t = chain

LEMMA InsertStep ==
  ASSUME RingInv, NEW a, NEW i, NEW t, NEW u, SpliceTaken(a, i, t, u)
  PROVE  RingInv'
  <1>a. a \in ListAnchor /\ t \in Seq(Elem) /\ u \in Seq(Elem) /\ \A b \in ListAnchor : Apart(content[b], t)
    BY DEF SpliceTaken
  <1>b. \/ chain' = chain /\ Apart(t, chain)
        \/ chain' = <<>> /\ t = chain
    BY DEF SpliceTaken
  <1>1. PICK s, m, n, p, q : /\ s = content[a] /\ m = Len(s) /\ n = Len(t)
                             /\ p = (IF i = 1 THEN a ELSE s[i - 1]) /\ q = (IF i = m + 1 THEN a ELSE s[i])
    OBVIOUS
  <1>2. /\ link \in [Links -> LinkRecord] /\ content \in [ListAnchor -> Seq(Elem)] /\ chain \in Seq(Elem)
        /\ \A b \in ListAnchor : Distinct(content[b]) /\ Apart(content[b], chain)
        /\ \A b, c \in ListAnchor : b # c => Apart(content[b], content[c])
        /\ Distinct(chain) /\ RingsSound
    BY DEF RingInv
  <1>3. /\ \A b \in ListAnchor : LinkedIn(link, RingOf(b, content[b]))
        /\ chain # <<>> => LinkedIn(link, chain) /\ link[chain[1]].prev = Null /\ link[chain[Len(chain)]].next = Null
        /\ \A x \in Elem : OnNoList(content, chain, x) => link[x] = [prev |-> Null, next |-> Null]
    BY <1>2, RingsSoundIs
  <1>4. /\ s \in Seq(Elem) /\ m \in Nat /\ a \in Links /\ i \in 1 .. m + 1
        /\ \A k \in 1 .. m : s[k] \in Links /\ s[k] \in Elem /\ s[k] # a
        /\ \A k \in 1 .. m - 1 : link[s[k]].next = s[k + 1] /\ link[s[k + 1]].prev = s[k]
        /\ m = 0 => link[a].next = a /\ link[a].prev = a
        /\ m # 0 => link[a].next = s[1] /\ link[s[1]].prev = a /\ link[s[m]].next = a /\ link[a].prev = s[m]
    <2>1. s \in Seq(Elem) /\ LinkedIn(link, RingOf(a, s))
      BY <1>a, <1>1, <1>2, <1>3
    <2>2. /\ m \in Nat /\ a \in Links /\ \A k \in 1 .. m : s[k] \in Links /\ s[k] \in Elem /\ s[k] # a
          /\ LinkedIn(link, RingOf(a, s)) <=> RingLinks(link, a, s, m)
      BY <1>a, <1>1, <2>1, RingParts
    <2>3. RingLinks(link, a, s, m) /\ i \in 1 .. m + 1
      BY <1>1, <2>1, <2>2 DEF SpliceTaken
    <2> QED BY <2>1, <2>2, <2>3 DEF RingLinks
  <1>5. /\ n \in Nat /\ n > 0
        /\ \A k \in 1 .. n : t[k] \in Links /\ t[k] \in Elem /\ t[k] # a
        /\ \A k \in 1 .. n - 1 : link[t[k]].next = t[k + 1] /\ link[t[k + 1]].prev = t[k]
    <2>1. n \in Nat /\ \A k \in 1 .. n : t[k] \in Links /\ t[k] \in Elem /\ t[k] # a
      BY <1>a, <1>1, RingParts
    <2>2. n > 0
      BY <1>a, <1>1, <2>1, EmptySeq DEF SpliceTaken
    <2>3. \A k \in 1 .. n - 1 : link[t[k]].next = t[k + 1] /\ link[t[k + 1]].prev = t[k]
      BY <1>1 DEF LinkedIn, SpliceTaken
    <2> QED BY <2>1, <2>2, <2>3
  <1>6. /\ \A x, y \in 1 .. m : s[x] = s[y] => x = y
        /\ \A x, y \in 1 .. n : t[x] = t[y] => x = y
        /\ \A x \in 1 .. m, y \in 1 .. n : s[x] # t[y]
    BY <1>a, <1>1, <1>2 DEF Distinct, Apart, SpliceTaken
  <1>7. Len(u) = m + n /\ \A k \in 1 .. m + n : u[k] = IF k < i THEN s[k] ELSE IF k < i + n THEN t[k - i + 1] ELSE s[k - n]
    BY <1>1 DEF Spliced, SpliceTaken
  <1>8. p = Ring(a)[i]
    <2>1. PICK r : r = RingOf(a, s)
      OBVIOUS
    <2>2. r[1] = a /\ \A k \in 2 .. m + 1 : r[k] = s[k - 1]
      BY <1>1, <1>4, <2>1, RingFacts
    <2>3. r[i] = p
      <3>1. CASE i = 1
        BY <1>1, <2>2, <3>1
      <3>2. CASE i # 1
        <4>1. i \in 2 .. m + 1
          BY <1>4, <3>2
        <4> QED BY <1>1, <2>2, <3>2, <4>1
      <3> QED BY <3>1, <3>2
    <2> QED BY <1>1, <2>1, <2>3 DEF Ring, RingOf
  <1>9. p \in Links /\ q \in Links /\ q = link[p].next
    <2>1. CASE i = 1
      BY <1>1, <1>4, <2>1
    <2>2. CASE i # 1 /\ i # m + 1
      <3>1. i - 1 \in 1 .. m - 1 /\ i - 1 \in 1 .. m /\ i \in 1 .. m /\ (i - 1) + 1 = i
        BY <1>4, <2>2
      <3> QED BY <1>1, <1>4, <2>2, <3>1
    <2>3. CASE i # 1 /\ i = m + 1
      <3>1. i - 1 = m /\ m # 0 /\ m \in 1 .. m
        BY <1>4, <2>3
      <3> QED BY <1>1, <1>4, <2>3, <3>1
    <2> QED BY <2>1, <2>2, <2>3
  <1>10. \A k \in 1 .. n : t[k] # p /\ t[k] # q
    <2> SUFFICES ASSUME NEW k \in 1 .. n PROVE t[k] # p /\ t[k] # q
      OBVIOUS
    <2>1. i # 1 => i - 1 \in 1 .. m
      BY <1>4
    <2>2. i # m + 1 => i \in 1 .. m
      BY <1>4
    <2> QED BY <1>1, <1>5, <1>6, <2>1, <2>2
  <1>11. 1 \in 1 .. n /\ n \in 1 .. n
    BY <1>5
  <1>12. /\ link' \in [Links -> LinkRecord]
         /\ \A x \in Links : /\ link'[x].next = IF x = p THEN t[1] ELSE IF x = t[n] THEN q ELSE link[x].next
                             /\ link'[x].prev = IF x = t[1] THEN p ELSE IF x = q THEN t[n] ELSE link[x].prev
    <2>1. t[1] \in Links /\ t[n] \in Links /\ p # t[n] /\ q # t[1]
      BY <1>5, <1>10, <1>11
    <2>2. link' = InsertAfter(p, t[1], t[n])
      BY <1>1, <1>8 DEF SpliceTaken
    <2> QED BY <1>2, <1>9, <2>1, <2>2, InsertAfterIs
  <1>13. LinkedIn(link', RingOf(a, u))
    <2>1. /\ \A k \in 1 .. m + n - 1 : link'[u[k]].next = u[k + 1] /\ link'[u[k + 1]].prev = u[k]
          /\ link'[a].next = u[1] /\ link'[u[1]].prev = a /\ link'[u[m + n]].next = a /\ link'[a].prev = u[m + n]
      <3>1. PICK l2 : l2 = link'
        OBVIOUS
      <3>2. InsertReady(m, n, i, s, t, u, link, l2, a, p, q)
        BY <1>1, <1>4, <1>5, <1>6, <1>7, <1>12, <3>1 DEF InsertReady
      <3> QED BY <3>1, <3>2, InsertedLinks
    <2>2. PICK w : w = m + n
      OBVIOUS
    <2>3. w # 0 /\ w = Len(u)
      BY <1>4, <1>5, <1>7, <2>2
    <2>4. RingLinks(link', a, u, w)
      <3>1. /\ \A k \in 1 .. w - 1 : link'[u[k]].next = u[k + 1] /\ link'[u[k + 1]].prev = u[k]
            /\ link'[a].next = u[1] /\ link'[u[1]].prev = a /\ link'[u[w]].next = a /\ link'[a].prev = u[w]
        BY <1>4, <1>5, <2>1, <2>2
      <3> QED BY <2>3, <3>1 DEF RingLinks
    <2>5. LinkedIn(link', RingOf(a, u)) <=> RingLinks(link', a, u, w)
      BY <1>a, <2>3, RingParts
    <2> QED BY <2>4, <2>5
  <1>14. ASSUME NEW x \in Links, x # a, \A k \in 1 .. m : s[k] # x, \A k \in 1 .. n : t[k] # x
         PROVE  link'[x] = link[x]
    <2>1. x # p /\ x # q /\ x # t[1] /\ x # t[n]
      <3>1. i # 1 => i - 1 \in 1 .. m
        BY <1>4
      <3>2. i # m + 1 => i \in 1 .. m
        BY <1>4
      <3> QED BY <1>1, <1>11, <1>14, <3>1, <3>2
    <2>2. link'[x].next = link[x].next /\ link'[x].prev = link[x].prev
      BY <1>12, <1>14, <2>1
    <2>3. link'[x] \in LinkRecord /\ link[x] \in LinkRecord
      BY <1>2, <1>12, <1>14
    <2> QED BY <2>2, <2>3 DEF LinkRecord
  <1>15. /\ \A x, y \in 1 .. m + n : u[x] = u[y] => x = y
         /\ \A x : (\E k \in 1 .. m + n : u[k] = x) <=> (\E k \in 1 .. m : s[k] = x) \/ (\E k \in 1 .. n : t[k] = x)
    <2>1. m \in Nat /\ n \in Nat /\ i \in 1 .. m + 1
      BY <1>4, <1>5
    <2>2. SpliceReady(m, n, i, s, t, u)
      BY <1>7, <2>1 DEF SpliceReady
    <2>3. SpliceDone(m, n, s, t, u)
      BY <2>2, SplicedFacts
    <2> QED BY <1>6, <2>3 DEF SpliceDone
  <1>16. content' \in [ListAnchor -> Seq(Elem)] /\ content'[a] = u /\ \A b \in ListAnchor : b # a => content'[b] = content[b]
    BY <1>2 DEF SpliceTaken
  <1>17. chain' \in Seq(Elem)
    <2>1. CASE chain' = chain
      BY <1>2, <2>1
    <2>2. CASE chain' = <<>>
      BY <2>2
    <2> QED BY <1>b, <2>1, <2>2
  <1>18. ASSUME NEW b \in ListAnchor PROVE LinkedIn(link', RingOf(b, content'[b]))
    <2>1. CASE b = a
      BY <1>13, <1>16, <2>1
    <2>2. CASE b # a
      <3>1. content[b] \in Seq(Elem) /\ LinkedIn(link, RingOf(b, content[b])) /\ b \in Links
        BY <1>2, <1>3 DEF Links
      <3>2. ASSUME NEW k \in 1 .. Len(content[b]) PROVE link'[content[b][k]] = link[content[b][k]]
        <4>1. content[b][k] \in Links /\ content[b][k] # a
          <5>1. content[b][k] \in Elem
            BY <3>1, <3>2, ElementOfSeq
          <5> QED BY <1>a, <5>1, IntrusiveListAssumption DEF Links
        <4>2. \A j \in 1 .. m : s[j] # content[b][k]
          BY <1>a, <1>1, <1>2, <2>2, <3>2 DEF Apart
        <4>3. \A j \in 1 .. n : t[j] # content[b][k]
          BY <1>a, <1>1, <3>2 DEF Apart
        <4> QED BY <1>14, <4>1, <4>2, <4>3
      <3>3. link'[b] = link[b]
        <4>1. (\A k \in 1 .. m : s[k] # b) /\ (\A k \in 1 .. n : t[k] # b)
          BY <1>4, <1>5, IntrusiveListAssumption
        <4> QED BY <1>14, <2>2, <3>1, <4>1
      <3>4. LinkedIn(link', RingOf(b, content[b]))
        BY <3>1, <3>2, <3>3, KeptRing
      <3> QED BY <1>16, <2>2, <3>4
    <2> QED BY <2>1, <2>2
  <1>19. ASSUME chain' # <<>>
         PROVE  LinkedIn(link', chain') /\ link'[chain'[1]].prev = Null /\ link'[chain'[Len(chain')]].next = Null
    <2>1. chain' = chain /\ Apart(t, chain) /\ chain # <<>>
      BY <1>b, <1>19
    <2>2. Len(chain) \in Nat /\ Len(chain) # 0
      BY <1>2, <2>1, LenProperties, EmptySeq
    <2>3. ASSUME NEW k \in 1 .. Len(chain) PROVE link'[chain[k]] = link[chain[k]]
      <3>1. chain[k] \in Links /\ chain[k] # a
        <4>1. chain[k] \in Elem
          BY <1>2, <2>3, ElementOfSeq
        <4> QED BY <1>a, <4>1, IntrusiveListAssumption DEF Links
      <3>2. \A j \in 1 .. m : s[j] # chain[k]
        BY <1>a, <1>1, <1>2, <2>3 DEF Apart
      <3>3. \A j \in 1 .. n : t[j] # chain[k]
        BY <1>1, <2>1, <2>3 DEF Apart
      <3> QED BY <1>14, <3>1, <3>2, <3>3
    <2>4. LinkedIn(link', chain)
      BY <1>3, <2>1, <2>2, <2>3, KeptLinked
    <2>5. 1 \in 1 .. Len(chain) /\ Len(chain) \in 1 .. Len(chain)
      BY <2>2
    <2> QED BY <1>3, <2>1, <2>3, <2>4, <2>5
  <1>20. ASSUME NEW x \in Elem, OnNoList(content', chain', x) PROVE link'[x] = [prev |-> Null, next |-> Null]
    <2>1. x \in Links /\ x # a
      BY <1>a, IntrusiveListAssumption DEF Links
    <2>2. \A b \in ListAnchor : \A k \in 1 .. Len(content'[b]) : content'[b][k] # x
      BY <1>20 DEF OnNoList
    <2>3. (\A k \in 1 .. m : s[k] # x) /\ (\A k \in 1 .. n : t[k] # x)
      <3>1. \A k \in 1 .. m + n : u[k] # x
        BY <1>a, <1>7, <1>16, <2>2
      <3> QED BY <1>15, <3>1
    <2>4. \A k \in 1 .. Len(chain) : chain[k] # x
      <3>1. CASE chain' = chain
        BY <1>20, <3>1 DEF OnNoList
      <3>2. CASE t = chain
        BY <1>1, <2>3, <3>2
      <3> QED BY <1>b, <3>1, <3>2
    <2>5. ASSUME NEW b \in ListAnchor, NEW k \in 1 .. Len(content[b]) PROVE content[b][k] # x
      <3>1. CASE b = a
        BY <1>1, <2>3, <2>5, <3>1
      <3>2. CASE b # a
        BY <1>16, <2>2, <2>5, <3>2
      <3> QED BY <1>b, <3>1, <3>2
    <2>6. OnNoList(content, chain, x)
      BY <2>4, <2>5 DEF OnNoList
    <2> QED BY <1>3, <1>14, <2>1, <2>3, <2>6
  <1>21. RingsSound'
    BY <1>16, <1>17, <1>18, <1>19, <1>20, RingsSoundIsNext
  <1>22. ASSUME NEW b \in ListAnchor PROVE Distinct(content'[b]) /\ Apart(content'[b], chain')
    <2>1. CASE b = a
      <3>1. Distinct(u)
        BY <1>7, <1>15 DEF Distinct
      <3>2. Apart(u, chain')
        <4> SUFFICES ASSUME NEW k \in 1 .. m + n, NEW j \in 1 .. Len(chain'), u[k] = chain'[j] PROVE FALSE
          BY <1>7 DEF Apart
        <4>1. (\E h \in 1 .. m : s[h] = u[k]) \/ (\E h \in 1 .. n : t[h] = u[k])
          BY <1>15
        <4>2. CASE chain' = chain /\ Apart(t, chain)
          <5>1. (\A h \in 1 .. m : s[h] # chain[j]) /\ (\A h \in 1 .. n : t[h] # chain[j])
            BY <1>a, <1>1, <1>2, <4>2 DEF Apart
          <5> QED BY <4>1, <4>2, <5>1
        <4>3. CASE chain' = <<>>
          <5>1. Len(chain') = 0
            BY <4>3
          <5> QED BY <5>1
        <4> QED BY <1>b, <4>2, <4>3
      <3> QED BY <1>16, <2>1, <3>1, <3>2
    <2>2. CASE b # a
      <3>1. Apart(content[b], chain')
        <4>1. CASE chain' = chain
          BY <1>2, <4>1
        <4>2. CASE chain' = <<>>
          <5>1. Len(chain') = 0
            BY <4>2
          <5> QED BY <5>1 DEF Apart
        <4> QED BY <1>b, <4>1, <4>2
      <3> QED BY <1>2, <1>16, <2>2, <3>1
    <2> QED BY <2>1, <2>2
  <1>23. ASSUME NEW b \in ListAnchor, NEW c \in ListAnchor, b # c PROVE Apart(content'[b], content'[c])
    <2>1. ASSUME NEW e \in ListAnchor, e # a PROVE Apart(u, content[e]) /\ Apart(content[e], u)
      <3>1. ASSUME NEW k \in 1 .. m + n, NEW j \in 1 .. Len(content[e]), u[k] = content[e][j] PROVE FALSE
        <4>1. (\E h \in 1 .. m : s[h] = u[k]) \/ (\E h \in 1 .. n : t[h] = u[k])
          BY <1>15
        <4>2. \A h \in 1 .. m : s[h] # content[e][j]
          BY <1>a, <1>1, <1>2, <2>1 DEF Apart
        <4>3. \A h \in 1 .. n : t[h] # content[e][j]
          BY <1>a, <1>1, <2>1 DEF Apart
        <4> QED BY <3>1, <4>1, <4>2, <4>3
      <3> QED BY <1>7, <3>1 DEF Apart
    <2>2. CASE b = a
      BY <1>16, <1>23, <2>1, <2>2
    <2>3. CASE c = a
      BY <1>16, <1>23, <2>1, <2>3
    <2>4. CASE b # a /\ c # a
      BY <1>2, <1>16, <1>23, <2>4
    <2> QED BY <2>2, <2>3, <2>4
  <1>24. Distinct(chain')
    <2>1. CASE chain' = chain
      BY <1>2, <2>1
    <2>2. CASE chain' = <<>>
      <3>1. Len(chain') = 0
        BY <2>2
      <3> QED BY <3>1 DEF Distinct
    <2> QED BY <1>b, <2>1, <2>2
  <1> QED BY <1>12, <1>16, <1>17, <1>21, <1>22, <1>23, <1>24 DEF RingInv

(* Cutting t out of s leaves u: distinct elements stay distinct, and each  *)
(* is in one of the two.                                                   *)
CutApart(m, i, j, d, s, t, u) ==
  /\ m \in Nat /\ i \in 1 .. m /\ j \in i .. m /\ d = j - i + 1
  /\ \A k \in 1 .. d : t[k] = s[i + k - 1]
  /\ \A k \in 1 .. m - d : u[k] = IF k < i THEN s[k] ELSE s[k + d]
  /\ \A x, y \in 1 .. m : s[x] = s[y] => x = y

CutDone(m, d, s, t, u) ==
  /\ \A x, y \in 1 .. d : t[x] = t[y] => x = y
  /\ \A x, y \in 1 .. m - d : u[x] = u[y] => x = y
  /\ \A x \in 1 .. m - d, y \in 1 .. d : u[x] # t[y]
  /\ \A k \in 1 .. d : \E x \in 1 .. m : s[x] = t[k]
  /\ \A k \in 1 .. m - d : \E x \in 1 .. m : s[x] = u[k]
  /\ \A x \in 1 .. m : (\E k \in 1 .. d : t[k] = s[x]) \/ (\E k \in 1 .. m - d : u[k] = s[x])

LEMMA CutFacts ==
  ASSUME NEW m, NEW i, NEW j, NEW d, NEW s, NEW t, NEW u, CutApart(m, i, j, d, s, t, u)
  PROVE  CutDone(m, d, s, t, u)
  <1> USE DEF CutApart
  <1>1. d \in 1 .. m /\ m - d \in Nat
    OBVIOUS
  <1>2. ASSUME NEW k \in 1 .. d PROVE i + k - 1 \in i .. j /\ i + k - 1 \in 1 .. m /\ t[k] = s[i + k - 1]
    OBVIOUS
  <1>3. ASSUME NEW k \in 1 .. m - d
        PROVE  \/ k < i /\ k \in 1 .. m /\ u[k] = s[k]
               \/ k >= i /\ k + d \in 1 .. m /\ k + d > j /\ u[k] = s[k + d]
    OBVIOUS
  <1>4. \A x, y \in 1 .. d : t[x] = t[y] => x = y
    BY <1>2
  <1>5. ASSUME NEW x \in 1 .. m - d, NEW y \in 1 .. m - d, u[x] = u[y] PROVE x = y
    BY <1>1, <1>3, <1>5
  <1>6. ASSUME NEW x \in 1 .. m - d, NEW y \in 1 .. d, u[x] = t[y] PROVE FALSE
    BY <1>1, <1>2, <1>3, <1>6
  <1>7. \A k \in 1 .. d : \E x \in 1 .. m : s[x] = t[k]
    BY <1>2
  <1>8. \A k \in 1 .. m - d : \E x \in 1 .. m : s[x] = u[k]
    BY <1>3
  <1>9. ASSUME NEW x \in 1 .. m PROVE (\E k \in 1 .. d : t[k] = s[x]) \/ (\E k \in 1 .. m - d : u[k] = s[x])
    <2>1. CASE x < i
      <3>1. x \in 1 .. m - d
        BY <2>1
      <3> QED BY <2>1, <3>1
    <2>2. CASE x \in i .. j
      <3>1. x - i + 1 \in 1 .. d /\ i + (x - i + 1) - 1 = x
        BY <2>2
      <3> QED BY <3>1
    <2>3. CASE x > j
      <3>1. x - d \in 1 .. m - d /\ ~ (x - d < i) /\ (x - d) + d = x
        BY <2>3
      <3>2. u[x - d] = s[x]
        BY <3>1
      <3> QED BY <3>1, <3>2
    <2> QED BY <2>1, <2>2, <2>3
  <1> QED BY <1>4, <1>5, <1>6, <1>7, <1>8, <1>9 DEF CutDone

(* The elements i to j of a's list are taken off: one of them, which is    *)
(* then on no list, or a chain.                                            *)
CutTaken(a, i, j, t, u) ==
  /\ a \in ListAnchor /\ i \in 1 .. Len(content[a]) /\ j \in i .. Len(content[a])
  /\ t \in Seq(Elem) /\ Len(t) = j - i + 1 /\ \A k \in 1 .. Len(t) : t[k] = content[a][i + k - 1]
  /\ u \in Seq(Elem) /\ CutOut(content[a], i, j, u)
  /\ link' = Cut(content[a][i], content[a][j]) /\ content' = [content EXCEPT ![a] = u]
  /\ \/ chain' = chain /\ i = j
     \/ chain = <<>> /\ chain' = t

LEMMA CutStep ==
  ASSUME RingInv, NEW a, NEW i, NEW j, NEW t, NEW u, CutTaken(a, i, j, t, u)
  PROVE  RingInv'
  <1>a. a \in ListAnchor /\ t \in Seq(Elem) /\ u \in Seq(Elem)
    BY DEF CutTaken
  <1>b. (chain' = chain /\ i = j) \/ (chain = <<>> /\ chain' = t)
    BY DEF CutTaken
  <1>1. PICK s, m, d, p, q : /\ s = content[a] /\ m = Len(s) /\ d = j - i + 1
                             /\ p = (IF i = 1 THEN a ELSE s[i - 1]) /\ q = (IF j = m THEN a ELSE s[j + 1])
    OBVIOUS
  <1>2. /\ link \in [Links -> LinkRecord] /\ content \in [ListAnchor -> Seq(Elem)] /\ chain \in Seq(Elem)
        /\ \A b \in ListAnchor : Distinct(content[b]) /\ Apart(content[b], chain)
        /\ \A b, c \in ListAnchor : b # c => Apart(content[b], content[c])
        /\ Distinct(chain) /\ RingsSound
    BY DEF RingInv
  <1>3. /\ \A b \in ListAnchor : LinkedIn(link, RingOf(b, content[b]))
        /\ chain # <<>> => LinkedIn(link, chain) /\ link[chain[1]].prev = Null /\ link[chain[Len(chain)]].next = Null
        /\ \A x \in Elem : OnNoList(content, chain, x) => link[x] = [prev |-> Null, next |-> Null]
    BY <1>2, RingsSoundIs
  <1>4. /\ s \in Seq(Elem) /\ m \in Nat /\ a \in Links /\ i \in 1 .. m /\ j \in i .. m /\ m # 0 /\ d \in 1 .. m
        /\ \A k \in 1 .. m : s[k] \in Links /\ s[k] \in Elem /\ s[k] # a
        /\ \A k \in 1 .. m - 1 : link[s[k]].next = s[k + 1] /\ link[s[k + 1]].prev = s[k]
        /\ link[a].next = s[1] /\ link[s[1]].prev = a /\ link[s[m]].next = a /\ link[a].prev = s[m]
    <2>1. s \in Seq(Elem) /\ LinkedIn(link, RingOf(a, s))
      BY <1>a, <1>1, <1>2, <1>3
    <2>2. /\ m \in Nat /\ a \in Links /\ \A k \in 1 .. m : s[k] \in Links /\ s[k] \in Elem /\ s[k] # a
          /\ LinkedIn(link, RingOf(a, s)) <=> RingLinks(link, a, s, m)
      BY <1>a, <1>1, <2>1, RingParts
    <2>3. RingLinks(link, a, s, m) /\ i \in 1 .. m /\ j \in i .. m
      BY <1>1, <2>1, <2>2 DEF CutTaken
    <2>4. m # 0 /\ d \in 1 .. m
      BY <1>1, <2>2, <2>3
    <2> QED BY <2>1, <2>2, <2>3, <2>4 DEF RingLinks
  <1>5. Len(t) = d /\ \A k \in 1 .. d : t[k] = s[i + k - 1]
    BY <1>1 DEF CutTaken
  <1>6. \A x, y \in 1 .. m : s[x] = s[y] => x = y
    BY <1>a, <1>1, <1>2 DEF Distinct
  <1>7. Len(u) = m - d /\ \A k \in 1 .. m - d : u[k] = IF k < i THEN s[k] ELSE s[k + d]
    BY <1>1 DEF CutOut, CutTaken
  <1>8. CutDone(m, d, s, t, u)
    <2>1. CutApart(m, i, j, d, s, t, u)
      BY <1>1, <1>4, <1>5, <1>6, <1>7 DEF CutApart
    <2> QED BY <2>1, CutFacts
  <1>9. p = link[s[i]].prev /\ q = link[s[j]].next /\ p \in Links /\ q \in Links
    <2>1. p = link[s[i]].prev /\ p \in Links
      <3>1. CASE i = 1
        BY <1>1, <1>4, <3>1
      <3>2. CASE i # 1
        <4>1. i - 1 \in 1 .. m - 1 /\ i - 1 \in 1 .. m /\ (i - 1) + 1 = i
          BY <1>4, <3>2
        <4> QED BY <1>1, <1>4, <3>2, <4>1
      <3> QED BY <3>1, <3>2
    <2>2. q = link[s[j]].next /\ q \in Links
      <3>1. CASE j = m
        BY <1>1, <1>4, <3>1
      <3>2. CASE j # m
        <4>1. j \in 1 .. m - 1 /\ j + 1 \in 1 .. m
          BY <1>4, <3>2
        <4> QED BY <1>1, <1>4, <3>2, <4>1
      <3> QED BY <3>1, <3>2
    <2> QED BY <2>1, <2>2
  <1>10. s[i] \in Links /\ s[j] \in Links /\ p # s[j] /\ q # s[i]
    <2>1. i \in 1 .. m /\ j \in 1 .. m /\ (i # 1 => i - 1 \in 1 .. m /\ i - 1 # j) /\ (j # m => j + 1 \in 1 .. m /\ j + 1 # i)
      BY <1>4
    <2> QED BY <1>1, <1>4, <1>6, <2>1
  <1>11. /\ link' \in [Links -> LinkRecord]
         /\ \A x \in Links : /\ link'[x].next = IF x = s[j] THEN Null ELSE IF x = p THEN q ELSE link[x].next
                             /\ link'[x].prev = IF x = s[i] THEN Null ELSE IF x = q THEN p ELSE link[x].prev
    <2>1. link' = Cut(s[i], s[j])
      BY <1>1 DEF CutTaken
    <2> QED BY <1>2, <1>9, <1>10, <2>1, CutIs
  <1>12. /\ RingLinks(link', a, u, m - d)
         /\ \A k \in 1 .. d - 1 : link'[t[k]].next = t[k + 1] /\ link'[t[k + 1]].prev = t[k]
         /\ link'[t[1]].prev = Null /\ link'[t[d]].next = Null
    <2>1. PICK l2 : l2 = link'
      OBVIOUS
    <2>2. CutReady(m, i, j, d, s, t, u, link, l2, a, p, q)
      BY <1>1, <1>4, <1>5, <1>6, <1>7, <1>11, <2>1 DEF CutReady
    <2>3. /\ \A k \in 1 .. m - d - 1 : l2[u[k]].next = u[k + 1] /\ l2[u[k + 1]].prev = u[k]
          /\ m - d = 0 => l2[a].next = a /\ l2[a].prev = a
          /\ m - d # 0 => l2[a].next = u[1] /\ l2[u[1]].prev = a /\ l2[u[m - d]].next = a /\ l2[a].prev = u[m - d]
          /\ \A k \in 1 .. d - 1 : l2[t[k]].next = t[k + 1] /\ l2[t[k + 1]].prev = t[k]
          /\ l2[t[1]].prev = Null /\ l2[t[d]].next = Null
      BY <2>2, CutLinks
    <2> QED BY <2>1, <2>3 DEF RingLinks
  <1>13. LinkedIn(link', RingOf(a, u))
    <2>1. PICK w : w = m - d
      OBVIOUS
    <2>2. w = Len(u) /\ RingLinks(link', a, u, w)
      BY <1>7, <1>12, <2>1
    <2>3. LinkedIn(link', RingOf(a, u)) <=> RingLinks(link', a, u, w)
      BY <1>a, <2>2, RingParts
    <2> QED BY <2>2, <2>3
  <1>14. ASSUME NEW x \in Links, x # a, \A k \in 1 .. m : s[k] # x
         PROVE  link'[x] = link[x]
    <2>1. x # p /\ x # q /\ x # s[i] /\ x # s[j]
      <3>1. i \in 1 .. m /\ j \in 1 .. m /\ (i # 1 => i - 1 \in 1 .. m) /\ (j # m => j + 1 \in 1 .. m)
        BY <1>4
      <3> QED BY <1>1, <1>14, <3>1
    <2>2. link'[x].next = link[x].next /\ link'[x].prev = link[x].prev
      BY <1>11, <1>14, <2>1
    <2>3. link'[x] \in LinkRecord /\ link[x] \in LinkRecord
      BY <1>2, <1>11, <1>14
    <2> QED BY <2>2, <2>3 DEF LinkRecord
  <1>16. content' \in [ListAnchor -> Seq(Elem)] /\ content'[a] = u /\ \A b \in ListAnchor : b # a => content'[b] = content[b]
    BY <1>2 DEF CutTaken
  <1>17. chain' \in Seq(Elem)
    <2>1. CASE chain' = chain
      BY <1>2, <2>1
    <2>2. CASE chain' = t
      BY <1>a, <2>2
    <2> QED BY <1>b, <2>1, <2>2
  <1>18. ASSUME NEW b \in ListAnchor PROVE LinkedIn(link', RingOf(b, content'[b]))
    <2>1. CASE b = a
      BY <1>13, <1>16, <2>1
    <2>2. CASE b # a
      <3>1. content[b] \in Seq(Elem) /\ LinkedIn(link, RingOf(b, content[b])) /\ b \in Links
        BY <1>2, <1>3 DEF Links
      <3>2. ASSUME NEW k \in 1 .. Len(content[b]) PROVE link'[content[b][k]] = link[content[b][k]]
        <4>1. content[b][k] \in Links /\ content[b][k] # a
          <5>1. content[b][k] \in Elem
            BY <3>1, <3>2, ElementOfSeq
          <5> QED BY <1>a, <5>1, IntrusiveListAssumption DEF Links
        <4>2. \A h \in 1 .. m : s[h] # content[b][k]
          BY <1>a, <1>1, <1>2, <2>2, <3>2 DEF Apart
        <4> QED BY <1>14, <4>1, <4>2
      <3>3. link'[b] = link[b]
        <4>1. \A k \in 1 .. m : s[k] # b
          BY <1>4, IntrusiveListAssumption
        <4> QED BY <1>14, <2>2, <3>1, <4>1
      <3>4. LinkedIn(link', RingOf(b, content[b]))
        BY <3>1, <3>2, <3>3, KeptRing
      <3> QED BY <1>16, <2>2, <3>4
    <2> QED BY <2>1, <2>2
  <1>19. ASSUME chain' # <<>>
         PROVE  LinkedIn(link', chain') /\ link'[chain'[1]].prev = Null /\ link'[chain'[Len(chain')]].next = Null
    <2>1. CASE chain' = t
      <3>1. LinkedIn(link', t)
        BY <1>5, <1>12 DEF LinkedIn
      <3> QED BY <1>5, <1>12, <2>1, <3>1
    <2>2. CASE chain' = chain
      <3>1. chain # <<>>
        BY <1>19, <2>2
      <3>2. Len(chain) \in Nat /\ Len(chain) # 0
        BY <1>2, <3>1, LenProperties, EmptySeq
      <3>3. ASSUME NEW k \in 1 .. Len(chain) PROVE link'[chain[k]] = link[chain[k]]
        <4>1. chain[k] \in Links /\ chain[k] # a
          <5>1. chain[k] \in Elem
            BY <1>2, <3>3, ElementOfSeq
          <5> QED BY <1>a, <5>1, IntrusiveListAssumption DEF Links
        <4>2. \A h \in 1 .. m : s[h] # chain[k]
          BY <1>a, <1>1, <1>2, <3>3 DEF Apart
        <4> QED BY <1>14, <4>1, <4>2
      <3>4. LinkedIn(link', chain)
        BY <1>3, <3>1, <3>2, <3>3, KeptLinked
      <3>5. 1 \in 1 .. Len(chain) /\ Len(chain) \in 1 .. Len(chain)
        BY <3>2
      <3> QED BY <1>3, <2>2, <3>1, <3>3, <3>4, <3>5
    <2> QED BY <1>b, <2>1, <2>2
  <1>20. ASSUME NEW x \in Elem, OnNoList(content', chain', x) PROVE link'[x] = [prev |-> Null, next |-> Null]
    <2>1. x \in Links /\ x # a
      BY <1>a, IntrusiveListAssumption DEF Links
    <2>2. /\ \A b \in ListAnchor : \A k \in 1 .. Len(content'[b]) : content'[b][k] # x
          /\ \A k \in 1 .. Len(chain') : chain'[k] # x
      BY <1>20 DEF OnNoList
    <2>3. \A k \in 1 .. m - d : u[k] # x
      BY <1>a, <1>7, <1>16, <2>2
    <2>4. CASE \E h \in 1 .. m : s[h] = x
      <3>1. PICK k \in 1 .. d : t[k] = x
        BY <1>8, <2>3, <2>4 DEF CutDone
      <3>2. chain' # t
        BY <1>5, <2>2, <3>1
      <3>3. i = j /\ d = 1 /\ k = 1
        BY <1>b, <1>1, <1>4, <3>1, <3>2
      <3>4. x = t[1] /\ x = t[d]
        BY <3>1, <3>3
      <3>5. link'[x].prev = Null /\ link'[x].next = Null
        BY <1>12, <3>4
      <3>6. link'[x] \in LinkRecord
        BY <1>11, <2>1
      <3> QED BY <3>5, <3>6 DEF LinkRecord
    <2>5. CASE \A h \in 1 .. m : s[h] # x
      <3>1. ASSUME NEW b \in ListAnchor, NEW k \in 1 .. Len(content[b]) PROVE content[b][k] # x
        <4>1. CASE b = a
          BY <1>1, <2>5, <3>1, <4>1
        <4>2. CASE b # a
          BY <1>16, <2>2, <3>1, <4>2
        <4> QED BY <4>1, <4>2
      <3>2. ASSUME NEW k \in 1 .. Len(chain) PROVE chain[k] # x
        <4>1. CASE chain' = chain
          BY <2>2, <3>2, <4>1
        <4>2. CASE chain = <<>>
          <5>1. Len(chain) = 0
            BY <4>2
          <5> QED BY <3>2, <5>1
        <4> QED BY <1>b, <4>1, <4>2
      <3>3. OnNoList(content, chain, x)
        BY <3>1, <3>2 DEF OnNoList
      <3> QED BY <1>3, <1>14, <2>1, <2>5, <3>3
    <2> QED BY <2>4, <2>5
  <1>21. RingsSound'
    BY <1>16, <1>17, <1>18, <1>19, <1>20, RingsSoundIsNext
  <1>22. ASSUME NEW b \in ListAnchor PROVE Distinct(content'[b]) /\ Apart(content'[b], chain')
    <2>1. CASE b = a
      <3>1. Distinct(u)
        BY <1>7, <1>8 DEF Distinct, CutDone
      <3>2. Apart(u, chain')
        <4>1. CASE chain' = t
          BY <1>5, <1>7, <1>8, <4>1 DEF Apart, CutDone
        <4>2. CASE chain' = chain
          <5> SUFFICES ASSUME NEW k \in 1 .. m - d, NEW h \in 1 .. Len(chain), u[k] = chain[h] PROVE FALSE
            BY <1>7, <4>2 DEF Apart
          <5>1. PICK x \in 1 .. m : s[x] = u[k]
            BY <1>8 DEF CutDone
          <5>2. s[x] # chain[h]
            BY <1>a, <1>1, <1>2 DEF Apart
          <5> QED BY <5>1, <5>2
        <4> QED BY <1>b, <4>1, <4>2
      <3> QED BY <1>16, <2>1, <3>1, <3>2
    <2>2. CASE b # a
      <3>1. Apart(content[b], chain')
        <4>1. CASE chain' = chain
          BY <1>2, <4>1
        <4>2. CASE chain' = t
          <5> SUFFICES ASSUME NEW k \in 1 .. Len(content[b]), NEW h \in 1 .. d, content[b][k] = t[h] PROVE FALSE
            BY <1>5, <4>2 DEF Apart
          <5>1. PICK x \in 1 .. m : s[x] = t[h]
            BY <1>8 DEF CutDone
          <5>2. s[x] # content[b][k]
            BY <1>a, <1>1, <1>2, <2>2 DEF Apart
          <5> QED BY <5>1, <5>2
        <4> QED BY <1>b, <4>1, <4>2
      <3> QED BY <1>2, <1>16, <2>2, <3>1
    <2> QED BY <2>1, <2>2
  <1>23. ASSUME NEW b \in ListAnchor, NEW c \in ListAnchor, b # c PROVE Apart(content'[b], content'[c])
    <2>1. ASSUME NEW e \in ListAnchor, e # a PROVE Apart(u, content[e]) /\ Apart(content[e], u)
      <3>1. ASSUME NEW k \in 1 .. m - d, NEW h \in 1 .. Len(content[e]), u[k] = content[e][h] PROVE FALSE
        <4>1. PICK x \in 1 .. m : s[x] = u[k]
          BY <1>8 DEF CutDone
        <4>2. s[x] # content[e][h]
          BY <1>a, <1>1, <1>2, <2>1 DEF Apart
        <4> QED BY <3>1, <4>1, <4>2
      <3> QED BY <1>7, <3>1 DEF Apart
    <2>2. CASE b = a
      BY <1>16, <1>23, <2>1, <2>2
    <2>3. CASE c = a
      BY <1>16, <1>23, <2>1, <2>3
    <2>4. CASE b # a /\ c # a
      BY <1>2, <1>16, <1>23, <2>4
    <2> QED BY <2>2, <2>3, <2>4
  <1>24. Distinct(chain')
    <2>1. CASE chain' = chain
      BY <1>2, <2>1
    <2>2. CASE chain' = t
      BY <1>5, <1>8, <2>2 DEF Distinct, CutDone
    <2> QED BY <1>b, <2>1, <2>2
  <1> QED BY <1>11, <1>16, <1>17, <1>21, <1>22, <1>23, <1>24 DEF RingInv

(* A non-empty set of numbers has a least one.                             *)
LEMMA LeastNumber ==
  ASSUME NEW T \in SUBSET Nat, T # {}
  PROVE  \E m \in T : \A y \in T : m <= y
  <1>1. PICK R : R = OpToRel(<, Nat)
    BY Zenon
  <1>2. IsWellFoundedOn(R, Nat)
    BY <1>1, NatLessThanWellFounded, Zenon
  <1>3. PICK m \in T : \A y \in T : ~ (<<y, m>> \in R)
    BY <1>2, WFMin, Zenon
  <1>4. ASSUME NEW y \in T PROVE ~ (y < m)
    BY <1>1, <1>3 DEF OpToRel
  <1> QED BY <1>4

(* What the loop of remove(first, count) stops at: the last of count       *)
(* elements, or the last of the list when it comes first.                  *)
RunsTo(m, i, c, s, a) ==
  /\ m \in Nat /\ i \in 1 .. m /\ c \in Nat \ {0}
  /\ \A k \in 1 .. m : s[k] # a
  /\ \A k \in 1 .. m - 1 : link[s[k]].next = s[k + 1]
  /\ link[s[m]].next = a

LEMMA LastOfIs ==
  ASSUME NEW m, NEW i, NEW c, NEW s, NEW a, RunsTo(m, i, c, s, a)
  PROVE  LastOf(a, s[i], c) = s[IF i + c - 1 <= m THEN i + c - 1 ELSE m]
  <1> USE DEF RunsTo
  <1> DEFINE At(k) == IF i + k - 1 <= m THEN i + k - 1 ELSE m
             Step(w) == [x \in 1 .. c |-> IF x = 1 THEN s[i]
                                          ELSE IF link[w[x - 1]].next = a THEN w[x - 1] ELSE link[w[x - 1]].next]
             G == [x \in 1 .. c |-> s[At(x)]]
  <1>1. ASSUME NEW x \in 1 .. c, x # 1, NEW y, y = s[At(x - 1)]
        PROVE  s[At(x)] = IF link[y].next = a THEN y ELSE link[y].next
    <2>1. CASE i + x - 1 <= m
      <3>1. At(x) = At(x - 1) + 1 /\ At(x - 1) \in 1 .. m - 1 /\ At(x) \in 1 .. m
        BY <1>1, <2>1
      <3> HIDE DEF At
      <3> QED BY <1>1, <3>1
    <2>2. CASE ~ (i + x - 1 <= m)
      <3>1. At(x) = m /\ At(x - 1) = m
        BY <1>1, <2>2
      <3> HIDE DEF At
      <3> QED BY <1>1, <3>1
    <2> QED BY <2>1, <2>2
  <1>2. At(1) = i
    OBVIOUS
  <1> HIDE DEF At
  <1>3. ASSUME NEW w, NEW x \in 1 .. c, x = 1 \/ w[x - 1] = s[At(x - 1)] PROVE Step(w)[x] = s[At(x)]
    BY <1>1, <1>2, <1>3
  <1>4. G = Step(G)
    <2>1. ASSUME NEW x \in 1 .. c PROVE G[x] = Step(G)[x]
      <3>1. x = 1 \/ x - 1 \in 1 .. c
        OBVIOUS
      <3>2. x = 1 \/ G[x - 1] = s[At(x - 1)]
        BY <3>1
      <3>3. Step(G)[x] = s[At(x)]
        BY <1>3, <3>2
      <3> QED BY <3>3
    <2> QED BY <2>1
  <1>5. PICK w : w = Step(w) /\ LastOf(a, s[i], c) = w[c]
    <2>1. LastOf(a, s[i], c) = (CHOOSE w : w = Step(w))[c]
      BY DEF LastOf
    <2> HIDE DEF Step, G
    <2> QED BY <1>4, <2>1
  <1> HIDE DEF Step, G
  <1>6. \A x \in 1 .. c : w[x] = s[At(x)]
    <2> SUFFICES ASSUME \E x \in 1 .. c : w[x] # s[At(x)] PROVE FALSE
      OBVIOUS
    <2> DEFINE T == {x \in 1 .. c : w[x] # s[At(x)]}
    <2>1. PICK x \in T : \A y \in T : x <= y
      <3>1. T \in SUBSET Nat /\ T # {}
        OBVIOUS
      <3> HIDE DEF T
      <3> QED BY <3>1, LeastNumber
    <2>2. x \in 1 .. c /\ (x = 1 \/ x - 1 \in 1 .. c)
      OBVIOUS
    <2>3. x = 1 \/ w[x - 1] = s[At(x - 1)]
      <3>1. x # 1 => x - 1 \notin T
        BY <2>1, <2>2
      <3> QED BY <2>2, <3>1
    <2>4. Step(w)[x] = s[At(x)]
      BY <1>3, <2>2, <2>3
    <2>5. w[x] = s[At(x)]
      BY <1>5, <2>4
    <2> QED BY <2>1, <2>5
  <1>7. c \in 1 .. c
    OBVIOUS
  <1> QED BY <1>5, <1>6, <1>7 DEF At

-----------------------------------------------------------------------------
(* An element of a list has a successor, so the guard of an insertion, that *)
(* x is not on a list, keeps it from being put on a second one.             *)
LEMMA NotOnList ==
  ASSUME RingInv, NEW x \in Elem, ~OnList(x), ~InChain(x)
  PROVE  OnNoList(content, chain, x)
  <1>1. content \in [ListAnchor -> Seq(Elem)] /\ chain \in Seq(Elem) /\ RingsSound
    BY DEF RingInv
  <1>2. ASSUME NEW b \in ListAnchor, NEW k \in 1 .. Len(content[b]), content[b][k] = x PROVE FALSE
    <2>1. PICK s, m : s = content[b] /\ m = Len(s)
      OBVIOUS
    <2>2. s \in Seq(Elem) /\ LinkedIn(link, RingOf(b, s))
      BY <1>1, <2>1, RingsSoundIs
    <2>3. /\ m \in Nat /\ b \in Links /\ \A h \in 1 .. m : s[h] \in Links /\ s[h] \in Elem /\ s[h] # b
          /\ LinkedIn(link, RingOf(b, s)) <=> RingLinks(link, b, s, m)
      BY <2>1, <2>2, RingParts
    <2>4. RingLinks(link, b, s, m) /\ k \in 1 .. m /\ m # 0 /\ s[k] = x
      BY <1>2, <2>1, <2>2, <2>3
    <2>5. link[s[k]].next \in Links
      <3>1. CASE k = m
        BY <2>3, <2>4, <3>1 DEF RingLinks
      <3>2. CASE k # m
        <4>1. k \in 1 .. m - 1 /\ k + 1 \in 1 .. m
          BY <2>3, <2>4, <3>2
        <4> QED BY <2>3, <2>4, <4>1 DEF RingLinks
      <3> QED BY <3>1, <3>2
    <2> QED BY <2>4, <2>5, IntrusiveListAssumption DEF OnList
  <1>3. ASSUME NEW k \in 1 .. Len(chain), chain[k] = x PROVE FALSE
    <2>1. DOMAIN chain = 1 .. Len(chain)
      BY <1>1, LenProperties
    <2> QED BY <1>3, <2>1 DEF InChain, ToSet
  <1> QED BY <1>2, <1>3 DEF OnNoList

LEMMA Insert1Step ==
  ASSUME RingInv, NEW a \in ListAnchor, NEW p, NEW x \in Elem, Insert1(a, p, x)
  PROVE  RingInv'
  <1>1. OnNoList(content, chain, x) /\ chain' = chain
    BY NotOnList DEF Insert1
  <1>2. PICK i \in 1 .. Len(content[a]) + 1 :
           /\ p = Ring(a)[i] /\ link' = InsertAfter(p, x, x)
           /\ content' = [content EXCEPT ![a] = InsertAt(@, i, x)]
    BY DEF Insert1
  <1>3. PICK s, t, u : s = content[a] /\ t = <<x>> /\ u = InsertAt(s, i, x)
    OBVIOUS
  <1>4. s \in Seq(Elem)
    BY <1>3 DEF RingInv
  <1>5. u \in Seq(Elem) /\ Spliced(s, i, t, u)
    BY <1>2, <1>3, <1>4, InsertAtIs
  <1>6. t \in Seq(Elem) /\ t # <<>> /\ Len(t) = 1 /\ t[1] = x
    BY <1>3
  <1>7. Distinct(t) /\ LinkedIn(link, t)
    BY <1>6 DEF Distinct, LinkedIn
  <1>8. \A b \in ListAnchor : Apart(content[b], t)
    BY <1>1, <1>6 DEF Apart, OnNoList
  <1>9. Apart(t, chain)
    BY <1>1, <1>6 DEF Apart, OnNoList
  <1>10. content' = [content EXCEPT ![a] = u]
    BY <1>2, <1>3
  <1>11. link' = InsertAfter(Ring(a)[i], t[1], t[Len(t)])
    BY <1>2, <1>6
  <1>12. SpliceTaken(a, i, t, u)
    BY <1>1, <1>2, <1>3, <1>5, <1>6, <1>7, <1>8, <1>9, <1>10, <1>11 DEF SpliceTaken
  <1> QED BY <1>12, InsertStep

LEMMA RemoveElemStep ==
  ASSUME RingInv, NEW a \in ListAnchor, NEW x, RemoveElem(a, x)
  PROVE  RingInv'
  <1>1. PICK i \in DOMAIN content[a] :
           /\ x = content[a][i] /\ link' = Cut(x, x)
           /\ content' = [content EXCEPT ![a] = RemoveAt(@, i)]
    BY DEF RemoveElem
  <1>2. PICK s, t, u : s = content[a] /\ t = <<s[i]>> /\ u = RemoveAt(s, i)
    OBVIOUS
  <1>3. s \in Seq(Elem) /\ chain' = chain
    BY <1>2 DEF RingInv, RemoveElem
  <1>4. Len(s) \in Nat /\ i \in 1 .. Len(s) /\ s[i] \in Elem
    BY <1>1, <1>2, <1>3, LenProperties, ElementOfSeq
  <1>5. u = SubSeq(s, 1, i - 1) \o SubSeq(s, i + 1, Len(s)) /\ i \in i .. Len(s)
    BY <1>2, <1>4 DEF RemoveAt
  <1>6. u \in Seq(Elem) /\ CutOut(s, i, i, u)
    BY <1>3, <1>4, <1>5, CutOutIs
  <1>7. t \in Seq(Elem) /\ Len(t) = i - i + 1 /\ Len(t) = 1 /\ t[1] = s[i]
    BY <1>2, <1>4
  <1>8. \A k \in 1 .. Len(t) : t[k] = s[i + k - 1]
    <2>1. \A k \in 1 .. 1 : k = 1
      OBVIOUS
    <2>2. i + 1 - 1 = i
      BY <1>4
    <2> QED BY <1>7, <2>1, <2>2
  <1>9. content' = [content EXCEPT ![a] = u]
    BY <1>1, <1>2
  <1>10. CutTaken(a, i, i, t, u)
    BY <1>1, <1>2, <1>3, <1>4, <1>5, <1>6, <1>7, <1>8, <1>9 DEF CutTaken
  <1> QED BY <1>10, CutStep

LEMMA RemoveChainStep ==
  ASSUME RingInv, NEW a \in ListAnchor, NEW i, NEW count \in 1 .. Len(content[a]) + 1, RemoveChain(a, i, count)
  PROVE  RingInv'
  <1>1. PICK s, m, n, j : /\ s = content[a] /\ m = Len(s) /\ n = (IF count > m - i + 1 THEN m - i + 1 ELSE count)
                          /\ j = (IF i + count - 1 <= m THEN i + count - 1 ELSE m)
    OBVIOUS
  <1>2. s \in Seq(Elem) /\ RingsSound /\ content \in [ListAnchor -> Seq(Elem)] /\ chain \in Seq(Elem)
    BY <1>1 DEF RingInv
  <1>3. m \in Nat /\ i \in 1 .. m /\ count \in Nat \ {0}
    <2>1. m \in Nat /\ DOMAIN s = 1 .. m
      BY <1>1, <1>2, LenProperties
    <2> QED BY <1>1, <2>1 DEF RemoveChain
  <1>4. j \in i .. m /\ i + n - 1 = j /\ i + n = j + 1
    BY <1>1, <1>3
  <1>5. /\ chain = <<>> /\ link' = Cut(s[i], LastOf(a, s[i], count)) /\ chain' = SubSeq(s, i, i + n - 1)
        /\ content' = [content EXCEPT ![a] = SubSeq(s, 1, i - 1) \o SubSeq(s, i + n, m)]
    BY <1>1 DEF RemoveChain
  <1>6. LastOf(a, s[i], count) = s[j]
    <2>1. LinkedIn(link, RingOf(a, s))
      BY <1>1, <1>2, RingsSoundIs
    <2>2. /\ \A h \in 1 .. m : s[h] \in Links /\ s[h] \in Elem /\ s[h] # a
          /\ LinkedIn(link, RingOf(a, s)) <=> RingLinks(link, a, s, m)
      BY <1>1, <1>2, RingParts
    <2>3. /\ \A k \in 1 .. m - 1 : link[s[k]].next = s[k + 1]
          /\ link[s[m]].next = a
      <3>1. RingLinks(link, a, s, m) /\ m # 0
        BY <1>3, <2>1, <2>2
      <3> QED BY <3>1 DEF RingLinks
    <2>4. RunsTo(m, i, count, s, a)
      BY <1>3, <2>2, <2>3 DEF RunsTo
    <2>5. LastOf(a, s[i], count) = s[IF i + count - 1 <= m THEN i + count - 1 ELSE m]
      BY <2>4, LastOfIs
    <2> QED BY <1>1, <2>5
  <1>7. PICK t, u : t = SubSeq(s, i, j) /\ u = SubSeq(s, 1, i - 1) \o SubSeq(s, j + 1, m)
    OBVIOUS
  <1>8. u \in Seq(Elem) /\ CutOut(s, i, j, u)
    BY <1>1, <1>2, <1>3, <1>4, <1>7, CutOutIs
  <1>9. t \in Seq(Elem) /\ Len(t) = j - i + 1 /\ \A k \in 1 .. Len(t) : t[k] = s[i + k - 1]
    <2>1. i \in 1 .. Len(s) + 1 /\ j \in i - 1 .. Len(s) /\ i <= j
      BY <1>1, <1>3, <1>4
    <2>2. /\ t \in Seq(Elem) /\ Len(t) = IF i <= j THEN j - i + 1 ELSE 0
          /\ \A k \in 1 .. j - i + 1 : t[k] = s[i + k - 1]
      BY <1>2, <1>7, <2>1, SubSeqProperties
    <2> QED BY <2>1, <2>2
  <1>10. link' = Cut(s[i], s[j]) /\ content' = [content EXCEPT ![a] = u] /\ chain' = t
    BY <1>4, <1>5, <1>6, <1>7
  <1>11. CutTaken(a, i, j, t, u)
    BY <1>1, <1>3, <1>4, <1>5, <1>8, <1>9, <1>10 DEF CutTaken
  <1> QED BY <1>11, CutStep

LEMMA SpliceBackStep ==
  ASSUME RingInv, NEW a \in ListAnchor, SpliceBack(a)
  PROVE  RingInv'
  <1>1. PICK s, m, u : s = content[a] /\ m = Len(s) /\ u = s \o chain
    OBVIOUS
  <1>2. /\ s \in Seq(Elem) /\ RingsSound /\ content \in [ListAnchor -> Seq(Elem)] /\ chain \in Seq(Elem)
        /\ Distinct(chain) /\ \A b \in ListAnchor : Apart(content[b], chain)
    BY <1>1 DEF RingInv
  <1>3. /\ chain # <<>> /\ link' = InsertAfter(link[a].prev, chain[1], chain[Len(chain)])
        /\ content' = [content EXCEPT ![a] = u] /\ chain' = <<>>
    BY <1>1, <1>2 DEF SpliceBack, Last
  <1>4. LinkedIn(link, RingOf(a, s)) /\ LinkedIn(link, chain)
    BY <1>1, <1>2, <1>3, RingsSoundIs
  <1>5. Ring(a)[m + 1] = link[a].prev
    <2>1. PICK r : r = RingOf(a, s)
      OBVIOUS
    <2>2. m \in Nat /\ r[1] = a /\ \A k \in 2 .. m + 1 : r[k] = s[k - 1]
      <3>1. Len(s) \in Nat /\ r[1] = a /\ \A k \in 2 .. Len(s) + 1 : r[k] = s[k - 1]
        BY <1>2, <2>1, RingFacts
      <3> QED BY <1>1, <3>1
    <2>3. LinkedIn(link, RingOf(a, s)) <=> RingLinks(link, a, s, m)
      BY <1>1, <1>2, RingParts
    <2>4. RingLinks(link, a, s, m)
      BY <1>4, <2>3
    <2>5. r[m + 1] = link[a].prev
      <3>1. CASE m = 0
        BY <2>2, <2>4, <3>1 DEF RingLinks
      <3>2. CASE m # 0
        <4>1. m + 1 \in 2 .. m + 1 /\ (m + 1) - 1 = m
          BY <2>2, <3>2
        <4> QED BY <2>2, <2>4, <3>2, <4>1 DEF RingLinks
      <3> QED BY <3>1, <3>2
    <2> QED BY <1>1, <2>1, <2>5 DEF Ring, RingOf
  <1>6. u \in Seq(Elem) /\ Spliced(s, m + 1, chain, u)
    BY <1>1, <1>2, SplicedBack
  <1>7. m + 1 \in 1 .. m + 1
    BY <1>1, <1>2, LenProperties
  <1>8. SpliceTaken(a, m + 1, chain, u)
    BY <1>1, <1>2, <1>3, <1>4, <1>5, <1>6, <1>7 DEF SpliceTaken
  <1> QED BY <1>8, InsertStep

LEMMA ListInitInv ==
  ASSUME ListInit
  PROVE  RingInv
  <1>1. /\ link = [x \in Links |-> IF x \in ListAnchor THEN [prev |-> x, next |-> x] ELSE [prev |-> Null, next |-> Null]]
        /\ content = [a \in ListAnchor |-> <<>>] /\ chain = <<>> /\ Len(chain) = 0
    BY DEF ListInit
  <1>2. link \in [Links -> LinkRecord]
    BY <1>1 DEF LinkRecord, Links
  <1>3. content \in [ListAnchor -> Seq(Elem)] /\ chain \in Seq(Elem) /\ \A a \in ListAnchor : content[a] = <<>> /\ Len(content[a]) = 0
    BY <1>1
  <1>4. /\ \A a \in ListAnchor : Distinct(content[a]) /\ Apart(content[a], chain)
        /\ \A a, b \in ListAnchor : Apart(content[a], content[b])
        /\ Distinct(chain)
    BY <1>1, <1>3 DEF Distinct, Apart
  <1>5. ASSUME NEW a \in ListAnchor PROVE LinkedIn(link, RingOf(a, content[a]))
    <2>1. link[a].next = a /\ link[a].prev = a
      BY <1>1 DEF Links
    <2>2. PICK s : s = content[a]
      OBVIOUS
    <2>3. s \in Seq(Elem) /\ 0 = Len(s)
      BY <1>3, <2>2
    <2>4. RingLinks(link, a, s, 0)
      BY <2>1 DEF RingLinks
    <2>5. LinkedIn(link, RingOf(a, s)) <=> RingLinks(link, a, s, 0)
      BY <2>3, RingParts
    <2> QED BY <2>2, <2>4, <2>5
  <1>6. ASSUME NEW x \in Elem PROVE link[x] = [prev |-> Null, next |-> Null]
    BY <1>1, IntrusiveListAssumption DEF Links
  <1>7. RingsSound
    BY <1>1, <1>3, <1>5, <1>6, RingsSoundIs
  <1> QED BY <1>2, <1>3, <1>4, <1>7 DEF RingInv

(* For any number of lists and elements and any sequence of insertions,     *)
(* removals, pops and splices of chains: every list stays the ring of its   *)
(* elements in both directions, a chain is linked from its first to its     *)
(* last element and to nothing else, and an element on no list has no links *)
(* (IntrusiveList's insert_after, remove and splice_back).                  *)
THEOREM RingsStaySound == ListSpec => []RingsSound
  <1>1. ListInit => RingInv
    BY ListInitInv
  <1>2. RingInv /\ [ListNext]_ringVars => RingInv'
    <2> SUFFICES ASSUME RingInv, [ListNext]_ringVars PROVE RingInv'
      OBVIOUS
    <2>1. CASE UNCHANGED ringVars
      <3>1. RingsSound' <=> RingsSound
        BY <2>1 DEF ringVars, RingsSound, Linked, Ring, InChain
      <3> QED BY <2>1, <3>1 DEF ringVars, RingInv
    <2>2. ASSUME NEW a \in ListAnchor, NEW x \in Elem, NEW p \in Links, Insert1(a, p, x) PROVE RingInv'
      BY <2>2, Insert1Step
    <2>3. ASSUME NEW a \in ListAnchor, NEW x \in Elem, PushBack(a, x) PROVE RingInv'
      <3>1. Insert1(a, link[a].prev, x)
        BY <2>3 DEF PushBack
      <3> QED BY <3>1, Insert1Step
    <2>4. ASSUME NEW a \in ListAnchor, NEW x \in Elem, RemoveElem(a, x) PROVE RingInv'
      BY <2>4, RemoveElemStep
    <2>5. ASSUME NEW a \in ListAnchor, PopFront(a) \/ PopBack(a) PROVE RingInv'
      <3>1. RemoveElem(a, link[a].next) \/ RemoveElem(a, link[a].prev)
        BY <2>5 DEF PopFront, PopBack
      <3> QED BY <3>1, RemoveElemStep
    <2>6. ASSUME NEW a \in ListAnchor, SpliceBack(a) PROVE RingInv'
      BY <2>6, SpliceBackStep
    <2>7. ASSUME NEW a \in ListAnchor, NEW i \in 1 .. Len(content[a]) + 1, NEW n \in 1 .. Len(content[a]) + 1, RemoveChain(a, i, n)
          PROVE  RingInv'
      BY <2>7, RemoveChainStep
    <2> QED BY <2>1, <2>2, <2>3, <2>4, <2>5, <2>6, <2>7 DEF ListNext
  <1>3. RingInv => RingsSound
    BY DEF RingInv
  <1> QED BY <1>1, <1>2, <1>3, PTL DEF ListSpec
-----------------------------------------------------------------------------
(* Region sets.  What insert and remove do to a canonical one.              *)
Regions == [start : Nat, end : Nat]
Nonempty(r) == r \in Regions /\ r.start < r.end
Separate(q, r) == q.end < r.start \/ r.end < q.start
Canonical(S) == (\A r \in S : Nonempty(r)) /\ \A q, r \in S : q = r \/ Separate(q, r)

LEMMA FirstIs ==
  ASSUME NEW S, \A r \in S : Nonempty(r), S # {}
  PROVE  First(S) \in S /\ \A q \in S : First(S).start <= q.start
  <1> DEFINE T == {r.start : r \in S}
  <1>1. T \in SUBSET Nat /\ T # {}
    BY DEF Nonempty, Regions
  <1>2. PICK m \in T : \A y \in T : m <= y
    <2> HIDE DEF T
    <2> QED BY <1>1, LeastNumber
  <1>3. PICK r \in S : m = r.start
    BY <1>2
  <1>4. \A q \in S : r.start <= q.start
    BY <1>2, <1>3
  <1> QED BY <1>3, <1>4 DEF First

LEMMA CoveredIs ==
  ASSUME NEW S, NEW x
  PROVE  x \in Covered(S) <=> \E r \in S : x \in Units(r)
  BY DEF Covered

LEMMA UnitsIs ==
  ASSUME NEW r, Nonempty(r), NEW x
  PROVE  x \in Units(r) <=> x \in Nat /\ r.start <= x /\ x < r.end
  <1>1. r.start \in Nat /\ r.end \in Nat
    BY DEF Nonempty, Regions
  <1> QED BY <1>1 DEF Units

(* The regions of a set around r: the ones below it, the ones it covers or  *)
(* touches from below, and the ones that go on behind it.                   *)
LEMMA InsertIs ==
  ASSUME NEW S, Canonical(S), NEW r, Nonempty(r)
  PROVE  /\ Canonical(Insert(S, r))
         /\ Covered(Insert(S, r)) = Covered(S) \cup Units(r)
         /\ \A n \in Insert(S, r) : n \in S \/ (n.start <= r.start /\ r.end <= n.end)
  <1>1. PICK from, start, cov, rest, last, end :
          /\ from = FromLowerBound(S, r)
          /\ start = IF from = {} THEN r.start ELSE Min({r.start, First(from).start})
          /\ cov = {q \in from : q.end <= r.end}
          /\ rest = from \ cov
          /\ last = IF rest # {} /\ MergesLast(First(rest), r) THEN {First(rest)} ELSE {}
          /\ end = IF last = {} THEN r.end ELSE First(rest).end
    OBVIOUS
  <1>2. Insert(S, r) = (S \ (cov \cup last)) \cup {Region(start, end)}
    BY <1>1 DEF Insert
  <1>3. r.start \in Nat /\ r.end \in Nat /\ r.start < r.end
    BY DEF Nonempty, Regions
  <1>4. \A q \in S : q.start \in Nat /\ q.end \in Nat /\ q.start < q.end
    BY DEF Canonical, Nonempty, Regions
  <1>5. from \subseteq S /\ rest \subseteq S /\ \A q \in S : q \in from <=> r.start <= q.end
    BY <1>1, <1>3, <1>4 DEF FromLowerBound
  <1>6. from # {} => First(from) \in from /\ \A q \in from : First(from).start <= q.start
    BY <1>5, FirstIs DEF Canonical
  <1>7. rest # {} => First(rest) \in rest /\ \A q \in rest : First(rest).start <= q.start
    BY <1>5, FirstIs DEF Canonical
  <1>8. /\ start \in Nat /\ start <= r.start
        /\ start < r.start => \E a \in from : start = a.start
        /\ \A q \in from : start <= q.start
    <2>1. CASE from = {}
      BY <1>1, <1>3, <2>1
    <2>2. CASE from # {}
      <3>1. PICK a : a = First(from)
        OBVIOUS
      <3>2. a \in from /\ a.start \in Nat /\ \A q \in from : a.start <= q.start /\ q.start \in Nat
        BY <1>4, <1>5, <1>6, <2>2, <3>1
      <3>3. start = IF a.start < r.start THEN a.start ELSE r.start
        <4>1. start = Min({r.start, a.start})
          BY <1>1, <2>2, <3>1
        <4> QED BY <1>3, <3>2, <4>1 DEF Min
      <3> QED BY <1>3, <3>2, <3>3
    <2> QED BY <2>1, <2>2
  <1>9. \A q \in from : q \in cov \/ q \in rest
    BY <1>1
  <1>10. \A q \in S : q \in rest <=> r.start <= q.end /\ r.end < q.end
    BY <1>1, <1>3, <1>4, <1>5
  <1>11. \A q \in S : q \in cov <=> r.start <= q.end /\ q.end <= r.end
    BY <1>1, <1>5
  <1>12. /\ end \in Nat /\ r.end <= end
         /\ r.end < end => \E b \in last : end = b.end /\ b.start <= r.end
         /\ \A q \in last : q \in rest /\ q.end = end
         /\ \A q \in rest : q \notin last => end < q.start
    <2>1. CASE rest = {}
      BY <1>1, <1>3, <2>1
    <2>2. CASE rest # {}
      <3>1. PICK b : b = First(rest)
        OBVIOUS
      <3>2. b \in rest /\ b \in S /\ b.start \in Nat /\ b.end \in Nat /\ r.end < b.end /\ \A q \in rest : b.start <= q.start
        BY <1>4, <1>5, <1>7, <1>10, <2>2, <3>1
      <3>3. CASE b.start <= r.end
        <4>1. last = {b} /\ end = b.end
          BY <1>1, <2>2, <3>1, <3>3 DEF MergesLast
        <4>2. ASSUME NEW q \in rest, q # b PROVE b.end < q.start
          <5>1. q \in S /\ b.start <= q.start /\ q.start < q.end /\ q.start \in Nat /\ q.end \in Nat
            BY <1>4, <1>5, <3>2
          <5>2. Separate(b, q)
            BY <3>2, <4>2, <5>1 DEF Canonical
          <5> QED BY <3>2, <5>1, <5>2 DEF Separate
        <4> QED BY <1>3, <3>2, <3>3, <4>1, <4>2
      <3>4. CASE ~(b.start <= r.end)
        <4>1. last = {} /\ end = r.end
          BY <1>1, <2>2, <3>1, <3>4 DEF MergesLast
        <4>2. \A q \in rest : q.start \in Nat
          BY <1>4, <1>5
        <4> QED BY <1>3, <3>2, <3>4, <4>1, <4>2
      <3> QED BY <3>3, <3>4
    <2> QED BY <2>1, <2>2
  <1>13. PICK n : n = Region(start, end)
    OBVIOUS
  <1>14. n.start = start /\ n.end = end /\ Nonempty(n)
    BY <1>3, <1>8, <1>12, <1>13 DEF Region, Nonempty, Regions
  <1>15. ASSUME NEW q \in S, q \notin cov, q \notin last PROVE Separate(q, n)
    <2>1. CASE q \notin from
      <3>1. q.end < r.start /\ q.end \in Nat /\ q.start \in Nat /\ q.start < q.end
        BY <1>3, <1>4, <1>5, <2>1
      <3>2. CASE start = r.start
        BY <1>14, <3>1, <3>2 DEF Separate
      <3>3. CASE start # r.start
        <4>1. PICK a \in from : start = a.start
          BY <1>3, <1>8, <3>3
        <4>2. a \in S /\ a.start \in Nat /\ a.end \in Nat /\ r.start <= a.end
          BY <1>4, <1>5
        <4>3. Separate(q, a)
          BY <2>1, <4>2 DEF Canonical
        <4> QED BY <1>3, <1>14, <3>1, <4>1, <4>2, <4>3 DEF Separate
      <3> QED BY <3>2, <3>3
    <2>2. CASE q \in from
      <3>1. q \in rest
        BY <1>9, <1>15, <2>2
      <3> QED BY <1>12, <1>14, <1>15, <3>1 DEF Separate
    <2> QED BY <2>1, <2>2
  <1>16. Canonical(Insert(S, r))
    <2>1. \A q \in S : q \notin cov /\ q \notin last => Separate(q, n) /\ Separate(n, q)
      BY <1>15 DEF Separate
    <2> QED BY <1>2, <1>13, <1>14, <2>1 DEF Canonical
  <1>17. ASSUME NEW x PROVE x \in Covered(Insert(S, r)) <=> x \in Covered(S) \/ x \in Units(r)
    <2>1. ASSUME x \in Units(n) PROVE x \in Covered(S) \/ x \in Units(r)
      <3>1. x \in Nat /\ start <= x /\ x < end
        BY <1>14, <2>1, UnitsIs
      <3>2. CASE x < r.start
        <4>1. PICK a \in from : start = a.start
          BY <1>3, <1>8, <3>1, <3>2
        <4>2. a \in S /\ r.start <= a.end /\ a.end \in Nat
          BY <1>4, <1>5
        <4>3. x \in Units(a)
          BY <1>3, <3>1, <3>2, <4>1, <4>2, UnitsIs DEF Canonical
        <4> QED BY <4>2, <4>3, CoveredIs
      <3>3. CASE r.end <= x
        <4>1. PICK b \in last : end = b.end /\ b.start <= r.end
          BY <1>3, <1>12, <3>1, <3>3
        <4>2. b \in S /\ b.start \in Nat
          BY <1>4, <1>5, <1>12
        <4>3. x \in Units(b)
          BY <1>3, <3>1, <3>3, <4>1, <4>2, UnitsIs DEF Canonical
        <4> QED BY <4>2, <4>3, CoveredIs
      <3>4. CASE r.start <= x /\ x < r.end
        BY <3>1, <3>4, UnitsIs
      <3> QED BY <1>3, <3>1, <3>2, <3>3, <3>4
    <2>2. ASSUME x \in Units(r) PROVE x \in Units(n)
      <3>1. x \in Nat /\ r.start <= x /\ x < r.end
        BY <2>2, UnitsIs
      <3> QED BY <1>3, <1>8, <1>12, <1>14, <3>1, UnitsIs
    <2>3. ASSUME NEW q \in S, x \in Units(q), q \in cov \/ q \in last PROVE x \in Units(n)
      <3>1. x \in Nat /\ q.start <= x /\ x < q.end /\ q.start \in Nat /\ q.end \in Nat
        BY <1>4, <2>3, UnitsIs DEF Canonical
      <3>2. q \in from
        BY <1>1, <1>12, <2>3
      <3>3. start <= q.start /\ q.end <= end
        BY <1>3, <1>8, <1>11, <1>12, <2>3, <3>1, <3>2
      <3> QED BY <1>8, <1>12, <1>14, <3>1, <3>3, UnitsIs
    <2>4. x \in Covered(Insert(S, r)) <=> (\E q \in S : q \notin cov /\ q \notin last /\ x \in Units(q)) \/ x \in Units(n)
      BY <1>2, <1>13, CoveredIs
    <2>5. x \in Covered(S) <=> \E q \in S : x \in Units(q)
      BY CoveredIs
    <2> QED BY <2>1, <2>2, <2>3, <2>4, <2>5
  <1>18. \A m \in Insert(S, r) : m \in S \/ (m.start <= r.start /\ r.end <= m.end)
    BY <1>2, <1>8, <1>12, <1>13, <1>14
  <1> QED BY <1>16, <1>17, <1>18

LEMMA RemoveIs ==
  ASSUME NEW S, Canonical(S), NEW r, Nonempty(r), HasRegion(S, r)
  PROVE  /\ Canonical(RemoveRegion(S, r))
         /\ Covered(RemoveRegion(S, r)) = Covered(S) \ Units(r)
         /\ Units(r) \subseteq Covered(S)
  <1>1. PICK t, hi, lo, high, low :
          /\ t = First(FromLowerBound(S, r)) /\ hi = Region(r.end, t.end) /\ lo = Region(t.start, r.start)
          /\ high = (IF t.end > r.end THEN {hi} ELSE {}) /\ low = (IF t.start < r.start THEN {lo} ELSE {})
    OBVIOUS
  <1>2. RemoveRegion(S, r) = (S \ {t}) \cup high \cup low
    BY <1>1 DEF RemoveRegion
  <1>3. r.start \in Nat /\ r.end \in Nat /\ r.start < r.end
    BY DEF Nonempty, Regions
  <1>4. FromLowerBound(S, r) # {} /\ FromLowerBound(S, r) \subseteq S /\ t.start <= r.start /\ t.end >= r.end
    BY <1>1 DEF HasRegion, FromLowerBound
  <1>5. t \in S /\ Nonempty(t) /\ t.start \in Nat /\ t.end \in Nat /\ t.start < t.end
    BY <1>1, <1>4, FirstIs DEF Canonical, Nonempty, Regions
  <1>6. hi.start = r.end /\ hi.end = t.end /\ lo.start = t.start /\ lo.end = r.start
    BY <1>1 DEF Region
  <1>7. (hi \in high => Nonempty(hi)) /\ (lo \in low => Nonempty(lo))
    <2>1. hi \in Regions /\ lo \in Regions
      BY <1>1, <1>3, <1>5 DEF Region, Regions
    <2> QED BY <1>1, <1>3, <1>5, <1>6, <2>1 DEF Nonempty
  <1>8. \A q \in high : q = hi
    BY <1>1
  <1>9. \A q \in low : q = lo
    BY <1>1
  <1>10. Separate(lo, hi) /\ Separate(hi, lo)
    BY <1>3, <1>6 DEF Separate
  <1>11. ASSUME NEW q \in S, q # t PROVE Separate(q, hi) /\ Separate(hi, q) /\ Separate(q, lo) /\ Separate(lo, q)
    <2>1. q.start \in Nat /\ q.end \in Nat /\ q.start < q.end /\ Separate(q, t)
      BY <1>5, <1>11 DEF Canonical, Nonempty, Regions
    <2> QED BY <1>3, <1>4, <1>5, <1>6, <2>1 DEF Separate
  <1>12. Canonical(RemoveRegion(S, r))
    <2>1. \A q \in RemoveRegion(S, r) : (q \in S /\ q # t) \/ (q = hi /\ q \in high) \/ (q = lo /\ q \in low)
      BY <1>2, <1>8, <1>9
    <2>2. \A q \in RemoveRegion(S, r) : Nonempty(q)
      BY <1>7, <2>1 DEF Canonical
    <2>3. ASSUME NEW p \in RemoveRegion(S, r), NEW q \in RemoveRegion(S, r), p # q PROVE Separate(p, q)
      <3>1. CASE p \in S /\ p # t
        <4>1. CASE q \in S /\ q # t
          BY <2>3, <3>1, <4>1 DEF Canonical
        <4>2. CASE q = hi \/ q = lo
          BY <1>11, <3>1, <4>2
        <4> QED BY <2>1, <4>1, <4>2
      <3>2. CASE p = hi \/ p = lo
        <4>1. CASE q \in S /\ q # t
          BY <1>11, <3>2, <4>1
        <4>2. CASE q = hi \/ q = lo
          BY <1>10, <2>3, <3>2, <4>2
        <4> QED BY <2>1, <4>1, <4>2
      <3> QED BY <2>1, <3>1, <3>2
    <2> QED BY <2>2, <2>3 DEF Canonical
  <1>13. ASSUME NEW x
         PROVE  x \in Covered(RemoveRegion(S, r)) <=> x \in Covered(S) /\ x \notin Units(r)
    <2>1. ASSUME NEW q \in S, q # t, x \in Units(q) PROVE x \notin Units(r)
      <3>1. q.start \in Nat /\ q.end \in Nat /\ q.start < q.end /\ Separate(q, t) /\ Nonempty(q)
        BY <1>5, <2>1 DEF Canonical, Nonempty, Regions
      <3>2. x \in Nat /\ q.start <= x /\ x < q.end
        BY <2>1, <3>1, UnitsIs
      <3>3. ~(r.start <= x /\ x < r.end)
        BY <1>3, <1>4, <1>5, <3>1, <3>2 DEF Separate
      <3> QED BY <3>3, UnitsIs
    <2>2. hi \in high /\ x \in Units(hi) => x \in Units(t) /\ x \notin Units(r)
      <3>1. ASSUME hi \in high, x \in Units(hi) PROVE x \in Units(t) /\ x \notin Units(r)
        <4>1. x \in Nat /\ r.end <= x /\ x < t.end
          BY <1>6, <1>7, <3>1, UnitsIs
        <4>2. t.start <= x /\ ~(x < r.end)
          BY <1>3, <1>4, <1>5, <4>1
        <4> QED BY <1>5, <4>1, <4>2, UnitsIs
      <3> QED BY <3>1
    <2>3. lo \in low /\ x \in Units(lo) => x \in Units(t) /\ x \notin Units(r)
      <3>1. ASSUME lo \in low, x \in Units(lo) PROVE x \in Units(t) /\ x \notin Units(r)
        <4>1. x \in Nat /\ t.start <= x /\ x < r.start
          BY <1>6, <1>7, <3>1, UnitsIs
        <4>2. x < t.end /\ ~(r.start <= x)
          BY <1>3, <1>4, <1>5, <4>1
        <4> QED BY <1>5, <4>1, <4>2, UnitsIs
      <3> QED BY <3>1
    <2>4. ASSUME x \in Units(t), x \notin Units(r) PROVE (hi \in high /\ x \in Units(hi)) \/ (lo \in low /\ x \in Units(lo))
      <3>1. x \in Nat /\ t.start <= x /\ x < t.end
        BY <1>5, <2>4, UnitsIs
      <3>2. ~(r.start <= x /\ x < r.end)
        BY <2>4, <3>1, UnitsIs
      <3>3. CASE x < r.start
        <4>1. lo \in low
          BY <1>1, <1>3, <1>5, <3>1, <3>3
        <4> QED BY <1>6, <1>7, <3>1, <3>3, <4>1, UnitsIs
      <3>4. CASE r.end <= x
        <4>1. hi \in high
          BY <1>1, <1>3, <1>5, <3>1, <3>4
        <4> QED BY <1>6, <1>7, <3>1, <3>4, <4>1, UnitsIs
      <3> QED BY <1>3, <3>1, <3>2, <3>3, <3>4
    <2>5. x \in Covered(S) <=> (\E q \in S : q # t /\ x \in Units(q)) \/ x \in Units(t)
      BY <1>5, CoveredIs
    <2>6. x \in Covered(RemoveRegion(S, r)) <=>
            (\E q \in S : q # t /\ x \in Units(q)) \/ (hi \in high /\ x \in Units(hi)) \/ (lo \in low /\ x \in Units(lo))
      BY <1>2, <1>8, <1>9, CoveredIs
    <2> QED BY <2>1, <2>2, <2>3, <2>4, <2>5, <2>6
  <1>14. \A x \in Units(r) : x \in Units(t)
    BY <1>3, <1>4, <1>5, UnitsIs
  <1>15. Units(r) \subseteq Covered(S)
    BY <1>5, <1>14, CoveredIs
  <1> QED BY <1>12, <1>13, <1>15

(* An interval that a canonical set covers lies in one of its regions.      *)
LEMMA InOneRegion ==
  ASSUME NEW S, Canonical(S), NEW y \in Nat, NEW z \in Nat, y <= z, \A x \in y .. z : x \in Covered(S)
  PROVE  \E r \in S : r.start <= y /\ z < r.end
  <1>1. PICK r \in S : y \in Units(r)
    BY CoveredIs
  <1>2. Nonempty(r) /\ r.start \in Nat /\ r.end \in Nat /\ r.start < r.end /\ r.start <= y /\ y < r.end
    BY <1>1, UnitsIs DEF Canonical, Nonempty, Regions
  <1>3. z < r.end
    <2>1. ASSUME r.end <= z PROVE FALSE
      <3>1. r.end \in y .. z
        BY <1>2, <2>1
      <3>2. PICK q \in S : r.end \in Units(q)
        BY <3>1, CoveredIs
      <3>3. q.start \in Nat /\ q.end \in Nat /\ q.start <= r.end /\ r.end < q.end
        BY <3>2, UnitsIs DEF Canonical, Nonempty, Regions
      <3>4. q # r
        BY <1>2, <3>3
      <3>5. Separate(q, r)
        BY <3>4 DEF Canonical
      <3> QED BY <1>2, <3>3, <3>5 DEF Separate
    <2> QED BY <1>2, <2>1
  <1> QED BY <1>2, <1>3

-----------------------------------------------------------------------------
(* Page boundaries.                                                         *)
LEMMA Quotient ==
  ASSUME NEW a \in Nat \ {0}, NEW x \in Nat, NEW q, q = x \div a
  PROVE  /\ q \in Nat /\ q * a <= x /\ x < q * a + a
         /\ (q * a) % a = 0
         /\ x % a = 0 => x = q * a
  <1>1. q \in Int
    OBVIOUS
  <1>2. q >= 0
    OBVIOUS
  <1>3. q \in Nat
    BY <1>1, <1>2
  <1>4. q * a <= x /\ x < q * a + a
    BY <1>1
  <1>5. (q * a) % a = 0
    BY <1>3
  <1>6. ASSUME x % a = 0 PROVE x = q * a
    <2>1. PICK r : r = x % a
      OBVIOUS
    <2>2. x = a * q + r
      BY <2>1
    <2>3. r = 0
      BY <1>6, <2>1
    <2> QED BY <1>3, <2>2, <2>3
  <1> QED BY <1>3, <1>4, <1>5, <1>6

LEMMA Multiples ==
  ASSUME NEW a \in Nat \ {0}, NEW k \in Nat, NEW m \in Nat
  PROVE  /\ (k * a) \in Nat /\ (k + 1) * a = k * a + a
         /\ k * a < m * a => k * a + a <= m * a
  <1>1. k * a \in Nat /\ m * a \in Nat /\ (k + 1) * a = k * a + a
    OBVIOUS
  <1>2. ASSUME k * a < m * a PROVE k * a + a <= m * a
    <2>1. k < m
      <3>1. ASSUME m <= k PROVE FALSE
        <4>1. m * a <= k * a
          BY <3>1
        <4> QED BY <1>1, <1>2, <4>1
      <3> QED BY <3>1
    <2>2. PICK j \in Nat : m = (k + 1) + j
      <3>1. m - (k + 1) \in Nat /\ m = (k + 1) + (m - (k + 1))
        BY <2>1
      <3> QED BY <3>1
    <2>3. j * a \in Nat
      OBVIOUS
    <2>4. m * a = (k + 1) * a + j * a
      BY <2>2
    <2> QED BY <1>1, <2>3, <2>4
  <1> QED BY <1>1, <1>2

LEMMA AlignDownIs ==
  ASSUME NEW a \in Nat \ {0}, NEW x \in Nat, NEW d, d = AlignDown(x, a)
  PROVE  /\ d \in Nat /\ d % a = 0 /\ d <= x /\ x < d + a
         /\ \A y \in Nat : y % a = 0 /\ y <= x => y <= d
         /\ \A y \in Nat : y % a = 0 /\ x < y => d + a <= y
  <1>1. PICK q : q = x \div a
    OBVIOUS
  <1>2. q \in Nat /\ q * a <= x /\ x < q * a + a /\ (q * a) % a = 0 /\ d = q * a /\ d \in Nat
    <2>1. q \in Nat /\ q * a <= x /\ x < q * a + a /\ (q * a) % a = 0
      BY <1>1, Quotient
    <2>2. d = q * a
      BY <1>1 DEF AlignDown
    <2>3. q * a \in Nat
      BY <2>1
    <2> QED BY <2>1, <2>2, <2>3
  <1>3. ASSUME NEW y \in Nat, y % a = 0
        PROVE  (y <= x => y <= d) /\ (x < y => d + a <= y)
    <2>1. PICK k : k = y \div a
      OBVIOUS
    <2>2. k \in Nat /\ y = k * a
      BY <1>3, <2>1, Quotient
    <2>3. (q * a < k * a => q * a + a <= k * a)
      BY <1>2, <2>2, Multiples
    <2>4. d < y => d + a <= y
      BY <1>2, <2>2, <2>3
    <2> QED BY <1>2, <2>4
  <1> QED BY <1>2, <1>3

LEMMA AlignUpIs ==
  ASSUME NEW a \in Nat \ {0}, NEW x \in Nat, NEW u, u = AlignUp(x, a)
  PROVE  /\ u \in Nat /\ u % a = 0 /\ x <= u
         /\ \A y \in Nat : y % a = 0 /\ x <= y => u <= y
  <1>1. x + a - 1 \in Nat /\ u = AlignDown(x + a - 1, a)
    BY DEF AlignUp, AlignDown
  <1>2. /\ u \in Nat /\ u % a = 0 /\ u <= x + a - 1 /\ x + a - 1 < u + a
        /\ \A y \in Nat : y % a = 0 /\ x + a - 1 < y => u + a <= y
    BY <1>1, AlignDownIs
  <1>3. ASSUME NEW y \in Nat, y % a = 0, x <= y PROVE u <= y
    <2>1. AlignDown(y, a) = y
      <3>1. PICK k : k = y \div a
        OBVIOUS
      <3>2. y = k * a
        BY <1>3, <3>1, Quotient
      <3> QED BY <3>1, <3>2 DEF AlignDown
    <2>2. \A w \in Nat : w % a = 0 /\ y < w => y + a <= w
      BY <2>1, AlignDownIs
    <2>3. y < u => y + a <= u
      BY <1>2, <2>2
    <2> QED BY <1>2, <1>3, <2>3
  <1> QED BY <1>2, <1>3

-----------------------------------------------------------------------------
(* The whole pages of the memory that a canonical set covers are the ones   *)
(* inside its regions.                                                      *)
Whole(R) == UNION {q \in {x .. (x + SmallPs - 1) : x \in {y \in R : y % SmallPs = 0}} : q \subseteq R}

LEMMA WholeIs ==
  ASSUME NEW R, NEW x
  PROVE  x \in Whole(R) <=> \E y \in R : /\ y % SmallPs = 0 /\ x \in y .. (y + SmallPs - 1)
                                         /\ y .. (y + SmallPs - 1) \subseteq R
  BY DEF Whole

LEMMA BootConstants ==
  /\ SmallPs \in Nat \ {0} /\ KernelPs \in Nat \ {0} /\ Boot16 \in Nat /\ KernelBoot \in Nat /\ KernelCode \in Nat
  /\ KernelEnd \in Nat /\ KernelBoot < KernelPs /\ KernelCode < KernelEnd
  BY BootMemoryAssumption

LEMMA PagesInsideIs ==
  ASSUME NEW r, Nonempty(r), NEW p, p = PagesInside(r)
  PROVE  /\ p \in Regions /\ p.start % SmallPs = 0 /\ p.end % SmallPs = 0 /\ r.start <= p.start /\ p.end <= r.end
         /\ \A y \in Nat : y % SmallPs = 0 /\ r.start <= y => p.start <= y
         /\ \A y \in Nat : y % SmallPs = 0 /\ y <= r.end => y <= p.end
         /\ \A x : x \in Units(p) <=> x \in Nat /\ p.start <= x /\ x < p.end
  <1>1. r.start \in Nat /\ r.end \in Nat
    BY DEF Nonempty, Regions
  <1>2. p.start = AlignUp(r.start, SmallPs) /\ p.end = AlignDown(r.end, SmallPs)
    BY DEF PagesInside, Region
  <1>3. /\ p.start \in Nat /\ p.start % SmallPs = 0 /\ r.start <= p.start
        /\ \A y \in Nat : y % SmallPs = 0 /\ r.start <= y => p.start <= y
    BY <1>1, <1>2, BootConstants, AlignUpIs
  <1>4. /\ p.end \in Nat /\ p.end % SmallPs = 0 /\ p.end <= r.end
        /\ \A y \in Nat : y % SmallPs = 0 /\ y <= r.end => y <= p.end
    <2>1. PICK d, e : d = p.end /\ e = r.end
      OBVIOUS
    <2>2. e \in Nat /\ d = AlignDown(e, SmallPs) /\ SmallPs \in Nat \ {0}
      BY <1>1, <1>2, <2>1, BootConstants
    <2>3. /\ d \in Nat /\ d % SmallPs = 0 /\ d <= e
          /\ \A y \in Nat : y % SmallPs = 0 /\ y <= e => y <= d
      BY <2>2, AlignDownIs
    <2> QED BY <2>1, <2>3
  <1>5. p \in Regions
    BY <1>3, <1>4 DEF PagesInside, Region, Regions
  <1>6. \A x : x \in Units(p) <=> x \in Nat /\ p.start <= x /\ x < p.end
    BY <1>3, <1>4 DEF Units
  <1> QED BY <1>3, <1>4, <1>5, <1>6

LEMMA NextPage ==
  ASSUME NEW y \in Nat, y % SmallPs = 0
  PROVE  /\ (y + SmallPs) % SmallPs = 0
         /\ \A z \in Nat : z % SmallPs = 0 /\ y < z => y + SmallPs <= z
  <1>1. PICK k : k = y \div SmallPs
    OBVIOUS
  <1>2. k \in Nat /\ y = k * SmallPs
    BY <1>1, BootConstants, Quotient
  <1>3. AlignDown(y, SmallPs) = y
    BY <1>1, <1>2 DEF AlignDown
  <1>4. \A z \in Nat : z % SmallPs = 0 /\ y < z => y + SmallPs <= z
    BY <1>3, BootConstants, AlignDownIs
  <1>5. PICK m : m = k + 1
    OBVIOUS
  <1>6. m \in Nat /\ y + SmallPs = m * SmallPs
    BY <1>2, <1>5, BootConstants, Multiples
  <1>7. (m * SmallPs) % SmallPs = 0
    <2>1. ASSUME NEW a \in Nat \ {0}, NEW j \in Nat PROVE (j * a) % a = 0
      OBVIOUS
    <2> QED BY <1>6, <2>1, BootConstants
  <1> QED BY <1>4, <1>6, <1>7

LEMMA PagesOfSet ==
  ASSUME NEW S, Canonical(S), NEW x
  PROVE  x \in Whole(Covered(S)) <=> \E r \in S : x \in Units(PagesInside(r))
  <1>0. SmallPs \in Nat \ {0}
    BY BootConstants
  <1>1. ASSUME x \in Whole(Covered(S)) PROVE \E r \in S : x \in Units(PagesInside(r))
    <2>1. PICK y \in Covered(S) : /\ y % SmallPs = 0 /\ x \in y .. (y + SmallPs - 1)
                                  /\ y .. (y + SmallPs - 1) \subseteq Covered(S)
      BY <1>1, WholeIs
    <2>2. y \in Nat
      BY CoveredIs, UnitsIs DEF Canonical
    <2>3. PICK z : z = y + SmallPs - 1
      OBVIOUS
    <2>4. z \in Nat /\ y <= z /\ z + 1 = y + SmallPs
      BY <1>0, <2>2, <2>3
    <2>a. \A w \in y .. z : w \in Covered(S)
      BY <2>1, <2>3
    <2>5. PICK r \in S : r.start <= y /\ z < r.end
      BY <2>2, <2>4, <2>a, InOneRegion
    <2>6. PICK p : p = PagesInside(r)
      OBVIOUS
    <2>7. Nonempty(r) /\ r.end \in Nat
      BY DEF Canonical, Nonempty, Regions
    <2>8. (y + SmallPs) % SmallPs = 0 /\ y + SmallPs \in Nat /\ y + SmallPs <= r.end
      BY <1>0, <2>1, <2>2, <2>4, <2>5, <2>7, NextPage
    <2>9. p.start <= y /\ y + SmallPs <= p.end /\ p \in Regions /\ \A w : w \in Units(p) <=> w \in Nat /\ p.start <= w /\ w < p.end
      BY <2>1, <2>2, <2>5, <2>6, <2>7, <2>8, PagesInsideIs
    <2>10. x \in Nat /\ y <= x /\ x < y + SmallPs
      BY <1>0, <2>1, <2>2
    <2>11. p.start \in Nat /\ p.end \in Nat
      BY <2>9 DEF Regions
    <2>12. x \in Units(p)
      BY <1>0, <2>2, <2>9, <2>10, <2>11
    <2> QED BY <2>6, <2>12
  <1>2. ASSUME NEW r \in S, x \in Units(PagesInside(r)) PROVE x \in Whole(Covered(S))
    <2>1. PICK p : p = PagesInside(r)
      OBVIOUS
    <2>2. Nonempty(r) /\ r.start \in Nat /\ r.end \in Nat
      BY DEF Canonical, Nonempty, Regions
    <2>3. /\ p \in Regions /\ p.start % SmallPs = 0 /\ p.end % SmallPs = 0 /\ r.start <= p.start /\ p.end <= r.end
          /\ x \in Nat /\ p.start <= x /\ x < p.end /\ p.start \in Nat /\ p.end \in Nat
      <3>1. /\ p \in Regions /\ p.start % SmallPs = 0 /\ p.end % SmallPs = 0 /\ r.start <= p.start /\ p.end <= r.end
            /\ x \in Nat /\ p.start <= x /\ x < p.end
        BY <1>2, <2>1, <2>2, PagesInsideIs
      <3> QED BY <3>1 DEF Regions
    <2>4. PICK y : y = AlignDown(x, SmallPs)
      OBVIOUS
    <2>5. y \in Nat /\ y % SmallPs = 0 /\ y <= x /\ x < y + SmallPs /\ p.start <= y /\ y + SmallPs <= p.end
      BY <1>0, <2>3, <2>4, AlignDownIs
    <2>6. \A w \in y .. (y + SmallPs - 1) : w \in Units(r)
      BY <1>0, <2>2, <2>3, <2>5, UnitsIs
    <2>7. \A w \in y .. (y + SmallPs - 1) : w \in Covered(S)
      BY <2>6, CoveredIs
    <2>8. x \in y .. (y + SmallPs - 1) /\ y \in y .. (y + SmallPs - 1)
      BY <1>0, <2>3, <2>5
    <2> QED BY <2>5, <2>7, <2>8, WholeIs
  <1> QED BY <1>1, <1>2

-----------------------------------------------------------------------------
(* The inductive invariant.  Regions that hold a whole page leave no empty  *)
(* region behind when they are cut, and grow when they are merged.          *)
HoldsPage(r) == PagesInside(r).start < PagesInside(r).end
MapsHoldPages == \A m \in MemoryMaps : \A i \in DOMAIN m : HoldsPage(m[i])

LEMMA MergedHoldsPage ==
  ASSUME NEW r, Nonempty(r), HoldsPage(r), NEW n, Nonempty(n), n.start <= r.start, r.end <= n.end
  PROVE  HoldsPage(n)
  <1>1. PICK p, q : p = PagesInside(r) /\ q = PagesInside(n)
    OBVIOUS
  <1>2. /\ p \in Regions /\ p.start % SmallPs = 0 /\ p.end % SmallPs = 0 /\ r.start <= p.start /\ p.end <= r.end
    BY <1>1, PagesInsideIs
  <1>3. /\ q \in Regions
        /\ \A y \in Nat : y % SmallPs = 0 /\ n.start <= y => q.start <= y
        /\ \A y \in Nat : y % SmallPs = 0 /\ y <= n.end => y <= q.end
    BY <1>1, PagesInsideIs
  <1>4. /\ p.start \in Nat /\ p.end \in Nat /\ q.start \in Nat /\ q.end \in Nat
        /\ r.start \in Nat /\ r.end \in Nat /\ n.start \in Nat /\ n.end \in Nat
    BY <1>2, <1>3 DEF Regions, Nonempty
  <1>5. n.start <= p.start /\ p.end <= n.end
    BY <1>2, <1>4
  <1>6. q.start <= p.start /\ p.end <= q.end
    BY <1>2, <1>3, <1>4, <1>5
  <1>7. p.start < p.end
    BY <1>1 DEF HoldsPage
  <1>8. q.start < q.end
    BY <1>4, <1>6, <1>7
  <1> QED BY <1>1, <1>8 DEF HoldsPage

UnitsOf(s) == UNION {Units(s[i]) : i \in DOMAIN s}
PagesOf(S) == UNION {Units(PagesInside(r)) : r \in S}
Entries(s) == s \in Seq(Regions) /\ \A i \in DOMAIN s : Nonempty(s[i]) /\ HoldsPage(s[i])

LEMMA TailEntries ==
  ASSUME NEW s, Entries(s), s # <<>>
  PROVE  Entries(Tail(s)) /\ Nonempty(Head(s)) /\ HoldsPage(Head(s)) /\ UnitsOf(s) = Units(Head(s)) \cup UnitsOf(Tail(s))
  <1>1. PICK t : t = Tail(s)
    OBVIOUS
  <1>2. s \in Seq(Regions) /\ Len(s) \in Nat /\ Len(s) # 0 /\ DOMAIN s = 1 .. Len(s) /\ Head(s) = s[1]
    BY EmptySeq DEF Entries
  <1>3. t \in Seq(Regions) /\ Len(t) = Len(s) - 1 /\ DOMAIN t = 1 .. Len(t) /\ \A i \in 1 .. Len(t) : t[i] = s[i + 1]
    BY <1>1, <1>2
  <1>4. 1 \in DOMAIN s /\ \A i \in DOMAIN t : i + 1 \in DOMAIN s /\ t[i] = s[i + 1]
    BY <1>2, <1>3
  <1>5. \A i \in DOMAIN s : i = 1 \/ (i - 1 \in DOMAIN t /\ s[i] = t[i - 1])
    <2>1. ASSUME NEW i \in DOMAIN s, i # 1 PROVE i - 1 \in DOMAIN t /\ s[i] = t[i - 1]
      <3>1. i - 1 \in 1 .. Len(t) /\ (i - 1) + 1 = i
        BY <1>2, <1>3, <2>1
      <3> QED BY <1>3, <3>1
    <2> QED BY <2>1
  <1>6. Entries(t) /\ Nonempty(Head(s)) /\ HoldsPage(Head(s))
    BY <1>2, <1>3, <1>4 DEF Entries
  <1>7. UnitsOf(s) = Units(Head(s)) \cup UnitsOf(t)
    <2>1. ASSUME NEW x PROVE x \in UnitsOf(s) <=> x \in Units(Head(s)) \/ x \in UnitsOf(t)
      <3>1. x \in UnitsOf(s) <=> \E i \in DOMAIN s : x \in Units(s[i])
        BY DEF UnitsOf
      <3>2. x \in UnitsOf(t) <=> \E i \in DOMAIN t : x \in Units(t[i])
        BY DEF UnitsOf
      <3> QED BY <1>2, <1>4, <1>5, <3>1, <3>2
    <2> QED BY <2>1
  <1> QED BY <1>1, <1>6, <1>7

Phases == {"getMemory", "align", "boot16", "image", "paging", "populate", "cleanup", "done"}
Uses(A, T, C, D) ==
  /\ A \cap T = {} /\ A \cap C = {} /\ A \cap D = {} /\ T \cap C = {} /\ T \cap D = {} /\ C \cap D = {}
  /\ A \cup T \cup C \cup D = WholePages
Collecting == phase \in {"getMemory", "align"}
BootInv ==
  /\ map \in MemoryMaps /\ phase \in Phases
  /\ Canonical(memtmp) /\ Canonical(mem)
  /\ Entries(todo) /\ \A r \in memtmp : HoldsPage(r)
  /\ Collecting => taken = {} /\ fm = {}
  /\ phase = "getMemory" => mem = {} /\ Reported = Covered(memtmp) \cup UnitsOf(todo)
  /\ phase = "align" => WholePages = Covered(mem) \cup PagesOf(memtmp)
  /\ ~Collecting => Uses(Covered(mem), taken, fm, Reserved)

LEMMA EmptyRegions == Canonical({}) /\ Covered({}) = {} /\ PagesOf({}) = {} /\ UnitsOf(<<>>) = {}
  BY DEF Canonical, Covered, PagesOf, UnitsOf

LEMMA BootInitInv ==
  ASSUME MapsHoldPages, BootInit
  PROVE  BootInv
  <1>1. Entries(map) /\ map \in MemoryMaps
    <2>1. map \in MemoryMaps
      BY DEF BootInit
    <2>2. map \in Seq(Regions) /\ \A i \in DOMAIN map : map[i].start < map[i].end
      BY <2>1, BootMemoryAssumption DEF Regions
    <2>3. \A i \in DOMAIN map : HoldsPage(map[i])
      BY <2>1 DEF MapsHoldPages
    <2>4. \A i \in DOMAIN map : map[i] \in Regions
      BY <2>2
    <2> QED BY <2>1, <2>2, <2>3, <2>4 DEF Entries, Nonempty
  <1>2. Reported = UnitsOf(map)
    BY DEF Reported, UnitsOf
  <1> QED BY <1>1, <1>2, EmptyRegions DEF BootInit, BootInv, Phases, Collecting

LEMMA GetMemoryInv ==
  ASSUME BootInv, GetMemory
  PROVE  BootInv'
  <1>0. /\ phase = "getMemory" /\ map' = map /\ mem' = mem /\ taken' = taken /\ fm' = fm
    BY DEF GetMemory
  <1>1. /\ map \in MemoryMaps /\ Canonical(memtmp) /\ Entries(todo) /\ (\A r \in memtmp : HoldsPage(r))
        /\ taken = {} /\ fm = {} /\ mem = {} /\ Reported = Covered(memtmp) \cup UnitsOf(todo)
    BY <1>0 DEF BootInv, Collecting
  <1>2. Reported' = Reported /\ WholePages' = WholePages
    BY <1>0 DEF Reported, WholePages
  <1>3. CASE todo = <<>>
    <2>1. phase' = "align" /\ memtmp' = memtmp /\ todo' = todo
      BY <1>3 DEF GetMemory, EnterPhase
    <2>2. WholePages = PagesOf(memtmp)
      <3>1. WholePages = Whole(Reported)
        BY DEF WholePages, Whole
      <3>2. Reported = Covered(memtmp)
        BY <1>1, <1>3, EmptyRegions
      <3>3. ASSUME NEW x PROVE x \in Whole(Covered(memtmp)) <=> x \in PagesOf(memtmp)
        <4>1. x \in PagesOf(memtmp) <=> \E r \in memtmp : x \in Units(PagesInside(r))
          BY DEF PagesOf
        <4> QED BY <1>1, <4>1, PagesOfSet
      <3> QED BY <3>1, <3>2, <3>3
    <2> QED BY <1>0, <1>1, <1>2, <2>1, <2>2, EmptyRegions DEF BootInv, Phases, Collecting
  <1>4. CASE todo # <<>>
    <2>1. phase' = phase /\ memtmp' = Insert(memtmp, Head(todo)) /\ todo' = Tail(todo)
      BY <1>4 DEF GetMemory
    <2>2. PICK r, T : r = Head(todo) /\ T = Insert(memtmp, r)
      OBVIOUS
    <2>3. Entries(Tail(todo)) /\ Nonempty(r) /\ HoldsPage(r) /\ UnitsOf(todo) = Units(r) \cup UnitsOf(Tail(todo))
      BY <1>1, <1>4, <2>2, TailEntries
    <2>4. /\ Canonical(T) /\ Covered(T) = Covered(memtmp) \cup Units(r)
          /\ \A n \in T : n \in memtmp \/ (n.start <= r.start /\ r.end <= n.end)
      BY <1>1, <2>2, <2>3, InsertIs
    <2>5. \A n \in T : HoldsPage(n)
      <3>1. ASSUME NEW n \in T, n \notin memtmp PROVE HoldsPage(n)
        BY <2>3, <2>4, <3>1, MergedHoldsPage DEF Canonical
      <3> QED BY <1>1, <3>1
    <2>6. Reported = Covered(T) \cup UnitsOf(Tail(todo))
      BY <1>1, <2>3, <2>4
    <2>7. memtmp' = T
      BY <2>1, <2>2
    <2> QED BY <1>0, <1>1, <1>2, <2>1, <2>3, <2>4, <2>5, <2>6, <2>7, EmptyRegions DEF BootInv, Phases, Collecting
  <1> QED BY <1>3, <1>4

LEMMA AlignMemoryInv ==
  ASSUME BootInv, AlignMemory
  PROVE  BootInv'
  <1>0. /\ phase = "align" /\ map' = map /\ todo' = todo /\ taken' = taken /\ fm' = fm
    BY DEF AlignMemory, Keep
  <1>1. /\ map \in MemoryMaps /\ Canonical(memtmp) /\ Canonical(mem) /\ Entries(todo) /\ (\A r \in memtmp : HoldsPage(r))
        /\ taken = {} /\ fm = {} /\ WholePages = Covered(mem) \cup PagesOf(memtmp)
    BY <1>0 DEF BootInv, Collecting
  <1>2. Reported' = Reported /\ WholePages' = WholePages
    BY <1>0 DEF Reported, WholePages
  <1>3. CASE memtmp = {}
    <2>1. phase' = "boot16" /\ memtmp' = memtmp /\ mem' = mem
      BY <1>3 DEF AlignMemory, EnterPhase
    <2>2. WholePages = Covered(mem)
      BY <1>1, <1>3, EmptyRegions
    <2>3. Reserved' = {}
      BY <2>1 DEF Reserved
    <2>4. Uses(Covered(mem), taken, fm, Reserved)'
      BY <1>0, <1>1, <1>2, <2>1, <2>2, <2>3 DEF Uses
    <2> QED BY <1>0, <1>1, <2>1, <2>4 DEF BootInv, Phases, Collecting
  <1>4. CASE memtmp # {}
    <2>1. PICK r, p, T, S : r = First(memtmp) /\ p = PagesInside(r) /\ T = memtmp \ {r} /\ S = Insert(mem, p)
      OBVIOUS
    <2>2. phase' = phase /\ memtmp' = T /\ mem' = S
      BY <1>4, <2>1 DEF AlignMemory
    <2>3. r \in memtmp /\ Nonempty(r) /\ HoldsPage(r)
      BY <1>1, <1>4, <2>1, FirstIs DEF Canonical
    <2>4. Nonempty(p)
      BY <2>1, <2>3, PagesInsideIs DEF HoldsPage, Nonempty
    <2>5. Canonical(S) /\ Covered(S) = Covered(mem) \cup Units(p)
      BY <1>1, <2>1, <2>4, InsertIs
    <2>6. Canonical(T) /\ \A q \in T : HoldsPage(q)
      BY <1>1, <2>1 DEF Canonical
    <2>7. PagesOf(memtmp) = Units(p) \cup PagesOf(T)
      <3>1. ASSUME NEW x PROVE x \in PagesOf(memtmp) <=> x \in Units(p) \/ x \in PagesOf(T)
        <4>1. x \in PagesOf(memtmp) <=> \E q \in memtmp : x \in Units(PagesInside(q))
          BY DEF PagesOf
        <4>2. x \in PagesOf(T) <=> \E q \in T : x \in Units(PagesInside(q))
          BY DEF PagesOf
        <4> QED BY <2>1, <2>3, <4>1, <4>2
      <3> QED BY <3>1
    <2>8. WholePages = Covered(S) \cup PagesOf(T)
      BY <1>1, <2>5, <2>7
    <2> QED BY <1>0, <1>1, <1>2, <2>2, <2>5, <2>6, <2>8 DEF BootInv, Phases, Collecting
  <1> QED BY <1>3, <1>4

(* A region that is taken out of mem, and what is left of it.               *)
LEMMA ReservedRegions ==
  /\ Nonempty(Boot16Region) /\ (KernelCode = KernelPs => Nonempty(ImageRegion))
  <1>1. Boot16Region \in Regions /\ ImageRegion \in Regions
    BY BootConstants DEF Boot16Region, ImageRegion, Region, Regions
  <1>2. Boot16Region.start < Boot16Region.end
    BY BootConstants DEF Boot16Region, Region
  <1>3. KernelCode = KernelPs => ImageRegion.start < ImageRegion.end
    BY BootConstants DEF ImageRegion, Region
  <1> QED BY <1>1, <1>2, <1>3 DEF Nonempty

LEMMA ReserveInv ==
  ASSUME KernelCode = KernelPs, BootInv, Reserve
  PROVE  BootInv'
  <1>0. /\ phase \in {"boot16", "image"} /\ map' = map /\ todo' = todo /\ taken' = taken /\ fm' = fm /\ memtmp' = memtmp
    BY DEF Reserve, Keep
  <1>1. /\ map \in MemoryMaps /\ Canonical(memtmp) /\ Canonical(mem) /\ Entries(todo) /\ (\A r \in memtmp : HoldsPage(r))
        /\ Uses(Covered(mem), taken, fm, Reserved)
    BY <1>0 DEF BootInv, Collecting
  <1>2. WholePages' = WholePages
    BY <1>0 DEF Reported, WholePages
  <1>3. PICK r, S : r = (IF phase = "boot16" THEN Boot16Region ELSE ImageRegion) /\ S = RemoveRegion(mem, r)
    OBVIOUS
  <1>4. HasRegion(mem, r) /\ mem' = S /\ phase' = (IF phase = "boot16" THEN "image" ELSE "paging")
    BY <1>3 DEF Reserve, EnterPhase
  <1>5. Nonempty(r)
    BY <1>3, ReservedRegions
  <1>6. Canonical(S) /\ Covered(S) = Covered(mem) \ Units(r) /\ Units(r) \subseteq Covered(mem)
    BY <1>1, <1>3, <1>4, <1>5, RemoveIs
  <1>7. Reserved' = Reserved \cup Units(r)
    <2>1. CASE phase = "boot16"
      <3>1. Reserved = {} /\ Reserved' = Units(Boot16Region)
        BY <1>4, <2>1 DEF Reserved, Boot16Region, Units, Region
      <3> QED BY <1>3, <2>1, <3>1
    <2>2. CASE phase = "image"
      <3>1. Reserved = Units(Boot16Region) /\ Reserved' = Units(Boot16Region) \cup Units(ImageRegion)
        BY <1>4, <2>2 DEF Reserved, Boot16Region, ImageRegion, Units, Region
      <3> QED BY <1>3, <2>2, <3>1
    <2> QED BY <1>0, <2>1, <2>2
  <1>8. PICK A, D : A = Covered(mem) /\ D = Reserved
    OBVIOUS
  <1>9. Uses(A \ Units(r), taken, fm, D \cup Units(r))
    BY <1>1, <1>6, <1>8 DEF Uses
  <1>10. Uses(Covered(mem), taken, fm, Reserved)'
    BY <1>0, <1>2, <1>4, <1>6, <1>7, <1>8, <1>9 DEF Uses
  <1>11. phase' \in Phases /\ phase' \notin {"getMemory", "align"}
    BY <1>0, <1>4 DEF Phases
  <1> QED BY <1>0, <1>1, <1>4, <1>6, <1>10, <1>11 DEF BootInv, Collecting

LEMMA FrontNonempty ==
  ASSUME NEW S, Canonical(S), NEW size \in Nat \ {0}, Fitting(S, size) # {}
  PROVE  Nonempty(FrontRegion(S, size))
  <1>1. PICK t, u : t = First(Fitting(S, size)) /\ u = AlignUp(t.start, size)
    OBVIOUS
  <1>2. Nonempty(t)
    BY <1>1, FirstIs DEF Fitting, Canonical
  <1>3. u \in Nat
    BY <1>1, <1>2, AlignUpIs DEF Nonempty, Regions
  <1>4. FrontRegion(S, size) = Region(u, u + size)
    BY <1>1 DEF FrontRegion
  <1> QED BY <1>3, <1>4 DEF Region, Nonempty, Regions

LEMMA BootstrapInv ==
  ASSUME BootInv, Bootstrap
  PROVE  BootInv'
  <1>0. /\ phase = "paging" /\ map' = map /\ todo' = todo /\ fm' = fm /\ memtmp' = memtmp
        /\ phase' \in {"populate", "paging"}
    BY DEF Bootstrap, EnterPhase
  <1>1. /\ map \in MemoryMaps /\ Canonical(memtmp) /\ Canonical(mem) /\ Entries(todo) /\ (\A r \in memtmp : HoldsPage(r))
        /\ Uses(Covered(mem), taken, fm, Reserved)
    BY <1>0 DEF BootInv, Collecting
  <1>2. WholePages' = WholePages
    BY <1>0 DEF Reported, WholePages
  <1>3. PICK r, S : r = FrontRegion(mem, RetrieveSize) /\ S = RemoveRegion(mem, r)
    OBVIOUS
  <1>4. HasRegion(mem, r) /\ mem' = S /\ taken' = taken \cup Units(r) /\ Fitting(mem, RetrieveSize) # {}
    BY <1>3 DEF Bootstrap
  <1>5. Nonempty(r)
    <2>1. RetrieveSize \in Nat \ {0}
      BY BootConstants DEF RetrieveSize
    <2> QED BY <1>1, <1>3, <1>4, <2>1, FrontNonempty
  <1>6. Canonical(S) /\ Covered(S) = Covered(mem) \ Units(r) /\ Units(r) \subseteq Covered(mem)
    BY <1>1, <1>3, <1>4, <1>5, RemoveIs
  <1>7. Reserved' = Reserved
    BY <1>0 DEF Reserved
  <1>8. PICK A, D, T : A = Covered(mem) /\ D = Reserved /\ T = taken
    OBVIOUS
  <1>9. Uses(A \ Units(r), T \cup Units(r), fm, D)
    BY <1>1, <1>6, <1>8 DEF Uses
  <1>10. Uses(Covered(mem), taken, fm, Reserved)'
    BY <1>0, <1>2, <1>4, <1>6, <1>7, <1>8, <1>9 DEF Uses
  <1>11. phase' \in Phases /\ phase' \notin {"getMemory", "align"}
    BY <1>0 DEF Phases
  <1> QED BY <1>0, <1>1, <1>4, <1>6, <1>10, <1>11 DEF BootInv, Collecting

LEMMA PopulateInv ==
  ASSUME BootInv, Populate
  PROVE  BootInv'
  <1>0. /\ phase = "populate" /\ map' = map /\ todo' = todo /\ memtmp' = memtmp /\ taken' = taken
        /\ phase' = "cleanup" /\ mem' = {} /\ fm' = fm \cup Covered(mem)
    BY DEF Populate, EnterPhase
  <1>1. /\ map \in MemoryMaps /\ Canonical(memtmp) /\ Entries(todo) /\ (\A r \in memtmp : HoldsPage(r))
        /\ Uses(Covered(mem), taken, fm, Reserved)
    BY <1>0 DEF BootInv, Collecting
  <1>2. WholePages' = WholePages /\ Reserved' = Reserved
    BY <1>0 DEF Reported, WholePages, Reserved
  <1>3. Uses({}, taken, fm \cup Covered(mem), Reserved)
    BY <1>1 DEF Uses
  <1>4. Uses(Covered(mem), taken, fm, Reserved)'
    BY <1>0, <1>2, <1>3, EmptyRegions DEF Uses
  <1>5. phase' \in Phases /\ phase' \notin {"getMemory", "align"}
    BY <1>0 DEF Phases
  <1> QED BY <1>0, <1>1, <1>4, <1>5, EmptyRegions DEF BootInv, Collecting

(* With the boot segment inside the first kernel page, bootCleanup releases *)
(* the boot code and that segment, and nothing else.                        *)
LEMMA CleanupParts ==
  ASSUME KernelCode = KernelPs
  PROVE  /\ Units(ImageRegion) = BootSegment \cup (KernelCode .. (KernelEnd - 1))
         /\ BootSegment \cap (KernelCode .. (KernelEnd - 1)) = {} /\ BootPages = {}
  <1>1. Units(ImageRegion) = KernelBoot .. (KernelEnd - 1)
    BY DEF Units, ImageRegion, Region
  <1>2. BootPages = {}
    <2>1. KernelPs .. (KernelCode - 1) = {}
      BY BootConstants
    <2> QED BY <2>1 DEF BootPages
  <1> QED BY <1>1, <1>2, BootConstants DEF BootSegment

LEMMA Boot16Units ==
  Units(Boot16Region) = Boot16 .. (Boot16 + SmallPs - 1)
  <1>1. PICK r : r = Boot16Region
    OBVIOUS
  <1>2. r.start = Boot16 /\ r.end = Boot16 + SmallPs
    BY <1>1 DEF Boot16Region, Region
  <1>3. Units(r) = r.start .. (r.end - 1)
    BY DEF Units
  <1> QED BY <1>1, <1>2, <1>3, BootConstants

LEMMA BootCleanupInv ==
  ASSUME KernelCode = KernelPs, BootInv, BootCleanup
  PROVE  BootInv'
  <1>0. /\ phase = "cleanup" /\ map' = map /\ todo' = todo /\ memtmp' = memtmp /\ taken' = taken
        /\ phase' = "done" /\ mem' = mem /\ fm' = fm \cup Units(Boot16Region) \cup BootSegment \cup BootPages
    BY DEF BootCleanup, EnterPhase
  <1>1. /\ map \in MemoryMaps /\ Canonical(memtmp) /\ Canonical(mem) /\ Entries(todo) /\ (\A r \in memtmp : HoldsPage(r))
        /\ Uses(Covered(mem), taken, fm, Reserved)
    BY <1>0 DEF BootInv, Collecting
  <1>2. WholePages' = WholePages /\ Covered(mem)' = Covered(mem)
    BY <1>0 DEF Reported, WholePages, Covered
  <1>3. PICK X, Y, Z : X = Units(Boot16Region) /\ Y = BootSegment /\ Z = KernelCode .. (KernelEnd - 1)
    OBVIOUS
  <1>4. Reserved = X \cup Y \cup Z /\ Y \cap Z = {} /\ fm' = fm \cup X \cup Y
    <2>1. Reserved = Units(Boot16Region) \cup Units(ImageRegion)
      BY <1>0 DEF Reserved
    <2> QED BY <1>0, <1>3, <2>1, CleanupParts
  <1>5. Reserved' = Z
    BY <1>0, <1>3 DEF Reserved
  <1>6. X \cap Z = {}
    <2>1. Boot16 + SmallPs <= KernelBoot
      BY BootMemoryAssumption
    <2>2. X = Boot16 .. (Boot16 + SmallPs - 1)
      BY <1>3, Boot16Units
    <2> QED BY <1>3, <2>1, <2>2, BootConstants
  <1>7. Uses(Covered(mem), taken, fm \cup X \cup Y, Z)
    BY <1>1, <1>4, <1>6 DEF Uses
  <1>8. Uses(Covered(mem), taken, fm, Reserved)'
    BY <1>0, <1>2, <1>4, <1>5, <1>7 DEF Uses
  <1>9. phase' \in Phases /\ phase' \notin {"getMemory", "align"}
    BY <1>0 DEF Phases
  <1> QED BY <1>0, <1>1, <1>8, <1>9 DEF BootInv, Collecting

(* Every whole page the boot loader reports has exactly one use throughout  *)
(* boot, and no other page has any, and region sets stay canonical, for any *)
(* memory map whose entries each hold a whole page and any page sizes, when *)
(* the code starts with the second kernel page as linker.ld has it          *)
(* (RegionSet.h insert, remove, retrieve_front; Machine.cc initBSP,         *)
(* bootCleanup).                                                            *)
THEOREM BootMemoryStaysSound ==
  ASSUME MapsHoldPages, KernelCode = KernelPs
  PROVE  BootSpec => []BootMemorySound
  <1>1. BootInit => BootInv
    BY BootInitInv
  <1>2. BootInv /\ [BootNext]_bootVars => BootInv'
    <2> SUFFICES ASSUME BootInv, [BootNext]_bootVars PROVE BootInv'
      OBVIOUS
    <2>1. CASE UNCHANGED bootVars
      <3>1. map' = map /\ todo' = todo /\ memtmp' = memtmp /\ mem' = mem /\ taken' = taken /\ fm' = fm /\ phase' = phase
        BY <2>1 DEF bootVars
      <3>2. Reported' = Reported /\ WholePages' = WholePages /\ Reserved' = Reserved
        BY <3>1 DEF Reported, WholePages, Reserved
      <3> QED BY <3>1, <3>2 DEF BootInv, Collecting, Uses
    <2>2. CASE BootOver
      <3>1. UNCHANGED bootVars
        BY <2>2 DEF BootOver
      <3> QED BY <2>1, <3>1
    <2> QED BY <2>1, <2>2, GetMemoryInv, AlignMemoryInv, ReserveInv, BootstrapInv, PopulateInv, BootCleanupInv DEF BootNext
  <1>3. BootInv => BootMemorySound
    <2> SUFFICES ASSUME BootInv PROVE RegionsCanonical /\ MemoryOnce
      BY DEF BootMemorySound
    <2>1. RegionsCanonical
      <3>1. ASSUME NEW S \in {memtmp, mem}
            PROVE  /\ \A r \in S : r.start < r.end
                   /\ \A r, q \in S : r = q \/ r.end < q.start \/ q.end < r.start
        <4>1. Canonical(S)
          BY DEF BootInv
        <4> QED BY <4>1 DEF Canonical, Nonempty, Separate
      <3> QED BY <3>1 DEF RegionsCanonical
    <2>2. ASSUME phase \notin {"getMemory", "align"}
          PROVE  LET uses == <<Covered(mem), taken, fm, Reserved>>
                 IN /\ \A i, j \in 1 .. 4 : i < j => uses[i] \cap uses[j] = {}
                    /\ UNION Range(uses) = WholePages
      <3>1. PICK A, T, C, D : A = Covered(mem) /\ T = taken /\ C = fm /\ D = Reserved
        OBVIOUS
      <3>2. Uses(A, T, C, D)
        BY <2>2, <3>1 DEF BootInv, Collecting
      <3>3. PICK u : u = <<A, T, C, D>>
        OBVIOUS
      <3>4. \A i, j \in 1 .. 4 : i < j => u[i] \cap u[j] = {}
        BY <3>2, <3>3 DEF Uses
      <3>5. Range(u) = {A, T, C, D}
        <4>1. DOMAIN u = 1 .. 4 /\ u[1] = A /\ u[2] = T /\ u[3] = C /\ u[4] = D
          BY <3>3
        <4> QED BY <4>1 DEF Range
      <3>6. UNION Range(u) = WholePages
        <4>1. UNION {A, T, C, D} = A \cup T \cup C \cup D
          OBVIOUS
        <4> QED BY <3>2, <3>5, <4>1 DEF Uses
      <3> QED BY <3>1, <3>3, <3>4, <3>6
    <2> QED BY <2>1, <2>2 DEF MemoryOnce
  <1> QED BY <1>1, <1>2, <1>3, PTL DEF BootSpec

-----------------------------------------------------------------------------
(* Small and large frames: the frame of a level that a small frame is in.  *)
Of(pl, i) == IF pl = 1 THEN i ELSE i \div B
Index(pl) == 0 .. num(pl) - 1

LEMMA Positive == B \in Nat /\ B > 1 /\ N \in Nat /\ N > 0 /\ N % B = 0
  BY BitmapAssumption, FrameAssumption

LEMMA BlockQuotient ==
  ASSUME NEW i \in Nat
  PROVE  i \div B \in Nat /\ (i \div B) * B \in Nat /\ (i \div B) * B <= i /\ i < (i \div B) * B + B
  BY Positive, Z3

LEMMA Products ==
  ASSUME NEW p \in Nat, NEW q \in Nat
  PROVE  p * B \in Nat /\ (p < q => p * B + B <= q * B) /\ (p * B < q * B + B => p <= q)
  <1>1. p * B \in Nat /\ q * B \in Nat
    BY Positive
  <1>2. ASSUME NEW x \in Nat, NEW y \in Nat, x < y PROVE x * B + B <= y * B
    <2>1. PICK d \in Nat : y = x + 1 + d
      <3>1. y - x - 1 \in Nat /\ y = x + 1 + (y - x - 1)
        BY <1>2
      <3> QED BY <3>1
    <2>2. y * B = x * B + B + d * B
      BY <2>1, Positive
    <2>3. d * B \in Nat /\ x * B \in Nat
      BY Positive
    <2> QED BY <2>2, <2>3, Positive
  <1>3. p < q => p * B + B <= q * B
    BY <1>2
  <1>4. q < p => q * B + B <= p * B
    BY <1>2
  <1> QED BY <1>1, <1>3, <1>4, Positive

LEMMA QuotientIs ==
  ASSUME NEW i \in Nat, NEW q \in Nat, q * B <= i, i < q * B + B
  PROVE  i \div B = q
  <1>1. PICK p \in Nat : p = i \div B
    BY BlockQuotient
  <1>2. p * B \in Nat /\ p * B <= i /\ i < p * B + B
    BY <1>1, BlockQuotient
  <1>3. q * B \in Nat
    BY Products
  <1>4. p * B < q * B + B /\ q * B < p * B + B
    BY <1>2, <1>3, Positive
  <1>5. p <= q /\ q <= p
    BY <1>4, Products
  <1> QED BY <1>1, <1>5

LEMMA Sizes ==
  /\ num(1) = N /\ num(2) \in Nat /\ num(2) * B = N /\ 1 \in PL /\ 2 \in PL
  /\ \A pl \in PL : num(pl) \in Nat
  <1>1. num(1) = N /\ num(2) = N \div B
    BY Positive DEF num, ptentries
  <1>2. N \div B \in Nat /\ (N \div B) * B = N
    BY Positive, Z3
  <1> QED BY <1>1, <1>2, Positive DEF PL

LEMMA OfIs ==
  ASSUME NEW pl \in PL, NEW i \in Small
  PROVE  Of(pl, i) \in Index(pl) /\ i \in Nat
  <1>1. i \in Nat /\ i < N
    BY Positive DEF Small
  <1>2. Of(1, i) \in Index(1)
    BY <1>1, Sizes DEF Of, Index
  <1>3. PICK q \in Nat, m \in Nat : q = i \div B /\ m = num(2)
    BY <1>1, BlockQuotient, Sizes
  <1>4. q * B <= i /\ m * B = N /\ q * B \in Nat
    BY <1>1, <1>3, BlockQuotient, Sizes
  <1>5. ~ (m <= q)
    <2>1. m < q => m * B + B <= q * B
      BY Products
    <2>2. m = q => m * B = q * B
      OBVIOUS
    <2> QED BY <1>1, <1>3, <1>4, <2>1, <2>2, Positive
  <1>6. Of(2, i) \in Index(2)
    BY <1>3, <1>5 DEF Of, Index
  <1> QED BY <1>1, <1>2, <1>6 DEF PL

(* The parts of a frame are the small frames in it, one at least.          *)
LEMMA PartsAre ==
  ASSUME NEW pl \in PL, NEW k \in Index(pl)
  PROVE  /\ Parts(pl, k) = {i \in Small : Of(pl, i) = k}
         /\ k * ptentries(pl) \in Parts(pl, k)
  <1>1. k \in Nat /\ k < num(pl)
    BY Sizes DEF Index
  <1>a. CASE pl = 1
    <2>1. ptentries(pl) = 1 /\ num(pl) = N
      BY <1>a, Sizes DEF ptentries
    <2>2. Parts(pl, k) = {k} /\ k * ptentries(pl) = k
      BY <1>1, <2>1 DEF Parts
    <2>3. k \in Small /\ \A i \in Small : Of(pl, i) = i
      BY <1>a, <1>1, <2>1, Positive DEF Small, Of
    <2> QED BY <2>2, <2>3
  <1>b. CASE pl = 2
    <2>1. ptentries(pl) = B /\ num(pl) \in Nat /\ num(pl) * B = N
      BY <1>b, Sizes DEF ptentries
    <2>2. PICK m \in Nat, b \in Nat : m = num(pl) /\ b = k * B
      BY <1>1, <2>1, Products
    <2>3. b + B <= N
      BY <1>1, <2>1, <2>2, Products
    <2>4. Parts(pl, k) = b .. b + B - 1 /\ k * ptentries(pl) = b
      BY <2>1, <2>2 DEF Parts
    <2>5. ASSUME NEW i \in b .. b + B - 1 PROVE i \in Small /\ Of(pl, i) = k
      <3>1. i \in Nat /\ b <= i /\ i < b + B /\ i < N
        BY <2>2, <2>3, <2>5, Positive
      <3>2. i \div B = k
        BY <1>1, <2>2, <3>1, QuotientIs
      <3> QED BY <1>b, <3>1, <3>2, Positive DEF Small, Of
    <2>6. ASSUME NEW i \in Small, Of(pl, i) = k PROVE i \in b .. b + B - 1
      <3>1. i \in Nat /\ i \div B = k
        BY <1>b, <2>6, Positive DEF Small, Of
      <3>2. b <= i /\ i < b + B
        BY <2>2, <3>1, BlockQuotient
      <3> QED BY <2>2, <3>1, <3>2, Positive
    <2>7. b \in b .. b + B - 1
      BY <2>2, Positive
    <2> QED BY <2>4, <2>5, <2>6, <2>7
  <1> QED BY <1>a, <1>b DEF PL

-----------------------------------------------------------------------------
(* The bits of a level, and what the contract says about them.             *)
FrBits(pl) == Bits(num(pl), frames[pl])
TzBits(pl) == Bits(num(pl), tozero[pl])
Exact(maps) == maps = [pl \in PL |-> Holding(num(pl), Bits(num(pl), maps[pl]))]

LEMMA BitsIn ==
  ASSUME NEW pl \in PL, NEW bm
  PROVE  Bits(num(pl), bm) \subseteq Index(pl)
  BY DEF Bits, Index

LEMMA HoldingBits ==
  ASSUME BitmapsWork, NEW pl \in PL, NEW S \in SUBSET Index(pl)
  PROVE  LET bm == Holding(num(pl), S) IN
         /\ Bits(num(pl), bm) = S
         /\ FindFirst(num(pl), bm) = (IF S = {} THEN NotFound ELSE Min(S))
         /\ \A i \in Index(pl) : /\ Set(num(pl), bm, i, 0) = Holding(num(pl), S \cup {i})
                                 /\ Clr(num(pl), bm, i, 0) = Holding(num(pl), S \ {i})
  <1>1. BitmapContract(num(pl))
    BY DEF BitmapsWork
  <1> QED BY <1>1 DEF BitmapContract, Index

LEMMA HoldingBlocks ==
  ASSUME BitmapsWork, NEW S \in SUBSET Index(1)
  PROVE  LET bm == Holding(num(1), S) IN
         /\ \A T \in SUBSET Index(1) : ClrAll(num(1), bm, T) = Holding(num(1), S \ T)
         /\ \A i \in Index(1) :
              /\ BlockFull(bm, i) <=> Parts(2, i \div B) \subseteq S
              /\ BlockSet(num(1), bm, i) = Holding(num(1), S \cup Parts(2, i \div B))
              /\ BlockClr(num(1), bm, i) = Holding(num(1), S \ Parts(2, i \div B))
  <1>1. BlockContract(num(1)) /\ num(1) = N
    BY Sizes DEF BitmapsWork
  <1> QED BY <1>1 DEF BlockContract, Index

(* The first bit is a bit.                                                 *)
LEMMA FoundIs ==
  ASSUME BitmapsWork, NEW pl \in PL, NEW maps, Exact(maps)
  PROVE  LET S == Bits(num(pl), maps[pl])
             i == FindFirst(num(pl), maps[pl])
         IN (i = NotFound <=> S = {}) /\ (i # NotFound => i \in S)
  <1>1. PICK S : S = Bits(num(pl), maps[pl])
    OBVIOUS
  <1>2. maps[pl] = Holding(num(pl), S) /\ S \in SUBSET Index(pl)
    BY <1>1, BitsIn DEF Exact
  <1>3. FindFirst(num(pl), maps[pl]) = (IF S = {} THEN NotFound ELSE Min(S))
    BY <1>2, HoldingBits
  <1>4. S # {} => Min(S) \in S
    <2>1. S \subseteq Nat
      BY <1>2, Sizes DEF Index
    <2>2. ASSUME S # {} PROVE \E x \in S : \A y \in S : x <= y
      BY <2>1, <2>2, LeastNumber
    <2> QED BY <2>2 DEF Min
  <1>5. -1 \notin S
    BY <1>2, Sizes DEF Index
  <1> QED BY <1>1, <1>3, <1>4, <1>5 DEF NotFound

(* One level of a map is changed.                                          *)
IsMap(maps) == maps = [pl \in PL |-> maps[pl]]

LEMMA Changed ==
  ASSUME BitmapsWork, NEW maps, Exact(maps), NEW pl \in PL, NEW T \in SUBSET Index(pl), NEW mup, IsMap(mup),
         mup[pl] = Holding(num(pl), T), \A k \in PL \ {pl} : mup[k] = maps[k]
  PROVE  /\ Exact(mup) /\ Bits(num(pl), mup[pl]) = T
         /\ \A k \in PL \ {pl} : Bits(num(k), mup[k]) = Bits(num(k), maps[k])
  <1>1. \A k \in PL : maps[k] = Holding(num(k), Bits(num(k), maps[k]))
    BY DEF Exact
  <1>2. Bits(num(pl), Holding(num(pl), T)) = T
    BY HoldingBits
  <1>3. Bits(num(pl), mup[pl]) = T /\ \A k \in PL \ {pl} : Bits(num(k), mup[k]) = Bits(num(k), maps[k])
    BY <1>2
  <1>4. \A k \in PL : mup[k] = Holding(num(k), Bits(num(k), mup[k]))
    BY <1>1, <1>3
  <1>5. Exact(mup)
    BY <1>4 DEF Exact, IsMap
  <1> QED BY <1>3, <1>5

-----------------------------------------------------------------------------
(* The inductive invariant.  w says where every small frame is.            *)
OpState == [pc : {"idle", "find", "zero", "large", "release"}, pl : PL, call : {0, 1, 2}, idx : Nat, cnt : Nat]
Place == [at : {"owner"}] \cup [at : {"frames", "tozero"}, pl : PL] \cup [at : {"busy"}, c : FmCpu]
Owner == [at |-> "owner"]
InFrames(pl) == [at |-> "frames", pl |-> pl]
InTozero(pl) == [at |-> "tozero", pl |-> pl]
With(c) == [at |-> "busy", c |-> c]

FmTypes ==
  /\ Exact(frames) /\ Exact(tozero) /\ lock \in [PL -> FmCpu \cup {NoFmCpu}] /\ op \in [FmCpu -> OpState]
  /\ owned \in [0 .. N + B -> Nat] /\ \A i \in (0 .. N + B) \ Small : owned[i] = 0
Asking(c) == op[c].pc \in {"find", "zero"} /\ op[c].call = 1 /\ op[c].pl = 2
CallOk(c) ==
  /\ op[c].pc = "find" => lock[op[c].pl] = c /\ op[c].call # 0 /\ (op[c].pl = 1 => op[c].call = 1)
  /\ op[c].pc = "zero" => op[c].idx \in Index(op[c].pl) /\ (op[c].pl = 1 => op[c].call \in {0, 1})
  /\ op[c].pc = "release" => op[c].cnt > 0 /\ op[c].idx + op[c].cnt <= N
  /\ Asking(c) => lock[1] = c /\ FrBits(1) = {} /\ TzBits(1) = {}
Located(w, i) ==
  /\ owned[i] = (IF w[i] = Owner THEN 1 ELSE 0)
  /\ \A pl \in PL : Of(pl, i) \in FrBits(pl) <=> w[i] = InFrames(pl)
  /\ \A pl \in PL : Of(pl, i) \in TzBits(pl) <=> w[i] = InTozero(pl)
  /\ \A c \in FmCpu : i \in Busy(c) <=> w[i] = With(c)
Accounts(w) == w \in [Small -> Place] /\ \A i \in Small : Located(w, i)
AllZeroed == \A i \in Small : \A pl \in PL : Of(pl, i) \in FrBits(pl) => i \in zeroed
NoFullBlock == \A k \in Index(2) : ~ (Parts(2, k) \subseteq FrBits(1))
FmInv ==
  /\ FmTypes /\ (\A c \in FmCpu : CallOk(c)) /\ (\E w : Accounts(w))
  /\ AllZeroed /\ NoFullBlock /\ OutOfMemoryTrue

-----------------------------------------------------------------------------
(* What a step of c leaves alone.                                          *)
LEMMA PlacesApart ==
  /\ Owner \in Place /\ \A pl \in PL : InFrames(pl) \in Place /\ InTozero(pl) \in Place
  /\ \A c \in FmCpu : With(c) \in Place
  /\ \A pl \in PL : InFrames(pl) # Owner /\ InTozero(pl) # Owner
  /\ \A pl, k \in PL : InFrames(pl) # InTozero(k) /\ (InFrames(pl) = InFrames(k) => pl = k)
                       /\ (InTozero(pl) = InTozero(k) => pl = k)
  /\ \A c \in FmCpu : With(c) # Owner /\ \A pl \in PL : With(c) # InFrames(pl) /\ With(c) # InTozero(pl)
  /\ \A c, d \in FmCpu : With(c) = With(d) => c = d
  BY DEF Place, Owner, InFrames, InTozero, With

LEMMA Others ==
  ASSUME FmInv, NEW c \in FmCpu, NEW o \in OpState, op' = [op EXCEPT ![c] = o],
         \A pl \in PL : lock'[pl] = lock[pl] \/ lock[pl] \in {c, NoFmCpu},
         (FrBits(1)' = FrBits(1) /\ TzBits(1)' = TzBits(1)) \/ lock[1] \in {c, NoFmCpu}
  PROVE  /\ op' \in [FmCpu -> OpState] /\ op'[c] = o
         /\ \A d \in FmCpu \ {c} : CallOk(d)' /\ Busy(d)' = Busy(d)
  <1>1. op \in [FmCpu -> OpState] /\ \A d \in FmCpu : CallOk(d)
    BY DEF FmInv, FmTypes
  <1>2. op' \in [FmCpu -> OpState] /\ op'[c] = o /\ \A d \in FmCpu \ {c} : op'[d] = op[d]
    BY <1>1
  <1>3. ASSUME NEW d \in FmCpu \ {c} PROVE CallOk(d)' /\ Busy(d)' = Busy(d)
    <2>1. op'[d] = op[d] /\ CallOk(d) /\ d # c /\ d # NoFmCpu /\ op[d] \in OpState
      BY <1>1, <1>2, FrameAssumption
    <2>2. op[d].pl \in PL /\ 1 \in PL
      BY <2>1 DEF OpState, PL
    <2>3. \A pl \in PL : lock[pl] = d => lock'[pl] = d
      BY <2>1
    <2>4. lock[1] = d => FrBits(1)' = FrBits(1) /\ TzBits(1)' = TzBits(1)
      BY <2>1
    <2>5. Asking(d)' <=> Asking(d)
      BY <2>1 DEF Asking
    <2>6. CallOk(d)'
      BY <2>1, <2>2, <2>3, <2>4, <2>5 DEF CallOk
    <2>7. Busy(d)' = Busy(d)
      BY <2>1 DEF Busy
    <2> QED BY <2>6, <2>7
  <1> QED BY <1>2, <1>3

(* The step of one CPU: what has to be shown.                              *)
LEMMA StepKeeps ==
  ASSUME FmInv, NEW c \in FmCpu, NEW o \in OpState, op' = [op EXCEPT ![c] = o],
         lock' \in [PL -> FmCpu \cup {NoFmCpu}],
         \A pl \in PL : lock'[pl] = lock[pl] \/ lock[pl] \in {c, NoFmCpu},
         (FrBits(1)' = FrBits(1) /\ TzBits(1)' = TzBits(1)) \/ lock[1] \in {c, NoFmCpu},
         Exact(frames'), Exact(tozero'),
         owned' \in [0 .. N + B -> Nat], \A i \in (0 .. N + B) \ Small : owned'[i] = 0,
         CallOk(c)', NEW v, Accounts(v)', AllZeroed', NoFullBlock', panic' # "out_of_memory"
  PROVE  FmInv'
  <1>1. op' \in [FmCpu -> OpState] /\ \A d \in FmCpu \ {c} : CallOk(d)'
    BY Others
  <1>2. FmTypes'
    BY <1>1 DEF FmTypes
  <1>3. OutOfMemoryTrue'
    BY DEF OutOfMemoryTrue
  <1> QED BY <1>1, <1>2, <1>3 DEF FmInv

(* Steps that touch neither bitmaps nor owners.                            *)
LEMMA QuietStep ==
  ASSUME FmInv, NEW c \in FmCpu, NEW o \in OpState, op' = [op EXCEPT ![c] = o],
         lock' \in [PL -> FmCpu \cup {NoFmCpu}],
         \A pl \in PL : lock'[pl] = lock[pl] \/ lock[pl] \in {c, NoFmCpu},
         UNCHANGED <<frames, tozero, owned, zeroed>>, panic' # "out_of_memory",
         CallOk(c)', Busy(c)' = Busy(c)
  PROVE  FmInv'
  <1>1. PICK w : Accounts(w)
    BY DEF FmInv
  <1>2. (\A pl \in PL : FrBits(pl)' = FrBits(pl) /\ TzBits(pl)' = TzBits(pl)) /\ 1 \in PL
    BY DEF FrBits, TzBits, PL
  <1>3. \A d \in FmCpu \ {c} : Busy(d)' = Busy(d)
    BY <1>2, Others
  <1>4. \A d \in FmCpu : Busy(d)' = Busy(d)
    BY <1>3
  <1>5. Accounts(w)'
    <2> SUFFICES ASSUME NEW i \in Small PROVE Located(w, i)'
      BY <1>1 DEF Accounts
    <2>1. Located(w, i)
      BY <1>1 DEF Accounts
    <2> QED BY <1>2, <1>4, <2>1 DEF Located
  <1>6. AllZeroed' /\ NoFullBlock'
    BY <1>2 DEF FmInv, AllZeroed, NoFullBlock
  <1>7. Exact(frames') /\ Exact(tozero') /\ owned' \in [0 .. N + B -> Nat]
        /\ \A i \in (0 .. N + B) \ Small : owned'[i] = 0
    BY DEF FmInv, FmTypes
  <1> QED BY <1>2, <1>5, <1>6, <1>7, StepKeeps

LEMMA TozeroChanged ==
  ASSUME BitmapsWork, Exact(tozero), NEW pl \in PL, NEW T \in SUBSET Index(pl),
         tozero' = [tozero EXCEPT ![pl] = Holding(num(pl), T)]
  PROVE  Exact(tozero') /\ TzBits(pl)' = T /\ \A k \in PL \ {pl} : TzBits(k)' = TzBits(k)
  <1>1. PICK m, n : m = tozero /\ n = tozero'
    OBVIOUS
  <1>2. Exact(m) /\ n = [m EXCEPT ![pl] = Holding(num(pl), T)]
    BY <1>1
  <1>3. DOMAIN m = PL
    BY <1>2 DEF Exact
  <1>4. IsMap(n) /\ n[pl] = Holding(num(pl), T) /\ \A k \in PL \ {pl} : n[k] = m[k]
    BY <1>2, <1>3 DEF IsMap
  <1>5. /\ Exact(n) /\ Bits(num(pl), n[pl]) = T
        /\ \A k \in PL \ {pl} : Bits(num(k), n[k]) = Bits(num(k), m[k])
    <2>1. Exact(m)
      BY <1>2
    <2> QED BY <2>1, <1>4, Changed, Zenon
  <1> QED BY <1>1, <1>5 DEF TzBits

LEMMA FramesChanged ==
  ASSUME BitmapsWork, Exact(frames), NEW pl \in PL, NEW T \in SUBSET Index(pl),
         frames' = [frames EXCEPT ![pl] = Holding(num(pl), T)]
  PROVE  Exact(frames') /\ FrBits(pl)' = T /\ \A k \in PL \ {pl} : FrBits(k)' = FrBits(k)
  <1>1. PICK m, n : m = frames /\ n = frames'
    OBVIOUS
  <1>2. Exact(m) /\ n = [m EXCEPT ![pl] = Holding(num(pl), T)]
    BY <1>1
  <1>3. DOMAIN m = PL
    BY <1>2 DEF Exact
  <1>4. IsMap(n) /\ n[pl] = Holding(num(pl), T) /\ \A k \in PL \ {pl} : n[k] = m[k]
    BY <1>2, <1>3 DEF IsMap
  <1>5. /\ Exact(n) /\ Bits(num(pl), n[pl]) = T
        /\ \A k \in PL \ {pl} : Bits(num(k), n[k]) = Bits(num(k), m[k])
    <2>1. Exact(m)
      BY <1>2
    <2> QED BY <2>1, <1>4, Changed, Zenon
  <1> QED BY <1>1, <1>5 DEF FrBits

(* zeroInternal takes a frame.                                             *)
LEMMA TakeStep ==
  ASSUME BitmapsWork, FmInv, NEW c \in FmCpu, NEW pl \in PL, NEW call \in {0, 1, 2}, TakeZero(c, pl, call),
         op[c].pc \notin {"zero", "release"}, lock[pl] \in {c, NoFmCpu}, pl = 1 => call \in {0, 1},
         call = 1 /\ pl = 2 => Asking(c), UNCHANGED <<owned, zeroed, panic>>, panic = "no"
  PROVE  FmInv'
  <1>1. PICK z : z = FindFirst(num(pl), tozero[pl])
    OBVIOUS
  <1>2. /\ z # NotFound /\ frames' = frames
        /\ tozero' = [tozero EXCEPT ![pl] = Clr(num(pl), @, z, 0)]
        /\ op' = [op EXCEPT ![c] = Doing("zero", pl, call, z, 1)]
        /\ lock' = [lock EXCEPT ![pl] = NoFmCpu]
    BY <1>1 DEF TakeZero
  <1>3. FmTypes /\ CallOk(c) /\ AllZeroed /\ NoFullBlock
    BY DEF FmInv
  <1>4. Exact(tozero) /\ Exact(frames) /\ lock \in [PL -> FmCpu \cup {NoFmCpu}]
    BY <1>3 DEF FmTypes
  <1>5. z \in TzBits(pl) /\ TzBits(pl) \in SUBSET Index(pl)
    BY <1>1, <1>2, <1>4, FoundIs, BitsIn DEF TzBits
  <1>6. z \in Nat /\ z \in Index(pl)
    BY <1>5, Sizes DEF Index
  <1>7. tozero[pl] = Holding(num(pl), TzBits(pl))
    BY <1>4 DEF Exact, TzBits
  <1>8. Clr(num(pl), tozero[pl], z, 0) = Holding(num(pl), TzBits(pl) \ {z})
    BY <1>5, <1>6, <1>7, HoldingBits
  <1>9. tozero' = [tozero EXCEPT ![pl] = Holding(num(pl), TzBits(pl) \ {z})] /\ TzBits(pl) \ {z} \in SUBSET Index(pl)
    BY <1>2, <1>5, <1>8
  <1>10. /\ Exact(tozero') /\ TzBits(pl)' = TzBits(pl) \ {z}
         /\ \A k \in PL \ {pl} : TzBits(k)' = TzBits(k)
    BY <1>4, <1>9, TozeroChanged
  <1>11. \A k \in PL : FrBits(k)' = FrBits(k)
    BY <1>2 DEF FrBits
  <1>12. PICK o : o = Doing("zero", pl, call, z, 1)
    OBVIOUS
  <1>13. o \in OpState /\ o.pc = "zero" /\ o.pl = pl /\ o.call = call /\ o.idx = z
    BY <1>6, <1>12 DEF Doing, OpState
  <1>14. /\ lock' \in [PL -> FmCpu \cup {NoFmCpu}]
         /\ \A k \in PL : lock'[k] = lock[k] \/ lock[k] \in {c, NoFmCpu}
         /\ (FrBits(1)' = FrBits(1) /\ TzBits(1)' = TzBits(1)) \/ lock[1] \in {c, NoFmCpu}
    BY <1>2, <1>4, <1>10, <1>11, Sizes
  <1>15. op'[c] = o /\ \A d \in FmCpu \ {c} : Busy(d)' = Busy(d)
    BY <1>2, <1>12, <1>13, <1>14, Others
  <1>16. Busy(c) = {} /\ Busy(c)' = Parts(pl, z)
    BY <1>13, <1>15 DEF Busy
  <1>17. CallOk(c)'
    <2>1. Asking(c)' => lock'[1] = c /\ FrBits(1)' = {} /\ TzBits(1)' = {}
      <3> SUFFICES ASSUME Asking(c)' PROVE lock'[1] = c /\ FrBits(1)' = {} /\ TzBits(1)' = {}
        OBVIOUS
      <3>1. call = 1 /\ pl = 2
        BY <1>13, <1>15 DEF Asking
      <3>2. lock[1] = c /\ FrBits(1) = {} /\ TzBits(1) = {}
        BY <1>3, <3>1 DEF CallOk
      <3> QED BY <1>2, <1>4, <1>10, <1>11, <3>1, <3>2, Sizes
    <2> QED BY <1>6, <1>13, <1>15, <2>1 DEF CallOk
  <1>18. PICK w : Accounts(w)
    BY DEF FmInv
  <1>19. PICK v : v = [i \in Small |-> IF Of(pl, i) = z THEN With(c) ELSE w[i]]
    OBVIOUS
  <1>20. v \in [Small -> Place]
    BY <1>18, <1>19, PlacesApart DEF Accounts
  <1>21. ASSUME NEW i \in Small PROVE Located(v, i)'
    <2>1. Located(w, i) /\ v[i] = IF Of(pl, i) = z THEN With(c) ELSE w[i]
      BY <1>18, <1>19 DEF Accounts
    <2>2. i \in Parts(pl, z) <=> Of(pl, i) = z
      BY <1>6, PartsAre
    <2>3. Of(pl, i) = z => w[i] = InTozero(pl)
      BY <1>5, <2>1 DEF Located
    <2>4. owned'[i] = (IF v[i] = Owner THEN 1 ELSE 0)
      BY <2>1, <2>3, PlacesApart DEF Located
    <2>5. \A k \in PL : Of(k, i) \in FrBits(k)' <=> v[i] = InFrames(k)
      BY <1>11, <2>1, <2>3, PlacesApart DEF Located
    <2>6. \A k \in PL : Of(k, i) \in TzBits(k)' <=> v[i] = InTozero(k)
      BY <1>10, <2>1, <2>3, PlacesApart DEF Located
    <2>7. \A d \in FmCpu : i \in Busy(d)' <=> v[i] = With(d)
      BY <1>15, <1>16, <2>1, <2>2, <2>3, PlacesApart DEF Located
    <2> QED BY <2>4, <2>5, <2>6, <2>7 DEF Located
  <1>22. Accounts(v)'
    BY <1>20, <1>21 DEF Accounts
  <1>23. AllZeroed' /\ NoFullBlock'
    BY <1>3, <1>11, Sizes DEF AllZeroed, NoFullBlock
  <1>24. Exact(frames') /\ owned' \in [0 .. N + B -> Nat] /\ \A i \in (0 .. N + B) \ Small : owned'[i] = 0
    BY <1>2, <1>3 DEF FmTypes
  <1> QED BY <1>2, <1>10, <1>12, <1>13, <1>14, <1>17, <1>22, <1>23, <1>24, StepKeeps

LEMMA BothChanged ==
  ASSUME BitmapsWork, NEW T \in SUBSET Index(1), NEW U \in SUBSET Index(2), NEW m, DOMAIN m = PL,
         frames' = [m EXCEPT ![1] = Holding(num(1), T), ![2] = Holding(num(2), U)]
         \/ frames' = [m EXCEPT ![2] = Holding(num(2), U), ![1] = Holding(num(1), T)]
  PROVE  Exact(frames') /\ FrBits(1)' = T /\ FrBits(2)' = U
  <1>1. 1 \in PL /\ 2 \in PL /\ 1 # 2
    BY DEF PL
  <1>2. Bits(num(1), Holding(num(1), T)) = T /\ Bits(num(2), Holding(num(2), U)) = U
    BY <1>1, HoldingBits
  <1>3. frames'[1] = Holding(num(1), T) /\ frames'[2] = Holding(num(2), U)
    BY <1>1
  <1>4. FrBits(1)' = T /\ FrBits(2)' = U
    BY <1>2, <1>3 DEF FrBits
  <1>5. \A pl \in PL : frames'[pl] = Holding(num(pl), Bits(num(pl), frames'[pl]))
    BY <1>2, <1>3 DEF PL
  <1>6. frames' = [pl \in PL |-> frames'[pl]]
    OBVIOUS
  <1>7. Exact(frames')
    BY <1>5, <1>6 DEF Exact
  <1> QED BY <1>4, <1>7

LEMMA FramesHold ==
  ASSUME Exact(frames), NEW pl \in PL
  PROVE  frames[pl] = Holding(num(pl), FrBits(pl)) /\ FrBits(pl) \in SUBSET Index(pl) /\ DOMAIN frames = PL
  BY BitsIn DEF Exact, FrBits

LEMMA FramesSet ==
  ASSUME BitmapsWork, Exact(frames), NEW pl \in PL, NEW k \in Index(pl)
  PROVE  /\ Set(num(pl), frames[pl], k, 0) = Holding(num(pl), FrBits(pl) \cup {k})
         /\ Clr(num(pl), frames[pl], k, 0) = Holding(num(pl), FrBits(pl) \ {k})
         /\ FrBits(pl) \cup {k} \in SUBSET Index(pl) /\ FrBits(pl) \ {k} \in SUBSET Index(pl)
  <1>1. PICK F : F = FrBits(pl)
    OBVIOUS
  <1>2. frames[pl] = Holding(num(pl), F) /\ F \in SUBSET Index(pl)
    BY <1>1, FramesHold
  <1>3. /\ Set(num(pl), Holding(num(pl), F), k, 0) = Holding(num(pl), F \cup {k})
        /\ Clr(num(pl), Holding(num(pl), F), k, 0) = Holding(num(pl), F \ {k})
    BY <1>2, HoldingBits
  <1> QED BY <1>1, <1>2, <1>3

(* releaseInternal: the frame is free, or its block is a free large frame. *)
LEMMA ReleasedFrames ==
  ASSUME BitmapsWork, Exact(frames), NEW pl \in PL, NEW k \in Index(pl), frames' = ReleaseInternal(pl, k)
  PROVE  /\ Exact(frames')
         /\ \/ /\ pl = 1 /\ Parts(2, k \div B) \subseteq FrBits(1) \cup {k}
               /\ FrBits(1)' = (FrBits(1) \cup {k}) \ Parts(2, k \div B)
               /\ FrBits(2)' = FrBits(2) \cup {k \div B}
            \/ /\ FrBits(pl)' = FrBits(pl) \cup {k} /\ \A q \in PL \ {pl} : FrBits(q)' = FrBits(q)
               /\ pl = 1 => ~ (Parts(2, k \div B) \subseteq FrBits(1) \cup {k})
  <1>1. PICK S, T : S = FrBits(pl) \cup {k} /\ T = Set(num(pl), frames[pl], k, 0)
    OBVIOUS
  <1>2. S \in SUBSET Index(pl) /\ T = Holding(num(pl), S)
    BY <1>1, FramesSet
  <1>3. frames' = IF pl = 1 /\ BlockFull(T, k)
                  THEN [frames EXCEPT ![1] = BlockClr(num(1), T, k), ![2] = Set(num(2), @, k \div B, 0)]
                  ELSE [frames EXCEPT ![pl] = T]
    BY <1>1 DEF ReleaseInternal
  <1>4. pl = 1 => (BlockFull(T, k) <=> Parts(2, k \div B) \subseteq S)
                  /\ BlockClr(num(1), T, k) = Holding(num(1), S \ Parts(2, k \div B))
    BY <1>2, HoldingBlocks
  <1>a. CASE pl = 1 /\ BlockFull(T, k)
    <2>1. PICK q, Q, U : q = k \div B /\ Q = S \ Parts(2, k \div B) /\ U = FrBits(2) \cup {k \div B}
      OBVIOUS
    <2>2. k \in Small /\ 1 \in PL /\ 2 \in PL
      BY <1>a, Sizes DEF Index, Small
    <2>3. q \in Index(2)
      <3>1. Of(2, k) \in Index(2)
        BY <2>2, OfIs
      <3> QED BY <2>1, <3>1 DEF Of
    <2>4. U \in SUBSET Index(2) /\ Set(num(2), frames[2], q, 0) = Holding(num(2), U)
      BY <2>1, <2>2, <2>3, FramesSet
    <2>5. Q \in SUBSET Index(1) /\ BlockClr(num(1), T, k) = Holding(num(1), Q)
      BY <1>2, <1>4, <1>a, <2>1
    <2>6. frames' = [frames EXCEPT ![1] = Holding(num(1), Q), ![2] = Holding(num(2), U)]
      BY <1>3, <1>a, <2>1, <2>4, <2>5
    <2>7. DOMAIN frames = PL
      BY DEF Exact
    <2>8. Exact(frames') /\ FrBits(1)' = Q /\ FrBits(2)' = U
      BY <2>4, <2>5, <2>6, <2>7, BothChanged, Zenon
    <2> QED BY <1>1, <1>4, <1>a, <2>1, <2>8
  <1>b. CASE ~ (pl = 1 /\ BlockFull(T, k))
    <2>1. frames' = [frames EXCEPT ![pl] = Holding(num(pl), S)]
      BY <1>2, <1>3, <1>b
    <2>2. Exact(frames') /\ FrBits(pl)' = S /\ \A q \in PL \ {pl} : FrBits(q)' = FrBits(q)
      BY <1>2, <2>1, FramesChanged
    <2> QED BY <1>1, <1>4, <1>b, <2>2
  <1> QED BY <1>a, <1>b

(* zeroInternal gives the frame back.                                      *)
LEMMA ZeroDoneStep ==
  ASSUME BitmapsWork, FmInv, panic = "no", NEW c \in FmCpu, ZeroDone(c)
  PROVE  FmInv'
  <1>1. PICK pl, k, call : pl = op[c].pl /\ k = op[c].idx /\ call = op[c].call
    OBVIOUS
  <1>2. /\ op[c].pc = "zero" /\ lock[pl] = NoFmCpu /\ frames' = ReleaseInternal(pl, k)
        /\ zeroed' = zeroed \cup Parts(pl, k) /\ UNCHANGED <<tozero, owned, panic>>
    BY <1>1 DEF ZeroDone
  <1>3. /\ call = 0 => op' = [op EXCEPT ![c] = Idle] /\ lock' = lock
        /\ call # 0 => op' = [op EXCEPT ![c].pc = "find"] /\ lock' = [lock EXCEPT ![pl] = c]
    BY <1>1 DEF ZeroDone
  <1>4. FmTypes /\ CallOk(c) /\ AllZeroed /\ NoFullBlock
    BY DEF FmInv
  <1>5. Exact(tozero) /\ Exact(frames) /\ lock \in [PL -> FmCpu \cup {NoFmCpu}] /\ op \in [FmCpu -> OpState]
    BY <1>4 DEF FmTypes
  <1>6. pl \in PL /\ k \in Index(pl) /\ call \in {0, 1, 2} /\ k \in Nat /\ (pl = 1 => call \in {0, 1})
    BY <1>1, <1>2, <1>4, <1>5 DEF OpState, CallOk
  <1>7. PICK o : o = IF call = 0 THEN Idle ELSE [op[c] EXCEPT !.pc = "find"]
    OBVIOUS
  <1>8. op' = [op EXCEPT ![c] = o]
    BY <1>3, <1>5, <1>7
  <1>9. o \in OpState /\ o.pc \in {"idle", "find"} /\ (o.pc = "find" => call # 0 /\ o.pl = pl /\ o.call = call)
    BY <1>1, <1>5, <1>6, <1>7 DEF OpState, Idle, PL
  <1>10. /\ Exact(frames')
         /\ \/ /\ pl = 1 /\ Parts(2, k \div B) \subseteq FrBits(1) \cup {k}
               /\ FrBits(1)' = (FrBits(1) \cup {k}) \ Parts(2, k \div B)
               /\ FrBits(2)' = FrBits(2) \cup {k \div B}
            \/ /\ FrBits(pl)' = FrBits(pl) \cup {k} /\ \A q \in PL \ {pl} : FrBits(q)' = FrBits(q)
               /\ pl = 1 => ~ (Parts(2, k \div B) \subseteq FrBits(1) \cup {k})
    BY <1>2, <1>5, <1>6, ReleasedFrames
  <1>11. \A q \in PL : TzBits(q)' = TzBits(q)
    BY <1>2 DEF TzBits
  <1>12. /\ lock' \in [PL -> FmCpu \cup {NoFmCpu}]
         /\ \A q \in PL : lock'[q] = lock[q] \/ lock[q] \in {c, NoFmCpu}
         /\ (FrBits(1)' = FrBits(1) /\ TzBits(1)' = TzBits(1)) \/ lock[1] \in {c, NoFmCpu}
         /\ call # 0 => lock'[pl] = c
    <2>1. pl # 1 => FrBits(1)' = FrBits(1) /\ TzBits(1)' = TzBits(1)
      BY <1>10, <1>11, Sizes
    <2>2. /\ lock' \in [PL -> FmCpu \cup {NoFmCpu}]
          /\ \A q \in PL : lock'[q] = lock[q] \/ lock[q] \in {c, NoFmCpu}
          /\ call # 0 => lock'[pl] = c
      BY <1>2, <1>3, <1>5, <1>6
    <2> QED BY <1>2, <2>1, <2>2
  <1>13. op'[c] = o /\ \A d \in FmCpu \ {c} : Busy(d)' = Busy(d)
    BY <1>8, <1>9, <1>12, Others
  <1>14. Busy(c) = Parts(pl, k) /\ Busy(c)' = {}
    BY <1>1, <1>2, <1>9, <1>13 DEF Busy
  <1>15. CallOk(c)'
    <2>1. ASSUME Asking(c)' PROVE lock'[1] = c /\ FrBits(1)' = {} /\ TzBits(1)' = {}
      <3>1. call = 1 /\ pl = 2
        BY <1>9, <1>13, <2>1 DEF Asking
      <3>2. lock[1] = c /\ FrBits(1) = {} /\ TzBits(1) = {}
        BY <1>1, <1>2, <1>4, <3>1 DEF CallOk, Asking
      <3>3. FrBits(1)' = FrBits(1) /\ TzBits(1)' = TzBits(1)
        BY <1>10, <1>11, <3>1, Sizes
      <3>4. lock'[1] = lock[1]
        BY <1>3, <1>5, <3>1, Sizes
      <3> QED BY <3>2, <3>3, <3>4
    <2> QED BY <1>6, <1>9, <1>12, <1>13, <2>1 DEF CallOk
  <1>16. PICK w : Accounts(w)
    BY DEF FmInv
  <1>17. \A i \in Small : (i \in Parts(pl, k) <=> Of(pl, i) = k) /\ (Of(pl, i) = k <=> w[i] = With(c))
    <2> TAKE i \in Small
    <2>1. Located(w, i)
      BY <1>16 DEF Accounts
    <2>2. i \in Parts(pl, k) <=> Of(pl, i) = k
      BY <1>6, PartsAre
    <2> QED BY <1>14, <2>1, <2>2 DEF Located
  <1>18. Exact(tozero') /\ owned' \in [0 .. N + B -> Nat] /\ (\A i \in (0 .. N + B) \ Small : owned'[i] = 0)
         /\ panic' # "out_of_memory"
    BY <1>2, <1>4 DEF FmTypes
  <1>a. CASE /\ FrBits(pl)' = FrBits(pl) \cup {k} /\ \A q \in PL \ {pl} : FrBits(q)' = FrBits(q)
             /\ pl = 1 => ~ (Parts(2, k \div B) \subseteq FrBits(1) \cup {k})
    <2>1. PICK v : v = [i \in Small |-> IF Of(pl, i) = k THEN InFrames(pl) ELSE w[i]]
      OBVIOUS
    <2>2. v \in [Small -> Place]
      BY <1>6, <1>16, <2>1, PlacesApart DEF Accounts
    <2>3. ASSUME NEW i \in Small PROVE Located(v, i)'
      <3>1. Located(w, i) /\ v[i] = (IF Of(pl, i) = k THEN InFrames(pl) ELSE w[i]) /\ (Of(pl, i) = k <=> w[i] = With(c))
        BY <1>16, <1>17, <2>1 DEF Accounts
      <3>2. owned'[i] = (IF v[i] = Owner THEN 1 ELSE 0)
        BY <1>2, <1>6, <3>1, PlacesApart DEF Located
      <3>3. \A q \in PL : Of(q, i) \in FrBits(q)' <=> v[i] = InFrames(q)
        BY <1>a, <1>6, <3>1, PlacesApart DEF Located
      <3>4. \A q \in PL : Of(q, i) \in TzBits(q)' <=> v[i] = InTozero(q)
        BY <1>6, <1>11, <3>1, PlacesApart DEF Located
      <3>5. \A d \in FmCpu : i \in Busy(d)' <=> v[i] = With(d)
        BY <1>6, <1>13, <1>14, <3>1, PlacesApart DEF Located
      <3> QED BY <3>2, <3>3, <3>4, <3>5 DEF Located
    <2>4. Accounts(v)'
      BY <2>2, <2>3 DEF Accounts
    <2>5. AllZeroed'
      BY <1>2, <1>4, <1>17, <1>a DEF AllZeroed
    <2>6. NoFullBlock'
      <3> SUFFICES ASSUME NEW q \in Index(2), Parts(2, q) \subseteq FrBits(1)' PROVE FALSE
        BY DEF NoFullBlock
      <3>1. pl = 1
        BY <1>4, <1>a, Sizes DEF NoFullBlock
      <3>2. Parts(2, q) \subseteq FrBits(1) \cup {k} /\ k \in Small
        BY <1>6, <1>a, <3>1, Sizes DEF Index, Small
      <3>3. k \notin Parts(2, q) => Parts(2, q) \subseteq FrBits(1)
        BY <3>2
      <3>4. k \in Parts(2, q) => k \div B = q
        BY <3>2, PartsAre, Sizes DEF Of
      <3> QED BY <1>4, <1>a, <3>1, <3>2, <3>3, <3>4 DEF NoFullBlock
    <2> QED BY <1>8, <1>9, <1>10, <1>12, <1>15, <1>18, <2>4, <2>5, <2>6, StepKeeps
  <1>b. CASE /\ pl = 1 /\ Parts(2, k \div B) \subseteq FrBits(1) \cup {k}
             /\ FrBits(1)' = (FrBits(1) \cup {k}) \ Parts(2, k \div B)
             /\ FrBits(2)' = FrBits(2) \cup {k \div B}
    <2>1. PICK b, v : b = k \div B /\ v = [i \in Small |-> IF Of(2, i) = b THEN InFrames(2) ELSE w[i]]
      OBVIOUS
    <2>2. v \in [Small -> Place]
      BY <1>16, <2>1, Sizes, PlacesApart DEF Accounts
    <2>3. k \in Small /\ Of(2, k) = b
      BY <1>6, <1>b, <2>1, Sizes DEF Index, Small, Of
    <2>4. b \in Index(2)
      BY <2>3, OfIs, Sizes
    <2>5. \A i \in Small : (i \in Parts(2, b) <=> Of(2, i) = b) /\ Of(1, i) = i
      BY <2>4, PartsAre, Sizes DEF Of
    <2>6. ASSUME NEW i \in Small PROVE Located(v, i)' /\ (Of(2, i) = b => i \in zeroed')
      <3>1. Located(w, i) /\ v[i] = (IF Of(2, i) = b THEN InFrames(2) ELSE w[i]) /\ (i = k <=> w[i] = With(c))
        BY <1>b, <1>16, <1>17, <2>1, <2>5 DEF Accounts
      <3>2. Of(2, i) = b => i \in FrBits(1) \/ i = k
        BY <1>b, <2>1, <2>5
      <3>3. Of(2, i) = b => w[i] \in {InFrames(1), With(c)}
        BY <2>5, <3>1, <3>2, Sizes DEF Located
      <3>4. owned'[i] = (IF v[i] = Owner THEN 1 ELSE 0)
        BY <1>2, <3>1, <3>3, Sizes, PlacesApart DEF Located
      <3>5. Of(1, i) \in FrBits(1)' <=> v[i] = InFrames(1)
        <4>1. Of(1, i) \in FrBits(1)' <=> (i \in FrBits(1) \/ i = k) /\ Of(2, i) # b
          BY <1>b, <2>1, <2>5
        <4>2. i \in FrBits(1) <=> w[i] = InFrames(1)
          BY <2>5, <3>1, Sizes DEF Located
        <4>3. i = k => Of(2, i) = b
          BY <2>3
        <4>4. InFrames(1) # InFrames(2)
          BY PlacesApart, Sizes
        <4> QED BY <3>1, <4>1, <4>2, <4>3, <4>4
      <3>6. Of(2, i) \in FrBits(2)' <=> v[i] = InFrames(2)
        BY <1>b, <2>1, <3>1, Sizes DEF Located
      <3>7. \A q \in PL : Of(q, i) \in TzBits(q)' <=> v[i] = InTozero(q)
        BY <1>11, <3>1, <3>3, Sizes, PlacesApart DEF Located
      <3>8. \A d \in FmCpu : i \in Busy(d)' <=> v[i] = With(d)
        <4>1. v[i] # With(c)
          BY <2>3, <3>1, Sizes, PlacesApart
        <4>2. ASSUME NEW d \in FmCpu \ {c} PROVE i \in Busy(d)' <=> v[i] = With(d)
          BY <1>13, <3>1, <3>3, <4>2, Sizes, PlacesApart DEF Located
        <4> QED BY <1>14, <4>1, <4>2
      <3>9. Located(v, i)'
        BY <3>4, <3>5, <3>6, <3>7, <3>8 DEF Located, PL
      <3>10. Of(2, i) = b => i \in zeroed'
        BY <1>2, <1>4, <1>17, <1>b, <2>5, <3>2, Sizes DEF AllZeroed
      <3> QED BY <3>9, <3>10
    <2>7. Accounts(v)'
      BY <2>2, <2>6 DEF Accounts
    <2>8. AllZeroed'
      <3> SUFFICES ASSUME NEW i \in Small, NEW q \in PL, Of(q, i) \in FrBits(q)' PROVE i \in zeroed'
        BY DEF AllZeroed
      <3>1. CASE q = 1
        BY <1>2, <1>4, <1>17, <1>b, <2>5, <3>1, Sizes DEF AllZeroed
      <3>2. CASE q = 2
        BY <1>2, <1>4, <1>b, <2>1, <2>6, <3>2, Sizes DEF AllZeroed
      <3> QED BY <3>1, <3>2 DEF PL
    <2>9. NoFullBlock'
      <3> SUFFICES ASSUME NEW q \in Index(2), Parts(2, q) \subseteq FrBits(1)' PROVE FALSE
        BY DEF NoFullBlock
      <3>1. q # b
        <4>1. q * ptentries(2) \in Parts(2, q)
          BY PartsAre, Sizes
        <4> QED BY <1>b, <2>1, <4>1
      <3>2. k \notin Parts(2, q)
        BY <2>3, <3>1, PartsAre, Sizes
      <3>3. Parts(2, q) \subseteq FrBits(1)
        BY <1>b, <3>2
      <3> QED BY <1>4, <3>3 DEF NoFullBlock
    <2> QED BY <1>8, <1>9, <1>10, <1>12, <1>15, <1>18, <2>7, <2>8, <2>9, StepKeeps
  <1> QED BY <1>10, <1>a, <1>b

-----------------------------------------------------------------------------
(* Frames S get an owner; R is what is left of a large frame that is split. *)
LEMMA HandedOut ==
  ASSUME FmInv, panic = "no", NEW c \in FmCpu, NEW o \in OpState, op' = [op EXCEPT ![c] = o],
         o.pc = "idle", op[c].pc \in {"idle", "find"},
         lock' \in [PL -> FmCpu \cup {NoFmCpu}],
         \A pl \in PL : lock'[pl] = lock[pl] \/ lock[pl] \in {c, NoFmCpu},
         FrBits(1)' = FrBits(1) \/ lock[1] \in {c, NoFmCpu},
         NEW S \in SUBSET Small, NEW R \in SUBSET Small, S \cap R = {},
         \A i \in S \cup R : \E pl \in PL : Of(pl, i) \in FrBits(pl),
         \A i \in Small : i \in FrBits(1)' <=> i \in R \/ (i \in FrBits(1) /\ i \notin S),
         \A i \in Small : Of(2, i) \in FrBits(2)' <=> Of(2, i) \in FrBits(2) /\ i \notin S \cup R,
         Exact(frames'), NoFullBlock', HandOut(S), UNCHANGED <<tozero, panic>>
  PROVE  FmInv'
  <1>1. FmTypes /\ AllZeroed
    BY DEF FmInv
  <1>2. PICK w : Accounts(w)
    BY DEF FmInv
  <1>3. PICK v : v = [i \in Small |-> IF i \in S THEN Owner ELSE IF i \in R THEN InFrames(1) ELSE w[i]]
    OBVIOUS
  <1>4. v \in [Small -> Place]
    BY <1>2, <1>3, Sizes, PlacesApart DEF Accounts
  <1>5. \A q \in PL : TzBits(q)' = TzBits(q)
    BY DEF TzBits
  <1>6. op'[c] = o /\ \A d \in FmCpu \ {c} : Busy(d)' = Busy(d)
    BY <1>5, Others, Sizes
  <1>7. Busy(c) = {} /\ Busy(c)' = {}
    BY <1>6 DEF Busy
  <1>8. CallOk(c)'
    BY <1>6 DEF CallOk, Asking
  <1>9. owned' = [i \in 0 .. N + B |-> owned[i] + IF i \in S THEN 1 ELSE 0] /\ zeroed' = zeroed \ S
        /\ owned \in [0 .. N + B -> Nat] /\ \A i \in (0 .. N + B) \ Small : owned[i] = 0
    BY <1>1 DEF HandOut, FmTypes
  <1>10. Small \subseteq 0 .. N + B
    BY Positive DEF Small
  <1>11. owned' \in [0 .. N + B -> Nat] /\ \A i \in (0 .. N + B) \ Small : owned'[i] = 0
    BY <1>9
  <1>12. ASSUME NEW i \in Small PROVE Located(v, i)'
    <2>1. Located(w, i) /\ v[i] = IF i \in S THEN Owner ELSE IF i \in R THEN InFrames(1) ELSE w[i]
      BY <1>2, <1>3 DEF Accounts
    <2>2. Of(1, i) = i
      BY DEF Of
    <2>3. i \in S \cup R => \E pl \in PL : w[i] = InFrames(pl)
      BY <2>1 DEF Located
    <2>4. owned'[i] = (IF v[i] = Owner THEN 1 ELSE 0)
      <3>1. owned[i] = (IF w[i] = Owner THEN 1 ELSE 0) /\ owned'[i] = owned[i] + IF i \in S THEN 1 ELSE 0
        BY <1>9, <1>10, <2>1 DEF Located
      <3>2. i \in S \cup R => w[i] # Owner
        BY <2>3, PlacesApart
      <3>3. InFrames(1) # Owner
        BY Sizes, PlacesApart
      <3> QED BY <2>1, <3>1, <3>2, <3>3
    <2>5. Of(1, i) \in FrBits(1)' <=> v[i] = InFrames(1)
      <3>1. i \in FrBits(1) <=> w[i] = InFrames(1)
        BY <2>1, <2>2, Sizes DEF Located
      <3>2. InFrames(1) # Owner
        BY Sizes, PlacesApart
      <3> QED BY <2>1, <2>2, <3>1, <3>2
    <2>6. Of(2, i) \in FrBits(2)' <=> v[i] = InFrames(2)
      <3>1. Of(2, i) \in FrBits(2) <=> w[i] = InFrames(2)
        BY <2>1, Sizes DEF Located
      <3>2. InFrames(2) # Owner /\ InFrames(2) # InFrames(1)
        BY Sizes, PlacesApart
      <3> QED BY <2>1, <3>1, <3>2
    <2>7. \A q \in PL : Of(q, i) \in TzBits(q)' <=> v[i] = InTozero(q)
      <3> TAKE q \in PL
      <3>1. Of(q, i) \in TzBits(q)' <=> w[i] = InTozero(q)
        BY <1>5, <2>1 DEF Located
      <3>2. InTozero(q) # Owner /\ \A pl \in PL : InTozero(q) # InFrames(pl)
        BY PlacesApart
      <3> QED BY <2>1, <2>3, <3>1, <3>2, Sizes
    <2>8. \A d \in FmCpu : i \in Busy(d)' <=> v[i] = With(d)
      <3> TAKE d \in FmCpu
      <3>1. i \in Busy(d)' <=> w[i] = With(d)
        BY <1>6, <1>7, <2>1 DEF Located
      <3>2. With(d) # Owner /\ \A pl \in PL : With(d) # InFrames(pl)
        BY PlacesApart
      <3> QED BY <2>1, <2>3, <3>1, <3>2, Sizes
    <2> QED BY <2>4, <2>5, <2>6, <2>7, <2>8 DEF Located, PL
  <1>13. Accounts(v)'
    BY <1>4, <1>12 DEF Accounts
  <1>14. AllZeroed'
    <2> SUFFICES ASSUME NEW i \in Small, NEW q \in PL, Of(q, i) \in FrBits(q)' PROVE i \in zeroed'
      BY DEF AllZeroed
    <2>1. Of(1, i) = i
      BY DEF Of
    <2>2. i \notin S /\ \E pl \in PL : Of(pl, i) \in FrBits(pl)
      <3>1. CASE q = 1
        BY <2>1, <3>1
      <3>2. CASE q = 2
        BY <3>2
      <3> QED BY <3>1, <3>2 DEF PL
    <2> QED BY <1>1, <1>9, <2>2 DEF AllZeroed
  <1>15. Exact(tozero') /\ panic' # "out_of_memory"
    BY <1>1 DEF FmTypes
  <1>16. (FrBits(1)' = FrBits(1) /\ TzBits(1)' = TzBits(1)) \/ lock[1] \in {c, NoFmCpu}
    BY <1>5, Sizes
  <1> QED BY <1>8, <1>11, <1>13, <1>14, <1>15, <1>16, StepKeeps

LEMMA IdleIs == Idle \in OpState /\ Idle.pc = "idle"
  BY DEF Idle, OpState, PL

LEMMA BlockStart ==
  ASSUME NEW k \in Index(2)
  PROVE  k * B \in Small /\ (k * B) \div B = k /\ Of(2, k * B) = k /\ k * B \in Parts(2, k)
  <1>1. k \in Nat /\ k * ptentries(2) = k * B
    BY Sizes DEF Index, ptentries
  <1>2. k * B \in Parts(2, k) /\ Parts(2, k) = {i \in Small : Of(2, i) = k}
    BY <1>1, PartsAre, Sizes
  <1> QED BY <1>2 DEF Of

(* alloc finds a frame.                                                    *)
LEMMA FoundStep ==
  ASSUME BitmapsWork, FmInv, panic = "no", NEW c \in FmCpu, AllocFound(c)
  PROVE  FmInv'
  <1>1. PICK pl, k : pl = op[c].pl /\ k = FindFirst(num(pl), frames[pl])
    OBVIOUS
  <1>2. PICK left : left = [frames EXCEPT ![pl] = Clr(num(pl), @, k, 0)]
    OBVIOUS
  <1>3. /\ op[c].pc = "find" /\ k # NotFound
        /\ lock' = [l \in PL |-> IF lock[l] = c THEN NoFmCpu ELSE lock[l]]
        /\ op' = [op EXCEPT ![c] = Idle] /\ UNCHANGED <<tozero, panic>>
    BY <1>1 DEF AllocFound
  <1>4. IF pl = op[c].call
        THEN frames' = left /\ HandOut(Parts(pl, k))
        ELSE /\ frames' = [left EXCEPT ![1] = Clr(num(1), BlockSet(num(1), @, k * B), k * B, 0)]
             /\ HandOut({k * B})
    BY <1>1, <1>2 DEF AllocFound
  <1>5. FmTypes /\ CallOk(c) /\ NoFullBlock
    BY DEF FmInv
  <1>6. Exact(frames) /\ lock \in [PL -> FmCpu \cup {NoFmCpu}] /\ op[c] \in OpState
    BY <1>5 DEF FmTypes
  <1>7. pl \in PL /\ lock[pl] = c /\ op[c].call \in {1, 2} /\ (pl = 1 => op[c].call = 1)
    BY <1>1, <1>3, <1>5, <1>6 DEF OpState, CallOk
  <1>8. k \in FrBits(pl) /\ k \in Index(pl)
    BY <1>1, <1>3, <1>6, <1>7, FoundIs, BitsIn DEF FrBits
  <1>9. lock' \in [PL -> FmCpu \cup {NoFmCpu}] /\ \A q \in PL : lock'[q] = lock[q] \/ lock[q] \in {c, NoFmCpu}
    BY <1>3, <1>6
  <1>10. Clr(num(pl), frames[pl], k, 0) = Holding(num(pl), FrBits(pl) \ {k}) /\ FrBits(pl) \ {k} \in SUBSET Index(pl)
    BY <1>6, <1>7, <1>8, FramesSet
  <1>11. left = [frames EXCEPT ![pl] = Holding(num(pl), FrBits(pl) \ {k})]
    BY <1>2, <1>10
  <1>12. Parts(pl, k) = {i \in Small : Of(pl, i) = k}
    BY <1>7, <1>8, PartsAre
  <1>13. (\A i \in Small : Of(1, i) = i) /\ \A q \in PL : FrBits(q) \subseteq Index(q)
    BY BitsIn DEF Of, FrBits
  <1>a. CASE pl = op[c].call
    <2>1. frames' = [frames EXCEPT ![pl] = Holding(num(pl), FrBits(pl) \ {k})] /\ HandOut(Parts(pl, k))
      BY <1>4, <1>11, <1>a
    <2>2. Exact(frames') /\ FrBits(pl)' = FrBits(pl) \ {k} /\ \A q \in PL \ {pl} : FrBits(q)' = FrBits(q)
      BY <1>6, <1>7, <1>10, <2>1, FramesChanged
    <2>3. PICK S, R : S = Parts(pl, k) /\ R = {}
      OBVIOUS
    <2>4. S \in SUBSET Small /\ R \in SUBSET Small /\ S \cap R = {} /\ HandOut(S)
          /\ \A i \in S \cup R : \E q \in PL : Of(q, i) \in FrBits(q)
      BY <1>7, <1>8, <1>12, <2>1, <2>3
    <2>5. FrBits(1)' = FrBits(1) \/ lock[1] \in {c, NoFmCpu}
      BY <1>7, <2>2, Sizes
    <2>6. PICK w : Accounts(w)
      BY DEF FmInv
    <2>7. ASSUME NEW i \in Small
          PROVE  /\ i \in FrBits(1)' <=> i \in R \/ (i \in FrBits(1) /\ i \notin S)
                 /\ Of(2, i) \in FrBits(2)' <=> Of(2, i) \in FrBits(2) /\ i \notin S \cup R
      <3>1. Located(w, i)
        BY <2>6 DEF Accounts
      <3>2. ~ (i \in FrBits(1) /\ Of(2, i) \in FrBits(2))
        BY <1>13, <3>1, Sizes, PlacesApart DEF Located
      <3>3. CASE pl = 1
        BY <1>8, <1>12, <1>13, <2>2, <2>3, <3>2, <3>3, Sizes
      <3>4. CASE pl = 2
        BY <1>8, <1>12, <1>13, <2>2, <2>3, <3>2, <3>4, Sizes
      <3> QED BY <1>7, <3>3, <3>4 DEF PL
    <2>8. NoFullBlock'
      <3>1. FrBits(1)' \subseteq FrBits(1)
        BY <1>7, <2>2, Sizes
      <3> QED BY <1>5, <3>1 DEF NoFullBlock
    <2> QED BY <1>3, <1>9, <2>2, <2>4, <2>5, <2>7, <2>8, IdleIs, HandedOut
  <1>b. CASE pl # op[c].call
    <2>1. pl = 2 /\ op[c].call = 1
      BY <1>7, <1>b DEF PL
    <2>2. lock[1] = c /\ FrBits(1) = {} /\ 1 \in PL /\ 2 \in PL
      BY <1>1, <1>3, <1>5, <2>1, Sizes DEF CallOk, Asking
    <2>3. PICK b : b = k * B
      OBVIOUS
    <2>4. b \in Small /\ b \div B = k /\ Of(2, b) = k /\ b \in Parts(2, k) /\ b \in Index(1)
      BY <1>8, <2>1, <2>3, BlockStart, Sizes DEF Index, Small
    <2>5. frames[1] = Holding(num(1), {}) /\ DOMAIN frames = PL
      BY <1>6, <2>2, FramesHold
    <2>6. BlockSet(num(1), frames[1], b) = Holding(num(1), Parts(2, k))
      BY <2>4, <2>5, HoldingBlocks
    <2>7. Parts(2, k) \in SUBSET Index(1)
      BY <1>12, <2>1, Sizes DEF Index, Small
    <2>8. PICK T, U : T = Parts(2, k) \ {b} /\ U = FrBits(2) \ {k}
      OBVIOUS
    <2>9. Clr(num(1), Holding(num(1), Parts(2, k)), b, 0) = Holding(num(1), T)
      BY <2>2, <2>4, <2>7, <2>8, HoldingBits
    <2>10. left[1] = frames[1] /\ DOMAIN left = PL
      BY <1>11, <2>1, <2>5, <2>2
    <2>11. frames' = [left EXCEPT ![1] = Holding(num(1), T)] /\ HandOut({b})
      BY <1>4, <1>b, <2>3, <2>6, <2>9, <2>10
    <2>12. frames' = [frames EXCEPT ![2] = Holding(num(2), U), ![1] = Holding(num(1), T)]
      BY <1>11, <2>1, <2>8, <2>11
    <2>13. T \in SUBSET Index(1) /\ U \in SUBSET Index(2)
      BY <1>10, <2>1, <2>7, <2>8
    <2>14. Exact(frames') /\ FrBits(1)' = T /\ FrBits(2)' = U
      BY <2>5, <2>12, <2>13, BothChanged, Zenon
    <2>15. PICK S, R : S = {b} /\ R = T
      OBVIOUS
    <2>16. S \in SUBSET Small /\ R \in SUBSET Small /\ S \cap R = {} /\ HandOut(S)
           /\ \A i \in S \cup R : \E q \in PL : Of(q, i) \in FrBits(q)
      BY <1>8, <1>12, <2>1, <2>2, <2>4, <2>8, <2>11, <2>15
    <2>17. \A i \in Small : i \in FrBits(1)' <=> i \in R \/ (i \in FrBits(1) /\ i \notin S)
      BY <2>2, <2>14, <2>15
    <2>18. \A i \in Small : Of(2, i) \in FrBits(2)' <=> Of(2, i) \in FrBits(2) /\ i \notin S \cup R
      BY <1>12, <2>1, <2>4, <2>8, <2>14, <2>15
    <2>19. NoFullBlock'
      <3> SUFFICES ASSUME NEW q \in Index(2), Parts(2, q) \subseteq T PROVE FALSE
        BY <2>14 DEF NoFullBlock
      <3>1. q * B \in Parts(2, q) /\ Parts(2, q) = {i \in Small : Of(2, i) = q}
        BY <2>2, BlockStart, PartsAre
      <3>2. q = k
        BY <1>12, <2>1, <2>8, <3>1
      <3> QED BY <2>4, <2>8, <3>2
    <2> QED BY <1>3, <1>9, <2>2, <2>14, <2>16, <2>17, <2>18, <2>19, IdleIs, HandedOut
  <1> QED BY <1>a, <1>b

(* alloc starts, and asks for a large frame.                               *)
LEMMA AllocStep ==
  ASSUME FmInv, panic = "no", NEW c \in FmCpu, NEW pl \in PL, Alloc(c, pl)
  PROVE  FmInv'
  <1>1. PICK o : o = Doing("find", pl, pl, 0, 0)
    OBVIOUS
  <1>2. /\ op[c] = Idle /\ lock[pl] = NoFmCpu /\ op' = [op EXCEPT ![c] = o] /\ lock' = [lock EXCEPT ![pl] = c]
        /\ UNCHANGED <<frames, tozero, owned, zeroed, panic>>
    BY <1>1 DEF Alloc
  <1>3. o \in OpState /\ o.pc = "find" /\ o.pl = pl /\ o.call = pl
    BY <1>1 DEF Doing, OpState, PL
  <1>4. lock \in [PL -> FmCpu \cup {NoFmCpu}] /\ op \in [FmCpu -> OpState]
    BY DEF FmInv, FmTypes
  <1>5. /\ lock' \in [PL -> FmCpu \cup {NoFmCpu}] /\ lock'[pl] = c
        /\ \A q \in PL : lock'[q] = lock[q] \/ lock[q] \in {c, NoFmCpu}
    BY <1>2, <1>4
  <1>6. op'[c] = o
    BY <1>2, <1>4
  <1>7. CallOk(c)' /\ Busy(c)' = Busy(c)
    BY <1>2, <1>3, <1>5, <1>6, IdleIs DEF CallOk, Asking, Busy, PL
  <1> QED BY <1>2, <1>3, <1>5, <1>7, QuietStep

LEMMA SplitStep ==
  ASSUME BitmapsWork, FmInv, panic = "no", NEW c \in FmCpu, AllocSplit(c)
  PROVE  FmInv'
  <1>1. PICK o : o = [op[c] EXCEPT !.pl = 2]
    OBVIOUS
  <1>2. /\ op[c].pc = "find" /\ op[c].pl = 1 /\ lock[2] = NoFmCpu /\ lock' = [lock EXCEPT ![2] = c]
        /\ FindFirst(num(1), frames[1]) = NotFound /\ FindFirst(num(1), tozero[1]) = NotFound
        /\ UNCHANGED <<frames, tozero, owned, zeroed, panic>>
    BY DEF AllocSplit
  <1>3. FmTypes /\ CallOk(c) /\ 1 \in PL /\ 2 \in PL
    BY Sizes DEF FmInv
  <1>4. Exact(frames) /\ Exact(tozero) /\ lock \in [PL -> FmCpu \cup {NoFmCpu}] /\ op \in [FmCpu -> OpState]
    BY <1>3 DEF FmTypes
  <1>5. op' = [op EXCEPT ![c] = o]
    BY <1>1, <1>4 DEF AllocSplit
  <1>6. o \in OpState /\ o.pc = "find" /\ o.pl = 2 /\ o.call = op[c].call
    BY <1>1, <1>2, <1>3, <1>4 DEF OpState
  <1>7. lock[1] = c /\ op[c].call = 1
    BY <1>2, <1>3 DEF CallOk
  <1>8. /\ lock' \in [PL -> FmCpu \cup {NoFmCpu}] /\ lock'[2] = c /\ lock'[1] = c
        /\ \A q \in PL : lock'[q] = lock[q] \/ lock[q] \in {c, NoFmCpu}
    BY <1>2, <1>3, <1>4, <1>7
  <1>9. op'[c] = o
    BY <1>4, <1>5
  <1>10. FrBits(1) = {} /\ TzBits(1) = {}
    BY <1>2, <1>3, <1>4, FoundIs DEF FrBits, TzBits
  <1>11. FrBits(1)' = {} /\ TzBits(1)' = {}
    BY <1>2, <1>10 DEF FrBits, TzBits
  <1>12. CallOk(c)' /\ Busy(c)' = Busy(c)
    BY <1>2, <1>6, <1>7, <1>8, <1>9, <1>11 DEF CallOk, Asking, Busy
  <1> QED BY <1>2, <1>5, <1>6, <1>8, <1>12, QuietStep

LEMMA AllocZeroStep ==
  ASSUME BitmapsWork, FmInv, panic = "no", NEW c \in FmCpu, AllocZero(c)
  PROVE  FmInv'
  <1>1. PICK pl, call : pl = op[c].pl /\ call = op[c].call
    OBVIOUS
  <1>2. op[c].pc = "find" /\ TakeZero(c, pl, call) /\ UNCHANGED <<owned, zeroed, panic>>
    BY <1>1 DEF AllocZero
  <1>3. CallOk(c) /\ op[c] \in OpState
    BY DEF FmInv, FmTypes
  <1>4. /\ pl \in PL /\ call \in {0, 1, 2} /\ lock[pl] = c /\ (pl = 1 => call \in {0, 1})
        /\ (call = 1 /\ pl = 2 => Asking(c))
    BY <1>1, <1>2, <1>3 DEF CallOk, OpState, Asking
  <1> QED BY <1>2, <1>4, TakeStep

LEMMA ZeroMemoryStep ==
  ASSUME BitmapsWork, FmInv, panic = "no", NEW c \in FmCpu, ZeroMemory(c) \/ ZeroMemoryLarge(c)
  PROVE  FmInv'
  <1>1. /\ op[c].pc \in {"idle", "large"} /\ UNCHANGED <<owned, zeroed, panic>>
        /\ \/ \E pl \in PL : lock[pl] = NoFmCpu /\ TakeZero(c, pl, 0)
           \/ /\ \E o \in {Idle, Doing("large", 2, 0, 0, 0)} : op' = [op EXCEPT ![c] = o]
              /\ UNCHANGED <<frames, tozero, lock>>
    BY IdleIs, Sizes DEF ZeroMemory, ZeroMemoryLarge
  <1>2. lock \in [PL -> FmCpu \cup {NoFmCpu}] /\ op \in [FmCpu -> OpState]
    BY DEF FmInv, FmTypes
  <1>a. ASSUME NEW pl \in PL, lock[pl] = NoFmCpu, TakeZero(c, pl, 0) PROVE FmInv'
    BY <1>1, <1>a, TakeStep
  <1>b. ASSUME NEW o \in {Idle, Doing("large", 2, 0, 0, 0)}, op' = [op EXCEPT ![c] = o],
               UNCHANGED <<frames, tozero, lock>>
        PROVE  FmInv'
    <2>1. o \in OpState /\ o.pc \in {"idle", "large"}
      BY IdleIs DEF Doing, OpState, PL
    <2>2. op'[c] = o
      BY <1>2, <1>b
    <2>3. CallOk(c)' /\ Busy(c)' = Busy(c)
      BY <1>1, <2>1, <2>2 DEF CallOk, Asking, Busy
    <2>4. lock' \in [PL -> FmCpu \cup {NoFmCpu}] /\ panic' # "out_of_memory"
      BY <1>1, <1>2, <1>b
    <2> QED BY <1>1, <1>b, <2>1, <2>3, <2>4, QuietStep
  <1> QED BY <1>1, <1>a, <1>b

(* The owner of frames hands them to release.                              *)
LEMMA ReleaseStarts ==
  ASSUME FmInv, panic = "no", NEW c \in FmCpu, NEW s \in Small, NEW n \in 1 .. N - s, Release(c, s, n)
  PROVE  FmInv'
  <1>1. PICK o, S : o = Doing("release", 1, 0, s, n) /\ S = Span(s, n)
    OBVIOUS
  <1>2. /\ op[c] = Idle /\ (\A j \in S : owned[j] > 0) /\ op' = [op EXCEPT ![c] = o]
        /\ owned' = [j \in DOMAIN owned |-> owned[j] - IF j \in S THEN 1 ELSE 0]
        /\ UNCHANGED <<frames, tozero, lock, zeroed, panic>>
    BY <1>1 DEF Release
  <1>3. s \in Nat /\ n \in Nat /\ n > 0 /\ s + n <= N
    BY Positive DEF Small
  <1>4. o \in OpState /\ o.pc = "release" /\ o.pl = 1 /\ o.call = 0 /\ o.idx = s /\ o.cnt = n
    BY <1>1, <1>3 DEF Doing, OpState, PL
  <1>5. S \subseteq Small
    BY <1>1, <1>3, Positive DEF Span, Small
  <1>6. FmTypes /\ AllZeroed /\ NoFullBlock
    BY DEF FmInv
  <1>7. lock \in [PL -> FmCpu \cup {NoFmCpu}] /\ op \in [FmCpu -> OpState] /\ Exact(frames) /\ Exact(tozero)
        /\ owned \in [0 .. N + B -> Nat] /\ \A i \in (0 .. N + B) \ Small : owned[i] = 0
    BY <1>6 DEF FmTypes
  <1>8. Small \subseteq 0 .. N + B
    BY Positive DEF Small
  <1>9. owned' \in [0 .. N + B -> Nat] /\ \A i \in (0 .. N + B) \ Small : owned'[i] = 0
    BY <1>2, <1>5, <1>7
  <1>10. /\ lock' \in [PL -> FmCpu \cup {NoFmCpu}] /\ Exact(frames') /\ Exact(tozero') /\ panic' # "out_of_memory"
         /\ \A q \in PL : lock'[q] = lock[q] /\ FrBits(q)' = FrBits(q) /\ TzBits(q)' = TzBits(q)
    BY <1>2, <1>7 DEF FrBits, TzBits
  <1>11. op'[c] = o /\ \A d \in FmCpu \ {c} : Busy(d)' = Busy(d)
    BY <1>2, <1>4, <1>10, Others, Sizes
  <1>12. Busy(c) = {} /\ Busy(c)' = S
    BY <1>1, <1>2, <1>4, <1>11, IdleIs DEF Busy
  <1>13. CallOk(c)'
    BY <1>3, <1>4, <1>11 DEF CallOk, Asking
  <1>14. PICK w : Accounts(w)
    BY DEF FmInv
  <1>15. PICK v : v = [i \in Small |-> IF i \in S THEN With(c) ELSE w[i]]
    OBVIOUS
  <1>16. v \in [Small -> Place]
    BY <1>14, <1>15, PlacesApart DEF Accounts
  <1>17. ASSUME NEW i \in Small PROVE Located(v, i)'
    <2>1. Located(w, i) /\ v[i] = IF i \in S THEN With(c) ELSE w[i]
      BY <1>14, <1>15 DEF Accounts
    <2>2. owned[i] = (IF w[i] = Owner THEN 1 ELSE 0) /\ owned'[i] = owned[i] - IF i \in S THEN 1 ELSE 0
      BY <1>2, <1>7, <1>8, <2>1 DEF Located
    <2>3. i \in S => w[i] = Owner
      BY <1>2, <2>2
    <2>4. owned'[i] = (IF v[i] = Owner THEN 1 ELSE 0)
      <3>1. With(c) # Owner
        BY PlacesApart
      <3> QED BY <2>1, <2>2, <2>3, <3>1
    <2>5. \A k \in PL : Of(k, i) \in FrBits(k)' <=> v[i] = InFrames(k)
      BY <1>10, <2>1, <2>3, PlacesApart DEF Located
    <2>6. \A k \in PL : Of(k, i) \in TzBits(k)' <=> v[i] = InTozero(k)
      BY <1>10, <2>1, <2>3, PlacesApart DEF Located
    <2>7. \A d \in FmCpu : i \in Busy(d)' <=> v[i] = With(d)
      BY <1>11, <1>12, <2>1, <2>3, PlacesApart DEF Located
    <2> QED BY <2>4, <2>5, <2>6, <2>7 DEF Located
  <1>18. Accounts(v)'
    BY <1>16, <1>17 DEF Accounts
  <1>19. AllZeroed' /\ NoFullBlock'
    BY <1>2, <1>6, <1>10, Sizes DEF AllZeroed, NoFullBlock
  <1> QED BY <1>2, <1>4, <1>9, <1>10, <1>13, <1>18, <1>19, Sizes, StepKeeps

(* The frame that release puts back next, and what is left after it.       *)
LEMMA ReleaseSplits ==
  ASSUME NEW s \in Nat, NEW n \in Nat, n > 0, s + n <= N, NEW pl \in PL, pl = 2 <=> s % B = 0 /\ n >= B,
         NEW k, k = ptentries(pl), NEW z, z = s \div k
  PROVE  /\ k \in Nat /\ k > 0 /\ k <= n /\ z \in Index(pl)
         /\ Span(s, n) = Parts(pl, z) \cup Span(s + k, n - k) /\ Parts(pl, z) \cap Span(s + k, n - k) = {}
  <1>a. CASE pl = 1
    <2>1. ptentries(pl) = 1 /\ s \div 1 = s /\ num(pl) = N
      BY <1>a, Sizes DEF ptentries
    <2>2. s \in Index(1) /\ Parts(1, s) = {s}
      BY <2>1, <1>a, Sizes, Positive DEF Index, Parts
    <2>3. Span(s, n) = {s} \cup Span(s + 1, n - 1) /\ {s} \cap Span(s + 1, n - 1) = {}
      BY DEF Span
    <2> QED BY <1>a, <2>1, <2>2, <2>3, Sizes
  <1>b. CASE pl # 1
    <2>1. pl = 2 /\ s % B = 0 /\ n >= B /\ k = B
      BY <1>b DEF ptentries, PL
    <2>2. z = s \div B /\ z \in Nat
      BY <2>1, BlockQuotient
    <2>3. z * B = s
      BY <2>1, <2>2, Positive, Z3
    <2>4. s \in Small
      BY <2>1, Positive DEF Small
    <2>5. z \in Index(2)
      <3>1. Of(2, s) \in Index(2)
        BY <2>4, OfIs, Sizes
      <3> QED BY <2>2, <3>1 DEF Of
    <2>6. Parts(2, z) = s .. s + B - 1
      BY <2>3 DEF Parts, ptentries
    <2>7. /\ s .. s + n - 1 = (s .. s + B - 1) \cup (s + B .. s + B + (n - B) - 1)
          /\ (s .. s + B - 1) \cap (s + B .. s + B + (n - B) - 1) = {}
      BY <2>1, Positive
    <2> QED BY <2>1, <2>2, <2>5, <2>6, <2>7, Sizes, Positive DEF Span
  <1> QED BY <1>a, <1>b

LEMMA TozeroSet ==
  ASSUME BitmapsWork, Exact(tozero), NEW pl \in PL, NEW k \in Index(pl)
  PROVE  /\ Set(num(pl), tozero[pl], k, 0) = Holding(num(pl), TzBits(pl) \cup {k})
         /\ TzBits(pl) \cup {k} \in SUBSET Index(pl)
  <1>1. PICK F : F = TzBits(pl)
    OBVIOUS
  <1>2. tozero[pl] = Holding(num(pl), F) /\ F \in SUBSET Index(pl)
    BY <1>1, BitsIn DEF Exact, TzBits
  <1>3. Set(num(pl), Holding(num(pl), F), k, 0) = Holding(num(pl), F \cup {k})
    BY <1>2, HoldingBits
  <1> QED BY <1>1, <1>2, <1>3

(* release puts a frame back.                                              *)
LEMMA ReleaseGoesOn ==
  ASSUME BitmapsWork, FmInv, panic = "no", NEW c \in FmCpu, ReleaseStep(c)
  PROVE  FmInv'
  <1>1. PICK s, n : s = op[c].idx /\ n = op[c].cnt
    OBVIOUS
  <1>2. PICK pl : pl = IF s % B = 0 /\ n >= B THEN 2 ELSE 1
    OBVIOUS
  <1>3. PICK k : k = ptentries(pl)
    OBVIOUS
  <1>4. PICK z : z = s \div k
    OBVIOUS
  <1>5. PICK o : o = IF n = k THEN Idle ELSE [op[c] EXCEPT !.idx = s + k, !.cnt = n - k]
    OBVIOUS
  <1>6. /\ op[c].pc = "release" /\ lock[pl] = NoFmCpu
        /\ tozero' = [tozero EXCEPT ![pl] = Set(num(pl), @, z, 0)]
        /\ UNCHANGED <<frames, lock, owned, zeroed, panic>>
    BY <1>1, <1>2, <1>3, <1>4 DEF ReleaseStep
  <1>7. FmTypes /\ CallOk(c) /\ AllZeroed /\ NoFullBlock
    BY DEF FmInv
  <1>8. lock \in [PL -> FmCpu \cup {NoFmCpu}] /\ op \in [FmCpu -> OpState] /\ Exact(frames) /\ Exact(tozero)
    BY <1>7 DEF FmTypes
  <1>9. op' = [op EXCEPT ![c] = o]
    BY <1>1, <1>2, <1>3, <1>5, <1>8 DEF ReleaseStep
  <1>10. s \in Nat /\ n \in Nat /\ n > 0 /\ s + n <= N
    BY <1>1, <1>6, <1>7, <1>8 DEF CallOk, OpState
  <1>11. /\ pl \in PL /\ k \in Nat /\ k > 0 /\ k <= n /\ z \in Index(pl)
         /\ Span(s, n) = Parts(pl, z) \cup Span(s + k, n - k) /\ Parts(pl, z) \cap Span(s + k, n - k) = {}
    <2>1. pl \in PL /\ (pl = 2 <=> s % B = 0 /\ n >= B)
      BY <1>2 DEF PL
    <2> QED BY <1>3, <1>4, <1>10, <2>1, ReleaseSplits
  <1>12. /\ o \in OpState
         /\ \/ n = k /\ o.pc = "idle"
            \/ n # k /\ o.pc = "release" /\ o.idx = s + k /\ o.cnt = n - k
    <2>1. CASE n = k
      BY <1>5, <2>1, IdleIs
    <2>2. CASE n # k
      <3>1. op[c] \in OpState /\ s + k \in Nat /\ n - k \in Nat
        BY <1>8, <1>10, <1>11
      <3>2. o = [op[c] EXCEPT !.idx = s + k, !.cnt = n - k]
        BY <1>5, <2>2
      <3> QED BY <1>6, <2>2, <3>1, <3>2 DEF OpState
    <2> QED BY <2>1, <2>2
  <1>13. Set(num(pl), tozero[pl], z, 0) = Holding(num(pl), TzBits(pl) \cup {z}) /\ TzBits(pl) \cup {z} \in SUBSET Index(pl)
    BY <1>8, <1>11, TozeroSet
  <1>14. tozero' = [tozero EXCEPT ![pl] = Holding(num(pl), TzBits(pl) \cup {z})]
    BY <1>6, <1>13
  <1>15. Exact(tozero') /\ TzBits(pl)' = TzBits(pl) \cup {z} /\ \A q \in PL \ {pl} : TzBits(q)' = TzBits(q)
    BY <1>8, <1>11, <1>13, <1>14, TozeroChanged
  <1>16. \A q \in PL : FrBits(q)' = FrBits(q)
    BY <1>6 DEF FrBits
  <1>17. /\ lock' \in [PL -> FmCpu \cup {NoFmCpu}] /\ (\A q \in PL : lock'[q] = lock[q])
         /\ (FrBits(1)' = FrBits(1) /\ TzBits(1)' = TzBits(1)) \/ lock[1] \in {c, NoFmCpu}
         /\ owned' \in [0 .. N + B -> Nat] /\ (\A i \in (0 .. N + B) \ Small : owned'[i] = 0)
         /\ Exact(frames') /\ panic' # "out_of_memory"
    BY <1>6, <1>7, <1>8, <1>15, <1>16, Sizes DEF FmTypes
  <1>18. op'[c] = o /\ \A d \in FmCpu \ {c} : Busy(d)' = Busy(d)
    BY <1>9, <1>12, <1>17, Others
  <1>19. Busy(c) = Span(s, n) /\ Busy(c)' = Span(s + k, n - k)
    <2>1. n = k => Span(s + k, n - k) = {}
      BY <1>10, <1>11 DEF Span
    <2> QED BY <1>1, <1>6, <1>12, <1>18, <2>1 DEF Busy
  <1>20. CallOk(c)'
    BY <1>10, <1>11, <1>12, <1>18 DEF CallOk, Asking
  <1>21. PICK w : Accounts(w)
    BY DEF FmInv
  <1>22. PICK v : v = [i \in Small |-> IF Of(pl, i) = z THEN InTozero(pl) ELSE w[i]]
    OBVIOUS
  <1>23. v \in [Small -> Place]
    BY <1>11, <1>21, <1>22, PlacesApart DEF Accounts
  <1>24. ASSUME NEW i \in Small PROVE Located(v, i)'
    <2>1. Located(w, i) /\ v[i] = IF Of(pl, i) = z THEN InTozero(pl) ELSE w[i]
      BY <1>21, <1>22 DEF Accounts
    <2>2. i \in Parts(pl, z) <=> Of(pl, i) = z
      BY <1>11, PartsAre
    <2>3. Of(pl, i) = z => w[i] = With(c)
      BY <1>11, <1>19, <2>1, <2>2 DEF Located
    <2>4. owned'[i] = (IF v[i] = Owner THEN 1 ELSE 0)
      BY <1>6, <1>11, <2>1, <2>3, PlacesApart DEF Located
    <2>5. \A q \in PL : Of(q, i) \in FrBits(q)' <=> v[i] = InFrames(q)
      BY <1>11, <1>16, <2>1, <2>3, PlacesApart DEF Located
    <2>6. \A q \in PL : Of(q, i) \in TzBits(q)' <=> v[i] = InTozero(q)
      BY <1>11, <1>15, <2>1, <2>3, PlacesApart DEF Located
    <2>7. \A d \in FmCpu : i \in Busy(d)' <=> v[i] = With(d)
      <3> TAKE d \in FmCpu
      <3>1. With(d) # InTozero(pl)
        BY <1>11, PlacesApart
      <3>2. CASE d = c
        <4>1. i \in Busy(c)' <=> i \in Busy(c) /\ Of(pl, i) # z
          BY <1>11, <1>19, <2>2
        <4> QED BY <2>1, <3>1, <3>2, <4>1 DEF Located
      <3>3. CASE d # c
        <4>1. i \in Busy(d)' <=> w[i] = With(d)
          BY <1>18, <2>1, <3>3 DEF Located
        <4>2. With(d) # With(c)
          BY <3>3, PlacesApart
        <4> QED BY <2>1, <2>3, <3>1, <4>1, <4>2
      <3> QED BY <3>2, <3>3
    <2> QED BY <2>4, <2>5, <2>6, <2>7 DEF Located
  <1>25. Accounts(v)'
    BY <1>23, <1>24 DEF Accounts
  <1>26. AllZeroed' /\ NoFullBlock'
    BY <1>6, <1>7, <1>16, Sizes DEF AllZeroed, NoFullBlock
  <1> QED BY <1>9, <1>12, <1>15, <1>17, <1>20, <1>25, <1>26, StepKeeps

-----------------------------------------------------------------------------
(* allocRegion.                                                            *)
LEMMA RegionStep ==
  ASSUME BitmapsWork, FmInv, panic = "no", NEW c \in FmCpu, NEW n \in RegionSizes, NEW lim \in Limits,
         AllocRegion(c, n, lim)
  PROVE  FmInv'
  <1>1. PICK s, S : s = RegionAt(1, frames[1], n, lim) /\ S = Span(s, n)
    OBVIOUS
  <1>2. /\ op[c] = Idle /\ lock[1] = NoFmCpu /\ s # NotFound
        /\ frames' = [frames EXCEPT ![1] = ClrAll(num(1), @, S)] /\ HandOut(S)
        /\ UNCHANGED <<tozero, lock, op, panic>>
    BY <1>1 DEF AllocRegion
  <1>3. FmTypes /\ NoFullBlock /\ 1 \in PL /\ 2 \in PL
    BY Sizes DEF FmInv
  <1>4. Exact(frames) /\ lock \in [PL -> FmCpu \cup {NoFmCpu}] /\ op \in [FmCpu -> OpState]
    BY <1>3 DEF FmTypes
  <1>5. PICK F : F = FrBits(1)
    OBVIOUS
  <1>6. frames[1] = Holding(num(1), F) /\ F \in SUBSET Index(1)
    BY <1>3, <1>4, <1>5, FramesHold
  <1>7. S \subseteq F
    <2>1. RegionContract(1, n, lim)
      BY DEF BitmapsWork
    <2>2. Broken(1, F)
      BY <1>3, <1>5 DEF Broken, NoFullBlock, Index
    <2> QED BY <1>1, <1>2, <1>6, <2>1, <2>2 DEF RegionContract, Index
  <1>8. S \in SUBSET Index(1) /\ F \ S \in SUBSET Index(1) /\ Index(1) = Small
    BY <1>6, <1>7, Sizes DEF Index, Small
  <1>9. ClrAll(num(1), frames[1], S) = Holding(num(1), F \ S)
    BY <1>6, <1>8, HoldingBlocks
  <1>10. frames' = [frames EXCEPT ![1] = Holding(num(1), F \ S)]
    BY <1>2, <1>9
  <1>11. Exact(frames') /\ FrBits(1)' = F \ S /\ \A q \in PL \ {1} : FrBits(q)' = FrBits(q)
    BY <1>3, <1>4, <1>8, <1>10, FramesChanged
  <1>12. op' = [op EXCEPT ![c] = Idle] /\ op[c].pc = "idle"
    BY <1>2, <1>4, IdleIs
  <1>13. lock' \in [PL -> FmCpu \cup {NoFmCpu}] /\ \A q \in PL : lock'[q] = lock[q]
    BY <1>2, <1>4
  <1>14. PICK w : Accounts(w)
    BY DEF FmInv
  <1>15. PICK R : R = {}
    OBVIOUS
  <1>16. \A i \in S \cup R : \E q \in PL : Of(q, i) \in FrBits(q)
    BY <1>3, <1>5, <1>7, <1>15 DEF Of
  <1>17. ASSUME NEW i \in Small
         PROVE  /\ i \in FrBits(1)' <=> i \in R \/ (i \in FrBits(1) /\ i \notin S)
                /\ Of(2, i) \in FrBits(2)' <=> Of(2, i) \in FrBits(2) /\ i \notin S \cup R
    <2>1. Located(w, i) /\ Of(1, i) = i
      BY <1>14 DEF Accounts, Of
    <2>2. ~ (i \in FrBits(1) /\ Of(2, i) \in FrBits(2))
      BY <1>3, <2>1, PlacesApart DEF Located
    <2>3. FrBits(2)' = FrBits(2)
      BY <1>3, <1>11
    <2> QED BY <1>5, <1>7, <1>11, <1>15, <2>2, <2>3
  <1>18. NoFullBlock'
    BY <1>3, <1>5, <1>11 DEF NoFullBlock
  <1>19. S \in SUBSET Small /\ R \in SUBSET Small /\ S \cap R = {}
    BY <1>8, <1>15
  <1> QED BY <1>2, <1>11, <1>12, <1>13, <1>16, <1>17, <1>18, <1>19, IdleIs, HandedOut

LEMMA OneBlock ==
  ASSUME NEW n \in RegionSizes
  PROVE  n \in Nat /\ 1 <= n /\ n <= B /\ divup(n, B) = 1
  <1>1. n \in Nat /\ 1 <= n /\ n <= B
    BY FrameAssumption, Positive
  <1>2. n + B - 1 \in Nat /\ 1 * B <= n + B - 1 /\ n + B - 1 < 1 * B + B
    BY <1>1, Positive
  <1>3. (n + B - 1) \div B = 1
    BY <1>2, QuotientIs
  <1> QED BY <1>1, <1>3 DEF divup

LEMMA RegionSplitStep ==
  ASSUME BitmapsWork, FmInv, panic = "no", NEW c \in FmCpu, NEW n \in RegionSizes, NEW lim \in Limits,
         AllocRegionSplit(c, n, lim)
  PROVE  FmInv'
  <1>1. PICK k : k = RegionAt(2, frames[2], divup(n, B), lim \div B)
    OBVIOUS
  <1>2. PICK b, S : b = k * B /\ S = Span(b, n)
    OBVIOUS
  <1>3. /\ op[c] = Idle /\ lock[1] = NoFmCpu /\ UNCHANGED <<tozero, lock, op>>
        /\ IF k = NotFound
           THEN panic' = "impossible_region" /\ UNCHANGED <<frames, owned, zeroed>>
           ELSE /\ frames' = [frames EXCEPT ![2] = Clr(num(2), @, k, 0),
                                            ![1] = ClrAll(num(1), BlockSet(num(1), @, b), S)]
                /\ HandOut(S) /\ UNCHANGED panic
    BY <1>1, <1>2 DEF AllocRegionSplit
  <1>4. FmTypes /\ NoFullBlock /\ CallOk(c) /\ 1 \in PL /\ 2 \in PL
    BY Sizes DEF FmInv
  <1>5. Exact(frames) /\ lock \in [PL -> FmCpu \cup {NoFmCpu}] /\ op \in [FmCpu -> OpState]
    BY <1>4 DEF FmTypes
  <1>6. op' = [op EXCEPT ![c] = Idle] /\ op[c].pc = "idle" /\ op'[c] = Idle
    BY <1>3, <1>5, IdleIs
  <1>7. lock' \in [PL -> FmCpu \cup {NoFmCpu}] /\ \A q \in PL : lock'[q] = lock[q]
    BY <1>3, <1>5
  <1>a. CASE k = NotFound
    <2>1. CallOk(c)' /\ Busy(c)' = Busy(c)
      BY <1>6, IdleIs DEF CallOk, Asking, Busy
    <2>2. panic' # "out_of_memory" /\ UNCHANGED <<frames, tozero, owned, zeroed>>
      BY <1>3, <1>a
    <2> QED BY <1>6, <1>7, <2>1, <2>2, IdleIs, QuietStep
  <1>b. CASE k # NotFound
    <2>1. n \in Nat /\ 1 <= n /\ n <= B /\ divup(n, B) = 1
      BY OneBlock
    <2>2. PICK F, G : F = FrBits(1) /\ G = FrBits(2)
      OBVIOUS
    <2>3. frames[2] = Holding(num(2), G) /\ G \in SUBSET Index(2) /\ frames[1] = Holding(num(1), F)
          /\ F \in SUBSET Index(1) /\ DOMAIN frames = PL
      BY <1>4, <1>5, <2>2, FramesHold
    <2>4. k \in G
      <3>1. RegionContract(2, 1, lim \div B)
        BY <2>1 DEF BitmapsWork
      <3>2. Broken(2, G)
        BY DEF Broken
      <3>3. k \in Nat /\ Span(k, 1) \subseteq G
        BY <1>1, <1>b, <2>1, <2>3, <3>1, <3>2 DEF RegionContract, Index
      <3>4. k \in Span(k, 1)
        BY <3>3 DEF Span
      <3> QED BY <3>3, <3>4
    <2>5. k \in Index(2) /\ k \in Nat
      BY <2>3, <2>4, Sizes DEF Index
    <2>6. b \in Small /\ b \div B = k /\ b \in Nat /\ b \in Index(1)
      BY <1>2, <2>5, BlockStart, Sizes DEF Index, Small
    <2>7. PICK P : P = Parts(2, k)
      OBVIOUS
    <2>8. P = {i \in Small : Of(2, i) = k} /\ P = b .. b + B - 1
      BY <1>2, <1>4, <2>5, <2>7, PartsAre DEF Parts, ptentries
    <2>9. S \subseteq P /\ b \in S
      BY <1>2, <2>1, <2>6, <2>8, Positive DEF Span
    <2>10. PICK T, U, R : T = (F \cup P) \ S /\ U = G \ {k} /\ R = P \ S
      OBVIOUS
    <2>11. Index(1) = Small
      BY Sizes DEF Index, Small
    <2>12. P \in SUBSET Index(1) /\ F \cup P \in SUBSET Index(1) /\ S \in SUBSET Index(1)
           /\ T \in SUBSET Index(1) /\ U \in SUBSET Index(2)
      BY <2>3, <2>8, <2>9, <2>10, <2>11
    <2>13. BlockSet(num(1), frames[1], b) = Holding(num(1), F \cup P)
      <3>1. BlockSet(num(1), Holding(num(1), F), b) = Holding(num(1), F \cup Parts(2, b \div B))
        BY <2>3, <2>6, HoldingBlocks
      <3> QED BY <2>3, <2>6, <2>7, <3>1
    <2>14. ClrAll(num(1), Holding(num(1), F \cup P), S) = Holding(num(1), T)
      BY <2>10, <2>12, HoldingBlocks
    <2>15. Clr(num(2), frames[2], k, 0) = Holding(num(2), U)
      BY <1>4, <1>5, <2>2, <2>5, <2>10, FramesSet
    <2>16. frames' = [frames EXCEPT ![2] = Holding(num(2), U), ![1] = Holding(num(1), T)]
           /\ HandOut(S) /\ UNCHANGED panic
      BY <1>3, <1>b, <1>4, <2>3, <2>13, <2>14, <2>15
    <2>17. Exact(frames') /\ FrBits(1)' = T /\ FrBits(2)' = U
      <3>1. frames' = [frames EXCEPT ![2] = Holding(num(2), U), ![1] = Holding(num(1), T)]
        BY <2>16
      <3>2. DOMAIN frames = PL /\ T \in SUBSET Index(1) /\ U \in SUBSET Index(2)
        BY <2>3, <2>12
      <3> QED BY <3>1, <3>2, BothChanged, Zenon
    <2>18. S \in SUBSET Small /\ R \in SUBSET Small /\ S \cap R = {}
      BY <2>10, <2>11, <2>12
    <2>19. \A i \in S \cup R : \E q \in PL : Of(q, i) \in FrBits(q)
      BY <1>4, <2>2, <2>4, <2>8, <2>9, <2>10
    <2>20. \A i \in Small : i \in FrBits(1)' <=> i \in R \/ (i \in FrBits(1) /\ i \notin S)
      BY <2>2, <2>10, <2>17
    <2>21. \A i \in Small : Of(2, i) \in FrBits(2)' <=> Of(2, i) \in FrBits(2) /\ i \notin S \cup R
      BY <2>2, <2>8, <2>9, <2>10, <2>17
    <2>22. NoFullBlock'
      <3> SUFFICES ASSUME NEW q \in Index(2), Parts(2, q) \subseteq T PROVE FALSE
        BY <2>17 DEF NoFullBlock
      <3>1. q # k
        BY <2>7, <2>9, <2>10
      <3>2. Parts(2, q) = {i \in Small : Of(2, i) = q}
        BY <1>4, PartsAre
      <3>3. Parts(2, q) \subseteq F
        BY <2>8, <2>10, <3>1, <3>2
      <3> QED BY <1>4, <2>2, <3>3 DEF NoFullBlock
    <2>23. tozero' = tozero /\ panic' = panic /\ HandOut(S)
      BY <1>3, <2>16
    <2> QED BY <1>3, <1>6, <1>7, <2>17, <2>18, <2>19, <2>20, <2>21, <2>22, <2>23, IdleIs, HandedOut
  <1> QED BY <1>a, <1>b

-----------------------------------------------------------------------------
(* The small frames a level stands for.                                    *)
LEMMA FreeIs ==
  ASSUME NEW maps, NEW pl \in PL
  PROVE  /\ Free(maps, pl) = {i \in Small : Of(pl, i) \in Bits(num(pl), maps[pl])}
         /\ Bits(num(pl), maps[pl]) = {} => Free(maps, pl) = {}
  <1>1. PICK S : S = Bits(num(pl), maps[pl])
    OBVIOUS
  <1>2. S \subseteq Index(pl) /\ Free(maps, pl) = UNION {Parts(pl, k) : k \in S}
    BY <1>1, BitsIn DEF Free
  <1>3. \A k \in S : Parts(pl, k) = {i \in Small : Of(pl, i) = k}
    BY <1>2, PartsAre
  <1>4. Free(maps, pl) = {i \in Small : Of(pl, i) \in S}
    BY <1>2, <1>3
  <1> QED BY <1>1, <1>4

LEMMA OutOfMemoryStep ==
  ASSUME BitmapsWork, FmInv, NEW c \in FmCpu, OutOfMemory(c)
  PROVE  FmInv'
  <1>1. /\ op[c].pc = "find" /\ op[c].pl = 2 /\ FindFirst(num(2), frames[2]) = NotFound
        /\ FindFirst(num(2), tozero[2]) = NotFound /\ UNCHANGED <<frames, tozero, lock, op, owned, zeroed>>
    BY DEF OutOfMemory
  <1>2. FmTypes /\ CallOk(c) /\ Exact(frames) /\ Exact(tozero) /\ 1 \in PL /\ 2 \in PL
    BY Sizes DEF FmInv, FmTypes
  <1>3. FrBits(2) = {} /\ TzBits(2) = {}
    BY <1>1, <1>2, FoundIs DEF FrBits, TzBits
  <1>4. op[c].call = 1 => FrBits(1) = {} /\ TzBits(1) = {}
    BY <1>1, <1>2 DEF CallOk, Asking
  <1>5. \A pl \in (IF op[c].call = 1 THEN PL ELSE {2}) : FrBits(pl) = {} /\ TzBits(pl) = {}
    BY <1>3, <1>4 DEF PL
  <1>6. \A pl \in (IF op[c].call = 1 THEN PL ELSE {2}) : Free(frames, pl) \cup Free(tozero, pl) = {}
    BY <1>2, <1>5, FreeIs DEF FrBits, TzBits
  <1>7. OutOfMemoryTrue'
    BY <1>1, <1>6 DEF OutOfMemoryTrue, Free
  <1>8. FmTypes' /\ (\A d \in FmCpu : CallOk(d)') /\ AllZeroed' /\ NoFullBlock'
    BY <1>1 DEF FmInv, FmTypes, CallOk, Asking, AllZeroed, NoFullBlock, FrBits, TzBits
  <1>9. PICK w : Accounts(w)
    BY DEF FmInv
  <1>10. Accounts(w)'
    BY <1>1, <1>9 DEF Accounts, Located, FrBits, TzBits, Busy
  <1> QED BY <1>7, <1>8, <1>10 DEF FmInv

LEMMA FmStutter ==
  ASSUME FmInv, UNCHANGED fmVars
  PROVE  FmInv'
  <1>1. UNCHANGED <<frames, tozero, lock, op, owned, zeroed, panic>>
    BY DEF fmVars
  <1>2. FmTypes' /\ (\A d \in FmCpu : CallOk(d)') /\ AllZeroed' /\ NoFullBlock'
    BY <1>1 DEF FmInv, FmTypes, CallOk, Asking, AllZeroed, NoFullBlock, FrBits, TzBits
  <1>3. PICK w : Accounts(w)
    BY DEF FmInv
  <1>4. Accounts(w)'
    BY <1>1, <1>3 DEF Accounts, Located, FrBits, TzBits, Busy
  <1>5. OutOfMemoryTrue'
    BY <1>1 DEF FmInv, OutOfMemoryTrue, Free
  <1> QED BY <1>2, <1>4, <1>5 DEF FmInv

(* What init leaves.                                                       *)
FmFresh ==
  /\ frames = [pl \in PL |-> Holding(num(pl), {})]
  /\ tozero = [pl \in PL |-> Holding(num(pl), IF pl = 2 THEN 0 .. num(2) - 1 ELSE {})]
  /\ lock = [pl \in PL |-> NoFmCpu] /\ op = [c \in FmCpu |-> Idle] /\ owned = [i \in 0 .. N + B |-> 0]
  /\ zeroed = {} /\ panic = "no"

LEMMA FmStarts ==
  ASSUME BitmapsWork, FmFresh
  PROVE  FmInv
  <1>1. /\ frames = [pl \in PL |-> Holding(num(pl), {})]
        /\ tozero = [pl \in PL |-> Holding(num(pl), IF pl = 2 THEN 0 .. num(2) - 1 ELSE {})]
        /\ lock = [pl \in PL |-> NoFmCpu] /\ op = [c \in FmCpu |-> Idle] /\ owned = [i \in 0 .. N + B |-> 0]
        /\ zeroed = {} /\ panic = "no" /\ 1 \in PL /\ 2 \in PL
    BY Sizes DEF FmFresh
  <1>2. ASSUME NEW pl \in PL
        PROVE  /\ FrBits(pl) = {} /\ TzBits(pl) = (IF pl = 2 THEN Index(2) ELSE {})
               /\ frames[pl] = Holding(num(pl), FrBits(pl)) /\ tozero[pl] = Holding(num(pl), TzBits(pl))
    <2>1. PICK T : T = IF pl = 2 THEN Index(2) ELSE {}
      OBVIOUS
    <2>2. {} \in SUBSET Index(pl) /\ T \in SUBSET Index(pl)
      BY <2>1
    <2>3. frames[pl] = Holding(num(pl), {}) /\ tozero[pl] = Holding(num(pl), T)
      BY <1>1, <2>1 DEF Index
    <2>4. Bits(num(pl), Holding(num(pl), {})) = {} /\ Bits(num(pl), Holding(num(pl), T)) = T
      BY <2>2, HoldingBits
    <2>5. FrBits(pl) = {} /\ TzBits(pl) = T
      BY <2>3, <2>4 DEF FrBits, TzBits
    <2> QED BY <2>1, <2>3, <2>5
  <1>3. Exact(frames) /\ Exact(tozero)
    BY <1>1, <1>2 DEF Exact, FrBits, TzBits
  <1>4. FmTypes
    BY <1>1, <1>3, IdleIs DEF FmTypes
  <1>5. \A c \in FmCpu : op[c] = Idle /\ op[c].pc = "idle"
    BY <1>1, IdleIs
  <1>6. \A c \in FmCpu : CallOk(c) /\ Busy(c) = {}
    BY <1>5 DEF CallOk, Asking, Busy
  <1>7. PICK w : w = [i \in Small |-> InTozero(2)]
    OBVIOUS
  <1>8. w \in [Small -> Place]
    BY <1>1, <1>7, PlacesApart
  <1>9. ASSUME NEW i \in Small PROVE Located(w, i)
    <2>1. w[i] = InTozero(2) /\ owned[i] = 0
      BY <1>1, <1>7, Positive DEF Small
    <2>2. Of(2, i) \in Index(2)
      BY <1>1, OfIs
    <2>3. \A pl \in PL : Of(pl, i) \in TzBits(pl) <=> w[i] = InTozero(pl)
      BY <1>1, <1>2, <2>1, <2>2, PlacesApart DEF PL
    <2>4. \A pl \in PL : Of(pl, i) \in FrBits(pl) <=> w[i] = InFrames(pl)
      BY <1>1, <1>2, <2>1, PlacesApart
    <2>5. \A c \in FmCpu : i \in Busy(c) <=> w[i] = With(c)
      BY <1>1, <1>6, <2>1, PlacesApart
    <2>6. w[i] # Owner
      BY <1>1, <2>1, PlacesApart
    <2> QED BY <2>1, <2>3, <2>4, <2>5, <2>6 DEF Located
  <1>10. Accounts(w)
    BY <1>8, <1>9 DEF Accounts
  <1>11. AllZeroed /\ NoFullBlock
    <2>1. ASSUME NEW k \in Index(2) PROVE Parts(2, k) # {}
      BY <2>1, BlockStart
    <2> QED BY <1>1, <1>2, <2>1 DEF AllZeroed, NoFullBlock
  <1>12. OutOfMemoryTrue
    BY <1>1 DEF OutOfMemoryTrue
  <1> QED BY <1>4, <1>6, <1>10, <1>11, <1>12 DEF FmInv

(* One place is one of the four ways a frame can be accounted for.         *)
LEMMA OnePlace ==
  ASSUME NEW w, NEW i \in Small, w[i] \in Place, Located(w, i)
  PROVE  owned[i] + Cardinality({pl \in PL : i \in Free(frames, pl)})
                  + Cardinality({pl \in PL : i \in Free(tozero, pl)})
                  + Cardinality({c \in FmCpu : i \in Busy(c)}) = 1
  <1>1. PICK X, Y, Z : /\ X = {pl \in PL : i \in Free(frames, pl)} /\ Y = {pl \in PL : i \in Free(tozero, pl)}
                       /\ Z = {c \in FmCpu : i \in Busy(c)}
    OBVIOUS
  <1>2. /\ X = {pl \in PL : w[i] = InFrames(pl)} /\ Y = {pl \in PL : w[i] = InTozero(pl)}
        /\ Z = {c \in FmCpu : w[i] = With(c)}
    BY <1>1, FreeIs DEF Located, FrBits, TzBits
  <1>3. owned[i] = IF w[i] = Owner THEN 1 ELSE 0
    BY DEF Located
  <1>4. Cardinality({}) = 0 /\ \A x : Cardinality({x}) = 1
    BY FS_EmptySet, FS_Singleton
  <1>5. \/ w[i] = Owner \/ (\E pl \in PL : w[i] = InFrames(pl) \/ w[i] = InTozero(pl))
        \/ \E c \in FmCpu : w[i] = With(c)
    BY DEF Place, Owner, InFrames, InTozero, With
  <1>6. w[i] = Owner => owned[i] = 1 /\ X = {} /\ Y = {} /\ Z = {}
    <2>1. w[i] = Owner => X = {} /\ Y = {} /\ Z = {}
      BY <1>2, PlacesApart
    <2> QED BY <1>3, <2>1
  <1>7. ASSUME NEW pl \in PL, w[i] = InFrames(pl)
        PROVE  owned[i] = 0 /\ X = {pl} /\ Y = {} /\ Z = {}
    <2>1. w[i] # Owner /\ X = {pl} /\ Y = {} /\ Z = {}
      BY <1>2, <1>7, PlacesApart
    <2> QED BY <1>3, <2>1
  <1>8. ASSUME NEW pl \in PL, w[i] = InTozero(pl)
        PROVE  owned[i] = 0 /\ X = {} /\ Y = {pl} /\ Z = {}
    <2>1. w[i] # Owner /\ X = {} /\ Y = {pl} /\ Z = {}
      BY <1>2, <1>8, PlacesApart
    <2> QED BY <1>3, <2>1
  <1>9. ASSUME NEW c \in FmCpu, w[i] = With(c)
        PROVE  owned[i] = 0 /\ X = {} /\ Y = {} /\ Z = {c}
    <2>1. w[i] # Owner /\ X = {} /\ Y = {} /\ Z = {c}
      BY <1>2, <1>9, PlacesApart
    <2> QED BY <1>3, <2>1
  <1>10. PICK x, y, z, u : x = Cardinality(X) /\ y = Cardinality(Y) /\ z = Cardinality(Z) /\ u = owned[i]
    OBVIOUS
  <1>11. \/ u = 1 /\ x = 0 /\ y = 0 /\ z = 0
         \/ u = 0 /\ x = 1 /\ y = 0 /\ z = 0
         \/ u = 0 /\ x = 0 /\ y = 1 /\ z = 0
         \/ u = 0 /\ x = 0 /\ y = 0 /\ z = 1
    BY <1>4, <1>5, <1>6, <1>7, <1>8, <1>9, <1>10, Zenon
  <1>12. u + x + y + z = 1
    BY <1>11
  <1> QED BY <1>1, <1>10, <1>12

LEMMA FmInvSound ==
  ASSUME BitmapsWork, FmInv
  PROVE  FrameManagerSound
  <1>1. FmTypes /\ AllZeroed /\ OutOfMemoryTrue /\ Exact(frames) /\ Exact(tozero)
        /\ DOMAIN frames = PL /\ DOMAIN tozero = PL
    BY DEF FmInv, FmTypes, Exact
  <1>2. FramesAccounted
    <2>1. PICK w : Accounts(w)
      BY DEF FmInv
    <2>2. \A i \in Small : w[i] \in Place /\ Located(w, i)
      BY <2>1 DEF Accounts
    <2>3. \A i \in Small :
            owned[i] + Cardinality({pl \in PL : i \in Free(frames, pl)})
                     + Cardinality({pl \in PL : i \in Free(tozero, pl)})
                     + Cardinality({c \in FmCpu : i \in Busy(c)}) = 1
      BY <2>2, OnePlace
    <2>4. \A i \in DOMAIN owned \ Small : owned[i] = 0
      BY <1>1 DEF FmTypes
    <2>5. PICK free, dirty : free = [pl \in PL |-> Free(frames, pl)] /\ dirty = [pl \in PL |-> Free(tozero, pl)]
      OBVIOUS
    <2>6. \A i \in Small : /\ {pl \in PL : i \in free[pl]} = {pl \in PL : i \in Free(frames, pl)}
                           /\ {pl \in PL : i \in dirty[pl]} = {pl \in PL : i \in Free(tozero, pl)}
      BY <2>5
    <2>7. \A i \in DOMAIN owned \cap Small :
            owned[i] + Cardinality({pl \in PL : i \in free[pl]}) + Cardinality({pl \in PL : i \in dirty[pl]})
                     + Cardinality({c \in FmCpu : i \in Busy(c)}) = 1
      BY <2>3, <2>6, Zenon
    <2> QED BY <2>4, <2>5, <2>7 DEF FramesAccounted
  <1>3. FreeIsZeroed
    BY <1>1, FreeIs DEF AllZeroed, FreeIsZeroed, FrBits
  <1>4. BitmapsExact
    <2> SUFFICES ASSUME NEW m \in Bitmaps
                 PROVE  /\ m[2] = Holding(m[1], Bits(m[1], m[2]))
                        /\ FindFirst(m[1], m[2]) =
                             (IF Bits(m[1], m[2]) = {} THEN NotFound ELSE Min(Bits(m[1], m[2])))
                        /\ \A i \in 0 .. m[1] - 1 :
                             {j \in Bits(m[1], m[2]) : j > i} # {}
                               => FindAfter(m[1], m[2], i, TRUE) = Min({j \in Bits(m[1], m[2]) : j > i})
                        /\ Bits(m[1], m[2]) # {} => FindRev(m[1], m[2]) = Max(Bits(m[1], m[2]))
      BY Zenon DEF BitmapsExact
    <2>1. PICK pl \in PL : m = <<num(pl), frames[pl]>> \/ m = <<num(pl), tozero[pl]>>
      BY <1>1 DEF Bitmaps
    <2>2. PICK maps : Exact(maps) /\ m = <<num(pl), maps[pl]>>
      BY <1>1, <2>1
    <2>3. PICK n, bm, bits : n = m[1] /\ bm = m[2] /\ bits = Bits(m[1], m[2])
      OBVIOUS
    <2>4. n = num(pl) /\ bm = maps[pl]
      BY <2>2, <2>3
    <2>5. bm = Holding(n, bits)
      BY <2>2, <2>3, <2>4 DEF Exact
    <2>6. BitmapContract(n) /\ bits \in SUBSET (0 .. n - 1)
      BY <2>3, <2>4, BitsIn DEF BitmapsWork, Index
    <2>7. /\ FindFirst(n, Holding(n, bits)) = (IF bits = {} THEN NotFound ELSE Min(bits))
          /\ \A i \in 0 .. n - 1 :
               {j \in bits : j > i} # {} => FindAfter(n, Holding(n, bits), i, TRUE) = Min({j \in bits : j > i})
          /\ bits # {} => FindRev(n, Holding(n, bits)) = Max(bits)
      BY <2>6, Zenon DEF BitmapContract
    <2> QED BY <2>3, <2>5, <2>7, Zenon
  <1> QED BY <1>1, <1>2, <1>3, <1>4 DEF FrameManagerSound

(* Before init there is nothing to account for.                            *)
LEMMA FmInitSound == FmInit => FrameManagerSound
  <1> SUFFICES ASSUME FmInit PROVE FrameManagerSound
    OBVIOUS
  <1>1. DOMAIN frames = {} /\ DOMAIN tozero = {} /\ DOMAIN owned = {} /\ panic = "no"
    BY DEF FmInit
  <1>2. FramesAccounted
    BY <1>1 DEF FramesAccounted
  <1>3. FreeIsZeroed /\ OutOfMemoryTrue
    BY <1>1 DEF FreeIsZeroed, OutOfMemoryTrue
  <1>4. Bitmaps = {}
    BY <1>1 DEF Bitmaps
  <1>5. BitmapsExact
    BY <1>4 DEF BitmapsExact
  <1> QED BY <1>2, <1>3, <1>5 DEF FrameManagerSound

(* The frames stay accounted for, zeroed when free, and exactly recorded,  *)
(* whatever the size of memory and the number of CPUs that allocate,       *)
(* release, zero and ask for regions, provided that the bitmaps keep their *)
(* contract (FrameManager.h init, alloc, release, zero, allocRegion).      *)
THEOREM FramesStaySound ==
  ASSUME BitmapsWork
  PROVE  FmSpec => []FrameManagerSound
  <1>1. FmFresh => FmInv
    BY FmStarts
  <1>2. FmFresh' => FmInv'
    BY <1>1, PTL
  <1>3. FmInit /\ [FmNext]_fmVars => FmInit' \/ FmInv'
    <2> SUFFICES ASSUME FmInit, [FmNext]_fmVars PROVE FmInit' \/ FmFresh'
      BY <1>2
    <2>1. frames = <<>> /\ panic = "no"
      BY DEF FmInit
    <2>2. CASE UNCHANGED fmVars
      BY <2>2 DEF FmInit, fmVars
    <2>3. CASE FrameManagerInit
      BY <2>3 DEF FmInit, FrameManagerInit, FmFresh
    <2> QED BY <2>1, <2>2, <2>3 DEF FmNext, Reboot
  <1>4. FmInv /\ [FmNext]_fmVars => FmInv'
    <2> SUFFICES ASSUME FmInv, [FmNext]_fmVars PROVE FmInv'
      OBVIOUS
    <2>1. CASE UNCHANGED fmVars \/ Reboot
      BY <2>1, FmStutter DEF Reboot
    <2>2. ASSUME panic = "no", NEW c \in FmCpu,
                 \/ \E pl \in PL : Alloc(c, pl)
                 \/ AllocFound(c) \/ AllocZero(c) \/ AllocSplit(c) \/ OutOfMemory(c)
                 \/ ZeroMemory(c) \/ ZeroMemoryLarge(c) \/ ZeroDone(c)
                 \/ \E i \in Small : \E n \in 1 .. N - i : Release(c, i, n)
                 \/ ReleaseStep(c)
                 \/ \E n \in RegionSizes, lim \in Limits : AllocRegion(c, n, lim) \/ AllocRegionSplit(c, n, lim)
          PROVE  FmInv'
      BY <2>2, AllocStep, FoundStep, AllocZeroStep, SplitStep, OutOfMemoryStep, ZeroMemoryStep, ZeroDoneStep,
         ReleaseStarts, ReleaseGoesOn, RegionStep, RegionSplitStep, Zenon
    <2>3. ~ FrameManagerInit
      <3>1. DOMAIN frames = PL /\ 1 \in PL
        BY DEF FmInv, FmTypes, Exact, PL
      <3> QED BY <3>1 DEF FrameManagerInit
    <2> QED BY <2>1, <2>2, <2>3 DEF FmNext
  <1>5. FmInit => FrameManagerSound
    BY FmInitSound
  <1>6. FmInv => FrameManagerSound
    BY FmInvSound
  <1> QED BY <1>3, <1>4, <1>5, <1>6, PTL DEF FmSpec
=============================================================================
