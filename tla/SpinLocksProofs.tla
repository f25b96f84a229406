-------------------------- MODULE SpinLocksProofs ---------------------------
(***************************************************************************)
(* Proofs about SpinLocks: whatever the number of CPUs, one holder at a    *)
(* time for each of the three kinds of spin locks, no handler on top of    *)
(* the thread that holds the lock, and an interrupt flag that agrees with  *)
(* the lock count wherever the code asserts it.  Then about Gdb: the turns *)
(* of its stub are taken one after the other.  Then about IoAccess: what   *)
(* the readers of one descriptor get.  Then about GdbLine: what gdb asks   *)
(* for over a line that garbles frames is done once.  Last about Keyboard: *)
(* the bytes on the wire, replayed, give what the user means.              *)
(***************************************************************************)
EXTENDS SpinLocks, Gdb, GdbLine, IoAccess, Keyboard, SequenceTheorems, FiniteSetTheorems, TLAPS

(* The part of the invariant that concerns one CPU.                        *)
CpuInv(c) == CountInv(c) /\ FlagInv(c) /\ HolderInv(c)

-----------------------------------------------------------------------------
(* A CPU that moves within its context changes nothing else of `at'.       *)
LEMMA Moved ==
  ASSUME SpinTypeOK, NEW c \in SpinCpu, NEW l \in Position, Go(c, l), UNCHANGED ctx
  PROVE  /\ at' \in [SpinCpu -> [Ctx -> Position]]
         /\ Pos(c)' = l
         /\ \A d \in SpinCpu : d # c => at'[d] = at[d] /\ Pos(d)' = Pos(d)
         /\ ctx[c] = "thread" => at'[c]["handler"] = at[c]["handler"]
         /\ ctx[c] = "handler" => at'[c]["thread"] = at[c]["thread"]
  BY DEF SpinTypeOK, Go, Pos, Ctx

(* The initial states satisfy the invariant.                               *)
LEMMA SpinInvInit == SpinInit => SpinInv
  <1> SUFFICES ASSUME SpinInit PROVE SpinInv
    OBVIOUS
  <1>0. /\ "out" \in Position /\ "acquire" \in {"acquire", "tryAcquire", "handOver"}
        /\ "thread" \in Ctx /\ -1 \in Int
    BY DEF Position, Ctx
  <1>1. SpinTypeOK
    BY <1>0 DEF SpinInit, SpinTypeOK
  <1>2. \A c \in SpinCpu : Pos(c) = "out" /\ ctx[c] = "thread" /\ lockCount[c] = 0 /\ IF_[c]
    BY DEF SpinInit, Pos, Ctx
  <1>3. lk.owner = NoOwner /\ lk.counter = 0 /\ lk.tail = 0
    BY DEF SpinInit
  <1>4. \A c \in SpinCpu : at[c]["handler"] = "out"
    BY DEF SpinInit, Ctx
  <1>5. ASSUME NEW c \in SpinCpu PROVE CountInv(c) /\ FlagInv(c) /\ HolderInv(c)
    BY <1>2, <1>3, <1>4, <1>5, SpinAssumption DEF CountInv, FlagInv, HolderInv, Entered
  <1>6. TicketInv
    BY <1>2 DEF TicketInv, Drawn
  <1> QED BY <1>1, <1>3, <1>5, <1>6 DEF SpinInv

(* What a step of another CPU may do to the lock does not concern a CPU    *)
(* that neither holds it nor takes it.                                     *)
LEMMA OthersKeep ==
  ASSUME SpinInv, NEW d \in SpinCpu, kind' = kind,
         at'[d] = at[d], op'[d] = op[d], ctx'[d] = ctx[d],
         lockCount'[d] = lockCount[d], IF_'[d] = IF_[d],
         \/ lk'.owner = lk.owner /\ lk'.counter = lk.counter
         \/ lk.owner # d /\ lk'.owner # d
  PROVE  CpuInv(d)'
  <1>1. CountInv(d) /\ FlagInv(d) /\ HolderInv(d)
    BY DEF SpinInv
  <1>2. Pos(d)' = Pos(d) /\ Op(d)' = Op(d) /\ Entered(d)' = Entered(d) /\ HandingOver(d)' = HandingOver(d)
    BY DEF Pos, Op, Entered, HandingOver
  <1>3. Nested(d)' = Nested(d)
    BY DEF Nested
  <1>4. CountInv(d)'
    BY <1>1, <1>2, <1>3 DEF CountInv
  <1>5. FlagInv(d)'
    BY <1>1, <1>2 DEF FlagInv
  <1>6. HolderInv(d)'
    BY <1>1, <1>2 DEF HolderInv
  <1> QED BY <1>4, <1>5, <1>6 DEF CpuInv

(* The summands of the lock count, across a step that stays in its context *)
(* and its call.                                                           *)
LEMMA Stays ==
  ASSUME SpinTypeOK, NEW c \in SpinCpu, UNCHANGED <<kind, ctx, op>>
  PROVE  /\ Op(c)' = Op(c) /\ Entered(c)' = Entered(c) /\ HandingOver(c)' = HandingOver(c)
         /\ lk'.owner = lk.owner /\ lk'.counter = lk.counter => Nested(c)' = Nested(c)
         /\ Entered(c) \in {0, 1} /\ HandingOver(c) \in {0, 1} /\ Nested(c) \in Nat
         /\ lockCount[c] \in Nat /\ ctx[c] \in {"thread", "handler"}
         /\ Entered(c) = 0 <=> ctx[c] = "thread"
  BY DEF SpinTypeOK, Op, Entered, HandingOver, Nested, Ctx

(* The types of what the acquisition and release of a lock change.         *)
LEMMA SpinTypeStep ==
  ASSUME SpinInv, [SpinNext]_spinVars
  PROVE  SpinTypeOK'
  <1>0. SpinTypeOK
    BY DEF SpinInv
  <1>1. CASE UNCHANGED spinVars
    BY <1>0, <1>1 DEF spinVars, SpinTypeOK
  <1>p. \A l \in {"out", "lock", "cli", "inc", "get", "wait", "cas", "in", "handOver", "in2", "unlock", "sti"} :
          l \in Position
    BY DEF Position
  <1>g. ASSUME NEW c \in SpinCpu, NEW l \in Position, Go(c, l)
        PROVE  at' \in [SpinCpu -> [Ctx -> Position]]
    BY <1>0, <1>g DEF Go, SpinTypeOK
  <1>k. ASSUME NEW c \in SpinCpu
        PROVE  /\ Pos(c) \in {"inc", "get", "unlock", "handOver"} \/ ctx[c] = "handler" =>
                    lockCount[c] + 1 \in Nat
               /\ Pos(c) \in {"unlock", "handOver"} => lockCount[c] - 1 \in Nat
               /\ ctx[c] = "handler" /\ Pos(c) = "out" => lockCount[c] - 1 \in Nat
               /\ Pos(c) = "in" /\ kind = "owner" => lk.owner = c /\ lk.counter - 1 \in Nat
               /\ Pos(c) = "in" /\ kind = "ticket" => lk.tail - 1 \in Nat
    <2>1. CountInv(c) /\ HolderInv(c) /\ TicketInv
      BY DEF SpinInv
    <2>2. Entered(c) \in Nat /\ Nested(c) \in Nat /\ lockCount[c] \in Nat /\ lk.counter \in Nat /\ lk.tail \in Nat
      BY <1>0 DEF Entered, Nested, SpinTypeOK
    <2>3. /\ Pos(c) \in {"unlock", "handOver"} => lockCount[c] > 0
          /\ ctx[c] = "handler" /\ Pos(c) = "out" => lockCount[c] > 0
      BY <2>1, <2>2 DEF CountInv, Entered
    <2>4. Pos(c) = "in" /\ kind = "owner" => lk.owner = c /\ lk.counter > 0
      BY <2>1 DEF HolderInv
    <2>5. Pos(c) = "in" /\ kind = "ticket" => lk.tail > 0
      <3> HAVE Pos(c) = "in" /\ kind = "ticket"
      <3>1. mine[c] = 0 /\ mine[c] < lk.tail
        BY <2>1 DEF TicketInv, Drawn
      <3> QED BY <2>2, <3>1
    <2> QED BY <2>2, <2>3, <2>4, <2>5
  <1>2. ASSUME NEW c \in SpinCpu,
               Interrupt(c) \/ (\E o \in {"acquire", "tryAcquire", "handOver"} : Begin(c, o)) \/ SpinStep(c)
        PROVE  SpinTypeOK'
    <2>r. /\ lk = [owner |-> lk.owner, counter |-> lk.counter, tail |-> lk.tail]
          /\ lk.owner \in SpinCpu \cup {NoOwner} /\ lk.counter \in Nat /\ lk.tail \in Nat
      BY <1>0 DEF SpinTypeOK
    <2>1. CASE SpinLock(c)
      BY <1>0, <1>p, <1>g, <1>k, <2>r, <2>1 DEF SpinLock, At, Pos, SpinTypeOK, cpuState
    <2>2. CASE DisableInterrupts(c)
      BY <1>0, <1>p, <1>g, <1>k, <2>r, <2>2 DEF DisableInterrupts, At, Pos, SpinTypeOK, cpuState
    <2>3. CASE EnableInterrupts(c)
      BY <1>0, <1>p, <1>g, <1>k, <2>r, <2>3 DEF EnableInterrupts, At, Pos, SpinTypeOK, cpuState
    <2>4. CASE GetSecond(c)
      BY <1>0, <1>p, <1>g, <1>k, <2>r, <2>4 DEF GetSecond, At, Pos, SpinTypeOK, cpuState
    <2>5. CASE Draw(c)
      <3>1. lk' \in [owner : SpinCpu \cup {NoOwner}, counter : Nat, tail : Nat]
        BY <2>r, <2>5 DEF Draw
      <3>2. mine' \in [SpinCpu -> Int]
        BY <1>0, <2>r, <2>5 DEF Draw, SpinTypeOK
      <3>3. at' \in [SpinCpu -> [Ctx -> Position]]
        BY <1>p, <1>g, <2>5 DEF Draw
      <3> QED BY <1>0, <3>1, <3>2, <3>3, <2>5 DEF Draw, SpinTypeOK, cpuState
    <2>6. CASE Served(c)
      BY <1>0, <1>p, <1>g, <1>k, <2>r, <2>6 DEF Served, At, Pos, SpinTypeOK, cpuState
    <2>7. CASE TryRead(c)
      BY <1>0, <1>p, <1>g, <1>k, <2>r, <2>7 DEF TryRead, At, Pos, SpinTypeOK, cpuState
    <2>8. CASE TrySwap(c)
      BY <1>0, <1>p, <1>g, <1>k, <2>r, <2>8 DEF TrySwap, At, Pos, SpinTypeOK, cpuState
    <2>9. CASE ReleaseSecond(c)
      BY <1>0, <1>p, <1>g, <1>k, <2>r, <2>9 DEF ReleaseSecond, At, Pos, SpinTypeOK, cpuState
    <2>10. CASE GetBinary(c)
      BY <1>0, <1>p, <1>g, <1>k, <2>r, <2>10 DEF GetBinary, At, Pos, SpinTypeOK, cpuState
    <2>11. CASE GetOwner(c)
      <3>1. lk' \in [owner : SpinCpu \cup {NoOwner}, counter : Nat, tail : Nat]
        <4>1. lk' = lk \/ lk' = [owner |-> c, counter |-> lk.counter + 1, tail |-> lk.tail]
          BY <2>r, <2>11 DEF GetOwner
        <4>2. lk \in [owner : SpinCpu \cup {NoOwner}, counter : Nat, tail : Nat]
          BY <1>0 DEF SpinTypeOK
        <4> QED BY <2>r, <4>1, <4>2
      <3>2. at' \in [SpinCpu -> [Ctx -> Position]]
        BY <1>p, <1>g, <2>11 DEF GetOwner
      <3> QED BY <1>0, <3>1, <3>2, <2>11 DEF GetOwner, SpinTypeOK, cpuState
    <2>12. CASE IncLockCount(c)
      BY <1>0, <1>p, <1>g, <1>k, <2>r, <2>12 DEF IncLockCount, At, Pos, SpinTypeOK, cpuState
    <2>13. CASE DecLockCount(c)
      BY <1>0, <1>p, <1>g, <1>k, <2>r, <2>13 DEF DecLockCount, At, Pos, SpinTypeOK, cpuState
    <2>14. CASE HandOver(c)
      BY <1>0, <1>p, <1>g, <1>k, <2>r, <2>14 DEF HandOver, At, Pos, SpinTypeOK, cpuState
    <2>15. CASE Interrupt(c)
      BY <1>0, <2>15 DEF Interrupt, SpinTypeOK, Ctx
    <2>16. CASE Return(c)
      BY <1>0, <1>k, <2>16 DEF Return, At, Pos, SpinTypeOK, Ctx
    <2>17. CASE \E o \in {"acquire", "tryAcquire", "handOver"} : Begin(c, o)
      BY <1>0, <1>p, <1>g, <2>17 DEF Begin, SpinTypeOK, cpuState
    <2>18. CASE SpinRelease(c)
      <3>1. Pos(c) = "in" /\ UNCHANGED <<kind, cpuState, op, lk2>> /\ at' \in [SpinCpu -> [Ctx -> Position]]
        BY <1>p, <1>g, <2>18 DEF SpinRelease, At, Pos
      <3>2. CASE kind = "binary" /\ lk' = [lk EXCEPT !.owner = NoOwner] /\ UNCHANGED mine
        BY <1>0, <2>r, <3>1, <3>2 DEF SpinTypeOK, cpuState
      <3>3. CASE kind = "owner" /\ lk' = ReleaseOwner /\ UNCHANGED mine
        BY <1>0, <1>k, <2>r, <3>1, <3>3 DEF SpinTypeOK, cpuState, ReleaseOwner
      <3>4. CASE kind = "ticket" /\ ServeNext
        <4>1. lk' \in [owner : SpinCpu \cup {NoOwner}, counter : Nat, tail : Nat]
          BY <1>k, <2>r, <3>1, <3>4 DEF ServeNext
        <4>2. mine' \in [SpinCpu -> Int]
          BY <1>0, <3>4 DEF ServeNext, SpinTypeOK
        <4> QED BY <1>0, <3>1, <4>1, <4>2 DEF SpinTypeOK, cpuState
      <3> QED BY <2>18, <3>2, <3>3, <3>4 DEF SpinRelease
    <2> QED BY <1>2, <2>1, <2>2, <2>3, <2>4, <2>5, <2>6, <2>7, <2>8, <2>9, <2>10, <2>11, <2>12, <2>13, <2>14, <2>15, <2>16, <2>17, <2>18 DEF SpinStep
  <1> QED BY <1>1, <1>2 DEF SpinNext

(* Every step of a CPU keeps count, flag and holder in step, for itself    *)
(* and for the others.                                                     *)
LEMMA CpuStep ==
  ASSUME SpinInv, SpinTypeOK', NEW c \in SpinCpu,
         Interrupt(c) \/ (\E o \in {"acquire", "tryAcquire", "handOver"} : Begin(c, o)) \/ SpinStep(c)
  PROVE  (lk.owner = NoOwner \/ kind # "owner" => lk.counter = 0)' /\ \A d \in SpinCpu : CpuInv(d)'
  <1>0. SpinTypeOK /\ (lk.owner = NoOwner \/ kind # "owner" => lk.counter = 0) /\ NoOwner # c
    BY SpinAssumption DEF SpinInv
  <1>1. CountInv(c) /\ FlagInv(c) /\ HolderInv(c)
    BY DEF SpinInv
  <1>2. /\ Entered(c) \in {0, 1} /\ HandingOver(c) \in {0, 1} /\ Nested(c) \in Nat
        /\ lockCount[c] \in Nat /\ ctx[c] \in {"thread", "handler"}
        /\ Entered(c) = 0 <=> ctx[c] = "thread"
        /\ kind = "owner" /\ lk.owner = c => Nested(c) = lk.counter
        /\ ~ (kind = "owner" /\ lk.owner = c) => Nested(c) = 0
        /\ HandingOver(c) = 1 <=> Op(c) = "handOver"
        /\ lk.counter \in Nat /\ kind \in {"binary", "owner", "ticket"}
    BY <1>0 DEF SpinTypeOK, Op, Entered, HandingOver, Nested, Ctx, Kind
  <1>p. \A l \in {"out", "lock", "cli", "inc", "get", "wait", "cas", "in", "handOver", "in2", "unlock", "sti"} :
          l \in Position
    BY DEF Position
  <1>m. ASSUME NEW l \in Position, Go(c, l), UNCHANGED <<kind, ctx, op>>,
               \A d \in SpinCpu : d # c => lockCount'[d] = lockCount[d] /\ IF_'[d] = IF_[d],
               \/ lk'.owner = lk.owner /\ lk'.counter = lk.counter
               \/ lk.owner \in {c, NoOwner} /\ lk'.owner \in {c, NoOwner}
        PROVE  /\ \A d \in SpinCpu : d # c => CpuInv(d)'
               /\ Pos(c)' = l /\ Op(c)' = Op(c) /\ Entered(c)' = Entered(c)
               /\ HandingOver(c)' = HandingOver(c)
               /\ ctx[c] = "thread" => at'[c]["handler"] = at[c]["handler"]
               /\ ctx[c] = "handler" => at'[c]["thread"] = at[c]["thread"]
               /\ lk'.owner = lk.owner /\ lk'.counter = lk.counter => Nested(c)' = Nested(c)
    <2>1. /\ Pos(c)' = l
          /\ \A d \in SpinCpu : d # c => at'[d] = at[d]
          /\ ctx[c] = "thread" => at'[c]["handler"] = at[c]["handler"]
          /\ ctx[c] = "handler" => at'[c]["thread"] = at[c]["thread"]
      BY <1>0, <1>m, Moved
    <2>2. Op(c)' = Op(c) /\ Entered(c)' = Entered(c) /\ HandingOver(c)' = HandingOver(c)
      BY <1>m DEF Op, Entered, HandingOver
    <2>3. ASSUME NEW d \in SpinCpu, d # c PROVE CpuInv(d)'
      BY <1>m, <2>1, <2>3, SpinAssumption, OthersKeep
    <2>4. lk'.owner = lk.owner /\ lk'.counter = lk.counter => Nested(c)' = Nested(c)
      BY <1>m DEF Nested
    <2> QED BY <2>1, <2>2, <2>3, <2>4
  <1>s. ASSUME kind' = kind, lk'.owner = lk.owner, lk'.counter = lk.counter, \A d \in SpinCpu : CpuInv(d)'
        PROVE  (lk.owner = NoOwner \/ kind # "owner" => lk.counter = 0)' /\ \A d \in SpinCpu : CpuInv(d)'
    BY <1>0, <1>s
  <1>3. CASE SpinLock(c)
    <2>1. /\ Pos(c) = "lock"
          /\ UNCHANGED <<kind, ctx, op>> /\ lk'.owner = lk.owner /\ lk'.counter = lk.counter
          /\ lockCount' = lockCount /\ IF_' = IF_
      BY <1>0, <1>3 DEF SpinLock, At, Pos, SpinTypeOK, cpuState
    <2>2. CASE lockCount[c] = 0
      <3>1. Go(c, "cli") /\ "cli" \in Position
        BY <1>p, <1>3, <2>1, <2>2 DEF SpinLock, At, Pos
      <3>2. Pos(c)' = "cli" /\ Op(c)' = Op(c) /\ Entered(c)' = Entered(c) /\ HandingOver(c)' = HandingOver(c)
        BY <1>m, <2>1, <3>1
      <3>3. /\ ctx[c] = "thread" => at'[c]["handler"] = at[c]["handler"]
            /\ ctx[c] = "handler" => at'[c]["thread"] = at[c]["thread"]
            /\ Nested(c)' = Nested(c)
            /\ \A d \in SpinCpu : d # c => CpuInv(d)'
        BY <1>m, <2>1, <3>1
      <3>4. CountInv(c)'
        BY <1>1, <1>2, <2>1, <2>2, <3>2, <3>3 DEF CountInv, FlagInv, HolderInv
      <3>5. FlagInv(c)'
        BY <1>1, <1>2, <2>1, <2>2, <3>2, <3>3 DEF CountInv, FlagInv, HolderInv
      <3>6. HolderInv(c)'
        BY <1>1, <1>2, <2>1, <2>2, <3>2, <3>3 DEF CountInv, FlagInv, HolderInv
      <3> QED BY <1>s, <2>1, <3>3, <3>4, <3>5, <3>6 DEF CpuInv
    <2>3. CASE lockCount[c] # 0
      <3>1. Go(c, "inc") /\ "inc" \in Position
        BY <1>p, <1>3, <2>1, <2>3 DEF SpinLock, At, Pos
      <3>2. Pos(c)' = "inc" /\ Op(c)' = Op(c) /\ Entered(c)' = Entered(c) /\ HandingOver(c)' = HandingOver(c)
        BY <1>m, <2>1, <3>1
      <3>3. /\ ctx[c] = "thread" => at'[c]["handler"] = at[c]["handler"]
            /\ ctx[c] = "handler" => at'[c]["thread"] = at[c]["thread"]
            /\ Nested(c)' = Nested(c)
            /\ \A d \in SpinCpu : d # c => CpuInv(d)'
        BY <1>m, <2>1, <3>1
      <3>4. CountInv(c)'
        BY <1>1, <1>2, <2>1, <2>3, <3>2, <3>3 DEF CountInv, FlagInv, HolderInv
      <3>5. FlagInv(c)'
        BY <1>1, <1>2, <2>1, <2>3, <3>2, <3>3 DEF CountInv, FlagInv, HolderInv
      <3>6. HolderInv(c)'
        BY <1>1, <1>2, <2>1, <2>3, <3>2, <3>3 DEF CountInv, FlagInv, HolderInv
      <3> QED BY <1>s, <2>1, <3>3, <3>4, <3>5, <3>6 DEF CpuInv
    <2> QED BY <1>s, <2>1, <2>2, <2>3
  <1>4. CASE DisableInterrupts(c)
    <2>1. /\ Pos(c) = "cli"
          /\ UNCHANGED <<kind, ctx, op>> /\ lk'.owner = lk.owner /\ lk'.counter = lk.counter
          /\ lockCount' = lockCount /\ IF_'[c] = FALSE
          /\ \A d \in SpinCpu : d # c => lockCount'[d] = lockCount[d] /\ IF_'[d] = IF_[d]
      BY <1>0, <1>4 DEF DisableInterrupts, At, Pos, SpinTypeOK, cpuState
    <2>2. CpuInv(c)' /\ \A d \in SpinCpu : d # c => CpuInv(d)'
      <3>1. Go(c, "inc") /\ "inc" \in Position
        BY <1>p, <1>4, <2>1 DEF DisableInterrupts, At, Pos
      <3>2. Pos(c)' = "inc" /\ Op(c)' = Op(c) /\ Entered(c)' = Entered(c) /\ HandingOver(c)' = HandingOver(c)
        BY <1>m, <2>1, <3>1
      <3>3. /\ ctx[c] = "thread" => at'[c]["handler"] = at[c]["handler"]
            /\ ctx[c] = "handler" => at'[c]["thread"] = at[c]["thread"]
            /\ Nested(c)' = Nested(c)
            /\ \A d \in SpinCpu : d # c => CpuInv(d)'
        BY <1>m, <2>1, <3>1
      <3>4. CountInv(c)'
        BY <1>1, <1>2, <2>1, <3>2, <3>3 DEF CountInv, FlagInv, HolderInv
      <3>5. FlagInv(c)'
        BY <1>1, <1>2, <2>1, <3>2, <3>3 DEF CountInv, FlagInv, HolderInv
      <3>6. HolderInv(c)'
        BY <1>1, <1>2, <2>1, <3>2, <3>3 DEF CountInv, FlagInv, HolderInv
      <3> QED BY <3>3, <3>4, <3>5, <3>6 DEF CpuInv
    <2> QED BY <1>s, <2>1, <2>2
  <1>5. CASE IncLockCount(c)
    <2>1. /\ Pos(c) = "inc"
          /\ UNCHANGED <<kind, ctx, op>> /\ lk'.owner = lk.owner /\ lk'.counter = lk.counter
          /\ lockCount'[c] = lockCount[c] + 1 /\ IF_' = IF_
          /\ \A d \in SpinCpu : d # c => lockCount'[d] = lockCount[d] /\ IF_'[d] = IF_[d]
      BY <1>0, <1>5 DEF IncLockCount, At, Pos, SpinTypeOK, cpuState
    <2>2. CpuInv(c)' /\ \A d \in SpinCpu : d # c => CpuInv(d)'
      <3>1. Go(c, "get") /\ "get" \in Position
        BY <1>p, <1>5, <2>1 DEF IncLockCount, At, Pos
      <3>2. Pos(c)' = "get" /\ Op(c)' = Op(c) /\ Entered(c)' = Entered(c) /\ HandingOver(c)' = HandingOver(c)
        BY <1>m, <2>1, <3>1
      <3>3. /\ ctx[c] = "thread" => at'[c]["handler"] = at[c]["handler"]
            /\ ctx[c] = "handler" => at'[c]["thread"] = at[c]["thread"]
            /\ Nested(c)' = Nested(c)
            /\ \A d \in SpinCpu : d # c => CpuInv(d)'
        BY <1>m, <2>1, <3>1
      <3>4. CountInv(c)'
        BY <1>1, <1>2, <2>1, <3>2, <3>3 DEF CountInv, FlagInv, HolderInv
      <3>5. FlagInv(c)'
        BY <1>1, <1>2, <2>1, <3>2, <3>3 DEF CountInv, FlagInv, HolderInv
      <3>6. HolderInv(c)'
        BY <1>1, <1>2, <2>1, <3>2, <3>3 DEF CountInv, FlagInv, HolderInv
      <3> QED BY <3>3, <3>4, <3>5, <3>6 DEF CpuInv
    <2> QED BY <1>s, <2>1, <2>2
  <1>6. CASE DecLockCount(c)
    <2>1. /\ Pos(c) = "unlock"
          /\ UNCHANGED <<kind, ctx, op>> /\ lk'.owner = lk.owner /\ lk'.counter = lk.counter
          /\ lockCount'[c] = lockCount[c] - 1 /\ IF_' = IF_
          /\ \A d \in SpinCpu : d # c => lockCount'[d] = lockCount[d] /\ IF_'[d] = IF_[d]
      BY <1>0, <1>6 DEF DecLockCount, At, Pos, SpinTypeOK, cpuState
    <2>2. CASE lockCount[c] = 1
      <3>1. Go(c, "sti") /\ "sti" \in Position
        BY <1>p, <1>6, <2>1, <2>2 DEF DecLockCount, At, Pos
      <3>2. Pos(c)' = "sti" /\ Op(c)' = Op(c) /\ Entered(c)' = Entered(c) /\ HandingOver(c)' = HandingOver(c)
        BY <1>m, <2>1, <3>1
      <3>3. /\ ctx[c] = "thread" => at'[c]["handler"] = at[c]["handler"]
            /\ ctx[c] = "handler" => at'[c]["thread"] = at[c]["thread"]
            /\ Nested(c)' = Nested(c)
            /\ \A d \in SpinCpu : d # c => CpuInv(d)'
        BY <1>m, <2>1, <3>1
      <3>4. CountInv(c)'
        BY <1>1, <1>2, <2>1, <2>2, <3>2, <3>3 DEF CountInv, FlagInv, HolderInv
      <3>5. FlagInv(c)'
        BY <1>1, <1>2, <2>1, <2>2, <3>2, <3>3 DEF CountInv, FlagInv, HolderInv
      <3>6. HolderInv(c)'
        BY <1>1, <1>2, <2>1, <2>2, <3>2, <3>3 DEF CountInv, FlagInv, HolderInv
      <3> QED BY <1>s, <2>1, <3>3, <3>4, <3>5, <3>6 DEF CpuInv
    <2>3. CASE lockCount[c] # 1 /\ kind = "owner" /\ lk.owner = c
      <3>1. Go(c, "in") /\ "in" \in Position
        BY <1>p, <1>6, <2>1, <2>3 DEF DecLockCount, At, Pos
      <3>2. Pos(c)' = "in" /\ Op(c)' = Op(c) /\ Entered(c)' = Entered(c) /\ HandingOver(c)' = HandingOver(c)
        BY <1>m, <2>1, <3>1
      <3>3. /\ ctx[c] = "thread" => at'[c]["handler"] = at[c]["handler"]
            /\ ctx[c] = "handler" => at'[c]["thread"] = at[c]["thread"]
            /\ Nested(c)' = Nested(c)
            /\ \A d \in SpinCpu : d # c => CpuInv(d)'
        BY <1>m, <2>1, <3>1
      <3>4. CountInv(c)'
        BY <1>1, <1>2, <2>1, <2>3, <3>2, <3>3 DEF CountInv, FlagInv, HolderInv
      <3>5. FlagInv(c)'
        BY <1>1, <1>2, <2>1, <2>3, <3>2, <3>3 DEF CountInv, FlagInv, HolderInv
      <3>6. HolderInv(c)'
        BY <1>1, <1>2, <2>1, <2>3, <3>2, <3>3 DEF CountInv, FlagInv, HolderInv
      <3> QED BY <1>s, <2>1, <3>3, <3>4, <3>5, <3>6 DEF CpuInv
    <2>4. CASE lockCount[c] # 1 /\ ~ (kind = "owner" /\ lk.owner = c)
      <3>1. Go(c, "out") /\ "out" \in Position
        BY <1>p, <1>6, <2>1, <2>4 DEF DecLockCount, At, Pos
      <3>2. Pos(c)' = "out" /\ Op(c)' = Op(c) /\ Entered(c)' = Entered(c) /\ HandingOver(c)' = HandingOver(c)
        BY <1>m, <2>1, <3>1
      <3>3. /\ ctx[c] = "thread" => at'[c]["handler"] = at[c]["handler"]
            /\ ctx[c] = "handler" => at'[c]["thread"] = at[c]["thread"]
            /\ Nested(c)' = Nested(c)
            /\ \A d \in SpinCpu : d # c => CpuInv(d)'
        BY <1>m, <2>1, <3>1
      <3>4. CountInv(c)'
        BY <1>1, <1>2, <2>1, <2>4, <3>2, <3>3 DEF CountInv, FlagInv, HolderInv
      <3>5. FlagInv(c)'
        BY <1>1, <1>2, <2>1, <2>4, <3>2, <3>3 DEF CountInv, FlagInv, HolderInv
      <3>6. HolderInv(c)'
        BY <1>1, <1>2, <2>1, <2>4, <3>2, <3>3 DEF CountInv, FlagInv, HolderInv
      <3> QED BY <1>s, <2>1, <3>3, <3>4, <3>5, <3>6 DEF CpuInv
    <2> QED BY <1>s, <2>1, <2>2, <2>3, <2>4
  <1>7. CASE EnableInterrupts(c)
    <2>1. /\ Pos(c) = "sti"
          /\ UNCHANGED <<kind, ctx, op>> /\ lk'.owner = lk.owner /\ lk'.counter = lk.counter
          /\ lockCount' = lockCount /\ IF_'[c] = TRUE
          /\ \A d \in SpinCpu : d # c => lockCount'[d] = lockCount[d] /\ IF_'[d] = IF_[d]
      BY <1>0, <1>7 DEF EnableInterrupts, At, Pos, SpinTypeOK, cpuState
    <2>2. CpuInv(c)' /\ \A d \in SpinCpu : d # c => CpuInv(d)'
      <3>1. Go(c, "out") /\ "out" \in Position
        BY <1>p, <1>7, <2>1 DEF EnableInterrupts, At, Pos
      <3>2. Pos(c)' = "out" /\ Op(c)' = Op(c) /\ Entered(c)' = Entered(c) /\ HandingOver(c)' = HandingOver(c)
        BY <1>m, <2>1, <3>1
      <3>3. /\ ctx[c] = "thread" => at'[c]["handler"] = at[c]["handler"]
            /\ ctx[c] = "handler" => at'[c]["thread"] = at[c]["thread"]
            /\ Nested(c)' = Nested(c)
            /\ \A d \in SpinCpu : d # c => CpuInv(d)'
        BY <1>m, <2>1, <3>1
      <3>4. CountInv(c)'
        BY <1>1, <1>2, <2>1, <3>2, <3>3 DEF CountInv, FlagInv, HolderInv
      <3>5. FlagInv(c)'
        BY <1>1, <1>2, <2>1, <3>2, <3>3 DEF CountInv, FlagInv, HolderInv
      <3>6. HolderInv(c)'
        BY <1>1, <1>2, <2>1, <3>2, <3>3 DEF CountInv, FlagInv, HolderInv
      <3> QED BY <3>3, <3>4, <3>5, <3>6 DEF CpuInv
    <2> QED BY <1>s, <2>1, <2>2
  <1>8. CASE GetSecond(c)
    <2>1. /\ Pos(c) = "get" /\ Op(c) = "handOver"
          /\ UNCHANGED <<kind, ctx, op>> /\ lk'.owner = lk.owner /\ lk'.counter = lk.counter
          /\ lockCount' = lockCount /\ IF_' = IF_
      BY <1>0, <1>8 DEF GetSecond, At, Pos, SpinTypeOK, cpuState
    <2>2. CpuInv(c)' /\ \A d \in SpinCpu : d # c => CpuInv(d)'
      <3>1. Go(c, "handOver") /\ "handOver" \in Position
        BY <1>p, <1>8, <2>1 DEF GetSecond, At, Pos
      <3>2. Pos(c)' = "handOver" /\ Op(c)' = Op(c) /\ Entered(c)' = Entered(c) /\ HandingOver(c)' = HandingOver(c)
        BY <1>m, <2>1, <3>1
      <3>3. /\ ctx[c] = "thread" => at'[c]["handler"] = at[c]["handler"]
            /\ ctx[c] = "handler" => at'[c]["thread"] = at[c]["thread"]
            /\ Nested(c)' = Nested(c)
            /\ \A d \in SpinCpu : d # c => CpuInv(d)'
        BY <1>m, <2>1, <3>1
      <3>4. CountInv(c)'
        BY <1>1, <1>2, <2>1, <3>2, <3>3 DEF CountInv, FlagInv, HolderInv
      <3>5. FlagInv(c)'
        BY <1>1, <1>2, <2>1, <3>2, <3>3 DEF CountInv, FlagInv, HolderInv
      <3>6. HolderInv(c)'
        BY <1>1, <1>2, <2>1, <3>2, <3>3 DEF CountInv, FlagInv, HolderInv
      <3> QED BY <3>3, <3>4, <3>5, <3>6 DEF CpuInv
    <2> QED BY <1>s, <2>1, <2>2
  <1>9. CASE Draw(c)
    <2>1. /\ Pos(c) = "get" /\ kind = "ticket" /\ Op(c) = "acquire"
          /\ UNCHANGED <<kind, ctx, op>> /\ lk'.owner = lk.owner /\ lk'.counter = lk.counter
          /\ lockCount' = lockCount /\ IF_' = IF_
      BY <1>0, <1>9 DEF Draw, At, Pos, SpinTypeOK, cpuState
    <2>2. CpuInv(c)' /\ \A d \in SpinCpu : d # c => CpuInv(d)'
      <3>1. Go(c, "wait") /\ "wait" \in Position
        BY <1>p, <1>9, <2>1 DEF Draw, At, Pos
      <3>2. Pos(c)' = "wait" /\ Op(c)' = Op(c) /\ Entered(c)' = Entered(c) /\ HandingOver(c)' = HandingOver(c)
        BY <1>m, <2>1, <3>1
      <3>3. /\ ctx[c] = "thread" => at'[c]["handler"] = at[c]["handler"]
            /\ ctx[c] = "handler" => at'[c]["thread"] = at[c]["thread"]
            /\ Nested(c)' = Nested(c)
            /\ \A d \in SpinCpu : d # c => CpuInv(d)'
        BY <1>m, <2>1, <3>1
      <3>4. CountInv(c)'
        BY <1>1, <1>2, <2>1, <3>2, <3>3 DEF CountInv, FlagInv, HolderInv
      <3>5. FlagInv(c)'
        BY <1>1, <1>2, <2>1, <3>2, <3>3 DEF CountInv, FlagInv, HolderInv
      <3>6. HolderInv(c)'
        BY <1>1, <1>2, <2>1, <3>2, <3>3 DEF CountInv, FlagInv, HolderInv
      <3> QED BY <3>3, <3>4, <3>5, <3>6 DEF CpuInv
    <2> QED BY <1>s, <2>1, <2>2
  <1>10. CASE Served(c)
    <2>1. /\ Pos(c) = "wait"
          /\ UNCHANGED <<kind, ctx, op>> /\ lk'.owner = lk.owner /\ lk'.counter = lk.counter
          /\ lockCount' = lockCount /\ IF_' = IF_
      BY <1>0, <1>10 DEF Served, At, Pos, SpinTypeOK, cpuState
    <2>2. CpuInv(c)' /\ \A d \in SpinCpu : d # c => CpuInv(d)'
      <3>1. Go(c, "in") /\ "in" \in Position
        BY <1>p, <1>10, <2>1 DEF Served, At, Pos
      <3>2. Pos(c)' = "in" /\ Op(c)' = Op(c) /\ Entered(c)' = Entered(c) /\ HandingOver(c)' = HandingOver(c)
        BY <1>m, <2>1, <3>1
      <3>3. /\ ctx[c] = "thread" => at'[c]["handler"] = at[c]["handler"]
            /\ ctx[c] = "handler" => at'[c]["thread"] = at[c]["thread"]
            /\ Nested(c)' = Nested(c)
            /\ \A d \in SpinCpu : d # c => CpuInv(d)'
        BY <1>m, <2>1, <3>1
      <3>4. CountInv(c)'
        BY <1>1, <1>2, <2>1, <3>2, <3>3 DEF CountInv, FlagInv, HolderInv
      <3>5. FlagInv(c)'
        BY <1>1, <1>2, <2>1, <3>2, <3>3 DEF CountInv, FlagInv, HolderInv
      <3>6. HolderInv(c)'
        BY <1>1, <1>2, <2>1, <3>2, <3>3 DEF CountInv, FlagInv, HolderInv
      <3> QED BY <3>3, <3>4, <3>5, <3>6 DEF CpuInv
    <2> QED BY <1>s, <2>1, <2>2
  <1>11. CASE TryRead(c)
    <2>1. /\ Pos(c) = "get" /\ kind = "ticket" /\ Op(c) = "tryAcquire"
          /\ UNCHANGED <<kind, ctx, op>> /\ lk'.owner = lk.owner /\ lk'.counter = lk.counter
          /\ lockCount' = lockCount /\ IF_' = IF_
      BY <1>0, <1>11 DEF TryRead, At, Pos, SpinTypeOK, cpuState
    <2>2. CpuInv(c)' /\ \A d \in SpinCpu : d # c => CpuInv(d)'
      <3>1. Go(c, "cas") /\ "cas" \in Position
        BY <1>p, <1>11, <2>1 DEF TryRead, At, Pos
      <3>2. Pos(c)' = "cas" /\ Op(c)' = Op(c) /\ Entered(c)' = Entered(c) /\ HandingOver(c)' = HandingOver(c)
        BY <1>m, <2>1, <3>1
      <3>3. /\ ctx[c] = "thread" => at'[c]["handler"] = at[c]["handler"]
            /\ ctx[c] = "handler" => at'[c]["thread"] = at[c]["thread"]
            /\ Nested(c)' = Nested(c)
            /\ \A d \in SpinCpu : d # c => CpuInv(d)'
        BY <1>m, <2>1, <3>1
      <3>4. CountInv(c)'
        BY <1>1, <1>2, <2>1, <3>2, <3>3 DEF CountInv, FlagInv, HolderInv
      <3>5. FlagInv(c)'
        BY <1>1, <1>2, <2>1, <3>2, <3>3 DEF CountInv, FlagInv, HolderInv
      <3>6. HolderInv(c)'
        BY <1>1, <1>2, <2>1, <3>2, <3>3 DEF CountInv, FlagInv, HolderInv
      <3> QED BY <3>3, <3>4, <3>5, <3>6 DEF CpuInv
    <2> QED BY <1>s, <2>1, <2>2
  <1>12. CASE TrySwap(c)
    <2>1. /\ Pos(c) = "cas"
          /\ UNCHANGED <<kind, ctx, op>> /\ lk'.owner = lk.owner /\ lk'.counter = lk.counter
          /\ lockCount' = lockCount /\ IF_' = IF_
      BY <1>0, <1>12 DEF TrySwap, At, Pos, SpinTypeOK, cpuState
    <2>2. CASE CasSucceeds(c)
      <3>1. Go(c, "in") /\ "in" \in Position
        BY <1>p, <1>12, <2>1, <2>2 DEF TrySwap, At, Pos
      <3>2. Pos(c)' = "in" /\ Op(c)' = Op(c) /\ Entered(c)' = Entered(c) /\ HandingOver(c)' = HandingOver(c)
        BY <1>m, <2>1, <3>1
      <3>3. /\ ctx[c] = "thread" => at'[c]["handler"] = at[c]["handler"]
            /\ ctx[c] = "handler" => at'[c]["thread"] = at[c]["thread"]
            /\ Nested(c)' = Nested(c)
            /\ \A d \in SpinCpu : d # c => CpuInv(d)'
        BY <1>m, <2>1, <3>1
      <3>4. CountInv(c)'
        BY <1>1, <1>2, <2>1, <2>2, <3>2, <3>3 DEF CountInv, FlagInv, HolderInv
      <3>5. FlagInv(c)'
        BY <1>1, <1>2, <2>1, <2>2, <3>2, <3>3 DEF CountInv, FlagInv, HolderInv
      <3>6. HolderInv(c)'
        BY <1>1, <1>2, <2>1, <2>2, <3>2, <3>3 DEF CountInv, FlagInv, HolderInv
      <3> QED BY <1>s, <2>1, <3>3, <3>4, <3>5, <3>6 DEF CpuInv
    <2>3. CASE ~ CasSucceeds(c)
      <3>1. Go(c, "unlock") /\ "unlock" \in Position
        BY <1>p, <1>12, <2>1, <2>3 DEF TrySwap, At, Pos
      <3>2. Pos(c)' = "unlock" /\ Op(c)' = Op(c) /\ Entered(c)' = Entered(c) /\ HandingOver(c)' = HandingOver(c)
        BY <1>m, <2>1, <3>1
      <3>3. /\ ctx[c] = "thread" => at'[c]["handler"] = at[c]["handler"]
            /\ ctx[c] = "handler" => at'[c]["thread"] = at[c]["thread"]
            /\ Nested(c)' = Nested(c)
            /\ \A d \in SpinCpu : d # c => CpuInv(d)'
        BY <1>m, <2>1, <3>1
      <3>4. CountInv(c)'
        BY <1>1, <1>2, <2>1, <2>3, <3>2, <3>3 DEF CountInv, FlagInv, HolderInv
      <3>5. FlagInv(c)'
        BY <1>1, <1>2, <2>1, <2>3, <3>2, <3>3 DEF CountInv, FlagInv, HolderInv
      <3>6. HolderInv(c)'
        BY <1>1, <1>2, <2>1, <2>3, <3>2, <3>3 DEF CountInv, FlagInv, HolderInv
      <3> QED BY <1>s, <2>1, <3>3, <3>4, <3>5, <3>6 DEF CpuInv
    <2> QED BY <1>s, <2>1, <2>2, <2>3
  <1>13. CASE ReleaseSecond(c)
    <2>1. /\ Pos(c) = "in2"
          /\ UNCHANGED <<kind, ctx, op>> /\ lk'.owner = lk.owner /\ lk'.counter = lk.counter
          /\ lockCount' = lockCount /\ IF_' = IF_
      BY <1>0, <1>13 DEF ReleaseSecond, At, Pos, SpinTypeOK, cpuState
    <2>2. CpuInv(c)' /\ \A d \in SpinCpu : d # c => CpuInv(d)'
      <3>1. Go(c, "unlock") /\ "unlock" \in Position
        BY <1>p, <1>13, <2>1 DEF ReleaseSecond, At, Pos
      <3>2. Pos(c)' = "unlock" /\ Op(c)' = Op(c) /\ Entered(c)' = Entered(c) /\ HandingOver(c)' = HandingOver(c)
        BY <1>m, <2>1, <3>1
      <3>3. /\ ctx[c] = "thread" => at'[c]["handler"] = at[c]["handler"]
            /\ ctx[c] = "handler" => at'[c]["thread"] = at[c]["thread"]
            /\ Nested(c)' = Nested(c)
            /\ \A d \in SpinCpu : d # c => CpuInv(d)'
        BY <1>m, <2>1, <3>1
      <3>4. CountInv(c)'
        BY <1>1, <1>2, <2>1, <3>2, <3>3 DEF CountInv, FlagInv, HolderInv
      <3>5. FlagInv(c)'
        BY <1>1, <1>2, <2>1, <3>2, <3>3 DEF CountInv, FlagInv, HolderInv
      <3>6. HolderInv(c)'
        BY <1>1, <1>2, <2>1, <3>2, <3>3 DEF CountInv, FlagInv, HolderInv
      <3> QED BY <3>3, <3>4, <3>5, <3>6 DEF CpuInv
    <2> QED BY <1>s, <2>1, <2>2
  <1>14. CASE GetBinary(c) /\ lk.owner = NoOwner
    <2>1. /\ Pos(c) = "get" /\ kind = "binary" /\ Op(c) # "handOver" /\ lk.owner = NoOwner
          /\ UNCHANGED <<kind, ctx, op, lockCount, IF_>>
          /\ lk'.owner = c /\ lk'.counter = lk.counter
      BY <1>0, <1>14 DEF GetBinary, At, Pos, SpinTypeOK, cpuState
    <2>2. Go(c, "in") /\ "in" \in Position
      BY <1>p, <1>14 DEF GetBinary
    <2>3. lk.owner \in {c, NoOwner} /\ lk'.owner \in {c, NoOwner}
      BY <1>1, <2>1 DEF HolderInv
    <2>4. Pos(c)' = "in" /\ Op(c)' = Op(c) /\ Entered(c)' = Entered(c) /\ HandingOver(c)' = HandingOver(c)
      BY <1>m, <2>1, <2>2, <2>3
    <2>5. /\ ctx[c] = "thread" => at'[c]["handler"] = at[c]["handler"]
          /\ ctx[c] = "handler" => at'[c]["thread"] = at[c]["thread"]
          /\ \A d \in SpinCpu : d # c => CpuInv(d)'
      BY <1>m, <2>1, <2>2, <2>3
    <2>6. /\ kind = "owner" /\ lk'.owner = c => Nested(c)' = lk'.counter
          /\ ~ (kind = "owner" /\ lk'.owner = c) => Nested(c)' = 0
      BY <2>1 DEF Nested
    <2>7. CountInv(c)'
      BY <1>0, <1>1, <1>2, <2>1, <2>4, <2>5, <2>6 DEF CountInv, FlagInv, HolderInv
    <2>8. FlagInv(c)'
      BY <1>0, <1>1, <1>2, <2>1, <2>4, <2>5, <2>6 DEF CountInv, FlagInv, HolderInv
    <2>9. HolderInv(c)'
      BY <1>0, <1>1, <1>2, <2>1, <2>4, <2>5, <2>6 DEF CountInv, FlagInv, HolderInv
    <2>10. lk'.owner = NoOwner \/ kind # "owner" => lk'.counter = 0
      BY <1>0, <1>1, <1>2, <2>1 DEF HolderInv
    <2> QED BY <2>1, <2>5, <2>7, <2>8, <2>9, <2>10 DEF CpuInv
  <1>15. CASE GetOwner(c) /\ lk.owner \in {NoOwner, c}
    <2>1. /\ Pos(c) = "get" /\ kind = "owner" /\ lk.owner \in {NoOwner, c}
          /\ UNCHANGED <<kind, ctx, op, lockCount, IF_>>
          /\ lk'.owner = c /\ lk'.counter = lk.counter + 1
      BY <1>0, <1>15 DEF GetOwner, At, Pos, SpinTypeOK, cpuState
    <2>2. Go(c, "in") /\ "in" \in Position
      BY <1>p, <1>15 DEF GetOwner
    <2>3. lk.owner \in {c, NoOwner} /\ lk'.owner \in {c, NoOwner}
      BY <1>1, <2>1 DEF HolderInv
    <2>4. Pos(c)' = "in" /\ Op(c)' = Op(c) /\ Entered(c)' = Entered(c) /\ HandingOver(c)' = HandingOver(c)
      BY <1>m, <2>1, <2>2, <2>3
    <2>5. /\ ctx[c] = "thread" => at'[c]["handler"] = at[c]["handler"]
          /\ ctx[c] = "handler" => at'[c]["thread"] = at[c]["thread"]
          /\ \A d \in SpinCpu : d # c => CpuInv(d)'
      BY <1>m, <2>1, <2>2, <2>3
    <2>6. /\ kind = "owner" /\ lk'.owner = c => Nested(c)' = lk'.counter
          /\ ~ (kind = "owner" /\ lk'.owner = c) => Nested(c)' = 0
      BY <2>1 DEF Nested
    <2>7. CountInv(c)'
      BY <1>0, <1>1, <1>2, <2>1, <2>4, <2>5, <2>6 DEF CountInv, FlagInv, HolderInv
    <2>8. FlagInv(c)'
      BY <1>0, <1>1, <1>2, <2>1, <2>4, <2>5, <2>6 DEF CountInv, FlagInv, HolderInv
    <2>9. HolderInv(c)'
      BY <1>0, <1>1, <1>2, <2>1, <2>4, <2>5, <2>6 DEF CountInv, FlagInv, HolderInv
    <2>10. lk'.owner = NoOwner \/ kind # "owner" => lk'.counter = 0
      BY <1>0, <1>1, <1>2, <2>1 DEF HolderInv
    <2> QED BY <2>1, <2>5, <2>7, <2>8, <2>9, <2>10 DEF CpuInv
  <1>16. CASE HandOver(c)
    <2>1. /\ Pos(c) = "handOver" /\ UNCHANGED <<kind, ctx, op>>
          /\ \A d \in SpinCpu : d # c => lockCount'[d] = lockCount[d] /\ IF_'[d] = IF_[d]
          /\ lockCount'[c] = lockCount[c] - 1 /\ (IF_'[c] <=> lockCount[c] = 1)
          /\ lk'.owner = NoOwner /\ lk'.counter = lk.counter
      BY <1>0, <1>16 DEF HandOver, At, Pos, SpinTypeOK
    <2>2. Go(c, "in2") /\ "in2" \in Position
      BY <1>p, <1>16 DEF HandOver
    <2>3. lk.owner \in {c, NoOwner} /\ lk'.owner \in {c, NoOwner}
      BY <1>1, <2>1 DEF HolderInv
    <2>4. Pos(c)' = "in2" /\ Op(c)' = Op(c) /\ Entered(c)' = Entered(c) /\ HandingOver(c)' = HandingOver(c)
      BY <1>m, <2>1, <2>2, <2>3
    <2>5. /\ ctx[c] = "thread" => at'[c]["handler"] = at[c]["handler"]
          /\ ctx[c] = "handler" => at'[c]["thread"] = at[c]["thread"]
          /\ \A d \in SpinCpu : d # c => CpuInv(d)'
      BY <1>m, <2>1, <2>2, <2>3
    <2>6. /\ kind = "owner" /\ lk'.owner = c => Nested(c)' = lk'.counter
          /\ ~ (kind = "owner" /\ lk'.owner = c) => Nested(c)' = 0
      BY <2>1 DEF Nested
    <2>7. CountInv(c)'
      BY <1>0, <1>1, <1>2, <2>1, <2>4, <2>5, <2>6 DEF CountInv, FlagInv, HolderInv
    <2>8. FlagInv(c)'
      BY <1>0, <1>1, <1>2, <2>1, <2>4, <2>5, <2>6 DEF CountInv, FlagInv, HolderInv
    <2>9. HolderInv(c)'
      BY <1>0, <1>1, <1>2, <2>1, <2>4, <2>5, <2>6 DEF CountInv, FlagInv, HolderInv
    <2>10. lk'.owner = NoOwner \/ kind # "owner" => lk'.counter = 0
      BY <1>0, <1>1, <1>2, <2>1 DEF HolderInv
    <2> QED BY <2>1, <2>5, <2>7, <2>8, <2>9, <2>10 DEF CpuInv
  <1>17. CASE SpinRelease(c) /\ kind = "binary"
    <2>1. /\ Pos(c) = "in" /\ kind = "binary"
          /\ UNCHANGED <<kind, ctx, op, lockCount, IF_>>
          /\ lk'.owner = NoOwner /\ lk'.counter = lk.counter
      BY <1>0, <1>17 DEF SpinRelease, At, Pos, SpinTypeOK, cpuState
    <2>2. Go(c, "unlock") /\ "unlock" \in Position
      BY <1>p, <1>17 DEF SpinRelease
    <2>3. lk.owner \in {c, NoOwner} /\ lk'.owner \in {c, NoOwner}
      BY <1>1, <2>1 DEF HolderInv
    <2>4. Pos(c)' = "unlock" /\ Op(c)' = Op(c) /\ Entered(c)' = Entered(c) /\ HandingOver(c)' = HandingOver(c)
      BY <1>m, <2>1, <2>2, <2>3
    <2>5. /\ ctx[c] = "thread" => at'[c]["handler"] = at[c]["handler"]
          /\ ctx[c] = "handler" => at'[c]["thread"] = at[c]["thread"]
          /\ \A d \in SpinCpu : d # c => CpuInv(d)'
      BY <1>m, <2>1, <2>2, <2>3
    <2>6. /\ kind = "owner" /\ lk'.owner = c => Nested(c)' = lk'.counter
          /\ ~ (kind = "owner" /\ lk'.owner = c) => Nested(c)' = 0
      BY <2>1 DEF Nested
    <2>7. CountInv(c)'
      BY <1>0, <1>1, <1>2, <2>1, <2>4, <2>5, <2>6 DEF CountInv, FlagInv, HolderInv
    <2>8. FlagInv(c)'
      BY <1>0, <1>1, <1>2, <2>1, <2>4, <2>5, <2>6 DEF CountInv, FlagInv, HolderInv
    <2>9. HolderInv(c)'
      BY <1>0, <1>1, <1>2, <2>1, <2>4, <2>5, <2>6 DEF CountInv, FlagInv, HolderInv
    <2>10. lk'.owner = NoOwner \/ kind # "owner" => lk'.counter = 0
      BY <1>0, <1>1, <1>2, <2>1 DEF HolderInv
    <2> QED BY <2>1, <2>5, <2>7, <2>8, <2>9, <2>10 DEF CpuInv
  <1>18. CASE SpinRelease(c) /\ kind = "owner"
    <2>1. /\ Pos(c) = "in" /\ kind = "owner"
          /\ UNCHANGED <<kind, ctx, op, lockCount, IF_>>
          /\ lk'.counter = lk.counter - 1 /\ lk'.owner = IF lk.counter = 1 THEN NoOwner ELSE lk.owner
      BY <1>0, <1>18 DEF SpinRelease, ReleaseOwner, At, Pos, SpinTypeOK, cpuState
    <2>2. Go(c, "unlock") /\ "unlock" \in Position
      BY <1>p, <1>18 DEF SpinRelease
    <2>3. lk.owner \in {c, NoOwner} /\ lk'.owner \in {c, NoOwner}
      BY <1>1, <2>1 DEF HolderInv
    <2>4. Pos(c)' = "unlock" /\ Op(c)' = Op(c) /\ Entered(c)' = Entered(c) /\ HandingOver(c)' = HandingOver(c)
      BY <1>m, <2>1, <2>2, <2>3
    <2>5. /\ ctx[c] = "thread" => at'[c]["handler"] = at[c]["handler"]
          /\ ctx[c] = "handler" => at'[c]["thread"] = at[c]["thread"]
          /\ \A d \in SpinCpu : d # c => CpuInv(d)'
      BY <1>m, <2>1, <2>2, <2>3
    <2>6. /\ kind = "owner" /\ lk'.owner = c => Nested(c)' = lk'.counter
          /\ ~ (kind = "owner" /\ lk'.owner = c) => Nested(c)' = 0
      BY <2>1 DEF Nested
    <2>7. CountInv(c)'
      BY <1>0, <1>1, <1>2, <2>1, <2>4, <2>5, <2>6 DEF CountInv, FlagInv, HolderInv
    <2>8. FlagInv(c)'
      BY <1>0, <1>1, <1>2, <2>1, <2>4, <2>5, <2>6 DEF CountInv, FlagInv, HolderInv
    <2>9. HolderInv(c)'
      BY <1>0, <1>1, <1>2, <2>1, <2>4, <2>5, <2>6 DEF CountInv, FlagInv, HolderInv
    <2>10. lk'.owner = NoOwner \/ kind # "owner" => lk'.counter = 0
      BY <1>0, <1>1, <1>2, <2>1 DEF HolderInv
    <2> QED BY <2>1, <2>5, <2>7, <2>8, <2>9, <2>10 DEF CpuInv
  <1>19. CASE GetBinary(c) /\ lk.owner # NoOwner
    <2>1. /\ Pos(c) = "get" /\ kind = "binary" /\ Op(c) = "tryAcquire"
          /\ UNCHANGED <<kind, ctx, op, lockCount, IF_>>
          /\ lk'.owner = lk.owner /\ lk'.counter = lk.counter
      BY <1>0, <1>19 DEF GetBinary, At, Pos, cpuState
    <2>2. Go(c, "unlock") /\ "unlock" \in Position
      BY <1>p, <1>19 DEF GetBinary
    <2>3. Pos(c)' = "unlock" /\ Op(c)' = Op(c) /\ Entered(c)' = Entered(c) /\ HandingOver(c)' = HandingOver(c)
      BY <1>m, <2>1, <2>2
    <2>4. /\ ctx[c] = "thread" => at'[c]["handler"] = at[c]["handler"]
          /\ ctx[c] = "handler" => at'[c]["thread"] = at[c]["thread"]
          /\ Nested(c)' = Nested(c)
          /\ \A d \in SpinCpu : d # c => CpuInv(d)'
      BY <1>m, <2>1, <2>2
    <2>5. CountInv(c)' /\ FlagInv(c)' /\ HolderInv(c)'
      BY <1>1, <1>2, <2>1, <2>3, <2>4 DEF CountInv, FlagInv, HolderInv
    <2> QED BY <1>s, <2>1, <2>4, <2>5 DEF CpuInv
  <1>20. CASE GetOwner(c) /\ lk.owner \notin {NoOwner, c}
    <2>1. /\ Pos(c) = "get" /\ kind = "owner" /\ Op(c) = "tryAcquire" /\ lk.owner # c
          /\ UNCHANGED <<kind, ctx, op, lockCount, IF_>>
          /\ lk'.owner = lk.owner /\ lk'.counter = lk.counter
      BY <1>0, <1>20 DEF GetOwner, At, Pos, cpuState
    <2>2. Go(c, "unlock") /\ "unlock" \in Position
      BY <1>p, <1>20 DEF GetOwner
    <2>3. Pos(c)' = "unlock" /\ Op(c)' = Op(c) /\ Entered(c)' = Entered(c) /\ HandingOver(c)' = HandingOver(c)
      BY <1>m, <2>1, <2>2
    <2>4. /\ ctx[c] = "thread" => at'[c]["handler"] = at[c]["handler"]
          /\ ctx[c] = "handler" => at'[c]["thread"] = at[c]["thread"]
          /\ Nested(c)' = Nested(c)
          /\ \A d \in SpinCpu : d # c => CpuInv(d)'
      BY <1>m, <2>1, <2>2
    <2>5. CountInv(c)' /\ FlagInv(c)' /\ HolderInv(c)'
      BY <1>1, <1>2, <2>1, <2>3, <2>4 DEF CountInv, FlagInv, HolderInv
    <2> QED BY <1>s, <2>1, <2>4, <2>5 DEF CpuInv
  <1>21. CASE SpinRelease(c) /\ kind = "ticket"
    <2>1. /\ Pos(c) = "in" /\ kind = "ticket"
          /\ UNCHANGED <<kind, ctx, op, lockCount, IF_>>
          /\ lk'.owner = lk.owner /\ lk'.counter = lk.counter
      BY <1>0, <1>21 DEF SpinRelease, ServeNext, At, Pos, SpinTypeOK, cpuState
    <2>2. Go(c, "unlock") /\ "unlock" \in Position
      BY <1>p, <1>21 DEF SpinRelease
    <2>3. Pos(c)' = "unlock" /\ Op(c)' = Op(c) /\ Entered(c)' = Entered(c) /\ HandingOver(c)' = HandingOver(c)
      BY <1>m, <2>1, <2>2
    <2>4. /\ ctx[c] = "thread" => at'[c]["handler"] = at[c]["handler"]
          /\ ctx[c] = "handler" => at'[c]["thread"] = at[c]["thread"]
          /\ Nested(c)' = Nested(c)
          /\ \A d \in SpinCpu : d # c => CpuInv(d)'
      BY <1>m, <2>1, <2>2
    <2>5. CountInv(c)' /\ FlagInv(c)' /\ HolderInv(c)'
      BY <1>1, <1>2, <2>1, <2>3, <2>4 DEF CountInv, FlagInv, HolderInv
    <2> QED BY <1>s, <2>1, <2>4, <2>5 DEF CpuInv
  <1>22. CASE Interrupt(c)
    <2>1. /\ ctx[c] = "thread" /\ IF_[c] /\ ctx'[c] = "handler" /\ ~ IF_'[c]
          /\ lockCount'[c] = lockCount[c] + 1 /\ UNCHANGED <<kind, at, op, lk>>
          /\ \A d \in SpinCpu : d # c =>
               ctx'[d] = ctx[d] /\ lockCount'[d] = lockCount[d] /\ IF_'[d] = IF_[d]
      BY <1>0, <1>22 DEF Interrupt, SpinTypeOK
    <2>2. Pos(c) \in {"out", "lock", "cli"} /\ lockCount[c] = 0 /\ at[c]["handler"] = "out"
      BY <1>1, <1>2, <2>1 DEF FlagInv, CountInv
    <2>3. ~ (kind = "owner" /\ lk.owner = c) /\ (Pos(c) # "out" => Op(c) # "handOver")
      BY <1>1, <1>2, <2>2 DEF CountInv, HolderInv
    <2>4. Pos(c)' = "out" /\ Entered(c)' = 1 /\ at'[c]["thread"] = Pos(c) /\ op'[c]["thread"] = Op(c)
      BY <2>1, <2>2 DEF Pos, Op, Entered
    <2>5. CountInv(c)' /\ FlagInv(c)' /\ HolderInv(c)'
      BY <1>1, <2>1, <2>2, <2>3, <2>4 DEF CountInv, FlagInv, HolderInv
    <2>6. \A d \in SpinCpu : d # c => CpuInv(d)'
      BY <2>1, OthersKeep
    <2> QED BY <1>s, <2>1, <2>5, <2>6 DEF CpuInv
  <1>23. CASE Return(c)
    <2>1. /\ ctx[c] = "handler" /\ Pos(c) = "out" /\ ctx'[c] = "thread" /\ IF_'[c]
          /\ lockCount'[c] = lockCount[c] - 1 /\ UNCHANGED <<kind, at, op, lk>>
          /\ \A d \in SpinCpu : d # c =>
               ctx'[d] = ctx[d] /\ lockCount'[d] = lockCount[d] /\ IF_'[d] = IF_[d]
      BY <1>0, <1>23 DEF Return, SpinTypeOK, At, Pos
    <2>2. lockCount'[c] = 0 /\ ~ (kind = "owner" /\ lk.owner = c)
      BY <1>1, <2>1 DEF CountInv, HolderInv, Entered
    <2>3. /\ Pos(c)' = at[c]["thread"] /\ Op(c)' = op[c]["thread"] /\ Entered(c)' = 0
          /\ Nested(c)' = 0 /\ at'[c]["handler"] = "out"
      BY <2>1, <2>2 DEF Pos, Op, Entered, Nested
    <2>4. \/ Pos(c)' = "out"
          \/ Pos(c)' \in {"lock", "cli"} /\ Op(c)' # "handOver" /\ HandingOver(c)' = 0
      BY <1>1, <2>1, <2>3 DEF FlagInv, HandingOver
    <2>a. CountInv(c)'
      BY <2>2, <2>3, <2>4 DEF CountInv
    <2>b. FlagInv(c)'
      BY <2>1, <2>2, <2>3, <2>4 DEF FlagInv
    <2>c. HolderInv(c)'
      BY <2>1, <2>2, <2>4 DEF HolderInv
    <2>5. CountInv(c)' /\ FlagInv(c)' /\ HolderInv(c)'
      BY <2>a, <2>b, <2>c
    <2>6. \A d \in SpinCpu : d # c => CpuInv(d)'
      BY <2>1, OthersKeep
    <2> QED BY <1>s, <2>1, <2>5, <2>6 DEF CpuInv
  <1>24. ASSUME NEW o \in {"acquire", "tryAcquire", "handOver"}, Begin(c, o)
        PROVE  (lk.owner = NoOwner \/ kind # "owner" => lk.counter = 0)' /\ \A d \in SpinCpu : CpuInv(d)'
    <2>1. /\ UNCHANGED <<kind, ctx, lockCount, IF_, lk>>
          /\ op'[c][ctx[c]] = o /\ \A d \in SpinCpu : d # c => op'[d] = op[d]
          /\ ctx[c] = "handler" => op'[c]["thread"] = op[c]["thread"]
          /\ Go(c, "lock") /\ "lock" \in Position
      BY <1>0, <1>2, <1>p, <1>24 DEF Begin, SpinTypeOK, cpuState, Ctx
    <2>2. /\ Pos(c)' = "lock"
          /\ \A d \in SpinCpu : d # c => at'[d] = at[d]
          /\ ctx[c] = "thread" => at'[c]["handler"] = at[c]["handler"]
          /\ ctx[c] = "handler" => at'[c]["thread"] = at[c]["thread"]
      BY <1>0, <2>1, Moved
    <2>3. /\ Op(c)' = o /\ Entered(c)' = Entered(c) /\ Nested(c)' = Nested(c)
          /\ HandingOver(c)' = IF o = "handOver" THEN 1 ELSE 0
      BY <2>1 DEF Op, Entered, Nested, HandingOver
    <2>4. \/ Pos(c) = "out" /\ o # "handOver"
          \/ Pos(c) = "in" /\ kind = "owner" /\ o # "handOver"
          \/ Pos(c) = "in" /\ kind = "binary" /\ o = "handOver"
      BY <1>24 DEF Begin, At, Pos
    <2>5. CountInv(c)'
      BY <1>1, <1>2, <2>1, <2>2, <2>3, <2>4 DEF CountInv, HolderInv
    <2>6. FlagInv(c)'
      BY <1>1, <1>2, <2>1, <2>2, <2>3, <2>4 DEF CountInv, FlagInv, HolderInv
    <2>7. HolderInv(c)'
      BY <1>1, <1>2, <2>1, <2>2, <2>3, <2>4 DEF CountInv, FlagInv, HolderInv
    <2>8. \A d \in SpinCpu : d # c => CpuInv(d)'
      BY <2>1, <2>2, OthersKeep
    <2> QED BY <1>s, <2>1, <2>5, <2>6, <2>7, <2>8 DEF CpuInv
  <1>x. SpinRelease(c) => kind \in {"binary", "owner", "ticket"}
    BY DEF SpinRelease
  <1> QED
    BY <1>3, <1>4, <1>5, <1>6, <1>7, <1>8, <1>9, <1>10, <1>11, <1>12, <1>13, <1>14, <1>15, <1>16, <1>17, <1>18, <1>19, <1>20, <1>21, <1>22, <1>23, <1>24, <1>x DEF SpinStep

(* Every step keeps tickets apart: a new one is the largest, and serving   *)
(* the next brings all of them nearer by one.                              *)
LEMMA TicketStep ==
  ASSUME SpinInv, SpinTypeOK', \A d \in SpinCpu : CpuInv(d)', NEW c \in SpinCpu,
         Interrupt(c) \/ (\E o \in {"acquire", "tryAcquire", "handOver"} : Begin(c, o)) \/ SpinStep(c)
  PROVE  TicketInv'
  <1>0. SpinTypeOK /\ TicketInv /\ HolderInv(c) /\ FlagInv(c)
    BY DEF SpinInv
  <1>k. kind' = kind
    BY DEF Interrupt, Begin, SpinStep, SpinLock, DisableInterrupts, IncLockCount, DecLockCount,
           EnableInterrupts, Return, GetBinary, GetOwner, GetSecond, HandOver, Draw, Served,
           TryRead, TrySwap, SpinRelease, ReleaseSecond
  <1>1. CASE kind # "ticket"
    <2>1. \A d \in SpinCpu : Pos(d)' # "cas"
      BY <1>1, <1>k DEF CpuInv, HolderInv
    <2> QED BY <1>1, <1>k, <2>1 DEF TicketInv, Drawn
  <1> SUFFICES ASSUME kind = "ticket" PROVE TicketInv'
    BY <1>1
  <1>n. \A d \in SpinCpu : mine[d] \in Int /\ lk.tail \in Nat
    BY <1>0 DEF SpinTypeOK
  <1>p. \A l \in {"out", "lock", "cli", "inc", "get", "wait", "cas", "in", "handOver", "in2", "unlock", "sti"} :
          l \in Position
    BY DEF Position
  <1>d. \A d \in SpinCpu : /\ Drawn(d) <=> Pos(d) \in {"wait", "in"}
                           /\ Drawn(d)' <=> Pos(d)' \in {"wait", "in"}
    BY <1>k DEF Drawn
  <1>q. ASSUME UNCHANGED mine, lk'.tail = lk.tail, Pos(c)' \notin {"wait", "in", "cas"},
               \A d \in SpinCpu : d # c => Pos(d)' = Pos(d)
        PROVE  TicketInv'
    BY <1>0, <1>d, <1>q DEF TicketInv
  <1>g. ASSUME NEW l \in Position, Go(c, l), UNCHANGED ctx
        PROVE  Pos(c)' = l /\ \A d \in SpinCpu : d # c => Pos(d)' = Pos(d)
    BY <1>0, <1>g, Moved
  <1>2. CASE \E l \in {"lock", "cli", "inc", "get", "sti", "out", "handOver", "in2", "unlock"} :
               Go(c, l) /\ UNCHANGED <<mine, ctx>> /\ lk'.tail = lk.tail
    <2>1. PICK l \in {"lock", "cli", "inc", "get", "sti", "out", "handOver", "in2", "unlock"} :
               Go(c, l) /\ UNCHANGED <<mine, ctx>> /\ lk'.tail = lk.tail
      BY <1>2
    <2>2. Pos(c)' = l /\ \A d \in SpinCpu : d # c => Pos(d)' = Pos(d)
      BY <1>p, <1>g, <2>1
    <2> QED BY <1>q, <2>1, <2>2
  <1>3. CASE Interrupt(c) \/ Return(c)
    <2>1. UNCHANGED <<mine, lk>> /\ \A d \in SpinCpu : d # c => Pos(d)' = Pos(d)
      BY <1>0, <1>3 DEF Interrupt, Return, Pos, SpinTypeOK
    <2>2. Pos(c)' \notin {"wait", "in", "cas"}
      <3>1. CASE Interrupt(c)
        BY <1>0, <3>1 DEF Interrupt, Pos, FlagInv, SpinTypeOK
      <3>2. CASE Return(c)
        BY <1>0, <3>2 DEF Return, Pos, FlagInv, SpinTypeOK
      <3> QED BY <1>3, <3>1, <3>2
    <2> QED BY <1>q, <2>1, <2>2
  <1>4. CASE Draw(c)
    <2>1. /\ Pos(c) = "get" /\ Pos(c)' = "wait" /\ \A d \in SpinCpu : d # c => Pos(d)' = Pos(d)
      BY <1>p, <1>g, <1>4 DEF Draw, At, Pos, cpuState
    <2>2. /\ mine'[c] = lk.tail /\ \A d \in SpinCpu : d # c => mine'[d] = mine[d]
          /\ lk'.tail = lk.tail + 1
      BY <1>0, <1>4 DEF Draw, SpinTypeOK
    <2> QED BY <1>0, <1>n, <1>d, <2>1, <2>2 DEF TicketInv
  <1>5. CASE Served(c)
    <2>1. /\ Pos(c) = "wait" /\ Pos(c)' = "in" /\ \A d \in SpinCpu : d # c => Pos(d)' = Pos(d)
          /\ mine[c] = 0 /\ UNCHANGED <<mine, lk>>
      BY <1>p, <1>g, <1>5 DEF Served, At, Pos, cpuState
    <2> QED BY <1>0, <1>n, <1>d, <2>1 DEF TicketInv
  <1>6. CASE TryRead(c)
    <2>1. /\ Pos(c) = "get" /\ Pos(c)' = "cas" /\ \A d \in SpinCpu : d # c => Pos(d)' = Pos(d)
      BY <1>p, <1>g, <1>6 DEF TryRead, At, Pos, cpuState
    <2>2. /\ mine'[c] = 0 /\ \A d \in SpinCpu : d # c => mine'[d] = mine[d]
          /\ lk' = lk
      BY <1>0, <1>6 DEF TryRead, SpinTypeOK
    <2> QED BY <1>0, <1>n, <1>d, <2>1, <2>2 DEF TicketInv
  <1>7. CASE TrySwap(c) /\ CasSucceeds(c)
    <2>1. /\ Pos(c) = "cas" /\ Pos(c)' = "in" /\ \A d \in SpinCpu : d # c => Pos(d)' = Pos(d)
          /\ mine' = mine
      BY <1>p, <1>g, <1>7 DEF TrySwap, At, Pos, cpuState
    <2>2. lk.tail = mine[c] /\ lk'.tail = lk.tail + 1
      BY <1>0, <1>7 DEF TrySwap, CasSucceeds, SpinTypeOK
    <2>3. mine[c] = 0
      BY <1>0, <1>n, <2>1, <2>2 DEF TicketInv
    <2>4. \A d \in SpinCpu : ~ Drawn(d)
      BY <1>0, <1>n, <2>2, <2>3 DEF TicketInv
    <2>5. \A d \in SpinCpu : d # c => Pos(d)' \notin {"wait", "in"}
      BY <1>d, <2>1, <2>4
    <2> QED BY <1>0, <1>n, <1>d, <2>1, <2>2, <2>3, <2>5 DEF TicketInv
  <1>8. CASE SpinRelease(c)
    <2>1. /\ Pos(c) = "in" /\ Pos(c)' = "unlock" /\ \A d \in SpinCpu : d # c => Pos(d)' = Pos(d)
      BY <1>p, <1>g, <1>8 DEF SpinRelease, At, Pos, cpuState
    <2>2. lk'.tail = lk.tail - 1 /\ \A d \in SpinCpu : mine'[d] = IF mine[d] < 0 THEN -1 ELSE mine[d] - 1
      BY <1>0, <1>8 DEF SpinRelease, ServeNext, SpinTypeOK
    <2>3. mine[c] = 0 /\ \A d \in SpinCpu : Drawn(d) /\ d # c => mine[d] > 0
      BY <1>0, <1>n, <1>d, <2>1 DEF TicketInv
    <2>4. \A d \in SpinCpu : Drawn(d)' => d # c /\ Drawn(d) /\ mine'[d] = mine[d] - 1 /\ Pos(d)' = "wait"
      BY <1>0, <1>n, <1>d, <2>1, <2>2, <2>3 DEF TicketInv
    <2>5. \A d \in SpinCpu : Pos(d)' = "cas" => mine'[d] <= 0
      BY <1>0, <1>n, <2>1, <2>2 DEF TicketInv
    <2>6. ASSUME NEW d \in SpinCpu, Drawn(d)' PROVE 0 <= mine'[d] /\ mine'[d] < lk'.tail /\ Pos(d)' # "in"
      BY <1>0, <1>n, <2>2, <2>3, <2>4, <2>6 DEF TicketInv
    <2>7. ASSUME NEW d \in SpinCpu, NEW e \in SpinCpu, Drawn(d)', Drawn(e)', d # e PROVE mine'[d] # mine'[e]
      BY <1>0, <1>n, <2>4, <2>7 DEF TicketInv
    <2> QED BY <2>5, <2>6, <2>7 DEF TicketInv
  <1>9. CASE TrySwap(c) /\ ~ CasSucceeds(c)
    BY <1>2, <1>9 DEF TrySwap, cpuState
  <1>10. CASE \E o \in {"acquire", "tryAcquire", "handOver"} : Begin(c, o)
    BY <1>2, <1>10 DEF Begin, cpuState
  <1>11. CASE SpinLock(c) \/ DisableInterrupts(c) \/ IncLockCount(c) \/ EnableInterrupts(c)
    BY <1>2, <1>11 DEF SpinLock, DisableInterrupts, IncLockCount, EnableInterrupts, cpuState
  <1>12. CASE DecLockCount(c)
    BY <1>2, <1>12 DEF DecLockCount
  <1>13. CASE GetSecond(c) \/ ReleaseSecond(c)
    BY <1>2, <1>13 DEF GetSecond, ReleaseSecond, cpuState
  <1>14. CASE HandOver(c)
    <2>1. lk'.tail = lk.tail
      BY <1>0, <1>14 DEF HandOver, SpinTypeOK
    <2> QED BY <1>2, <1>14, <2>1 DEF HandOver
  <1>15. ~ GetBinary(c) /\ ~ GetOwner(c)
    BY DEF GetBinary, GetOwner
  <1> QED
    BY <1>3, <1>4, <1>5, <1>6, <1>7, <1>8, <1>9, <1>10, <1>11, <1>12, <1>13, <1>14, <1>15 DEF SpinStep

-----------------------------------------------------------------------------
(* The invariant holds in every reachable state, fair or not.              *)
THEOREM SpinInvariance == SpinSpec => []SpinInv
  <1>1. SpinInv /\ [SpinNext]_spinVars => SpinInv'
    <2> SUFFICES ASSUME SpinInv, [SpinNext]_spinVars PROVE SpinInv'
      OBVIOUS
    <2>1. SpinTypeOK'
      BY SpinTypeStep
    <2>2. CASE UNCHANGED spinVars
      <3>1. \A c \in SpinCpu : CpuInv(c)'
        BY <2>2, OthersKeep DEF spinVars
      <3>2. TicketInv'
        BY <2>2 DEF spinVars, SpinInv, TicketInv, Drawn, Pos
      <3> QED BY <2>1, <2>2, <3>1, <3>2 DEF spinVars, SpinInv, CpuInv
    <2>3. ASSUME NEW c \in SpinCpu,
                 Interrupt(c) \/ (\E o \in {"acquire", "tryAcquire", "handOver"} : Begin(c, o)) \/ SpinStep(c)
          PROVE  SpinInv'
      <3>1. (lk.owner = NoOwner \/ kind # "owner" => lk.counter = 0)' /\ \A d \in SpinCpu : CpuInv(d)'
        BY <2>1, <2>3, CpuStep
      <3>2. TicketInv'
        BY <2>1, <2>3, <3>1, TicketStep
      <3> QED BY <2>1, <3>1, <3>2 DEF SpinInv, CpuInv
    <2> QED BY <2>2, <2>3 DEF SpinNext
  <1> QED
    BY SpinInvInit, <1>1, PTL DEF SpinSpec

(* For any number of CPUs: a spin lock has one holder at a time, whichever *)
(* of the three kinds it is, and interrupts are off exactly while the lock *)
(* count is positive wherever the code relies on it (SpinLock.h,           *)
(* Processor.h lock, unlock and checkLock).                                *)
THEOREM SpinLocksSound == SpinSpec => []SpinSound
  <1>1. SpinInv => SpinExclusive
    <2> SUFFICES ASSUME SpinInv, NEW c \in SpinCpu, NEW d \in SpinCpu, NEW x \in Ctx, NEW y \in Ctx,
                        Inside(c, x), Inside(d, y)
                 PROVE  c = d /\ x = y
      BY DEF SpinExclusive
    <2>1. ASSUME NEW e \in SpinCpu, NEW z \in Ctx, Inside(e, z)
          PROVE  z = ctx[e] /\ Pos(e) \in {"in", "handOver"} /\ HolderInv(e) /\ ctx[e] \in Ctx
      <3>1. SpinTypeOK /\ FlagInv(e) /\ HolderInv(e)
        BY DEF SpinInv
      <3>2. at[e][z] \in {"in", "handOver"} /\ ctx[e] \in {"thread", "handler"} /\ z \in {"thread", "handler"}
        BY <2>1, <3>1 DEF Inside, SpinTypeOK, Ctx
      <3>3. z = ctx[e]
        BY <3>1, <3>2 DEF FlagInv
      <3> QED BY <3>1, <3>2, <3>3 DEF Pos, Ctx
    <2>2. Pos(c) \in {"in", "handOver"} /\ Pos(d) \in {"in", "handOver"} /\ HolderInv(c) /\ HolderInv(d)
      BY <2>1
    <2>3. c = d
      <3>1. CASE kind # "ticket"
        BY <2>2, <3>1 DEF HolderInv
      <3>2. CASE kind = "ticket"
        <4>1. Pos(c) = "in" /\ Pos(d) = "in"
          BY <2>2, <3>2 DEF HolderInv
        <4> QED BY <3>2, <4>1 DEF SpinInv, TicketInv, Drawn
      <3> QED BY <3>1, <3>2
    <2> QED BY <2>1, <2>3
  <1>2. SpinInv => CountMatchesFlag
    <2> SUFFICES ASSUME SpinInv, NEW c \in SpinCpu
                 PROVE  /\ Pos(c) \in {"out", "in", "in2"} => IF_[c] = (lockCount[c] = 0)
                        /\ Pos(c) \in {"get", "wait", "cas", "unlock"} => ~ IF_[c]
      BY DEF CountMatchesFlag, At, Pos
    <2>1. CountInv(c) /\ FlagInv(c) /\ HolderInv(c) /\ SpinTypeOK
      BY DEF SpinInv
    <2>2. IF_[c] \in BOOLEAN /\ lockCount[c] \in Nat /\ Entered(c) \in {0, 1} /\ Nested(c) \in Nat
      BY <2>1 DEF SpinTypeOK, Entered, Nested
    <2>3. Pos(c) \in {"out", "in", "in2"} => (IF_[c] <=> lockCount[c] = 0)
      <3>1. CASE Pos(c) = "out"
        BY <2>1, <3>1 DEF CountInv, FlagInv, Entered, SpinTypeOK, Ctx
      <3>2. CASE Pos(c) \in {"in", "in2"}
        <4>1. lockCount[c] > 0
          BY <2>1, <2>2, <3>2 DEF CountInv, HolderInv, Nested
        <4> QED BY <2>1, <2>2, <3>2, <4>1 DEF FlagInv
      <3> QED BY <3>1, <3>2
    <2>4. Pos(c) \in {"get", "wait", "cas", "unlock"} => ~ IF_[c]
      BY <2>1 DEF FlagInv
    <2> QED BY <2>2, <2>3, <2>4
  <1> QED
    BY <1>1, <1>2, SpinInvariance, PTL DEF SpinSound

-----------------------------------------------------------------------------
(***************************************************************************)
(* The turns of the gdb stub, tickets of another kind (module Gdb).        *)
(***************************************************************************)
(* A CPU without a ticket leaves room for one more.                        *)
LEMMA RoomForTicket ==
  ASSUME TypeOK, TicketsInv, NEW c \in Cpu, place[c] < 0
  PROVE  tail < N
  <1>1. PICK f : f = [k \in 0 .. tail - 1 |-> CHOOSE d \in Cpu : place[d] = k]
    OBVIOUS
  <1>2. \A k \in 0 .. tail - 1 : f[k] \in Cpu /\ place[f[k]] = k
    BY <1>1 DEF TicketsInv
  <1>3. f \in [0 .. tail - 1 -> Cpu \ {c}]
    BY <1>1, <1>2
  <1>4. \A j, k \in 0 .. tail - 1 : f[j] = f[k] => j = k
    BY <1>2
  <1>5. tail \in Nat /\ N \in Nat /\ N # 0 /\ 0 - 1 < N
    BY GdbAssumption DEF TypeOK
  <1>6. IsFiniteSet(0 .. tail - 1) /\ Cardinality(0 .. tail - 1) = tail
    <2>1. IsFiniteSet(0 .. tail - 1) /\ Cardinality(0 .. tail - 1) = IF 0 > tail - 1 THEN 0 ELSE (tail - 1) - 0 + 1
      BY <1>5, FS_Interval
    <2> QED BY <1>5, <2>1
  <1>7. IsFiniteSet(Cpu) /\ Cardinality(Cpu) = N
    <2>1. IsFiniteSet(0 .. N - 1) /\ Cardinality(0 .. N - 1) = IF 0 > N - 1 THEN 0 ELSE (N - 1) - 0 + 1
      BY <1>5, FS_Interval
    <2> QED BY <1>5, <2>1 DEF Cpu
  <1>8. IsFiniteSet(Cpu \ {c}) /\ Cardinality(Cpu \ {c}) = N - 1
    BY <1>7, FS_RemoveElement
  <1>9. Cardinality(0 .. tail - 1) <= Cardinality(Cpu \ {c})
    <2>1. f \in Injection(0 .. tail - 1, Cpu \ {c})
      BY <1>3, <1>4 DEF Injection, IsInjective
    <2> QED BY <1>6, <1>8, <2>1, FS_Injection
  <1> QED BY <1>5, <1>6, <1>8, <1>9

LEMMA GdbInvInit == Init => GdbInv
  <1> SUFFICES ASSUME Init PROVE GdbInv
    OBVIOUS
  <1>0. N \in Nat /\ N # 0 /\ 0 \in Cpu /\ All \notin Cpu
    BY GdbAssumption DEF Cpu, All
  <1>1. TypeOK
    <2>1. pc \in [Cpu -> Labels] /\ state \in [Cpu -> {"Stopped", "Running"}]
      BY DEF Init, Labels
    <2>2. trap \in [Cpu -> BOOLEAN] /\ ipi \in [Cpu -> BOOLEAN] /\ tf \in [Cpu -> BOOLEAN] /\ affinity \in [Cpu -> BOOLEAN]
      BY DEF Init
    <2>3. place \in [Cpu -> -1 .. N] /\ tail \in 0 .. N /\ scan \in 0 .. N
      BY <1>0 DEF Init
    <2>4. vCont \in [action : {"none", "c", "s"}, tid : Cpu \cup {All}] /\ saved \in [cpu : Cpu \cup {All}, affinity : BOOLEAN]
      BY DEF Init, NoVCont, NoThread
    <2>5. allstop \in BOOLEAN
      BY Zenon DEF Init
    <2>6. hookBreak \in BOOLEAN
      BY Zenon DEF Init
    <2> QED BY <2>1, <2>2, <2>3, <2>4, <2>5, <2>6 DEF TypeOK
  <1>2. TicketsInv
    BY DEF Init, TicketsInv
  <1>3. TurnInv /\ PinInv
    BY DEF Init, TurnInv, PinInv
  <1>4. AffinityRestored
    BY <1>0 DEF Init, AffinityRestored, NoThread
  <1> QED BY <1>1, <1>2, <1>3, <1>4 DEF GdbInv

(* Tickets: a CPU takes one, or all of them move up.                       *)
LEMMA TakeKeeps ==
  ASSUME TypeOK, TicketsInv, NEW c \in Cpu, TakeTicket(c)
  PROVE  /\ place' \in [Cpu -> -1 .. N] /\ tail' \in 0 .. N /\ TicketsInv'
         /\ \A d \in Cpu : place[d] >= 0 => place'[d] = place[d]
  <1>0. /\ N \in Nat /\ tail \in Nat /\ tail <= N /\ place \in [Cpu -> -1 .. N]
        /\ \A d \in Cpu : place[d] \in Int /\ place[d] >= -1 /\ place[d] <= N
    BY GdbAssumption DEF TypeOK
  <1>1. CASE Old(c)
    <2>1. tail < N
      BY <1>1, RoomForTicket DEF Old
    <2>2. place' = [place EXCEPT ![c] = tail] /\ tail' = tail + 1
      BY <1>1 DEF TakeTicket
    <2>3. place'[c] = tail /\ \A d \in Cpu : d # c => place'[d] = place[d]
      BY <1>0, <2>2
    <2>4. \A d \in Cpu : place'[d] < tail'
      BY <1>0, <2>2, <2>3 DEF TicketsInv
    <2>5. \A d, e \in Cpu : place'[d] >= 0 /\ place'[d] = place'[e] => d = e
      BY <1>0, <2>3 DEF TicketsInv
    <2>6. \A k \in 0 .. tail' - 1 : \E d \in Cpu : place'[d] = k
      <3>1. ASSUME NEW k \in 0 .. tail' - 1, k # tail PROVE \E d \in Cpu : place'[d] = k
        <4>1. k \in 0 .. tail - 1
          BY <1>0, <2>2, <3>1
        <4>2. PICK d \in Cpu : place[d] = k
          BY <4>1 DEF TicketsInv
        <4>3. d # c
          BY <1>1, <4>1, <4>2 DEF Old
        <4> QED BY <2>3, <4>2, <4>3
      <3> QED BY <2>3, <3>1
    <2> QED BY <1>0, <1>1, <2>1, <2>2, <2>3, <2>4, <2>5, <2>6 DEF TicketsInv, Old
  <1>2. CASE ~ Old(c)
    <2>1. UNCHANGED <<place, tail>>
      BY <1>2 DEF TakeTicket, turn
    <2> QED BY <1>0, <2>1 DEF TicketsInv, TypeOK
  <1> QED BY <1>1, <1>2

LEMMA AdvanceKeeps ==
  ASSUME TypeOK, TicketsInv, NEW c \in Cpu, place[c] = 0, Advance
  PROVE  place' \in [Cpu -> -1 .. N] /\ tail' \in 0 .. N /\ TicketsInv'
  <1>0. /\ N \in Nat /\ tail \in Nat /\ tail <= N /\ tail > 0
        /\ \A d \in Cpu : place[d] \in Int /\ place[d] >= -1 /\ place[d] <= N /\ place[d] < tail
    BY GdbAssumption DEF TypeOK, TicketsInv
  <1>1. tail' = tail - 1 /\ \A d \in Cpu : place'[d] = IF place[d] < 0 THEN -1 ELSE place[d] - 1
    BY DEF Advance
  <1>2. place' \in [Cpu -> -1 .. N]
    <2>1. \A d \in Cpu : (IF place[d] < 0 THEN -1 ELSE place[d] - 1) \in -1 .. N
      BY <1>0
    <2> QED BY <2>1 DEF Advance
  <1>3. \A d \in Cpu : place'[d] < tail'
    BY <1>0, <1>1
  <1>4. \A d, e \in Cpu : place'[d] >= 0 /\ place'[d] = place'[e] => d = e
    <2>1. ASSUME NEW d \in Cpu, NEW e \in Cpu, place'[d] >= 0, place'[d] = place'[e] PROVE d = e
      <3>1. place[d] >= 0 /\ place[d] = place[e]
        BY <1>0, <1>1, <2>1
      <3> QED BY <3>1 DEF TicketsInv
    <2> QED BY <2>1
  <1>5. \A k \in 0 .. tail' - 1 : \E d \in Cpu : place'[d] = k
    <2>1. ASSUME NEW k \in 0 .. tail' - 1 PROVE \E d \in Cpu : place'[d] = k
      <3>1. k + 1 \in 0 .. tail - 1 /\ k \in Nat
        BY <1>0, <1>1, <2>1
      <3>2. PICK d \in Cpu : place[d] = k + 1
        BY <3>1 DEF TicketsInv
      <3> QED BY <1>1, <3>1, <3>2
    <2> QED BY <2>1
  <1> QED BY <1>0, <1>1, <1>2, <1>3, <1>4, <1>5 DEF TicketsInv

(* One step of a CPU.                                                      *)
LEMMA GdbStep ==
  ASSUME GdbInv, NEW c \in Cpu, Trap(c) \/ StopIPI(c) \/ Packet(c) \/ EndSession(c) \/ Stub(c)
  PROVE  GdbInv'
  <1>0. /\ TypeOK /\ TicketsInv /\ TurnInv /\ PinInv /\ AffinityRestored
        /\ N \in Nat /\ N # 0 /\ All \notin Cpu
    BY GdbAssumption DEF GdbInv, Cpu, All
  <1>t. /\ pc \in [Cpu -> Labels] /\ state \in [Cpu -> {"Stopped", "Running"}]
        /\ trap \in [Cpu -> BOOLEAN] /\ ipi \in [Cpu -> BOOLEAN] /\ tf \in [Cpu -> BOOLEAN]
        /\ place \in [Cpu -> -1 .. N] /\ tail \in 0 .. N /\ scan \in 0 .. N
        /\ vCont \in [action : {"none", "c", "s"}, tid : Cpu \cup {All}]
        /\ saved \in [cpu : Cpu \cup {All}, affinity : BOOLEAN] /\ affinity \in [Cpu -> BOOLEAN]
    BY <1>0 DEF TypeOK
  <1>b. (allstop \in BOOLEAN) /\ (hookBreak \in BOOLEAN)
    BY <1>0 DEF TypeOK
  <1>1. /\ pc' \in [Cpu -> Labels] /\ \A d \in Cpu : d # c => pc'[d] = pc[d]
    <2>1. \A l \in Labels : Goto(c, l) => pc' \in [Cpu -> Labels] /\ \A d \in Cpu : d # c => pc'[d] = pc[d]
      BY <1>t DEF Goto
    <2>2. (\E l \in Labels : Goto(c, l)) \/ pc' = pc
      BY DEF Trap, StopIPI, Packet, EndSession, Stub, Enter, Ticket, BeginStop, StopOne, AwaitOne, Report, Loop,
             TurnLeave, TurnPass, Leave, Labels
    <2> QED BY <1>t, <2>1, <2>2
  <1>2. /\ state' \in [Cpu -> {"Stopped", "Running"}]
    BY <1>t DEF Trap, StopIPI, Packet, EndSession, Stub, Enter, Ticket, BeginStop, StopOne, AwaitOne, Report, Loop,
             TurnLeave, TurnPass, Leave
  <1>3. /\ trap' \in [Cpu -> BOOLEAN] /\ ipi' \in [Cpu -> BOOLEAN] /\ tf' \in [Cpu -> BOOLEAN]
    <2>1. trap' = trap \/ trap' = [trap EXCEPT ![c] = TRUE] \/ trap' = [trap EXCEPT ![c] = FALSE]
      BY DEF Trap, StopIPI, Packet, EndSession, Stub, Enter, Ticket, BeginStop, StopOne, AwaitOne, Report, Loop,
             TurnLeave, TurnPass, Leave
    <2>2. ipi' = ipi \/ ipi' = [ipi EXCEPT ![c] = FALSE] \/ ipi' = [ipi EXCEPT ![scan] = TRUE]
      BY DEF Trap, StopIPI, Packet, EndSession, Stub, Enter, Ticket, BeginStop, StopOne, AwaitOne, Report, Loop,
             TurnLeave, TurnPass, Leave
    <2>3. tf' = tf \/ tf' = [tf EXCEPT ![c] = FALSE] \/ tf' = [tf EXCEPT ![c] = (vCont.action = "s")]
      BY DEF Trap, StopIPI, Packet, EndSession, Stub, Enter, Ticket, BeginStop, StopOne, AwaitOne, Report, Loop,
             TurnLeave, TurnPass, Leave
    <2> QED BY <1>t, <2>1, <2>2, <2>3
  <1>4. (allstop' \in BOOLEAN) /\ (hookBreak' \in BOOLEAN)
    <2>1. (allstop' = allstop \/ allstop' = TRUE) \/ allstop' = (allstop /\ vCont.action # "c")
      BY DEF Trap, StopIPI, Packet, EndSession, Stub, Enter, Ticket, BeginStop, StopOne, AwaitOne, Report, Loop,
             TurnLeave, TurnPass, Leave
    <2>2. allstop' \in BOOLEAN
      BY <1>b, <2>1
    <2>3. hookBreak' \in BOOLEAN \/ hookBreak' = hookBreak
      BY DEF Trap, StopIPI, Packet, EndSession, Resume, Stub, Enter, Ticket, BeginStop, StopOne, AwaitOne, Report,
             Loop, TurnLeave, TurnPass, Leave, session
    <2> QED BY <1>b, <2>2, <2>3
  <1>5. vCont' \in [action : {"none", "c", "s"}, tid : Cpu \cup {All}]
    BY <1>t DEF Trap, StopIPI, Packet, EndSession, Resume, Stub, Enter, Ticket, BeginStop, StopOne, AwaitOne,
         Report, Loop, TurnLeave, TurnPass, Leave, session, NoVCont
  <1>6. /\ place' \in [Cpu -> -1 .. N] /\ tail' \in 0 .. N /\ TicketsInv'
        /\ \/ UNCHANGED place
           \/ \A d \in Cpu : place[d] >= 0 => place'[d] = place[d]
           \/ place[c] = 0 /\ pc[c] = "turn2" /\ pc'[c] \in {"leave", "loop"}
    <2>1. CASE Ticket(c)
      BY <1>0, <2>1, TakeKeeps DEF Ticket
    <2>2. CASE TurnLeave(c) \/ TurnPass(c)
      <3>1. Advance /\ place[c] = 0 /\ pc[c] = "turn2" /\ pc'[c] \in {"leave", "loop"}
        BY <1>t, <2>2 DEF TurnLeave, TurnPass, Goto
      <3> QED BY <1>0, <3>1, AdvanceKeeps
    <2>3. CASE ~ Ticket(c) /\ ~ TurnLeave(c) /\ ~ TurnPass(c)
      <3>1. UNCHANGED <<place, tail>>
        BY <2>3 DEF Trap, StopIPI, Packet, EndSession, Stub, Enter, BeginStop, StopOne, AwaitOne, Report, Loop,
             Leave, turn
      <3> QED BY <1>0, <1>t, <3>1 DEF TicketsInv
    <2> QED BY <2>1, <2>2, <2>3
  <1>7. TurnInv' /\ scan' \in 0 .. N
    <2>0. \A d \in Cpu : /\ pc[d] \in {"stop", "await", "packets"} => place[d] = 0
                         /\ pc[d] = "await" => scan < N
                         /\ place[d] = 0 /\ place[c] = 0 => d = c
      BY <1>0 DEF TurnInv, TicketsInv
    <2>1. \A d \in Cpu : d # c /\ pc[d] \in {"stop", "await", "packets"} => place'[d] = 0
      BY <1>6, <2>0
    <2>2. CASE BeginStop(c) \/ StopOne(c) \/ AwaitOne(c) \/ Report(c)
      <3>1. UNCHANGED place /\ place[c] = 0
        BY <2>0, <2>2 DEF BeginStop, StopOne, AwaitOne, Report, turn
      <3>2. \A d \in Cpu : d # c => pc'[d] \notin {"stop", "await", "packets"}
        BY <1>1, <2>0, <3>1
      <3>3. scan' \in 0 .. N /\ (pc'[c] = "await" => scan' < N)
        <4>1. scan \in Nat /\ scan <= N
          BY <1>t
        <4>2. CASE BeginStop(c) \/ Report(c)
          BY <1>0, <1>t, <4>2 DEF BeginStop, Report, Goto
        <4>3. CASE StopOne(c)
          BY <1>0, <1>t, <4>1, <4>3 DEF StopOne, Goto
        <4>4. CASE AwaitOne(c)
          BY <1>0, <1>t, <2>0, <4>1, <4>4 DEF AwaitOne, Goto
        <4> QED BY <2>2, <4>2, <4>3, <4>4
      <3> QED BY <3>1, <3>2, <3>3 DEF TurnInv
    <2>3. CASE ~ (BeginStop(c) \/ StopOne(c) \/ AwaitOne(c) \/ Report(c))
      <3>1. scan' = scan
        BY <2>3 DEF Trap, StopIPI, Packet, EndSession, Stub, Enter, Ticket, Loop, TurnLeave, TurnPass, Leave
      <3>2. \/ pc'[c] \notin {"stop", "await", "packets"}
            \/ pc'[c] = pc[c] /\ place' = place
        BY <1>t, <2>3 DEF Trap, StopIPI, Packet, EndSession, Stub, Enter, Ticket, Loop, TurnLeave, TurnPass, Leave,
             Goto, turn
      <3> QED BY <1>1, <1>t, <2>0, <2>1, <3>1, <3>2 DEF TurnInv
    <2> QED BY <2>2, <2>3
  <1>8. /\ saved' \in [cpu : Cpu \cup {All}, affinity : BOOLEAN] /\ affinity' \in [Cpu -> BOOLEAN]
        /\ PinInv' /\ AffinityRestored'
    <2>0. /\ \A d \in Cpu : affinity[d] <=> (saved.cpu = d \/ d \in Pinned)
          /\ saved # NoThread => saved.cpu \in Cpu /\ (saved.affinity <=> saved.cpu \in Pinned)
      <3>1. \A d \in Cpu : affinity[d] = IF saved.cpu = d THEN TRUE ELSE d \in Pinned
        BY <1>0 DEF AffinityRestored
      <3> QED BY <1>0, <3>1 DEF PinInv
    <2>1. CASE UNCHANGED pinning
      <3>1. saved' = saved /\ affinity' = affinity
        BY <2>1 DEF pinning
      <3> QED BY <1>0, <1>t, <3>1 DEF PinInv, AffinityRestored
    <2>2. CASE SetGdbAffinity(c) /\ saved = NoThread
      <3>1. saved' = [cpu |-> c, affinity |-> affinity[c]] /\ affinity' = [affinity EXCEPT ![c] = TRUE]
        BY <2>2 DEF SetGdbAffinity
      <3>2. saved.cpu = All
        BY <2>2 DEF NoThread
      <3>3. affinity[c] <=> c \in Pinned
        BY <1>0, <2>0, <3>2
      <3>4. saved'.cpu = c /\ (saved'.affinity <=> c \in Pinned)
        BY <3>1, <3>3
      <3>5. \A d \in Cpu : affinity'[d] = IF saved'.cpu = d THEN TRUE ELSE d \in Pinned
        <4>1. affinity'[c] = TRUE
          BY <1>t, <3>1
        <4>2. ASSUME NEW d \in Cpu, d # c PROVE affinity'[d] = (d \in Pinned)
          <5>1. affinity'[d] = affinity[d] /\ affinity[d] \in BOOLEAN
            BY <1>t, <3>1, <4>2
          <5>2. affinity[d] <=> d \in Pinned
            BY <1>0, <2>0, <3>2, <4>2
          <5> QED BY <5>1, <5>2
        <4> QED BY <3>4, <4>1, <4>2
      <3> QED BY <1>t, <3>1, <3>4, <3>5 DEF PinInv, AffinityRestored
    <2>3. CASE ResetGdbAffinity /\ saved # NoThread
      <3>1. affinity' = [affinity EXCEPT ![saved.cpu] = saved.affinity] /\ saved' = NoThread
        BY <2>3 DEF ResetGdbAffinity
      <3>2. saved'.cpu = All /\ saved' \in [cpu : Cpu \cup {All}, affinity : BOOLEAN]
        BY <3>1 DEF NoThread
      <3>3. affinity' \in [Cpu -> BOOLEAN]
        BY <1>t, <3>1
      <3>4. ASSUME NEW d \in Cpu PROVE affinity'[d] = (d \in Pinned)
        <4>1. saved.cpu \in Cpu /\ (saved.affinity <=> saved.cpu \in Pinned)
          BY <2>0, <2>3
        <4>2. affinity'[d] <=> d \in Pinned
          BY <1>t, <2>0, <3>1, <4>1
        <4> QED BY <3>3, <4>2
      <3>5. AffinityRestored'
        BY <1>0, <3>2, <3>4 DEF AffinityRestored
      <3> QED BY <3>1, <3>2, <3>3, <3>5 DEF PinInv
    <2>4. \/ UNCHANGED pinning
          \/ SetGdbAffinity(c) /\ saved = NoThread
          \/ ResetGdbAffinity /\ saved # NoThread
      BY DEF Trap, StopIPI, Packet, EndSession, Stub, Enter, Ticket, BeginStop, StopOne, AwaitOne, Report, Loop,
             TurnLeave, TurnPass, Leave, SetGdbAffinity, ResetGdbAffinity
    <2> QED BY <2>1, <2>2, <2>3, <2>4
  <1> QED BY <1>1, <1>2, <1>3, <1>4, <1>5, <1>6, <1>7, <1>8 DEF GdbInv, TypeOK

(* One CPU at a time stops the others and talks to the front end, and what *)
(* gdb has pinned gets its affinity back, for any number of CPUs           *)
(* (Gdb.cc handle_exception, setGdbAffinity).                              *)
THEOREM GdbSessionSound == Spec => []SessionSound
  <1>1. ASSUME GdbInv, [Next]_vars PROVE GdbInv'
    <2>1. CASE UNCHANGED vars
      <3>1. /\ UNCHANGED <<pc, state, trap, ipi, tf, place, tail, scan, allstop, vCont, hookBreak>>
            /\ UNCHANGED <<saved, affinity>>
        BY <2>1 DEF vars, turn, session, pinning
      <3> QED BY <1>1, <3>1 DEF GdbInv, TypeOK, TicketsInv, TurnInv, PinInv, AffinityRestored
    <2> QED BY <1>1, <2>1, GdbStep DEF Next
  <1>2. GdbInv => SessionSound
    <2>1. GdbInv => OneAtTheLine
      BY DEF GdbInv, TicketsInv, TurnInv, OneAtTheLine
    <2> QED BY <2>1 DEF GdbInv, SessionSound
  <1> QED BY <1>1, <1>2, GdbInvInit, PTL DEF Spec

-----------------------------------------------------------------------------
(***************************************************************************)
(* What a descriptor refers to (module IoAccess).                          *)
(***************************************************************************)
LEMMA AccessInvInit == AccessInit => AccessInv
  <1> SUFFICES ASSUME AccessInit PROVE AccessInv
    OBVIOUS
  <1>1. PICK e : e = <<>>
    OBVIOUS
  <1>2. e \in Seq(Nat) /\ e \in Seq([from : Nat, len : Nat]) /\ ToSet(e) = {} /\ Len(e) = 0 /\ DOMAIN e = {}
    BY <1>1 DEF ToSet
  <1>3. /\ olock = NoReader /\ offset = 0 /\ chunks = e /\ strayed = FALSE
        /\ keysTyped = 0 /\ kbq = e /\ delivered = {} /\ dropped = {} /\ fullReads = 0
        /\ \A t \in IoThread : io[t] = Outside /\ got[t] = e
        /\ io = [t \in IoThread |-> Outside] /\ got = [t \in IoThread |-> e]
    BY <1>1 DEF AccessInit
  <1>4. \A t \in IoThread : io[t].op = "out" /\ t # NoReader
    BY <1>3, AccessAssumption DEF Outside, NoReader
  <1>5. AccessTypeOK
    <2>1. Outside \in [op : {"out", "pread", "add", "store", "seek", "input"}, n : Nat, k : Nat]
      BY DEF Outside
    <2> QED BY <1>2, <1>3, <2>1 DEF AccessTypeOK
  <1>6. OlockHeld
    BY <1>3, <1>4 DEF OlockHeld, Does, Advancing
  <1>7. FileInv
    <2>1. ReadsTile
      BY <1>2, <1>3, AccessAssumption DEF ReadsTile
    <2>2. \A o : TileEnd(o)
      BY <1>1, <1>3 DEF TileEnd
    <2> QED BY <1>4, <2>1, <2>2 DEF FileInv, Advancing, Does
  <1>8. InHand = {}
    BY <1>4 DEF InHand, Does
  <1>9. KeysInOrder /\ KeysApart
    <2>1. IsFiniteSet({}) /\ Cardinality({}) = 0
      BY FS_EmptySet
    <2>2. Taken = {}
      BY <1>3, <1>8 DEF Taken
    <2>3. KeysInOrder
      BY <1>2, <1>3, <2>2 DEF KeysInOrder
    <2>4. KeysApart
      BY <1>3, <1>4, <1>8, <2>1 DEF KeysApart, Does
    <2> QED BY <2>3, <2>4
  <1>10. GotInv
    BY <1>2, <1>3, <1>4 DEF GotInv, Does
  <1> QED BY <1>5, <1>6, <1>7, <1>9, <1>10 DEF AccessInv

(* What one thread does next leaves the others where they are.             *)
LEMMA IoMoves ==
  ASSUME AccessInv, NEW t \in IoThread, NEW n \in Nat, NEW k \in Nat,
         NEW a \in {"out", "pread", "add", "store", "seek", "input"}, Now(t, a, n, k)
  PROVE  /\ io' \in [IoThread -> [op : {"out", "pread", "add", "store", "seek", "input"}, n : Nat, k : Nat]]
         /\ io'[t].op = a /\ io'[t].n = n /\ io'[t].k = k
         /\ \A u \in IoThread : u # t => io'[u] = io[u]
  <1>1. PICK r : r = [op |-> a, n |-> n, k |-> k]
    OBVIOUS
  <1>2. r \in [op : {"out", "pread", "add", "store", "seek", "input"}, n : Nat, k : Nat]
        /\ r.op = a /\ r.n = n /\ r.k = k
    BY <1>1
  <1>3. io' = [io EXCEPT ![t] = r]
    BY <1>1 DEF Now
  <1>4. io \in [IoThread -> [op : {"out", "pread", "add", "store", "seek", "input"}, n : Nat, k : Nat]]
    BY DEF AccessInv, AccessTypeOK
  <1> QED BY <1>2, <1>3, <1>4

(* A step that is not about the file ...                                   *)
LEMMA FileFrame ==
  ASSUME AccessInv, UNCHANGED fileVars,
         \A u \in IoThread : \/ io'[u] = io[u]
                             \/ io[u].op \in {"out", "seek", "input"} /\ io'[u].op \in {"out", "seek", "input"}
  PROVE  OlockHeld' /\ FileInv'
  <1>0. OlockHeld /\ FileInv
    BY DEF AccessInv
  <1>1. olock' = olock /\ offset' = offset /\ chunks' = chunks /\ strayed' = strayed
    BY DEF fileVars
  <1>2. \A u \in IoThread : /\ Does(u, "pread")' <=> Does(u, "pread")
                            /\ Does(u, "store")' <=> Does(u, "store")
                            /\ Advancing(u)' <=> Advancing(u)
                            /\ Advancing(u) => io'[u] = io[u]
    BY DEF Does, Advancing
  <1>3. OlockHeld'
    BY <1>0, <1>1, <1>2 DEF OlockHeld
  <1>4. ReadsTile' <=> ReadsTile
    BY <1>1 DEF ReadsTile
  <1>5. \A o : TileEnd(o)' <=> TileEnd(o)
    BY <1>1 DEF TileEnd
  <1>6. FileInv'
    <2>1. ASSUME ~strayed' PROVE ~strayed /\ ReadsTile'
      BY <1>0, <1>1, <1>4, <2>1 DEF FileInv
    <2>2. ASSUME ~strayed, NEW u \in IoThread, Advancing(u)'
          PROVE  /\ offset' + io'[u].n <= FileSize /\ TileEnd(offset + io[u].n)'
                 /\ Does(u, "store")' => io'[u].k = offset'
      <3>1. Advancing(u) /\ io'[u] = io[u] /\ (Does(u, "store")' <=> Does(u, "store"))
        BY <1>2, <2>2
      <3>2. /\ offset + io[u].n <= FileSize /\ TileEnd(offset + io[u].n)
            /\ Does(u, "store") => io[u].k = offset
        BY <1>0, <2>2, <3>1 DEF FileInv
      <3> QED BY <1>1, <1>5, <3>1, <3>2 DEF TileEnd
    <2>3. ASSUME ~strayed, \A u \in IoThread : ~Advancing(u)' PROVE TileEnd(offset)'
      <3>1. TileEnd(offset)
        BY <1>0, <1>2, <2>3 DEF FileInv
      <3> QED BY <1>1, <3>1 DEF TileEnd
    <2> QED BY <2>1, <2>2, <2>3 DEF FileInv
  <1> QED BY <1>3, <1>6

(* ... and one that is not about the keyboard.                             *)
LEMMA KeyFrame ==
  ASSUME AccessInv, UNCHANGED keyVars,
         \A u \in IoThread : io'[u] = io[u] \/ (io[u].op # "input" /\ io'[u].op # "input")
  PROVE  KeysInOrder' /\ KeysApart' /\ GotInv'
  <1>0. KeysInOrder /\ KeysApart /\ GotInv
    BY DEF AccessInv
  <1>1. /\ keysTyped' = keysTyped /\ kbq' = kbq /\ got' = got /\ delivered' = delivered /\ dropped' = dropped
        /\ fullReads' = fullReads
    BY DEF keyVars
  <1>2. \A u \in IoThread : (Does(u, "input")' <=> Does(u, "input")) /\ (Does(u, "input") => io'[u] = io[u])
    BY DEF Does
  <1>3. InHand' = InHand
    BY <1>2 DEF InHand
  <1>4. Taken' = Taken
    BY <1>1, <1>3 DEF Taken
  <1>5. KeysInOrder'
    BY <1>0, <1>1, <1>4 DEF KeysInOrder
  <1>6. KeysApart'
    BY <1>0, <1>1, <1>2, <1>3 DEF KeysApart
  <1>7. GotInv'
    BY <1>0, <1>1, <1>2 DEF GotInv
  <1> QED BY <1>5, <1>6, <1>7

LEMMA AccessTypes ==
  ASSUME AccessInv, NEW t \in IoThread
  PROVE  /\ olock \in IoThread \cup {NoReader} /\ offset \in Nat /\ strayed \in BOOLEAN
         /\ chunks \in Seq([from : Nat, len : Nat])
         /\ io \in [IoThread -> [op : {"out", "pread", "add", "store", "seek", "input"}, n : Nat, k : Nat]]
         /\ io[t].n \in Nat /\ io[t].k \in Nat
         /\ keysTyped \in Nat /\ kbq \in Seq(Nat) /\ got \in [IoThread -> Seq(Nat)]
         /\ delivered \subseteq Nat /\ dropped \subseteq Nat /\ fullReads \in Nat
         /\ FileSize \in Nat /\ NoReader \notin IoThread /\ t # NoReader
  BY AccessAssumption DEF AccessInv, AccessTypeOK, NoReader

(* Only one reader is between its copy and its store of the offset.        *)
LEMMA OneReader ==
  ASSUME AccessInv, NEW t \in IoThread, Does(t, "pread") \/ Advancing(t), NEW u \in IoThread, u # t
  PROVE  ~Advancing(u) /\ ~Does(u, "pread")
  BY DEF AccessInv, OlockHeld

LEMMA ReadBeginStep ==
  ASSUME AccessInv, NEW t \in IoThread, NEW n \in 0 .. MaxBytes, ReadBegin(t, n)
  PROVE  AccessInv'
  <1>0. OlockHeld /\ FileInv /\ n \in Nat
    BY AccessAssumption DEF AccessInv
  <1>1. /\ io[t].op = "out" /\ olock = NoReader /\ olock' = t /\ Now(t, "pread", n, 0)
        /\ UNCHANGED <<offset, chunks, strayed>> /\ UNCHANGED keyVars
    BY DEF ReadBegin, Does, OlockFree
  <1>2. /\ io' \in [IoThread -> [op : {"out", "pread", "add", "store", "seek", "input"}, n : Nat, k : Nat]]
        /\ io'[t].op = "pread" /\ \A u \in IoThread : u # t => io'[u] = io[u]
    BY <1>0, <1>1, IoMoves
  <1>3. AccessTypeOK'
    BY <1>1, <1>2, AccessTypes DEF AccessTypeOK, keyVars
  <1>4. KeysInOrder' /\ KeysApart' /\ GotInv'
    BY <1>1, <1>2, KeyFrame
  <1>5. OlockHeld'
    <2>1. \A u \in IoThread : ~(Does(u, "pread") \/ Advancing(u))
      BY <1>0, <1>1, AccessTypes DEF OlockHeld
    <2> QED BY <1>1, <1>2, <2>1 DEF OlockHeld, Does, Advancing
  <1>6. \A u \in IoThread : ~Advancing(u) /\ ~Advancing(u)'
    BY <1>0, <1>1, <1>2, AccessTypes DEF OlockHeld, Does, Advancing
  <1>7. ~strayed => TileEnd(offset) /\ ReadsTile
    BY <1>0, <1>6 DEF FileInv
  <1>8. FileInv'
    BY <1>1, <1>6, <1>7 DEF FileInv, TileEnd, ReadsTile
  <1> QED BY <1>3, <1>4, <1>5, <1>8 DEF AccessInv

LEMMA PreadStep ==
  ASSUME AccessInv, NEW t \in IoThread, Pread(t)
  PROVE  AccessInv'
  <1>0. /\ OlockHeld /\ FileInv /\ offset \in Nat /\ FileSize \in Nat /\ io[t].n \in Nat
        /\ chunks \in Seq([from : Nat, len : Nat])
    BY AccessTypes DEF AccessInv
  <1>1. PICK len, n : len = PreadLen(offset, io[t].n) /\ n = io[t].n
    OBVIOUS
  <1>2. /\ io[t].op = "pread" /\ offset <= FileSize /\ Now(t, "add", len, 0)
        /\ chunks' = IF len = 0 THEN chunks ELSE Append(chunks, [from |-> offset, len |-> len])
        /\ UNCHANGED <<olock, offset, strayed>> /\ UNCHANGED keyVars
    BY <1>1 DEF Pread, Does
  <1>3. len \in Nat /\ offset + len <= FileSize
    <2>1. CASE offset + n > FileSize
      <3>1. len = FileSize - offset
        BY <1>1, <2>1 DEF PreadLen
      <3>2. offset \in Nat /\ FileSize \in Nat /\ offset <= FileSize
        BY <1>0, <1>2
      <3> QED BY <3>1, <3>2
    <2>2. CASE ~(offset + n > FileSize)
      <3>1. len = n
        BY <1>1, <2>2 DEF PreadLen
      <3>2. offset \in Nat /\ FileSize \in Nat /\ n \in Nat
        BY <1>0, <1>1
      <3> QED BY <2>2, <3>1, <3>2
    <2> QED BY <2>1, <2>2
  <1>4. /\ io' \in [IoThread -> [op : {"out", "pread", "add", "store", "seek", "input"}, n : Nat, k : Nat]]
        /\ io'[t].op = "add" /\ io'[t].n = len /\ \A u \in IoThread : u # t => io'[u] = io[u]
    BY <1>2, <1>3, IoMoves
  <1>5. KeysInOrder' /\ KeysApart' /\ GotInv'
    BY <1>2, <1>4, KeyFrame
  <1>6. OlockHeld'
    BY <1>0, <1>2, <1>4 DEF OlockHeld, Does, Advancing
  <1>7. /\ Advancing(t)' /\ ~Does(t, "store")'
        /\ \A u \in IoThread : u # t => ~Advancing(u)'
        /\ \A u \in IoThread : ~Advancing(u)
    <2>1. \A u \in IoThread : u # t => ~Advancing(u)
      BY <1>2, OneReader DEF Does
    <2> QED BY <1>2, <1>4, <2>1 DEF Advancing, Does
  <1>8. PICK r : r = [from |-> offset, len |-> len]
    OBVIOUS
  <1>9. r \in [from : Nat, len : Nat] /\ r.from = offset /\ r.len = len
    BY <1>0, <1>3, <1>8
  <1>10. chunks' \in Seq([from : Nat, len : Nat]) /\ (~strayed => ReadsTile' /\ TileEnd(offset + len)')
    <2>0. ~strayed => ReadsTile /\ TileEnd(offset)
      BY <1>0, <1>7 DEF FileInv
    <2>1. CASE len = 0
      <3>1. chunks' = chunks /\ offset + len = offset
        BY <1>0, <1>2, <2>1
      <3> QED BY <1>0, <1>2, <2>0, <3>1 DEF ReadsTile, TileEnd
    <2>2. CASE len # 0
      <3>1. PICK q, m : q = Append(chunks, r) /\ m = Len(chunks)
        OBVIOUS
      <3>2. chunks' = q
        BY <1>2, <1>8, <2>2, <3>1
      <3>3. /\ m \in Nat /\ q \in Seq([from : Nat, len : Nat]) /\ Len(q) = m + 1 /\ DOMAIN q = 1 .. m + 1
            /\ DOMAIN chunks = 1 .. m
            /\ q[m + 1] = r /\ \A i \in 1 .. m : q[i] = chunks[i]
        <4>1. /\ m \in Nat /\ q \in Seq([from : Nat, len : Nat]) /\ Len(q) = m + 1
              /\ q[m + 1] = r /\ \A i \in 1 .. m : q[i] = chunks[i]
          BY <1>0, <1>9, <3>1, AppendProperties
        <4>2. DOMAIN q = 1 .. m + 1 /\ DOMAIN chunks = 1 .. m
          BY <1>0, <3>1, <4>1
        <4> QED BY <4>1, <4>2
      <3>4. TileEnd(offset + len)'
        BY <1>2, <1>9, <3>2, <3>3 DEF TileEnd
      <3>5. ASSUME ~strayed PROVE ReadsTile'
        <4>1. /\ offset \in 0 .. FileSize
              /\ \A i \in 1 .. m : chunks[i].from + chunks[i].len <= FileSize
              /\ \A i \in 1 .. m - 1 : chunks[i + 1].from = chunks[i].from + chunks[i].len
          BY <2>0, <3>1, <3>3, <3>5 DEF ReadsTile
        <4>2. ASSUME NEW i \in 1 .. m + 1 PROVE q[i].from + q[i].len <= FileSize
          <5>1. CASE i = m + 1
            BY <1>3, <1>9, <3>3, <5>1
          <5>2. CASE i # m + 1
            <6>1. i \in 1 .. m
              BY <3>3, <5>2
            <6> QED BY <3>3, <4>1, <6>1
          <5> QED BY <5>1, <5>2
        <4>3. ASSUME NEW i \in 1 .. m PROVE q[i + 1].from = q[i].from + q[i].len
          <5>1. CASE i = m
            <6>1. chunks # <<>> /\ Len(chunks) = m
              BY <1>0, <3>1, <3>3, <5>1
            <6>2. chunks[m].from + chunks[m].len = offset
              BY <2>0, <3>5, <6>1 DEF TileEnd
            <6> QED BY <1>9, <3>3, <5>1, <6>2
          <5>2. CASE i # m
            <6>1. i \in 1 .. m - 1 /\ i + 1 \in 1 .. m
              BY <3>3, <5>2
            <6> QED BY <3>3, <4>1, <6>1
          <5> QED BY <5>1, <5>2
        <4>4. Len(q) - 1 = m
          BY <3>3
        <4> QED BY <1>2, <3>2, <3>3, <4>1, <4>2, <4>3, <4>4 DEF ReadsTile
      <3> QED BY <3>2, <3>3, <3>4, <3>5
    <2> QED BY <2>1, <2>2
  <1>11. FileInv'
    <2>1. \A u \in IoThread : Advancing(u)' => u = t
      BY <1>7
    <2>2. offset' + io'[t].n <= FileSize /\ (~strayed => TileEnd(offset + io[t].n)')
      BY <1>2, <1>3, <1>4, <1>10 DEF TileEnd
    <2>3. strayed' = strayed
      BY <1>2
    <2>4. ASSUME ~strayed', NEW u \in IoThread, Advancing(u)'
          PROVE  /\ offset' + io'[u].n <= FileSize /\ TileEnd(offset + io[u].n)'
                 /\ Does(u, "store")' => io'[u].k = offset'
      BY <1>7, <2>1, <2>2, <2>3, <2>4
    <2>5. ~ \A u \in IoThread : ~Advancing(u)'
      BY <1>7
    <2> QED BY <1>10, <2>3, <2>4, <2>5 DEF FileInv
  <1>12. AccessTypeOK'
    BY <1>2, <1>4, <1>10, AccessTypes DEF AccessTypeOK, keyVars
  <1> QED BY <1>5, <1>6, <1>11, <1>12 DEF AccessInv

LEMMA AdvanceLoadStep ==
  ASSUME AccessInv, NEW t \in IoThread, AdvanceLoad(t)
  PROVE  AccessInv'
  <1>0. OlockHeld /\ FileInv /\ offset \in Nat /\ io[t].n \in Nat
    BY AccessTypes DEF AccessInv
  <1>1. /\ io[t].op = "add" /\ Now(t, "store", io[t].n, offset) /\ UNCHANGED keyVars
        /\ olock' = olock /\ offset' = offset /\ chunks' = chunks /\ strayed' = strayed
    BY DEF AdvanceLoad, Does, fileVars
  <1>2. /\ io' \in [IoThread -> [op : {"out", "pread", "add", "store", "seek", "input"}, n : Nat, k : Nat]]
        /\ io'[t].op = "store" /\ io'[t].n = io[t].n /\ io'[t].k = offset
        /\ \A u \in IoThread : u # t => io'[u] = io[u]
    BY <1>0, <1>1, IoMoves
  <1>3. AccessTypeOK'
    BY <1>1, <1>2, AccessTypes DEF AccessTypeOK, keyVars
  <1>4. KeysInOrder' /\ KeysApart' /\ GotInv'
    BY <1>1, <1>2, KeyFrame
  <1>5. OlockHeld'
    BY <1>0, <1>1, <1>2 DEF OlockHeld, Does, Advancing
  <1>6. Advancing(t) /\ Advancing(t)' /\ \A u \in IoThread : Advancing(u)' => u = t
    <2>1. Advancing(t) /\ Advancing(t)'
      BY <1>1, <1>2 DEF Advancing, Does
    <2>2. \A u \in IoThread : u # t => ~Advancing(u)
      BY <2>1, OneReader
    <2> QED BY <1>2, <2>1, <2>2 DEF Advancing, Does
  <1>7. ~strayed => ReadsTile /\ offset + io[t].n <= FileSize /\ TileEnd(offset + io[t].n)
    BY <1>0, <1>6 DEF FileInv
  <1>8. FileInv'
    <2>1. ~strayed => ReadsTile' /\ TileEnd(offset + io[t].n)' /\ offset' + io'[t].n <= FileSize
      BY <1>1, <1>2, <1>7 DEF ReadsTile, TileEnd
    <2>2. ASSUME ~strayed', NEW u \in IoThread, Advancing(u)'
          PROVE  /\ offset' + io'[u].n <= FileSize /\ TileEnd(offset + io[u].n)'
                 /\ Does(u, "store")' => io'[u].k = offset'
      BY <1>1, <1>2, <1>6, <2>1, <2>2
    <2>3. ~ \A u \in IoThread : ~Advancing(u)'
      BY <1>6
    <2> QED BY <1>1, <2>1, <2>2, <2>3 DEF FileInv
  <1> QED BY <1>3, <1>4, <1>5, <1>8 DEF AccessInv

LEMMA AdvanceStoreStep ==
  ASSUME AccessInv, NEW t \in IoThread, AdvanceStore(t)
  PROVE  AccessInv'
  <1>0. /\ OlockHeld /\ FileInv /\ offset \in Nat /\ io[t].n \in Nat /\ io[t].k \in Nat /\ FileSize \in Nat
        /\ NoReader \notin IoThread
    BY AccessTypes DEF AccessInv
  <1>1. /\ io[t].op = "store" /\ Now(t, "out", 0, 0) /\ UNCHANGED keyVars
        /\ olock' = NoReader /\ offset' = io[t].k + io[t].n /\ chunks' = chunks /\ strayed' = strayed
    BY DEF AdvanceStore, Does
  <1>2. /\ io' \in [IoThread -> [op : {"out", "pread", "add", "store", "seek", "input"}, n : Nat, k : Nat]]
        /\ io'[t].op = "out" /\ \A u \in IoThread : u # t => io'[u] = io[u]
    BY <1>1, IoMoves
  <1>3. AccessTypeOK'
    <2>1. offset' \in Nat
      BY <1>0, <1>1
    <2> QED BY <1>1, <1>2, <2>1, AccessTypes DEF AccessTypeOK, keyVars
  <1>4. KeysInOrder' /\ KeysApart' /\ GotInv'
    BY <1>1, <1>2, KeyFrame
  <1>5. Advancing(t) /\ Does(t, "store") /\ \A u \in IoThread : ~Advancing(u)' /\ ~Does(u, "pread")'
    <2>1. Advancing(t) /\ Does(t, "store")
      BY <1>1 DEF Advancing, Does
    <2>2. \A u \in IoThread : u # t => ~Advancing(u) /\ ~Does(u, "pread")
      BY <2>1, OneReader
    <2> QED BY <1>2, <2>1, <2>2 DEF Advancing, Does
  <1>6. OlockHeld'
    BY <1>0, <1>1, <1>5 DEF OlockHeld
  <1>7. ~strayed => /\ ReadsTile /\ offset + io[t].n <= FileSize /\ TileEnd(offset + io[t].n) /\ io[t].k = offset
    BY <1>0, <1>5 DEF FileInv
  <1>8. FileInv'
    <2>1. ASSUME ~strayed PROVE ReadsTile' /\ TileEnd(offset)'
      <3>1. offset' = offset + io[t].n /\ offset' \in 0 .. FileSize
        BY <1>0, <1>1, <1>7, <2>1
      <3>2. TileEnd(offset)'
        BY <1>1, <1>7, <2>1, <3>1 DEF TileEnd
      <3>3. ReadsTile'
        BY <1>1, <1>7, <2>1, <3>1 DEF ReadsTile
      <3> QED BY <3>2, <3>3
    <2> QED BY <1>1, <1>5, <2>1 DEF FileInv
  <1> QED BY <1>3, <1>4, <1>6, <1>8 DEF AccessInv

LEMMA LseekFromStep ==
  ASSUME AccessInv, NEW t \in IoThread, NEW base \in {0, offset, FileSize}, LseekFrom(t, base)
  PROVE  AccessInv'
  <1>1. /\ io[t].op = "out" /\ Now(t, "seek", 0, base) /\ UNCHANGED fileVars /\ UNCHANGED keyVars
    BY DEF LseekFrom, Does
  <1>2. base \in Nat
    BY AccessTypes
  <1>3. /\ io' \in [IoThread -> [op : {"out", "pread", "add", "store", "seek", "input"}, n : Nat, k : Nat]]
        /\ io'[t].op = "seek" /\ \A u \in IoThread : u # t => io'[u] = io[u]
    BY <1>1, <1>2, IoMoves
  <1>4. AccessTypeOK'
    BY <1>1, <1>3, AccessTypes DEF AccessTypeOK, keyVars, fileVars
  <1>5. KeysInOrder' /\ KeysApart' /\ GotInv'
    BY <1>1, <1>3, KeyFrame
  <1>6. OlockHeld' /\ FileInv'
    BY <1>1, <1>3, FileFrame
  <1> QED BY <1>4, <1>5, <1>6 DEF AccessInv

LEMMA LseekStep ==
  ASSUME AccessInv, NEW t \in IoThread, NEW o \in -FileSize .. FileSize, Lseek(t, o)
  PROVE  AccessInv'
  <1>0. OlockHeld /\ FileInv /\ io[t].k \in Nat /\ FileSize \in Nat /\ strayed \in BOOLEAN
    BY AccessTypes DEF AccessInv
  <1>1. io[t].op = "seek" /\ Now(t, "out", 0, 0) /\ olock' = olock /\ UNCHANGED keyVars
    BY DEF Lseek, Does
  <1>2. /\ io' \in [IoThread -> [op : {"out", "pread", "add", "store", "seek", "input"}, n : Nat, k : Nat]]
        /\ io'[t].op = "out" /\ \A u \in IoThread : u # t => io'[u] = io[u]
    BY <1>1, IoMoves
  <1>3. KeysInOrder' /\ KeysApart' /\ GotInv'
    BY <1>1, <1>2, KeyFrame
  <1>4. PICK new : new = io[t].k + o
    OBVIOUS
  <1>5. new \in Int
    BY <1>0, <1>4
  <1>6. CASE new < 0
    <2>1. UNCHANGED <<offset, chunks, strayed>>
      BY <1>4, <1>6 DEF Lseek
    <2>2. UNCHANGED fileVars
      BY <1>1, <2>1 DEF fileVars
    <2>3. AccessTypeOK'
      BY <1>1, <1>2, <2>1, AccessTypes DEF AccessTypeOK, keyVars
    <2>4. OlockHeld' /\ FileInv'
      BY <1>1, <1>2, <2>2, FileFrame
    <2> QED BY <1>3, <2>3, <2>4 DEF AccessInv
  <1>7. CASE ~(new < 0)
    <2>1. offset' = new /\ chunks' = <<>> /\ strayed' = (strayed \/ new > FileSize \/ Updating(t))
      BY <1>4, <1>7 DEF Lseek
    <2>2. new \in Nat /\ strayed' \in BOOLEAN
      BY <1>5, <1>7, <2>1
    <2>3. PICK e : e = <<>>
      OBVIOUS
    <2>4. e \in Seq([from : Nat, len : Nat]) /\ Len(e) = 0 /\ DOMAIN e = {} /\ chunks' = e
      BY <2>1, <2>3
    <2>5. AccessTypeOK'
      BY <1>1, <1>2, <2>1, <2>2, <2>4, AccessTypes DEF AccessTypeOK, keyVars
    <2>6. OlockHeld'
      BY <1>0, <1>1, <1>2 DEF OlockHeld, Does, Advancing
    <2>7. FileInv'
      <3>1. SUFFICES ASSUME ~strayed' PROVE ReadsTile' /\ (\A u \in IoThread : ~Advancing(u)') /\ TileEnd(offset)'
        BY DEF FileInv
      <3>2. new \in 0 .. FileSize /\ ~Updating(t)
        <4>1. ~(strayed \/ new > FileSize \/ Updating(t))
          BY <2>1, <3>1, Zenon
        <4>2. ~(new > FileSize) /\ ~Updating(t)
          BY <4>1
        <4>3. new \in 0 .. FileSize
          BY <1>0, <2>2, <4>2
        <4> QED BY <4>2, <4>3
      <3>3. ReadsTile'
        BY <2>1, <2>4, <3>2 DEF ReadsTile
      <3>4. \A u \in IoThread : ~Advancing(u)'
        BY <1>2, <3>2 DEF Updating, Advancing, Does
      <3>5. TileEnd(offset)'
        BY <2>1 DEF TileEnd
      <3> QED BY <3>3, <3>4, <3>5
    <2> QED BY <1>3, <2>5, <2>6, <2>7 DEF AccessInv
  <1> QED BY <1>6, <1>7

-----------------------------------------------------------------------------
(* A queue of rising keys, when one is added, and when the first is taken. *)
LEMMA KeyAppended ==
  ASSUME NEW q \in Seq(Nat), NEW k \in Nat
  PROVE  /\ Append(q, k) \in Seq(Nat) /\ ToSet(Append(q, k)) = ToSet(q) \cup {k}
         /\ (\A x \in ToSet(q) : x < k) /\ (\A i, j \in DOMAIN q : i < j => q[i] < q[j])
              => \A i, j \in DOMAIN Append(q, k) : i < j => Append(q, k)[i] < Append(q, k)[j]
         /\ (\A x \in ToSet(q) : x < k) /\ (\A i \in 1 .. (Len(q) - 1) : q[i] < q[i + 1])
              => \A i \in 1 .. (Len(Append(q, k)) - 1) : Append(q, k)[i] < Append(q, k)[i + 1]
  <1>1. PICK r, m : r = Append(q, k) /\ m = Len(q)
    OBVIOUS
  <1>2. m \in Nat /\ r \in Seq(Nat) /\ Len(r) = m + 1 /\ r[m + 1] = k /\ \A i \in 1 .. m : r[i] = q[i]
    BY <1>1, AppendProperties
  <1>3. DOMAIN q = 1 .. m /\ DOMAIN r = 1 .. m + 1
    BY <1>1, <1>2
  <1>4. \A i \in 1 .. m + 1 : i # m + 1 => i \in 1 .. m
    BY <1>2
  <1>5. \A i \in 1 .. m : q[i] \in ToSet(q)
    BY <1>3 DEF ToSet
  <1>6. ToSet(r) = ToSet(q) \cup {k}
    <2>1. ASSUME NEW x \in ToSet(r) PROVE x \in ToSet(q) \cup {k}
      <3>1. PICK i \in 1 .. m + 1 : x = r[i]
        BY <1>3, <2>1 DEF ToSet
      <3> QED BY <1>2, <1>4, <1>5, <3>1
    <2>2. ASSUME NEW x \in ToSet(q) PROVE x \in ToSet(r)
      <3>1. PICK i \in 1 .. m : x = q[i]
        BY <1>3, <2>2 DEF ToSet
      <3>2. i \in 1 .. m + 1 /\ r[i] = x
        BY <1>2, <3>1
      <3> QED BY <1>3, <3>2 DEF ToSet
    <2>3. m + 1 \in 1 .. m + 1
      BY <1>2
    <2>4. k \in ToSet(r)
      BY <1>2, <1>3, <2>3 DEF ToSet
    <2> QED BY <2>1, <2>2, <2>4
  <1>7. ASSUME \A x \in ToSet(q) : x < k, \A i, j \in DOMAIN q : i < j => q[i] < q[j],
               NEW i \in 1 .. m + 1, NEW j \in 1 .. m + 1, i < j
        PROVE  r[i] < r[j]
    <2>1. i \in 1 .. m
      BY <1>2, <1>7
    <2>2. CASE j = m + 1
      BY <1>2, <1>5, <1>7, <2>1, <2>2
    <2>3. CASE j # m + 1
      <3>1. j \in 1 .. m
        BY <1>4, <2>3
      <3>2. q[i] < q[j]
        BY <1>3, <1>7, <2>1, <3>1
      <3> QED BY <1>2, <2>1, <3>1, <3>2
    <2> QED BY <2>2, <2>3
  <1>8. ASSUME \A x \in ToSet(q) : x < k, \A i \in 1 .. (m - 1) : q[i] < q[i + 1], NEW i \in 1 .. m
        PROVE  r[i] < r[i + 1]
    <2>1. CASE i = m
      BY <1>2, <1>5, <1>8, <2>1
    <2>2. CASE i # m
      <3>1. i \in 1 .. (m - 1) /\ i + 1 \in 1 .. m
        BY <1>2, <2>2
      <3> QED BY <1>2, <1>8, <3>1
    <2> QED BY <2>1, <2>2
  <1>9. Len(r) - 1 = m
    BY <1>2
  <1> QED BY <1>1, <1>2, <1>3, <1>6, <1>7, <1>8, <1>9

LEMMA KeyTaken ==
  ASSUME NEW q \in Seq(Nat), q # <<>>, \A i, j \in DOMAIN q : i < j => q[i] < q[j]
  PROVE  /\ Tail(q) \in Seq(Nat) /\ Head(q) \in Nat /\ ToSet(q) = ToSet(Tail(q)) \cup {Head(q)}
         /\ \A x \in ToSet(Tail(q)) : Head(q) < x
         /\ \A i, j \in DOMAIN Tail(q) : i < j => Tail(q)[i] < Tail(q)[j]
  <1>1. PICK r, h, m : r = Tail(q) /\ h = Head(q) /\ m = Len(q)
    OBVIOUS
  <1>2. /\ m \in Nat /\ m >= 1 /\ r \in Seq(Nat) /\ Len(r) = m - 1 /\ h \in Nat /\ h = q[1]
        /\ \A i \in 1 .. Len(r) : r[i] = q[i + 1]
    BY <1>1, HeadTailProperties
  <1>3. DOMAIN q = 1 .. m /\ DOMAIN r = 1 .. m - 1
    BY <1>1, <1>2
  <1>4. \A i \in 1 .. m - 1 : r[i] = q[i + 1] /\ i + 1 \in 1 .. m /\ 1 < i + 1 /\ 1 \in 1 .. m
    BY <1>2
  <1>5. ToSet(q) = ToSet(r) \cup {h}
    <2>1. ASSUME NEW x \in ToSet(q) PROVE x \in ToSet(r) \cup {h}
      <3>1. PICK i \in 1 .. m : x = q[i]
        BY <1>3, <2>1 DEF ToSet
      <3>2. CASE i = 1
        BY <1>2, <3>1, <3>2
      <3>3. CASE i # 1
        <4>1. i - 1 \in 1 .. m - 1 /\ (i - 1) + 1 = i
          BY <1>2, <3>3
        <4>2. r[i - 1] = x
          BY <1>4, <3>1, <4>1
        <4> QED BY <1>3, <4>1, <4>2 DEF ToSet
      <3> QED BY <3>2, <3>3
    <2>2. ASSUME NEW x \in ToSet(r) PROVE x \in ToSet(q)
      <3>1. PICK i \in 1 .. m - 1 : x = r[i]
        BY <1>3, <2>2 DEF ToSet
      <3> QED BY <1>3, <1>4, <3>1 DEF ToSet
    <2>3. 1 \in 1 .. m
      BY <1>2
    <2>4. h \in ToSet(q)
      BY <1>2, <1>3, <2>3 DEF ToSet
    <2> QED BY <2>1, <2>2, <2>4
  <1>6. ASSUME NEW x \in ToSet(r) PROVE h < x
    <2>1. PICK i \in 1 .. m - 1 : x = r[i]
      BY <1>3, <1>6 DEF ToSet
    <2> QED BY <1>2, <1>3, <1>4, <2>1
  <1>7. ASSUME NEW i \in 1 .. m - 1, NEW j \in 1 .. m - 1, i < j PROVE r[i] < r[j]
    <2>1. i + 1 < j + 1
      BY <1>2, <1>7
    <2> QED BY <1>3, <1>4, <2>1
  <1> QED BY <1>1, <1>2, <1>3, <1>5, <1>6, <1>7

(* The keys that other threads have in hand, when t moves.                 *)
LEMMA OtherHands ==
  ASSUME AccessInv, NEW t \in IoThread, \A u \in IoThread : u # t => io'[u] = io[u]
  PROVE  \E R : /\ InHand = R \cup (IF Does(t, "input") THEN {io[t].k} ELSE {})
                /\ InHand' = R \cup (IF Does(t, "input")' THEN {io'[t].k} ELSE {})
                /\ \A u \in IoThread : u # t /\ Does(u, "input") => io[u].k \in R
                /\ Does(t, "input") => io[t].k \notin R
  <1>1. PICK R : R = {io[u].k : u \in {v \in IoThread : v # t /\ Does(v, "input")}}
    OBVIOUS
  <1>2. \A u \in IoThread : u # t => io'[u] = io[u] /\ (Does(u, "input")' <=> Does(u, "input"))
    BY DEF Does
  <1>3. \A x : x \in R <=> \E u \in IoThread : u # t /\ Does(u, "input") /\ x = io[u].k
    BY <1>1
  <1>4. \A x : x \in InHand <=> \E u \in IoThread : Does(u, "input") /\ x = io[u].k
    BY DEF InHand
  <1>5. \A x : x \in InHand' <=> \E u \in IoThread : Does(u, "input")' /\ x = io'[u].k
    BY DEF InHand
  <1>6. InHand = R \cup (IF Does(t, "input") THEN {io[t].k} ELSE {})
    BY <1>3, <1>4
  <1>7. InHand' = R \cup (IF Does(t, "input")' THEN {io'[t].k} ELSE {})
    BY <1>2, <1>3, <1>5
  <1>8. Does(t, "input") => io[t].k \notin R
    BY <1>3 DEF AccessInv, KeysApart
  <1> QED BY <1>3, <1>6, <1>7, <1>8

(* The numbers of the keys.                                                *)
LEMMA KeyFacts ==
  ASSUME AccessInv, NEW t \in IoThread
  PROVE  /\ keysTyped \in Nat /\ kbq \in Seq(Nat) /\ got \in [IoThread -> Seq(Nat)]
         /\ ToSet(kbq) \cup InHand \cup delivered \cup dropped = 1 .. keysTyped
         /\ \A i, j \in DOMAIN kbq : i < j => kbq[i] < kbq[j]
         /\ \A x \in InHand \cup delivered \cup dropped : \A y \in ToSet(kbq) : x < y
         /\ InHand \cap delivered = {} /\ InHand \cap dropped = {} /\ delivered \cap dropped = {}
         /\ IsFiniteSet(dropped) /\ Cardinality(dropped) <= fullReads /\ fullReads \in Nat
         /\ ToSet(got[t]) \subseteq delivered
  <1>1. KeysInOrder /\ KeysApart /\ GotInv
    BY DEF AccessInv
  <1>2. Taken = InHand \cup delivered \cup dropped
    BY DEF Taken
  <1>3. /\ ToSet(kbq) \cup Taken = 1 .. keysTyped
        /\ \A i, j \in DOMAIN kbq : i < j => kbq[i] < kbq[j]
        /\ \A x \in Taken : \A y \in ToSet(kbq) : x < y
    BY <1>1 DEF KeysInOrder
  <1>4. /\ InHand \cap delivered = {} /\ InHand \cap dropped = {} /\ delivered \cap dropped = {}
        /\ IsFiniteSet(dropped) /\ Cardinality(dropped) <= fullReads
    BY <1>1 DEF KeysApart
  <1>5. ToSet(got[t]) \subseteq delivered
    BY <1>1 DEF GotInv
  <1>6. ToSet(kbq) \cup InHand \cup delivered \cup dropped = ToSet(kbq) \cup Taken
    BY <1>2
  <1> QED BY <1>2, <1>3, <1>4, <1>5, <1>6, AccessTypes

LEMMA KeyTypedStep == AccessInv /\ Type => AccessInv'
  <1> SUFFICES ASSUME AccessInv, Type PROVE AccessInv'
    OBVIOUS
  <1>0. PICK t \in IoThread : TRUE
    BY AccessAssumption
  <1>1. /\ keysTyped' = keysTyped + 1 /\ kbq' = Append(kbq, keysTyped + 1) /\ UNCHANGED fileVars
        /\ io' = io /\ got' = got /\ delivered' = delivered /\ dropped' = dropped /\ fullReads' = fullReads
    BY DEF Type
  <1>2. OlockHeld' /\ FileInv'
    BY <1>1, FileFrame
  <1>3. PICK k, q, T : k = keysTyped + 1 /\ q = kbq' /\ T = Taken
    OBVIOUS
  <1>4. /\ keysTyped \in Nat /\ kbq \in Seq(Nat) /\ k \in Nat /\ k = keysTyped + 1
        /\ ToSet(kbq) \cup T = 1 .. keysTyped
        /\ \A i, j \in DOMAIN kbq : i < j => kbq[i] < kbq[j]
        /\ \A x \in T : \A y \in ToSet(kbq) : x < y
    BY <1>0, <1>3, KeyFacts DEF Taken
  <1>5. \A x \in 1 .. keysTyped : x < k
    BY <1>4
  <1>6. /\ q \in Seq(Nat) /\ ToSet(q) = ToSet(kbq) \cup {k}
        /\ \A i, j \in DOMAIN q : i < j => q[i] < q[j]
    <2>1. q = Append(kbq, k) /\ \A x \in ToSet(kbq) : x < k
      BY <1>1, <1>3, <1>4, <1>5
    <2> QED BY <1>4, <2>1, KeyAppended
  <1>7. Taken' = T /\ InHand' = InHand
    BY <1>1, <1>3 DEF Taken, InHand, Does
  <1>8. KeysInOrder'
    <2>1. 1 .. k = (1 .. keysTyped) \cup {k}
      BY <1>4
    <2>2. ToSet(q) \cup T = 1 .. k
      BY <1>4, <1>6, <2>1
    <2>3. \A x \in T : \A y \in ToSet(q) : x < y
      BY <1>4, <1>5, <1>6
    <2> QED BY <1>1, <1>3, <1>6, <1>7, <2>2, <2>3 DEF KeysInOrder
  <1>9. KeysApart' /\ GotInv'
    <2>1. KeysApart /\ GotInv
      BY DEF AccessInv
    <2>2. \A u \in IoThread : Does(u, "input")' <=> Does(u, "input")
      BY <1>1 DEF Does
    <2>3. KeysApart'
      BY <1>1, <1>7, <2>1, <2>2 DEF KeysApart
    <2>4. GotInv'
      BY <1>1, <2>1, <2>2 DEF GotInv
    <2> QED BY <2>3, <2>4
  <1>10. AccessTypeOK'
    <2>1. keysTyped' \in Nat /\ kbq' \in Seq(Nat)
      BY <1>1, <1>3, <1>4, <1>6
    <2> QED BY <1>0, <1>1, <2>1, AccessTypes DEF AccessTypeOK, fileVars
  <1> QED BY <1>2, <1>8, <1>9, <1>10 DEF AccessInv

LEMMA InputBeginStep ==
  ASSUME AccessInv, NEW t \in IoThread, NEW n \in 0 .. MaxBytes, InputBegin(t, n)
  PROVE  AccessInv'
  <1>0. KeysApart /\ GotInv /\ n \in Nat
    BY AccessAssumption DEF AccessInv
  <1>1. PICK e : e = <<>>
    OBVIOUS
  <1>2. e \in Seq(Nat) /\ ToSet(e) = {} /\ Len(e) = 0
    BY <1>1 DEF ToSet
  <1>3. /\ io[t].op = "out" /\ kbq # e /\ got' = [got EXCEPT ![t] = e] /\ UNCHANGED fileVars
        /\ keysTyped' = keysTyped /\ delivered' = delivered /\ dropped' = dropped /\ fullReads' = fullReads
    BY <1>1 DEF InputBegin, Does
  <1>4. got' \in [IoThread -> Seq(Nat)] /\ got'[t] = e /\ \A u \in IoThread : u # t => got'[u] = got[u]
    BY <1>2, <1>3, AccessTypes
  <1>g. ASSUME \A u \in IoThread : u # t => io'[u] = io[u] PROVE GotInv'
    <2>1. ASSUME NEW u \in IoThread
          PROVE  /\ ToSet(got'[u]) \subseteq delivered'
                 /\ Does(u, "input")' => \A x \in ToSet(got'[u]) : x < io'[u].k
                 /\ \A i \in 1 .. (Len(got'[u]) - 1) : got'[u][i] < got'[u][i + 1]
      <3>1. CASE u = t
        BY <1>2, <1>4, <3>1
      <3>2. CASE u # t
        <4>1. got'[u] = got[u] /\ io'[u] = io[u] /\ (Does(u, "input")' <=> Does(u, "input"))
          BY <1>4, <1>g, <3>2 DEF Does
        <4> QED BY <1>0, <1>3, <4>1 DEF GotInv
      <3> QED BY <3>1, <3>2
    <2>2. ASSUME NEW u \in IoThread, NEW v \in IoThread, u # v PROVE ToSet(got'[u]) \cap ToSet(got'[v]) = {}
      <3>1. CASE u = t \/ v = t
        BY <1>2, <1>4, <3>1
      <3>2. CASE u # t /\ v # t
        BY <1>0, <1>4, <2>2, <3>2 DEF GotInv
      <3> QED BY <3>1, <3>2
    <2> QED BY <2>1, <2>2 DEF GotInv
  <1>5. CASE n = 0
    <2>1. io' = io /\ kbq' = kbq
      BY <1>5 DEF InputBegin
    <2>2. OlockHeld' /\ FileInv'
      BY <1>3, <2>1, FileFrame
    <2>3. AccessTypeOK'
      BY <1>3, <1>4, <2>1, AccessTypes DEF AccessTypeOK, fileVars
    <2>4. InHand' = InHand /\ \A u \in IoThread : Does(u, "input")' <=> Does(u, "input")
      BY <2>1 DEF InHand, Does
    <2>5. KeysInOrder' /\ KeysApart'
      BY <1>3, <2>1, <2>4 DEF AccessInv, KeysInOrder, KeysApart, Taken
    <2>6. GotInv'
      BY <1>g, <2>1
    <2> QED BY <2>2, <2>3, <2>5, <2>6 DEF AccessInv
  <1>6. CASE n # 0
    <2>1. PICK h, q : h = Head(kbq) /\ q = Tail(kbq)
      OBVIOUS
    <2>2. Now(t, "input", n, h) /\ kbq' = q
      BY <1>6, <2>1 DEF InputBegin
    <2>3. PICK H : H = InHand
      OBVIOUS
    <2>4. /\ kbq \in Seq(Nat) /\ ToSet(kbq) \cup H \cup delivered \cup dropped = 1 .. keysTyped
          /\ \A i, j \in DOMAIN kbq : i < j => kbq[i] < kbq[j]
          /\ \A x \in H \cup delivered \cup dropped : \A y \in ToSet(kbq) : x < y
          /\ H \cap delivered = {} /\ H \cap dropped = {} /\ delivered \cap dropped = {}
      BY <2>3, KeyFacts
    <2>5. /\ q \in Seq(Nat) /\ h \in Nat /\ ToSet(kbq) = ToSet(q) \cup {h}
          /\ \A x \in ToSet(q) : h < x
          /\ \A i, j \in DOMAIN q : i < j => q[i] < q[j]
      BY <1>1, <1>3, <2>1, <2>4, KeyTaken
    <2>6. /\ io' \in [IoThread -> [op : {"out", "pread", "add", "store", "seek", "input"}, n : Nat, k : Nat]]
          /\ io'[t].op = "input" /\ io'[t].k = h /\ \A u \in IoThread : u # t => io'[u] = io[u]
      BY <1>0, <2>2, <2>5, IoMoves
    <2>7. OlockHeld' /\ FileInv'
      BY <1>3, <2>6, FileFrame
    <2>8. AccessTypeOK'
      BY <1>3, <1>4, <2>2, <2>5, <2>6, AccessTypes DEF AccessTypeOK, fileVars
    <2>9. InHand' = H \cup {h} /\ \A u \in IoThread : u # t /\ Does(u, "input") => io[u].k \in H
      <3>1. PICK R : /\ InHand = R \cup (IF Does(t, "input") THEN {io[t].k} ELSE {})
                     /\ InHand' = R \cup (IF Does(t, "input")' THEN {io'[t].k} ELSE {})
                     /\ \A u \in IoThread : u # t /\ Does(u, "input") => io[u].k \in R
        BY <2>6, OtherHands
      <3>2. ~Does(t, "input") /\ Does(t, "input")'
        BY <1>3, <2>6 DEF Does
      <3> QED BY <2>3, <2>6, <3>1, <3>2
    <2>10. \A x \in H \cup delivered \cup dropped : x < h /\ x \in Nat
      BY <2>4, <2>5
    <2>11. h \notin H \cup delivered \cup dropped
      BY <2>5, <2>10
    <2>12. KeysInOrder'
      <3>1. Taken' = H \cup {h} \cup delivered \cup dropped
        BY <1>3, <2>9 DEF Taken
      <3>2. ToSet(q) \cup (H \cup {h} \cup delivered \cup dropped) = 1 .. keysTyped
        BY <2>4, <2>5
      <3>3. \A x \in H \cup {h} \cup delivered \cup dropped : \A y \in ToSet(q) : x < y
        BY <2>4, <2>5
      <3> QED BY <1>3, <2>2, <2>5, <3>1, <3>2, <3>3 DEF KeysInOrder
    <2>13. KeysApart'
      <3>1. ASSUME NEW u \in IoThread, u # t, Does(u, "input")' PROVE io'[u].k # h
        <4>1. io'[u] = io[u] /\ Does(u, "input")
          BY <2>6, <3>1 DEF Does
        <4> QED BY <2>9, <2>11, <3>1, <4>1
      <3>2. ASSUME NEW u \in IoThread, NEW v \in IoThread, u # v, Does(u, "input")', Does(v, "input")'
            PROVE  io'[u].k # io'[v].k
        <4>1. CASE u = t \/ v = t
          BY <2>6, <3>1, <3>2, <4>1
        <4>2. CASE u # t /\ v # t
          BY <1>0, <2>6, <3>2, <4>2 DEF KeysApart, Does
        <4> QED BY <4>1, <4>2
      <3>3. InHand' \cap delivered = {} /\ InHand' \cap dropped = {} /\ delivered \cap dropped = {}
        BY <2>4, <2>9, <2>11
      <3>4. IsFiniteSet(dropped) /\ Cardinality(dropped) <= fullReads
        BY KeyFacts
      <3> QED BY <1>3, <3>2, <3>3, <3>4 DEF KeysApart
    <2>14. GotInv'
      BY <1>g, <2>6
    <2> QED BY <2>7, <2>8, <2>12, <2>13, <2>14 DEF AccessInv
  <1> QED BY <1>5, <1>6

(* A key is stored, and the keys of X leave the queue: M into the hand, D  *)
(* to be dropped.                                                          *)
LEMMA KeyStored ==
  ASSUME AccessInv, NEW k \in InHand, NEW M, NEW D,
         InHand' = (InHand \ {k}) \cup M, M \cap D = {},
         delivered' = delivered \cup {k}, dropped' = dropped \cup D, keysTyped' = keysTyped,
         ToSet(kbq) = ToSet(kbq') \cup (M \cup D), \A x \in M \cup D : \A y \in ToSet(kbq') : x < y,
         \A i, j \in DOMAIN kbq' : i < j => kbq'[i] < kbq'[j]
  PROVE  /\ KeysInOrder' /\ (M \cup D) \cap (InHand \cup delivered \cup dropped) = {}
         /\ InHand' \cap delivered' = {} /\ InHand' \cap dropped' = {} /\ delivered' \cap dropped' = {}
  <1>0. PICK t \in IoThread : TRUE
    BY AccessAssumption
  <1>1. PICK X, q : X = M \cup D /\ q = kbq'
    OBVIOUS
  <1>2. /\ ToSet(kbq) \cup InHand \cup delivered \cup dropped = 1 .. keysTyped
        /\ \A x \in InHand \cup delivered \cup dropped : \A y \in ToSet(kbq) : x < y
        /\ InHand \cap delivered = {} /\ InHand \cap dropped = {} /\ delivered \cap dropped = {}
    BY <1>0, KeyFacts
  <1>3. \A x \in 1 .. keysTyped : ~(x < x)
    BY <1>0, KeyFacts
  <1>4. X \cap (InHand \cup delivered \cup dropped) = {}
    BY <1>1, <1>2, <1>3
  <1>5. Taken' = InHand \cup delivered \cup dropped \cup X
    <2>1. Taken' = ((InHand \ {k}) \cup M) \cup (delivered \cup {k}) \cup (dropped \cup D)
      BY DEF Taken
    <2> QED BY <1>1, <2>1
  <1>6. KeysInOrder'
    <2>1. ToSet(q) \cup Taken' = 1 .. keysTyped
      BY <1>1, <1>2, <1>5
    <2>2. \A x \in Taken' : \A y \in ToSet(q) : x < y
      BY <1>1, <1>2, <1>5
    <2> QED BY <1>1, <2>1, <2>2 DEF KeysInOrder
  <1>7. InHand' \cap delivered' = {} /\ InHand' \cap dropped' = {} /\ delivered' \cap dropped' = {}
    BY <1>1, <1>2, <1>4
  <1> QED BY <1>1, <1>4, <1>6, <1>7

LEMMA InputNextStep ==
  ASSUME AccessInv, NEW t \in IoThread, InputNext(t)
  PROVE  AccessInv'
  <1>0. KeysApart /\ GotInv /\ got \in [IoThread -> Seq(Nat)] /\ io[t].k \in Nat /\ io[t].n \in Nat
    BY AccessTypes DEF AccessInv
  <1>1. PICK k, g : k = io[t].k /\ g = Append(got[t], k)
    OBVIOUS
  <1>2. /\ io[t].op = "input" /\ got' = [got EXCEPT ![t] = g] /\ delivered' = delivered \cup ToSet(g)
        /\ UNCHANGED fileVars /\ keysTyped' = keysTyped
    BY <1>1 DEF InputNext, Does, StoreKey
  <1>3. /\ g \in Seq(Nat) /\ ToSet(g) = ToSet(got[t]) \cup {k}
        /\ \A i \in 1 .. (Len(g) - 1) : g[i] < g[i + 1]
    <2>1. /\ \A x \in ToSet(got[t]) : x < k
          /\ \A i \in 1 .. (Len(got[t]) - 1) : got[t][i] < got[t][i + 1]
      BY <1>0, <1>1, <1>2 DEF GotInv, Does
    <2>2. got[t] \in Seq(Nat) /\ k \in Nat
      BY <1>0, <1>1
    <2> QED BY <1>1, <2>1, <2>2, KeyAppended
  <1>4. delivered' = delivered \cup {k}
    BY <1>2, <1>3, KeyFacts
  <1>5. got' \in [IoThread -> Seq(Nat)] /\ got'[t] = g /\ \A u \in IoThread : u # t => got'[u] = got[u]
    BY <1>0, <1>2, <1>3
  <1>6. k \in InHand /\ k \notin delivered
    <2>1. k \in InHand
      BY <1>1, <1>2 DEF InHand, Does
    <2> QED BY <2>1, KeyFacts
  (* Whatever the thread does next. *)
  <1>7. ASSUME \A u \in IoThread : u # t => io'[u] = io[u],
               io'[t].op = "out" \/ (io'[t].op = "input" /\ \A x \in delivered \cup {k} : x < io'[t].k)
        PROVE  GotInv' /\ OlockHeld' /\ FileInv'
    <2>1. ASSUME NEW u \in IoThread
          PROVE  /\ ToSet(got'[u]) \subseteq delivered'
                 /\ Does(u, "input")' => \A x \in ToSet(got'[u]) : x < io'[u].k
                 /\ \A i \in 1 .. (Len(got'[u]) - 1) : got'[u][i] < got'[u][i + 1]
      <3>1. CASE u = t
        <4>1. ToSet(g) \subseteq delivered \cup {k}
          BY <1>3, KeyFacts
        <4>2. Does(t, "input")' => \A x \in delivered \cup {k} : x < io'[t].k
          BY <1>7 DEF Does
        <4> QED BY <1>3, <1>4, <1>5, <3>1, <4>1, <4>2
      <3>2. CASE u # t
        <4>1. got'[u] = got[u] /\ io'[u] = io[u] /\ (Does(u, "input")' <=> Does(u, "input"))
          BY <1>5, <1>7, <3>2 DEF Does
        <4> QED BY <1>0, <1>4, <4>1 DEF GotInv
      <3> QED BY <3>1, <3>2
    <2>2. ASSUME NEW u \in IoThread, u # t PROVE ToSet(g) \cap ToSet(got[u]) = {}
      <3>1. ToSet(got[t]) \cap ToSet(got[u]) = {}
        BY <1>0, <2>2 DEF GotInv
      <3>2. ToSet(got[u]) \subseteq delivered
        BY KeyFacts
      <3> QED BY <1>3, <1>6, <3>1, <3>2
    <2>3. ASSUME NEW u \in IoThread, NEW v \in IoThread, u # v PROVE ToSet(got'[u]) \cap ToSet(got'[v]) = {}
      <3>1. CASE u = t
        BY <1>5, <2>2, <2>3, <3>1
      <3>2. CASE v = t
        BY <1>5, <2>2, <2>3, <3>2
      <3>3. CASE u # t /\ v # t
        BY <1>0, <1>5, <2>3, <3>3 DEF GotInv
      <3> QED BY <3>1, <3>2, <3>3
    <2>4. GotInv'
      BY <2>1, <2>3 DEF GotInv
    <2>5. OlockHeld' /\ FileInv'
      BY <1>2, <1>7, FileFrame
    <2> QED BY <2>4, <2>5
  <1>8. ASSUME NEW M, NEW D, NEW q \in Seq(Nat), M \cap D = {}, dropped' = dropped \cup D, kbq' = q,
               io' \in [IoThread -> [op : {"out", "pread", "add", "store", "seek", "input"}, n : Nat, k : Nat]],
               \A u \in IoThread : u # t => io'[u] = io[u],
               \/ io'[t].op = "out" /\ M = {}
               \/ io'[t].op = "input" /\ M = {io'[t].k},
               ToSet(kbq) = ToSet(q) \cup (M \cup D), \A x \in M \cup D : \A y \in ToSet(q) : x < y,
               \A i, j \in DOMAIN q : i < j => q[i] < q[j],
               fullReads' \in Nat, IsFiniteSet(dropped'), Cardinality(dropped') <= fullReads'
        PROVE  AccessInv'
    <2>1. PICK R : /\ InHand = R \cup (IF Does(t, "input") THEN {io[t].k} ELSE {})
                   /\ InHand' = R \cup (IF Does(t, "input")' THEN {io'[t].k} ELSE {})
                   /\ \A u \in IoThread : u # t /\ Does(u, "input") => io[u].k \in R
                   /\ Does(t, "input") => io[t].k \notin R
      BY <1>8, OtherHands
    <2>2. InHand = R \cup {k} /\ k \notin R /\ InHand' = R \cup M
      BY <1>1, <1>2, <1>8, <2>1 DEF Does
    <2>3. /\ KeysInOrder' /\ (M \cup D) \cap (InHand \cup delivered \cup dropped) = {}
          /\ InHand' \cap delivered' = {} /\ InHand' \cap dropped' = {} /\ delivered' \cap dropped' = {}
      <3>1. k \in InHand /\ InHand' = (InHand \ {k}) \cup M
        BY <2>2
      <3>2. ToSet(kbq) = ToSet(kbq') \cup (M \cup D) /\ \A x \in M \cup D : \A y \in ToSet(kbq') : x < y
        BY <1>8
      <3>3. \A i, j \in DOMAIN kbq' : i < j => kbq'[i] < kbq'[j]
        BY <1>8
      <3> QED BY <1>2, <1>4, <1>8, <3>1, <3>2, <3>3, KeyStored
    <2>4. ASSUME NEW u \in IoThread, NEW v \in IoThread, u # v, Does(u, "input")', Does(v, "input")'
          PROVE  io'[u].k # io'[v].k
      <3>1. ASSUME NEW w \in IoThread, w # t, Does(w, "input")', Does(t, "input")' PROVE io'[w].k # io'[t].k
        <4>1. io'[w] = io[w] /\ Does(w, "input") /\ M = {io'[t].k}
          BY <1>8, <3>1 DEF Does
        <4> QED BY <2>1, <2>2, <2>3, <3>1, <4>1
      <3>2. CASE u # t /\ v # t
        BY <1>0, <1>8, <2>4, <3>2 DEF KeysApart, Does
      <3> QED BY <2>4, <3>1, <3>2
    <2>5. KeysApart'
      BY <1>8, <2>3, <2>4 DEF KeysApart
    <2>6. \A x \in delivered \cup {k} : \A y \in M : x < y
      BY <1>6, <1>8, KeyFacts
    <2>7. GotInv' /\ OlockHeld' /\ FileInv'
      <3>1. io'[t].op = "out" \/ (io'[t].op = "input" /\ \A x \in delivered \cup {k} : x < io'[t].k)
        BY <1>8, <2>6
      <3> QED BY <1>7, <1>8, <3>1
    <2>8. AccessTypeOK'
      <3>1. delivered' \subseteq Nat
        BY <1>0, <1>1, <1>4, AccessTypes
      <3>2. ToSet(kbq) \subseteq Nat
        BY KeyFacts
      <3>3. dropped' \subseteq Nat
        BY <1>8, <3>2, AccessTypes
      <3> QED BY <1>2, <1>5, <1>8, <3>1, <3>3, AccessTypes DEF AccessTypeOK, fileVars
    <2> QED BY <2>3, <2>5, <2>7, <2>8 DEF AccessInv
  <1>9. /\ kbq \in Seq(Nat) /\ \A i, j \in DOMAIN kbq : i < j => kbq[i] < kbq[j]
        /\ IsFiniteSet(dropped) /\ Cardinality(dropped) <= fullReads /\ fullReads \in Nat
    BY KeyFacts
  <1>10. CASE kbq = <<>>
    <2>1. Now(t, "out", 0, 0) /\ kbq' = kbq /\ dropped' = dropped /\ fullReads' = fullReads
      BY <1>10 DEF InputNext
    <2>2. /\ io' \in [IoThread -> [op : {"out", "pread", "add", "store", "seek", "input"}, n : Nat, k : Nat]]
          /\ io'[t].op = "out" /\ \A u \in IoThread : u # t => io'[u] = io[u]
      BY <2>1, IoMoves
    <2>3. PICK E : E = {}
      OBVIOUS
    <2>4. E \cap E = {} /\ dropped' = dropped \cup E /\ ToSet(kbq) = ToSet(kbq) \cup (E \cup E)
      BY <2>1, <2>3
    <2> QED BY <1>8, <1>9, <2>1, <2>2, <2>3, <2>4
  <1>11. CASE kbq # <<>>
    <2>1. PICK h, q : h = Head(kbq) /\ q = Tail(kbq)
      OBVIOUS
    <2>2. /\ q \in Seq(Nat) /\ h \in Nat /\ ToSet(kbq) = ToSet(q) \cup {h}
          /\ \A x \in ToSet(q) : h < x
          /\ \A i, j \in DOMAIN q : i < j => q[i] < q[j]
      BY <1>9, <1>11, <2>1, KeyTaken
    <2>3. kbq' = q
      BY <1>11, <2>1 DEF InputNext
    <2>4. CASE Len(got[t]) + 1 < io[t].n
      <3>1. Now(t, "input", io[t].n, h) /\ dropped' = dropped /\ fullReads' = fullReads
        BY <1>11, <2>1, <2>4 DEF InputNext
      <3>2. /\ io' \in [IoThread -> [op : {"out", "pread", "add", "store", "seek", "input"}, n : Nat, k : Nat]]
            /\ io'[t].op = "input" /\ io'[t].k = h /\ \A u \in IoThread : u # t => io'[u] = io[u]
        BY <1>0, <2>2, <3>1, IoMoves
      <3>3. PICK E, M : E = {} /\ M = {h}
        OBVIOUS
      <3>4. /\ M \cap E = {} /\ dropped' = dropped \cup E /\ ToSet(kbq) = ToSet(q) \cup (M \cup E)
            /\ \A x \in M \cup E : \A y \in ToSet(q) : x < y
        BY <2>2, <3>1, <3>3
      <3>5. M = {io'[t].k}
        BY <3>2, <3>3
      <3>6. fullReads' \in Nat /\ IsFiniteSet(dropped') /\ Cardinality(dropped') <= fullReads'
        BY <1>9, <3>1
      <3> QED BY <1>8, <2>2, <2>3, <3>2, <3>4, <3>5, <3>6
    <2>5. CASE ~(Len(got[t]) + 1 < io[t].n)
      <3>1. Now(t, "out", 0, 0) /\ dropped' = dropped \cup {h} /\ fullReads' = fullReads + 1
        BY <1>11, <2>1, <2>5 DEF InputNext
      <3>2. /\ io' \in [IoThread -> [op : {"out", "pread", "add", "store", "seek", "input"}, n : Nat, k : Nat]]
            /\ io'[t].op = "out" /\ \A u \in IoThread : u # t => io'[u] = io[u]
        BY <3>1, IoMoves
      <3>3. PICK E, D : E = {} /\ D = {h}
        OBVIOUS
      <3>4. /\ E \cap D = {} /\ dropped' = dropped \cup D /\ ToSet(kbq) = ToSet(q) \cup (E \cup D)
            /\ \A x \in E \cup D : \A y \in ToSet(q) : x < y
        BY <2>2, <3>1, <3>3
      <3>5. fullReads' \in Nat /\ IsFiniteSet(dropped') /\ Cardinality(dropped') <= fullReads'
        <4>1. PICK d : d = dropped \cup {h}
          OBVIOUS
        <4>2. /\ IsFiniteSet(d) /\ Cardinality(dropped) \in Nat
              /\ Cardinality(d) = IF h \in dropped THEN Cardinality(dropped) ELSE Cardinality(dropped) + 1
          BY <1>9, <4>1, FS_AddElement, FS_CardinalityType
        <4>3. Cardinality(d) <= fullReads + 1
          BY <1>9, <4>2
        <4> QED BY <1>9, <3>1, <4>1, <4>2, <4>3
      <3> QED BY <1>8, <2>2, <2>3, <3>2, <3>3, <3>4, <3>5
    <2> QED BY <2>4, <2>5
  <1> QED BY <1>10, <1>11

LEMMA AccessStep == AccessInv /\ [AccessNext]_accessVars => AccessInv'
  <1> SUFFICES ASSUME AccessInv, [AccessNext]_accessVars PROVE AccessInv'
    OBVIOUS
  <1>1. ASSUME UNCHANGED accessVars PROVE AccessInv'
    <2>1. UNCHANGED fileVars /\ io' = io /\ UNCHANGED keyVars
      BY <1>1 DEF accessVars
    <2>2. OlockHeld' /\ FileInv'
      BY <2>1, FileFrame
    <2>3. KeysInOrder' /\ KeysApart' /\ GotInv'
      BY <2>1, KeyFrame
    <2>4. AccessTypeOK'
      BY <2>1 DEF AccessInv, AccessTypeOK, fileVars, keyVars
    <2> QED BY <2>2, <2>3, <2>4 DEF AccessInv
  <1>2. CASE PreadWild
    BY <1>1, <1>2 DEF PreadWild
  <1>3. CASE Type
    BY <1>3, KeyTypedStep
  <1>4. ASSUME NEW t \in IoThread,
               \/ Pread(t) \/ AdvanceLoad(t) \/ AdvanceStore(t) \/ InputNext(t)
               \/ \E n \in 0 .. MaxBytes : ReadBegin(t, n) \/ InputBegin(t, n)
               \/ \E base \in {0, offset, FileSize} : LseekFrom(t, base)
               \/ \E o \in -FileSize .. FileSize : io[t].k + o <= MaxOffset /\ Lseek(t, o)
        PROVE  AccessInv'
    BY <1>4, PreadStep, AdvanceLoadStep, AdvanceStoreStep, InputNextStep, ReadBeginStep, InputBeginStep,
       LseekFromStep, LseekStep
  <1> QED BY <1>1, <1>2, <1>3, <1>4 DEF AccessNext

LEMMA AccessInvSound == AccessInv => AccessSound
  <1> SUFFICES ASSUME AccessInv PROVE AccessSound
    OBVIOUS
  <1>1. ReadsTile
    BY DEF AccessInv, FileInv, ReadsTile
  <1>2. PICK t \in IoThread : TRUE
    BY AccessAssumption
  <1>3. PICK Q, H : Q = ToSet(kbq) /\ H = InHand
    OBVIOUS
  <1>4. /\ keysTyped \in Nat /\ Q \cup H \cup delivered \cup dropped = 1 .. keysTyped
        /\ \A x \in H \cup delivered \cup dropped : \A y \in Q : x < y
        /\ H \cap delivered = {} /\ H \cap dropped = {} /\ delivered \cap dropped = {}
        /\ Cardinality(dropped) <= fullReads
    BY <1>2, <1>3, KeyFacts
  <1>5. Q \cap H = {} /\ Q \cap delivered = {} /\ Q \cap dropped = {}
    <2>1. \A x \in 1 .. keysTyped : ~(x < x)
      BY <1>4
    <2> QED BY <1>4, <2>1
  <1>6. PICK p : p = <<Q, H, delivered, dropped>>
    OBVIOUS
  <1>7. p[1] = Q /\ p[2] = H /\ p[3] = delivered /\ p[4] = dropped
    BY <1>6
  <1>8. UNION {p[i] : i \in 1 .. 4} = 1 .. keysTyped
    <2>1. \A x : x \in UNION {p[i] : i \in 1 .. 4} <=> \E i \in 1 .. 4 : x \in p[i]
      OBVIOUS
    <2>2. \A i \in 1 .. 4 : i = 1 \/ i = 2 \/ i = 3 \/ i = 4
      OBVIOUS
    <2>3. 1 \in 1 .. 4 /\ 2 \in 1 .. 4 /\ 3 \in 1 .. 4 /\ 4 \in 1 .. 4
      OBVIOUS
    <2>4. \A x : x \in UNION {p[i] : i \in 1 .. 4} <=> x \in Q \/ x \in H \/ x \in delivered \/ x \in dropped
      BY <1>7, <2>1, <2>2, <2>3
    <2> QED BY <1>4, <2>4
  <1>9. ASSUME NEW i \in 1 .. 4, NEW j \in 1 .. 4, i < j PROVE p[i] \cap p[j] = {}
    <2>1. CASE i = 1
      BY <1>5, <1>7, <1>9, <2>1
    <2>2. CASE i = 2
      BY <1>4, <1>7, <1>9, <2>2
    <2>3. CASE i = 3
      BY <1>4, <1>7, <1>9, <2>3
    <2>4. i = 1 \/ i = 2 \/ i = 3
      BY <1>9
    <2> QED BY <2>1, <2>2, <2>3, <2>4
  <1>10. /\ \A u \in IoThread : \A i \in 1 .. (Len(got[u]) - 1) : got[u][i] < got[u][i + 1]
         /\ \A u, v \in IoThread : u # v => ToSet(got[u]) \cap ToSet(got[v]) = {}
    BY DEF AccessInv, GotInv
  <1>11. KeysAccounted
    <2>1. p = <<ToSet(kbq), InHand, delivered, dropped>>
      BY <1>3, <1>6
    <2>2. SUFFICES /\ UNION {p[i] : i \in 1 .. 4} = 1 .. keysTyped
                   /\ \A i, j \in 1 .. 4 : i < j => p[i] \cap p[j] = {}
      BY <1>4, <1>10, <2>1 DEF KeysAccounted
    <2> QED BY <1>8, <1>9
  <1> QED BY <1>1, <1>11 DEF AccessSound

(* For any number of threads that read one descriptor, any file and any    *)
(* number of keys: the intervals that concurrent readers copy follow each  *)
(* other, and every key reaches one reader, in order, except the one per   *)
(* full buffer that is dropped (Access.cc FileAccess::read, pread, lseek;  *)
(* Access.h InputAccess::read).                                            *)
THEOREM DescriptorShared == AccessSpec => []AccessSound
  <1>1. AccessInit => AccessInv
    BY AccessInvInit
  <1>2. AccessInv /\ [AccessNext]_accessVars => AccessInv'
    BY AccessStep
  <1>3. AccessInv => AccessSound
    BY AccessInvSound
  <1> QED BY <1>1, <1>2, <1>3, PTL DEF AccessSpec

-----------------------------------------------------------------------------
(***************************************************************************)
(* The remote serial protocol (module GdbLine).                            *)
(***************************************************************************)
Payload == Request \cup {[op |-> "none", arg |-> None]}
Tokens == [is : {"$", "#", "+", "-", "noise", "data", "sum"}, of : Payload \cup {None}]

(* What is left of a frame of d on its way to the stub: each token intact  *)
(* or garbled.                                                             *)
PartOf(d, q) ==
  /\ Len(q) <= 4
  /\ \A i \in 1 .. Len(q) : q[i] = Noise \/ q[i] = Frame(d)[i + 4 - Len(q)]

(* Data in the packet buffer is that of d.                                 *)
BufOf(d, b) == \A i \in 1 .. Len(b) : b[i].is = "data" => b[i].of = d

(* The stub has not executed d yet: the acknowledgement of the last reply  *)
(* is still ahead of the frame, or the frame is in getpacket, was refused, *)
(* or was accepted.                                                        *)
AckAhead(d) == /\ front = "sent" /\ rx.at = "ack" /\ toGdb = <<>>
               /\ \E q \in Seq(Tokens) : toStub = <<Plus>> \o q /\ PartOf(d, q)
Receiving(d) == /\ front = "sent" /\ rx.at \in {"seek", "data", "sum"} /\ toGdb = <<>>
                /\ PartOf(d, toStub) /\ BufOf(d, rx.buf) /\ (rx.at = "sum" => Len(toStub) = 1)
Refused == front = "sent" /\ rx.at = "seek" /\ toGdb = <<Minus>> /\ toStub = <<>> /\ rx.buf = <<>>
Accepted(d) == /\ rx.at = "exec" /\ toStub = <<>> /\ rx.buf = <<DataOf(d)>>
               /\ (front = "sent" /\ toGdb = <<Plus>>) \/ (front = "reply" /\ toGdb = <<>>)
Waiting(d) == AckAhead(d) \/ Receiving(d) \/ Refused \/ Accepted(d)

(* It has executed everything: nobody waits for anything, or for the       *)
(* front end to hear of it, or for a reply, or for its acknowledgement.    *)
AtRest == /\ front = "idle" /\ toGdb = <<>>
          /\ (rx.at = "seek" /\ toStub = <<>> /\ rx.buf = <<>>) \/ (rx.at = "ack" /\ toStub = <<Plus>>)
Working == /\ rx.at \in {"kernel", "send"} /\ toStub = <<>>
           /\ (front = "sent" /\ toGdb = <<Plus>>) \/ (front = "reply" /\ toGdb = <<>>)
Replied == /\ rx.at = "ack" /\ toStub = <<>>
           /\ \E q \in Seq(Tokens) : Len(q) = 4 /\ ((front = "sent" /\ toGdb = <<Plus>> \o q) \/ (front = "reply" /\ toGdb = q))
ReplyRefused == front = "reply" /\ rx.at = "ack" /\ toStub = <<Minus>> /\ toGdb = <<>>
AllDone == AtRest \/ Working \/ Replied \/ ReplyRefused

(* The CPU that the last of the requests in s has chosen, the registers    *)
(* once d is executed after them, and the memory that d expects.           *)
ChosenBy(s) == IF s # <<>> /\ s[Len(s)].op = "H" THEN s[Len(s)].arg ELSE None
RegsAfter(s, d) ==
  IF d.op # "G" THEN regs
  ELSE [regs EXCEPT ![IF ChosenBy(s) # None THEN ChosenBy(s) ELSE Me] = Len(s) + 1]
MemFits(d) == (d.op = "Z" => mem[d.arg] = "code") /\ (d.op = "z" => mem[d.arg] = "0xcc")

LineTypes ==
  /\ toStub \in Seq(Tokens) /\ toGdb \in Seq(Tokens)
  /\ rx \in [at : {"seek", "data", "sum", "exec", "kernel", "send", "ack"}, buf : Seq(Tokens)]
  /\ reply \in Payload
TargetTypes ==
  /\ issued \in Seq(Request) /\ executed \in Seq(Request)
  /\ regs \in [Cpus -> Nat] /\ wanted \in [Cpus -> Nat]
  /\ mem \in [Place -> {"code", "0xcc"}] /\ bpMap \in [Place -> {"none", "code", "0xcc"}]

Progress ==
  \/ executed = issued /\ regs = wanted /\ AllDone
  \/ \E d \in Request : issued = Append(executed, d) /\ wanted = RegsAfter(executed, d) /\ MemFits(d) /\ Waiting(d)

LineInv ==
  /\ LineTypes
  /\ TargetTypes
  /\ OpcodesKept
  /\ Htid = ChosenBy(executed)
  /\ Progress

-----------------------------------------------------------------------------
(* Tokens and frames.                                                      *)
LEMMA TokenFacts ==
  ASSUME NEW d \in Payload
  PROVE  /\ Dollar \in Tokens /\ Hash \in Tokens /\ Plus \in Tokens /\ Minus \in Tokens /\ Noise \in Tokens
         /\ DataOf(d) \in Tokens /\ SumOf(d) \in Tokens
         /\ Plus # Minus /\ Hash # Noise /\ Hash # Dollar /\ Hash # DataOf(d) /\ Hash # SumOf(d)
         /\ DataOf(d).is = "data" /\ DataOf(d).of = d
         /\ Noise.is # "data" /\ Dollar.is # "data" /\ Hash.is # "data" /\ SumOf(d).is # "data"
  <1>1. DataOf(d).is = "data" /\ DataOf(d).of = d /\ SumOf(d).is = "sum"
    BY DEF DataOf, SumOf
  <1>2. Hash.is = "#" /\ Plus.is = "+" /\ Minus.is = "-" /\ Noise.is = "noise" /\ Dollar.is = "$"
    BY DEF Hash, Plus, Minus, Noise, Dollar, Token
  <1>3. Dollar \in Tokens /\ Hash \in Tokens /\ Plus \in Tokens /\ Minus \in Tokens /\ Noise \in Tokens
    BY DEF Hash, Plus, Minus, Noise, Dollar, Token, Tokens
  <1>4. DataOf(d) \in Tokens /\ SumOf(d) \in Tokens
    BY DEF DataOf, SumOf, Tokens
  <1> QED BY <1>1, <1>2, <1>3, <1>4

LEMMA FrameFacts ==
  ASSUME NEW d \in Payload
  PROVE  /\ Frame(d) \in Seq(Tokens) /\ Len(Frame(d)) = 4
         /\ Frame(d)[1] = Dollar /\ Frame(d)[2] = DataOf(d) /\ Frame(d)[3] = Hash /\ Frame(d)[4] = SumOf(d)
  <1>1. Dollar \in Tokens /\ Hash \in Tokens /\ DataOf(d) \in Tokens /\ SumOf(d) \in Tokens
    BY TokenFacts
  <1> QED BY <1>1 DEF Frame

LEMMA FourTokens ==
  ASSUME NEW S, NEW q \in [1 .. 4 -> S]
  PROVE  q \in Seq(S) /\ Len(q) = 4
  <1>1. ASSUME NEW n \in Nat, NEW r \in [1 .. n -> S] PROVE r \in Seq(S) /\ Len(r) = n
    OBVIOUS
  <1> QED BY <1>1

(* A frame on its way has four tokens, intact or not.                      *)
SentOn(l, d, l2) == \E q \in Seq(Tokens) : Len(q) = 4 /\ PartOf(d, q) /\ l2 = l \o q

LEMMA PutIs ==
  ASSUME NEW l, NEW d \in Payload, NEW l2, NEW n2, Put(l, d, l2, n2)
  PROVE  SentOn(l, d, l2)
  <1>1. PICK f : f = Frame(d)
    OBVIOUS
  <1>2. f \in Seq(Tokens) /\ Len(f) = 4
    BY <1>1, FrameFacts
  <1>3. CASE l2 = l \o Frame(d)
    <2>1. PartOf(d, f)
      <3>1. \A i \in 1 .. 4 : i + 4 - 4 = i
        OBVIOUS
      <3> QED BY <1>1, <1>2, <3>1 DEF PartOf
    <2> QED BY <1>1, <1>2, <1>3, <2>1 DEF SentOn
  <1>4. CASE \E i \in 1 .. 4 : l2 = l \o [Frame(d) EXCEPT ![i] = Noise]
    <2>1. PICK i \in 1 .. 4 : l2 = l \o [Frame(d) EXCEPT ![i] = Noise]
      BY <1>4
    <2>2. PICK q : q = [f EXCEPT ![i] = Noise]
      OBVIOUS
    <2>3. q \in Seq(Tokens) /\ Len(q) = 4 /\ \A k \in 1 .. 4 : q[k] = Noise \/ q[k] = f[k]
      <3>1. Noise \in Tokens
        BY TokenFacts
      <3>2. f \in [1 .. 4 -> Tokens]
        BY <1>2, LenProperties
      <3>3. q \in [1 .. 4 -> Tokens] /\ \A k \in 1 .. 4 : q[k] = Noise \/ q[k] = f[k]
        BY <2>2, <3>1, <3>2
      <3>4. q \in Seq(Tokens) /\ Len(q) = 4
        BY <3>3, FourTokens
      <3> QED BY <3>3, <3>4
    <2>4. PartOf(d, q)
      <3>1. \A k \in 1 .. 4 : k + 4 - 4 = k
        OBVIOUS
      <3> QED BY <1>1, <2>3, <3>1 DEF PartOf
    <2> QED BY <1>1, <2>1, <2>2, <2>3, <2>4 DEF SentOn
  <1> QED BY <1>3, <1>4 DEF Put

(* The stub takes a token of it.                                           *)
LEMMA PartTaken ==
  ASSUME NEW d \in Request, NEW q \in Seq(Tokens), q # <<>>, PartOf(d, q)
  PROVE  /\ Tail(q) \in Seq(Tokens) /\ Len(Tail(q)) = Len(q) - 1 /\ PartOf(d, Tail(q)) /\ Head(q) \in Tokens
         /\ Head(q) = Hash => Len(q) = 2
         /\ Head(q).is = "data" => Head(q).of = d
  <1>1. PICK n, r : n = Len(q) /\ r = Tail(q)
    OBVIOUS
  <1>2. /\ n \in 1 .. 4 /\ Head(q) = q[1] /\ Head(q) \in Tokens /\ r \in Seq(Tokens) /\ Len(r) = n - 1
        /\ \A i \in 1 .. n - 1 : r[i] = q[i + 1]
    <2>1. Len(q) \in Nat /\ Len(q) # 0
      BY LenProperties, EmptySeq
    <2>2. Head(q) = q[1] /\ Head(q) \in Tokens
      BY HeadTailProperties
    <2>3. Tail(q) \in Seq(Tokens) /\ Len(Tail(q)) = Len(q) - 1 /\ \A i \in 1 .. Len(Tail(q)) : Tail(q)[i] = q[i + 1]
      BY HeadTailProperties
    <2>4. Len(q) <= 4
      BY DEF PartOf
    <2>5. n \in 1 .. 4
      BY <1>1, <2>1, <2>4
    <2> QED BY <1>1, <2>2, <2>3, <2>5
  <1>3. \A i \in 1 .. n : q[i] = Noise \/ q[i] = Frame(d)[i + 4 - n]
    BY <1>1 DEF PartOf
  <1>4. PartOf(d, r)
    <2>1. ASSUME NEW i \in 1 .. n - 1 PROVE r[i] = Noise \/ r[i] = Frame(d)[i + 4 - (n - 1)]
      <3>1. i + 1 \in 1 .. n /\ (i + 1) + 4 - n = i + 4 - (n - 1)
        BY <1>2
      <3>2. q[i + 1] = Noise \/ q[i + 1] = Frame(d)[(i + 1) + 4 - n]
        BY <1>3, <3>1
      <3> QED BY <1>2, <3>1, <3>2
    <2>2. n - 1 <= 4
      BY <1>2
    <2> QED BY <1>2, <2>1, <2>2 DEF PartOf
  <1>5. d \in Payload
    BY DEF Payload
  <1>6. q[1] = Noise \/ q[1] = Frame(d)[5 - n]
    <2>1. 1 \in 1 .. n /\ 1 + 4 - n = 5 - n
      BY <1>2
    <2> QED BY <1>3, <2>1
  <1>7. \/ n = 4 /\ 5 - n = 1
        \/ n = 3 /\ 5 - n = 2
        \/ n = 2 /\ 5 - n = 3
        \/ n = 1 /\ 5 - n = 4
    BY <1>2
  <1>8. (q[1] = Hash => n = 2) /\ (q[1].is = "data" => q[1].of = d)
    BY <1>5, <1>6, <1>7, TokenFacts, FrameFacts
  <1> QED BY <1>1, <1>2, <1>4, <1>8

LEMMA PlusAhead ==
  ASSUME NEW q \in Seq(Tokens), NEW r, r = <<Plus>> \o q
  PROVE  r \in Seq(Tokens) /\ r # <<>> /\ Head(r) = Plus /\ Tail(r) = q
  <1>1. Plus \in Tokens
    BY TokenFacts DEF Payload
  <1>2. <<Plus>> \in Seq(Tokens) /\ <<Plus>> # <<>> /\ Head(<<Plus>>) = Plus /\ Tail(<<Plus>>) = <<>>
    BY <1>1
  <1>3. r \in Seq(Tokens) /\ Len(r) = 1 + Len(q) /\ \A i \in 1 .. 1 + Len(q) : r[i] = IF i <= 1 THEN <<Plus>>[i] ELSE q[i - 1]
    BY <1>1, <1>2, ConcatProperties
  <1>4. Len(q) \in Nat
    BY LenProperties
  <1>5. r # <<>> /\ r[1] = Plus
    BY <1>3, <1>4
  <1>6. Head(r) = Plus /\ Tail(r) \in Seq(Tokens) /\ Len(Tail(r)) = Len(q) /\ \A i \in 1 .. Len(q) : Tail(r)[i] = r[i + 1]
    BY <1>3, <1>4, <1>5, HeadTailProperties
  <1>7. \A i \in 1 .. Len(q) : Tail(r)[i] = q[i]
    BY <1>3, <1>4, <1>6
  <1>8. Tail(r) = q
    BY <1>6, <1>7, SeqEqual
  <1> QED BY <1>3, <1>5, <1>6, <1>8

-----------------------------------------------------------------------------
(* What moves bytes leaves requests and target alone.                      *)
LEMMA LineMoves ==
  ASSUME LineInv, UNCHANGED <<issued, executed, Htid, regs, wanted, mem, bpMap>>,
         AllDone => AllDone' /\ LineTypes',
         \A d \in Request : issued = Append(executed, d) /\ Waiting(d) => Waiting(d)' /\ LineTypes'
  PROVE  LineInv'
  <1>1. TargetTypes' /\ OpcodesKept' /\ (Htid = ChosenBy(executed))'
    BY DEF LineInv, TargetTypes, OpcodesKept, ChosenBy
  <1>2. CASE executed = issued /\ regs = wanted /\ AllDone
    BY <1>1, <1>2 DEF LineInv, Progress
  <1>3. CASE \E d \in Request : issued = Append(executed, d) /\ wanted = RegsAfter(executed, d) /\ MemFits(d) /\ Waiting(d)
    <2>1. PICK d \in Request : issued = Append(executed, d) /\ wanted = RegsAfter(executed, d) /\ MemFits(d) /\ Waiting(d)
      BY <1>3
    <2>2. Waiting(d)' /\ LineTypes' /\ (issued = Append(executed, d))' /\ MemFits(d)' /\ (wanted = RegsAfter(executed, d))'
      BY <2>1 DEF MemFits, RegsAfter
    <2>3. Progress'
      BY <2>2 DEF Progress
    <2> QED BY <1>1, <2>2, <2>3 DEF LineInv
  <1> QED BY <1>2, <1>3 DEF LineInv, Progress

LEMMA LastIssued ==
  ASSUME LineInv, NEW d \in Request, issued = Append(executed, d)
  PROVE  Last(issued) = d /\ d \in Payload
  <1>1. executed \in Seq(Request)
    BY DEF LineInv, TargetTypes
  <1>2. Len(issued) = Len(executed) + 1 /\ issued[Len(executed) + 1] = d
    BY <1>1, AppendProperties
  <1> QED BY <1>2 DEF Last, Payload

(* What is sent on an empty line is all that is on it.                     *)
LEMMA PutAlone ==
  ASSUME NEW d \in Payload, NEW l2, NEW n2, Put(<<>>, d, l2, n2)
  PROVE  l2 \in Seq(Tokens) /\ Len(l2) = 4 /\ PartOf(d, l2)
  <1>1. SentOn(<<>>, d, l2)
    BY PutIs
  <1>2. PICK q \in Seq(Tokens) : Len(q) = 4 /\ PartOf(d, q) /\ l2 = <<>> \o q
    BY <1>1 DEF SentOn
  <1>3. <<>> \o q = q
    BY ConcatEmptySeq
  <1> QED BY <1>2, <1>3

LEMMA OneToken ==
  ASSUME NEW t \in Tokens
  PROVE  <<t>> \in Seq(Tokens) /\ <<t>> # <<>> /\ Head(<<t>>) = t /\ Tail(<<t>>) = <<>> /\ Append(<<>>, t) = <<t>>
  OBVIOUS

LEMMA PlusMinus ==
  Plus \in Tokens /\ Minus \in Tokens /\ Plus # Minus
  BY TokenFacts DEF Payload

LEMMA FrontAckStep ==
  ASSUME LineInv, FrontAck
  PROVE  LineInv'
  <1>1. /\ front = "sent" /\ toGdb # <<>> /\ toGdb' = Tail(toGdb)
        /\ \/ Head(toGdb) = Plus /\ front' = "reply" /\ UNCHANGED <<toStub, noise>>
           \/ Head(toGdb) = Minus /\ Put(toStub, Last(issued), toStub', noise') /\ UNCHANGED front
        /\ UNCHANGED <<issued, executed, Htid, regs, wanted, mem, bpMap, rx, reply>>
    BY DEF FrontAck, target
  <1>2. LineTypes
    BY DEF LineInv
  <1>3. ASSUME AllDone PROVE AllDone' /\ LineTypes'
    <2>1. CASE Working
      <3>1. toGdb = <<Plus>> /\ rx.at \in {"kernel", "send"} /\ toStub = <<>>
        BY <1>1, <2>1 DEF Working
      <3>2. Head(toGdb) = Plus /\ toGdb' = <<>>
        BY <1>1, <3>1, OneToken, PlusMinus
      <3>3. front' = "reply" /\ toStub' = <<>> /\ rx' = rx /\ reply' = reply
        BY <1>1, <3>1, <3>2, PlusMinus
      <3>4. Working'
        BY <3>1, <3>2, <3>3 DEF Working
      <3> QED BY <1>2, <3>2, <3>3, <3>4 DEF AllDone, LineTypes
    <2>2. CASE Replied
      <3>1. PICK q \in Seq(Tokens) : Len(q) = 4 /\ toGdb = <<Plus>> \o q /\ rx.at = "ack" /\ toStub = <<>>
        BY <1>1, <2>2 DEF Replied
      <3>2. Head(toGdb) = Plus /\ toGdb' = q
        BY <1>1, <3>1, PlusAhead
      <3>3. front' = "reply" /\ toStub' = <<>> /\ rx' = rx /\ reply' = reply
        BY <1>1, <3>1, <3>2, PlusMinus
      <3>4. Replied'
        BY <3>1, <3>2, <3>3 DEF Replied
      <3> QED BY <1>2, <3>1, <3>2, <3>3, <3>4 DEF AllDone, LineTypes
    <2> QED BY <1>1, <1>3, <2>1, <2>2 DEF AllDone, AtRest, ReplyRefused
  <1>4. ASSUME NEW d \in Request, issued = Append(executed, d), Waiting(d) PROVE Waiting(d)' /\ LineTypes'
    <2>1. CASE Refused
      <3>1. toGdb = <<Minus>> /\ toStub = <<>> /\ rx.at = "seek" /\ rx.buf = <<>>
        BY <2>1 DEF Refused
      <3>2. Head(toGdb) = Minus /\ toGdb' = <<>>
        BY <1>1, <3>1, OneToken, PlusMinus
      <3>3. Put(<<>>, d, toStub', noise') /\ front' = "sent" /\ rx' = rx /\ reply' = reply /\ d \in Payload
        BY <1>1, <1>4, <3>1, <3>2, PlusMinus, LastIssued
      <3>4. toStub' \in Seq(Tokens) /\ PartOf(d, toStub')
        BY <3>3, PutAlone
      <3>5. BufOf(d, rx.buf)
        BY <3>1 DEF BufOf
      <3>6. Receiving(d)'
        BY <3>1, <3>2, <3>3, <3>4, <3>5 DEF Receiving
      <3> QED BY <1>2, <3>2, <3>3, <3>4, <3>6 DEF Waiting, LineTypes
    <2>2. CASE Accepted(d)
      <3>1. toGdb = <<Plus>> /\ toStub = <<>> /\ rx.at = "exec" /\ rx.buf = <<DataOf(d)>>
        BY <1>1, <2>2 DEF Accepted
      <3>2. Head(toGdb) = Plus /\ toGdb' = <<>>
        BY <1>1, <3>1, OneToken, PlusMinus
      <3>3. front' = "reply" /\ toStub' = <<>> /\ rx' = rx /\ reply' = reply
        BY <1>1, <3>1, <3>2, PlusMinus
      <3>4. Accepted(d)'
        BY <3>1, <3>2, <3>3 DEF Accepted
      <3> QED BY <1>2, <3>2, <3>3, <3>4 DEF Waiting, LineTypes
    <2> QED BY <1>1, <1>4, <2>1, <2>2 DEF Waiting, AckAhead, Receiving
  <1> QED BY <1>1, <1>3, <1>4, LineMoves

LEMMA FrontReplyStep ==
  ASSUME LineInv, FrontReply
  PROVE  LineInv'
  <1>1. /\ front = "reply" /\ Len(toGdb) >= 4 /\ toGdb' = SubSeq(toGdb, 5, Len(toGdb))
        /\ \/ toStub' = Append(toStub, Plus) /\ front' = "idle"
           \/ toStub' = Append(toStub, Minus) /\ front' = "reply"
        /\ UNCHANGED <<issued, executed, Htid, regs, wanted, mem, bpMap, rx, reply>>
    BY DEF FrontReply, target
  <1>2. LineTypes /\ Len(<<>>) = 0
    BY DEF LineInv
  <1>3. ASSUME AllDone PROVE AllDone' /\ LineTypes'
    <2>0. toGdb # <<>>
      BY <1>1, <1>2
    <2>1. Replied
      BY <1>1, <1>3, <2>0 DEF AllDone, AtRest, ReplyRefused, Working
    <2>2. toGdb \in Seq(Tokens) /\ Len(toGdb) = 4 /\ toStub = <<>> /\ rx.at = "ack"
      BY <1>1, <2>1 DEF Replied
    <2>3. toGdb' = <<>>
      BY <1>1, <2>2
    <2>4. (toStub' = <<Plus>> /\ front' = "idle") \/ (toStub' = <<Minus>> /\ front' = "reply")
      BY <1>1, <2>2, OneToken, PlusMinus
    <2>5. toStub' \in Seq(Tokens)
      BY <2>4, OneToken, PlusMinus
    <2>6. AtRest' \/ ReplyRefused'
      BY <1>1, <2>2, <2>3, <2>4 DEF AtRest, ReplyRefused
    <2> QED BY <1>1, <1>2, <2>3, <2>5, <2>6 DEF AllDone, LineTypes
  <1>4. ASSUME NEW d \in Request, issued = Append(executed, d), Waiting(d) PROVE FALSE
    BY <1>1, <1>2, <1>4 DEF Waiting, AckAhead, Receiving, Refused, Accepted
  <1> QED BY <1>1, <1>3, <1>4, LineMoves

LEMMA FrontTimeoutStep ==
  ASSUME LineInv, FrontTimeout
  PROVE  LineInv'
  <1>1. /\ front = "sent" /\ toStub = <<>> /\ toGdb = <<>> /\ rx.at \in {"seek", "data", "sum"}
        /\ Put(<<>>, Last(issued), toStub', noise')
        /\ UNCHANGED <<issued, executed, Htid, regs, wanted, mem, bpMap, rx, reply, front, toGdb>>
    BY DEF FrontTimeout, target
  <1>2. LineTypes /\ Len(<<>>) = 0
    BY DEF LineInv
  <1>3. ~AllDone
    <2>1. ~Replied /\ ~Working
      BY <1>1 DEF Replied, Working
    <2> QED BY <1>1, <2>1 DEF AllDone, AtRest, ReplyRefused
  <1>4. ASSUME NEW d \in Request, issued = Append(executed, d), Waiting(d) PROVE Waiting(d)' /\ LineTypes'
    <2>1. Put(<<>>, d, toStub', noise') /\ d \in Payload
      BY <1>1, <1>4, LastIssued
    <2>2. toStub' \in Seq(Tokens) /\ PartOf(d, toStub')
      BY <2>1, PutAlone
    <2>3. Receiving(d)
      <3>1. ~Refused /\ ~AckAhead(d) /\ ~Accepted(d)
        BY <1>1, PlusMinus, OneToken DEF Refused, AckAhead, Accepted
      <3> QED BY <1>4, <3>1 DEF Waiting
    <2>4. rx.at # "sum" /\ BufOf(d, rx.buf)
      BY <1>1, <1>2, <2>3 DEF Receiving
    <2>5. Receiving(d)'
      BY <1>1, <2>2, <2>4 DEF Receiving
    <2> QED BY <1>1, <1>2, <2>2, <2>5 DEF Waiting, LineTypes
  <1> QED BY <1>1, <1>3, <1>4, LineMoves

LEMMA StopReplyStep ==
  ASSUME LineInv, StopReply
  PROVE  LineInv'
  <1>1. /\ rx.at = "kernel" /\ rx' = [rx EXCEPT !.at = "send"]
        /\ UNCHANGED <<issued, executed, Htid, regs, wanted, mem, bpMap, reply, front, toGdb, toStub>>
    BY DEF StopReply, line, gdb
  <1>2. LineTypes
    BY DEF LineInv
  <1>3. rx'.at = "send" /\ rx'.buf = rx.buf /\ LineTypes'
    BY <1>1, <1>2 DEF LineTypes
  <1>4. ASSUME AllDone PROVE AllDone' /\ LineTypes'
    <2>1. Working
      BY <1>1, <1>4 DEF AllDone, AtRest, Replied, ReplyRefused
    <2>2. Working'
      BY <1>1, <1>3, <2>1 DEF Working
    <2> QED BY <1>3, <2>2 DEF AllDone
  <1>5. ASSUME NEW d \in Request, issued = Append(executed, d), Waiting(d) PROVE FALSE
    BY <1>1, <1>5 DEF Waiting, AckAhead, Receiving, Refused, Accepted
  <1> QED BY <1>1, <1>4, <1>5, LineMoves

LEMMA PutPacketStep ==
  ASSUME LineInv, PutPacket
  PROVE  LineInv'
  <1>1. /\ rx.at = "send" /\ rx' = [rx EXCEPT !.at = "ack"] /\ Put(toGdb, reply, toGdb', noise')
        /\ UNCHANGED <<issued, executed, Htid, regs, wanted, mem, bpMap, reply, front, toStub>>
    BY DEF PutPacket, target, gdb
  <1>2. LineTypes
    BY DEF LineInv
  <1>3. PICK q \in Seq(Tokens) : Len(q) = 4 /\ toGdb' = toGdb \o q
    <2>1. toGdb \in Seq(Tokens) /\ reply \in Payload
      BY <1>2 DEF LineTypes
    <2>2. SentOn(toGdb, reply, toGdb')
      BY <1>1, <2>1, PutIs
    <2> QED BY <2>2 DEF SentOn
  <1>4. rx'.at = "ack" /\ rx'.buf = rx.buf /\ LineTypes'
    <2>1. toGdb' \in Seq(Tokens)
      BY <1>2, <1>3, ConcatProperties DEF LineTypes
    <2> QED BY <1>1, <1>2, <2>1 DEF LineTypes
  <1>5. ASSUME AllDone PROVE AllDone' /\ LineTypes'
    <2>1. Working
      BY <1>1, <1>5 DEF AllDone, AtRest, Replied, ReplyRefused
    <2>2. (front' = "sent" /\ toGdb' = <<Plus>> \o q) \/ (front' = "reply" /\ toGdb' = q)
      <3>1. <<>> \o q = q
        BY ConcatEmptySeq
      <3> QED BY <1>1, <1>3, <2>1, <3>1 DEF Working
    <2>3. Replied'
      BY <1>1, <1>3, <1>4, <2>1, <2>2 DEF Replied, Working
    <2> QED BY <1>4, <2>3 DEF AllDone
  <1>6. ASSUME NEW d \in Request, issued = Append(executed, d), Waiting(d) PROVE FALSE
    BY <1>1, <1>6 DEF Waiting, AckAhead, Receiving, Refused, Accepted
  <1> QED BY <1>1, <1>5, <1>6, LineMoves

LEMMA PutAckStep ==
  ASSUME LineInv, PutAck
  PROVE  LineInv'
  <1>1. /\ rx.at = "ack" /\ toStub # <<>> /\ toStub' = Tail(toStub)
        /\ Head(toStub) = Plus => rx' = [at |-> "seek", buf |-> <<>>] /\ toGdb' = toGdb
        /\ Head(toStub) # Plus => Put(toGdb, reply, toGdb', noise') /\ rx' = rx
        /\ UNCHANGED <<issued, executed, Htid, regs, wanted, mem, bpMap, reply, front>>
    BY DEF PutAck, Resend, target, gdb
  <1>2. LineTypes
    BY DEF LineInv
  <1>3. ASSUME AllDone PROVE AllDone' /\ LineTypes'
    <2>1. CASE AtRest
      <3>1. toStub = <<Plus>> /\ toGdb = <<>> /\ front = "idle"
        BY <1>1, <2>1 DEF AtRest
      <3>2. Head(toStub) = Plus /\ toStub' = <<>>
        BY <1>1, <3>1, OneToken, PlusMinus
      <3>3. rx' = [at |-> "seek", buf |-> <<>>] /\ toGdb' = <<>> /\ front' = "idle"
        BY <1>1, <3>1, <3>2
      <3>4. AtRest'
        BY <3>2, <3>3 DEF AtRest
      <3> QED BY <1>1, <1>2, <3>2, <3>3, <3>4 DEF AllDone, LineTypes
    <2>2. CASE ReplyRefused
      <3>1. toStub = <<Minus>> /\ toGdb = <<>> /\ front = "reply"
        BY <2>2 DEF ReplyRefused
      <3>2. Head(toStub) = Minus /\ toStub' = <<>>
        BY <1>1, <3>1, OneToken, PlusMinus
      <3>3. rx' = rx /\ Put(<<>>, reply, toGdb', noise') /\ front' = "reply" /\ reply \in Payload
        BY <1>1, <1>2, <3>1, <3>2, PlusMinus DEF LineTypes
      <3>4. toGdb' \in Seq(Tokens) /\ Len(toGdb') = 4
        BY <3>3, PutAlone
      <3>5. Replied'
        BY <1>1, <3>2, <3>3, <3>4 DEF Replied
      <3> QED BY <1>1, <1>2, <3>2, <3>3, <3>4, <3>5 DEF AllDone, LineTypes
    <2> QED BY <1>1, <1>3, <2>1, <2>2 DEF AllDone, Replied, Working
  <1>4. ASSUME NEW d \in Request, issued = Append(executed, d), Waiting(d) PROVE Waiting(d)' /\ LineTypes'
    <2>1. AckAhead(d)
      BY <1>1, <1>4 DEF Waiting, Receiving, Refused, Accepted
    <2>2. PICK q \in Seq(Tokens) : toStub = <<Plus>> \o q /\ PartOf(d, q)
      BY <2>1 DEF AckAhead
    <2>3. Head(toStub) = Plus /\ toStub' = q
      BY <1>1, <2>2, PlusAhead
    <2>4. rx' = [at |-> "seek", buf |-> <<>>] /\ toGdb' = <<>> /\ front' = "sent"
      BY <1>1, <2>1, <2>3 DEF AckAhead
    <2>5. BufOf(d, <<>>)
      BY DEF BufOf
    <2>6. Receiving(d)'
      BY <2>2, <2>3, <2>4, <2>5 DEF Receiving
    <2> QED BY <1>1, <1>2, <2>2, <2>3, <2>4, <2>6 DEF Waiting, LineTypes
  <1> QED BY <1>1, <1>3, <1>4, LineMoves

LEMMA GetPacketStep ==
  ASSUME LineInv, GetPacket
  PROVE  LineInv'
  <1>1. /\ toStub # <<>> /\ toStub' = Tail(toStub)
        /\ \/ rx.at = "seek" /\ Seek(Head(toStub))
           \/ rx.at = "data" /\ Data(Head(toStub))
           \/ rx.at = "sum" /\ Sum(Head(toStub))
        /\ UNCHANGED <<issued, executed, Htid, regs, wanted, mem, bpMap, reply, front>>
    BY DEF GetPacket, target, gdb
  <1>2. LineTypes
    BY DEF LineInv
  <1>3. ~AllDone
    BY <1>1 DEF AllDone, AtRest, Working, Replied, ReplyRefused
  <1>4. ASSUME NEW d \in Request, issued = Append(executed, d), Waiting(d) PROVE Waiting(d)' /\ LineTypes'
    <2>1. PICK t : t = Head(toStub)
      OBVIOUS
    <2>2. Receiving(d)
      BY <1>1, <1>4 DEF Waiting, AckAhead, Refused, Accepted
    <2>3. /\ toStub \in Seq(Tokens) /\ toGdb = <<>> /\ front = "sent" /\ front' = "sent"
          /\ rx.buf \in Seq(Tokens) /\ PartOf(d, toStub) /\ BufOf(d, rx.buf) /\ (rx.at = "sum" => Len(toStub) = 1)
      BY <1>1, <1>2, <2>2 DEF Receiving, LineTypes
    <2>4. /\ toStub' \in Seq(Tokens) /\ Len(toStub') = Len(toStub) - 1 /\ PartOf(d, toStub') /\ t \in Tokens
          /\ (t = Hash => Len(toStub) = 2) /\ (t.is = "data" => t.of = d)
      BY <1>1, <1>4, <2>1, <2>3, PartTaken
    <2>5. BufOf(d, <<>>)
      BY DEF BufOf
    <2>6. CASE rx.at = "seek" /\ Seek(t)
      <3>1. rx'.at \in {"seek", "data"} /\ rx'.buf = <<>> /\ toGdb' = <<>>
        BY <2>3, <2>6 DEF Seek
      <3>2. rx' \in [at : {"seek", "data", "sum", "exec", "kernel", "send", "ack"}, buf : Seq(Tokens)]
        BY <2>6 DEF Seek
      <3>3. Receiving(d)'
        BY <2>3, <2>4, <2>5, <3>1 DEF Receiving
      <3> QED BY <1>1, <1>2, <2>4, <3>1, <3>2, <3>3 DEF Waiting, LineTypes
    <2>7. CASE rx.at = "data" /\ Data(t)
      <3>1. CASE t = Hash
        <4>1. t # Dollar
          BY <1>4, <3>1, TokenFacts DEF Payload
        <4>2. rx' = [rx EXCEPT !.at = "sum"] /\ toGdb' = <<>>
          BY <2>3, <2>7, <3>1, <4>1 DEF Data
        <4>3. rx'.at = "sum" /\ rx'.buf = rx.buf
          BY <1>2, <4>2 DEF LineTypes
        <4>4. rx' \in [at : {"seek", "data", "sum", "exec", "kernel", "send", "ack"}, buf : Seq(Tokens)]
          BY <1>2, <4>2 DEF LineTypes
        <4>5. Len(toStub') = 1
          BY <2>4, <3>1
        <4>6. Receiving(d)'
          BY <2>3, <2>4, <4>2, <4>3, <4>5 DEF Receiving
        <4> QED BY <1>1, <1>2, <2>4, <4>2, <4>4, <4>6 DEF Waiting, LineTypes
      <3>2. CASE t # Hash
        <4>1. toGdb' = <<>> /\ rx'.at \in {"seek", "data"} /\ (rx'.buf = <<>> \/ rx'.buf = Append(rx.buf, t))
          BY <2>3, <2>7, <3>2 DEF Data
        <4>2. rx' = [at |-> rx'.at, buf |-> rx'.buf]
          BY <2>7, <3>2 DEF Data
        <4>3. Append(rx.buf, t) \in Seq(Tokens) /\ BufOf(d, Append(rx.buf, t))
          <5>1. PICK b : b = Append(rx.buf, t)
            OBVIOUS
          <5>2. /\ b \in Seq(Tokens) /\ Len(b) = Len(rx.buf) + 1 /\ Len(rx.buf) \in Nat
                /\ \A i \in 1 .. Len(rx.buf) : b[i] = rx.buf[i]
                /\ b[Len(rx.buf) + 1] = t
            BY <2>3, <2>4, <5>1, AppendProperties, LenProperties
          <5>3. ASSUME NEW i \in 1 .. Len(b), b[i].is = "data" PROVE b[i].of = d
            <6>1. i \in 1 .. Len(rx.buf) \/ i = Len(rx.buf) + 1
              BY <5>2
            <6> QED BY <2>3, <2>4, <5>2, <5>3, <6>1 DEF BufOf
          <5> QED BY <5>1, <5>2, <5>3 DEF BufOf
        <4>4. rx'.buf \in Seq(Tokens) /\ BufOf(d, rx'.buf)
          <5>1. <<>> \in Seq(Tokens)
            BY EmptySeq
          <5>2. CASE rx'.buf = <<>>
            BY <2>5, <5>1, <5>2
          <5>3. CASE rx'.buf = Append(rx.buf, t)
            BY <4>3, <5>3
          <5> QED BY <4>1, <5>2, <5>3
        <4>5. rx' \in [at : {"seek", "data", "sum", "exec", "kernel", "send", "ack"}, buf : Seq(Tokens)]
          BY <4>1, <4>2, <4>4
        <4>6. Receiving(d)'
          BY <2>3, <2>4, <4>1, <4>4 DEF Receiving
        <4> QED BY <1>1, <1>2, <2>4, <4>1, <4>5, <4>6 DEF Waiting, LineTypes
      <3> QED BY <3>1, <3>2
    <2>8. CASE rx.at = "sum" /\ Sum(t)
      <3>1. toStub' = <<>>
        <4>1. toStub' \in Seq(Tokens) /\ Len(toStub') = 0
          BY <2>3, <2>4, <2>8
        <4> QED BY <4>1, EmptySeq
      <3>2. CASE Len(rx.buf) = 1 /\ Head(rx.buf).is = "data" /\ t = SumOf(Head(rx.buf).of)
        <4>1. rx' = [rx EXCEPT !.at = "exec"] /\ toGdb' = <<Plus>>
          BY <2>3, <2>8, <3>2, OneToken, PlusMinus DEF Sum
        <4>2. rx'.at = "exec" /\ rx'.buf = rx.buf
          BY <1>2, <4>1 DEF LineTypes
        <4>3. rx' \in [at : {"seek", "data", "sum", "exec", "kernel", "send", "ack"}, buf : Seq(Tokens)]
          BY <1>2, <4>1 DEF LineTypes
        <4>4. rx.buf = <<DataOf(d)>>
          <5>1. PICK b : b = rx.buf
            OBVIOUS
          <5>2. b \in Seq(Tokens) /\ Len(b) = 1 /\ b[1].is = "data" /\ b[1].of = d /\ b[1] \in Tokens
            BY <2>3, <3>2, <5>1, ElementOfSeq DEF BufOf
          <5>3. b[1] = DataOf(d)
            BY <5>2 DEF DataOf, Tokens
          <5>4. b = <<b[1]>>
            BY <5>2
          <5> QED BY <5>1, <5>3, <5>4
        <4>5. Accepted(d)'
          BY <2>3, <3>1, <4>1, <4>2, <4>4 DEF Accepted
        <4>6. toGdb' \in Seq(Tokens)
          BY <4>1, OneToken, PlusMinus
        <4> QED BY <1>1, <1>2, <2>4, <4>3, <4>5, <4>6 DEF Waiting, LineTypes
      <3>3. CASE ~ (Len(rx.buf) = 1 /\ Head(rx.buf).is = "data" /\ t = SumOf(Head(rx.buf).of))
        <4>1. rx' = [at |-> "seek", buf |-> <<>>] /\ toGdb' = <<Minus>>
          BY <2>3, <2>8, <3>3, OneToken, PlusMinus DEF Sum
        <4>2. Refused'
          BY <2>3, <3>1, <4>1 DEF Refused
        <4>3. toGdb' \in Seq(Tokens)
          BY <4>1, OneToken, PlusMinus
        <4> QED BY <1>1, <1>2, <2>4, <4>1, <4>2, <4>3 DEF Waiting, LineTypes
      <3> QED BY <3>2, <3>3
    <2> QED BY <1>1, <2>1, <2>6, <2>7, <2>8
  <1> QED BY <1>1, <1>3, <1>4, LineMoves

-----------------------------------------------------------------------------
(* A request is asked, and executed.                                       *)
LEMMA RequestFacts ==
  ASSUME NEW r \in Request
  PROVE  /\ r.op = "H" => r.arg \in Cpus /\ r.arg # None
         /\ r.op \in {"Z", "z"} => r.arg \in Place
         /\ r.op \in {"H", "G", "g", "m", "Z", "z", "vCont"}
         /\ r \in Payload
  BY DEF Request, Cpus, None, Payload

LEMMA ChosenFacts ==
  ASSUME NEW s \in Seq(Request)
  PROVE  /\ ChosenBy(s) = None \/ (ChosenBy(s) \in Cpus /\ ChosenBy(s) # None)
         /\ s # <<>> /\ Last(s).op = "H" => ChosenBy(s) = Last(s).arg /\ ChosenBy(s) # None
         /\ ~ (s # <<>> /\ Last(s).op = "H") => ChosenBy(s) = None
  <1>1. Last(s) = s[Len(s)]
    BY DEF Last
  <1>2. ASSUME s # <<>> PROVE s[Len(s)] \in Request
    BY <1>2, EmptySeq, ElementOfSeq
  <1>3. s # <<>> /\ s[Len(s)].op = "H" => s[Len(s)].arg \in Cpus /\ s[Len(s)].arg # None
    BY <1>2, RequestFacts
  <1> QED BY <1>1, <1>3 DEF ChosenBy

LEMMA AskStep ==
  ASSUME LineInv, NEW r \in Request, Ask(r)
  PROVE  LineInv'
  <1>1. /\ front = "idle" /\ MemFits(r) /\ issued' = Append(issued, r) /\ front' = "sent"
        /\ wanted' = (IF r.op # "G" THEN wanted
                      ELSE [wanted EXCEPT ![IF issued # <<>> /\ Last(issued).op = "H" THEN Last(issued).arg ELSE Me] = Len(issued) + 1])
        /\ Put(toStub, r, toStub', noise')
        /\ UNCHANGED <<toGdb, rx, reply, executed, Htid, regs, mem, bpMap>>
    BY DEF Ask, target, MemFits
  <1>2. LineTypes /\ TargetTypes /\ OpcodesKept /\ Htid = ChosenBy(executed)
    BY DEF LineInv
  <1>3. executed = issued /\ regs = wanted /\ AtRest
    <2>1. \A d \in Request : ~Waiting(d)
      BY <1>1 DEF Waiting, AckAhead, Receiving, Refused, Accepted
    <2> QED BY <1>1, <2>1 DEF LineInv, Progress, AllDone, Working, Replied, ReplyRefused
  <1>4. r \in Payload
    BY RequestFacts
  <1>5. Waiting(r)' /\ toStub' \in Seq(Tokens)
    <2>1. CASE rx.at = "ack" /\ toStub = <<Plus>>
      <3>1. toStub \in Seq(Tokens)
        BY <1>2 DEF LineTypes
      <3>2. PICK q \in Seq(Tokens) : Len(q) = 4 /\ PartOf(r, q) /\ toStub' = toStub \o q
        <4>1. SentOn(toStub, r, toStub')
          BY <1>1, <1>4, PutIs
        <4> QED BY <4>1 DEF SentOn
      <3>3. toStub' = <<Plus>> \o q
        BY <2>1, <3>2
      <3>4. toStub' \in Seq(Tokens)
        BY <3>3, PlusAhead
      <3>5. AckAhead(r)'
        BY <1>1, <1>3, <2>1, <3>2, <3>3 DEF AckAhead, AtRest
      <3> QED BY <3>4, <3>5 DEF Waiting
    <2>2. CASE rx.at = "seek" /\ toStub = <<>> /\ rx.buf = <<>>
      <3>1. toStub' \in Seq(Tokens) /\ PartOf(r, toStub')
        BY <1>1, <1>4, <2>2, PutAlone
      <3>2. BufOf(r, rx.buf)
        BY <2>2 DEF BufOf
      <3>3. Receiving(r)'
        BY <1>1, <1>3, <2>2, <3>1, <3>2 DEF Receiving, AtRest
      <3> QED BY <3>1, <3>3 DEF Waiting
    <2> QED BY <1>3, <2>1, <2>2 DEF AtRest
  <1>6. issued \in Seq(Request) /\ Len(issued) \in Nat /\ issued' \in Seq(Request) /\ wanted \in [Cpus -> Nat]
    BY <1>1, <1>2, LenProperties, AppendProperties DEF TargetTypes
  <1>7. /\ (IF issued # <<>> /\ Last(issued).op = "H" THEN Last(issued).arg ELSE Me) = IF ChosenBy(executed) # None THEN ChosenBy(executed) ELSE Me
        /\ (IF ChosenBy(executed) # None THEN ChosenBy(executed) ELSE Me) \in Cpus
    <2>1. Me \in Cpus
      BY DEF Me, Cpus
    <2> QED BY <1>3, <1>6, <2>1, ChosenFacts
  <1>8. wanted' = RegsAfter(executed, r)
    BY <1>1, <1>3, <1>7 DEF RegsAfter
  <1>9. wanted' \in [Cpus -> Nat]
    BY <1>1, <1>6, <1>7
  <1>10. LineTypes' /\ TargetTypes'
    BY <1>1, <1>2, <1>5, <1>6, <1>9 DEF LineTypes, TargetTypes
  <1>11. OpcodesKept' /\ (Htid = ChosenBy(executed))'
    BY <1>1, <1>2 DEF OpcodesKept, ChosenBy
  <1>12. Progress'
    <2>1. issued' = Append(executed', r) /\ wanted' = RegsAfter(executed, r)' /\ MemFits(r)'
      BY <1>1, <1>3, <1>8 DEF RegsAfter, MemFits
    <2> QED BY <1>5, <2>1 DEF Progress
  <1> QED BY <1>10, <1>11, <1>12 DEF LineInv

LEMMA HandlePacketStep ==
  ASSUME LineInv, HandlePacket
  PROVE  LineInv'
  <1>1. LineTypes /\ TargetTypes /\ OpcodesKept /\ Htid = ChosenBy(executed) /\ rx.at = "exec"
    BY DEF LineInv, HandlePacket
  <1>2. PICK d \in Request : issued = Append(executed, d) /\ wanted = RegsAfter(executed, d) /\ MemFits(d) /\ Accepted(d)
    <2>1. ~AllDone
      BY <1>1 DEF AllDone, AtRest, Working, Replied, ReplyRefused
    <2>2. \A d \in Request : Waiting(d) => Accepted(d)
      BY <1>1 DEF Waiting, AckAhead, Receiving, Refused
    <2> QED BY <2>1, <2>2 DEF LineInv, Progress
  <1>3. Head(rx.buf).of = d
    <2>1. rx.buf = <<DataOf(d)>>
      BY <1>2 DEF Accepted
    <2>2. Head(rx.buf) = DataOf(d)
      BY <2>1
    <2> QED BY <2>2 DEF DataOf
  <1>4. /\ executed' = Append(executed, d) /\ reply' = d
        /\ Htid' = IF d.op = "H" THEN d.arg ELSE None
        /\ rx' = [rx EXCEPT !.at = IF d.op = "vCont" THEN "kernel" ELSE "send"]
        /\ UNCHANGED <<toStub, toGdb, front, issued, wanted>>
    BY <1>3 DEF HandlePacket, ResetHtid, line, gdb
  <1>5. \/ d.op \in {"H", "vCont", "g", "m"} /\ UNCHANGED <<regs, mem, bpMap>>
        \/ d.op = "G" /\ HandleWriteRegisters /\ UNCHANGED <<mem, bpMap>>
        \/ d.op = "Z" /\ HandleZ(d.arg) /\ UNCHANGED regs
        \/ d.op = "z" /\ HandleRemove(d.arg) /\ UNCHANGED regs
    BY <1>3 DEF HandlePacket
  <1>6. /\ executed \in Seq(Request) /\ issued \in Seq(Request) /\ d \in Payload
        /\ regs \in [Cpus -> Nat] /\ wanted \in [Cpus -> Nat]
        /\ mem \in [Place -> {"code", "0xcc"}] /\ bpMap \in [Place -> {"none", "code", "0xcc"}]
    BY <1>1, RequestFacts DEF TargetTypes
  <1>7. executed' = issued' /\ executed' \in Seq(Request) /\ issued' \in Seq(Request)
    BY <1>2, <1>4, <1>6
  <1>8. regs' = wanted
    <2>1. CASE d.op = "G"
      BY <1>1, <1>2, <1>5, <2>1 DEF HandleWriteRegisters, RegsAfter
    <2>2. CASE d.op # "G"
      BY <1>2, <1>5, <2>2 DEF RegsAfter
    <2> QED BY <2>1, <2>2
  <1>9. Htid' = ChosenBy(executed')
    <2>1. PICK s : s = executed'
      OBVIOUS
    <2>2. s # <<>> /\ s[Len(s)] = d
      BY <1>4, <1>6, <2>1, AppendProperties
    <2> QED BY <1>4, <2>1, <2>2 DEF ChosenBy
  <1>10. /\ OpcodesKept'
         /\ mem' \in [Place -> {"code", "0xcc"}] /\ bpMap' \in [Place -> {"none", "code", "0xcc"}]
    <2>1. CASE UNCHANGED <<mem, bpMap>>
      BY <1>1, <1>6, <2>1 DEF OpcodesKept
    <2>2. CASE d.op = "Z" /\ HandleZ(d.arg)
      <3>1. d.arg \in Place /\ mem[d.arg] = "code"
        BY <1>2, <2>2, RequestFacts DEF MemFits
      <3>2. CASE SetSoftBreak(d.arg)
        BY <1>1, <1>6, <3>1, <3>2 DEF SetSoftBreak, OpcodesKept
      <3> QED BY <2>1, <2>2, <3>2 DEF HandleZ
    <2>3. CASE d.op = "z" /\ HandleRemove(d.arg)
      <3>1. d.arg \in Place /\ mem[d.arg] = "0xcc"
        BY <1>2, <2>3, RequestFacts DEF MemFits
      <3>2. bpMap[d.arg] = "code"
        BY <1>1, <3>1 DEF OpcodesKept
      <3> QED BY <1>1, <1>6, <2>3, <3>1, <3>2 DEF HandleRemove, OpcodesKept
    <2> QED BY <1>5, <2>1, <2>2, <2>3
  <1>11. rx'.at \in {"kernel", "send"} /\ LineTypes'
    BY <1>1, <1>4, <1>6 DEF LineTypes
  <1>12. TargetTypes'
    BY <1>4, <1>6, <1>7, <1>8, <1>10 DEF TargetTypes
  <1>13. Progress'
    <2>1. Working'
      BY <1>2, <1>4, <1>11 DEF Working, Accepted
    <2> QED BY <1>4, <1>7, <1>8, <2>1 DEF Progress, AllDone
  <1> QED BY <1>9, <1>10, <1>11, <1>12, <1>13 DEF LineInv

LEMMA LineInitInv ==
  ASSUME LineInit
  PROVE  LineInv
  <1>1. LineTypes /\ TargetTypes
    BY DEF LineInit, LineTypes, TargetTypes, Payload, None
  <1>2. OpcodesKept /\ Htid = ChosenBy(executed)
    BY DEF LineInit, OpcodesKept, ChosenBy
  <1>3. AtRest /\ executed = issued /\ regs = wanted
    BY DEF LineInit, AtRest
  <1> QED BY <1>1, <1>2, <1>3 DEF LineInv, Progress, AllDone

LEMMA LineInvSound ==
  ASSUME LineInv
  PROVE  LineSound
  <1>1. executed \in Seq(Request) /\ issued \in Seq(Request) /\ Len(executed) \in Nat /\ OpcodesKept
    BY LenProperties DEF LineInv, TargetTypes
  <1>2. CASE executed = issued /\ regs = wanted /\ AllDone
    <2>1. rx.at # "exec"
      BY <1>2 DEF AllDone, AtRest, Working, Replied, ReplyRefused
    <2>2. IsPrefix(executed, issued)
      BY <1>1, <1>2 DEF IsPrefix
    <2>3. ExactlyOnce
      BY <1>1, <1>2, <2>1, <2>2 DEF ExactlyOnce
    <2> QED BY <1>1, <1>2, <2>3 DEF LineSound, RegistersAsMeant
  <1>3. CASE \E d \in Request : issued = Append(executed, d) /\ wanted = RegsAfter(executed, d) /\ MemFits(d) /\ Waiting(d)
    <2>1. PICK d \in Request : issued = Append(executed, d) /\ Waiting(d)
      BY <1>3
    <2>2. /\ Len(issued) = Len(executed) + 1
          /\ \A i \in 1 .. Len(executed) : issued[i] = executed[i]
      BY <1>1, <2>1, AppendProperties
    <2>3. IsPrefix(executed, issued)
      BY <1>1, <2>1, <2>2 DEF IsPrefix
    <2>4. front \in {"idle", "reply"} => rx.at = "exec"
      BY <2>1 DEF Waiting, AckAhead, Receiving, Refused, Accepted
    <2>5. ExactlyOnce
      BY <1>1, <2>2, <2>3, <2>4 DEF ExactlyOnce
    <2>6. RegistersAsMeant
      BY <1>1, <2>2 DEF RegistersAsMeant
    <2> QED BY <1>1, <2>5, <2>6 DEF LineSound
  <1> QED BY <1>2, <1>3 DEF LineInv, Progress

(* For any number of requests and breakpoints, any size of the packet      *)
(* buffer and any number of garbled tokens: each request of the front end  *)
(* is executed once and in order, register packets reach the CPU that the  *)
(* front end means, and the opcode under a breakpoint is kept (Gdb.cc      *)
(* getpacket, putpacket, handlePacket).                                    *)
THEOREM LineStaysSound == LineSpec => []LineSound
  <1>1. LineInit => LineInv
    BY LineInitInv
  <1>2. LineInv /\ [LineNext]_lineVars => LineInv'
    <2> SUFFICES ASSUME LineInv, [LineNext]_lineVars PROVE LineInv'
      OBVIOUS
    <2>1. CASE UNCHANGED lineVars
      <3>1. UNCHANGED <<toStub, toGdb, rx, reply, front, issued, executed, Htid, regs, wanted, mem, bpMap>>
        BY <2>1 DEF lineVars, line, gdb, target
      <3>2. LineTypes'
        BY <3>1 DEF LineInv, LineTypes
      <3>3. AllDone => AllDone'
        BY <3>1 DEF AllDone, AtRest, Working, Replied, ReplyRefused
      <3>4. \A d \in Request : Waiting(d) => Waiting(d)'
        BY <3>1 DEF Waiting, AckAhead, Receiving, Refused, Accepted
      <3> QED BY <3>1, <3>2, <3>3, <3>4, LineMoves
    <2>2. ASSUME NEW r \in Request, Ask(r) PROVE LineInv'
      BY <2>2, AskStep
    <2>3. CASE Transport
      BY <2>3, FrontAckStep, FrontReplyStep, FrontTimeoutStep, GetPacketStep, HandlePacketStep, StopReplyStep,
         PutPacketStep, PutAckStep DEF Transport
    <2> QED BY <2>1, <2>2, <2>3 DEF LineNext, LineQuiet
  <1>3. LineInv => LineSound
    BY LineInvSound
  <1> QED BY <1>1, <1>2, <1>3, PTL DEF LineSpec

-----------------------------------------------------------------------------
(* The tables, and what the keyboard sends for a key.                      *)
Scan == {28, 22, 108, 113, 18, 20, 17, 88, 119, 124, 90}

LEMMA TableAT ==
  /\ ATtoXT[28] = 30 /\ ATtoXT[22] = 2 /\ ATtoXT[108] = 71 /\ ATtoXT[113] = 83 /\ ATtoXT[18] = 42
  /\ ATtoXT[20] = 29 /\ ATtoXT[17] = 56 /\ ATtoXT[88] = 58 /\ ATtoXT[119] = 69 /\ ATtoXT[124] = 55
  /\ ATtoXT[90] = 28 /\ DOMAIN ATtoXT = Scan
  BY DEF ATtoXT, Scan

LEMMA TableXT ==
  /\ XTtoKey[30] = <<"a", "UNKNOWN">> /\ XTtoKey[2] = <<"1", "UNKNOWN">> /\ XTtoKey[71] = <<"KP_7", "HOME">>
  /\ XTtoKey[83] = <<"KP_DOT", "DELETE">> /\ XTtoKey[42] = <<"LSHIFT", "PRTSCR">> /\ XTtoKey[29] = <<"LCTRL", "RCTRL">>
  /\ XTtoKey[56] = <<"LALT", "RALT">> /\ XTtoKey[58] = <<"CAPSLOCK", "UNKNOWN">>
  /\ XTtoKey[69] = <<"KP_NUMLOCK", "UNKNOWN">> /\ XTtoKey[55] = <<"KP_ASTERISK", "PRTSCR">>
  /\ XTtoKey[28] = <<"ENTER", "KP_ENTER">>
  BY DEF XTtoKey

KeyAt(c, x) == XTtoKey[ATtoXT[c]][x]

LEMMA Keys ==
  /\ KeyAt(28, 1) = "a" /\ KeyAt(28, 2) = "UNKNOWN" /\ KeyAt(22, 1) = "1" /\ KeyAt(22, 2) = "UNKNOWN"
  /\ KeyAt(108, 1) = "KP_7" /\ KeyAt(108, 2) = "HOME" /\ KeyAt(113, 1) = "KP_DOT" /\ KeyAt(113, 2) = "DELETE"
  /\ KeyAt(18, 1) = "LSHIFT" /\ KeyAt(18, 2) = "PRTSCR" /\ KeyAt(20, 1) = "LCTRL" /\ KeyAt(20, 2) = "RCTRL"
  /\ KeyAt(17, 1) = "LALT" /\ KeyAt(17, 2) = "RALT" /\ KeyAt(88, 1) = "CAPSLOCK" /\ KeyAt(88, 2) = "UNKNOWN"
  /\ KeyAt(119, 1) = "KP_NUMLOCK" /\ KeyAt(119, 2) = "UNKNOWN" /\ KeyAt(124, 1) = "KP_ASTERISK"
  /\ KeyAt(124, 2) = "PRTSCR" /\ KeyAt(90, 1) = "ENTER" /\ KeyAt(90, 2) = "KP_ENTER"
  BY TableAT, TableXT DEF KeyAt

(* The one code of a key that has one.                                     *)
LEMMA CodeIs ==
  ASSUME NEW k, NEW c \in Scan, NEW x \in {1, 2}, KeyAt(c, x) = k,
         \A d \in Scan, y \in {1, 2} : KeyAt(d, y) = k => d = c
  PROVE  Code(k) = c
  BY TableAT DEF Code, KeyAt

Single == {"a", "1", "KP_7", "LSHIFT", "LALT", "CAPSLOCK", "KP_NUMLOCK"}
Double == {"HOME", "DELETE", "KP_ENTER", "RCTRL"}

LEMMA Codes ==
  ASSUME NEW k
  PROVE  /\ k \in Single => Code(k) \in Scan /\ KeyAt(Code(k), 1) = k /\ ~ IsExtended(k)
         /\ k \in Double => Code(k) \in Scan /\ KeyAt(Code(k), 2) = k /\ IsExtended(k)
         /\ k \in Single => Code(k) # 20
  <1>1. ASSUME NEW c \in Scan, NEW x \in {1, 2}, KeyAt(c, x) = k,
               \A d \in Scan, y \in {1, 2} : KeyAt(d, y) = k => d = c
        PROVE  Code(k) = c /\ (IsExtended(k) <=> KeyAt(c, 2) = k)
    BY <1>1, CodeIs DEF IsExtended, KeyAt
  <1>a. CASE k = "a"
    <2>1. Code(k) = 28 /\ (IsExtended(k) <=> KeyAt(28, 2) = k)
      BY <1>a, <1>1, Keys DEF Scan
    <2> QED BY <1>a, <2>1, Keys DEF Scan, Single, Double
  <1>b. CASE k = "1"
    <2>1. Code(k) = 22 /\ (IsExtended(k) <=> KeyAt(22, 2) = k)
      BY <1>b, <1>1, Keys DEF Scan
    <2> QED BY <1>b, <2>1, Keys DEF Scan, Single, Double
  <1>c. CASE k = "KP_7"
    <2>1. Code(k) = 108 /\ (IsExtended(k) <=> KeyAt(108, 2) = k)
      BY <1>c, <1>1, Keys DEF Scan
    <2> QED BY <1>c, <2>1, Keys DEF Scan, Single, Double
  <1>d. CASE k = "LSHIFT"
    <2>1. Code(k) = 18 /\ (IsExtended(k) <=> KeyAt(18, 2) = k)
      BY <1>d, <1>1, Keys DEF Scan
    <2> QED BY <1>d, <2>1, Keys DEF Scan, Single, Double
  <1>e. CASE k = "LALT"
    <2>1. Code(k) = 17 /\ (IsExtended(k) <=> KeyAt(17, 2) = k)
      BY <1>e, <1>1, Keys DEF Scan
    <2> QED BY <1>e, <2>1, Keys DEF Scan, Single, Double
  <1>f. CASE k = "CAPSLOCK"
    <2>1. Code(k) = 88 /\ (IsExtended(k) <=> KeyAt(88, 2) = k)
      BY <1>f, <1>1, Keys DEF Scan
    <2> QED BY <1>f, <2>1, Keys DEF Scan, Single, Double
  <1>g. CASE k = "KP_NUMLOCK"
    <2>1. Code(k) = 119 /\ (IsExtended(k) <=> KeyAt(119, 2) = k)
      BY <1>g, <1>1, Keys DEF Scan
    <2> QED BY <1>g, <2>1, Keys DEF Scan, Single, Double
  <1>h. CASE k = "HOME"
    <2>1. Code(k) = 108 /\ (IsExtended(k) <=> KeyAt(108, 2) = k)
      BY <1>h, <1>1, Keys DEF Scan
    <2> QED BY <1>h, <2>1, Keys DEF Scan, Single, Double
  <1>i. CASE k = "DELETE"
    <2>1. Code(k) = 113 /\ (IsExtended(k) <=> KeyAt(113, 2) = k)
      BY <1>i, <1>1, Keys DEF Scan
    <2> QED BY <1>i, <2>1, Keys DEF Scan, Single, Double
  <1>j. CASE k = "KP_ENTER"
    <2>1. Code(k) = 90 /\ (IsExtended(k) <=> KeyAt(90, 2) = k)
      BY <1>j, <1>1, Keys DEF Scan
    <2> QED BY <1>j, <2>1, Keys DEF Scan, Single, Double
  <1>k. CASE k = "RCTRL"
    <2>1. Code(k) = 20 /\ (IsExtended(k) <=> KeyAt(20, 2) = k)
      BY <1>k, <1>1, Keys DEF Scan
    <2> QED BY <1>k, <2>1, Keys DEF Scan, Single, Double
  <1> QED BY <1>a, <1>b, <1>c, <1>d, <1>e, <1>f, <1>g, <1>h, <1>i, <1>j, <1>k DEF Single, Double

LEMMA PhysicalIs == Physical = Single \cup Double \cup {"PAUSE", "PRTSCR"}
  BY DEF Physical, Modifier, LockKey, Single, Double

(* The bytes of a key.                                                     *)
LEMMA MakeIs ==
  ASSUME NEW k
  PROVE  /\ k \in Single => Make(k) = <<Code(k)>>
         /\ k \in Double => Make(k) = <<E0, Code(k)>>
         /\ k = "PAUSE" => Make(k) = <<E1, 20, 119, E1, F0, 20, F0, 119>>
         /\ k = "PRTSCR" => Make(k) = <<E0, 18, E0, 124>>
  <1>1. k \in Single \cup Double => k # "PAUSE" /\ k # "PRTSCR"
    BY DEF Single, Double
  <1> QED BY <1>1, Codes DEF Make

LEMMA BreakIs ==
  ASSUME NEW k
  PROVE  /\ k \in Single => Break(k) = <<F0, Code(k)>>
         /\ k \in Double => Break(k) = <<E0, F0, Code(k)>>
         /\ k = "PAUSE" => Break(k) = <<>>
         /\ k = "PRTSCR" => Break(k) = <<E0, F0, 124, E0, F0, 18>>
  <1>1. k \in Single \cup Double => k # "PAUSE" /\ k # "PRTSCR"
    BY DEF Single, Double
  <1> QED BY <1>1, Codes DEF Break
-----------------------------------------------------------------------------
(* The handler as a function of its state and the next byte.               *)
KbState == [is_break : BOOLEAN, mods : SUBSET Modifier, led : SUBSET LockKey, acks : Int, extended : 0 .. 3]
Symbol == {"a", "1", "KP_7", "HOME", "KP_DOT", "DELETE", "LSHIFT", "PRTSCR", "LCTRL", "RCTRL", "LALT", "RALT",
           "CAPSLOCK", "KP_NUMLOCK", "KP_ASTERISK", "ENTER", "KP_ENTER", "PAUSE", "UNKNOWN",
           "A", "^a", "!", "7", ".", "*", "ESCAPE"}
Decoder == [b : KbState, s : Seq(Symbol)]
Marks == {E0, E1, F0, Ack}

Emits(b, key) == (IF "LALT" \in b.mods THEN <<"ESCAPE">> ELSE <<>>) \o <<Shifted(b, key)>>
Made(b, key) ==
  IF key \in Modifier THEN [b EXCEPT !.mods = @ \cup {key}] ELSE IF key \in LockKey THEN Toggle(b, key) ELSE b
Typed(b, key, s) == IF key \in Modifier \cup LockKey THEN s ELSE s \o Emits(b, key)

Reads(d, c, e) ==
  /\ Asserts(d.b, c)
  /\ c \in Marks => e.b = Prefix(d.b, c) /\ e.s = d.s
  /\ c \notin Marks /\ Half(d.b, c) => e.b = [d.b EXCEPT !.extended = 3] /\ e.s = d.s
  /\ c \notin Marks /\ ~ Half(d.b, c) /\ d.b.is_break => e.b = Released(d.b, KeyOf(d.b, c)) /\ e.s = d.s
  /\ c \notin Marks /\ ~ Half(d.b, c) /\ ~ d.b.is_break =>
       LET key == KeyOf(d.b, c)
       IN e.b = Made(Complete(d.b), key) /\ e.s = Typed(Complete(d.b), key, d.s)

(* The fields of a decoder's state that the user can tell.                 *)
Decoding(d, x, brk, m, l, s) ==
  d \in Decoder /\ d.b.extended = x /\ d.b.is_break = brk /\ d.b.mods = m /\ d.b.led = l /\ d.s = s

LEMMA MarksRead ==
  ASSUME NEW d, NEW x, NEW brk, NEW m, NEW l, NEW s, Decoding(d, x, brk, m, l, s)
  PROVE  /\ x = 0 => \E e : Reads(d, E0, e) /\ Decoding(e, 1, brk, m, l, s)
         /\ x = 0 => \E e : Reads(d, E1, e) /\ Decoding(e, 2, brk, m, l, s)
         /\ \E e : Reads(d, F0, e) /\ Decoding(e, x, TRUE, m, l, s)
         /\ \E e : Reads(d, Ack, e) /\ Decoding(e, x, brk, m, l, s)
  <1>1. d.b \in KbState /\ d.s \in Seq(Symbol) /\ d.b.extended = x /\ d.s = s /\ d.b.is_break = brk
        /\ d.b.mods = m /\ d.b.led = l
    BY DEF Decoding, Decoder
  <1>2. ASSUME NEW c \in Marks, NEW y, Decoding([b |-> Prefix(d.b, c), s |-> s], y, brk, m, l, s), c \in {E0, E1} => x = 0
        PROVE  \E e : Reads(d, c, e) /\ Decoding(e, y, brk, m, l, s)
    <2>1. Asserts(d.b, c)
      BY <1>1, <1>2 DEF Asserts, Marks
    <2>2. Reads(d, c, [b |-> Prefix(d.b, c), s |-> s])
      BY <1>1, <1>2, <2>1 DEF Reads
    <2> QED BY <1>2, <2>2
  <1>3. Prefix(d.b, E0) = [d.b EXCEPT !.extended = 1] /\ Prefix(d.b, E1) = [d.b EXCEPT !.extended = 2]
        /\ Prefix(d.b, Ack) = [d.b EXCEPT !.acks = @ - 1] /\ Prefix(d.b, F0) = [d.b EXCEPT !.is_break = TRUE]
    BY DEF Prefix, E0, E1, Ack, F0
  <1>4. E0 \in Marks /\ E1 \in Marks /\ F0 \in Marks /\ Ack \in Marks /\ F0 \notin {E0, E1} /\ Ack \notin {E0, E1}
    BY DEF Marks, E0, E1, Ack, F0
  <1>5. Decoding([b |-> Prefix(d.b, E0), s |-> s], 1, brk, m, l, s)
    BY <1>1, <1>3 DEF Decoding, Decoder, KbState
  <1>6. Decoding([b |-> Prefix(d.b, E1), s |-> s], 2, brk, m, l, s)
    BY <1>1, <1>3 DEF Decoding, Decoder, KbState
  <1>7. Decoding([b |-> Prefix(d.b, F0), s |-> s], x, TRUE, m, l, s)
    BY <1>1, <1>3 DEF Decoding, Decoder, KbState
  <1>8. Decoding([b |-> Prefix(d.b, Ack), s |-> s], x, brk, m, l, s)
    BY <1>1, <1>3 DEF Decoding, Decoder, KbState
  <1>9. \E e : Reads(d, F0, e) /\ Decoding(e, x, TRUE, m, l, s)
    <2>1. Asserts(d.b, F0)
      BY <1>4 DEF Asserts, Marks
    <2>2. Reads(d, F0, [b |-> Prefix(d.b, F0), s |-> s])
      BY <1>1, <1>4, <2>1 DEF Reads
    <2> QED BY <1>7, <2>2
  <1>10. \E e : Reads(d, Ack, e) /\ Decoding(e, x, brk, m, l, s)
    BY <1>2, <1>4, <1>8
  <1>11. x = 0 => \E e : Reads(d, E0, e) /\ Decoding(e, 1, brk, m, l, s)
    BY <1>2, <1>4, <1>5
  <1>12. x = 0 => \E e : Reads(d, E1, e) /\ Decoding(e, 2, brk, m, l, s)
    BY <1>2, <1>4, <1>6
  <1> QED BY <1>9, <1>10, <1>11, <1>12

(* What a make code adds to the modifiers, the LEDs and the output.        *)
ModsOf(m, key) == IF key \in Modifier THEN m \cup {key} ELSE m
LedOf(l, key) == IF key \in LockKey THEN (l \ {key}) \cup ({key} \ l) ELSE l
Out(m, l, key) == IF key \in Modifier \cup LockKey THEN <<>> ELSE Emits([mods |-> m, led |-> l], key)

LEMMA ScanNoMark ==
  ASSUME NEW c \in Scan
  PROVE  c \notin Marks /\ c \notin {E0, E1, F0, Ack} /\ c \in Nat /\ c # Ack
  BY DEF Scan, Marks, E0, E1, F0, Ack

Special == {"a", "1", "KP_7", "KP_DOT", "KP_ENTER", "KP_ASTERISK"}

LEMMA ShiftedIs ==
  ASSUME NEW b
  PROVE  /\ Shifted(b, "a") = IF "LSHIFT" \in b.mods \/ "CAPSLOCK" \in b.led THEN "A" ELSE IF "RCTRL" \in b.mods THEN "^a" ELSE "a"
         /\ Shifted(b, "1") = IF "LSHIFT" \in b.mods THEN "!" ELSE "1"
         /\ Shifted(b, "KP_7") = IF "KP_NUMLOCK" \in b.led THEN "7" ELSE "HOME"
         /\ Shifted(b, "KP_DOT") = IF "KP_NUMLOCK" \in b.led THEN "." ELSE "DELETE"
         /\ Shifted(b, "KP_ENTER") = "ENTER" /\ Shifted(b, "KP_ASTERISK") = "*"
         /\ \A key : key \notin Special => Shifted(b, key) = key
  <1>1. Shifted(b, "a") = IF "LSHIFT" \in b.mods \/ "CAPSLOCK" \in b.led THEN "A" ELSE IF "RCTRL" \in b.mods THEN "^a" ELSE "a"
    BY DEF Shifted
  <1>2. Shifted(b, "1") = IF "LSHIFT" \in b.mods THEN "!" ELSE "1"
    BY DEF Shifted
  <1>3. Shifted(b, "KP_7") = IF "KP_NUMLOCK" \in b.led THEN "7" ELSE "HOME"
    BY DEF Shifted
  <1>4. Shifted(b, "KP_DOT") = IF "KP_NUMLOCK" \in b.led THEN "." ELSE "DELETE"
    BY DEF Shifted
  <1>5. Shifted(b, "KP_ENTER") = "ENTER" /\ Shifted(b, "KP_ASTERISK") = "*"
    BY DEF Shifted
  <1>6. ASSUME NEW key, key \notin Special PROVE Shifted(b, key) = key
    BY <1>6 DEF Shifted, Special
  <1> QED BY <1>1, <1>2, <1>3, <1>4, <1>5, <1>6

LEMMA ShiftedSame ==
  ASSUME NEW b, NEW r, b.mods = r.mods, b.led = r.led, NEW key \in Symbol
  PROVE  Shifted(b, key) = Shifted(r, key) /\ Shifted(b, key) \in Symbol
  <1>1. {"a", "A", "^a", "1", "!", "7", "HOME", ".", "DELETE", "ENTER", "*"} \subseteq Symbol
    BY DEF Symbol
  <1>a. CASE key = "a"
    BY <1>1, <1>a, ShiftedIs
  <1>b. CASE key = "1"
    BY <1>1, <1>b, ShiftedIs
  <1>c. CASE key = "KP_7"
    BY <1>1, <1>c, ShiftedIs
  <1>d. CASE key = "KP_DOT"
    BY <1>1, <1>d, ShiftedIs
  <1>e. CASE key \in {"KP_ENTER", "KP_ASTERISK"}
    BY <1>1, <1>e, ShiftedIs
  <1>f. CASE key \notin Special
    BY <1>f, ShiftedIs
  <1> QED BY <1>a, <1>b, <1>c, <1>d, <1>e, <1>f DEF Special

LEMMA ShortSeq ==
  ASSUME NEW S, NEW t \in S, NEW u \in S, NEW q \in {<<>>, <<u>>}
  PROVE  q \o <<t>> \in Seq(S)
  <1>1. <<t>> \in Seq(S) /\ <<u>> \in Seq(S) /\ <<>> \in Seq(S)
    OBVIOUS
  <1>2. q \in Seq(S)
    BY <1>1
  <1> QED BY <1>1, <1>2

LEMMA OutIs ==
  ASSUME NEW d, NEW x, NEW m, NEW l, NEW s, Decoding(d, x, FALSE, m, l, s), NEW key \in Symbol
  PROVE  LET b == Complete(d.b)
         IN Decoding([b |-> Made(b, key), s |-> Typed(b, key, s)], 0, FALSE, ModsOf(m, key), LedOf(l, key), s \o Out(m, l, key))
  <1>1. d.b \in KbState /\ d.s \in Seq(Symbol) /\ d.b.extended = x /\ d.s = s /\ d.b.is_break = FALSE
        /\ d.b.mods = m /\ d.b.led = l
    BY DEF Decoding, Decoder
  <1>2. PICK b : b = Complete(d.b)
    OBVIOUS
  <1>3. b \in KbState /\ b.extended = 0 /\ b.is_break = FALSE /\ b.mods = m /\ b.led = l
    BY <1>1, <1>2 DEF Complete, KbState
  <1>4. /\ Made(b, key) \in KbState /\ Made(b, key).extended = 0 /\ Made(b, key).is_break = FALSE
        /\ Made(b, key).mods = ModsOf(m, key) /\ Made(b, key).led = LedOf(l, key)
    <2>1. CASE key \in Modifier
      <3>1. Made(b, key) = [b EXCEPT !.mods = @ \cup {key}] /\ key \notin LockKey
        BY <2>1 DEF Made, Modifier, LockKey
      <3> QED BY <1>3, <2>1, <3>1 DEF KbState, ModsOf, LedOf
    <2>2. CASE key \in LockKey
      <3>1. Made(b, key) = [b EXCEPT !.led = (@ \ {key}) \cup ({key} \ @), !.acks = @ + 2] /\ key \notin Modifier
        BY <2>2 DEF Made, Toggle, Modifier, LockKey
      <3>2. PICK L, A : L = (b.led \ {key}) \cup ({key} \ b.led) /\ A = b.acks + 2
        OBVIOUS
      <3>3. Made(b, key) = [b EXCEPT !.led = L, !.acks = A] /\ L \in SUBSET LockKey /\ A \in Int
        BY <1>3, <2>2, <3>1, <3>2 DEF KbState
      <3>4. /\ Made(b, key) \in KbState /\ Made(b, key).extended = 0 /\ Made(b, key).is_break = FALSE
            /\ Made(b, key).mods = m /\ Made(b, key).led = L
        BY <1>3, <3>3 DEF KbState
      <3> QED BY <1>3, <2>2, <3>1, <3>2, <3>4 DEF ModsOf, LedOf
    <2>3. CASE key \notin Modifier \cup LockKey
      BY <1>3, <2>3 DEF Made, ModsOf, LedOf
    <2> QED BY <2>1, <2>2, <2>3
  <1>5. Shifted(b, key) = Shifted([mods |-> m, led |-> l], key) /\ Shifted(b, key) \in Symbol
    <2>1. PICK r : r = [mods |-> m, led |-> l]
      OBVIOUS
    <2>2. r.mods = m /\ r.led = l
      BY <2>1
    <2>3. Shifted(b, key) = Shifted(r, key) /\ Shifted(b, key) \in Symbol
      BY <1>3, <2>2, ShiftedSame
    <2> QED BY <2>1, <2>3
  <1>6. Emits(b, key) = Emits([mods |-> m, led |-> l], key) /\ Emits(b, key) \in Seq(Symbol)
    <2>1. [mods |-> m, led |-> l].mods = m
      OBVIOUS
    <2>2. PICK t : t = Shifted(b, key)
      BY Zenon
    <2>3. t \in Symbol /\ Emits(b, key) = (IF "LALT" \in m THEN <<"ESCAPE">> ELSE <<>>) \o <<t>>
      BY <1>3, <1>5, <2>2 DEF Emits
    <2>4. Emits([mods |-> m, led |-> l], key) = (IF "LALT" \in m THEN <<"ESCAPE">> ELSE <<>>) \o <<t>>
      BY <1>5, <2>1, <2>2 DEF Emits
    <2>5. (IF "LALT" \in m THEN <<"ESCAPE">> ELSE <<>>) \o <<t>> \in Seq(Symbol)
      <3>1. t \in Symbol
        BY <2>3
      <3>2. "ESCAPE" \in Symbol
        BY DEF Symbol
      <3> QED BY <3>1, <3>2, ShortSeq
    <2> QED BY <2>3, <2>4, <2>5
  <1>7. Typed(b, key, s) = s \o Out(m, l, key) /\ Typed(b, key, s) \in Seq(Symbol)
    <2>1. CASE key \in Modifier \cup LockKey
      <3>1. s \in Seq(Symbol) /\ s \o <<>> = s
        BY <1>1
      <3> QED BY <2>1, <3>1 DEF Typed, Out
    <2>2. CASE key \notin Modifier \cup LockKey
      <3>1. Typed(b, key, s) = s \o Emits(b, key) /\ Out(m, l, key) = Emits(b, key)
        BY <1>6, <2>2 DEF Typed, Out
      <3>2. PICK t : t = Emits(b, key)
        BY Zenon
      <3>3. t \in Seq(Symbol) /\ s \in Seq(Symbol) /\ s \o t \in Seq(Symbol)
        BY <1>1, <1>6, <3>2
      <3> QED BY <3>1, <3>2, <3>3
    <2> QED BY <2>1, <2>2
  <1> QED BY <1>2, <1>4, <1>7 DEF Decoding, Decoder

LEMMA KeyOfIs ==
  ASSUME NEW d, NEW x, NEW brk, NEW m, NEW l, NEW s, Decoding(d, x, brk, m, l, s), NEW c \in Scan
  PROVE  /\ x \in {0, 1} => Asserts(d.b, c) /\ ~ Half(d.b, c) /\ KeyOf(d.b, c) = KeyAt(c, x + 1) /\ KeyOf(d.b, c) \in Symbol
         /\ x = 2 /\ c = 20 => Asserts(d.b, c) /\ Half(d.b, c)
         /\ x = 3 /\ c = 119 => Asserts(d.b, c) /\ ~ Half(d.b, c) /\ KeyOf(d.b, c) = "PAUSE" /\ KeyOf(d.b, c) \in Symbol
  <1>1. d.b.extended = x
    BY DEF Decoding
  <1>2. c \notin {E0, E1, F0, Ack} /\ c \in DOMAIN ATtoXT
    BY ScanNoMark, TableAT
  <1>3. CASE x \in {0, 1}
    <2>1. ~ Half(d.b, c) /\ Asserts(d.b, c)
      BY <1>1, <1>2, <1>3 DEF Asserts, Half
    <2>2. KeyOf(d.b, c) = KeyAt(c, x + 1)
      BY <1>1, <1>3 DEF KeyOf, KeyAt
    <2>3. KeyAt(c, x + 1) \in Symbol
      <3>1. KeyAt(c, 1) \in Symbol /\ KeyAt(c, 2) \in Symbol
        BY Keys DEF Scan, Symbol
      <3> QED BY <1>3, <3>1
    <2> QED BY <1>3, <2>1, <2>2, <2>3
  <1>4. CASE x = 2 /\ c = 20
    BY <1>1, <1>2, <1>4, TableAT DEF Asserts, Half
  <1>5. CASE x = 3 /\ c = 119
    <2>1. Asserts(d.b, c) /\ ~ Half(d.b, c) /\ KeyOf(d.b, c) = "PAUSE"
      BY <1>1, <1>2, <1>5, TableAT DEF Asserts, Half, KeyOf
    <2> QED BY <1>5, <2>1 DEF Symbol
  <1> QED BY <1>3, <1>4, <1>5

LEMMA MakeRead ==
  ASSUME NEW d, NEW x, NEW m, NEW l, NEW s, Decoding(d, x, FALSE, m, l, s), NEW c \in Scan, NEW key \in Symbol,
         Asserts(d.b, c), ~ Half(d.b, c), KeyOf(d.b, c) = key
  PROVE  \E e : Reads(d, c, e) /\ Decoding(e, 0, FALSE, ModsOf(m, key), LedOf(l, key), s \o Out(m, l, key))
  <1>1. PICK b, B, t : b = Complete(d.b) /\ B = Made(b, key) /\ t = Typed(b, key, s)
    BY Zenon
  <1>2. PICK e : e = [b |-> B, s |-> t]
    OBVIOUS
  <1>3. Decoding(e, 0, FALSE, ModsOf(m, key), LedOf(l, key), s \o Out(m, l, key))
    BY <1>1, <1>2, OutIs
  <1>4. e.b = B /\ e.s = t /\ d.b.is_break = FALSE /\ d.s = s /\ c \notin Marks
    BY <1>2, ScanNoMark DEF Decoding
  <1>5. Reads(d, c, e)
    BY <1>1, <1>4 DEF Reads
  <1> QED BY <1>3, <1>5

LEMMA BreakRead ==
  ASSUME NEW d, NEW x, NEW m, NEW l, NEW s, Decoding(d, x, TRUE, m, l, s), NEW c \in Scan, NEW key,
         Asserts(d.b, c), ~ Half(d.b, c), KeyOf(d.b, c) = key
  PROVE  \E e : Reads(d, c, e) /\ Decoding(e, 0, FALSE, IF key \in Modifier THEN m \ {key} ELSE m, l, s)
  <1>1. d.b \in KbState /\ d.s \in Seq(Symbol) /\ d.s = s /\ d.b.is_break = TRUE /\ d.b.mods = m /\ d.b.led = l
    BY DEF Decoding, Decoder
  <1>2. PICK B, e, M : B = Released(d.b, key) /\ e = [b |-> B, s |-> s] /\ M = IF key \in Modifier THEN m \ {key} ELSE m
    OBVIOUS
  <1>3. M \in SUBSET Modifier
    BY <1>1, <1>2 DEF KbState
  <1>4. PICK C, D : C = Complete(d.b) /\ D = [C EXCEPT !.is_break = FALSE]
    OBVIOUS
  <1>5. B \in KbState /\ B.extended = 0 /\ B.is_break = FALSE /\ B.mods = M /\ B.led = l
    <2>1. C \in KbState /\ C.extended = 0 /\ C.mods = m /\ C.led = l
      BY <1>1, <1>4 DEF Complete, KbState
    <2>2. D \in KbState /\ D.extended = 0 /\ D.is_break = FALSE /\ D.mods = m /\ D.led = l
      BY <1>4, <2>1 DEF KbState
    <2>3. B = [D EXCEPT !.mods = M]
      BY <1>2, <1>4, <2>1, <2>2 DEF Released, KbState
    <2> QED BY <1>3, <2>2, <2>3 DEF KbState
  <1>6. e.b = B /\ e.s = s /\ c \notin Marks
    BY <1>2, ScanNoMark
  <1>7. Reads(d, c, e)
    BY <1>1, <1>2, <1>6 DEF Reads
  <1>8. Decoding(e, 0, FALSE, M, l, s)
    BY <1>1, <1>2, <1>5, <1>6 DEF Decoding, Decoder
  <1> QED BY <1>2, <1>7, <1>8

LEMMA HalfRead ==
  ASSUME NEW d, NEW brk, NEW m, NEW l, NEW s, Decoding(d, 2, brk, m, l, s)
  PROVE  \E e : Reads(d, 20, e) /\ Decoding(e, 3, brk, m, l, s)
  <1>1. d.b \in KbState /\ d.s \in Seq(Symbol) /\ d.s = s /\ d.b.is_break = brk /\ d.b.mods = m /\ d.b.led = l
    BY DEF Decoding, Decoder
  <1>2. PICK B, e : B = [d.b EXCEPT !.extended = 3] /\ e = [b |-> B, s |-> s]
    OBVIOUS
  <1>3. B \in KbState /\ B.extended = 3 /\ B.is_break = brk /\ B.mods = m /\ B.led = l
    BY <1>1, <1>2 DEF KbState
  <1>4. e.b = B /\ e.s = s
    BY <1>2
  <1>5. 20 \in Scan
    BY DEF Scan
  <1>6. 20 \notin Marks /\ Asserts(d.b, 20) /\ Half(d.b, 20)
    BY <1>5, ScanNoMark, KeyOfIs
  <1>7. Reads(d, 20, e)
    BY <1>1, <1>2, <1>4, <1>6 DEF Reads
  <1>8. Decoding(e, 3, brk, m, l, s)
    BY <1>1, <1>2, <1>3, <1>4 DEF Decoding, Decoder
  <1> QED BY <1>7, <1>8

LEMMA PauseRead ==
  ASSUME NEW d, NEW m, NEW l, NEW s
  PROVE  /\ Decoding(d, 3, FALSE, m, l, s) => \E e : Reads(d, 119, e) /\ Decoding(e, 0, FALSE, m, l, s \o Out(m, l, "PAUSE"))
         /\ Decoding(d, 3, TRUE, m, l, s) => \E e : Reads(d, 119, e) /\ Decoding(e, 0, FALSE, m, l, s)
  <1>1. 119 \in Scan /\ "PAUSE" \in Symbol /\ "PAUSE" \notin Modifier /\ "PAUSE" \notin LockKey
    BY DEF Scan, Symbol, Modifier, LockKey
  <1>2. ModsOf(m, "PAUSE") = m /\ LedOf(l, "PAUSE") = l
    BY <1>1 DEF ModsOf, LedOf
  <1>3. ASSUME Decoding(d, 3, FALSE, m, l, s)
        PROVE  \E e : Reads(d, 119, e) /\ Decoding(e, 0, FALSE, m, l, s \o Out(m, l, "PAUSE"))
    <2>1. Asserts(d.b, 119) /\ ~ Half(d.b, 119) /\ KeyOf(d.b, 119) = "PAUSE"
      BY <1>1, <1>3, KeyOfIs, Zenon
    <2>2. \E e : Reads(d, 119, e) /\ Decoding(e, 0, FALSE, ModsOf(m, "PAUSE"), LedOf(l, "PAUSE"), s \o Out(m, l, "PAUSE"))
      BY <1>1, <1>3, <2>1, MakeRead, Zenon
    <2> QED BY <1>2, <2>2, Zenon
  <1>4. ASSUME Decoding(d, 3, TRUE, m, l, s)
        PROVE  \E e : Reads(d, 119, e) /\ Decoding(e, 0, FALSE, m, l, s)
    <2>1. Asserts(d.b, 119) /\ ~ Half(d.b, 119) /\ KeyOf(d.b, 119) = "PAUSE"
      BY <1>1, <1>4, KeyOfIs, Zenon
    <2>2. \E e : Reads(d, 119, e) /\ Decoding(e, 0, FALSE, IF "PAUSE" \in Modifier THEN m \ {"PAUSE"} ELSE m, l, s)
      BY <1>1, <1>4, <2>1, BreakRead, Zenon
    <2>3. (IF "PAUSE" \in Modifier THEN m \ {"PAUSE"} ELSE m) = m
      BY <1>1
    <2> QED BY <2>2, <2>3, Zenon
  <1> QED BY <1>3, <1>4
-----------------------------------------------------------------------------
(* What is on the wire takes the decoder from d to e, and n of its bytes    *)
(* are acknowledgements.                                                    *)
AckAt(w) == {i \in DOMAIN w : w[i] = Ack}
Replays(d, w, e) ==
  \E st \in [0 .. Len(w) -> Decoder] :
    /\ st[0] = d /\ st[Len(w)] = e
    /\ \A i \in 1 .. Len(w) : Reads(st[i - 1], w[i], st[i])
Underway(d, w, n, e) == w \in Seq(Nat) /\ Replays(d, w, e) /\ Cardinality(AckAt(w)) = n

LEMMA AcksFinite ==
  ASSUME NEW w \in Seq(Nat)
  PROVE  IsFiniteSet(AckAt(w)) /\ Cardinality(AckAt(w)) \in Nat
  <1>1. DOMAIN w = 1 .. Len(w) /\ Len(w) \in Nat
    BY LenProperties
  <1>2. IsFiniteSet(1 .. Len(w))
    BY <1>1, FS_Interval
  <1>3. AckAt(w) \in SUBSET (1 .. Len(w))
    BY <1>1 DEF AckAt
  <1>4. IsFiniteSet(AckAt(w))
    BY <1>2, <1>3, FS_Subset
  <1> QED BY <1>4, FS_CardinalityType

LEMMA AcksMore ==
  ASSUME NEW w \in Seq(Nat), NEW c \in Nat
  PROVE  Cardinality(AckAt(Append(w, c))) = Cardinality(AckAt(w)) + (IF c = Ack THEN 1 ELSE 0)
  <1>1. PICK v, k : v = Append(w, c) /\ k = Len(w)
    OBVIOUS
  <1>2. DOMAIN w = 1 .. k /\ k \in Nat /\ DOMAIN v = 1 .. (k + 1) /\ v[k + 1] = c /\ \A i \in 1 .. k : v[i] = w[i]
    BY <1>1, LenProperties, AppendProperties
  <1>3. IsFiniteSet(AckAt(w)) /\ Cardinality(AckAt(w)) \in Nat /\ k + 1 \notin AckAt(w)
    BY <1>2, AcksFinite DEF AckAt
  <1>4. CASE c = Ack
    <2>1. AckAt(v) = AckAt(w) \cup {k + 1}
      BY <1>2, <1>4 DEF AckAt
    <2> QED BY <1>1, <1>3, <1>4, <2>1, FS_AddElement
  <1>5. CASE c # Ack
    <2>1. AckAt(v) = AckAt(w)
      BY <1>2, <1>5 DEF AckAt
    <2> QED BY <1>1, <1>3, <1>5, <2>1
  <1> QED BY <1>4, <1>5

LEMMA AcksLess ==
  ASSUME NEW w \in Seq(Nat), w # <<>>
  PROVE  Cardinality(AckAt(Tail(w))) = Cardinality(AckAt(w)) - (IF Head(w) = Ack THEN 1 ELSE 0)
  <1>1. PICK v, k : v = Tail(w) /\ k = Len(w)
    OBVIOUS
  <1>2. /\ v \in Seq(Nat) /\ DOMAIN w = 1 .. k /\ k \in Nat /\ k > 0 /\ DOMAIN v = 1 .. (k - 1) /\ Head(w) = w[1]
        /\ \A i \in 1 .. k - 1 : v[i] = w[i + 1]
    BY <1>1, LenProperties, HeadTailProperties, EmptySeq
  <1>3. PICK S, T : S = AckAt(v) /\ T = AckAt(w) \ {1}
    OBVIOUS
  <1>4. /\ IsFiniteSet(AckAt(w)) /\ IsFiniteSet(S) /\ IsFiniteSet(T) /\ Cardinality(AckAt(w)) \in Nat
        /\ Cardinality(T) = IF 1 \in AckAt(w) THEN Cardinality(AckAt(w)) - 1 ELSE Cardinality(AckAt(w))
    BY <1>2, <1>3, AcksFinite, FS_RemoveElement
  <1>5. 1 \in AckAt(w) <=> Head(w) = Ack
    BY <1>2 DEF AckAt
  <1>6. \A i : i \in S <=> i \in 1 .. k - 1 /\ w[i + 1] = Ack
    BY <1>2, <1>3 DEF AckAt
  <1>7. \A i : i \in T <=> i \in 2 .. k /\ w[i] = Ack
    BY <1>2, <1>3 DEF AckAt
  <1>8. PICK f : f = [i \in S |-> i + 1]
    OBVIOUS
  <1>9. f \in [S -> T] /\ \A i \in S : f[i] = i + 1
    <2>1. ASSUME NEW i \in S PROVE i + 1 \in T
      <3>1. i \in 1 .. k - 1 /\ w[i + 1] = Ack
        BY <1>6
      <3>2. i + 1 \in 2 .. k
        BY <1>2, <3>1
      <3> QED BY <1>7, <3>1, <3>2
    <2> QED BY <1>8, <2>1
  <1>10. \A i \in S : i \in Nat
    BY <1>2, <1>6
  <1>11. \A i, j \in S : f[i] = f[j] => i = j
    BY <1>9, <1>10
  <1>12. \A t \in T : \E s \in S : f[s] = t
    <2> TAKE t \in T
    <2>1. t \in 2 .. k /\ w[t] = Ack
      BY <1>7
    <2>2. t - 1 \in 1 .. k - 1 /\ (t - 1) + 1 = t
      BY <1>2, <2>1
    <2>3. t - 1 \in S
      BY <1>6, <2>1, <2>2
    <2> QED BY <1>9, <2>2, <2>3
  <1>13. f \in Injection(S, T) /\ f \in Surjection(S, T)
    BY <1>9, <1>11, <1>12 DEF Injection, Surjection, IsInjective
  <1>14. Cardinality(S) = Cardinality(T)
    BY <1>4, <1>13, FS_Injection
  <1> QED BY <1>1, <1>3, <1>4, <1>5, <1>14

LEMMA PendingNone ==
  ASSUME NEW d \in Decoder
  PROVE  Underway(d, <<>>, 0, d)
  <1>1. <<>> \in Seq(Nat) /\ Len(<<>>) = 0 /\ DOMAIN <<>> = {}
    OBVIOUS
  <1>2. AckAt(<<>>) = {}
    BY <1>1 DEF AckAt
  <1>3. PICK st : st = [i \in 0 .. 0 |-> d]
    OBVIOUS
  <1>4. st \in [0 .. Len(<<>>) -> Decoder] /\ st[0] = d /\ st[Len(<<>>)] = d
    BY <1>1, <1>3
  <1>5. Replays(d, <<>>, d)
    BY <1>1, <1>4 DEF Replays
  <1> QED BY <1>1, <1>2, <1>5, FS_EmptySet DEF Underway

LEMMA PendingMore ==
  ASSUME NEW d, NEW w, NEW n, NEW e, Underway(d, w, n, e), NEW c \in Nat, NEW f \in Decoder, Reads(e, c, f)
  PROVE  Underway(d, Append(w, c), n + (IF c = Ack THEN 1 ELSE 0), f)
  <1>1. w \in Seq(Nat) /\ Cardinality(AckAt(w)) = n /\ Replays(d, w, e)
    BY DEF Underway
  <1>2. PICK k, v : k = Len(w) /\ v = Append(w, c)
    OBVIOUS
  <1>3. k \in Nat /\ v \in Seq(Nat) /\ Len(v) = k + 1 /\ v[k + 1] = c /\ \A i \in 1 .. k : v[i] = w[i]
    BY <1>1, <1>2, LenProperties, AppendProperties
  <1>4. PICK st \in [0 .. k -> Decoder] : /\ st[0] = d /\ st[k] = e
                                          /\ \A i \in 1 .. k : Reads(st[i - 1], w[i], st[i])
    BY <1>1, <1>2 DEF Replays
  <1>5. PICK su : su = [i \in 0 .. (k + 1) |-> IF i = k + 1 THEN f ELSE st[i]]
    OBVIOUS
  <1>6. /\ su \in [0 .. (k + 1) -> Decoder] /\ su[k + 1] = f /\ su[0] = d
        /\ \A i \in 0 .. k : su[i] = st[i]
    BY <1>3, <1>4, <1>5
  <1>7. ASSUME NEW i \in 1 .. (k + 1) PROVE Reads(su[i - 1], v[i], su[i])
    <2>1. CASE i = k + 1
      <3>1. su[i - 1] = e /\ v[i] = c /\ su[i] = f
        BY <1>3, <1>4, <1>6, <2>1
      <3> QED BY <3>1
    <2>2. CASE i \in 1 .. k
      <3>1. su[i - 1] = st[i - 1] /\ v[i] = w[i] /\ su[i] = st[i]
        BY <1>3, <1>6, <2>2
      <3> QED BY <1>4, <2>2, <3>1
    <2> QED BY <1>3, <2>1, <2>2
  <1>8. Replays(d, v, f)
    BY <1>3, <1>6, <1>7 DEF Replays
  <1>9. Cardinality(AckAt(v)) = n + (IF c = Ack THEN 1 ELSE 0)
    BY <1>1, <1>2, AcksMore
  <1> QED BY <1>2, <1>3, <1>8, <1>9 DEF Underway

LEMMA PendingLess ==
  ASSUME NEW d, NEW w, NEW n, NEW e, Underway(d, w, n, e), w # <<>>
  PROVE  \E f \in Decoder : Reads(d, Head(w), f) /\ Underway(f, Tail(w), n - (IF Head(w) = Ack THEN 1 ELSE 0), e)
  <1>1. w \in Seq(Nat) /\ Cardinality(AckAt(w)) = n /\ Replays(d, w, e)
    BY DEF Underway
  <1>2. PICK k, v : k = Len(w) /\ v = Tail(w)
    OBVIOUS
  <1>3. /\ k \in Nat /\ k > 0 /\ v \in Seq(Nat) /\ Len(v) = k - 1 /\ Head(w) = w[1]
        /\ \A i \in 1 .. k - 1 : v[i] = w[i + 1]
    BY <1>1, <1>2, LenProperties, HeadTailProperties, EmptySeq
  <1>4. PICK st \in [0 .. k -> Decoder] : /\ st[0] = d /\ st[k] = e
                                          /\ \A i \in 1 .. k : Reads(st[i - 1], w[i], st[i])
    BY <1>1, <1>2 DEF Replays
  <1>5. PICK su : su = [i \in 0 .. (k - 1) |-> st[i + 1]]
    OBVIOUS
  <1>6. /\ su \in [0 .. (k - 1) -> Decoder] /\ su[k - 1] = e /\ su[0] = st[1]
        /\ \A i \in 0 .. k - 1 : su[i] = st[i + 1]
    BY <1>3, <1>4, <1>5
  <1>7. ASSUME NEW i \in 1 .. (k - 1) PROVE Reads(su[i - 1], v[i], su[i])
    <2>1. PICK j : j = i + 1
      OBVIOUS
    <2>2. j \in 1 .. k /\ su[i - 1] = st[j - 1] /\ v[i] = w[j] /\ su[i] = st[j]
      BY <1>3, <1>6, <2>1
    <2> QED BY <1>4, <2>2
  <1>8. Replays(st[1], v, e)
    BY <1>3, <1>6, <1>7 DEF Replays
  <1>9. Cardinality(AckAt(v)) = n - (IF Head(w) = Ack THEN 1 ELSE 0)
    BY <1>1, <1>2, AcksLess
  <1>10. st[1] \in Decoder /\ Reads(d, Head(w), st[1])
    <2>1. 1 \in 1 .. k /\ 1 \in 0 .. k /\ 1 - 1 = 0
      BY <1>3
    <2>2. Reads(st[1 - 1], w[1], st[1])
      BY <1>4, <2>1
    <2> QED BY <1>3, <1>4, <2>1, <2>2
  <1> QED BY <1>2, <1>3, <1>8, <1>9, <1>10 DEF Underway

LEMMA PendingNext ==
  ASSUME NEW d, NEW w \in Seq(Nat), NEW t \in Seq(Nat), NEW n \in Int, NEW e, Underway(d, w \o t, n, e),
         NEW c \in Nat \ {Ack}, NEW f \in Decoder, Reads(e, c, f)
  PROVE  Append(t, c) \in Seq(Nat) /\ Underway(d, w \o Append(t, c), n, f)
  <1>1. Underway(d, Append(w \o t, c), n + (IF c = Ack THEN 1 ELSE 0), f)
    BY PendingMore
  <1>2. n + (IF c = Ack THEN 1 ELSE 0) = n
    OBVIOUS
  <1>3. <<c>> \in Seq(Nat) /\ w \o t \in Seq(Nat) /\ Append(t, c) \in Seq(Nat)
    OBVIOUS
  <1>4. Append(w \o t, c) = (w \o t) \o <<c>> /\ Append(t, c) = t \o <<c>>
    BY <1>3, AppendIsConcat
  <1>5. (w \o t) \o <<c>> = w \o (t \o <<c>>)
    BY <1>3, ConcatAssociative
  <1> QED BY <1>1, <1>2, <1>3, <1>4, <1>5

(* After the bytes w and t the decoder is in the given state.               *)
Comes(d, w, t, n, x, brk, m, l, s) ==
  /\ w \in Seq(Nat) /\ t \in Seq(Nat) /\ n \in Int
  /\ \E e : Underway(d, w \o t, n, e) /\ Decoding(e, x, brk, m, l, s)
Moves(c, x, brk, m, l, s, y, brl, o, k, u) ==
  \A e : Decoding(e, x, brk, m, l, s) => \E f : Reads(e, c, f) /\ Decoding(f, y, brl, o, k, u)

LEMMA ComesNext ==
  ASSUME NEW d, NEW w, NEW t, NEW n, NEW x, NEW brk, NEW m, NEW l, NEW s, Comes(d, w, t, n, x, brk, m, l, s),
         NEW c \in Nat \ {Ack}, NEW y, NEW brl, NEW o, NEW k, NEW u, Moves(c, x, brk, m, l, s, y, brl, o, k, u)
  PROVE  Comes(d, w, Append(t, c), n, y, brl, o, k, u)
  <1>1. PICK e : Underway(d, w \o t, n, e) /\ Decoding(e, x, brk, m, l, s)
    BY Zenon DEF Comes
  <1>2. PICK f : Reads(e, c, f) /\ Decoding(f, y, brl, o, k, u)
    BY <1>1, Zenon DEF Moves
  <1>3. f \in Decoder
    BY <1>2, Zenon DEF Decoding
  <1>4. w \in Seq(Nat) /\ t \in Seq(Nat) /\ n \in Int
    BY Zenon DEF Comes
  <1>5. Append(t, c) \in Seq(Nat) /\ Underway(d, w \o Append(t, c), n, f)
    BY <1>1, <1>2, <1>3, <1>4, PendingNext, Zenon
  <1> QED BY <1>2, <1>4, <1>5, Zenon DEF Comes

LEMMA ComesMark ==
  ASSUME NEW d, NEW w, NEW t, NEW n, NEW x, NEW brk, NEW m, NEW l, NEW s, Comes(d, w, t, n, x, brk, m, l, s)
  PROVE  /\ x = 0 => Comes(d, w, Append(t, E0), n, 1, brk, m, l, s)
         /\ x = 0 => Comes(d, w, Append(t, E1), n, 2, brk, m, l, s)
         /\ Comes(d, w, Append(t, F0), n, x, TRUE, m, l, s)
  <1>1. E0 \in Nat \ {Ack} /\ E1 \in Nat \ {Ack} /\ F0 \in Nat \ {Ack}
    BY DEF E0, E1, F0, Ack
  <1>2. Moves(F0, x, brk, m, l, s, x, TRUE, m, l, s)
    BY MarksRead, Zenon DEF Moves
  <1>3. Comes(d, w, Append(t, F0), n, x, TRUE, m, l, s)
    BY <1>1, <1>2, ComesNext, Zenon
  <1>4. ASSUME x = 0
        PROVE  /\ Comes(d, w, Append(t, E0), n, 1, brk, m, l, s)
               /\ Comes(d, w, Append(t, E1), n, 2, brk, m, l, s)
    <2>1. Moves(E0, x, brk, m, l, s, 1, brk, m, l, s) /\ Moves(E1, x, brk, m, l, s, 2, brk, m, l, s)
      BY <1>4, MarksRead, Zenon DEF Moves
    <2> QED BY <1>1, <2>1, ComesNext, Zenon
  <1> QED BY <1>3, <1>4, Zenon

LEMMA ComesKey ==
  ASSUME NEW d, NEW w, NEW t, NEW n, NEW x, NEW m, NEW l, NEW s, NEW c \in Scan, NEW key,
         (x = 0 /\ KeyAt(c, 1) = key) \/ (x = 1 /\ KeyAt(c, 2) = key)
  PROVE  /\ Comes(d, w, t, n, x, FALSE, m, l, s) =>
              Comes(d, w, Append(t, c), n, 0, FALSE, ModsOf(m, key), LedOf(l, key), s \o Out(m, l, key))
         /\ Comes(d, w, t, n, x, TRUE, m, l, s) =>
              Comes(d, w, Append(t, c), n, 0, FALSE, IF key \in Modifier THEN m \ {key} ELSE m, l, s)
  <1>1. c \in Nat \ {Ack}
    BY ScanNoMark
  <1>2. x \in {0, 1} /\ KeyAt(c, x + 1) = key
    OBVIOUS
  <1>3. ASSUME NEW e, NEW brk, Decoding(e, x, brk, m, l, s)
        PROVE  Asserts(e.b, c) /\ ~ Half(e.b, c) /\ KeyOf(e.b, c) = key /\ key \in Symbol
    <2>1. Asserts(e.b, c) /\ ~ Half(e.b, c) /\ KeyOf(e.b, c) = KeyAt(c, x + 1) /\ KeyOf(e.b, c) \in Symbol
      BY <1>2, <1>3, KeyOfIs, Zenon
    <2> QED BY <1>2, <2>1
  <1>4. Moves(c, x, FALSE, m, l, s, 0, FALSE, ModsOf(m, key), LedOf(l, key), s \o Out(m, l, key))
    BY <1>3, MakeRead, Zenon DEF Moves
  <1>5. Moves(c, x, TRUE, m, l, s, 0, FALSE, IF key \in Modifier THEN m \ {key} ELSE m, l, s)
    BY <1>3, BreakRead, Zenon DEF Moves
  <1> QED BY <1>1, <1>4, <1>5, ComesNext, Zenon

LEMMA ComesPause ==
  ASSUME NEW d, NEW w, NEW t, NEW n, NEW m, NEW l, NEW s
  PROVE  /\ \A brk : Comes(d, w, t, n, 2, brk, m, l, s) => Comes(d, w, Append(t, 20), n, 3, brk, m, l, s)
         /\ Comes(d, w, t, n, 3, FALSE, m, l, s) =>
              Comes(d, w, Append(t, 119), n, 0, FALSE, m, l, s \o Out(m, l, "PAUSE"))
         /\ Comes(d, w, t, n, 3, TRUE, m, l, s) => Comes(d, w, Append(t, 119), n, 0, FALSE, m, l, s)
  <1>1. 20 \in Nat \ {Ack} /\ 119 \in Nat \ {Ack}
    BY DEF Ack
  <1>2. \A brk : Moves(20, 2, brk, m, l, s, 3, brk, m, l, s)
    BY HalfRead, Zenon DEF Moves
  <1>3. Moves(119, 3, FALSE, m, l, s, 0, FALSE, m, l, s \o Out(m, l, "PAUSE"))
    BY PauseRead, Zenon DEF Moves
  <1>4. Moves(119, 3, TRUE, m, l, s, 0, FALSE, m, l, s)
    BY PauseRead, Zenon DEF Moves
  <1>5. ASSUME NEW brk, Comes(d, w, t, n, 2, brk, m, l, s) PROVE Comes(d, w, Append(t, 20), n, 3, brk, m, l, s)
    BY <1>1, <1>2, <1>5, ComesNext, Zenon
  <1>6. ASSUME Comes(d, w, t, n, 3, FALSE, m, l, s)
        PROVE  Comes(d, w, Append(t, 119), n, 0, FALSE, m, l, s \o Out(m, l, "PAUSE"))
    BY <1>1, <1>3, <1>6, ComesNext, Zenon
  <1>7. ASSUME Comes(d, w, t, n, 3, TRUE, m, l, s)
        PROVE  Comes(d, w, Append(t, 119), n, 0, FALSE, m, l, s)
    BY <1>1, <1>4, <1>7, ComesNext, Zenon
  <1> QED BY <1>5, <1>6, <1>7, Zenon

(* Sequences of bytes, one after the other.                                 *)
LEMMA AppendIs ==
  ASSUME NEW S, NEW t \in Seq(S), NEW v \in Seq(S), NEW c \in S, Len(v) = Len(t) + 1,
         \A i \in 1 .. Len(t) : v[i] = t[i], v[Len(t) + 1] = c
  PROVE  Append(t, c) = v
  <1>1. PICK u, k : u = Append(t, c) /\ k = Len(t)
    OBVIOUS
  <1>2. u \in Seq(S) /\ Len(u) = k + 1 /\ k \in Nat /\ u[k + 1] = c /\ \A i \in 1 .. k : u[i] = t[i]
    BY <1>1, AppendProperties, LenProperties
  <1>3. \A i \in 1 .. k + 1 : u[i] = v[i]
    <2> TAKE i \in 1 .. k + 1
    <2>1. i \in 1 .. k \/ i = k + 1
      BY <1>2
    <2> QED BY <1>1, <1>2, <2>1
  <1>4. u = v
    BY <1>1, <1>2, <1>3, SeqEqual
  <1> QED BY <1>1, <1>4

LEMMA FirstByte ==
  ASSUME NEW a \in Nat
  PROVE  Append(<<>>, a) = <<a>>
  OBVIOUS

LEMMA Bytes2 ==
  ASSUME NEW a, NEW b
  PROVE  Append(<<a>>, b) = <<a, b>>
  <1>1. PICK t, v, S : t = <<a>> /\ v = <<a, b>> /\ S = {a, b}
    OBVIOUS
  <1>2. t \in Seq(S) /\ v \in Seq(S) /\ b \in S /\ Len(t) = 1 /\ Len(v) = 2 /\ v[2] = b
    BY <1>1
  <1>3. \A i \in 1 .. 1 : v[i] = t[i]
    BY <1>1
  <1>4. Len(v) = Len(t) + 1 /\ (\A i \in 1 .. Len(t) : v[i] = t[i]) /\ v[Len(t) + 1] = b
    BY <1>2, <1>3
  <1>5. Append(t, b) = v
    BY <1>2, <1>4, AppendIs
  <1> QED BY <1>1, <1>5

LEMMA Bytes3 ==
  ASSUME NEW a, NEW b, NEW c
  PROVE  Append(<<a, b>>, c) = <<a, b, c>>
  <1>1. PICK t, v, S : t = <<a, b>> /\ v = <<a, b, c>> /\ S = {a, b, c}
    OBVIOUS
  <1>2. t \in Seq(S) /\ v \in Seq(S) /\ c \in S /\ Len(t) = 2 /\ Len(v) = 3 /\ v[3] = c
    BY <1>1
  <1>3. \A i \in 1 .. 2 : v[i] = t[i]
    BY <1>1
  <1>4. Len(v) = Len(t) + 1 /\ (\A i \in 1 .. Len(t) : v[i] = t[i]) /\ v[Len(t) + 1] = c
    BY <1>2, <1>3
  <1>5. Append(t, c) = v
    BY <1>2, <1>4, AppendIs
  <1> QED BY <1>1, <1>5

LEMMA Bytes4 ==
  ASSUME NEW a, NEW b, NEW c, NEW d
  PROVE  Append(<<a, b, c>>, d) = <<a, b, c, d>>
  <1>1. PICK t, v, S : t = <<a, b, c>> /\ v = <<a, b, c, d>> /\ S = {a, b, c, d}
    OBVIOUS
  <1>2. t \in Seq(S) /\ v \in Seq(S) /\ d \in S /\ Len(t) = 3 /\ Len(v) = 4 /\ v[4] = d
    BY <1>1
  <1>3. \A i \in 1 .. 3 : v[i] = t[i]
    BY <1>1
  <1>4. Len(v) = Len(t) + 1 /\ (\A i \in 1 .. Len(t) : v[i] = t[i]) /\ v[Len(t) + 1] = d
    BY <1>2, <1>3
  <1>5. Append(t, d) = v
    BY <1>2, <1>4, AppendIs
  <1> QED BY <1>1, <1>5

LEMMA Bytes5 ==
  ASSUME NEW a, NEW b, NEW c, NEW d, NEW e
  PROVE  Append(<<a, b, c, d>>, e) = <<a, b, c, d, e>>
  <1>1. PICK t, v, S : t = <<a, b, c, d>> /\ v = <<a, b, c, d, e>> /\ S = {a, b, c, d, e}
    OBVIOUS
  <1>2. t \in Seq(S) /\ v \in Seq(S) /\ e \in S /\ Len(t) = 4 /\ Len(v) = 5 /\ v[5] = e
    BY <1>1
  <1>3. \A i \in 1 .. 4 : v[i] = t[i]
    BY <1>1
  <1>4. Len(v) = Len(t) + 1 /\ (\A i \in 1 .. Len(t) : v[i] = t[i]) /\ v[Len(t) + 1] = e
    BY <1>2, <1>3
  <1>5. Append(t, e) = v
    BY <1>2, <1>4, AppendIs
  <1> QED BY <1>1, <1>5

LEMMA Bytes6 ==
  ASSUME NEW a, NEW b, NEW c, NEW d, NEW e, NEW f
  PROVE  Append(<<a, b, c, d, e>>, f) = <<a, b, c, d, e, f>>
  <1>1. PICK t, v, S : t = <<a, b, c, d, e>> /\ v = <<a, b, c, d, e, f>> /\ S = {a, b, c, d, e, f}
    OBVIOUS
  <1>2. t \in Seq(S) /\ v \in Seq(S) /\ f \in S /\ Len(t) = 5 /\ Len(v) = 6 /\ v[6] = f
    BY <1>1
  <1>3. \A i \in 1 .. 5 : v[i] = t[i]
    BY <1>1
  <1>4. Len(v) = Len(t) + 1 /\ (\A i \in 1 .. Len(t) : v[i] = t[i]) /\ v[Len(t) + 1] = f
    BY <1>2, <1>3
  <1>5. Append(t, f) = v
    BY <1>2, <1>4, AppendIs
  <1> QED BY <1>1, <1>5

LEMMA Bytes7 ==
  ASSUME NEW a, NEW b, NEW c, NEW d, NEW e, NEW f, NEW g
  PROVE  Append(<<a, b, c, d, e, f>>, g) = <<a, b, c, d, e, f, g>>
  <1>1. PICK t, v, S : t = <<a, b, c, d, e, f>> /\ v = <<a, b, c, d, e, f, g>> /\ S = {a, b, c, d, e, f, g}
    OBVIOUS
  <1>2. t \in Seq(S) /\ v \in Seq(S) /\ g \in S /\ Len(t) = 6 /\ Len(v) = 7 /\ v[7] = g
    BY <1>1
  <1>3. \A i \in 1 .. 6 : v[i] = t[i]
    BY <1>1
  <1>4. Len(v) = Len(t) + 1 /\ (\A i \in 1 .. Len(t) : v[i] = t[i]) /\ v[Len(t) + 1] = g
    BY <1>2, <1>3
  <1>5. Append(t, g) = v
    BY <1>2, <1>4, AppendIs
  <1> QED BY <1>1, <1>5

LEMMA Bytes8 ==
  ASSUME NEW a, NEW b, NEW c, NEW d, NEW e, NEW f, NEW g, NEW h
  PROVE  Append(<<a, b, c, d, e, f, g>>, h) = <<a, b, c, d, e, f, g, h>>
  <1>1. PICK t, v, S : t = <<a, b, c, d, e, f, g>> /\ v = <<a, b, c, d, e, f, g, h>> /\ S = {a, b, c, d, e, f, g, h}
    OBVIOUS
  <1>2. t \in Seq(S) /\ v \in Seq(S) /\ h \in S /\ Len(t) = 7 /\ Len(v) = 8 /\ v[8] = h
    BY <1>1
  <1>3. \A i \in 1 .. 7 : v[i] = t[i]
    BY <1>1
  <1>4. Len(v) = Len(t) + 1 /\ (\A i \in 1 .. Len(t) : v[i] = t[i]) /\ v[Len(t) + 1] = h
    BY <1>2, <1>3
  <1>5. Append(t, h) = v
    BY <1>2, <1>4, AppendIs
  <1> QED BY <1>1, <1>5

LEMMA MarksNat ==
  /\ E0 \in Nat /\ E1 \in Nat /\ F0 \in Nat
  /\ 18 \in Nat /\ 20 \in Nat /\ 119 \in Nat /\ 124 \in Nat
  BY DEF E0, E1, F0

(* The same for the keys of print screen.                                   *)
LEMMA ComesExtended ==
  ASSUME NEW d, NEW w, NEW t, NEW n, NEW m, NEW l, NEW s, NEW c \in Scan, NEW key, KeyAt(c, 2) = key
  PROVE  Comes(d, w, t, n, 1, FALSE, m, l, s) =>
           Comes(d, w, Append(t, c), n, 0, FALSE, ModsOf(m, key), LedOf(l, key), s \o Out(m, l, key))
  <1>1. PICK x : x = 1
    BY Zenon
  <1>2. (x = 0 /\ KeyAt(c, 1) = key) \/ (x = 1 /\ KeyAt(c, 2) = key)
    BY <1>1, Zenon
  <1>3. Comes(d, w, t, n, x, FALSE, m, l, s) =>
           Comes(d, w, Append(t, c), n, 0, FALSE, ModsOf(m, key), LedOf(l, key), s \o Out(m, l, key))
    BY <1>2, ComesKey, Zenon
  <1> QED BY <1>1, <1>3, Zenon

LEMMA ComesReleased ==
  ASSUME NEW d, NEW w, NEW t, NEW n, NEW m, NEW l, NEW s, NEW c \in Scan, KeyAt(c, 2) = "PRTSCR"
  PROVE  Comes(d, w, t, n, 1, TRUE, m, l, s) => Comes(d, w, Append(t, c), n, 0, FALSE, m, l, s)
  <1>1. PICK x, key : x = 1 /\ key = "PRTSCR"
    BY Zenon
  <1>2. (x = 0 /\ KeyAt(c, 1) = key) \/ (x = 1 /\ KeyAt(c, 2) = key)
    BY <1>1, Zenon
  <1>3. Comes(d, w, t, n, x, TRUE, m, l, s) =>
           Comes(d, w, Append(t, c), n, 0, FALSE, IF key \in Modifier THEN m \ {key} ELSE m, l, s)
    BY <1>2, ComesKey, Zenon
  <1>4. (IF key \in Modifier THEN m \ {key} ELSE m) = m
    BY <1>1 DEF Modifier
  <1> QED BY <1>1, <1>3, <1>4, Zenon

(* All bytes of a key.                                                      *)
Twice(m, l, k, s) == IF k = "PRTSCR" THEN (s \o Out(m, l, k)) \o Out(m, l, k) ELSE s \o Out(m, l, k)

LEMMA PressComes ==
  ASSUME NEW d, NEW w, NEW n, NEW m, NEW l, NEW s, Comes(d, w, <<>>, n, 0, FALSE, m, l, s), NEW k \in Physical
  PROVE  Comes(d, w, Make(k), n, 0, FALSE, ModsOf(m, k), LedOf(l, k), Twice(m, l, k, s))
  <1>a. CASE k \in Single
    <2>1. Code(k) \in Scan /\ KeyAt(Code(k), 1) = k /\ Make(k) = <<Code(k)>> /\ k # "PRTSCR"
      BY <1>a, Codes, MakeIs DEF Single
    <2>2. PICK c : c = Code(k)
      BY Zenon
    <2>3. Comes(d, w, Append(<<>>, c), n, 0, FALSE, ModsOf(m, k), LedOf(l, k), s \o Out(m, l, k))
      BY <2>1, <2>2, ComesKey, Zenon
    <2>4. Append(<<>>, c) = <<c>>
      OBVIOUS
    <2>5. Make(k) = <<c>> /\ Twice(m, l, k, s) = s \o Out(m, l, k)
      BY <2>1, <2>2, Zenon DEF Twice
    <2> QED BY <2>3, <2>4, <2>5, Zenon
  <1>b. CASE k \in Double
    <2>1. Code(k) \in Scan /\ KeyAt(Code(k), 2) = k /\ Make(k) = <<E0, Code(k)>> /\ k # "PRTSCR"
      BY <1>b, Codes, MakeIs DEF Double
    <2>2. PICK c, t : c = Code(k) /\ t = Append(<<>>, E0)
      BY Zenon
    <2>3. Comes(d, w, t, n, 1, FALSE, m, l, s)
      BY <2>2, ComesMark, Zenon
    <2>4. Comes(d, w, Append(t, c), n, 0, FALSE, ModsOf(m, k), LedOf(l, k), s \o Out(m, l, k))
      BY <2>1, <2>2, <2>3, ComesKey, Zenon
    <2>5. Append(t, c) = <<E0, c>>
      BY <2>1, <2>2, ScanNoMark, MarksNat, FirstByte, Bytes2
    <2>6. Make(k) = <<E0, c>> /\ Twice(m, l, k, s) = s \o Out(m, l, k)
      BY <2>1, <2>2, Zenon DEF Twice
    <2> QED BY <2>4, <2>5, <2>6, Zenon
  <1>c. CASE k = "PRTSCR"
    <2>1. 18 \in Scan /\ 124 \in Scan /\ KeyAt(18, 2) = "PRTSCR" /\ KeyAt(124, 2) = "PRTSCR"
      BY Keys DEF Scan
    <2>2. ModsOf(m, k) = m /\ LedOf(l, k) = l
      BY <1>c DEF ModsOf, LedOf, Modifier, LockKey
    <2>3. PICK u : u = s \o Out(m, l, k)
      BY Zenon
    <2>4. PICK t1, t2, t3, t4 : t1 = Append(<<>>, E0) /\ t2 = Append(t1, 18) /\ t3 = Append(t2, E0) /\ t4 = Append(t3, 124)
      BY Zenon
    <2>5. Comes(d, w, t1, n, 1, FALSE, m, l, s)
      BY <2>4, ComesMark, Zenon
    <2>6. Comes(d, w, t2, n, 0, FALSE, ModsOf(m, k), LedOf(l, k), s \o Out(m, l, k))
      BY <1>c, <2>1, <2>4, <2>5, ComesExtended, Zenon
    <2>7. Comes(d, w, t2, n, 0, FALSE, m, l, u)
      BY <2>2, <2>3, <2>6, Zenon
    <2>8. Comes(d, w, t3, n, 1, FALSE, m, l, u)
      BY <2>4, <2>7, ComesMark, Zenon
    <2>9. Comes(d, w, t4, n, 0, FALSE, ModsOf(m, k), LedOf(l, k), u \o Out(m, l, k))
      BY <1>c, <2>1, <2>4, <2>8, ComesExtended, Zenon
    <2>10. t4 = <<E0, 18, E0, 124>>
      <3>1. t1 = <<E0>>
        BY <2>4, MarksNat, FirstByte
      <3>2. t2 = <<E0, 18>>
        BY <2>4, <3>1, MarksNat, Bytes2
      <3>3. t3 = <<E0, 18, E0>>
        <4>1. Append(<<E0, 18>>, E0) = <<E0, 18, E0>>
          BY Bytes3, Zenon
        <4> QED BY <2>4, <3>2, <4>1, Zenon
      <3>9. Append(<<E0, 18, E0>>, 124) = <<E0, 18, E0, 124>>
        BY Bytes4, Zenon
      <3> QED BY <2>4, <3>3, <3>9, Zenon
    <2>11. Make(k) = t4 /\ Twice(m, l, k, s) = u \o Out(m, l, k)
      BY <1>c, <2>3, <2>10, MakeIs DEF Twice
    <2> QED BY <2>9, <2>11, Zenon
  <1>d. CASE k = "PAUSE"
    <2>1. ModsOf(m, k) = m /\ LedOf(l, k) = l /\ Twice(m, l, k, s) = s \o Out(m, l, k)
      BY <1>d DEF ModsOf, LedOf, Modifier, LockKey, Twice
    <2>2. PICK u : u = s \o Out(m, l, "PAUSE")
      BY Zenon
    <2>3. PICK t1, t2, t3 : t1 = Append(<<>>, E1) /\ t2 = Append(t1, 20) /\ t3 = Append(t2, 119)
      BY Zenon
    <2>4. PICK t4, t5, t6, t7, t8 : t4 = Append(t3, E1) /\ t5 = Append(t4, F0) /\ t6 = Append(t5, 20) /\ t7 = Append(t6, F0) /\ t8 = Append(t7, 119)
      BY Zenon
    <2>5. Comes(d, w, t1, n, 2, FALSE, m, l, s)
      BY <2>3, ComesMark, Zenon
    <2>6. Comes(d, w, t2, n, 3, FALSE, m, l, s)
      BY <2>3, <2>5, ComesPause, Zenon
    <2>7. Comes(d, w, t3, n, 0, FALSE, m, l, u)
      BY <2>2, <2>3, <2>6, ComesPause, Zenon
    <2>8. Comes(d, w, t4, n, 2, FALSE, m, l, u)
      BY <2>4, <2>7, ComesMark, Zenon
    <2>9. Comes(d, w, t5, n, 2, TRUE, m, l, u)
      BY <2>4, <2>8, ComesMark, Zenon
    <2>10. Comes(d, w, t6, n, 3, TRUE, m, l, u)
      BY <2>4, <2>9, ComesPause, Zenon
    <2>11. Comes(d, w, t7, n, 3, TRUE, m, l, u)
      BY <2>4, <2>10, ComesMark, Zenon
    <2>12. Comes(d, w, t8, n, 0, FALSE, m, l, u)
      BY <2>4, <2>11, ComesPause, Zenon
    <2>13. t4 = <<E1, 20, 119, E1>>
      <3>1. t1 = <<E1>>
        BY <2>3, MarksNat, FirstByte
      <3>2. t2 = <<E1, 20>>
        BY <2>3, <3>1, MarksNat, Bytes2
      <3>3. t3 = <<E1, 20, 119>>
        <4>1. Append(<<E1, 20>>, 119) = <<E1, 20, 119>>
          BY Bytes3, Zenon
        <4> QED BY <2>3, <3>2, <4>1, Zenon
      <3>9. Append(<<E1, 20, 119>>, E1) = <<E1, 20, 119, E1>>
        BY Bytes4, Zenon
      <3> QED BY <2>4, <3>3, <3>9, Zenon
    <2>14. t8 = <<E1, 20, 119, E1, F0, 20, F0, 119>>
      <3>1. t5 = <<E1, 20, 119, E1, F0>>
        <4>1. Append(<<E1, 20, 119, E1>>, F0) = <<E1, 20, 119, E1, F0>>
          BY Bytes5, Zenon
        <4> QED BY <2>4, <2>13, <4>1, Zenon
      <3>2. t6 = <<E1, 20, 119, E1, F0, 20>>
        <4>1. Append(<<E1, 20, 119, E1, F0>>, 20) = <<E1, 20, 119, E1, F0, 20>>
          BY Bytes6
        <4> QED BY <2>4, <3>1, <4>1, Zenon
      <3>3. t7 = <<E1, 20, 119, E1, F0, 20, F0>>
        <4>1. Append(<<E1, 20, 119, E1, F0, 20>>, F0) = <<E1, 20, 119, E1, F0, 20, F0>>
          BY Bytes7
        <4> QED BY <2>4, <3>2, <4>1, Zenon
      <3>9. Append(<<E1, 20, 119, E1, F0, 20, F0>>, 119) = <<E1, 20, 119, E1, F0, 20, F0, 119>>
        BY Bytes8
      <3> QED BY <2>4, <3>3, <3>9, Zenon
    <2>15. Make(k) = t8
      BY <1>d, <2>14, MakeIs
    <2> QED BY <1>d, <2>1, <2>2, <2>12, <2>15, Zenon
  <1> QED BY <1>a, <1>b, <1>c, <1>d, PhysicalIs

LEMMA LetGoComes ==
  ASSUME NEW d, NEW w, NEW n, NEW m, NEW l, NEW s, Comes(d, w, <<>>, n, 0, FALSE, m, l, s), NEW k \in Physical, k # "PAUSE"
  PROVE  Comes(d, w, Break(k), n, 0, FALSE, IF k \in Modifier THEN m \ {k} ELSE m, l, s)
  <1>a. CASE k \in Single
    <2>1. Code(k) \in Scan /\ KeyAt(Code(k), 1) = k /\ Break(k) = <<F0, Code(k)>>
      BY <1>a, Codes, BreakIs
    <2>2. PICK c, t : c = Code(k) /\ t = Append(<<>>, F0)
      BY Zenon
    <2>3. Comes(d, w, t, n, 0, TRUE, m, l, s)
      BY <2>2, ComesMark, Zenon
    <2>4. Comes(d, w, Append(t, c), n, 0, FALSE, IF k \in Modifier THEN m \ {k} ELSE m, l, s)
      BY <2>1, <2>2, <2>3, ComesKey, Zenon
    <2>5. Append(t, c) = <<F0, c>>
      BY <2>1, <2>2, ScanNoMark, MarksNat, FirstByte, Bytes2
    <2>6. Break(k) = <<F0, c>>
      BY <2>1, <2>2, Zenon
    <2> QED BY <2>4, <2>5, <2>6, Zenon
  <1>b. CASE k \in Double
    <2>1. Code(k) \in Scan /\ KeyAt(Code(k), 2) = k /\ Break(k) = <<E0, F0, Code(k)>>
      BY <1>b, Codes, BreakIs
    <2>2. PICK c, t, u : c = Code(k) /\ t = Append(<<>>, E0) /\ u = Append(t, F0)
      BY Zenon
    <2>3. Comes(d, w, t, n, 1, FALSE, m, l, s)
      BY <2>2, ComesMark, Zenon
    <2>4. Comes(d, w, u, n, 1, TRUE, m, l, s)
      BY <2>2, <2>3, ComesMark, Zenon
    <2>5. Comes(d, w, Append(u, c), n, 0, FALSE, IF k \in Modifier THEN m \ {k} ELSE m, l, s)
      BY <2>1, <2>2, <2>4, ComesKey, Zenon
    <2>6. Append(u, c) = <<E0, F0, c>>
      <3>1. t = <<E0>> /\ c \in Nat
        BY <2>1, <2>2, ScanNoMark, MarksNat, FirstByte
      <3>2. u = <<E0, F0>>
        BY <2>2, <3>1, MarksNat, Bytes2
      <3>9. Append(<<E0, F0>>, c) = <<E0, F0, c>>
        BY Bytes3, Zenon
      <3> QED BY <3>1, <3>2, <3>9, Zenon
    <2>7. Break(k) = <<E0, F0, c>>
      BY <2>1, <2>2, Zenon
    <2> QED BY <2>5, <2>6, <2>7, Zenon
  <1>c. CASE k = "PRTSCR"
    <2>1. 18 \in Scan /\ 124 \in Scan /\ KeyAt(18, 2) = "PRTSCR" /\ KeyAt(124, 2) = "PRTSCR"
      BY Keys DEF Scan
    <2>2. (IF k \in Modifier THEN m \ {k} ELSE m) = m
      BY <1>c DEF Modifier
    <2>3. PICK t1, t2, t3 : t1 = Append(<<>>, E0) /\ t2 = Append(t1, F0) /\ t3 = Append(t2, 124)
      BY Zenon
    <2>4. PICK t4, t5, t6 : t4 = Append(t3, E0) /\ t5 = Append(t4, F0) /\ t6 = Append(t5, 18)
      BY Zenon
    <2>5. Comes(d, w, t1, n, 1, FALSE, m, l, s)
      BY <2>3, ComesMark, Zenon
    <2>6. Comes(d, w, t2, n, 1, TRUE, m, l, s)
      BY <2>3, <2>5, ComesMark, Zenon
    <2>8. Comes(d, w, t3, n, 0, FALSE, m, l, s)
      BY <2>1, <2>3, <2>6, ComesReleased, Zenon
    <2>9. Comes(d, w, t4, n, 1, FALSE, m, l, s)
      BY <2>4, <2>8, ComesMark, Zenon
    <2>10. Comes(d, w, t5, n, 1, TRUE, m, l, s)
      BY <2>4, <2>9, ComesMark, Zenon
    <2>11. Comes(d, w, t6, n, 0, FALSE, m, l, s)
      BY <2>1, <2>4, <2>10, ComesReleased, Zenon
    <2>12. t6 = <<E0, F0, 124, E0, F0, 18>>
      <3>1. t1 = <<E0>>
        BY <2>3, MarksNat, FirstByte
      <3>2. t2 = <<E0, F0>>
        BY <2>3, <3>1, MarksNat, Bytes2
      <3>3. t3 = <<E0, F0, 124>>
        <4>1. Append(<<E0, F0>>, 124) = <<E0, F0, 124>>
          BY Bytes3, Zenon
        <4> QED BY <2>3, <3>2, <4>1, Zenon
      <3>4. t4 = <<E0, F0, 124, E0>>
        <4>1. Append(<<E0, F0, 124>>, E0) = <<E0, F0, 124, E0>>
          BY Bytes4, Zenon
        <4> QED BY <2>4, <3>3, <4>1, Zenon
      <3>5. t5 = <<E0, F0, 124, E0, F0>>
        <4>1. Append(<<E0, F0, 124, E0>>, F0) = <<E0, F0, 124, E0, F0>>
          BY Bytes5, Zenon
        <4> QED BY <2>4, <3>4, <4>1, Zenon
      <3>9. Append(<<E0, F0, 124, E0, F0>>, 18) = <<E0, F0, 124, E0, F0, 18>>
        BY Bytes6
      <3> QED BY <2>4, <3>5, <3>9, Zenon
    <2>13. Break(k) = t6
      BY <1>c, <2>12, BreakIs
    <2> QED BY <2>2, <2>11, <2>13, Zenon
  <1> QED BY <1>a, <1>b, <1>c, PhysicalIs

-----------------------------------------------------------------------------
(* What the user means by a key is what the handler would send for it with  *)
(* the modifiers held and the locks set as they are now.                    *)
LEMMA Escaped ==
  ASSUME NEW y
  PROVE  <<"ESCAPE">> \o <<y>> = <<"ESCAPE", y>> /\ <<>> \o <<y>> = <<y>>
  <1>1. PICK S, a, b : S = {"ESCAPE", y} /\ a = <<"ESCAPE">> /\ b = <<y>>
    OBVIOUS
  <1>2. a \in Seq(S) /\ b \in Seq(S) /\ Len(a) = 1 /\ Len(b) = 1
    BY <1>1
  <1>3. Append(a, y) = <<"ESCAPE", y>>
    BY <1>1, Bytes2
  <1>4. a \o b = Append(a, y)
    BY <1>1, <1>2
  <1>5. <<>> \o b = b
    BY <1>2, ConcatEmptySeq
  <1> QED BY <1>1, <1>3, <1>4, <1>5

LEMMA MeaningIs ==
  ASSUME NEW k \in Physical \ (Modifier \cup LockKey)
  PROVE  Meaning(k) = Shifted([mods |-> held \cap Modifier, led |-> locks], k) /\ Meaning(k) \in Symbol
  <1>1. PICK b : b = [mods |-> held \cap Modifier, led |-> locks]
    OBVIOUS
  <1>2. /\ "LSHIFT" \in b.mods <=> "LSHIFT" \in held
        /\ "RCTRL" \in b.mods <=> "RCTRL" \in held
        /\ b.led = locks
    BY <1>1 DEF Modifier
  <1>3. k \in {"a", "1", "KP_7", "HOME", "DELETE", "KP_ENTER", "PAUSE", "PRTSCR"}
    BY DEF Physical
  <1>4. Meaning(k) = Shifted(b, k)
    BY <1>2, <1>3 DEF Meaning, Shifted
  <1>5. Meaning(k) \in Symbol
    BY <1>3 DEF Meaning, Symbol
  <1> QED BY <1>1, <1>4, <1>5

LEMMA SymbolsAre ==
  ASSUME NEW k \in Physical, NEW s \in Seq(Symbol)
  PROVE  s \o Symbols(k) = Twice(held \cap Modifier, locks, k, s) /\ s \o Symbols(k) \in Seq(Symbol)
  <1>1. PICK m, l : m = held \cap Modifier /\ l = locks
    OBVIOUS
  <1>a. CASE k \in Modifier \cup LockKey
    <2>1. Symbols(k) = <<>> /\ Out(m, l, k) = <<>> /\ k # "PRTSCR"
      BY <1>a DEF Symbols, Out, Modifier, LockKey
    <2>2. Twice(m, l, k, s) = s \o <<>>
      BY <2>1 DEF Twice
    <2>3. s \o <<>> = s
      BY ConcatEmptySeq
    <2> QED BY <1>1, <2>1, <2>2, <2>3
  <1>b. CASE k \notin Modifier \cup LockKey
    <2>1. PICK y : y = Meaning(k)
      OBVIOUS
    <2>2. y \in Symbol /\ y = Shifted([mods |-> m, led |-> l], k)
      BY <1>1, <1>b, <2>1, MeaningIs
    <2>3. PICK a : a = IF "LALT" \in held THEN <<"ESCAPE", y>> ELSE <<y>>
      OBVIOUS
    <2>4. Out(m, l, k) = (IF "LALT" \in m THEN <<"ESCAPE">> ELSE <<>>) \o <<y>>
      BY <1>b, <2>2 DEF Out, Emits
    <2>5. "LALT" \in m <=> "LALT" \in held
      BY <1>1 DEF Modifier
    <2>6. Out(m, l, k) = a
      BY <2>3, <2>4, <2>5, Escaped
    <2>7. a \in Seq(Symbol)
      <3>1. "ESCAPE" \in Symbol
        BY DEF Symbol
      <3> QED BY <2>2, <2>3, <3>1
    <2>8. Symbols(k) = IF k = "PRTSCR" THEN a \o a ELSE a
      BY <1>b, <2>1, <2>3 DEF Symbols
    <2>9. s \o (a \o a) = (s \o a) \o a /\ s \o a \in Seq(Symbol) /\ (s \o a) \o a \in Seq(Symbol)
      BY <2>7, ConcatAssociative, ConcatProperties
    <2>10. Twice(m, l, k, s) = IF k = "PRTSCR" THEN (s \o a) \o a ELSE s \o a
      BY <2>6 DEF Twice
    <2> QED BY <1>1, <2>8, <2>9, <2>10
  <1> QED BY <1>a, <1>b

-----------------------------------------------------------------------------
(* The inductive invariant: to replay the bytes on the wire takes the       *)
(* decoder from its state to what the user means.                           *)
Current == [b |-> kb, s |-> sent]
InitState == [at : {"enable", "config", "selftest", "test", "failed", "ready"}, irq : BOOLEAN, xlate : BOOLEAN,
              registered : BOOLEAN, disturbed : BOOLEAN]

KbTypes ==
  /\ wire \in Seq(Nat) /\ owed \in Nat /\ held \subseteq Physical \ {"PAUSE"} /\ expected \in Seq(Symbol)
  /\ Current \in Decoder /\ init \in InitState /\ dead \in {"no", "ctrl+alt+del"}
Untouched ==
  /\ wire \in Seq(Nat \ {Ack}) /\ owed = 0 /\ held = {} /\ locks = {} /\ expected = <<>> /\ sent = <<>> /\ dead = "no"
  /\ kb = [is_break |-> FALSE, mods |-> {}, led |-> {}, acks |-> 0, extended |-> 0]
Replayed(d) == Comes(d, wire, <<>>, kb.acks - owed, 0, FALSE, held \cap Modifier, locks, expected)
Dialogue ==
  /\ ~ init.disturbed => /\ init.at = "config" => wire = <<Config>>
                         /\ init.at = "selftest" => wire = <<Passed>>
                         /\ init.at # "failed"
  /\ init.at \in {"selftest", "test"} => ~ init.xlate
  /\ init.at = "ready" => init.irq /\ init.registered /\ ~ init.xlate
KbInv ==
  /\ KbTypes /\ Dialogue
  /\ init.at # "ready" => Untouched
  /\ init.at = "ready" => \E d : Replayed(d) /\ (dead = "no" => d = Current)

LEMMA KbInitially == KbInit => KbInv
  <1> SUFFICES ASSUME KbInit PROVE KbInv
    OBVIOUS
  <1>1. wire \in Seq(Nat \ {Ack}) /\ wire \in Seq(Nat)
    <2>1. PICK S : S = Nat \ {Ack}
      OBVIOUS
    <2>2. 28 \in S
      BY <2>1 DEF Ack
    <2>3. <<>> \in Seq(S) /\ <<28>> \in Seq(S) /\ <<>> \in Seq(Nat) /\ <<28>> \in Seq(Nat)
      BY <2>2
    <2> QED BY <2>1, <2>3 DEF KbInit
  <1>2. Current \in Decoder /\ expected \in Seq(Symbol)
    BY DEF KbInit, Current, Decoder, KbState
  <1>3. KbTypes
    BY <1>1, <1>2 DEF KbInit, KbTypes, InitState
  <1>4. Untouched /\ init.at # "ready" /\ Dialogue
    BY <1>1 DEF KbInit, Untouched, Dialogue
  <1> QED BY <1>3, <1>4 DEF KbInv

(* The steps of init before the handler is registered.                      *)
LEMMA EarlySteps ==
  ASSUME KbInv, InitDrain \/ InitConfig \/ InitSelfTest \/ TypeEarly
  PROVE  KbInv'
  <1>1. /\ init.at \in {"enable", "config", "selftest", "test"} /\ init'.at \in {"config", "selftest", "test", "failed"}
        /\ UNCHANGED <<owed, held, locks, expected, kb, sent, dead>>
        /\ init \in InitState
    BY DEF InitDrain, InitConfig, InitSelfTest, TypeEarly, user, KbInv, KbTypes, InitState
  <1>2. Untouched /\ KbTypes /\ Dialogue
    BY <1>1 DEF KbInv
  <1>3. wire' \in Seq(Nat \ {Ack}) /\ wire' \in Seq(Nat)
    <2>1. wire \in Seq(Nat \ {Ack})
      BY <1>2 DEF Untouched
    <2>2. 28 \in Nat \ {Ack} /\ Config \in Nat \ {Ack} /\ Passed \in Nat \ {Ack} /\ 0 \in Nat \ {Ack}
      BY DEF Ack, Config, Passed
    <2>3. PICK S : S = Nat \ {Ack}
      OBVIOUS
    <2>4. <<28>> \o wire \in Seq(S) /\ Append(wire, 28) \in Seq(S) /\ <<Config>> \in Seq(S)
      BY <2>1, <2>2, <2>3
    <2>5. wire # <<>> => Tail(wire) \in Seq(S) /\ Append(Tail(wire), Passed) \in Seq(S) /\ Append(Tail(wire), 0) \in Seq(S)
      BY <2>1, <2>2, <2>3
    <2>6. wire' \in Seq(S)
      BY <2>4, <2>5 DEF InitDrain, InitConfig, InitSelfTest, TypeEarly
    <2> QED BY <2>3, <2>6
  <1>4. init' \in InitState
    BY <1>1, <1>2 DEF InitDrain, InitConfig, InitSelfTest, TypeEarly, InitState
  <1>5. KbTypes' /\ Untouched'
    BY <1>1, <1>2, <1>3, <1>4 DEF KbTypes, Untouched, Current
  <1>6. Dialogue'
    <2>a. CASE InitDrain
      BY <2>a, <1>1, <1>2 DEF InitDrain, Dialogue, InitState
    <2>b. CASE InitConfig
      <3>1. init' = [init EXCEPT !.at = "selftest", !.irq = FALSE, !.xlate = FALSE, !.disturbed = @ \/ Head(wire) # Config]
        BY <2>b DEF InitConfig
      <3>2. init'.at = "selftest" /\ ~ init'.xlate /\ (init'.disturbed <=> init.disturbed \/ Head(wire) # Config)
        BY <3>1, <1>1 DEF InitState
      <3>3. ~ init.disturbed => wire = <<Config>>
        BY <1>2, <2>b DEF Dialogue, InitConfig
      <3>4. ~ init.disturbed => wire' = <<Passed>>
        <4>1. wire' = Append(Tail(wire), Passed)
          BY <2>b DEF InitConfig
        <4>2. Tail(<<Config>>) = <<>> /\ Append(<<>>, Passed) = <<Passed>>
          OBVIOUS
        <4> QED BY <3>3, <4>1, <4>2
      <3> QED BY <3>2, <3>4 DEF Dialogue
    <2>c. CASE InitSelfTest
      <3>1. ~ init.xlate /\ (~ init.disturbed => wire = <<Passed>>) /\ init.at = "selftest"
        BY <1>2, <2>c DEF Dialogue, InitSelfTest
      <3>2. ~ init.disturbed => Head(wire) = Passed
        BY <3>1
      <3>3. ~ init'.xlate /\ init'.disturbed = init.disturbed /\ init'.at \in {"test", "failed"}
            /\ (init'.at = "failed" => init'.disturbed)
        BY <1>1, <2>c, <3>1, <3>2 DEF InitSelfTest, InitState
      <3> QED BY <3>3 DEF Dialogue
    <2>d. CASE TypeEarly
      <3>1. init'.disturbed /\ init'.at = init.at /\ init'.xlate = init.xlate /\ init.at # "ready"
        BY <2>d, <1>1 DEF TypeEarly, InitState
      <3> QED BY <1>2, <3>1 DEF Dialogue
    <2> QED BY <2>a, <2>b, <2>c, <2>d
  <1> QED BY <1>1, <1>5, <1>6 DEF KbInv

LEMMA ComesNone ==
  ASSUME NEW d \in Decoder
  PROVE  Comes(d, <<>>, <<>>, 0, d.b.extended, d.b.is_break, d.b.mods, d.b.led, d.s)
  <1>1. Underway(d, <<>>, 0, d)
    BY PendingNone
  <1>2. Decoding(d, d.b.extended, d.b.is_break, d.b.mods, d.b.led, d.s)
    BY Zenon DEF Decoding
  <1>3. <<>> \in Seq(Nat) /\ <<>> \o <<>> = <<>> /\ 0 \in Int
    BY ConcatEmptySeq
  <1> QED BY <1>1, <1>2, <1>3, Zenon DEF Comes

LEMMA ReadyStep ==
  ASSUME KbInv, InitTest
  PROVE  KbInv'
  <1>1. Untouched /\ KbTypes /\ ~ init.xlate /\ init \in InitState
    BY DEF KbInv, InitTest, Dialogue, KbTypes
  <1>2. wire' = <<>> /\ init' = [init EXCEPT !.at = "ready", !.registered = TRUE, !.irq = TRUE]
        /\ UNCHANGED <<owed, held, locks, expected, kb, sent, dead>>
    BY DEF InitTest, InitDone, user
  <1>3. init' \in InitState /\ init'.at = "ready" /\ init'.registered /\ init'.irq /\ ~ init'.xlate
    BY <1>1, <1>2 DEF InitState
  <1>4. KbTypes' /\ Dialogue'
    BY <1>1, <1>2, <1>3 DEF KbTypes, Dialogue, Current
  <1>5. PICK d : d = Current'
    OBVIOUS
  <1>6. d \in Decoder
    BY <1>4, <1>5 DEF KbTypes
  <1>7. d.b.extended = 0 /\ d.b.is_break = FALSE /\ d.b.mods = {} /\ d.b.led = {} /\ d.s = <<>>
    BY <1>1, <1>2, <1>5 DEF Untouched, Current
  <1>8. Comes(d, <<>>, <<>>, 0, 0, FALSE, {}, {}, <<>>)
    BY <1>6, <1>7, ComesNone
  <1>9. wire' = <<>> /\ kb'.acks - owed' = 0 /\ held' \cap Modifier = {} /\ locks' = {} /\ expected' = <<>>
    BY <1>1, <1>2 DEF Untouched
  <1>10. Replayed(d)'
    BY <1>8, <1>9 DEF Replayed
  <1> QED BY <1>3, <1>4, <1>5, <1>10 DEF KbInv

(* The user, and the keyboard that acknowledges.                            *)
LEMMA ComesJoin ==
  ASSUME NEW d, NEW w, NEW t, NEW n, NEW x, NEW brk, NEW m, NEW l, NEW s, Comes(d, w, t, n, x, brk, m, l, s)
  PROVE  Comes(d, w \o t, <<>>, n, x, brk, m, l, s) /\ w \o t \in Seq(Nat)
  <1>1. w \in Seq(Nat) /\ t \in Seq(Nat) /\ n \in Int
    BY Zenon DEF Comes
  <1>2. w \o t \in Seq(Nat) /\ <<>> \in Seq(Nat)
    BY <1>1, ConcatProperties
  <1>3. (w \o t) \o <<>> = w \o t
    BY <1>2, ConcatEmptySeq
  <1> QED BY <1>1, <1>2, <1>3, Zenon DEF Comes

LEMMA PressStep ==
  ASSUME KbInv, NEW k \in Physical, Press(k)
  PROVE  KbInv'
  <1>1. init.at = "ready" /\ KbTypes /\ Dialogue
    BY DEF Press, KbInv
  <1>2. PICK d : Replayed(d) /\ (dead = "no" => d = Current)
    BY <1>1 DEF KbInv
  <1>3. Comes(d, wire, Make(k), kb.acks - owed, 0, FALSE, ModsOf(held \cap Modifier, k), LedOf(locks, k),
              Twice(held \cap Modifier, locks, k, expected))
    BY <1>2, PressComes, Zenon DEF Replayed
  <1>4. expected' = Twice(held \cap Modifier, locks, k, expected) /\ expected' \in Seq(Symbol)
    BY <1>1, SymbolsAre DEF Press, KbTypes
  <1>5. held' \cap Modifier = ModsOf(held \cap Modifier, k) /\ held' \subseteq Physical \ {"PAUSE"}
    BY <1>1 DEF Press, ModsOf, Modifier, KbTypes
  <1>6. locks' = LedOf(locks, k)
    BY DEF Press, LedOf
  <1>7. wire' = wire \o Make(k) /\ UNCHANGED <<owed, init, kb, sent, dead>>
    BY DEF Press
  <1>8. Comes(d, wire \o Make(k), <<>>, kb.acks - owed, 0, FALSE, ModsOf(held \cap Modifier, k), LedOf(locks, k),
              Twice(held \cap Modifier, locks, k, expected)) /\ wire \o Make(k) \in Seq(Nat)
    BY <1>3, ComesJoin, Zenon
  <1>9. Replayed(d)'
    BY <1>4, <1>5, <1>6, <1>7, <1>8, Zenon DEF Replayed
  <1>10. KbTypes'
    BY <1>1, <1>4, <1>5, <1>7, <1>8 DEF KbTypes, Current
  <1>11. Dialogue' /\ init'.at = "ready" /\ (dead' = "no" => d = Current')
    BY <1>1, <1>2, <1>7 DEF Dialogue, Current
  <1> QED BY <1>9, <1>10, <1>11 DEF KbInv

LEMMA LetGoStep ==
  ASSUME KbInv, NEW k \in Physical, LetGo(k)
  PROVE  KbInv'
  <1>1. init.at = "ready" /\ KbTypes /\ Dialogue /\ k # "PAUSE"
    BY DEF LetGo, KbInv, Untouched, KbTypes
  <1>2. PICK d : Replayed(d) /\ (dead = "no" => d = Current)
    BY <1>1 DEF KbInv
  <1>3. PICK o : o = IF k \in Modifier THEN (held \cap Modifier) \ {k} ELSE held \cap Modifier
    BY Zenon
  <1>4. Comes(d, wire, Break(k), kb.acks - owed, 0, FALSE, o, locks, expected)
    BY <1>1, <1>2, <1>3, LetGoComes, Zenon DEF Replayed
  <1>5. held' \cap Modifier = o /\ held' \subseteq Physical \ {"PAUSE"}
    BY <1>1, <1>3 DEF LetGo, KbTypes
  <1>6. wire' = wire \o Break(k) /\ UNCHANGED <<owed, locks, expected, init, kb, sent, dead>>
    BY DEF LetGo
  <1>7. Comes(d, wire \o Break(k), <<>>, kb.acks - owed, 0, FALSE, o, locks, expected) /\ wire \o Break(k) \in Seq(Nat)
    BY <1>4, ComesJoin, Zenon
  <1>8. Replayed(d)'
    BY <1>5, <1>6, <1>7, Zenon DEF Replayed
  <1>9. KbTypes'
    BY <1>1, <1>5, <1>6, <1>7 DEF KbTypes, Current
  <1>10. Dialogue' /\ init'.at = "ready" /\ (dead' = "no" => d = Current')
    BY <1>1, <1>2, <1>6 DEF Dialogue, Current
  <1> QED BY <1>8, <1>9, <1>10 DEF KbInv

(* An acknowledgement may come between any two bytes of a key or keys.      *)
LEMMA AckStep ==
  ASSUME KbInv, SendAck
  PROVE  KbInv'
  <1>1. init.at = "ready" /\ KbTypes /\ Dialogue
    BY DEF SendAck, KbInv, Untouched, KbTypes
  <1>2. PICK d : Replayed(d) /\ (dead = "no" => d = Current)
    BY <1>1 DEF KbInv
  <1>3. PICK n, m, w : n = kb.acks - owed /\ m = held \cap Modifier /\ w = wire
    OBVIOUS
  <1>4. Comes(d, w, <<>>, n, 0, FALSE, m, locks, expected)
    BY <1>2, <1>3, Zenon DEF Replayed
  <1>5. PICK e : Underway(d, w \o <<>>, n, e) /\ Decoding(e, 0, FALSE, m, locks, expected)
    BY <1>4, Zenon DEF Comes
  <1>6. w \o <<>> = w /\ w \in Seq(Nat) /\ n \in Int
    BY <1>1, <1>3, <1>4, ConcatEmptySeq DEF KbTypes, Comes
  <1>7. PICK f : Reads(e, Ack, f) /\ Decoding(f, 0, FALSE, m, locks, expected)
    BY <1>5, MarksRead, Zenon
  <1>8. f \in Decoder /\ Ack \in Nat /\ Underway(d, w, n, e)
    BY <1>5, <1>6, <1>7 DEF Decoding, Ack
  <1>9. Underway(d, Append(w, Ack), n + 1, f)
    BY <1>7, <1>8, PendingMore
  <1>10. PICK v : v = Append(w, Ack)
    OBVIOUS
  <1>11. v \in Seq(Nat) /\ v \o <<>> = v /\ n + 1 \in Int /\ <<>> \in Seq(Nat)
    BY <1>6, <1>8, <1>10, AppendProperties, ConcatEmptySeq
  <1>12. Comes(d, v, <<>>, n + 1, 0, FALSE, m, locks, expected)
    BY <1>7, <1>9, <1>10, <1>11, Zenon DEF Comes
  <1>13. wire' = v /\ owed' = owed - 1 /\ owed > 0 /\ UNCHANGED <<held, locks, expected, init, kb, sent, dead>>
    BY <1>3, <1>10 DEF SendAck, user
  <1>14. kb.acks \in Int /\ owed \in Nat
    BY <1>1 DEF KbTypes, Current, Decoder, KbState
  <1>15. kb'.acks - owed' = n + 1 /\ held' \cap Modifier = m /\ owed' \in Nat
    BY <1>3, <1>13, <1>14
  <1>16. Replayed(d)'
    BY <1>12, <1>13, <1>15, Zenon DEF Replayed
  <1>17. KbTypes'
    BY <1>1, <1>11, <1>13, <1>15 DEF KbTypes, Current
  <1>18. Dialogue' /\ init'.at = "ready" /\ (dead' = "no" => d = Current')
    BY <1>1, <1>2, <1>13 DEF Dialogue, Current
  <1> QED BY <1>16, <1>17, <1>18 DEF KbInv

(* The handler: by the replay the next byte fails no assertion, and takes   *)
(* the decoder to the next state of the replay, unless it reboots.          *)
LEMMA MakeStep ==
  ASSUME NEW b \in KbState, NEW key, sent \in Seq(Symbol), owed \in Nat, dead = "no", MakeCode(b, key),
         NEW f \in Decoder, f.b = Made(b, key), f.s = Typed(b, key, sent), Shifted(b, key) \in Symbol
  PROVE  /\ kb' \in KbState /\ sent' \in Seq(Symbol) /\ owed' \in Nat /\ kb'.acks - owed' = b.acks - owed
         /\ dead' \in {"no", "ctrl+alt+del"} /\ (dead' = "no" => kb' = f.b /\ sent' = f.s)
  <1>a. CASE key \in Modifier
    <2>1. kb' = [b EXCEPT !.mods = @ \cup {key}] /\ UNCHANGED <<owed, sent, dead>>
      BY <1>a DEF MakeCode
    <2>2. f.b = kb' /\ f.s = sent'
      BY <1>a, <2>1 DEF Made, Typed
    <2> QED BY <1>a, <2>1, <2>2 DEF KbState
  <1>b. CASE key \in LockKey
    <2>1. key \notin Modifier
      BY <1>b DEF LockKey, Modifier
    <2>2. kb' = Toggle(b, key) /\ owed' = owed + 2 /\ UNCHANGED <<sent, dead>>
      BY <1>b, <2>1 DEF MakeCode
    <2>3. f.b = kb' /\ f.s = sent'
      BY <1>b, <2>1, <2>2 DEF Made, Typed
    <2>4. kb' \in KbState /\ kb'.acks = b.acks + 2
      <3>1. kb' \in KbState
        BY <2>3 DEF Decoder
      <3>2. Toggle(b, key).acks = b.acks + 2
        BY DEF KbState, Toggle
      <3> QED BY <2>2, <3>1, <3>2
    <2>5. b.acks \in Int
      BY DEF KbState
    <2>6. kb'.acks - owed' = b.acks - owed /\ owed' \in Nat
      <3>1. PICK x, y : x = b.acks /\ y = owed
        OBVIOUS
      <3>2. kb'.acks = x + 2 /\ owed' = y + 2 /\ x \in Int /\ y \in Nat
        BY <2>2, <2>4, <2>5, <3>1
      <3>3. (x + 2) - (y + 2) = x - y /\ y + 2 \in Nat
        BY <3>2
      <3> QED BY <3>1, <3>2, <3>3, Zenon
    <2> QED BY <2>2, <2>3, <2>4, <2>6
  <1>c. CASE key \notin Modifier \cup LockKey
    <2>1. kb' = b /\ UNCHANGED owed
      BY <1>c DEF MakeCode
    <2>2. f.b = b /\ f.s = sent \o Emits(b, key)
      BY <1>c DEF Made, Typed
    <2>a. CASE {"LALT", "RCTRL"} \subseteq b.mods /\ key = "DELETE"
      <3>1. dead' = "ctrl+alt+del" /\ sent' = sent
        BY <1>c, <2>a DEF MakeCode
      <3> QED BY <2>1, <3>1
    <2>b. CASE ~ ({"LALT", "RCTRL"} \subseteq b.mods /\ key = "DELETE")
      <3>1. PICK a, y : a = (IF "LALT" \in b.mods THEN <<"ESCAPE">> ELSE <<>>) /\ y = <<Shifted(b, key)>>
        OBVIOUS
      <3>2. sent' = (sent \o a) \o y /\ dead' = dead
        BY <1>c, <2>b, <3>1 DEF MakeCode
      <3>3. Emits(b, key) = a \o y
        BY <3>1 DEF Emits
      <3>4. a \in Seq(Symbol) /\ y \in Seq(Symbol)
        <4>1. "ESCAPE" \in Symbol
          BY DEF Symbol
        <4> QED BY <3>1, <4>1
      <3>5. (sent \o a) \o y = sent \o (a \o y) /\ (sent \o a) \o y \in Seq(Symbol)
        BY <3>4, ConcatAssociative, ConcatProperties
      <3> QED BY <2>1, <2>2, <3>2, <3>3, <3>5
    <2> QED BY <2>a, <2>b
  <1> QED BY <1>a, <1>b, <1>c

LEMMA KeyIsSymbol ==
  ASSUME NEW b \in KbState, NEW c, Asserts(b, c), c \notin Marks, ~ Half(b, c)
  PROVE  KeyOf(b, c) \in Symbol /\ Shifted(Complete(b), KeyOf(b, c)) \in Symbol /\ Complete(b) \in KbState
         /\ Complete(b).acks = b.acks
  <1>1. c \in Scan /\ (b.extended \in {0, 1} \/ (b.extended = 3 /\ ATtoXT[c] = 69))
    BY TableAT DEF Asserts, Marks
  <1>2. \A x \in {1, 2} : KeyAt(c, x) \in Symbol
    BY <1>1, Keys DEF Scan, Symbol
  <1>3. b.extended \in {0, 1} => KeyOf(b, c) = KeyAt(c, b.extended + 1)
    BY DEF KeyOf, KeyAt
  <1>4. b.extended = 3 => KeyOf(b, c) = "PAUSE"
    BY <1>1 DEF KeyOf
  <1>5. KeyOf(b, c) \in Symbol
    BY <1>1, <1>2, <1>3, <1>4 DEF Symbol
  <1>6. Complete(b) \in KbState /\ Complete(b).acks = b.acks
    BY DEF Complete, KbState
  <1> QED BY <1>5, <1>6, ShiftedSame

LEMMA ByteStep ==
  ASSUME KbInv, HandleByte
  PROVE  KbInv'
  <1>1. init.at = "ready" /\ wire # <<>> /\ dead = "no" /\ KbTypes /\ Dialogue /\ wire' = Tail(wire)
        /\ UNCHANGED <<held, locks, expected, init>>
    BY DEF HandleByte, KbInv, user
  <1>2. Replayed(Current)
    BY <1>1 DEF KbInv
  <1>3. PICK d, n, m, w, c : d = Current /\ n = kb.acks - owed /\ m = held \cap Modifier /\ w = wire /\ c = Head(wire)
    OBVIOUS
  <1>4. Comes(d, w, <<>>, n, 0, FALSE, m, locks, expected)
    BY <1>2, <1>3, Zenon DEF Replayed
  <1>5. PICK e : Underway(d, w \o <<>>, n, e) /\ Decoding(e, 0, FALSE, m, locks, expected)
    BY <1>4, Zenon DEF Comes
  <1>6. w \o <<>> = w /\ w \in Seq(Nat) /\ w # <<>> /\ c = Head(w)
    BY <1>1, <1>3, ConcatEmptySeq DEF KbTypes
  <1>7. Underway(d, w, n, e)
    BY <1>5, <1>6
  <1>8. PICK f \in Decoder : Reads(d, c, f) /\ Underway(f, Tail(w), n - (IF c = Ack THEN 1 ELSE 0), e)
    BY <1>6, <1>7, PendingLess
  <1>9. d.b = kb /\ d.s = sent /\ kb \in KbState /\ sent \in Seq(Symbol) /\ owed \in Nat /\ kb.acks \in Int
    BY <1>1, <1>3 DEF Current, KbTypes, Decoder, KbState
  <1>10. /\ kb' \in KbState /\ sent' \in Seq(Symbol) /\ owed' \in Nat /\ kb'.acks - owed' = n - (IF c = Ack THEN 1 ELSE 0)
         /\ dead' \in {"no", "ctrl+alt+del"} /\ (dead' = "no" => kb' = f.b /\ sent' = f.s)
    <2>1. Asserts(kb, c)
      BY <1>8, <1>9 DEF Reads
    <2>a. CASE c \in Marks
      <3>1. kb' = Prefix(kb, c) /\ UNCHANGED <<owed, sent, dead>>
        BY <1>3, <2>1, <2>a DEF HandleByte, Marks
      <3>2. f.b = kb' /\ f.s = sent'
        BY <1>8, <1>9, <2>a, <3>1 DEF Reads
      <3>3. f.b \in KbState
        BY DEF Decoder
      <3>4. kb'.acks = kb.acks - (IF c = Ack THEN 1 ELSE 0)
        BY <1>9, <2>a, <3>1 DEF Prefix, KbState, Marks, E0, E1, F0, Ack
      <3> QED BY <1>1, <1>3, <1>9, <3>1, <3>2, <3>3, <3>4
    <2>b. CASE c \notin Marks
      <3>1. c # Ack /\ n - (IF c = Ack THEN 1 ELSE 0) = kb.acks - owed
        BY <1>3, <1>9, <2>b DEF Marks
      <3>a. CASE Half(kb, c)
        <4>1. kb' = [kb EXCEPT !.extended = 3] /\ UNCHANGED <<owed, sent, dead>>
          BY <1>3, <2>1, <2>b, <3>a DEF HandleByte, Marks
        <4>2. f.b = kb' /\ f.s = sent'
          BY <1>8, <1>9, <2>b, <3>a, <4>1 DEF Reads
        <4>3. kb' \in KbState /\ kb'.acks = kb.acks
          BY <1>9, <4>1 DEF KbState
        <4> QED BY <1>1, <1>9, <3>1, <4>1, <4>2, <4>3
      <3>b. CASE ~ Half(kb, c) /\ kb.is_break
        <4>1. kb' = Released(kb, KeyOf(kb, c)) /\ UNCHANGED <<owed, sent, dead>>
          BY <1>3, <2>1, <2>b, <3>b DEF HandleByte, Marks
        <4>2. f.b = kb' /\ f.s = sent'
          BY <1>8, <1>9, <2>b, <3>b, <4>1 DEF Reads
        <4>3. f.b \in KbState
          BY DEF Decoder
        <4>4. kb'.acks = kb.acks
          BY <1>9, <4>1 DEF KbState, Released, Complete
        <4> QED BY <1>1, <1>9, <3>1, <4>1, <4>2, <4>3, <4>4
      <3>c. CASE ~ Half(kb, c) /\ ~ kb.is_break
        <4>1. PICK b, key : b = Complete(kb) /\ key = KeyOf(kb, c)
          OBVIOUS
        <4>2. MakeCode(b, key)
          BY <1>3, <2>1, <2>b, <3>c, <4>1 DEF HandleByte, Marks
        <4>3. f.b = Made(b, key) /\ f.s = Typed(b, key, sent)
          BY <1>8, <1>9, <2>b, <3>c, <4>1 DEF Reads
        <4>4. b \in KbState /\ b.acks = kb.acks /\ Shifted(b, key) \in Symbol
          BY <1>9, <2>1, <2>b, <3>c, <4>1, KeyIsSymbol
        <4>5. /\ kb' \in KbState /\ sent' \in Seq(Symbol) /\ owed' \in Nat /\ kb'.acks - owed' = b.acks - owed
              /\ dead' \in {"no", "ctrl+alt+del"} /\ (dead' = "no" => kb' = f.b /\ sent' = f.s)
          BY <1>1, <1>9, <4>2, <4>3, <4>4, MakeStep
        <4> QED BY <3>1, <4>4, <4>5
      <3> QED BY <3>a, <3>b, <3>c
    <2> QED BY <2>a, <2>b
  <1>11. PICK v, k : v = Tail(w) /\ k = n - (IF c = Ack THEN 1 ELSE 0)
    OBVIOUS
  <1>12. v \in Seq(Nat) /\ v \o <<>> = v /\ <<>> \in Seq(Nat) /\ k \in Int
    BY <1>3, <1>6, <1>9, <1>11, ConcatEmptySeq, HeadTailProperties
  <1>13. Comes(f, v, <<>>, k, 0, FALSE, m, locks, expected)
    <2>1. Underway(f, v \o <<>>, k, e)
      BY <1>8, <1>11, <1>12, Zenon
    <2> QED BY <1>5, <1>12, <2>1, Zenon DEF Comes
  <1>14. wire' = v /\ kb'.acks - owed' = k /\ held' \cap Modifier = m
    BY <1>1, <1>3, <1>10, <1>11
  <1>15. Replayed(f)'
    BY <1>1, <1>13, <1>14, Zenon DEF Replayed
  <1>16. KbTypes'
    BY <1>1, <1>10, <1>12, <1>14 DEF KbTypes, Current, Decoder
  <1>17. dead' = "no" => f = Current'
    BY <1>10 DEF Current, Decoder
  <1>18. Dialogue' /\ init'.at = "ready"
    <2>1. init' = init /\ init.at = "ready"
      BY <1>1
    <2> QED BY <1>1, <2>1 DEF Dialogue
  <1> QED BY <1>15, <1>16, <1>17, <1>18 DEF KbInv

LEMMA KbKept ==
  ASSUME KbInv, [KbNext]_kbVars
  PROVE  KbInv'
  <1>a. CASE UNCHANGED kbVars
    <2>1. UNCHANGED <<wire, owed, held, locks, expected, init, kb, sent, dead>>
      BY <1>a DEF kbVars
    <2>2. KbTypes' /\ Dialogue' /\ (init'.at # "ready" => Untouched')
      BY <2>1 DEF KbInv, KbTypes, Dialogue, Untouched, Current
    <2>3. ASSUME init'.at = "ready" PROVE \E d : Replayed(d)' /\ (dead' = "no" => d = Current')
      <3>1. PICK d : Replayed(d) /\ (dead = "no" => d = Current)
        BY <2>1, <2>3 DEF KbInv
      <3>2. Replayed(d)' /\ (dead' = "no" => d = Current')
        BY <2>1, <3>1, Zenon DEF Replayed, Current
      <3> QED BY <3>2
    <2> QED BY <2>2, <2>3 DEF KbInv
  <1>b. CASE \E k \in Physical : Press(k) \/ LetGo(k)
    BY <1>b, PressStep, LetGoStep, Zenon
  <1> QED BY <1>a, <1>b, EarlySteps, ReadyStep, AckStep, ByteStep DEF KbNext, KbQuiet

(* The keyboard decodes what the user means, for every number of keys       *)
(* typed: however bytes of keys and acknowledgements mix on the wire, no    *)
(* assertion of the handler (Keyboard.cc:461-599) fails, what it has sent   *)
(* is what was meant once the wire is empty, acks counts what is owed or    *)
(* under way, and init leaves the controller as the handler needs it.       *)
THEOREM KeyboardStaysSound == KbSpec => []KeyboardSound
  <1>1. KbInv => KeyboardSound
    <2> SUFFICES ASSUME KbInv PROVE KeyboardSound
      OBVIOUS
    <2>1. InitComplete
      BY DEF KbInv, Dialogue, InitComplete
    <2>2. kb.acks \in Int /\ owed \in Nat /\ wire \in Seq(Nat) /\ dead # "assertion" /\ Current \in Decoder
      BY DEF KbInv, KbTypes, Current, Decoder, KbState
    <2>3. CASE init.at # "ready"
      <3>1. Untouched
        BY <2>3 DEF KbInv
      <3>2. AckAt(wire) = {}
        <4>1. \A i \in DOMAIN wire : wire[i] \in Nat \ {Ack}
          BY <3>1, ElementOfSeq DEF Untouched
        <4> QED BY <4>1 DEF AckAt
      <3>3. Cardinality(AckAt(wire)) = 0
        BY <3>2, FS_EmptySet
      <3>4. AcksBalanced
        BY <3>1, <3>3 DEF AcksBalanced, Untouched, AckAt
      <3> QED BY <2>1, <2>2, <2>3, <3>4 DEF KeyboardSound, DecodesAsMeant
    <2>4. CASE init.at = "ready"
      <3>1. PICK d : Replayed(d) /\ (dead = "no" => d = Current)
        BY <2>4 DEF KbInv
      <3>2. PICK n, m, w : n = kb.acks - owed /\ m = held \cap Modifier /\ w = wire
        OBVIOUS
      <3>3. PICK e : Underway(d, w \o <<>>, n, e) /\ Decoding(e, 0, FALSE, m, locks, expected)
        BY <3>1, <3>2, Zenon DEF Replayed, Comes
      <3>4. w \o <<>> = w
        BY <2>2, <3>2, ConcatEmptySeq
      <3>5. Cardinality(AckAt(w)) = n /\ Replays(d, w, e) /\ Cardinality(AckAt(w)) \in Nat
        BY <2>2, <3>2, <3>3, <3>4, AcksFinite DEF Underway
      <3>6. AcksBalanced
        BY <2>2, <3>2, <3>5 DEF AcksBalanced, AckAt
      <3>7. ASSUME wire = <<>>, dead = "no" PROVE e = Current
        <4>1. Len(w) = 0 /\ d = Current
          BY <3>1, <3>2, <3>7
        <4>2. d = e
          BY <3>5, <4>1 DEF Replays
        <4> QED BY <4>1, <4>2
      <3>8. ASSUME wire = <<>>, dead = "no"
            PROVE  sent = expected /\ kb.mods = held \cap Modifier /\ kb.led = locks /\ kb.extended = 0 /\ ~ kb.is_break
        <4>1. e.b = kb /\ e.s = sent
          BY <3>7, <3>8 DEF Current
        <4>2. kb.extended = 0 /\ kb.is_break = FALSE /\ kb.mods = m /\ kb.led = locks /\ sent = expected
          BY <3>3, <4>1, Zenon DEF Decoding
        <4> QED BY <3>2, <4>2
      <3> QED BY <2>1, <2>2, <3>6, <3>8 DEF KeyboardSound, DecodesAsMeant
    <2> QED BY <2>3, <2>4
  <1> QED BY <1>1, KbInitially, KbKept, PTL DEF KbSpec
=============================================================================
