--------------------------- MODULE SmmuCmdqProofs ---------------------------
(* Proofs about the SMMU command queue, for every size of the queue that    *)
(* holds one invalidation, with and without hypervisor support.             *)
EXTENDS SmmuCmdq, SequenceTheorems, TLAPS

(* smmu_tlbi_cfgi fits into the queue.  IDR1.CMDQS may be smaller.          *)
QueueHoldsBatch == Len(Batch) <= Entries

(* What the proofs use of the commands of one invalidation.                 *)
LEMMA BatchFacts ==
  /\ Len(Batch) \in {3, 4}
  /\ \A k \in 1 .. Len(Batch) : Batch[k] \in Ops
  /\ \A k \in 1 .. Len(Batch) : Batch[k] = "CMD_SYNC" <=> k = Len(Batch)
  /\ \A x \in Cached : \E k \in 1 .. Len(Batch) : x \in Scope(Batch[k])
<1> USE SmmuCmdqAssumption
<1>1. CASE Hyp
  <2>1. Batch = <<"CFGI_ALL", "TLBI_EL2_ALL", "TLBI_NSNH_ALL", "CMD_SYNC">>
    BY <1>1 DEF Batch
  <2>2. Len(Batch) = 4 /\ Batch[1] = "CFGI_ALL" /\ Batch[2] = "TLBI_EL2_ALL"
        /\ Batch[3] = "TLBI_NSNH_ALL" /\ Batch[4] = "CMD_SYNC"
    BY <2>1
  <2> QED BY <2>2 DEF Ops, Cached, Scope
<1>2. CASE ~Hyp
  <2>1. Batch = <<"CFGI_ALL", "TLBI_NSNH_ALL", "CMD_SYNC">>
    BY <1>2 DEF Batch
  <2>2. Len(Batch) = 3 /\ Batch[1] = "CFGI_ALL"
        /\ Batch[2] = "TLBI_NSNH_ALL" /\ Batch[3] = "CMD_SYNC"
    BY <2>1
  <2> QED BY <1>2, <2>2 DEF Ops, Cached, Scope
<1> QED BY <1>1, <1>2

(* The pointer arithmetic of smmu_cmdq_inc_prod and the masks: indices stay *)
(* within the queue and advancing a pointer shifts what lies ahead of it.   *)
LEMMA PtrFacts ==
  /\ \A p \in Ptr : Index(p) \in 0 .. Entries - 1 /\ Inc(p) \in Ptr
  /\ \A p, c \in Ptr : QueueEmpty(p, c) <=> p = c
  /\ ~SeesFull
  BY SmmuCmdqAssumption DEF Ptr, Index, Inc, QueueEmpty, QueueFull, SeesFull, CachedPtr

(* What lies ahead of the consumer is the same seen from the next pointer.  *)
LEMMA AheadInc ==
  ASSUME NEW p \in Ptr, NEW k \in Nat, k + 1 < 2 * Entries
  PROVE  Ahead(Inc(p), k) = Ahead(p, k + 1)
  BY SmmuCmdqAssumption DEF Ptr, Inc, Ahead

(* The slot the producer writes is none of those waiting to be fetched.     *)
LEMMA FreshSlot ==
  ASSUME prod \in Ptr, cons \in Ptr, Used < Entries, NEW k \in 1 .. Used
  PROVE  Index(Ahead(cons, k - 1)) # Index(prod)
  BY SmmuCmdqAssumption DEF Ptr, Used, Ahead, Index

(* The producer register is where the pending commands end.                 *)
LEMMA AheadUsed ==
  ASSUME prod \in Ptr, cons \in Ptr
  PROVE  /\ Used \in 0 .. 2 * Entries - 1
         /\ Ahead(cons, Used) = prod
         /\ Used = 0 <=> prod = cons
  BY SmmuCmdqAssumption DEF Ptr, Used, Ahead

(* The control points at which the driver is inside smmu_tlbi_cfgi.         *)
InBatch == {"cmd", "doorbell", "poll"}

(* The firmware's state satisfies the invariant.                            *)
LEMMA InitSmmuInv == Init => SmmuInv
<1> SUFFICES ASSUME Init PROVE SmmuInv
  OBVIOUS
<1> USE SmmuCmdqAssumption, BatchFacts DEF Init
<1>b. halted \in BOOLEAN /\ ours \in BOOLEAN /\ inReset \in BOOLEAN /\ timedOut \in BOOLEAN
  BY Zenon
<1>1. TypeOK
  BY <1>b DEF TypeOK, Ops, Enables, Pcs, Cached
<1> QED BY <1>1 DEF SmmuInv, RingInv, StaleInv

(* Each step keeps the types.                                               *)
LEMMA TypeStep == TypeOK /\ RingInv /\ [Next]_vars => TypeOK'
<1> SUFFICES ASSUME TypeOK, RingInv, [Next]_vars PROVE TypeOK'
  OBVIOUS
<1>b. SetupQueue => ours' \in BOOLEAN
  BY Zenon DEF SetupQueue
<1> USE SmmuCmdqAssumption, BatchFacts, PtrFacts DEF TypeOK, regs, hw, driver
<1>1. CASE SmmuInit
  BY <1>1 DEF SmmuInit, WriteCr0, Pcs
<1>2. CASE SyncWait
  <2>1. timedOut' \in BOOLEAN
    BY <1>2, Zenon DEF SyncWait
  <2> QED BY <1>2, <2>1 DEF SyncWait, Pcs
<1>3. CASE SetupQueue
  <2>1. CachedPtr \in Ptr
    BY DEF CachedPtr, Ptr
  <2>2. cr0' \subseteq Enables /\ pc' \in Pcs
    BY <1>3 DEF SetupQueue, WriteCr0, Pcs, Enables
  <2> QED BY <1>3, <1>b, <2>1, <2>2 DEF SetupQueue, WriteCr0
<1>4. CASE ResetInvalidate
  <2>1. inReset' \in BOOLEAN
    BY <1>4, Zenon DEF ResetInvalidate
  <2> QED BY <1>4, <2>1 DEF ResetInvalidate, Pcs
<1>5. CASE ChangeTable
  <2>1. inReset' \in BOOLEAN
    BY <1>5, Zenon DEF ChangeTable
  <2> QED BY <1>5, <2>1 DEF ChangeTable, Pcs, Cached
<1>6. CASE WriteCmd
  BY <1>6 DEF WriteCmd, Pcs
<1>7. CASE WriteProd
  BY <1>7 DEF WriteProd, Pcs
<1>8. CASE PollStart
  BY <1>8 DEF PollStart, Pcs
<1>9. CASE PollUntilConsumed
  BY <1>9 DEF PollUntilConsumed, WriteCr0, Pcs, Enables
<1>10. CASE InitDone
  BY <1>10 DEF InitDone, Pcs
<1>11. CASE SetState
  BY <1>11 DEF SetState, WriteCr0, Pcs, Enables
<1>12. CASE StateDone
  BY <1>12 DEF StateDone, Pcs
<1>13. CASE Stop
  BY <1>13 DEF Stop, WriteCr0, Pcs
<1>14. CASE StopDone
  BY <1>14 DEF StopDone, Pcs
<1>15. CASE Acknowledge
  BY <1>15 DEF Acknowledge
<1>16. CASE Consume
  BY <1>16 DEF Consume
<1>17. CASE Complete
  BY <1>17 DEF Complete
<1>18. CASE CommandError
  <2>1. halted' \in BOOLEAN
    BY <1>18, Zenon DEF CommandError
  <2> QED BY <1>18, <2>1 DEF CommandError
<1>19. CASE UNCHANGED vars
  BY <1>19 DEF vars
<1> QED
  BY <1>1, <1>2, <1>3, <1>4, <1>5, <1>6, <1>7, <1>8, <1>9, <1>10, <1>11, <1>12, <1>13,
     <1>14, <1>15, <1>16, <1>17, <1>18, <1>19 DEF Next, Driver, Device

(* A command the SMMU fetches shortens the queue by its head.               *)
LEMMA ConsumeUsed ==
  ASSUME TypeOK, Consume
  PROVE  /\ Used >= 1
         /\ Used' = Used - 1
         /\ \A k \in 1 .. Used - 1 : Ahead(cons', k - 1) = Ahead(cons, k)
         /\ Ahead(cons, 0) = cons
<1> USE SmmuCmdqAssumption DEF TypeOK, Consume
<1>1. Used >= 1 /\ Used' = Used - 1 /\ Ahead(cons, 0) = cons
  BY DEF Used, Ptr, Inc, Ahead
<1>2. ASSUME NEW k \in 1 .. Used - 1 PROVE Ahead(cons', k - 1) = Ahead(cons, k)
  <2>1. k - 1 \in Nat /\ (k - 1) + 1 < 2 * Entries /\ (k - 1) + 1 = k
    BY AheadUsed
  <2> QED BY <2>1, AheadInc
<1> QED BY <1>1, <1>2

(* A command the driver adds lengthens the queue by one.                    *)
LEMMA WriteProdUsed ==
  ASSUME TypeOK, WriteProd, Used < Entries
  PROVE  Used' = Used + 1
  BY SmmuCmdqAssumption DEF TypeOK, WriteProd, Used, Ptr, Inc

(* Each step keeps the ring in order.                                       *)
LEMMA RingStep ==
  ASSUME QueueHoldsBatch, TypeOK, RingInv, [Next]_vars, TypeOK' PROVE RingInv'
<1> USE SmmuCmdqAssumption, BatchFacts, PtrFacts DEF TypeOK, regs, hw, driver
<1>1. CASE SmmuInit \/ SyncWait \/ SetupQueue \/ InitDone \/ SetState \/ StateDone
           \/ Stop \/ StopDone
  BY <1>1 DEF SmmuInit, SyncWait, SetupQueue, InitDone, SetState, StateDone, Stop, StopDone,
     WriteCr0, Synced, RingInv
<1>2. CASE ResetInvalidate \/ ChangeTable
  <2>1. Used' = 0 /\ Written' = 0
    BY <1>2, AheadUsed DEF ResetInvalidate, ChangeTable, Synced, RingInv, Used, Written
  <2> QED BY <1>2, <2>1 DEF ResetInvalidate, ChangeTable, Synced, RingInv
<1>3. CASE WriteCmd
  <2>0. Used <= issued /\ Used < Entries /\ Used \in Nat
    BY <1>3, AheadUsed DEF WriteCmd, RingInv, Written, QueueHoldsBatch
  <2>1. Used' = Used /\ Written' = Written /\ Taken' = Taken /\ Written = issued
    BY <1>3 DEF WriteCmd, Used, Written, Taken
  <2>2. slot'[Index(prod)] = Batch[issued']
    BY <1>3 DEF WriteCmd
  <2>3. ASSUME ours, NEW k \in 1 .. Used
        PROVE  slot'[Index(Ahead(cons, k - 1))] = Batch[Taken + k]
    <3>1. Index(Ahead(cons, k - 1)) # Index(prod)
      BY <2>0, FreshSlot
    <3>2. slot'[Index(Ahead(cons, k - 1))] = slot[Index(Ahead(cons, k - 1))]
      BY <1>3, <3>1 DEF WriteCmd
    <3> QED BY <1>3, <2>3, <3>2 DEF WriteCmd, RingInv
  <2> QED BY <1>3, <2>0, <2>1, <2>2, <2>3 DEF WriteCmd, RingInv
<1>4. CASE WriteProd
  <2>0. Used <= issued - 1 /\ Used < Entries /\ Used \in Nat
    BY <1>4, AheadUsed DEF WriteProd, RingInv, Written, QueueHoldsBatch
  <2>1. Used' = Used + 1 /\ Written' = Written + 1 /\ Taken' = Taken
        /\ Taken + (Used + 1) = issued
    BY <1>4, <2>0, WriteProdUsed DEF WriteProd, Written, Taken
  <2>2. ASSUME ours, NEW k \in 1 .. Used + 1
        PROVE  slot[Index(Ahead(cons, k - 1))] = Batch[Taken + k]
    <3>1. CASE k \in 1 .. Used
      BY <1>4, <2>2, <3>1 DEF WriteProd, RingInv
    <3>2. CASE k = Used + 1
      <4>1. Ahead(cons, k - 1) = prod
        BY <2>0, <3>2, AheadUsed
      <4> QED BY <1>4, <2>1, <3>2, <4>1 DEF WriteProd, RingInv
    <3> QED BY <2>0, <3>1, <3>2
  <2> QED BY <1>4, <2>0, <2>1, <2>2 DEF WriteProd, RingInv, Written
<1>5. CASE PollStart
  BY <1>5 DEF PollStart, RingInv, Used, Written, Taken
<1>6. CASE PollUntilConsumed
  BY <1>6 DEF PollUntilConsumed, WriteCr0, RingInv
<1>7. CASE Consume
  <2>1. pc \in InBatch
    BY <1>7 DEF Consume, RingInv, InBatch
  <2>2. Used >= 1 /\ Used' = Used - 1 /\ Written' = Written /\ Taken' = Taken + 1
        /\ Used \in Nat /\ Taken \in Int
    BY <1>7, ConsumeUsed, AheadUsed DEF Consume, Written, Taken
  <2>3. ASSUME ours, NEW k \in 1 .. Used - 1
        PROVE  slot[Index(Ahead(cons', k - 1))] = Batch[Taken + 1 + k]
    <3>1. Ahead(cons', k - 1) = Ahead(cons, (k + 1) - 1) /\ k + 1 \in 1 .. Used
      BY <1>7, <2>2, ConsumeUsed
    <3>2. slot[Index(Ahead(cons, (k + 1) - 1))] = Batch[Taken + (k + 1)]
      BY <2>1, <2>3, <3>1 DEF RingInv, InBatch
    <3>3. Taken + (k + 1) = Taken + 1 + k
      BY <2>2
    <3> QED BY <3>1, <3>2, <3>3, Zenon
  <2> QED BY <1>7, <2>1, <2>2, <2>3 DEF Consume, RingInv, InBatch
<1>8. CASE Acknowledge \/ Complete \/ CommandError \/ UNCHANGED vars
  BY <1>8 DEF Acknowledge, Complete, CommandError, vars, RingInv, Used, Written, Taken
<1> QED
  BY <1>1, <1>2, <1>3, <1>4, <1>5, <1>6, <1>7, <1>8 DEF Next, Driver, Device

(* Each step that is acknowledged in time keeps track of what may be stale. *)
LEMMA StaleStep ==
  ASSUME QueueHoldsBatch, TypeOK, RingInv, StaleInv, [Next]_vars,
         TypeOK', RingInv', ~timedOut'
  PROVE  StaleInv'
<1> USE SmmuCmdqAssumption, BatchFacts, PtrFacts DEF TypeOK, regs, hw, driver
<1>1. CASE SmmuInit \/ SetupQueue \/ InitDone \/ SetState \/ StateDone \/ Stop \/ StopDone
  BY <1>1 DEF SmmuInit, SetupQueue, InitDone, SetState, StateDone, Stop, StopDone,
     WriteCr0, Synced, StaleInv
<1>2. CASE SyncWait
  BY <1>2 DEF SyncWait, StaleInv
<1>3. CASE ResetInvalidate \/ ChangeTable
  <2>1. Taken' = 0
    BY <1>3 DEF ResetInvalidate, ChangeTable, Synced, RingInv, Used, Written, Taken
  <2>2. \A x \in stale' : \E k \in 1 .. Len(Batch) : x \in Scope(Batch[k])
    BY <1>3 DEF ResetInvalidate, ChangeTable, StaleInv, Cached
  <2> QED BY <1>3, <2>1, <2>2 DEF ResetInvalidate, ChangeTable, Synced, StaleInv
<1>4. CASE WriteCmd \/ WriteProd \/ PollStart
  <2>1. Taken' = Taken
    <3>1. CASE WriteProd
      <4>1. Used < Entries
        BY <3>1, AheadUsed DEF WriteProd, RingInv, Written, QueueHoldsBatch
      <4> QED BY <3>1, <4>1, WriteProdUsed, AheadUsed DEF WriteProd, Written, Taken
    <3>2. CASE WriteCmd \/ PollStart
      BY <3>2 DEF WriteCmd, PollStart, Used, Written, Taken
    <3> QED BY <1>4, <3>1, <3>2
  <2> QED BY <1>4, <2>1 DEF WriteCmd, WriteProd, PollStart, StaleInv
<1>5. CASE PollUntilConsumed
  <2>1. Taken = Len(Batch)
    BY <1>5, AheadUsed DEF PollUntilConsumed, RingInv, Written, Taken
  <2>2. inflight = {} /\ stale = {}
    BY <1>5, <2>1 DEF PollUntilConsumed, StaleInv
  <2> QED BY <1>5, <2>2 DEF PollUntilConsumed, WriteCr0, StaleInv
<1>6. CASE Consume
  <2>1. pc \in InBatch /\ ours
    BY <1>6 DEF Consume, RingInv, StaleInv, InBatch
  <2>2. /\ Taken \in Int /\ Taken' = Taken + 1
        /\ Taken + 1 \in 1 .. Len(Batch)
        /\ slot[Index(cons)] = Batch[Taken + 1]
    <3>1. Used >= 1 /\ Used' = Used - 1 /\ Ahead(cons, 1 - 1) = cons /\ Used \in Nat
          /\ 1 \in 1 .. Used /\ Written' = Written /\ Written \in Int /\ Used <= Written
          /\ Written <= Len(Batch)
      BY <1>6, <2>1, ConsumeUsed, AheadUsed DEF Consume, RingInv, InBatch, Written
    <3>2. slot[Index(Ahead(cons, 1 - 1))] = Batch[Taken + 1]
      BY <2>1, <3>1 DEF RingInv, InBatch
    <3> QED BY <3>1, <3>2 DEF Taken
  <2>3. \A x \in stale' : \/ \E c \in inflight' : x \in Scope(c)
                         \/ \E k \in 1 .. Len(Batch) : k > Taken + 1 /\ x \in Scope(Batch[k])
    <3> SUFFICES ASSUME NEW x \in stale,
                        ~ \E k \in 1 .. Len(Batch) : k > Taken + 1 /\ x \in Scope(Batch[k])
                 PROVE  \E c \in inflight' : x \in Scope(c)
      BY <1>6 DEF Consume
    <3>1. CASE \E c \in inflight : x \in Scope(c)
      BY <1>6, <2>1, <3>1 DEF Consume
    <3>2. CASE ~ \E c \in inflight : x \in Scope(c)
      <4>0. PICK k \in 1 .. Len(Batch) : k > Taken /\ x \in Scope(Batch[k])
        BY <2>1, <3>2 DEF StaleInv, InBatch
      <4>1. x \in Scope(Batch[Taken + 1])
        <5>1. k = Taken + 1
          BY <2>2, <4>0
        <5> QED BY <4>0, <5>1
      <4>2. Batch[Taken + 1] # "CMD_SYNC"
        BY <4>1 DEF Scope
      <4> QED BY <1>6, <2>1, <2>2, <4>1, <4>2 DEF Consume
    <3> QED BY <3>1, <3>2
  <2>4. Taken + 1 = Len(Batch) => inflight' = {}
    BY <1>6, <2>1, <2>2 DEF Consume
  <2> QED BY <1>6, <2>1, <2>2, <2>3, <2>4 DEF Consume, StaleInv, InBatch
<1>7. CASE Complete
  <2> PICK c \in inflight : inflight' = inflight \ {c} /\ stale' = stale \ Scope(c)
    BY <1>7 DEF Complete
  <2>1. pc \in InBatch \cup {"dead"} /\ Taken' = Taken
    BY <1>7 DEF Complete, StaleInv, InBatch, Pcs, Used, Written, Taken
  <2>2. \A x \in stale' : (\E d \in inflight : x \in Scope(d))
                            => (\E e \in inflight' : x \in Scope(e))
    OBVIOUS
  <2> QED BY <1>7, <2>1, <2>2 DEF Complete, StaleInv, InBatch
<1>8. CASE Acknowledge
  BY <1>8 DEF Acknowledge, StaleInv, Used, Written, Taken
<1>9. CASE CommandError \/ UNCHANGED vars
  BY <1>9 DEF CommandError, vars, StaleInv, Used, Written, Taken
<1> QED
  BY <1>1, <1>2, <1>3, <1>4, <1>5, <1>6, <1>7, <1>8, <1>9 DEF Next, Driver, Device

(* The invariant holds of every reachable state.                            *)
THEOREM SmmuInvariant == QueueHoldsBatch => (Spec => []SmmuInv)
<1> SUFFICES ASSUME QueueHoldsBatch PROVE Spec => []SmmuInv
  OBVIOUS
<1>1. ASSUME SmmuInv, [Next]_vars PROVE SmmuInv'
  <2>1. TypeOK' /\ RingInv'
    BY <1>1, TypeStep, RingStep DEF SmmuInv
  <2>2. ASSUME ~timedOut' PROVE StaleInv'
    <3>1. ~timedOut
      BY <1>1, <2>2 DEF SmmuInv, TypeOK, Next, Driver, Device, SmmuInit, SyncWait, SetupQueue,
         ResetInvalidate, ChangeTable, WriteCmd, WriteProd, PollStart, PollUntilConsumed,
         InitDone, SetState, StateDone, Stop, StopDone, Acknowledge, Consume, Complete,
         CommandError, driver, vars
    <3> QED BY <1>1, <2>1, <2>2, <3>1, StaleStep DEF SmmuInv
  <2> QED BY <2>1, <2>2 DEF SmmuInv
<1> QED BY <1>1, InitSmmuInv, PTL DEF Spec

(* When smmu_tlbi_cfgi returns, nothing stale is left in the SMMU.          *)
THEOREM InvalidatedThm == QueueHoldsBatch => (Spec => []Invalidated)
<1>1. SmmuInv => Invalidated
  BY DEF SmmuInv, StaleInv, Invalidated
<1> QED BY <1>1, SmmuInvariant, PTL

(* After val_smmu_stop the SMMU fetches nothing from the freed queue.       *)
THEOREM NoFetchThm == QueueHoldsBatch => (Spec => []NoFetchAfterStop)
<1>1. SmmuInv => NoFetchAfterStop
  BY DEF SmmuInv, StaleInv, NoFetchAfterStop
<1> QED BY <1>1, SmmuInvariant, PTL

----------------------------------------------------------------------------
(* The ring implements the FIFO.                                            *)

(* What a slot may hold.                                                    *)
Words == Ops \cup {"none"}

(* The pending commands of the driver's queue, as a sequence.               *)
PendingIsRing ==
  /\ Used \in Nat
  /\ Pending \in Seq(Words)
  /\ Len(Pending) = Used
  /\ \A k \in 1 .. Used : Pending[k] = slot[Index(Ahead(cons, k - 1))]

(* They are the words of the ring from the consumer to the producer.        *)
LEMMA PendingSeq == TypeOK /\ ours => PendingIsRing
<1> SUFFICES ASSUME TypeOK, ours PROVE PendingIsRing
  OBVIOUS
<1>1. Used \in Nat /\ Used < 2 * Entries
  BY SmmuCmdqAssumption, AheadUsed DEF TypeOK
<1>2. \A k \in 1 .. Used : slot[Index(Ahead(cons, k - 1))] \in Words
  <2> SUFFICES ASSUME NEW k \in 1 .. Used PROVE slot[Index(Ahead(cons, k - 1))] \in Words
    OBVIOUS
  <2>1. Ahead(cons, k - 1) \in Ptr
    BY <1>1, SmmuCmdqAssumption DEF TypeOK, Ahead, Ptr
  <2>2. Index(Ahead(cons, k - 1)) \in 0 .. Entries - 1
    BY <2>1, PtrFacts
  <2> QED BY <2>2 DEF TypeOK, Words
<1>3. Pending = [k \in 1 .. Used |-> slot[Index(Ahead(cons, k - 1))]]
  BY DEF Pending
<1>4. Pending \in [1 .. Used -> Words]
  BY <1>2, <1>3
<1>5. Pending \in Seq(Words)
  BY <1>1, <1>4, SeqDef
<1>6. Len(Pending) = Used
  BY <1>1, <1>4, <1>5, LenProperties
<1> QED BY <1>1, <1>3, <1>5, <1>6 DEF PendingIsRing

(* Every step of the driver and of the SMMU puts one command, takes one, or *)
(* leaves the queue as it is.  smmu_reset finds it empty.                   *)
LEMMA FifoStep ==
  ASSUME QueueHoldsBatch, SmmuInv, [Next]_vars, SmmuInv'
  PROVE  [Fifo!Next]_Pending
<1>0. (TypeOK /\ ours => PendingIsRing) /\ (TypeOK' /\ ours' => PendingIsRing')
  BY PendingSeq, PTL
<1> USE DEF SmmuInv
<1>1. CASE SetupQueue
  <2>1. ours' /\ Used' = 0
    BY <1>1 DEF SetupQueue, Used, CachedPtr
  <2>2. Pending' \in Seq(Words) /\ Len(Pending') = 0
    BY <1>0, <2>1 DEF PendingIsRing
  <2>3. Pending' = <<>>
    BY <2>2, EmptySeq
  <2>4. Pending = <<>>
    <3>1. CASE ~ours
      BY <3>1 DEF Pending
    <3>2. CASE ours
      <4>0. prod = cons
        BY <1>1 DEF SetupQueue, Synced, RingInv
      <4>1. Used = 0
        BY <4>0, SmmuCmdqAssumption DEF TypeOK, Ptr, Used
      <4>2. Pending \in Seq(Words) /\ Len(Pending) = 0
        BY <1>0, <3>2, <4>1 DEF PendingIsRing
      <4> QED BY <4>2, EmptySeq
    <3> QED BY <3>1, <3>2
  <2> QED BY <2>3, <2>4
<1>2. CASE WriteCmd
  <2>1. CASE ~ours
    BY <1>2, <2>1 DEF WriteCmd, Pending, regs
  <2>2. CASE ours
    <3>1. Used < Entries /\ Used' = Used
      BY <1>2, AheadUsed, SmmuCmdqAssumption, BatchFacts
         DEF WriteCmd, RingInv, Written, QueueHoldsBatch, TypeOK, Used, regs
    <3>2. \A k \in 1 .. Used : slot'[Index(Ahead(cons, k - 1))] = slot[Index(Ahead(cons, k - 1))]
      BY <1>2, <3>1, FreshSlot DEF WriteCmd, TypeOK
    <3> QED BY <1>2, <2>2, <3>1, <3>2 DEF WriteCmd, Pending, regs
  <2> QED BY <2>1, <2>2
<1>3. CASE WriteProd
  <2>1. CASE ~ours
    BY <1>3, <2>1 DEF WriteProd, Pending
  <2>2. CASE ours
    <3> DEFINE c == slot[Index(prod)]
    <3>1. c \in Ops
      BY <1>3, BatchFacts DEF WriteProd, RingInv, TypeOK
    <3>2. Used < Entries /\ Used' = Used + 1 /\ ours' /\ slot' = slot /\ cons' = cons
      <4>1. Used < Entries
        BY <1>3, AheadUsed, SmmuCmdqAssumption, BatchFacts
           DEF WriteProd, RingInv, Written, QueueHoldsBatch, TypeOK
      <4> QED BY <1>3, <2>2, <4>1, WriteProdUsed DEF WriteProd
    <3>3. /\ Used \in Nat
          /\ Pending \in Seq(Words) /\ Len(Pending) = Used
          /\ \A k \in 1 .. Used : Pending[k] = slot[Index(Ahead(cons, k - 1))]
      BY <1>0, <2>2 DEF PendingIsRing
    <3>4. /\ Pending' \in Seq(Words) /\ Len(Pending') = Used + 1
          /\ \A k \in 1 .. Used + 1 : Pending'[k] = slot[Index(Ahead(cons, k - 1))]
      BY <1>0, <3>2 DEF PendingIsRing
    <3>5. Pending' = Append(Pending, c)
      <4>1. /\ Append(Pending, c) \in Seq(Words) /\ Len(Append(Pending, c)) = Used + 1
            /\ \A k \in 1 .. Used : Append(Pending, c)[k] = Pending[k]
            /\ Append(Pending, c)[Used + 1] = c
        BY <3>1, <3>3, AppendProperties DEF Words
      <4>2. Pending'[Used + 1] = c
        <5>1. Ahead(cons, (Used + 1) - 1) = prod
          BY <3>3, AheadUsed DEF TypeOK
        <5> QED BY <3>3, <3>4, <5>1
      <4>3. \A k \in 1 .. Used + 1 : Pending'[k] = Append(Pending, c)[k]
        BY <3>3, <3>4, <4>1, <4>2
      <4> HIDE DEF c
      <4> QED BY <3>4, <4>1, <4>3, SeqEqual
    <3> QED BY <3>1, <3>2, <3>3, <3>5 DEF Fifo!Next, Fifo!Put
  <2> QED BY <2>1, <2>2
<1>4. CASE Consume
  <2>1. CASE ~ours
    BY <1>4, <2>1 DEF Consume, Pending
  <2>2. CASE ours
    <3>1. /\ Used >= 1 /\ Used' = Used - 1 /\ ours' /\ slot' = slot
          /\ \A k \in 1 .. Used - 1 : Ahead(cons', k - 1) = Ahead(cons, k)
      BY <1>4, <2>2, ConsumeUsed DEF Consume
    <3>2. /\ Used \in Nat
          /\ Pending \in Seq(Words) /\ Len(Pending) = Used
          /\ \A k \in 1 .. Used : Pending[k] = slot[Index(Ahead(cons, k - 1))]
      BY <1>0, <2>2 DEF PendingIsRing
    <3>3. /\ Pending' \in Seq(Words) /\ Len(Pending') = Used - 1
          /\ \A k \in 1 .. Used - 1 : Pending'[k] = slot[Index(Ahead(cons', k - 1))]
      BY <1>0, <3>1 DEF PendingIsRing
    <3>4. Pending # <<>>
      BY <3>1, <3>2, EmptySeq
    <3>5. /\ Tail(Pending) \in Seq(Words) /\ Len(Tail(Pending)) = Used - 1
          /\ \A k \in 1 .. Used - 1 : Tail(Pending)[k] = Pending[k + 1]
      BY <3>2, <3>4, HeadTailProperties
    <3>6. \A k \in 1 .. Used - 1 : Pending'[k] = Tail(Pending)[k]
      <4> SUFFICES ASSUME NEW k \in 1 .. Used - 1 PROVE Pending'[k] = Tail(Pending)[k]
        OBVIOUS
      <4>1. k + 1 \in 1 .. Used /\ (k + 1) - 1 = k
        BY <3>2
      <4>2. Pending[k + 1] = slot[Index(Ahead(cons, k))]
        BY <3>2, <4>1
      <4>3. Pending'[k] = slot[Index(Ahead(cons, k))]
        BY <3>1, <3>3
      <4> QED BY <3>5, <4>2, <4>3
    <3>7. Pending' = Tail(Pending)
      BY <3>3, <3>5, <3>6, SeqEqual
    <3> QED BY <3>4, <3>7 DEF Fifo!Next, Fifo!Take
  <2> QED BY <2>1, <2>2
<1>5. CASE UNCHANGED <<slot, regs>>
  BY <1>5 DEF regs, Pending, Used
<1> QED
  BY <1>1, <1>2, <1>3, <1>4, <1>5 DEF Next, Driver, Device, SmmuInit, SyncWait, ResetInvalidate,
     ChangeTable, PollStart, PollUntilConsumed, InitDone, SetState, StateDone, Stop, StopDone,
     Acknowledge, Complete, CommandError, vars

(* The ring of smmu_cmdq_write_cmd is a FIFO: no command of an invalidation *)
(* is lost, overwritten or fetched twice.                                   *)
THEOREM FifoRefinement == QueueHoldsBatch => (Spec => FifoSpec)
<1> SUFFICES ASSUME QueueHoldsBatch PROVE Spec => FifoSpec
  OBVIOUS
<1>1. Init => Fifo!Init
  BY DEF Init, Fifo!Init, Pending
<1>2. SmmuInv /\ [Next]_vars /\ SmmuInv' => [Fifo!Next]_Pending
  BY FifoStep
<1> QED BY <1>1, <1>2, SmmuInvariant, PTL DEF Spec, FifoSpec, Fifo!Spec
=============================================================================
