------------------------------ MODULE SmmuCmdq ------------------------------
(***************************************************************************)
(* One SMMUv3 as the VAL drives it (val/sys_arch_src/smmu_v3/smmu_v3.c):   *)
(* smmu_init and smmu_reset, the command queue with its producer and       *)
(* consumer registers, the invalidation smmu_tlbi_cfgi that ends every     *)
(* change of the stream table, val_smmu_enable/disable and val_smmu_stop.  *)
(*                                                                         *)
(* The driver runs on one PE; the SMMU runs beside it: it acknowledges     *)
(* CR0, fetches commands, and completes them later.  CMD_SYNC is consumed  *)
(* only when the commands before it have completed.                        *)
(***************************************************************************)
EXTENDS Integers, Sequences

CONSTANTS
  Entries,    \* 1 << log2nent, the size IDR1.CMDQS gives the queue
  Hyp,        \* IDR0.HYP
  AckTries    \* stands for the timeout of smmu_reg_write_sync

ASSUME SmmuCmdqAssumption ==
  /\ Entries \in Nat \ {0}
  /\ Hyp \in BOOLEAN
  /\ AckTries \in Nat \ {0}

VARIABLES
  slot,       \* the queue's memory, cmdq->base
  ours,       \* SMMU_CMDQ_BASE holds the address of that memory
  prod, cons, \* SMMU_CMDQ_PROD and SMMU_CMDQ_CONS, index and wrap bit
  cr0, ack,   \* SMMU_CR0 and SMMU_CR0ACK
  halted,     \* the SMMU has stopped at a command error (GERROR)
  inflight,   \* commands consumed and not completed
  stale,      \* what the SMMU may hold from before the last table change
  pc,         \* control point of the driver
  issued,     \* commands of the current smmu_tlbi_cfgi written so far
  tries,      \* timeout of the current smmu_reg_write_sync
  inReset,    \* smmu_tlbi_cfgi was called by smmu_reset
  ret,        \* what smmu_init returned: 0, or 1 for ACS_STATUS_ERR
  timedOut    \* history: a smmu_reg_write_sync has given up

regs   == <<ours, prod, cons>>
hw     == <<ack, halted, inflight>>
driver == <<pc, issued, tries, inReset, ret, timedOut>>
vars   == <<slot, regs, cr0, hw, stale, driver>>

Ops == {"CFGI_ALL", "TLBI_EL2_ALL", "TLBI_NSNH_ALL", "CMD_SYNC"}
Enables == {"CMDQEN", "SMMUEN"}
Pcs == {"init", "clear", "cmdqen", "cmd", "doorbell", "poll", "smmuen",
        "ready", "state", "stop", "stopped", "dead"}

(* What the SMMU may cache.                                                 *)
Cached == {"config", "tlb"} \cup (IF Hyp THEN {"el2"} ELSE {})

(* What a command invalidates.                                              *)
Scope(c) == CASE c = "CFGI_ALL"      -> {"config"}
              [] c = "TLBI_NSNH_ALL" -> {"tlb"}
              [] c = "TLBI_EL2_ALL"  -> {"el2"}
              [] OTHER               -> {}

Batch_NoSync == IF Hyp
                  THEN <<"CFGI_ALL", "TLBI_EL2_ALL", "TLBI_NSNH_ALL">>
                  ELSE <<"CFGI_ALL", "TLBI_NSNH_ALL">>

(* smmu_tlbi_cfgi: the commands of one invalidation.                        *)
Batch == IF Hyp
           THEN <<"CFGI_ALL", "TLBI_EL2_ALL", "TLBI_NSNH_ALL", "CMD_SYNC">>
           ELSE <<"CFGI_ALL", "TLBI_NSNH_ALL", "CMD_SYNC">>

(* A queue pointer is an index and a wrap bit above it.                      *)
Ptr == 0 .. 2 * Entries - 1
Index(p) == IF p < Entries THEN p ELSE p - Entries
Inc_NoWrapBit(p) == IF p + 1 = Entries THEN 0 ELSE p + 1
Inc(p)   == IF p + 1 = 2 * Entries THEN 0 ELSE p + 1
Ahead(p, k) == IF p + k >= 2 * Entries THEN p + k - 2 * Entries ELSE p + k

QueueEmpty_OtherLap(p, c) == Index(p) = Index(c) /\ ~((p < Entries) <=> (c < Entries))
QueueEmpty(p, c) == Index(p) = Index(c) /\ ((p < Entries) <=> (c < Entries))
QueueFull(p, c)  == Index(p) = Index(c) /\ ~((p < Entries) <=> (c < Entries))

(* smmu_cmdq_write_cmd asks smmu_queue_full of cmdq->queue, whose prod and   *)
(* cons smmu_cmd_queue_init sets to 0 and nothing changes.                   *)
CachedPtr == 0
SeesFull  == QueueFull(CachedPtr, CachedPtr)

TypeOK ==
  /\ slot \in [0 .. Entries - 1 -> Ops \cup {"none"}]
  /\ ours \in BOOLEAN
  /\ prod \in Ptr /\ cons \in Ptr
  /\ cr0 \subseteq Enables /\ ack \subseteq Enables
  /\ halted \in BOOLEAN
  /\ inflight \subseteq Ops
  /\ stale \subseteq Cached
  /\ pc \in Pcs
  /\ issued \in 0 .. Len(Batch)
  /\ tries \in 0 .. AckTries
  /\ inReset \in BOOLEAN
  /\ ret \in {0, 1}
  /\ timedOut \in BOOLEAN

----------------------------------------------------------------------------
(* The SMMU is as firmware left it.                                          *)
Init ==
  /\ slot = [i \in 0 .. Entries - 1 |-> "none"]
  /\ ours = FALSE
  /\ prod \in Ptr /\ cons = prod
  /\ cr0 \in {{}, Enables} /\ ack = cr0
  /\ halted = FALSE
  /\ inflight = {}
  /\ stale = Cached
  /\ pc = "init"
  /\ issued = 0 /\ tries = 0 /\ inReset = FALSE /\ ret = 0
  /\ timedOut = FALSE

(* The store of smmu_reg_write_sync, up to the loop that reads ack_off.      *)
WriteCr0(val, at) ==
  /\ cr0' = val
  /\ tries' = AckTries
  /\ pc' = at

(* smmu_init up to the first register write of smmu_reset; smmu_probe or an  *)
(* allocation may fail, and val_smmu_init then gives the SMMU up.            *)
SmmuInit ==
  /\ pc = "init"
  /\ \/ /\ pc' = "dead"
        /\ ret' = 1
        /\ UNCHANGED <<cr0, tries>>
     \/ /\ WriteCr0({}, "clear")
        /\ UNCHANGED ret
  /\ UNCHANGED <<slot, regs, hw, stale, issued, inReset, timedOut>>

(* One read of the loop of smmu_reg_write_sync that finds the value.         *)
Synced(at) == pc = at /\ ack = cr0

(* ... and the loop that has given up: smmu_reset returns 1, which smmu_init *)
(* takes for success, as it does the 1 that smmu_reset ends with.            *)
SyncWait ==
  /\ pc \in {"clear", "cmdqen", "smmuen", "state", "stop"}
  /\ ack # cr0
  /\ \/ /\ tries > 1
        /\ tries' = tries - 1
        /\ UNCHANGED <<pc, timedOut, ret>>
     \/ /\ tries <= 1
        /\ tries' = 0
        /\ timedOut' = TRUE
        /\ ret' = IF pc \in {"clear", "cmdqen", "smmuen"} THEN 0 ELSE ret
        /\ pc' = IF pc = "stop" THEN "stopped" ELSE "ready"
  /\ UNCHANGED <<slot, regs, cr0, hw, stale, issued, inReset>>

(* smmu_reset: the tables and the queue are set up while the SMMU is off,    *)
(* and the queue is enabled.                                                 *)
SetupQueue ==
  /\ Synced("clear")
  /\ ours' = TRUE
  /\ prod' = CachedPtr /\ cons' = CachedPtr
  /\ WriteCr0({"CMDQEN"}, "cmdqen")
  /\ UNCHANGED <<slot, hw, stale, issued, inReset, ret, timedOut>>

(* smmu_tlbi_cfgi, called by smmu_reset ...                                  *)
ResetInvalidate ==
  /\ Synced("cmdqen")
  /\ pc' = "cmd" /\ issued' = 0 /\ inReset' = TRUE
  /\ UNCHANGED <<slot, regs, cr0, hw, stale, tries, ret, timedOut>>

(* ... and by val_smmu_map and val_smmu_unmap, which have changed the stream *)
(* table before.                                                             *)
ChangeTable ==
  /\ pc = "ready"
  /\ stale' = Cached
  /\ pc' = "cmd" /\ issued' = 0 /\ inReset' = FALSE
  /\ UNCHANGED <<slot, regs, cr0, hw, tries, ret, timedOut>>

WriteCmd_CachedProd ==
  /\ pc = "cmd"
  /\ issued < Len(Batch)
  /\ slot' = [slot EXCEPT ![Index(CachedPtr)] = Batch[issued + 1]]
  /\ issued' = issued + 1
  /\ pc' = "doorbell"
  /\ UNCHANGED <<regs, cr0, hw, stale, tries, inReset, ret, timedOut>>

(* smmu_cmdq_issue_cmd: the command goes to the slot of the producer         *)
(* register unless the queue is seen full, which it never is.                *)
WriteCmd ==
  /\ pc = "cmd"
  /\ issued < Len(Batch)
  /\ ~SeesFull
  /\ slot' = [slot EXCEPT ![Index(prod)] = Batch[issued + 1]]
  /\ issued' = issued + 1
  /\ pc' = "doorbell"
  /\ UNCHANGED <<regs, cr0, hw, stale, tries, inReset, ret, timedOut>>

(* ... and the producer register is advanced.                                *)
WriteProd ==
  /\ pc = "doorbell"
  /\ prod' = Inc(prod)
  /\ pc' = "cmd"
  /\ UNCHANGED <<slot, ours, cons, cr0, hw, stale, issued, tries, inReset, ret, timedOut>>

(* smmu_cmdq_poll_until_consumed: its timeout is never decremented.          *)
PollStart ==
  /\ pc = "cmd"
  /\ issued = Len(Batch)
  /\ pc' = "poll"
  /\ UNCHANGED <<slot, regs, cr0, hw, stale, issued, tries, inReset, ret, timedOut>>

PollUntilConsumed ==
  /\ pc = "poll"
  /\ QueueEmpty(prod, cons)
  /\ IF inReset
       THEN WriteCr0(cr0 \cup {"SMMUEN"}, "smmuen")
       ELSE pc' = "ready" /\ UNCHANGED <<cr0, tries>>
  /\ UNCHANGED <<slot, regs, hw, stale, issued, inReset, ret, timedOut>>

(* smmu_reset has succeeded: it returns 1, and smmu_init 0.                  *)
InitDone ==
  /\ Synced("smmuen")
  /\ pc' = "ready" /\ ret' = 0
  /\ UNCHANGED <<slot, regs, cr0, hw, stale, issued, tries, inReset, timedOut>>

(* smmu_set_state, for val_smmu_enable and val_smmu_disable.                 *)
SetState ==
  /\ pc = "ready"
  /\ \E en \in BOOLEAN :
       WriteCr0(IF en THEN cr0 \cup {"SMMUEN"} ELSE cr0 \ {"SMMUEN"}, "state")
  /\ UNCHANGED <<slot, regs, hw, stale, issued, inReset, ret, timedOut>>

StateDone ==
  /\ Synced("state")
  /\ pc' = "ready"
  /\ UNCHANGED <<slot, regs, cr0, hw, stale, issued, tries, inReset, ret, timedOut>>

Stop_TranslationOnly ==
  /\ pc = "ready"
  /\ WriteCr0(cr0 \ {"SMMUEN"}, "stop")
  /\ UNCHANGED <<slot, regs, hw, stale, issued, inReset, ret, timedOut>>

(* val_smmu_stop: smmu_dev_disable, whose result is ignored, and the queue   *)
(* and the stream table are freed.                                           *)
Stop ==
  /\ pc = "ready"
  /\ WriteCr0({}, "stop")
  /\ UNCHANGED <<slot, regs, hw, stale, issued, inReset, ret, timedOut>>

StopDone ==
  /\ Synced("stop")
  /\ pc' = "stopped"
  /\ UNCHANGED <<slot, regs, cr0, hw, stale, issued, tries, inReset, ret, timedOut>>

----------------------------------------------------------------------------
(* The SMMU (external): CR0ACK follows CR0.                                  *)
Acknowledge ==
  /\ ack # cr0
  /\ ack' = cr0
  /\ UNCHANGED <<slot, regs, cr0, halted, inflight, stale, driver>>

(* The next command is fetched; from a queue that is not the driver's it     *)
(* is nothing the driver knows of.                                           *)
Consume ==
  /\ "CMDQEN" \in ack
  /\ ~halted
  /\ prod # cons
  /\ cons' = Inc(cons)
  /\ LET c == slot[Index(cons)] IN
       \/ ~ours /\ UNCHANGED inflight
       \/ ours /\ c = "CMD_SYNC" /\ inflight = {} /\ UNCHANGED inflight
       \/ ours /\ c \in Ops \ {"CMD_SYNC"} /\ inflight' = inflight \cup {c}
  /\ UNCHANGED <<slot, ours, prod, cr0, ack, halted, stale, driver>>

(* A fetched command takes effect.                                           *)
Complete ==
  \E c \in inflight :
    /\ inflight' = inflight \ {c}
    /\ stale' = stale \ Scope(c)
    /\ UNCHANGED <<slot, regs, cr0, ack, halted, driver>>

(* A command error: the SMMU consumes no more commands.                      *)
CommandError ==
  /\ "CMDQEN" \in ack
  /\ ~halted
  /\ prod # cons
  /\ halted' = TRUE
  /\ UNCHANGED <<slot, regs, cr0, ack, inflight, stale, driver>>

Driver ==
  \/ SmmuInit \/ SyncWait \/ SetupQueue \/ ResetInvalidate \/ ChangeTable
  \/ WriteCmd \/ WriteProd \/ PollStart \/ PollUntilConsumed \/ InitDone
  \/ SetState \/ StateDone \/ Stop \/ StopDone

Device == Acknowledge \/ Consume \/ Complete \/ CommandError

Next == Driver \/ Device

Spec == Init /\ [][Next]_vars

(* The driver keeps executing, and the SMMU fetches and completes commands   *)
(* unless it has halted.  Nothing says that it acknowledges CR0.             *)
FairSpec ==
  Spec /\ WF_vars(Driver) /\ WF_vars(Consume) /\ WF_vars(Complete)

----------------------------------------------------------------------------
(* When smmu_tlbi_cfgi returns, the SMMU holds nothing from before the last  *)
(* change of the stream table, provided that every CR0 write was             *)
(* acknowledged in time.                                                     *)
Invalidated ==
  (pc \in {"ready", "smmuen"} /\ ~timedOut) => stale = {} /\ inflight = {}

(* The SMMU never fetches a command from memory that val_smmu_stop has       *)
(* freed, provided that every CR0 write was acknowledged in time.            *)
NoFetchAfterStop ==
  (pc = "stopped" /\ ~timedOut) => "CMDQEN" \notin ack

(* The wait for the queue to drain ends, unless the SMMU has halted or its   *)
(* queue is not enabled.                                                     *)
PollEnds ==
  pc = "poll" ~> (pc # "poll" \/ halted \/ "CMDQEN" \notin ack)

(* The commands between the consumer and the producer register.              *)
Used == IF prod >= cons THEN prod - cons ELSE prod - cons + 2 * Entries
Pending == IF ours THEN [k \in 1 .. Used |-> slot[Index(Ahead(cons, k - 1))]] ELSE <<>>

Fifo == INSTANCE CmdFifo WITH Cmds <- Ops, Size <- Entries, fifo <- Pending

(* The ring with its wrap bit is a FIFO of commands: none is lost,           *)
(* overwritten or fetched twice.                                             *)
FifoSpec == Fifo!Spec
----------------------------------------------------------------------------
(* The strengthening that makes Invalidated and FifoSpec inductive.          *)

(* Commands of the current invalidation that the producer register covers,   *)
(* and those that the SMMU has fetched.                                      *)
Written == IF pc = "doorbell" THEN issued - 1 ELSE issued
Taken   == Written - Used

(* Outside an invalidation the queue is empty; within one it holds what has  *)
(* been written and not fetched, in order.                                   *)
RingInv ==
  /\ pc \notin {"cmd", "doorbell", "poll"} => prod = cons
  /\ pc \in {"cmd", "doorbell", "poll"} =>
       /\ Used <= Written
       /\ ours => \A k \in 1 .. Used : slot[Index(Ahead(cons, k - 1))] = Batch[Taken + k]
  /\ pc = "doorbell" => issued >= 1 /\ slot[Index(prod)] = Batch[issued]
  /\ pc = "poll" => issued = Len(Batch)

(* What may be stale is still to be fetched or still to be completed, and a  *)
(* fetched CMD_SYNC leaves nothing to be completed.                          *)
StaleInv ==
  /\ pc \in {"init", "clear"} => inflight = {}
  /\ pc \notin {"init", "clear", "dead"} => ours
  /\ pc \in {"cmdqen", "smmuen", "ready", "state", "stop", "stopped"} => inflight = {}
  /\ pc \in {"smmuen", "ready", "state", "stop", "stopped"} => stale = {}
  /\ pc \in {"cmd", "doorbell", "poll"} =>
       /\ \A x \in stale : \/ \E c \in inflight : x \in Scope(c)
                           \/ \E k \in 1 .. Len(Batch) : k > Taken /\ x \in Scope(Batch[k])
       /\ Taken = Len(Batch) => inflight = {}
  /\ pc \in {"stop", "stopped"} => cr0 = {}
  /\ pc = "stopped" => ack = {}

SmmuInv == TypeOK /\ RingInv /\ (~timedOut => StaleInv)
=============================================================================
