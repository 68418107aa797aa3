-------------------------------- MODULE Its --------------------------------
(***************************************************************************)
(* Message signalled interrupts through the GIC ITS                        *)
(* (platform/pal_uefi/src_gic_its, pal_gic.c and val_gic_request_msi): the *)
(* set up of redistributor and ITS tables, the command queue, and the      *)
(* mapping and unmapping of an LPI for a device.                           *)
(*                                                                         *)
(* The ITS executes commands and the redistributor reads the LPI           *)
(* configuration table beside the driver.  All devices of an ITS are given *)
(* the same interrupt translation table, so it is a set of LPIs per ITS.   *)
(* The write pointer of the command queue never wraps, so a queue is the   *)
(* sequence of the commands written and not yet executed; what happens     *)
(* once the pointer passes the end of the queue is left out.               *)
(***************************************************************************)
EXTENDS Integers, Sequences

CONSTANTS
  NumIts,       \* GicNumIts
  Devs,         \* devices, by device ID
  Lpis,         \* interrupt IDs the callers use
  LpisOf,       \* LpisOf[d]: the ones they use for device d
  ItsOf,        \* ItsOf[d]: its_id of val_iovirt_get_device_info, or Unknown
  PollLimit,    \* stands for WAIT_ITS_COMMAND_DONE
  MaxCommands   \* bound on the commands of a queue that are not executed

Its     == 0 .. NumIts - 1
Unknown == -1    \* the lookup failed, its_id is not set
Masked  == <<>>  \* an MSI-X vector that is masked
NoOp    == <<>>

ASSUME ItsAssumption ==
  /\ NumIts \in Nat \ {0}
  /\ ItsOf \in [Devs -> Its \cup {Unknown}]
  /\ LpisOf \in [Devs -> SUBSET Lpis]
  /\ PollLimit \in Nat \ {0}
  /\ MaxCommands \in Nat

VARIABLES
  pc,        \* control point of the driver
  idx,       \* the ITS the set up loops are at
  setup,     \* "none", "nobase": no ITS or base found, "failed", "done": g_its_setup_done
  regs,      \* table bases that have been programmed
  rdOn,      \* GICR_CTLR.EnableLPIs
  itsOn,     \* [Its -> GITS_CTLR.Enable]
  queue,     \* [Its -> the commands from GITS_CREADR to the write pointer]
  posted,    \* [Its -> how many of them are before GITS_CWRITER]
  stalled,   \* [Its -> GITS_CREADR.Stalled]
  config,    \* [Lpis -> the enable bit in the LPI configuration table]
  cached,    \* [Lpis -> the redistributor's copy of it, or "none"]
  inv,       \* LPIs whose INV has not reached the redistributor
  devtab,    \* [Its -> devices in the device table]
  coll,      \* [Its -> collection 1 is mapped]
  itt,       \* [Its -> LPIs in the interrupt translation table]
  msix,      \* [Devs -> ITS and LPI of vector 0, or Masked]
  op,        \* the call the driver is in
  polls,     \* iterations left in PollTillCommandQueueDone
  expired,   \* history: PollTillCommandQueueDone has given up once
  strayed    \* history: LPIs that were freed at another ITS than requested

setupVars == <<idx, setup, regs>>
queueVars == <<queue, posted>>
rdVars    == <<cached, inv>>
itsVars   == <<devtab, coll, itt>>
history   == <<expired, strayed>>
vars      == <<pc, setupVars, rdOn, itsOn, queueVars, stalled, config, rdVars, itsVars, msix,
               op, polls, history>>

(* A base register of the redistributor, or of ITS i.                        *)
Regs == {<<"PROPBASER">>, <<"PENDBASER">>} \cup ({"CBASER", "BASER"} \X Its)

Command(c, d, l) == [cmd |-> c, dev |-> d, lpi |-> l]
Cmds == {"MAPD", "MAPC", "MAPI", "INV", "DISCARD", "SYNC"}

Configs == {"enabled", "disabled"}
Vector(i, l) == [its |-> i, lpi |-> l]

TypeOK ==
  /\ pc \in {"find", "ids", "prop", "pend", "queue", "tables", "idle", "cmds",
             "cwriter", "poll", "msix"}
  /\ idx \in Its
  /\ setup \in {"none", "nobase", "failed", "done"}
  /\ regs \subseteq Regs
  /\ rdOn \in BOOLEAN /\ itsOn \in [Its -> BOOLEAN]
  /\ \A i \in Its : posted[i] \in 0 .. Len(queue[i]) /\ Len(queue[i]) <= MaxCommands
  /\ stalled \in [Its -> BOOLEAN]
  /\ config \in [Lpis -> Configs] /\ cached \in [Lpis -> Configs \cup {"none"}]
  /\ inv \subseteq Lpis
  /\ devtab \in [Its -> SUBSET Devs] /\ coll \in [Its -> BOOLEAN]
  /\ itt \in [Its -> SUBSET Lpis]
  /\ msix \in [Devs -> [its : Its, lpi : Lpis] \cup {Masked}]
  /\ polls \in 0 .. PollLimit
  /\ expired \in BOOLEAN /\ strayed \subseteq Lpis

Init ==
  /\ pc = "find" /\ idx = 0 /\ setup = "none" /\ regs = {}
  /\ rdOn = FALSE /\ itsOn = [i \in Its |-> FALSE]
  /\ queue = [i \in Its |-> <<>>]
  /\ posted = [i \in Its |-> 0]
  /\ stalled = [i \in Its |-> FALSE]
  /\ config = [l \in Lpis |-> "disabled"] /\ cached = [l \in Lpis |-> "none"]
  /\ inv = {}
  /\ devtab = [i \in Its |-> {}] /\ coll = [i \in Its |-> FALSE]
  /\ itt = [i \in Its |-> {}]
  /\ msix = [d \in Devs |-> Masked]
  /\ op = NoOp /\ polls = 0
  /\ expired = FALSE /\ strayed = {}

----------------------------------------------------------------------------
(* pal_gic_its_configure and ArmGicItsConfiguration.  Every step may fail,   *)
(* and leaves what was programmed before.                                    *)
Rest == <<rdOn, itsOn, queueVars, stalled, config, rdVars, itsVars, msix, op, polls, history>>

SetupFails(how) == pc' = "idle" /\ setup' = how /\ UNCHANGED <<idx, regs>>

Program(reg, next) ==
  /\ regs' = regs \cup {reg}
  /\ pc' = next
  /\ UNCHANGED setup

(* The tables name no ITS, no distributor or no redistributor; or LPIs are   *)
(* not supported, or there is no memory for the write pointers.              *)
FindBlocks ==
  /\ pc = "find"
  /\ \/ SetupFails("nobase")
     \/ SetupFails("failed")
     \/ pc' = "ids" /\ UNCHANGED setupVars
  /\ UNCHANGED Rest

(* SetInitialConfiguration for each ITS: too few ID bits are refused.        *)
SetInitialConfiguration ==
  /\ pc = "ids"
  /\ \/ SetupFails("failed")
     \/ idx < NumIts - 1 /\ idx' = idx + 1 /\ UNCHANGED <<pc, setup, regs>>
     \/ idx = NumIts - 1 /\ idx' = 0 /\ pc' = "prop" /\ UNCHANGED <<setup, regs>>
  /\ UNCHANGED Rest

SetConfigTableBase ==
  /\ pc = "prop"
  /\ SetupFails("failed") \/ (Program(<<"PROPBASER">>, "pend") /\ UNCHANGED idx)
  /\ UNCHANGED Rest

SetPendingTableBase ==
  /\ pc = "pend"
  /\ SetupFails("failed") \/ (Program(<<"PENDBASER">>, "queue") /\ UNCHANGED idx)
  /\ UNCHANGED Rest

SetCommandQueueBase ==
  /\ pc = "queue"
  /\ SetupFails("failed") \/ (Program(<<"CBASER", idx>>, "tables") /\ UNCHANGED idx)
  /\ UNCHANGED Rest

(* Device, collection and interrupt translation tables; after the last ITS   *)
(* g_its_setup_done is set.                                                  *)
SetItsTables ==
  /\ pc = "tables"
  /\ \/ SetupFails("failed")
     \/ /\ idx < NumIts - 1
        /\ Program(<<"BASER", idx>>, "queue")
        /\ idx' = idx + 1
     \/ /\ idx = NumIts - 1
        /\ regs' = regs \cup {<<"BASER", idx>>}
        /\ setup' = "done" /\ pc' = "idle" /\ idx' = 0
  /\ UNCHANGED Rest

Setup ==
  \/ FindBlocks \/ SetInitialConfiguration \/ SetConfigTableBase
  \/ SetPendingTableBase \/ SetCommandQueueBase \/ SetItsTables

----------------------------------------------------------------------------
Batch_NoInv(o) ==
  IF o.kind = "request"
    THEN <<Command("MAPD", o.dev, o.lpi), Command("MAPC", o.dev, o.lpi),
           Command("MAPI", o.dev, o.lpi), Command("SYNC", o.dev, o.lpi)>>
    ELSE <<Command("DISCARD", o.dev, o.lpi), Command("SYNC", o.dev, o.lpi)>>

Batch_NoSync(o) ==
  IF o.kind = "request"
    THEN <<Command("MAPD", o.dev, o.lpi), Command("MAPC", o.dev, o.lpi),
           Command("MAPI", o.dev, o.lpi), Command("INV", o.dev, o.lpi)>>
    ELSE <<Command("DISCARD", o.dev, o.lpi)>>

Batch_NoDiscard(o) ==
  IF o.kind = "request"
    THEN <<Command("MAPD", o.dev, o.lpi), Command("MAPC", o.dev, o.lpi),
           Command("MAPI", o.dev, o.lpi), Command("INV", o.dev, o.lpi),
           Command("SYNC", o.dev, o.lpi)>>
    ELSE <<Command("SYNC", o.dev, o.lpi)>>

(* The commands of ArmGicItsCreateLpiMap and ArmGicItsClearLpiMappings.      *)
Batch(o) ==
  IF o.kind = "request"
    THEN <<Command("MAPD", o.dev, o.lpi), Command("MAPC", o.dev, o.lpi),
           Command("MAPI", o.dev, o.lpi), Command("INV", o.dev, o.lpi),
           Command("SYNC", o.dev, o.lpi)>>
    ELSE <<Command("DISCARD", o.dev, o.lpi), Command("SYNC", o.dev, o.lpi)>>

(* The ITS a call ends up at: its_id is whatever was on the stack when the   *)
(* IO virtualisation table does not know the device, and may name no ITS.    *)
Route(d) == IF ItsOf[d] = Unknown THEN Its \cup {Unknown} ELSE {ItsOf[d]}

Op(k, i, d, l) == [kind |-> k, its |-> i, dev |-> d, lpi |-> l, next |-> 1]
Fits(o) == \A i \in Its : Len(queue[i]) + Len(Batch(o)) <= MaxCommands

(* Callers use vector 0 of a device, and an LPI for one device at a time.    *)
Holds(d, l) == msix[d] # Masked /\ msix[d].lpi = l
MayRequest(d, l) == l \in LpisOf[d] /\ msix[d] = Masked /\ \A e \in Devs : ~Holds(e, l)

RequestMsi_Unguarded(d, l) ==
  /\ pc = "idle"
  /\ MayRequest(d, l)
  /\ setup \in {"failed", "done"}
  /\ \E i \in Route(d) \ {Unknown} :
       /\ op' = Op("request", i, d, l)
       /\ Fits(op')
       /\ config' = [config EXCEPT ![l] = "enabled"]
       /\ rdOn' = TRUE
       /\ itsOn' = [itsOn EXCEPT ![i] = TRUE]
       /\ pc' = "cmds"
  /\ UNCHANGED <<setupVars, queueVars, stalled, rdVars, itsVars, msix, polls, history>>

(* val_gic_request_msi down to the first command.  Without g_its_setup_done  *)
(* nothing is mapped, and the vector is programmed all the same; without the *)
(* bases or the ITS the call fails and changes nothing.                      *)
RequestMsi(d, l) ==
  /\ pc = "idle"
  /\ MayRequest(d, l)
  /\ \E i \in Route(d) \ {Unknown} :
       /\ op' = Op("request", i, d, l)
       /\ \/ /\ setup = "failed"
             /\ pc' = "msix"
             /\ UNCHANGED <<config, rdOn, itsOn>>
          \/ /\ setup = "done"
             /\ Fits(op')
             /\ config' = [config EXCEPT ![l] = "enabled"]
             /\ rdOn' = TRUE
             /\ itsOn' = [itsOn EXCEPT ![i] = TRUE]
             /\ pc' = "cmds"
  /\ UNCHANGED <<setupVars, queueVars, stalled, rdVars, itsVars, msix, polls, history>>

(* val_gic_free_msi down to the first command.  The vector is cleared also   *)
(* when nothing can be unmapped.                                             *)
FreeMsi(d) ==
  /\ pc = "idle"
  /\ msix[d] # Masked
  /\ \E i \in Route(d) :
       /\ op' = Op("free", i, d, msix[d].lpi)
       /\ strayed' = IF i = msix[d].its THEN strayed ELSE strayed \cup {msix[d].lpi}
       /\ \/ /\ setup = "failed" \/ i = Unknown
             /\ pc' = "msix"
             /\ UNCHANGED config
          \/ /\ setup = "done" /\ i # Unknown
             /\ Fits(op')
             /\ config' = [config EXCEPT ![msix[d].lpi] = "disabled"]
             /\ pc' = "cmds"
  /\ UNCHANGED <<setupVars, rdOn, itsOn, queueVars, stalled, rdVars, itsVars, msix, polls, expired>>

(* WriteCmdQ*: one command, and the write pointer moves on.                  *)
WriteCommand ==
  /\ pc = "cmds"
  /\ queue' = [queue EXCEPT ![op.its] = Append(@, Batch(op)[op.next])]
  /\ op' = [op EXCEPT !.next = @ + 1]
  /\ pc' = IF op.next = Len(Batch(op)) THEN "cwriter" ELSE "cmds"
  /\ UNCHANGED <<setupVars, rdOn, itsOn, posted, stalled, config, rdVars, itsVars, msix,
                 polls, history>>

(* GITS_CWRITER is set to the write pointer.                                 *)
WriteCwriter ==
  /\ pc = "cwriter"
  /\ posted' = [posted EXCEPT ![op.its] = Len(queue[op.its])]
  /\ polls' = PollLimit
  /\ pc' = "poll"
  /\ UNCHANGED <<setupVars, rdOn, itsOn, queue, stalled, config, rdVars, itsVars, msix, op,
                 history>>

Poll_RetryForever ==
  /\ pc = "poll"
  /\ \/ /\ posted[op.its] = 0 /\ ~stalled[op.its]
        /\ pc' = "msix"
        /\ UNCHANGED stalled
     \/ /\ posted[op.its] # 0 \/ stalled[op.its]
        /\ stalled' = [stalled EXCEPT ![op.its] = FALSE]
        /\ UNCHANGED pc
  /\ UNCHANGED <<setupVars, rdOn, itsOn, queueVars, config, rdVars, itsVars, msix, op, polls, history>>

(* PollTillCommandQueueDone: a stalled ITS is told to retry, and after       *)
(* WAIT_ITS_COMMAND_DONE rounds the driver goes on regardless.               *)
Poll ==
  /\ pc = "poll"
  /\ \/ /\ posted[op.its] = 0 /\ ~stalled[op.its]
        /\ pc' = "msix"
        /\ UNCHANGED <<stalled, polls, expired>>
     \/ /\ posted[op.its] # 0 \/ stalled[op.its]
        /\ stalled' = [stalled EXCEPT ![op.its] = FALSE]
        /\ IF polls = 0
             THEN pc' = "msix" /\ expired' = TRUE /\ UNCHANGED polls
             ELSE polls' = polls - 1 /\ UNCHANGED <<pc, expired>>
  /\ UNCHANGED <<setupVars, rdOn, itsOn, queueVars, config, rdVars, itsVars, msix, op, strayed>>

(* fill_msi_x_table, clear_msi_x_table, and the return to the caller.        *)
WriteMsix ==
  /\ pc = "msix"
  /\ msix' = [msix EXCEPT ![op.dev] =
                IF op.kind = "request" THEN Vector(op.its, op.lpi) ELSE Masked]
  /\ pc' = "idle" /\ op' = NoOp
  /\ UNCHANGED <<setupVars, rdOn, itsOn, queueVars, stalled, config, rdVars, itsVars, polls, history>>

Call == WriteCommand \/ WriteCwriter \/ Poll \/ WriteMsix

----------------------------------------------------------------------------
(* The ITS (external) executes the command at GITS_CREADR.  INV takes effect *)
(* in the redistributor later; SYNC waits for it.                            *)
Pending(i) == itsOn[i] /\ ~stalled[i] /\ posted[i] # 0

Execute(i) ==
  /\ Pending(i)
  /\ LET c == Head(queue[i]) IN
       /\ c.cmd = "SYNC" => inv = {}
       /\ devtab' = [devtab EXCEPT ![i] = IF c.cmd = "MAPD" THEN @ \cup {c.dev} ELSE @]
       /\ coll' = [coll EXCEPT ![i] = @ \/ c.cmd = "MAPC"]
       /\ itt' = [itt EXCEPT ![i] = CASE c.cmd = "MAPI"    -> @ \cup {c.lpi}
                                      [] c.cmd = "DISCARD" -> @ \ {c.lpi}
                                      [] OTHER             -> @]
       /\ inv' = IF c.cmd = "INV" THEN inv \cup {c.lpi} ELSE inv
  /\ queue' = [queue EXCEPT ![i] = Tail(@)]
  /\ posted' = [posted EXCEPT ![i] = @ - 1]
  /\ UNCHANGED <<pc, setupVars, rdOn, itsOn, stalled, config, cached, msix, op, polls,
                 history>>

(* ... or stalls on it until it is told to retry.                            *)
Stall(i) ==
  /\ Pending(i)
  /\ stalled' = [stalled EXCEPT ![i] = TRUE]
  /\ UNCHANGED <<pc, setupVars, rdOn, itsOn, queueVars, config, rdVars, itsVars, msix, op, polls,
                 history>>

(* The redistributor (external) reads the configuration of an LPI, and drops *)
(* what it has read when an INV arrives.                                     *)
ReadConfig(l) ==
  /\ rdOn
  /\ cached[l] = "none"
  /\ cached' = [cached EXCEPT ![l] = config[l]]
  /\ UNCHANGED <<pc, setupVars, rdOn, itsOn, queueVars, stalled, config, inv, itsVars, msix, op,
                 polls, history>>

Invalidate(l) ==
  /\ l \in inv
  /\ inv' = inv \ {l}
  /\ cached' = [cached EXCEPT ![l] = "none"]
  /\ UNCHANGED <<pc, setupVars, rdOn, itsOn, queueVars, stalled, config, itsVars, msix, op, polls,
                 history>>

Next ==
  \/ Setup
  \/ \E d \in Devs, l \in Lpis : RequestMsi(d, l)
  \/ \E d \in Devs : FreeMsi(d)
  \/ Call
  \/ \E i \in Its : Execute(i) \/ Stall(i)
  \/ \E l \in Lpis : ReadConfig(l) \/ Invalidate(l)

Spec == Init /\ [][Next]_vars

(* The PE executes the calls; nothing is assumed of the ITS.                 *)
FairSpec == Spec /\ WF_vars(Call)

----------------------------------------------------------------------------
(* A write of l by device d to GITS_TRANSLATER of ITS i becomes LPI l.       *)
Delivers(i, d, l) ==
  /\ itsOn[i] /\ rdOn
  /\ d \in devtab[i] /\ coll[i] /\ l \in itt[i]
  /\ (IF cached[l] = "none" THEN config[l] ELSE cached[l]) = "enabled"

(* Between the calls, as long as no poll of the command queue was given up,  *)
(* every vector that val_gic_request_msi has programmed is delivered,        *)
(* whatever other devices were given or freed and whatever the redistributor *)
(* had read before.                                                          *)
RequestedDelivered ==
  pc = "idle" /\ setup = "done" /\ ~expired =>
    \A d \in Devs : msix[d] # Masked =>
      Delivers(msix[d].its, d, msix[d].lpi)

(* Between the calls, as long as no poll was given up, an LPI that no device *)
(* holds is delivered for no device: val_gic_free_msi has removed it, unless *)
(* its two lookups of an unknown device went to different ITSs.              *)
FreedSilent ==
  pc = "idle" /\ ~expired =>
    \A l \in Lpis \ strayed :
      (\A d \in Devs : ~Holds(d, l)) =>
        \A i \in Its, d \in Devs : ~Delivers(i, d, l)

(* Redistributor and ITS are enabled only when their tables are in place,    *)
(* also after a set up that failed half way.                                 *)
TablesBeforeEnable ==
  /\ rdOn => {<<"PROPBASER">>, <<"PENDBASER">>} \subseteq regs
  /\ \A i \in Its : itsOn[i] => {<<"CBASER", i>>, <<"BASER", i>>} \subseteq regs

(* A request or a free returns, whatever the ITS does: the wait for the      *)
(* queue is bounded.                                                         *)
CallReturns == op # NoOp ~> op = NoOp

----------------------------------------------------------------------------
(* The inductive invariant.                                                  *)
Issuing  == pc \in {"cmds", "cwriter", "poll"}
Calling  == Issuing \/ pc = "msix"
Commands == [cmd : Cmds, dev : Devs, lpi : Lpis]
Ops      == [kind : {"request", "free"}, its : Its \cup {Unknown}, dev : Devs, lpi : Lpis,
             next : Nat]

(* The call and its queue.  There is room for the commands to come.          *)
CallOK ==
  /\ queue \in [Its -> Seq(Commands)] /\ posted \in [Its -> Nat]
  /\ Calling => op \in Ops
  /\ Issuing => setup = "done" /\ op.its \in Its
  /\ pc = "cmds" => op.next \in 1 .. Len(Batch(op))
  /\ pc \in {"cwriter", "poll"} => op.next = Len(Batch(op)) + 1
  /\ pc = "cmds" =>
       Len(queue[op.its]) + Len(Batch(op)) - (op.next - 1) <= MaxCommands

(* The tables are programmed in the order of the set up, and nothing is      *)
(* enabled before its end.                                                   *)
Prepared ==
  /\ setup = "none" <=> pc \in {"find", "ids", "prop", "pend", "queue", "tables"}
  /\ pc \in {"prop", "pend"} => idx = 0
  /\ pc \in {"pend", "queue", "tables"} => <<"PROPBASER">> \in regs
  /\ pc \in {"queue", "tables"} =>
       /\ <<"PENDBASER">> \in regs
       /\ \A j \in Its : j < idx => {<<"CBASER", j>>, <<"BASER", j>>} \subseteq regs
  /\ pc = "tables" => <<"CBASER", idx>> \in regs
  /\ setup = "done" => Regs \subseteq regs
  /\ rdOn \/ (\E i \in Its : itsOn[i]) => setup = "done"

(* Nothing is held before the end of the set up.  An LPI is held by one      *)
(* device; a request is for one that nobody holds, a free for the one the    *)
(* device holds.                                                             *)
Vectors ==
  /\ setup = "none" => \A d \in Devs : msix[d] = Masked
  /\ \A d, e \in Devs :
       msix[d] # Masked /\ msix[e] # Masked /\ msix[d].lpi = msix[e].lpi => d = e
  /\ Calling /\ op.kind = "request" =>
       op.its \in Its /\ msix[op.dev] = Masked /\ \A e \in Devs : ~Holds(e, op.lpi)
  /\ Calling /\ op.kind = "free" =>
       Holds(op.dev, op.lpi) /\ (op.its = msix[op.dev].its \/ op.lpi \in strayed)

(* How many commands of the call the ITS has executed.                       *)
Executed == op.next - 1 - Len(queue[op.its])
Did(k) == setup = "done" /\ op.its # Unknown /\ (pc = "msix" \/ (Issuing /\ Executed >= k))

(* Only the queue of the call holds commands, and these are its last ones.   *)
Queues ==
  /\ \A i \in Its : queue[i] # <<>> => Issuing /\ i = op.its
  /\ pc \in {"cmds", "cwriter"} => posted[op.its] = 0 /\ Executed = 0
  /\ pc = "poll" => posted[op.its] = Len(queue[op.its]) /\ Executed >= 0
  /\ Issuing => \A j \in 1 .. Len(queue[op.its]) : queue[op.its][j] = Batch(op)[Executed + j]

(* What each executed command of a request or a free has brought about.      *)
Effects ==
  /\ Calling /\ op.kind = "request" =>
       /\ setup = "done" => itsOn[op.its] /\ rdOn /\ config[op.lpi] = "enabled"
       /\ Did(1) => op.dev \in devtab[op.its]
       /\ Did(2) => coll[op.its]
       /\ Did(3) => op.lpi \in itt[op.its]
       /\ Did(4) /\ op.lpi \notin inv => cached[op.lpi] # "disabled"
       /\ Did(5) => cached[op.lpi] # "disabled"
  /\ Calling /\ op.kind = "free" /\ Did(1) => op.lpi \notin itt[op.its]

(* The whole way from ITS to redistributor is open for a vector.             *)
Live(i, d, l) ==
  /\ itsOn[i] /\ rdOn
  /\ d \in devtab[i] /\ coll[i] /\ l \in itt[i]
  /\ config[l] = "enabled" /\ cached[l] # "disabled"

(* It is for all vectors but the one being freed, and no translation is left *)
(* that has no vector.                                                       *)
Delivery ==
  /\ setup = "done" =>
       \A d \in Devs : msix[d] # Masked /\ ~(Calling /\ op.kind = "free" /\ op.dev = d) =>
         Live(msix[d].its, d, msix[d].lpi)
  /\ \A i \in Its : \A l \in itt[i] :
       /\ setup = "done"
       /\ \/ l \in strayed
          \/ \E d \in Devs : msix[d] = Vector(i, l)
          \/ Calling /\ op.kind = "request" /\ op.its = i /\ op.lpi = l

ItsInv ==
  TypeOK /\ CallOK /\ Prepared /\ Vectors /\ (~expired => Queues /\ Effects /\ Delivery)
=============================================================================
