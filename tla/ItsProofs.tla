----------------------------- MODULE ItsProofs ------------------------------
(* Proofs about message signalled interrupts through the GIC ITS, for      *)
(* every number of ITSs, every set of devices and LPIs and every way they  *)
(* are assigned, known to the IO virtualisation table or not.              *)
EXTENDS Its, TLAPS

----------------------------------------------------------------------------
(* The operators the model is built from.                                  *)

(* The commands of a call, one by one.                                     *)
LEMMA BatchOf ==
  ASSUME NEW o \in Ops
  PROVE  /\ o.kind = "request" =>
              /\ Len(Batch(o)) = 5
              /\ Batch(o)[1] = Command("MAPD", o.dev, o.lpi)
              /\ Batch(o)[2] = Command("MAPC", o.dev, o.lpi)
              /\ Batch(o)[3] = Command("MAPI", o.dev, o.lpi)
              /\ Batch(o)[4] = Command("INV", o.dev, o.lpi)
              /\ Batch(o)[5] = Command("SYNC", o.dev, o.lpi)
         /\ o.kind = "free" =>
              /\ Len(Batch(o)) = 2
              /\ Batch(o)[1] = Command("DISCARD", o.dev, o.lpi)
              /\ Batch(o)[2] = Command("SYNC", o.dev, o.lpi)
  BY DEF Batch, Ops

(* They are commands of the queue.                                         *)
LEMMA BatchType ==
  ASSUME NEW o \in Ops
  PROVE  /\ Len(Batch(o)) \in {2, 5}
         /\ \A k \in 1 .. Len(Batch(o)) : Batch(o)[k] \in Commands
<1>1. \A c \in Cmds : Command(c, o.dev, o.lpi) \in Commands
  BY DEF Command, Commands, Ops
<1>2. CASE o.kind = "request"
  BY <1>1, <1>2, BatchOf DEF Cmds
<1>3. CASE o.kind = "free"
  BY <1>1, <1>3, BatchOf DEF Cmds
<1> QED BY <1>2, <1>3 DEF Ops

(* The fields of a command.                                                *)
LEMMA CommandFields ==
  ASSUME NEW c, NEW d, NEW l
  PROVE  Command(c, d, l).cmd = c /\ Command(c, d, l).dev = d /\ Command(c, d, l).lpi = l
  BY DEF Command

(* A call starts with its first command.                                   *)
LEMMA OpType ==
  ASSUME NEW k \in {"request", "free"}, NEW i \in Its \cup {Unknown}, NEW d \in Devs, NEW l \in Lpis
  PROVE  /\ Op(k, i, d, l) \in Ops
         /\ Op(k, i, d, l).kind = k /\ Op(k, i, d, l).its = i /\ Op(k, i, d, l).dev = d
         /\ Op(k, i, d, l).lpi = l /\ Op(k, i, d, l).next = 1
  BY DEF Op, Ops

(* The ITSs are numbered from 0, and Unknown is none of them.              *)
LEMMA ItsNumbers ==
  /\ 0 \in Its /\ Unknown \notin Its
  /\ \A d \in Devs : Route(d) \subseteq Its \cup {Unknown}
  BY ItsAssumption DEF Its, Unknown, Route

(* The base registers are those of the redistributor and two of each ITS.  *)
LEMMA RegKinds ==
  \A r \in Regs : \/ r = <<"PROPBASER">> \/ r = <<"PENDBASER">>
                  \/ \E j \in Its : r = <<"CBASER", j>> \/ r = <<"BASER", j>>
  BY DEF Regs

(* The length of a queue.                                                  *)
LEMMA QueueLen ==
  ASSUME CallOK, NEW i \in Its
  PROVE  queue[i] \in Seq(Commands) /\ Len(queue[i]) \in Nat
  BY DEF CallOK

----------------------------------------------------------------------------
(* The inductive step, one lemma for each action.                          *)

(* The set up: nothing is enabled, mapped or held.                         *)
LEMMA PreparedSetup ==
  ASSUME TypeOK, Prepared, Setup PROVE Prepared' /\ idx' \in Its /\ regs' \subseteq Regs
<1>1. UNCHANGED <<rdOn, itsOn>>
  BY DEF Setup, FindBlocks, SetInitialConfiguration, SetConfigTableBase, SetPendingTableBase,
     SetCommandQueueBase, SetItsTables, Rest
<1>2. idx \in Its /\ 0 \in Its /\ Its = 0 .. NumIts - 1 /\ NumIts \in Nat
  BY ItsAssumption, ItsNumbers DEF TypeOK, Its
<1>3. ~(rdOn \/ \E i \in Its : itsOn[i])
  BY DEF Prepared, Setup, FindBlocks, SetInitialConfiguration, SetConfigTableBase, SetPendingTableBase,
     SetCommandQueueBase, SetItsTables
<1>4. ~(rdOn' \/ \E i \in Its : itsOn'[i])
  BY <1>1, <1>3
<1>5. CASE FindBlocks
  BY <1>4, <1>5 DEF FindBlocks, SetupFails, setupVars, Prepared, TypeOK
<1>6. CASE SetInitialConfiguration
  BY <1>2, <1>4, <1>6 DEF SetInitialConfiguration, SetupFails, Prepared, TypeOK
<1>7. CASE SetConfigTableBase
  BY <1>4, <1>7 DEF SetConfigTableBase, SetupFails, Program, Prepared, TypeOK, Regs
<1>8. CASE SetPendingTableBase
  BY <1>2, <1>4, <1>8 DEF SetPendingTableBase, SetupFails, Program, Prepared, TypeOK, Regs
<1>9. CASE SetCommandQueueBase
  BY <1>2, <1>4, <1>9 DEF SetCommandQueueBase, SetupFails, Program, Prepared, TypeOK, Regs
<1>10. CASE SetItsTables
  <2>1. /\ pc = "tables" /\ setup = "none" /\ {<<"PROPBASER">>, <<"PENDBASER">>, <<"CBASER", idx>>} \subseteq regs
        /\ \A j \in Its : j < idx => {<<"CBASER", j>>, <<"BASER", j>>} \subseteq regs
    BY <1>10 DEF SetItsTables, Prepared
  <2>2. <<"BASER", idx>> \in Regs
    BY <1>2 DEF Regs
  <2>3. CASE SetupFails("failed")
    BY <1>4, <2>1, <2>3 DEF SetupFails, Prepared, TypeOK
  <2>4. CASE idx < NumIts - 1 /\ Program(<<"BASER", idx>>, "queue") /\ idx' = idx + 1
    <3>1. idx' \in Its /\ \A j \in Its : j < idx' => j < idx \/ j = idx
      BY <1>2, <2>4
    <3>2. regs' = regs \cup {<<"BASER", idx>>} /\ pc' = "queue" /\ setup' = setup
      BY <2>4 DEF Program
    <3> QED
      BY <1>4, <2>1, <2>2, <3>1, <3>2 DEF Prepared, TypeOK
  <2>5. CASE /\ idx = NumIts - 1 /\ regs' = regs \cup {<<"BASER", idx>>}
             /\ setup' = "done" /\ pc' = "idle" /\ idx' = 0
    <3>1. \A j \in Its : j < idx \/ j = idx
      BY <1>2, <2>5
    <3>2. Regs \subseteq regs'
      <4>1. \A j \in Its : <<"CBASER", j>> \in regs' /\ <<"BASER", j>> \in regs'
        BY <2>1, <2>5, <3>1
      <4>2. <<"PROPBASER">> \in regs' /\ <<"PENDBASER">> \in regs'
        BY <2>1, <2>5
      <4> QED BY <4>1, <4>2, RegKinds
    <3> QED
      BY <1>2, <1>4, <2>2, <2>5, <3>2 DEF Prepared, TypeOK
  <2> QED BY <1>10, <2>3, <2>4, <2>5 DEF SetItsTables
<1> QED BY <1>5, <1>6, <1>7, <1>8, <1>9, <1>10 DEF Setup

(* The set up as a whole.                                                  *)
LEMMA InvSetup ==
  ASSUME ItsInv, Setup PROVE ItsInv'
<1> USE DEF ItsInv
<1>1. /\ UNCHANGED <<rdOn, itsOn, queue, posted, stalled, config, cached, inv, devtab, coll, itt>>
      /\ UNCHANGED <<msix, op, polls, expired, strayed>>
  BY DEF Setup, FindBlocks, SetInitialConfiguration, SetConfigTableBase, SetPendingTableBase,
     SetCommandQueueBase, SetItsTables, Rest, queueVars, rdVars, itsVars, history
<1>2. /\ setup = "none" /\ setup' \in {"none", "nobase", "failed", "done"}
      /\ pc' \in {"ids", "prop", "pend", "queue", "tables", "idle"} /\ ~Calling /\ ~Issuing
  BY DEF Setup, FindBlocks, SetInitialConfiguration, SetConfigTableBase, SetPendingTableBase,
     SetCommandQueueBase, SetItsTables, SetupFails, Program, setupVars, Prepared, Calling, Issuing
<1>3. ~Calling' /\ ~Issuing'
  BY <1>2 DEF Calling, Issuing
<1>4. Prepared' /\ idx' \in Its /\ regs' \subseteq Regs
  BY PreparedSetup
<1>5. TypeOK'
  BY <1>1, <1>2, <1>4 DEF TypeOK
<1>6. CallOK'
  BY <1>1, <1>2, <1>3 DEF CallOK
<1>7. Vectors'
  BY <1>1, <1>2, <1>3 DEF Vectors
<1>8. ASSUME ~expired' PROVE Queues' /\ Effects' /\ Delivery'
  <2>1. Queues /\ Delivery
    BY <1>1, <1>8
  <2>2. Queues' /\ Effects'
    BY <1>1, <1>2, <1>3, <2>1 DEF Queues, Effects
  <2>3. Delivery'
    BY <1>1, <1>2, <2>1 DEF Delivery, Vectors
  <2> QED BY <2>2, <2>3
<1> QED BY <1>4, <1>5, <1>6, <1>7, <1>8

(* A request that is not mapped, or whose LPI is enabled before the first  *)
(* command.                                                                *)
LEMMA InvRequestMsi ==
  ASSUME ItsInv, NEW d \in Devs, NEW l \in Lpis, RequestMsi(d, l) PROVE ItsInv'
<1> USE DEF ItsInv
<1>1. PICK i \in Route(d) \ {Unknown} :
        /\ op' = Op("request", i, d, l)
        /\ \/ /\ setup = "failed" /\ pc' = "msix" /\ UNCHANGED <<config, rdOn, itsOn>>
           \/ /\ setup = "done" /\ Fits(op') /\ pc' = "cmds"
              /\ config' = [config EXCEPT ![l] = "enabled"]
              /\ rdOn' = TRUE /\ itsOn' = [itsOn EXCEPT ![i] = TRUE]
  BY DEF RequestMsi
<1>2. /\ UNCHANGED <<idx, setup, regs, queue, posted, stalled, cached, inv, devtab, coll, itt>>
      /\ UNCHANGED <<msix, polls, expired, strayed>>
      /\ pc = "idle" /\ msix[d] = Masked /\ \A e \in Devs : ~Holds(e, l)
  BY DEF RequestMsi, MayRequest, setupVars, queueVars, rdVars, itsVars, history
<1>3. i \in Its
  BY ItsNumbers
<1>4. /\ op' \in Ops /\ op'.kind = "request" /\ op'.its = i /\ op'.dev = d /\ op'.lpi = l
      /\ op'.next = 1
  BY <1>1, <1>3, OpType
<1>5. ~Calling /\ Calling' /\ (Issuing' => setup = "done" /\ pc' = "cmds")
  BY <1>1, <1>2 DEF Calling, Issuing
<1>6. /\ config' \in [Lpis -> Configs] /\ rdOn' \in BOOLEAN /\ itsOn' \in [Its -> BOOLEAN]
      /\ \A k \in Lpis \ {l} : config'[k] = config[k]
      /\ \A j \in Its : itsOn[j] => itsOn'[j]
      /\ rdOn => rdOn'
      /\ setup = "done" => itsOn'[i] /\ rdOn' /\ config'[l] = "enabled"
  BY <1>1, <1>3 DEF TypeOK, Configs
<1>7. TypeOK'
  BY <1>1, <1>2, <1>6 DEF TypeOK
<1>8. CallOK'
  <2>1. pc' = "cmds" => Len(queue[i]) + Len(Batch(op')) <= MaxCommands /\ Len(Batch(op')) \in {2, 5}
    BY <1>1, <1>3, <1>4, BatchType DEF Fits
  <2>2. Len(queue[i]) \in Nat
    BY <1>3, QueueLen
  <2>3. pc' = "cmds" => /\ op'.next \in 1 .. Len(Batch(op'))
                        /\ Len(queue'[op'.its]) + Len(Batch(op')) - (op'.next - 1) <= MaxCommands
    <3>1. ASSUME NEW a \in Nat, NEW b \in {2, 5}, a + b <= MaxCommands
          PROVE  1 \in 1 .. b /\ a + b - (1 - 1) <= MaxCommands
      BY <3>1
    <3>2. queue'[op'.its] = queue[i]
      BY <1>2, <1>4
    <3> QED BY <1>4, <2>1, <2>2, <3>1, <3>2
  <2> QED
    BY <1>1, <1>2, <1>3, <1>4, <1>5, <2>3 DEF CallOK
<1>9. Prepared'
  BY <1>1, <1>2 DEF Prepared
<1>10. Vectors'
  BY <1>1, <1>2, <1>3, <1>4, <1>5 DEF Vectors, Holds
<1>11. ASSUME ~expired' PROVE Queues' /\ Effects' /\ Delivery'
  <2>1. Queues /\ Delivery
    BY <1>2, <1>11
  <2>2. queue[i] = <<>> /\ \A j \in Its : queue[j] = <<>>
    BY <1>2, <1>3, <2>1 DEF Queues, Issuing
  <2>3. posted[i] = 0
    BY <1>3, <2>2 DEF TypeOK
  <2>4. Executed' = 0
    <3>1. queue'[op'.its] = <<>>
      BY <1>2, <1>4, <2>2
    <3>2. Len(queue'[op'.its]) = 0
      BY <3>1
    <3> QED BY <1>4, <3>2 DEF Executed
  <2>5. Queues'
    BY <1>1, <1>2, <1>4, <1>5, <2>2, <2>3, <2>4 DEF Queues
  <2>6. Effects'
    BY <1>1, <1>2, <1>4, <1>5, <1>6, <2>4 DEF Effects, Did
  <2>7. Delivery'
    <3>1. setup = "done" => \A e \in Devs : msix[e] # Masked => Live(msix[e].its, e, msix[e].lpi)'
      <4> SUFFICES ASSUME setup = "done", NEW e \in Devs, msix[e] # Masked
                   PROVE  Live(msix[e].its, e, msix[e].lpi)'
        OBVIOUS
      <4>1. Live(msix[e].its, e, msix[e].lpi)
        BY <1>5, <2>1 DEF Delivery
      <4>2. msix[e].its \in Its /\ msix[e].lpi \in Lpis /\ msix[e].lpi # l
        BY <1>2 DEF TypeOK, Holds
      <4> QED BY <1>2, <1>6, <4>1, <4>2 DEF Live
    <3> QED
      BY <1>2, <1>4, <1>5, <2>1, <3>1 DEF Delivery
  <2> QED BY <2>5, <2>6, <2>7
<1> QED BY <1>7, <1>8, <1>9, <1>10, <1>11

(* A free: the LPI is disabled before the first command.                   *)
LEMMA InvFreeMsi ==
  ASSUME ItsInv, NEW d \in Devs, FreeMsi(d) PROVE ItsInv'
<1> USE DEF ItsInv
<1> DEFINE l == msix[d].lpi
<1>1. PICK i \in Route(d) :
        /\ op' = Op("free", i, d, msix[d].lpi)
        /\ strayed' = IF i = msix[d].its THEN strayed ELSE strayed \cup {msix[d].lpi}
        /\ \/ /\ setup = "failed" \/ i = Unknown
              /\ pc' = "msix" /\ UNCHANGED config
           \/ /\ setup = "done" /\ i # Unknown /\ Fits(op') /\ pc' = "cmds"
              /\ config' = [config EXCEPT ![msix[d].lpi] = "disabled"]
  BY DEF FreeMsi
<1>2. /\ UNCHANGED <<idx, setup, regs, rdOn, itsOn, queue, posted, stalled, cached, inv, devtab, coll, itt>>
      /\ UNCHANGED <<msix, polls, expired>>
      /\ pc = "idle" /\ msix[d] # Masked
  BY DEF FreeMsi, setupVars, queueVars, rdVars, itsVars
<1>3. i \in Its \cup {Unknown} /\ l \in Lpis /\ msix[d].its \in Its
  BY <1>2, ItsNumbers DEF TypeOK
<1>4. /\ op' \in Ops /\ op'.kind = "free" /\ op'.its = i /\ op'.dev = d /\ op'.lpi = l
      /\ op'.next = 1
  BY <1>1, <1>3, OpType
<1>5. ~Calling /\ Calling' /\ (Issuing' => setup = "done" /\ pc' = "cmds" /\ i \in Its)
  BY <1>1, <1>2, <1>3 DEF Calling, Issuing
<1>6. /\ config' \in [Lpis -> Configs] /\ strayed' \subseteq Lpis /\ strayed \subseteq strayed'
      /\ \A k \in Lpis \ {l} : config'[k] = config[k]
      /\ i = msix[d].its \/ l \in strayed'
  BY <1>1, <1>3 DEF TypeOK, Configs
<1> HIDE DEF l
<1>7. TypeOK'
  BY <1>1, <1>2, <1>6 DEF TypeOK
<1>8. CallOK'
  <2>1. pc' = "cmds" => /\ i \in Its /\ Len(queue[i]) + Len(Batch(op')) <= MaxCommands
                        /\ Len(Batch(op')) \in {2, 5}
    BY <1>1, <1>3, <1>4, BatchType DEF Fits
  <2>2. i \in Its => Len(queue[i]) \in Nat
    BY QueueLen
  <2>3. pc' = "cmds" => /\ op'.next \in 1 .. Len(Batch(op'))
                        /\ Len(queue'[op'.its]) + Len(Batch(op')) - (op'.next - 1) <= MaxCommands
    <3>1. ASSUME NEW a \in Nat, NEW b \in {2, 5}, a + b <= MaxCommands
          PROVE  1 \in 1 .. b /\ a + b - (1 - 1) <= MaxCommands
      BY <3>1
    <3>2. queue'[op'.its] = queue[i]
      BY <1>2, <1>4
    <3> QED BY <1>4, <2>1, <2>2, <3>1, <3>2
  <2> QED
    BY <1>1, <1>2, <1>4, <1>5, <2>3 DEF CallOK
<1>9. Prepared'
  BY <1>1, <1>2 DEF Prepared
<1>10. Vectors'
  BY <1>1, <1>2, <1>4, <1>5, <1>6 DEF Vectors, Holds, l
<1>11. ASSUME ~expired' PROVE Queues' /\ Effects' /\ Delivery'
  <2>1. Queues /\ Delivery
    BY <1>2, <1>11
  <2>2. \A j \in Its : queue[j] = <<>> /\ posted[j] = 0
    BY <1>2, <2>1 DEF Queues, Issuing, TypeOK
  <2>3. Issuing' => Executed' = 0
    <3>1. Issuing' => queue'[op'.its] = <<>>
      BY <1>2, <1>4, <1>5, <2>2
    <3>2. Issuing' => Len(queue'[op'.its]) = 0
      BY <3>1
    <3> QED BY <1>4, <3>2 DEF Executed
  <2>4. Queues'
    BY <1>1, <1>2, <1>4, <1>5, <2>2, <2>3 DEF Queues, Issuing
  <2>5. Effects'
    BY <1>1, <1>2, <1>4, <2>3 DEF Effects, Did
  <2>6. Delivery'
    <3>1. setup = "done" => \A e \in Devs \ {d} : msix[e] # Masked => Live(msix[e].its, e, msix[e].lpi)'
      <4> SUFFICES ASSUME setup = "done", NEW e \in Devs \ {d}, msix[e] # Masked
                   PROVE  Live(msix[e].its, e, msix[e].lpi)'
        OBVIOUS
      <4>1. Live(msix[e].its, e, msix[e].lpi)
        BY <1>5, <2>1 DEF Delivery
      <4>2. msix[e].lpi \in Lpis /\ msix[e].lpi # l
        BY <1>2 DEF TypeOK, Vectors, l
      <4> QED BY <1>2, <1>6, <4>1, <4>2 DEF Live
    <3> QED
      BY <1>2, <1>4, <1>5, <1>6, <2>1, <3>1 DEF Delivery
  <2> QED BY <2>4, <2>5, <2>6
<1> QED BY <1>7, <1>8, <1>9, <1>10, <1>11

(* One command more in the queue.                                          *)
LEMMA InvWriteCommand ==
  ASSUME ItsInv, WriteCommand PROVE ItsInv'
<1> USE DEF ItsInv
<1> DEFINE q == queue[op.its]
           c == Batch(op)[op.next]
<1>1. /\ UNCHANGED <<idx, setup, regs, rdOn, itsOn, posted, stalled, config, cached, inv>>
      /\ UNCHANGED <<devtab, coll, itt, msix, polls, expired, strayed>>
      /\ pc = "cmds" /\ pc' = IF op.next = Len(Batch(op)) THEN "cwriter" ELSE "cmds"
      /\ queue' = [queue EXCEPT ![op.its] = Append(q, c)]
      /\ op' = [op EXCEPT !.next = @ + 1]
  BY DEF WriteCommand, setupVars, rdVars, itsVars, history
<1>2. /\ op \in Ops /\ setup = "done" /\ op.its \in Its /\ Issuing /\ Calling /\ Issuing' /\ Calling'
      /\ op.next \in 1 .. Len(Batch(op)) /\ q \in Seq(Commands) /\ Len(q) \in Nat
      /\ Len(q) + Len(Batch(op)) - (op.next - 1) <= MaxCommands
  BY <1>1 DEF CallOK, Issuing, Calling
<1>3. Len(Batch(op)) \in {2, 5} /\ c \in Commands
  BY <1>2, BatchType
<1>4. /\ op' \in Ops /\ op'.kind = op.kind /\ op'.its = op.its /\ op'.dev = op.dev
      /\ op'.lpi = op.lpi /\ op'.next = op.next + 1
  <2>1. op.next + 1 \in Nat
    BY <1>2, <1>3
  <2>2. op' = [op EXCEPT !.next = op.next + 1]
    BY <1>1
  <2> QED BY <1>2, <2>1, <2>2 DEF Ops
<1>5. Batch(op') = Batch(op)
  BY <1>4 DEF Batch
<1>6. /\ Append(q, c) \in Seq(Commands) /\ Len(Append(q, c)) = Len(q) + 1
      /\ \A j \in 1 .. Len(q) : Append(q, c)[j] = q[j]
      /\ Append(q, c)[Len(q) + 1] = c
  BY <1>2, <1>3
<1>7. /\ queue' \in [Its -> Seq(Commands)] /\ queue'[op.its] = Append(q, c)
      /\ \A i \in Its \ {op.its} : queue'[i] = queue[i]
  BY <1>1, <1>2, <1>6 DEF CallOK
<1> HIDE DEF q, c
<1>8. TypeOK'
  <2>1. Len(q) + 1 <= MaxCommands
    BY <1>2, <1>3, ItsAssumption
  <2>2. \A i \in Its : posted'[i] \in 0 .. Len(queue'[i]) /\ Len(queue'[i]) <= MaxCommands
    <3>1. posted'[op.its] \in 0 .. Len(queue'[op.its]) /\ Len(queue'[op.its]) <= MaxCommands
      BY <1>1, <1>2, <1>6, <1>7, <2>1 DEF TypeOK, q
    <3>2. \A i \in Its \ {op.its} : posted'[i] \in 0 .. Len(queue'[i]) /\ Len(queue'[i]) <= MaxCommands
      BY <1>1, <1>7 DEF TypeOK
    <3> QED BY <3>1, <3>2
  <2> QED
    BY <1>1, <2>2 DEF TypeOK
<1>9. CallOK'
  <2>1. pc' = "cmds" => op.next # Len(Batch(op))
    BY <1>1
  <2>2. pc' = "cmds" =>
          /\ op'.next \in 1 .. Len(Batch(op'))
          /\ Len(queue'[op'.its]) + Len(Batch(op')) - (op'.next - 1) <= MaxCommands
    <3>1. ASSUME NEW a \in Nat, NEW b \in {2, 5}, NEW k \in 1 .. b, k # b,
                 a + b - (k - 1) <= MaxCommands
          PROVE  k + 1 \in 1 .. b /\ (a + 1) + b - ((k + 1) - 1) <= MaxCommands
      BY <3>1, ItsAssumption
    <3>2. Len(queue'[op'.its]) = Len(q) + 1
      BY <1>4, <1>6, <1>7
    <3> QED BY <1>2, <1>3, <1>4, <1>5, <2>1, <3>1, <3>2
  <2>3. pc' = "cwriter" => op'.next = Len(Batch(op')) + 1
    BY <1>1, <1>4, <1>5
  <2>4. pc' # "poll" /\ posted' \in [Its -> Nat]
    BY <1>1 DEF CallOK
  <2> QED
    BY <1>1, <1>2, <1>4, <1>7, <2>2, <2>3, <2>4 DEF CallOK
<1>10. Prepared'
  BY <1>1 DEF Prepared
<1>11. Vectors'
  BY <1>1, <1>2, <1>4 DEF Vectors, Holds
<1>12. ASSUME ~expired' PROVE Queues' /\ Effects' /\ Delivery'
  <2>1. Queues /\ Effects /\ Delivery
    BY <1>1, <1>12
  <2>2. Executed = 0 /\ Len(q) = op.next - 1
    BY <1>1, <1>2, <2>1 DEF Queues, Executed, q
  <2>3. Executed' = 0
    BY <1>2, <1>4, <1>6, <1>7, <2>2 DEF Executed
  <2>4. \A j \in 1 .. Len(queue'[op'.its]) : queue'[op'.its][j] = Batch(op')[Executed' + j]
    <3>1. \A j \in 1 .. Len(q) : q[j] = Batch(op)[0 + j]
      BY <1>2, <2>1, <2>2 DEF Queues, q
    <3>2. \A j \in 1 .. Len(q) + 1 : Append(q, c)[j] = Batch(op)[0 + j]
      <4> SUFFICES ASSUME NEW j \in 1 .. Len(q) + 1 PROVE Append(q, c)[j] = Batch(op)[0 + j]
        OBVIOUS
      <4>1. CASE j \in 1 .. Len(q)
        BY <1>6, <3>1, <4>1
      <4>2. CASE j = Len(q) + 1
        <5>1. 0 + j = op.next
          BY <1>2, <2>2, <4>2
        <5> QED BY <1>6, <4>2, <5>1 DEF c
      <4> QED BY <1>2, <4>1, <4>2
    <3> QED BY <1>4, <1>5, <1>6, <1>7, <2>3, <3>2
  <2>5. Queues'
    BY <1>1, <1>2, <1>4, <1>7, <2>1, <2>3, <2>4 DEF Queues
  <2>6. \A k : Did(k)' <=> Did(k)
    BY <1>1, <1>2, <1>4, <2>2, <2>3 DEF Did
  <2>7. Effects'
    BY <1>1, <1>2, <1>4, <2>1, <2>6 DEF Effects
  <2>8. Delivery'
    BY <1>1, <1>2, <1>4, <2>1 DEF Delivery, Live
  <2> QED BY <2>5, <2>7, <2>8
<1> QED BY <1>8, <1>9, <1>10, <1>11, <1>12

(* The commands are handed to the ITS.                                     *)
LEMMA InvWriteCwriter ==
  ASSUME ItsInv, WriteCwriter PROVE ItsInv'
<1> USE DEF ItsInv
<1>1. /\ UNCHANGED <<idx, setup, regs, rdOn, itsOn, queue, stalled, config, cached, inv>>
      /\ UNCHANGED <<devtab, coll, itt, msix, op, expired, strayed>>
      /\ pc = "cwriter" /\ pc' = "poll" /\ polls' = PollLimit
      /\ posted' = [posted EXCEPT ![op.its] = Len(queue[op.its])]
  BY DEF WriteCwriter, setupVars, rdVars, itsVars, history
<1>2. op \in Ops /\ setup = "done" /\ op.its \in Its /\ Issuing /\ Calling /\ Issuing' /\ Calling'
  BY <1>1 DEF CallOK, Issuing, Calling
<1>3. \A i \in Its : queue[i] \in Seq(Commands) /\ Len(queue[i]) \in Nat
  BY QueueLen
<1>4. /\ posted' \in [Its -> Nat] /\ posted'[op.its] = Len(queue[op.its])
      /\ \A i \in Its \ {op.its} : posted'[i] = posted[i]
  BY <1>1, <1>2, <1>3 DEF CallOK
<1>5. TypeOK'
  <2>1. \A i \in Its : posted'[i] \in 0 .. Len(queue'[i]) /\ Len(queue'[i]) <= MaxCommands
    BY <1>1, <1>2, <1>3, <1>4 DEF TypeOK
  <2>2. polls' \in 0 .. PollLimit
    BY <1>1, ItsAssumption
  <2> QED BY <1>1, <2>1, <2>2 DEF TypeOK
<1>6. CallOK'
  BY <1>1, <1>2, <1>4 DEF CallOK
<1>7. Prepared'
  BY <1>1 DEF Prepared
<1>8. Vectors'
  BY <1>1, <1>2 DEF Vectors, Holds
<1>9. ASSUME ~expired' PROVE Queues' /\ Effects' /\ Delivery'
  <2>1. Queues /\ Effects /\ Delivery
    BY <1>1, <1>9
  <2>2. Executed' = Executed /\ Executed = 0
    BY <1>1, <2>1 DEF Executed, Queues
  <2>3. Queues'
    BY <1>1, <1>2, <1>4, <2>1, <2>2 DEF Queues
  <2>4. \A k : Did(k)' <=> Did(k)
    BY <1>1, <1>2, <2>2 DEF Did
  <2>5. Effects'
    BY <1>1, <1>2, <2>1, <2>4 DEF Effects
  <2>6. Delivery'
    BY <1>1, <1>2, <2>1 DEF Delivery, Live
  <2> QED BY <2>3, <2>5, <2>6
<1> QED BY <1>5, <1>6, <1>7, <1>8, <1>9

(* The driver waits, goes on when the queue is empty, or gives up.         *)
LEMMA InvPoll ==
  ASSUME ItsInv, Poll PROVE ItsInv'
<1> USE DEF ItsInv
<1>1. /\ UNCHANGED <<idx, setup, regs, rdOn, itsOn, queue, posted, config, cached, inv>>
      /\ UNCHANGED <<devtab, coll, itt, msix, op, strayed>>
      /\ pc = "poll" /\ pc' \in {"poll", "msix"}
  BY DEF Poll, setupVars, queueVars, rdVars, itsVars
<1>2. /\ op \in Ops /\ setup = "done" /\ op.its \in Its /\ Issuing /\ Calling /\ Calling'
      /\ (Issuing' <=> pc' = "poll") /\ op.next = Len(Batch(op)) + 1
  BY <1>1 DEF CallOK, Issuing, Calling
<1>3. /\ stalled' \in [Its -> BOOLEAN] /\ polls' \in 0 .. PollLimit
  <2>1. polls' \in {polls, polls - 1} /\ (polls' # polls => polls # 0)
    BY DEF Poll
  <2>2. polls' \in 0 .. PollLimit
    BY <2>1, ItsAssumption DEF TypeOK
  <2>3. stalled' \in [Its -> BOOLEAN]
    BY DEF Poll, TypeOK
  <2> QED BY <2>2, <2>3
<1>4. expired' \in BOOLEAN
  BY Zenon DEF Poll, TypeOK
<1>5. ~expired' => ~expired /\ (pc' = "msix" => posted[op.its] = 0)
  BY Zenon DEF Poll
<1>6. TypeOK'
  BY <1>1, <1>3, <1>4 DEF TypeOK
<1>7. CallOK'
  BY <1>1, <1>2 DEF CallOK
<1>8. Prepared'
  BY <1>1 DEF Prepared
<1>9. Vectors'
  BY <1>1, <1>2 DEF Vectors, Holds
<1>10. ASSUME ~expired' PROVE Queues' /\ Effects' /\ Delivery'
  <2>1. Queues /\ Effects /\ Delivery
    BY <1>5, <1>10
  <2>2. Executed' = Executed
    BY <1>1 DEF Executed
  <2>3. Delivery'
    BY <1>1, <1>2, <2>1 DEF Delivery, Live
  <2>4. CASE pc' = "poll"
    <3>1. Queues'
      BY <1>1, <1>2, <2>1, <2>2, <2>4 DEF Queues
    <3>2. \A k : Did(k)' <=> Did(k)
      BY <1>1, <1>2, <2>2, <2>4 DEF Did
    <3>3. Effects'
      BY <1>1, <1>2, <2>1, <3>2 DEF Effects
    <3> QED BY <2>3, <3>1, <3>3
  <2>5. CASE pc' = "msix"
    <3>1. Len(queue[op.its]) = 0
      BY <1>1, <1>5, <1>10, <2>1, <2>5 DEF Queues
    <3>2. queue[op.its] = <<>>
      BY <1>2, <3>1, QueueLen
    <3>3. Queues'
      BY <1>1, <1>2, <2>1, <2>5, <3>2 DEF Queues
    <3>4. Executed = Len(Batch(op)) /\ Len(Batch(op)) \in {2, 5}
      BY <1>2, <3>1, BatchType DEF Executed
    <3>5. /\ Did(1) /\ op.its # Unknown
          /\ op.kind = "request" => Did(2) /\ Did(3) /\ Did(4) /\ Did(5)
      BY <1>2, <3>4, BatchOf, ItsNumbers DEF Did
    <3>6. Effects'
      BY <1>1, <1>2, <2>1, <3>5 DEF Effects
    <3> QED BY <2>3, <3>3, <3>6
  <2> QED BY <1>1, <2>4, <2>5
<1> QED BY <1>6, <1>7, <1>8, <1>9, <1>10

(* A vector is never the mark of a masked one.                             *)
LEMMA VectorNotMasked ==
  ASSUME NEW i \in Its, NEW l \in Lpis
  PROVE  Vector(i, l) # Masked /\ Vector(i, l).its = i /\ Vector(i, l).lpi = l
         /\ Vector(i, l) \in [its : Its, lpi : Lpis]
<1>1. DOMAIN Vector(i, l) = {"its", "lpi"}
  BY DEF Vector
<1>2. DOMAIN Masked = {}
  BY DEF Masked
<1>3. Vector(i, l) # Masked
  BY <1>1, <1>2
<1> QED BY <1>3 DEF Vector

(* The vector is written and the call returns.                             *)
LEMMA InvWriteMsix ==
  ASSUME ItsInv, WriteMsix PROVE ItsInv'
<1> USE DEF ItsInv
<1>1. /\ UNCHANGED <<idx, setup, regs, rdOn, itsOn, queue, posted, stalled, config, cached, inv>>
      /\ UNCHANGED <<devtab, coll, itt, polls, expired, strayed>>
      /\ pc = "msix" /\ pc' = "idle"
      /\ msix' = [msix EXCEPT ![op.dev] =
                    IF op.kind = "request" THEN Vector(op.its, op.lpi) ELSE Masked]
  BY DEF WriteMsix, setupVars, queueVars, rdVars, itsVars, history
<1>2. /\ op \in Ops /\ op.dev \in Devs /\ op.lpi \in Lpis /\ Calling /\ ~Calling' /\ ~Issuing /\ ~Issuing'
      /\ op.kind \in {"request", "free"} /\ setup # "none"
  BY <1>1 DEF CallOK, Prepared, Calling, Issuing, Ops
<1>3. /\ \A e \in Devs \ {op.dev} : msix'[e] = msix[e]
      /\ op.kind = "request" => /\ msix'[op.dev] = Vector(op.its, op.lpi)
                                /\ op.its \in Its /\ msix[op.dev] = Masked
                                /\ \A e \in Devs : ~Holds(e, op.lpi)
                                /\ msix'[op.dev] # Masked /\ msix'[op.dev].its = op.its
                                /\ msix'[op.dev].lpi = op.lpi
      /\ op.kind = "free" => msix'[op.dev] = Masked
      /\ msix' \in [Devs -> [its : Its, lpi : Lpis] \cup {Masked}]
  BY <1>1, <1>2, VectorNotMasked DEF TypeOK, Vectors
<1>4. TypeOK'
  BY <1>1, <1>3 DEF TypeOK
<1>5. CallOK'
  BY <1>1, <1>2 DEF CallOK
<1>6. Prepared'
  BY <1>1 DEF Prepared
<1>7. Vectors'
  <2>1. \A d, e \in Devs :
          msix'[d] # Masked /\ msix'[e] # Masked /\ msix'[d].lpi = msix'[e].lpi => d = e
    <3>1. CASE op.kind = "request"
      BY <1>3, <3>1 DEF Vectors, Holds
    <3>2. CASE op.kind = "free"
      BY <1>3, <3>2 DEF Vectors
    <3> QED BY <1>2, <3>1, <3>2
  <2> QED BY <1>1, <1>2, <2>1 DEF Vectors
<1>8. ASSUME ~expired' PROVE Queues' /\ Effects' /\ Delivery'
  <2>1. Queues /\ Effects /\ Delivery
    BY <1>1, <1>8
  <2>2. Queues' /\ Effects'
    BY <1>1, <1>2, <2>1 DEF Queues, Effects
  <2>3. ASSUME setup = "done", NEW d \in Devs, msix'[d] # Masked
        PROVE  Live(msix[d].its, d, msix[d].lpi)'
    <3>1. CASE d # op.dev
      <4>1. msix[d] # Masked /\ msix'[d] = msix[d]
        BY <1>3, <2>3, <3>1
      <4>2. Live(msix[d].its, d, msix[d].lpi)
        BY <2>1, <2>3, <3>1, <4>1 DEF Delivery
      <4> QED BY <1>1, <4>1, <4>2 DEF Live
    <3>2. CASE d = op.dev
      <4>1. op.kind = "request"
        BY <1>2, <1>3, <2>3, <3>2
      <4>2. Did(1) /\ Did(2) /\ Did(3) /\ Did(5)
        BY <1>1, <1>3, <2>3, <4>1, ItsNumbers DEF Did
      <4> QED BY <1>1, <1>2, <1>3, <2>1, <2>3, <3>2, <4>1, <4>2 DEF Effects, Live
    <3> QED BY <3>1, <3>2
  <2>4. ASSUME NEW i \in Its, NEW l \in itt[i]
        PROVE  setup = "done" /\ (l \in strayed \/ \E d \in Devs : msix'[d] = Vector(i, l))
    <3>1. /\ setup = "done" /\ l \in Lpis
          /\ \/ l \in strayed
             \/ \E d \in Devs : msix[d] = Vector(i, l)
             \/ op.kind = "request" /\ op.its = i /\ op.lpi = l
      BY <2>1 DEF Delivery, TypeOK
    <3>2. CASE op.kind = "request" /\ op.its = i /\ op.lpi = l
      BY <1>2, <1>3, <3>1, <3>2
    <3>3. CASE \E d \in Devs : msix[d] = Vector(i, l)
      <4>1. PICK d \in Devs : msix[d] = Vector(i, l)
        BY <3>3
      <4>2. msix[d] # Masked /\ msix[d].its = i /\ msix[d].lpi = l
        BY <3>1, <4>1, VectorNotMasked
      <4>3. CASE d # op.dev
        BY <1>3, <3>1, <4>1, <4>3
      <4>4. CASE d = op.dev /\ op.kind = "free"
        <5>1. op.lpi = l /\ (op.its = i \/ l \in strayed)
          BY <1>2, <4>2, <4>4 DEF Vectors, Holds
        <5>2. op.its = i => Did(1)
          BY <1>1, <3>1, ItsNumbers DEF Did
        <5> QED BY <1>2, <2>1, <3>1, <4>4, <5>1, <5>2 DEF Effects
      <4>5. CASE d = op.dev /\ op.kind = "request"
        BY <1>3, <4>2, <4>5
      <4> QED BY <1>2, <4>3, <4>4, <4>5
    <3> QED BY <3>1, <3>2, <3>3
  <2>5. Delivery'
    BY <1>1, <1>2, <2>3, <2>4 DEF Delivery
  <2> QED BY <2>2, <2>5
<1> QED BY <1>4, <1>5, <1>6, <1>7, <1>8

(* The ITS executes commands of the call under way only, in their order,   *)
(* and only when the driver waits for it.                                  *)
LEMMA NextCommand ==
  ASSUME TypeOK, CallOK, Queues, NEW i \in Its, posted[i] # 0
  PROVE  /\ pc = "poll" /\ i = op.its /\ op \in Ops /\ setup = "done" /\ Calling
         /\ Executed \in 0 .. Len(Batch(op)) - 1
         /\ Head(queue[i]) = Batch(op)[Executed + 1]
<1>1. queue[i] \in Seq(Commands) /\ Len(queue[i]) \in Nat /\ posted[i] \in 0 .. Len(queue[i])
  BY QueueLen DEF TypeOK
<1>2. queue[i] # <<>> /\ Len(queue[i]) # 0
  BY <1>1
<1>3. Issuing /\ i = op.its /\ pc = "poll"
  BY <1>2 DEF Queues, Issuing
<1>4. op \in Ops /\ setup = "done" /\ Calling /\ op.next = Len(Batch(op)) + 1 /\ Len(Batch(op)) \in {2, 5}
  BY <1>3, BatchType DEF CallOK, Calling
<1>5. Executed \in 0 .. Len(Batch(op)) - 1
  BY <1>1, <1>2, <1>3, <1>4 DEF Executed, Queues
<1>6. queue[i][1] = Batch(op)[Executed + 1]
  BY <1>1, <1>2, <1>3 DEF Queues
<1> QED BY <1>1, <1>2, <1>3, <1>4, <1>5, <1>6

(* The ITS executes a command.                                             *)
LEMMA InvExecute ==
  ASSUME ItsInv, NEW i \in Its, Execute(i) PROVE ItsInv'
<1> USE DEF ItsInv
<1> DEFINE c == Head(queue[i])
<1>1. /\ UNCHANGED <<pc, idx, setup, regs, rdOn, itsOn, stalled, config, cached, msix, op, polls>>
      /\ UNCHANGED <<expired, strayed>>
      /\ posted[i] # 0 /\ (c.cmd = "SYNC" => inv = {})
      /\ devtab' = [devtab EXCEPT ![i] = IF c.cmd = "MAPD" THEN @ \cup {c.dev} ELSE @]
      /\ coll' = [coll EXCEPT ![i] = @ \/ c.cmd = "MAPC"]
      /\ itt' = [itt EXCEPT ![i] = CASE c.cmd = "MAPI"    -> @ \cup {c.lpi}
                                     [] c.cmd = "DISCARD" -> @ \ {c.lpi}
                                     [] OTHER             -> @]
      /\ inv' = IF c.cmd = "INV" THEN inv \cup {c.lpi} ELSE inv
      /\ queue' = [queue EXCEPT ![i] = Tail(queue[i])]
      /\ posted' = [posted EXCEPT ![i] = posted[i] - 1]
  BY DEF Execute, Pending, setupVars, history
<1>2. /\ queue[i] \in Seq(Commands) /\ posted[i] \in Nat \ {0} /\ posted[i] <= Len(queue[i])
      /\ Len(queue[i]) \in Nat \ {0} /\ queue[i] # <<>>
  BY <1>1, QueueLen DEF TypeOK, CallOK
<1>3. /\ c \in Commands /\ Tail(queue[i]) \in Seq(Commands)
      /\ Len(Tail(queue[i])) = Len(queue[i]) - 1
      /\ \A j \in 1 .. Len(queue[i]) - 1 : Tail(queue[i])[j] = queue[i][j + 1]
  BY <1>2
<1>4. /\ queue' \in [Its -> Seq(Commands)] /\ posted' \in [Its -> Nat]
      /\ queue'[i] = Tail(queue[i]) /\ posted'[i] = posted[i] - 1
      /\ \A j \in Its \ {i} : queue'[j] = queue[j] /\ posted'[j] = posted[j]
  BY <1>1, <1>2, <1>3 DEF CallOK
<1> HIDE DEF c
<1>5. /\ devtab' \in [Its -> SUBSET Devs] /\ coll' \in [Its -> BOOLEAN]
      /\ itt' \in [Its -> SUBSET Lpis] /\ inv' \subseteq Lpis
  <2>1. c.dev \in Devs /\ c.lpi \in Lpis
    BY <1>3 DEF Commands
  <2>2. coll' \in [Its -> BOOLEAN]
    BY <1>1 DEF TypeOK
  <2>3. devtab' \in [Its -> SUBSET Devs] /\ inv' \subseteq Lpis
    BY <1>1, <2>1 DEF TypeOK
  <2>4. itt' \in [Its -> SUBSET Lpis]
    BY <1>1, <2>1 DEF TypeOK
  <2> QED BY <2>2, <2>3, <2>4
<1>6. /\ \A j \in Its : devtab[j] \subseteq devtab'[j] /\ (coll[j] => coll'[j])
      /\ \A j \in Its \ {i} : itt'[j] = itt[j]
      /\ c.cmd = "MAPD" => c.dev \in devtab'[i]
      /\ c.cmd = "MAPC" => coll'[i]
      /\ c.cmd = "MAPI" => itt'[i] = itt[i] \cup {c.lpi}
      /\ c.cmd = "DISCARD" => itt'[i] = itt[i] \ {c.lpi}
      /\ c.cmd \notin {"MAPI", "DISCARD"} => itt'[i] = itt[i]
      /\ inv \subseteq inv' /\ (c.cmd = "INV" => c.lpi \in inv')
  <2>1. \A j \in Its : coll[j] => coll'[j]
    BY <1>1 DEF TypeOK
  <2>2. c.cmd = "MAPC" => coll'[i]
    BY <1>1 DEF TypeOK
  <2>3. (\A j \in Its : devtab[j] \subseteq devtab'[j]) /\ (c.cmd = "MAPD" => c.dev \in devtab'[i])
    BY <1>1 DEF TypeOK
  <2>4. /\ \A j \in Its \ {i} : itt'[j] = itt[j]
        /\ c.cmd = "MAPI" => itt'[i] = itt[i] \cup {c.lpi}
        /\ c.cmd = "DISCARD" => itt'[i] = itt[i] \ {c.lpi}
        /\ c.cmd \notin {"MAPI", "DISCARD"} => itt'[i] = itt[i]
    BY <1>1 DEF TypeOK
  <2> QED BY <1>1, <2>1, <2>2, <2>3, <2>4
<1>7. TypeOK'
  <2>1. \A j \in Its : posted'[j] \in 0 .. Len(queue'[j]) /\ Len(queue'[j]) <= MaxCommands
    <3>1. posted'[i] \in 0 .. Len(queue'[i]) /\ Len(queue'[i]) <= MaxCommands
      BY <1>2, <1>3, <1>4, ItsAssumption DEF TypeOK
    <3>2. \A j \in Its \ {i} : posted'[j] \in 0 .. Len(queue'[j]) /\ Len(queue'[j]) <= MaxCommands
      BY <1>4 DEF TypeOK
    <3> QED BY <3>1, <3>2
  <2> QED BY <1>1, <1>5, <2>1 DEF TypeOK
<1>8. CallOK'
  <2>1. (Issuing' <=> Issuing) /\ (Calling' <=> Calling)
    BY <1>1 DEF Issuing, Calling
  <2>2. pc = "cmds" => Len(queue'[op.its]) + Len(Batch(op)) - (op.next - 1) <= MaxCommands
    <3> SUFFICES ASSUME pc = "cmds"
                 PROVE  Len(queue'[op.its]) + Len(Batch(op)) - (op.next - 1) <= MaxCommands
      OBVIOUS
    <3>1. /\ op \in Ops /\ op.its \in Its /\ op.next \in 1 .. Len(Batch(op))
          /\ Len(queue[op.its]) + Len(Batch(op)) - (op.next - 1) <= MaxCommands
      BY DEF CallOK, Issuing, Calling
    <3>2. Len(Batch(op)) \in {2, 5} /\ Len(queue[op.its]) \in Nat
      BY <3>1, BatchType, QueueLen
    <3>3. Len(queue'[op.its]) \in {Len(queue[op.its]), Len(queue[op.its]) - 1}
      BY <1>3, <1>4, <3>1
    <3>4. ASSUME NEW a \in Nat, NEW b \in {2, 5}, NEW k \in 1 .. b, NEW e \in {a, a - 1},
                 a + b - (k - 1) <= MaxCommands
          PROVE  e + b - (k - 1) <= MaxCommands
      BY <3>4, ItsAssumption
    <3> QED BY <3>1, <3>2, <3>3, <3>4
  <2> QED
    BY <1>1, <1>4, <2>1, <2>2 DEF CallOK
<1>9. Prepared'
  BY <1>1 DEF Prepared
<1>10. Vectors'
  BY <1>1 DEF Vectors, Holds, Calling, Issuing
<1>11. ASSUME ~expired' PROVE Queues' /\ Effects' /\ Delivery'
  <2>1. Queues /\ Effects /\ Delivery
    BY <1>1, <1>11
  <2>2. /\ pc = "poll" /\ i = op.its /\ op \in Ops /\ setup = "done" /\ Calling
        /\ Executed \in 0 .. Len(Batch(op)) - 1 /\ c = Batch(op)[Executed + 1]
    BY <1>1, <2>1, NextCommand DEF c
  <2>3. Executed' = Executed + 1
    <3>1. Executed' = op.next - 1 - Len(queue'[i]) /\ Executed = op.next - 1 - Len(queue[i])
      BY <1>1, <2>2 DEF Executed
    <3>2. op.next \in Nat
      BY <2>2 DEF Ops
    <3> QED BY <1>2, <1>3, <1>4, <3>1, <3>2
  <2>4. Issuing /\ Issuing' /\ Calling'
    BY <1>1, <2>2 DEF Issuing, Calling
  <2>5. Queues'
    <3>1. \A j \in 1 .. Len(queue'[i]) : queue'[i][j] = Batch(op)[Executed' + j]
      <4> SUFFICES ASSUME NEW j \in 1 .. Len(queue'[i])
                   PROVE  queue'[i][j] = Batch(op)[Executed' + j]
        OBVIOUS
      <4>1. j \in 1 .. Len(queue[i]) - 1 /\ j + 1 \in 1 .. Len(queue[i])
        BY <1>2, <1>3, <1>4
      <4>2. queue'[i][j] = queue[i][j + 1]
        BY <1>3, <1>4, <4>1
      <4>3. queue[i][j + 1] = Batch(op)[Executed + (j + 1)]
        BY <2>1, <2>2, <2>4, <4>1 DEF Queues
      <4>4. Executed + (j + 1) = Executed' + j
        BY <2>2, <2>3, <4>1
      <4> QED BY <4>2, <4>3, <4>4
    <3>2. posted'[i] = Len(queue'[i])
      BY <1>3, <1>4, <2>1, <2>2 DEF Queues
    <3>3. Executed' >= 0
      BY <2>2, <2>3
    <3> QED
      BY <1>1, <1>4, <2>1, <2>2, <2>4, <3>1, <3>2, <3>3 DEF Queues
  <2>6. op.kind \in {"request", "free"} /\ op.its # Unknown
    BY <2>2, ItsNumbers DEF Ops
  <2>7. /\ op.kind = "request" =>
             /\ Executed \in 0 .. 4
             /\ Executed = 0 => c.cmd = "MAPD" /\ c.dev = op.dev /\ c.lpi = op.lpi
             /\ Executed = 1 => c.cmd = "MAPC" /\ c.dev = op.dev /\ c.lpi = op.lpi
             /\ Executed = 2 => c.cmd = "MAPI" /\ c.dev = op.dev /\ c.lpi = op.lpi
             /\ Executed = 3 => c.cmd = "INV" /\ c.dev = op.dev /\ c.lpi = op.lpi
             /\ Executed = 4 => c.cmd = "SYNC" /\ c.dev = op.dev /\ c.lpi = op.lpi
        /\ op.kind = "free" =>
             /\ Executed \in 0 .. 1
             /\ Executed = 0 => c.cmd = "DISCARD" /\ c.dev = op.dev /\ c.lpi = op.lpi
             /\ Executed = 1 => c.cmd = "SYNC" /\ c.dev = op.dev /\ c.lpi = op.lpi
    BY <2>2, BatchOf, CommandFields
  <2>8. \A k \in 1 .. 5 : (Did(k)' <=> Executed + 1 >= k) /\ (Did(k) <=> Executed >= k)
    BY <1>1, <2>2, <2>3, <2>4, <2>6 DEF Did
  <2>9. Effects'
    <3>1. CASE op.kind = "request"
      <4>1. itsOn[i] /\ rdOn /\ config[op.lpi] = "enabled"
        BY <2>1, <2>2, <3>1 DEF Effects
      <4>2. Did(1)' => op.dev \in devtab'[i]
        BY <1>6, <2>1, <2>2, <2>7, <2>8, <3>1 DEF Effects
      <4>3. Did(2)' => coll'[i]
        BY <1>6, <2>1, <2>2, <2>7, <2>8, <3>1 DEF Effects
      <4>4. Did(3)' => op.lpi \in itt'[i]
        BY <1>6, <2>1, <2>2, <2>7, <2>8, <3>1 DEF Effects
      <4>5. Did(4)' /\ op.lpi \notin inv' => cached[op.lpi] # "disabled"
        BY <1>6, <2>1, <2>2, <2>7, <2>8, <3>1 DEF Effects
      <4>6. Did(5)' => cached[op.lpi] # "disabled"
        BY <1>1, <2>1, <2>2, <2>7, <2>8, <3>1 DEF Effects
      <4> QED
        BY <1>1, <2>2, <2>4, <3>1, <4>1, <4>2, <4>3, <4>4, <4>5, <4>6 DEF Effects
    <3>2. CASE op.kind = "free"
      <4>1. op.lpi \notin itt'[i]
        BY <1>6, <2>1, <2>2, <2>7, <2>8, <3>2 DEF Effects
      <4> QED BY <1>1, <2>2, <3>2, <4>1 DEF Effects
    <3> QED BY <2>6, <3>1, <3>2
  <2>10. Delivery'
    <3>1. ASSUME NEW d \in Devs, msix[d] # Masked, ~(op.kind = "free" /\ op.dev = d)
          PROVE  Live(msix[d].its, d, msix[d].lpi)'
      <4>1. Live(msix[d].its, d, msix[d].lpi) /\ msix[d].its \in Its
        BY <2>1, <2>2, <3>1 DEF Delivery, TypeOK
      <4>2. op.kind = "free" => msix[d].lpi # op.lpi
        BY <2>2, <3>1 DEF Vectors, Holds, Ops
      <4>3. msix[d].lpi \in itt'[msix[d].its]
        BY <1>6, <2>6, <2>7, <4>1, <4>2 DEF Live
      <4> QED BY <1>1, <1>6, <4>1, <4>3 DEF Live
    <3>2. ASSUME NEW j \in Its, NEW l \in itt'[j]
          PROVE  l \in itt[j] \/ (op.kind = "request" /\ op.its = j /\ op.lpi = l)
      BY <1>6, <2>2, <2>6, <2>7, <3>2
    <3> QED
      BY <1>1, <2>1, <2>2, <2>4, <3>1, <3>2 DEF Delivery
  <2> QED BY <2>5, <2>9, <2>10
<1> QED BY <1>7, <1>8, <1>9, <1>10, <1>11

(* The ITS stalls on a command.                                            *)
LEMMA InvStall ==
  ASSUME ItsInv, NEW i \in Its, Stall(i) PROVE ItsInv'
<1> USE DEF ItsInv
<1>1. /\ UNCHANGED <<pc, idx, setup, regs, rdOn, itsOn, queue, posted, config, cached, inv>>
      /\ UNCHANGED <<devtab, coll, itt, msix, op, polls, expired, strayed>>
      /\ stalled' \in [Its -> BOOLEAN]
  BY DEF Stall, setupVars, queueVars, rdVars, itsVars, history, TypeOK
<1>2. TypeOK'
  BY <1>1 DEF TypeOK
<1>3. CallOK' /\ Prepared' /\ Vectors'
  BY <1>1 DEF CallOK, Prepared, Vectors, Holds, Calling, Issuing
<1>4. ~expired' => Queues' /\ Effects' /\ Delivery'
  BY <1>1 DEF Queues, Effects, Delivery, Live, Did, Executed, Calling, Issuing
<1> QED BY <1>2, <1>3, <1>4

(* The redistributor reads the configuration of an LPI.                    *)
LEMMA InvReadConfig ==
  ASSUME ItsInv, NEW l \in Lpis, ReadConfig(l) PROVE ItsInv'
<1> USE DEF ItsInv
<1>1. /\ UNCHANGED <<pc, idx, setup, regs, rdOn, itsOn, queue, posted, stalled, config, inv>>
      /\ UNCHANGED <<devtab, coll, itt, msix, op, polls, expired, strayed>>
      /\ cached' = [cached EXCEPT ![l] = config[l]] /\ rdOn
  BY DEF ReadConfig, setupVars, queueVars, itsVars, history
<1>2. /\ cached' \in [Lpis -> Configs \cup {"none"}]
      /\ \A k \in Lpis : cached'[k] = "disabled" => cached[k] = "disabled" \/ config[k] # "enabled"
  BY <1>1 DEF TypeOK, Configs
<1>3. TypeOK'
  BY <1>1, <1>2 DEF TypeOK
<1>4. CallOK' /\ Prepared' /\ Vectors'
  BY <1>1 DEF CallOK, Prepared, Vectors, Holds, Calling, Issuing
<1>5. (Calling' <=> Calling) /\ (Issuing' <=> Issuing) /\ Executed' = Executed
      /\ \A k : Did(k)' <=> Did(k)
  BY <1>1 DEF Calling, Issuing, Executed, Did
<1>6. ASSUME ~expired' PROVE Queues' /\ Effects' /\ Delivery'
  <2>1. Queues /\ Effects /\ Delivery /\ setup = "done"
    BY <1>1, <1>6 DEF Prepared
  <2>2. Queues'
    BY <1>1, <1>5, <2>1 DEF Queues
  <2>3. Calling => op.lpi \in Lpis
    BY DEF CallOK, Ops
  <2>4. Effects'
    BY <1>1, <1>2, <1>5, <2>1, <2>3 DEF Effects
  <2>5. \A d \in Devs : msix[d] # Masked => msix[d].lpi \in Lpis
    BY DEF TypeOK
  <2>6. Delivery'
    BY <1>1, <1>2, <1>5, <2>1, <2>5 DEF Delivery, Live
  <2> QED BY <2>2, <2>4, <2>6
<1> QED BY <1>3, <1>4, <1>6

(* An INV reaches the redistributor.                                       *)
LEMMA InvInvalidate ==
  ASSUME ItsInv, NEW l \in Lpis, Invalidate(l) PROVE ItsInv'
<1> USE DEF ItsInv
<1>1. /\ UNCHANGED <<pc, idx, setup, regs, rdOn, itsOn, queue, posted, stalled, config>>
      /\ UNCHANGED <<devtab, coll, itt, msix, op, polls, expired, strayed>>
      /\ cached' = [cached EXCEPT ![l] = "none"] /\ inv' = inv \ {l}
  BY DEF Invalidate, setupVars, queueVars, itsVars, history
<1>2. /\ cached' \in [Lpis -> Configs \cup {"none"}]
      /\ \A k \in Lpis : cached'[k] = "disabled" => cached[k] = "disabled" /\ (k \in inv' <=> k \in inv)
  BY <1>1 DEF TypeOK
<1>3. TypeOK'
  BY <1>1, <1>2 DEF TypeOK
<1>4. CallOK' /\ Prepared' /\ Vectors'
  BY <1>1 DEF CallOK, Prepared, Vectors, Holds, Calling, Issuing
<1>5. (Calling' <=> Calling) /\ (Issuing' <=> Issuing) /\ Executed' = Executed
      /\ \A k : Did(k)' <=> Did(k)
  BY <1>1 DEF Calling, Issuing, Executed, Did
<1>6. ASSUME ~expired' PROVE Queues' /\ Effects' /\ Delivery'
  <2>1. Queues /\ Effects /\ Delivery
    BY <1>1, <1>6
  <2>2. Queues'
    BY <1>1, <1>5, <2>1 DEF Queues
  <2>3. Calling => op.lpi \in Lpis
    BY DEF CallOK, Ops
  <2>4. Effects'
    BY <1>1, <1>2, <1>5, <2>1, <2>3 DEF Effects
  <2>5. \A d \in Devs : msix[d] # Masked => msix[d].lpi \in Lpis
    BY DEF TypeOK
  <2>6. Delivery'
    BY <1>1, <1>2, <1>5, <2>1, <2>5 DEF Delivery, Live
  <2> QED BY <2>2, <2>4, <2>6
<1> QED BY <1>3, <1>4, <1>6

(* A step that changes nothing.                                            *)
LEMMA InvStutter ==
  ASSUME ItsInv, UNCHANGED vars PROVE ItsInv'
<1> USE DEF ItsInv
<1>1. /\ UNCHANGED <<pc, idx, setup, regs, rdOn, itsOn, queue, posted, stalled, config, cached, inv>>
      /\ UNCHANGED <<devtab, coll, itt, msix, op, polls, expired, strayed>>
  BY DEF vars, setupVars, queueVars, rdVars, itsVars, history
<1>2. TypeOK'
  BY <1>1 DEF TypeOK
<1>3. CallOK' /\ Prepared' /\ Vectors'
  BY <1>1 DEF CallOK, Prepared, Vectors, Holds, Calling, Issuing
<1>4. ~expired' => Queues' /\ Effects' /\ Delivery'
  BY <1>1 DEF Queues, Effects, Delivery, Live, Did, Executed, Calling, Issuing
<1> QED BY <1>2, <1>3, <1>4

(* Nothing is mapped before the set up.                                    *)
LEMMA InitItsInv ==
  ASSUME Init PROVE ItsInv
<1>1. 0 \in Its /\ 0 \in 0 .. PollLimit
  BY ItsAssumption, ItsNumbers
<1>2. ~Calling /\ ~Issuing
  BY DEF Init, Calling, Issuing
<1>3. queue \in [Its -> Seq(Commands)] /\ \A i \in Its : queue[i] = <<>> /\ Len(queue[i]) = 0
  BY DEF Init
<1>4. TypeOK
  <2>1. \A i \in Its : posted[i] \in 0 .. Len(queue[i]) /\ Len(queue[i]) <= MaxCommands
    BY <1>3, ItsAssumption DEF Init
  <2>2. rdOn \in BOOLEAN /\ expired \in BOOLEAN
    BY Zenon DEF Init
  <2>3. itsOn \in [Its -> BOOLEAN] /\ stalled \in [Its -> BOOLEAN] /\ coll \in [Its -> BOOLEAN]
    BY DEF Init
  <2> QED
    BY <1>1, <2>1, <2>2, <2>3 DEF Init, TypeOK, Configs
<1>5. CallOK
  BY <1>2, <1>3 DEF Init, CallOK
<1>6. Prepared /\ Vectors
  BY <1>2 DEF Init, Prepared, Vectors
<1>7. Queues /\ Effects /\ Delivery
  BY <1>2, <1>3 DEF Init, Queues, Effects, Delivery
<1> QED BY <1>4, <1>5, <1>6, <1>7 DEF ItsInv

----------------------------------------------------------------------------
(* The results.                                                            *)

(* The inductive invariant holds in every state: tables are programmed     *)
(* before anything is enabled, one device holds an LPI, and as long as no  *)
(* poll was given up the commands executed are a prefix of the call's and  *)
(* have had their effect.                                                  *)
THEOREM ItsInvariant == Spec => []ItsInv
<1>1. Init => ItsInv
  BY InitItsInv
<1>2. ItsInv /\ [Next]_vars => ItsInv'
  BY InvSetup, InvRequestMsi, InvFreeMsi, InvWriteCommand, InvWriteCwriter, InvPoll, InvWriteMsix,
     InvExecute, InvStall, InvReadConfig, InvInvalidate, InvStutter DEF Next, Call
<1> QED BY <1>1, <1>2, PTL DEF Spec

(* Redistributor and ITS are enabled only when their tables are in place,  *)
(* wherever the set up has failed.                                         *)
THEOREM TablesFirst == Spec => []TablesBeforeEnable
<1>1. ItsInv => TablesBeforeEnable
  <2> SUFFICES ASSUME ItsInv PROVE TablesBeforeEnable
    OBVIOUS
  <2>1. rdOn \/ (\E i \in Its : itsOn[i]) => Regs \subseteq regs
    BY DEF ItsInv, Prepared
  <2>2. /\ {<<"PROPBASER">>, <<"PENDBASER">>} \subseteq Regs
        /\ \A i \in Its : {<<"CBASER", i>>, <<"BASER", i>>} \subseteq Regs
    BY DEF Regs
  <2> QED BY <2>1, <2>2 DEF TablesBeforeEnable
<1> QED BY <1>1, ItsInvariant, PTL

(* Every vector that val_gic_request_msi has programmed is delivered       *)
(* between the calls, as long as no poll of the queue was given up.        *)
THEOREM RequestedAreDelivered == Spec => []RequestedDelivered
<1>1. ItsInv => RequestedDelivered
  <2> SUFFICES ASSUME ItsInv, pc = "idle", setup = "done", ~expired,
                      NEW d \in Devs, msix[d] # Masked
               PROVE  Delivers(msix[d].its, d, msix[d].lpi)
    BY DEF RequestedDelivered
  <2>1. ~Calling
    BY DEF Calling, Issuing
  <2>2. Live(msix[d].its, d, msix[d].lpi)
    BY <2>1 DEF ItsInv, Delivery
  <2>3. cached[msix[d].lpi] \in {"enabled", "disabled", "none"}
    BY DEF ItsInv, TypeOK, Configs
  <2> QED BY <2>2, <2>3 DEF Live, Delivers
<1> QED BY <1>1, ItsInvariant, PTL

(* An LPI that no device holds is delivered for none, as long as no poll   *)
(* was given up and val_gic_free_msi went to the ITS of the request.       *)
THEOREM FreedAreSilent == Spec => []FreedSilent
<1>1. ItsInv => FreedSilent
  <2> SUFFICES ASSUME ItsInv, pc = "idle", ~expired, NEW l \in Lpis \ strayed,
                      \A d \in Devs : ~Holds(d, l),
                      NEW i \in Its, l \in itt[i]
               PROVE  FALSE
    BY DEF FreedSilent, Delivers
  <2>1. ~Calling
    BY DEF Calling, Issuing
  <2>2. \E d \in Devs : msix[d] = Vector(i, l)
    BY <2>1 DEF ItsInv, Delivery
  <2> QED BY <2>2, VectorNotMasked DEF Holds
<1> QED BY <1>1, ItsInvariant, PTL
=============================================================================
