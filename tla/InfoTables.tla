---------------------------- MODULE InfoTables -----------------------------
(***************************************************************************)
(* The information tables of a run of the suite, made one after the other  *)
(* in the order of ShellAppMainbsa, and the tests that use them: each      *)
(* function createXInfoTable is an action that builds its table from the   *)
(* platform's firmware, and the invariants compare what the tests will     *)
(* read from the tables with the hardware that the firmware describes.     *)
(*                                                                         *)
(* A platform is [time, iovirt, cpu, dev, pcie, tested]; time, cpu and     *)
(* pcie hold the hardware (hw) beside the description of it.  The device   *)
(* tree of `iovirt` and the PCI handles of `dev` are their own description *)
(* of the hardware.                                                        *)
(***************************************************************************)
EXTENDS Firmware, PcieRegs

CONSTANT Platforms

VARIABLES fw,      \* the platform
          tables   \* tables[t]: the information table t, or NotYet

vars == <<fw, tables, regs, call, events>>

NotYet == [made |-> FALSE]
Order  == <<"pe", "gic", "timer", "wd", "pcie", "iovirt", "peripheral", "memory", "exerciser">>
Made(t) == tables[t] # NotYet

(* The tables are made in this order: a table is made when the one before    *)
(* it is.                                                                    *)
Turn(t) ==
  LET k == CHOOSE k \in DOMAIN Order : Order[k] = t
  IN  ~Made(t) /\ (k > 1 => Made(Order[k - 1]))

Make(t, content) ==
  /\ Turn(t)
  /\ tables' = [tables EXCEPT ![t] = [made |-> TRUE, is |-> content]]
  /\ UNCHANGED <<fw, regs, call, events>>

Init ==
  /\ fw \in Platforms
  /\ tables = [t \in {Order[k] : k \in DOMAIN Order} |-> NotYet]
  /\ RegsInit

CreatePe         == Make("pe", PeTable(fw.cpu))
CreateGic        == Make("gic", GicTable(fw.cpu))
CreateTimer      == Make("timer", TimerTable(fw.time))
CreateWatchdog   == Make("wd", WdTable(fw.time))
CreateIovirt     == Make("iovirt", IovirtTable(fw.iovirt))
CreatePeripheral == Make("peripheral", PeripheralTable(fw.dev))
CreateMemory     == Make("memory", MemoryTable(fw.dev))

(* val_pcie_create_info_table: ECAM regions, then the numbers of the buses,  *)
(* then the functions.  Where the platform does not ask for an enumeration   *)
(* firmware has numbered the buses, in the same way.                         *)
CreatePcie ==
  LET ecams == Ecams(fw.pcie)
      first == Functions(fw.pcie.root, 0, Enumerate(fw.pcie.root).out, <<>>)
      other == Functions(fw.pcie.second, 0, Enumerate(fw.pcie.second).out, <<>>)
      hw    == IF Len(ecams) > 1 THEN HwOf(first, ecams[1].base) @@ HwOf(other, ecams[2].base)
               ELSE IF Len(ecams) = 1 THEN HwOf(first, ecams[1].base) ELSE <<>>
      p     == [ecams |-> ecams, hw |-> hw]
  IN  Make("pcie", [p |-> p, functions |-> first, table |-> BdfTable(p)])

(* val_exerciser_create_info_table, at the start of the exerciser tests. *)
CreateExerciser ==
  Make("exerciser", LET t == tables["pcie"].is IN Exercisers(t.p, t.table))

-----------------------------------------------------------------------------
(* val_pcie_disable_eru as the register of a function sees it: the command   *)
(* register and device control are written as a whole, without the bits      *)
(* eru[1] and with what was read for the other bits.  Any other register     *)
(* (eru = <<>>) is left alone.                                               *)
AfterEru(hw, v, eru) == IF eru = <<>> THEN v ELSE WriteReg(hw, v, v \ eru[1])

(* val_pcie_register_bitfields_check: the number of failures over the        *)
(* functions of a port type that a check is for, or a skip.  Error reporting *)
(* is switched off in every function first, also in one that no check is     *)
(* for; the checks of a function meet the register as that and the checks    *)
(* before have left it.                                                      *)
RegisterBitfieldsCheck(p, table, hw, v, eru, entries) ==
  LET check(acc, e) ==
        LET r == BitfieldCheck(hw, acc.reg, e.entry)
        IN  [reg |-> r.reg, runs |-> acc.runs + 1,
             fails |-> acc.fails + (IF r.ret = 0 THEN 0 ELSE 1)]
      function(acc, row) ==
        LET mine == SelectSeq(entries, LAMBDA e : DevicePortType(p, row.bdf) \in e.ports)
        IN  FoldLeft(check, [acc EXCEPT !.reg = AfterEru(hw, v, eru)], mine)
      all == FoldLeft(function, [reg |-> v, runs |-> 0, fails |-> 0], table.entries)
  IN  IF all.runs = 0 THEN [ret |-> "skip", fails |-> 0]
      ELSE [ret |-> "done", fails |-> all.fails]

-----------------------------------------------------------------------------
(* PCIe tests change the registers of a function once the tables are made,   *)
(* while the hardware records errors.                                        *)
Testing == fw.tested /\ Made("exerciser")

Test(step) == Testing /\ step /\ UNCHANGED <<fw, tables>>

TestCalls(h) == Test(Begin(h))
TestReads    == Test(ReadWord)
TestWrites   == Test(WriteWord)
TestError    == Test(HwError)

Next ==
  \/ CreatePe \/ CreateGic \/ CreateTimer \/ CreateWatchdog \/ CreatePcie
  \/ CreateIovirt \/ CreatePeripheral \/ CreateMemory \/ CreateExerciser
  \/ (\E h \in Helpers : TestCalls(h)) \/ TestReads \/ TestWrites \/ TestError

Spec == Init /\ [][Next]_vars

-----------------------------------------------------------------------------
The(t) == tables[t].is

(* The frames of all blocks in order.  For the first frame of a block behind *)
(* the first, val_platform_timer_get_entry_index stops one too early: at the *)
(* block before, one behind its last frame.  What it reads there is no timer *)
(* (missed), and no property is stated of it.                                *)
HwFrames(h) ==
  FlattenSeq([b \in DOMAIN h.blocks |->
    [k \in DOMAIN h.blocks[b].frames |->
       [cntl |-> h.blocks[b].cntl, frame |-> h.blocks[b].frames[k], missed |-> b > 1 /\ k = 1]]])

TimersFound(h, t) ==
  /\ t.header.num = Len(HwFrames(h))
  /\ \A i \in 1 .. 4 : t.header.gsiv[Private[i]] = h.gsiv[Private[i]]
  /\ \A i \in 0 .. t.header.num - 1 :
       LET f == HwFrames(h)[i + 1]
       IN  f.missed \/ TimerInfo(t, i) = [cntl |-> f.cntl, frame |-> f.frame]

(* The nodes behind the first are read from a wrong cell when an interrupt   *)
(* has more than one cell.                                                   *)
WatchdogsFound(h, t) ==
  /\ t.num = Len(h.wds)
  /\ \A k \in 0 .. t.num - 1 : (k = 0 \/ fw.time.wdCells <= 1) => WdGet(t, k) = h.wds[k + 1]

(* What val_wd_set_ws0 computes, counter_freq * timeout, is not cut when it  *)
(* is written.  With a base above one word the revision that decides this is *)
(* not the watchdog's, and the upper word may be lost.                       *)
WatchdogsWhole(t) ==
  \A k \in 0 .. t.num - 1, timeout \in {1, 3}, freq \in {2, 5, 8}, rev \in {0, 1}, other \in 0 .. 2 :
    LET r == WdSetWs0(t, k, timeout, freq, rev, other)
    IN  r.ret = 0 /\ ~BaseCut(WdGet(t, k).ctrl) => r.armed /\ r.wor = freq * timeout

(* Whether firmware lists them in a GTDT or in a device tree, a test that    *)
(* asks val_timer_get_info for a memory mapped timer, or val_wd_get_info for *)
(* a watchdog, gets the frame, interrupts and registers of that timer or     *)
(* watchdog, at both ends of the first block and behind the first frame of   *)
(* every later block (that frame is not found), and for every watchdog of a  *)
(* GTDT and the first of a device tree.  Where val_wd_set_ws0 succeeds for a *)
(* watchdog below 4 GB no part of the count that it computes is lost; in     *)
(* which unit the timeout is, which its comment and its callers see          *)
(* differently, is not judged.                                               *)
TimeTables ==
  /\ Made("timer") => TimersFound(fw.time.hw, The("timer"))
  /\ Made("wd") => WatchdogsFound(fw.time.hw, The("wd")) /\ WatchdogsWhole(The("wd"))

-----------------------------------------------------------------------------
(* The PEs a table without gaps describes: indexes and MPIDRs go into each   *)
(* other, and the stack that ends at CorePos belongs to one PE and lies in   *)
(* the allocation.  The PE at position 0 would have its stack in front of    *)
(* the allocation: the suite takes it for the primary PE, which has its own. *)
PesFound(h, t) ==
  /\ t.num = Len(h.pes)
  /\ \A i \in 0 .. t.num - 1 : IndexMpid(t, MpidIndex(t, i)) = i
  /\ \A p \in DOMAIN h.pes : t.pes[p].mpidr = h.pes[p].mpidr
  /\ t.stacks
  /\ \A p, q \in DOMAIN h.pes :
       LET pos(i) == CorePos(t.max, t.pes[i].mpidr)
       IN  pos(p) < NumSlots(t.max) /\ (p # q => pos(p) # pos(q))

(* The loop over the strings of pmu_dt_arr goes on at the string whose place *)
(* is the number of interrupts.                                              *)
PmusFound(h, t) ==
  (fw.cpu.pmuPlace <= Len(h.pes) \/ \A p, q \in DOMAIN h.pes : h.pes[p].pmu = h.pes[q].pmu) =>
    t.extra = 0 /\ \A p \in DOMAIN h.pes : t.pes[p].pmu = h.pes[p].pmu

(* The build for device trees takes no GICH and no MSI frames from a MADT. *)
ReadsAll == fw.cpu.build = "acpi" \/ fw.cpu.madt = <<>>

GicFound(h, t) ==
  /\ t.ended /\ t.version = h.version
  /\ GicdBase(t) = h.gicd
  /\ GicrBase(t) = (IF h.rds = <<>> THEN 0 ELSE h.rds[1])
  /\ t.rd = Len(h.rds)
  /\ fw.cpu.garbage = 0 => CpuifBase(t) = h.cpuif
  /\ fw.cpu.garbage = 0 /\ ReadsAll => GichBase(t) = h.gich
  /\ \A k \in DOMAIN h.its : fw.cpu.madt # <<>> => GetItsIndex(ItsInfo(t), h.its[k].id) = k - 1
  /\ LET info == V2mInfo(t, [b \in {f.base : f \in Range(h.v2m)} |->
                               [spi_base |-> 40, spi_count |-> 4]])
     IN  ReadsAll =>
         /\ Len(info) = Len(h.v2m)
         /\ \A k \in DOMAIN h.v2m : /\ info[k].base = h.v2m[k].base
                                    /\ info[k].spi_base # 0 /\ info[k].spi_count # 0

(* Whether firmware lists them in a MADT or in a device tree, and in either  *)
(* build: every PE has its index, its MPIDR, its PMU interrupt and a stack   *)
(* of its own once the other PEs are switched on, and the GIC driver gets    *)
(* the registers of the distributor, the redistributors, the CPU interface   *)
(* and the ITSs; GICH and the MSI frames too, but not from a MADT in the     *)
(* build for device trees, which does not read them there.                   *)
PeTables ==
  /\ Made("pe") => PesFound(fw.cpu.hw, The("pe")) /\ PmusFound(fw.cpu.hw, The("pe"))
  /\ Made("gic") => GicFound(fw.cpu.hw, The("gic"))

-----------------------------------------------------------------------------
(* What the nodes of an IORT say of a requester ID, read off the nodes       *)
(* themselves: a mapping of the root complex that holds it, and behind an    *)
(* SMMU a mapping of that.  Each pair of mappings that holds it gives an     *)
(* answer; -1 is no ID.                                                      *)
MapsFor(iort, n, id) == {m \in Range(iort.nodes[n].maps) : id \in m.base .. m.base + m.count}
NoIds == <<-1, -1, -1>>

AnswersOf(iort, m, rid) ==
  LET id == rid - m.base + m.out
      to == iort.nodes[m.ref]
  IN  IF to.type = "its" THEN {<<id, -1, to.data.ids[1]>>}
      ELSE IF MapsFor(iort, m.ref, id) = {} THEN {NoIds}
      ELSE {<<id - s.base + s.out, id, iort.nodes[s.ref].data.ids[1]>> :
              s \in MapsFor(iort, m.ref, id)}

RefDevices(iort, rid, segment) ==
  LET rc   == {n \in DOMAIN iort.nodes : /\ iort.nodes[n].type = "rc"
                                         /\ iort.nodes[n].data.segment = segment}
      maps == UNION {MapsFor(iort, n, rid) : n \in rc}
  IN  IF maps = {} THEN {NoIds} ELSE UNION {AnswersOf(iort, m, rid) : m \in maps}

(* The tables of nodes that pal_iovirt_create_info_table lays out as they    *)
(* are: a PMCG comes behind the SMMU it refers to.  A root complex would get *)
(* a second block, for its first one has been told its SMMU meanwhile, and   *)
(* the PMCG is then taken for one that was there before.                     *)
Straight(iort) ==
  \A n \in DOMAIN iort.nodes :
    iort.nodes[n].type = "pmcg" =>
      iort.nodes[n].ref < n /\ iort.nodes[iort.nodes[n].ref].type \in Smmus

(* Every node comes behind the nodes its mappings refer to.  Otherwise the   *)
(* search for a block that is there already misses some, and a node may have *)
(* two blocks.                                                               *)
Backward(iort) ==
  \A n \in DOMAIN iort.nodes : \A m \in Range(iort.nodes[n].maps) : m.ref < n

NodesOf(iort, types) == SelectSeq(iort.nodes, LAMBDA n : n.type \in types)

DevicesFound(iort, t) ==
  \A rid \in 0 .. 8, segment \in 0 .. 3 :
    LET info == GetDeviceInfo(t, rid, segment)
    IN  (IF info.status = "ok" THEN <<info.did, info.sid, info.its>> ELSE NoIds)
          \in RefDevices(iort, rid, segment)

NodesFound(iort, t) ==
  /\ \A type \in DOMAIN t.count :
       t.count[type] = Len(SelectSeq(iort.nodes, LAMBDA n : CountedAs(n.type) = type))
  /\ \A k \in DOMAIN NodesOf(iort, Smmus) :
       LET node == NodesOf(iort, Smmus)[k]
       IN  /\ SmmuInfo(t, k - 1) = [rev  |-> IF node.type = "smmuv3" THEN 3 ELSE 2,
                                     base |-> node.data.base]
           /\ UniqueCtxIntid(t, k - 1) <=> (node.type = "smmu" => IsInjective(node.ctx))
  /\ \A k \in DOMAIN NodesOf(iort, {"rc"}) :
       LET node == NodesOf(iort, {"rc"})[k]
       IN  [PcieRcInfo(t, k - 1) EXCEPT !.smmu_base = 0] = node.data

(* Stream IDs that two mappings of root complexes give to one SMMU.  The     *)
(* check does not see an overlap in the last ID of a range.                  *)
Ids(m, less) == m.out .. m.out + m.count - less
StreamMaps(iort) ==
  {<<n, k>> \in (DOMAIN iort.nodes) \X (1 .. 2) :
     /\ iort.nodes[n].type = "rc" /\ k \in DOMAIN iort.nodes[n].maps
     /\ iort.nodes[iort.nodes[n].maps[k].ref].type \in Smmus}
Shared(iort, n, less) ==
  \E x, y \in StreamMaps(iort) :
    LET map(z) == iort.nodes[z[1]].maps[z[2]]
    IN  /\ x # y /\ n \in {x[1], y[1]} /\ map(x).ref = map(y).ref
        /\ Ids(map(x), less) \cap Ids(map(y), less) # {}

(* A mapping of one ID to 0 seems to end at the largest ID. *)
SingleZero(iort) ==
  \E x \in StreamMaps(iort) : LET m == iort.nodes[x[1]].maps[x[2]] IN m.count = 0 /\ m.out = 0

(* The words behind a block pass for a mapping to an SMMU. *)
BehindMaps(iort) == iort.behind.ref # 0

OverlapsFound(iort, t) ==
  LET rcs == SelectSeq([n \in DOMAIN iort.nodes |-> n], LAMBDA n : iort.nodes[n].type = "rc")
  IN  \A k \in DOMAIN rcs :
        /\ Shared(iort, rcs[k], 1) => ~UniqueRidStridMap(t, k - 1)
        /\ ~UniqueRidStridMap(t, k - 1) =>
             Shared(iort, rcs[k], 0) \/ SingleZero(iort) \/ BehindMaps(iort)

(* No other block has the number of this segment in its first word. *)
SegmentPlain(iort, segment) ==
  \A n \in DOMAIN iort.nodes :
    LET node == iort.nodes[n]
    IN  node.type # "rc" => FirstWord(Block(node, BlockData(node))) # segment

(* The SMMU that a root complex is behind: the one its last mapping goes to. *)
RcSmmusFound(iort, t) ==
  \A n \in DOMAIN iort.nodes :
    iort.nodes[n].type = "rc" /\ iort.nodes[n].maps # <<>>
      /\ SegmentPlain(iort, iort.nodes[n].data.segment) =>
      LET to    == iort.nodes[Last(iort.nodes[n].maps).ref]
          index == RcSmmuIndex(t, iort.nodes[n].data.segment)
      IN  IF to.type \in Smmus THEN index >= 0 /\ SmmuInfo(t, index).base = to.data.base
          ELSE index = -1

(* val_iovirt_get_device_info finds a device ID, stream ID and ITS that one  *)
(* chain of mappings of the IORT gives a requester ID, never a mixture of    *)
(* two, at both ends of each range, for ranges that overlap and in whatever  *)
(* order the nodes are listed; nodes that refer only to nodes before them    *)
(* get one block each, which the readers count and find, and the SMMU of a   *)
(* root complex is found by its segment unless another block has that number *)
(* in its first word.                                                        *)
(*                                                                           *)
(* val_iovirt_unique_rid_strid_map denies that stream IDs are unique         *)
(* whenever mappings of two root complexes, or of one, share a stream ID     *)
(* that is not the last of a range.  That check_mapping_overlap finds any    *)
(* overlap, as its comment has it, does not hold and is not claimed: one in  *)
(* the last ID of a range is missed.  Without an overlap it denies it only   *)
(* for a mapping of a single ID to 0, or for what lies behind the mappings.  *)
IdTables ==
  Made("iovirt") =>
    LET iort == fw.iovirt.iort
        t    == The("iovirt")
    IN  IF iort.nodes # <<>>
        THEN Straight(iort) =>
               /\ DevicesFound(iort, t)
               /\ Backward(iort) => /\ NodesFound(iort, t) /\ OverlapsFound(iort, t)
                                    /\ RcSmmusFound(iort, t)
        ELSE /\ t.count["smmu"] = Len(fw.iovirt.smmus)
             /\ \A k \in DOMAIN fw.iovirt.smmus :
                  SmmuInfo(t, k - 1).base = fw.iovirt.smmus[k]

-----------------------------------------------------------------------------
(* The controllers of a class on the first bus that has any; behind it,      *)
(* controllers with lower device numbers than the last one are not found.    *)
FirstBus(pci, class) ==
  LET buses == {h.bus : h \in {h \in Range(pci) : h.class = class}}
      first == CHOOSE b \in buses : \A c \in buses : b <= c
  IN  {h \in Range(pci) : h.class = class /\ h.bus = first}

(* A controller whose BDF is 0 is taken for the end of the search, and behind *)
(* one at the last device of the last bus the search starts again.            *)
AtEnds(pci, class) ==
  \E h \in Range(pci) : h.class = class /\ <<h.bus, h.dev>> \in {<<0, 0>>, <<MaxBus, MaxDev>>}

ControllersFound(pci, t, class) ==
  LET rows == SelectSeq(t.info, LAMBDA e : e.type = class)
      real == {h \in Range(pci) : h.class = class}
  IN  real # {} /\ ~AtEnds(pci, class) =>
        /\ \A e \in Range(rows) : \E h \in real : e.bdf = <<h.bus, h.dev>> /\ e.base0 = h.bar0
        /\ \A i, j \in DOMAIN rows : i # j => rows[i].bdf # rows[j].bdf
        /\ \A h \in FirstBus(pci, class) : \E e \in Range(rows) : e.bdf = <<h.bus, h.dev>>

InstancesFound(t) ==
  \A type \in {"usb", "sata", "uart"} :
    LET rows == SelectSeq(t.info, LAMBDA e : e.type = type)
    IN  /\ t.num[type] = Len(rows)
        /\ \A i \in 0 .. t.num[type] - 1 :
             PeripheralInfo(t, type, "base0", i) = rows[i + 1].base0
        /\ PeripheralIndex(t, type, t.num[type]) = NotFound

(* The UART of the console, described by the SPCR or the device tree. *)
UartFound(t) ==
  fw.dev.uart # <<>> =>
    \E e \in Range(t.info) : /\ e.type = "uart" /\ e.base0 = fw.dev.uart[1].base
                             /\ e.irq = fw.dev.uart[1].gsiv

Holds(r, addr) == addr \in r.start .. r.start + r.pages - 1

MemoryFound(map, t) ==
  LET end == {0} \cup {r.start + r.pages : r \in Range(map)}
      top == CHOOSE e \in end : \A f \in end : f <= e
      gap == \A k \in DOMAIN map : map[k].start > (IF k = 1 THEN 0 ELSE map[k - 1].start + map[k - 1].pages)
  IN  /\ \A addr \in 0 .. top :
           LET in == {k \in DOMAIN map : Holds(map[k], addr)}
           IN  MemoryInfo(t, addr) = IF in = {} THEN "not_populated"
                                     ELSE t.info[CHOOSE k \in in : TRUE].type
      /\ \A i \in 0 .. Len(map) :
           LET a == MemoryAddr(t, "normal", i)
           IN  MemoryIndex(t, "normal", i) # NotFound =>
                 \E r \in Range(map) : IsNormalMemory(r.type) /\ r.start = a
      /\ gap => MaxMemory(t) = top

(* The tests never use an unpopulated address that memory answers at. *)
HolesFound(gcd) ==
  \A i \in 0 .. Len(gcd) :
    LET a == UnpopulatedAddr(gcd, i)
    IN  a # -1 => \E r \in Range(gcd) : ~r.exists /\ r.base = a

(* The walk over bus and device numbers lists each USB and SATA controller   *)
(* at most once and no other device, and all of those on the first bus that  *)
(* has any; an instance number finds its row and nothing behind the last;    *)
(* and an address is of the type of the memory region that holds it.         *)
DeviceTables ==
  /\ Made("peripheral") =>
       /\ \A class \in {"usb", "sata"} : ControllersFound(fw.dev.pci, The("peripheral"), class)
       /\ InstancesFound(The("peripheral"))
       /\ UartFound(The("peripheral"))
  /\ Made("memory") => MemoryFound(fw.dev.memmap.regions, The("memory")) /\ HolesFound(fw.dev.gcd)

-----------------------------------------------------------------------------
(* All bridges of an enumeration, and where a configuration cycle for a bus  *)
(* goes: on each bus to the bridges whose range holds it.                    *)
RECURSIVE Bridges(_), Routed(_, _)

Bridges(numbered) == Range(numbered) \cup UNION {Bridges(b.below) : b \in Range(numbered)}

Routed(numbered, bus) ==
  UNION {IF b.sec = bus THEN {b} ELSE Routed(b.below, bus) :
           b \in {b \in Range(numbered) : bus \in b.sec .. b.sub}}

(* pcie_enumerate_device gives every bridge a secondary bus of its own, and  *)
(* ranges such that a configuration cycle for that bus reaches this bridge   *)
(* and no other, whatever the order of endpoints and bridges on a bus, as    *)
(* long as there are numbers for all of them.                                *)
BusNumbers ==
  Made("pcie") =>
    LET numbered == Enumerate(fw.pcie.root).out
    IN  Cardinality(Bridges(numbered)) < MaxBuses =>
          \A b \in Bridges(numbered) : /\ b.pri < b.sec /\ b.sec <= b.sub
                                       /\ b.sub < MaxBuses
                                       /\ Routed(numbered, b.sec) = {b}

(* The functions of the first region as a table should list them.  The one   *)
(* at function 0 decides whether the others of the device are looked at.     *)
Listed(x) ==
  /\ ~x.node.hb /\ x.node.pcie
  /\ x.at[2] = 0 \/ \E y \in The("pcie").functions : y.bus = x.bus /\ y.at = <<x.at[1], 0>>

BdfOf(x) == <<0, x.bus>> \o x.at
OneRegion == Len(Ecams(fw.pcie)) = 1 /\ Ecams(fw.pcie)[1].base # 0

(* No byte of a BAR looks like the number of a bus. *)
QuietBars == \A x \in The("pcie").functions : x.node.hdr = 0 => x.f.sec > x.f.sub

FunctionsFound(t) ==
  LET listed == {x \in t.functions : Listed(x)}
      rows   == SelectSeq(t.table.entries, LAMBDA e : e.bdf[1] = 0)
  IN  /\ {e.bdf : e \in Range(rows)} = {BdfOf(x) : x \in listed}
      /\ Len(rows) = Cardinality(listed)
      /\ OneRegion =>
           \A type \in {"EP", "RP", "RCiEP"} :
             DeviceCounts(t.p, t.table)[type] =
               Cardinality({x \in listed : x.node.port = type})

(* The root port above each function, and what is right below a root port. *)
RootPortsFound(t) ==
  \A x \in {x \in t.functions : Listed(x)} :
    LET row == CHOOSE e \in Range(t.table.entries) : e.bdf = BdfOf(x)
        dsf == DownstreamFunction(t.p, t.table, BdfOf(x))
        up  == ParentIsRootport(t.p, t.table, BdfOf(x))
    IN  /\ row.rp = IF x.node.port = "RCiEP" THEN AllOnes ELSE <<0>> \o x.rp
        /\ GetEcamBase(t.p, BdfOf(x)) = t.p.ecams[1].base
        /\ x.node.port = "RP" /\ dsf.ret = 0 =>
             \E y \in t.functions : BdfOf(y) = dsf.dsf /\ y.rp = <<x.bus>> \o x.at
        /\ up.ret = 0 => up.rp = row.rp
        /\ GetMmioBar(t.p, BdfOf(x)) = x.node.mmio

(* Checks of different fields do not disturb each other: the failures that   *)
(* are counted over the functions are those each check would find alone once *)
(* error reporting is off, and without a function to check the outcome is a  *)
(* skip.                                                                     *)
FailuresAdd(t, hw, v, eru, one, two) ==
  LET alone(e) == IF BitfieldCheck(hw, AfterEru(hw, v, eru), e.entry).ret = 0 THEN 0
                  ELSE Len(SelectSeq(t.table.entries,
                                     LAMBDA row : DevicePortType(t.p, row.bdf) \in e.ports))
  IN  RegisterBitfieldsCheck(t.p, t.table, hw, v, eru, <<one, two>>) =
        IF \E row \in Range(t.table.entries) :
             DevicePortType(t.p, row.bdf) \in one.ports \cup two.ports
        THEN [ret |-> "done", fails |-> alone(one) + alone(two)]
        ELSE [ret |-> "skip", fails |-> 0]

FailuresCounted(t) ==
  \A hw \in [Bits -> Kinds], v \in SUBSET Bits, attr, other \in Attrs, at \in Ats,
     eru \in {<<>>, <<{}>>, <<{0}>>}, ports \in {{"EP", "RP"}, {"EP"}, {"RCEC"}} :
    FailuresAdd(t, hw, v, eru,
                [entry |-> Field({0}, {0}, attr, {}), ports |-> ports],
                [entry |-> FieldAt(at, Bits \ {0}, {}, other, {}), ports |-> {"RCEC"} \cup ports])

(* The table of PCIe functions holds each function that answers once, and    *)
(* where there is one region and no BAR looks like bus numbers, every        *)
(* function has the root port above it, val_pcie_get_downstream_function     *)
(* stays below that port, val_pcie_get_mmio_bar finds the memory of the      *)
(* function, and the exercisers are exactly the functions that are one.      *)
(* val_pcie_register_bitfields_check counts the failures over that table.    *)
PcieTables ==
  LET t == The("pcie")
  IN  /\ Made("pcie") =>
           /\ t.table.ret = 0 => FunctionsFound(t)
           /\ OneRegion /\ QuietBars =>
                t.table.ret = 0 /\ RootPortsFound(t)
      /\ Made("exerciser") /\ t.table.ret = 0 /\ OneRegion =>
           /\ Range(The("exerciser")) =
                {BdfOf(x) : x \in {x \in t.functions : Listed(x) /\ x.node.exerciser}}
           /\ IsInjective(The("exerciser"))
      /\ Testing /\ RegsInit => FailuresCounted(t)

(* "Returns BDF of the upstream Root Port of a pcie device function."        *)
(* (val_pcie_get_rootport): what the table of functions gives as the root    *)
(* port of an endpoint is a root port.                                       *)
RootPortIsRootPort ==
  Made("pcie") =>
    LET t == The("pcie")
    IN  \A e \in Range(t.table.entries) :
          t.table.ret = 0 /\ e.rp # AllOnes => DevicePortType(t.p, e.rp) = "RP"
=============================================================================
