------------------------------- MODULE Pcie --------------------------------
(***************************************************************************)
(* PCIe as the suite sees it: the ECAM regions of the firmware             *)
(* (pal_pcie.c), bus enumeration (pcie.c), configuration access, the table *)
(* of functions and their root ports (acs_pcie.c), and the list of         *)
(* exercisers (acs_exerciser.c, pal_exerciser.c).                          *)
(*                                                                         *)
(* Firmware is [mcfg, dt, hw].  A region is [base, seg, start, end]; hw    *)
(* maps <<base, bus, dev, func>> to the function that answers there, a     *)
(* record of the parts of its configuration space that are read:           *)
(*   hb         it is a host bridge                                        *)
(*   head, cap  pointer to the first capability, and [id, next] of each    *)
(*   port, hdr  device/port type and header type                           *)
(*   sec, sub   what is read at the offset of the bus numbers; in a type 0 *)
(*              header these are bytes of a BAR                            *)
(*   bars, exerciser                                                       *)
(* A BDF is <<seg, bus, dev, func>>.                                       *)
(***************************************************************************)
EXTENDS Fdt, FiniteSets

(* PCIE_MAX_DEV, PCIE_MAX_FUNC and PCIE_MAX_BUS; 32, 8 and 256 in the code. *)
MaxDevs  == 2
MaxFuncs == 2
MaxBuses == 4

NoBdf4   == <<0, 0, 0, 0>>
AllOnes  == <<255, 255, 255, 255>>

-----------------------------------------------------------------------------
(* pal_pcie_create_info_table: the entries of the MCFG.  The loop is left  *)
(* only after the first entry, also when the table is empty.               *)
AcpiEcams(mcfg) == mcfg

(* pal_pcie_create_info_table_dt: every node is segment 0. *)
DtEcams(dt) ==
  LET nodes == SelectSeq(dt, LAMBDA n : n.compatible = "pci-host-ecam-generic")
      bad   == {k \in DOMAIN nodes : nodes[k].reg = NoProp \/ nodes[k].bus = NoProp}
      upto  == IF bad = {} THEN nodes
               ELSE SubSeq(nodes, 1, (CHOOSE k \in bad : \A m \in bad : k <= m) - 1)
  IN  IF nodes = <<>> \/ nodes[1].psize < 0 \/ nodes[1].paddr \notin 1 .. 2 THEN <<>>
      ELSE [k \in DOMAIN upto |-> [base |-> Cells(upto[k].reg, 0, nodes[1].paddr), seg |-> 0,
                                   start |-> upto[k].bus[1], end |-> upto[k].bus[2]]]

Ecams(fw) == IF fw.mcfg = <<>> THEN DtEcams(fw.dt) ELSE AcpiEcams(fw.mcfg)

(* The region that val_pcie_read_cfg, val_pcie_write_cfg and                *)
(* val_pcie_get_bdf_config_addr choose; a base of 0 is none.                *)
EcamOf(ecams, bdf) ==
  LET hit == SelectSeq(ecams, LAMBDA e : bdf[2] \in e.start .. e.end /\ bdf[1] = e.seg)
  IN  IF hit = <<>> THEN 0 ELSE hit[1].base

Mapped(ecams, bdf) ==
  bdf[3] < MaxDevs /\ bdf[4] < MaxFuncs /\ bdf[2] < MaxBuses /\ EcamOf(ecams, bdf) # 0

(* val_pcie_read_cfg: where no function answers every bit is one. *)
Address(ecams, bdf) == <<EcamOf(ecams, bdf), bdf[2], bdf[3], bdf[4]>>
Present(p, bdf) == Mapped(p.ecams, bdf) /\ Address(p.ecams, bdf) \in DOMAIN p.hw
ReadCfg(p, bdf) == p.hw[Address(p.ecams, bdf)]

(* val_pcie_find_capability; 0 is PCIE_CAP_NOT_FOUND.  A list that comes    *)
(* back to itself would never end; MaxCaps is longer than any list.         *)
MaxCaps == 4
EcapStart == 256

FindCapability(p, bdf, type, id) ==
  LET f == ReadCfg(p, bdf)
      At[n \in 0 .. MaxCaps] ==
        IF n = 0 THEN IF type = "cap" THEN f.head ELSE EcapStart
        ELSE IF At[n - 1] = 0 THEN 0
        ELSE IF f.cap[At[n - 1]].id = id THEN At[n - 1] ELSE f.cap[At[n - 1]].next
  IN  At[MaxCaps]

(* val_pcie_device_port_type of a function that has the PCIe capability; no *)
(* function passes for an on-chip peripheral.                               *)
DevicePortType(p, bdf) == ReadCfg(p, bdf).port
HeaderType(p, bdf) == ReadCfg(p, bdf).hdr
IsHostBridge(p, bdf) == ReadCfg(p, bdf).hb

-----------------------------------------------------------------------------
(* Mutant of EnumerateDevice: behind a bridge the next number is used, not   *)
(* the one behind the buses below it.                                        *)
RECURSIVE EnumerateDevice_NextBus(_, _, _)

EnumerateDevice_NextBus(nodes, bus, sec_bus) ==
  LET visit(acc, node) ==
        LET r == EnumerateDevice_NextBus(node.below, acc.sec, acc.sec + 1)
        IN  IF node.hdr = 1
            THEN [sub |-> r.sub, sec |-> acc.sec + 1,
                  out |-> Append(acc.out, [pri |-> bus, sec |-> acc.sec, sub |-> r.sub,
                                           below |-> r.out])]
            ELSE [acc EXCEPT !.sub = acc.sec - 1]
      all == FoldLeft(visit, [sub |-> bus, sec |-> sec_bus, out |-> <<>>], nodes)
  IN  IF bus = MaxBuses - 1 THEN [sub |-> bus, out |-> <<>>]
      ELSE [sub |-> all.sub, out |-> all.out]

(* pcie_enumerate_device.  The devices of a bus are a sequence of nodes in  *)
(* the order of their numbers, a bridge being [hdr |-> 1, below |-> nodes]. *)
(* The result lists the bridges as they are programmed, and sub_bus.        *)
RECURSIVE EnumerateDevice(_, _, _)

EnumerateDevice(nodes, bus, sec_bus) ==
  LET visit(acc, node) ==
        LET r == EnumerateDevice(node.below, acc.sec, acc.sec + 1)
        IN  IF node.hdr = 1
            THEN [sub |-> r.sub, sec |-> r.sub + 1,
                  out |-> Append(acc.out, [pri |-> bus, sec |-> acc.sec, sub |-> r.sub,
                                           below |-> r.out])]
            ELSE [acc EXCEPT !.sub = acc.sec - 1]
      all == FoldLeft(visit, [sub |-> bus, sec |-> sec_bus, out |-> <<>>], nodes)
  IN  IF bus = MaxBuses - 1 THEN [sub |-> bus, out |-> <<>>]
      ELSE [sub |-> all.sub, out |-> all.out]

(* val_bsa_pcie_enumerate: only segment 0, only where pal_bsa_pcie_enumerate *)
(* asks for it.                                                              *)
Enumerate(root) == EnumerateDevice(root, 0, 1)

-----------------------------------------------------------------------------
(* What val_pcie_create_device_bdf_table makes of one BDF. *)
Probe(p, bdf) ==
  IF ~Mapped(p.ecams, bdf) THEN "no_mapping"
  ELSE IF ~Present(p, bdf) THEN "none"
  ELSE IF IsHostBridge(p, bdf) THEN "host_bridge"
  ELSE IF FindCapability(p, bdf, "cap", "pciecs") = 0 THEN "legacy" ELSE "pcie"

(* The BDFs it looks at: the functions of a device only when the first one  *)
(* answers, in the order of regions, buses, devices and functions.          *)
Probed(p) ==
  LET dev(e, b, d) ==
        LET f(k) == <<e.seg, b, d, k>>
        IN  IF Probe(p, f(0)) = "none" THEN <<f(0)>>
            ELSE [k \in 1 .. MaxFuncs |-> f(k - 1)]
      bus(e, b) == FlattenSeq([d \in 1 .. MaxDevs |-> dev(e, b, d - 1)])
      ecam(e)   == FlattenSeq([b \in 1 .. e.end - e.start + 1 |-> bus(e, e.start + b - 1)])
  IN  FlattenSeq([k \in DOMAIN p.ecams |-> ecam(p.ecams[k])])

(* Mutant of GetRootport: the secondary bus itself is not below the port. *)
GetRootport_Below(p, entries, bdf) ==
  LET port == DevicePortType(p, bdf)
      hit  == SelectSeq(entries, LAMBDA b : /\ ReadCfg(p, b).sec < bdf[2]
                                            /\ ReadCfg(p, b).sub >= bdf[2])
  IN  IF port = "RP" THEN [ret |-> 0, rp |-> bdf]
      ELSE IF port \in {"RCiEP", "RCEC"} THEN [ret |-> 1, rp |-> AllOnes]
      ELSE IF hit # <<>> THEN [ret |-> 0, rp |-> hit[1]]
      ELSE [ret |-> 1, rp |-> NoBdf4]

(* val_pcie_get_rootport.  The second test of the port type is an            *)
(* assignment, so the first entry whose bus numbers hold the bus is taken,   *)
(* whatever it is and whatever its segment.                                  *)
GetRootport(p, entries, bdf) ==
  LET port == DevicePortType(p, bdf)
      hit  == SelectSeq(entries, LAMBDA b : /\ ReadCfg(p, b).sec <= bdf[2]
                                            /\ ReadCfg(p, b).sub >= bdf[2])
  IN  IF port = "RP" THEN [ret |-> 0, rp |-> bdf]
      ELSE IF port \in {"RCiEP", "RCEC"} THEN [ret |-> 1, rp |-> AllOnes]
      ELSE IF hit # <<>> THEN [ret |-> 0, rp |-> hit[1]]
      ELSE [ret |-> 1, rp |-> NoBdf4]

(* val_pcie_create_device_bdf_table and val_pcie_populate_device_rootport: a *)
(* region without a base leaves the entries so far without root ports, a     *)
(* function without a root port leaves no entry.                             *)
BdfTable(p) ==
  LET all    == Probed(p)
      unmapped == {k \in DOMAIN all : Probe(p, all[k]) = "no_mapping"}
      upto   == IF unmapped = {} THEN all
                ELSE SubSeq(all, 1, (CHOOSE k \in unmapped : \A m \in unmapped : k <= m) - 1)
      bdfs   == SelectSeq(upto, LAMBDA b : Probe(p, b) = "pcie")
      root(b) == GetRootport(p, bdfs, b)
      orphan == \E k \in DOMAIN bdfs : root(bdfs[k]).ret = 1 /\ root(bdfs[k]).rp = NoBdf4
  IN  IF p.ecams = <<>> THEN [ret |-> 1, entries |-> <<>>]
      ELSE IF unmapped # {}
      THEN [ret |-> 1, entries |-> [k \in DOMAIN bdfs |-> [bdf |-> bdfs[k], rp |-> <<>>]]]
      ELSE IF orphan THEN [ret |-> 1, entries |-> <<>>]
      ELSE [ret |-> 0, entries |-> [k \in DOMAIN bdfs |-> [bdf |-> bdfs[k],
                                                          rp |-> root(bdfs[k]).rp]]]

(* val_pcie_print_device_info: switch ports are not counted. *)
DeviceCounts(p, table) ==
  [t \in {"RCiEP", "RCEC", "EP", "RP"} |->
     Len(SelectSeq(table.entries, LAMBDA e : DevicePortType(p, e.bdf) = t))]

(* val_pcie_get_ecam_base: for a type 0 header the first region of the       *)
(* segment, for a type 1 header the first one that holds the buses below it. *)
GetEcamBase(p, bdf) ==
  LET f   == ReadCfg(p, bdf)
      hit == SelectSeq(p.ecams, LAMBDA e : /\ e.seg = bdf[1]
                                           /\ (f.hdr = 0 \/ (f.sec >= e.start /\ f.sub <= e.end)))
  IN  IF hit = <<>> THEN 0 ELSE hit[1].base

(* val_pcie_get_downstream_function: a type 0 function before a type 1. *)
DownstreamFunction(p, table, bdf) ==
  LET f     == ReadCfg(p, bdf)
      below == SelectSeq(table.entries, LAMBDA e : e.bdf[2] \in f.sec .. f.sub
                                                   /\ e.bdf[1] = bdf[1])
      type0 == SelectSeq(below, LAMBDA e : HeaderType(p, e.bdf) = 0)
  IN  IF type0 # <<>> THEN [ret |-> 0, dsf |-> type0[1].bdf]
      ELSE IF below # <<>> THEN [ret |-> 0, dsf |-> below[1].bdf]
      ELSE [ret |-> 1, dsf |-> NoBdf4]

(* val_pcie_parent_is_rootport does not compare segments either. *)
ParentIsRootport(p, table, bdf) ==
  LET hit == SelectSeq(table.entries,
                       LAMBDA e : /\ DevicePortType(p, e.bdf) = "RP"
                                  /\ bdf[2] = ReadCfg(p, e.bdf).sec
                                  /\ bdf[2] <= ReadCfg(p, e.bdf).sub)
  IN  IF hit = <<>> THEN [ret |-> 1, rp |-> NoBdf4] ELSE [ret |-> 0, rp |-> hit[1].bdf]

(* val_pcie_get_mmio_bar: the first BAR that is no IO BAR; a BAR of 0 is     *)
(* one.  A BAR is [io, wide, base]; behind a wide one is its upper half.     *)
GetMmioBar(p, bdf) ==
  LET f    == ReadCfg(p, bdf)
      last == IF f.hdr = 1 THEN 2 ELSE 6
      hit  == {k \in DOMAIN f.bars : k <= last /\ ~f.bars[k].io}
      k    == CHOOSE k \in hit : \A m \in hit : k <= m
      high == IF k + 1 \in DOMAIN f.bars THEN f.bars[k + 1].base ELSE Junk
  IN  IF hit = {} THEN 0
      ELSE IF f.bars[k].wide THEN high * Word + f.bars[k].base ELSE f.bars[k].base

-----------------------------------------------------------------------------
(* pal_is_bdf_exerciser looks behind the first region whatever the segment   *)
(* of the function.                                                          *)
IsBdfExerciser(p, bdf) ==
  LET at == <<p.ecams[1].base, bdf[2], bdf[3], bdf[4]>>
  IN  at \in DOMAIN p.hw /\ p.hw[at].exerciser

(* val_exerciser_create_info_table walks the table from its end. *)
Exercisers(p, table) ==
  SelectSeq(Reverse([k \in DOMAIN table.entries |-> table.entries[k].bdf]),
            LAMBDA bdf : IsBdfExerciser(p, bdf))

=============================================================================
