------------------------------- MODULE Madt --------------------------------
(***************************************************************************)
(* The PE and the GIC information tables: how pal_pe.c and pal_gic.c fill  *)
(* them from the ACPI MADT or from the device tree, how acs_pe_infra.c,    *)
(* acs_gic.c and acs_gic_v2m.c read them, and where ModuleEntryPoint.S     *)
(* puts the stack of a secondary PE.                                       *)
(*                                                                         *)
(* An MPIDR is <<Aff3, Aff2, Aff1, Aff0>>.  A MADT is a sequence of        *)
(* entries.  A device tree is [cpus, pmus, gic, v2m, its, psize, paddr].   *)
(* build is "acpi" for the library platform/pal_uefi and "dt" for          *)
(* platform/pal_uefi_dt, which looks for a device tree without a MADT.     *)
(***************************************************************************)
EXTENDS Fdt, FiniteSets

NoMpidr == <<Junk, Junk, Junk, Junk>>

(* MpidrAff0Max to MpidrAff3Max, put together in gMpidrMax. *)
MpidrMax(mpidrs) ==
  [k \in 1 .. 4 |-> FoldLeft(LAMBDA max, m : IF m[k] > max THEN m[k] ELSE max, 0, mpidrs)]

(* The PEs that PalAllocateSecondaryStack makes room for. *)
NumSlots(max) == (max[1] + 1) * (max[2] + 1) * (max[3] + 1) * (max[4] + 1)

(* Mutant of CorePos: the largest affinity is taken for the number of values. *)
CorePos_Max(max, m) ==
  m[4] + m[3] * max[4] + m[2] * max[4] * max[3] + m[1] * max[4] * max[3] * max[2]

(* CorePos of the secondary entry: the stack pointer starts at this many    *)
(* stacks above the base, and a stack grows downwards.                      *)
CorePos(max, m) ==
  LET w0 == max[4] + 1
      w1 == w0 * (max[3] + 1)
      w2 == w1 * (max[2] + 1)
  IN  m[4] + m[3] * w0 + m[2] * w1 + m[1] * w2

Pe(num, mpidr, pmu, gmain) ==
  [pe_num |-> num, mpidr |-> mpidr, pmu |-> pmu, gmain |-> gmain]

PeTableOf(pes, whole) ==
  [pes |-> pes, num |-> Len(pes), stacks |-> whole, extra |-> 0,
   max |-> MpidrMax([k \in DOMAIN pes |-> pes[k].mpidr])]

(* pal_pe_create_info_table: one PE for every GICC entry of the MADT.  Only *)
(* the build without device trees stores the maintenance interrupt.         *)
AcpiPeTable(build, madt) ==
  LET giccs == SelectSeq(madt, LAMBDA e : e.type = "gicc")
      gmain(e) == IF build = "acpi" THEN e.gmain ELSE Junk
  IN  PeTableOf([k \in DOMAIN giccs |-> Pe(k - 1, giccs[k].mpidr, giccs[k].pmu, gmain(giccs[k]))],
                TRUE)

-----------------------------------------------------------------------------
(* pal_pe_info_table_pmu_gsiv_dt.  pmu_dt_arr has NumPmu strings; a node is   *)
(* compatible with one of them.  The loop over the strings and the loop over  *)
(* the interrupts of a node share the variable i, and index is never reset:   *)
(* after a node with several interrupts the walk goes on at the string whose  *)
(* place is their number.  It may come back to the same node for ever; Visits *)
(* bounds how often the model follows it.                                     *)
NumPmu == 11
Visits == 3

IntrId(intr, i, cells) ==
  IF cells < 3 THEN Cell(intr, i)
  ELSE Cell(intr, i + 1) + IF Cell(intr, i) # 0 THEN PpiOffset ELSE SpiOffset

NextPmu(pmus, from, i) ==
  LET hit == {k \in DOMAIN pmus : k > from /\ pmus[k].compatible = i}
  IN  IF hit = {} THEN 0 ELSE CHOOSE k \in hit : \A m \in hit : k <= m

RECURSIVE PmuStrings(_, _, _), PmuNode(_, _, _, _)

PmuStrings(pmus, n, st) ==
  IF st.ret \/ st.i >= NumPmu \/ st.visits = Visits THEN st
  ELSE LET k == NextPmu(pmus, 0, st.i)
           r == IF k = 0 THEN st ELSE PmuNode(pmus, n, st, k)
       IN  PmuStrings(pmus, n, [r EXCEPT !.i = @ + 1])

PmuNode(pmus, n, st, k) ==
  LET intr   == pmus[k].intr
      cells  == InterruptCells(pmus[k].chain)
      frames == Len(intr) \div cells
      ids    == [f \in 1 .. frames |-> IntrId(intr, st.index + (f - 1) * cells, cells)]
      next   == NextPmu(pmus, k, frames)
      after  == [st EXCEPT !.i = frames, !.index = @ + frames * cells,
                           !.gsivs = @ \o ids, !.visits = @ + 1]
  IN  IF intr = NoProp \/ cells \notin 1 .. 3 \/ frames = 0 THEN [st EXCEPT !.ret = TRUE]
      ELSE IF frames = 1
      THEN [st EXCEPT !.ret = TRUE, !.gsivs = @ \o [p \in 1 .. n |-> IntrId(intr, 0, cells)]]
      ELSE IF next = 0 \/ after.visits = Visits THEN after
      ELSE PmuNode(pmus, n, after, next)

(* The interrupts in the order in which they are written to the PEs. *)
PmuGsivs(pmus, n) ==
  PmuStrings(pmus, n, [ret |-> FALSE, i |-> 0, index |-> 0, visits |-> 0, gsivs |-> <<>>]).gsivs

(* The first node for a GICv3, otherwise the first for a GICv2. *)
GicNode(dt) == FirstCompatible(<<3, 2>>, dt.gic)

(* pal_pe_info_table_gmaint_gsiv_dt *)
GmaintGsiv(dt) ==
  LET gic   == GicNode(dt)
      cells == InterruptCells(gic[1].chain)
  IN  IF gic = <<>> \/ gic[1].intr = NoProp \/ cells \notin 1 .. 3 THEN Junk
      ELSE IF cells < 3 THEN Cell(gic[1].intr, 0) + PpiOffset
      ELSE IF Cell(gic[1].intr, 0) # 0 THEN Cell(gic[1].intr, 1) + PpiOffset ELSE Junk

(* pal_pe_create_info_table_dt: a CPU without reg ends it, with the PEs so   *)
(* far in the table but no stacks and no gMpidrMax.                          *)
DtPeTable(dt) ==
  LET noreg == {k \in DOMAIN dt.cpus : ~dt.cpus[k].reg}
      cpus  == IF noreg = {} THEN dt.cpus
               ELSE SubSeq(dt.cpus, 1, (CHOOSE k \in noreg : \A m \in noreg : k <= m) - 1)
      mpidr(c) == IF dt.paddr = 2 THEN c.mpidr ELSE [c.mpidr EXCEPT ![1] = 0]
      gsivs == PmuGsivs(dt.pmus, Len(cpus))
      pmu(k) == IF noreg = {} /\ k \in DOMAIN gsivs THEN gsivs[k] ELSE Junk
      gmain == IF noreg = {} THEN GmaintGsiv(dt) ELSE Junk
  IN  IF cpus = <<>> \/ dt.psize # 0 \/ dt.paddr \notin 1 .. 2 THEN PeTableOf(<<>>, FALSE)
      ELSE [PeTableOf([k \in DOMAIN cpus |-> Pe(k - 1, mpidr(cpus[k]), pmu(k), gmain)],
                      noreg = {})
              EXCEPT !.extra = IF noreg = {} /\ Len(gsivs) > Len(cpus)
                               THEN Len(gsivs) - Len(cpus) ELSE 0]

PeTable(fw) ==
  IF fw.madt # <<>> THEN AcpiPeTable(fw.build, fw.madt)
  ELSE IF fw.build = "dt" THEN DtPeTable(fw.dt) ELSE PeTableOf(<<>>, FALSE)

(* val_pe_get_mpid_index lets the index behind the last PE pass. *)
MpidIndex(table, index) ==
  IF index > table.num THEN NoMpidr
  ELSE IF index = table.num THEN <<Junk, 0, 0, 0>> ELSE table.pes[index + 1].mpidr

(* val_pe_get_index_mpid answers 0 for a PE it does not know. *)
IndexMpid(table, mpidr) ==
  LET hit == {k \in 1 .. table.num : table.pes[k].mpidr = mpidr}
  IN  IF hit = {} THEN 0 ELSE table.pes[CHOOSE k \in hit : \A m \in hit : k <= m].pe_num

-----------------------------------------------------------------------------
GicEntry(type, base, length) ==
  [type |-> type, base |-> base, length |-> length, id |-> 0, spi_base |-> 0, spi_count |-> 0]

(* The entries that one entry of the MADT becomes in both builds. *)
CommonGicEntries(e) ==
  CASE e.type = "gicc" ->
         (IF e.cpuif # 0 THEN <<GicEntry("cpuif", e.cpuif, Junk)>> ELSE <<>>)
         \o (IF e.gicr # 0 THEN <<GicEntry("gicc_rd", e.gicr, 0)>> ELSE <<>>)
    [] e.type = "gicd" -> <<GicEntry("gicd", e.base, Junk)>>
    [] e.type = "gicr" -> <<GicEntry("gicr_rd", e.base, e.length)>>
    [] e.type = "its"  -> <<[GicEntry("its", e.base, Junk) EXCEPT !.id = e.id]>>
    [] OTHER -> <<>>

(* The build without device trees also knows GICH and MSI frames; the other *)
(* takes them from a device tree only.                                      *)
AcpiGicEntries(e) ==
  CommonGicEntries(e)
  \o (IF e.type = "gicc" /\ e.gich # 0 THEN <<GicEntry("gich", e.gich, 0)>> ELSE <<>>)
  \o (IF e.type = "msi"
      THEN <<[GicEntry("msi", e.base, Junk) EXCEPT
                !.id = e.id, !.spi_base = e.spi_base, !.spi_count = e.spi_count]>>
      ELSE <<>>)

CountOf(entries, types) == Len(SelectSeq(entries, LAMBDA e : e.type \in types))

(* pal_gic_create_info_table; ended says that the last entry is 0xFF. *)
AcpiGicTable(build, madt) ==
  LET entries == FlattenSeq([k \in DOMAIN madt |->
                   IF build = "acpi" THEN AcpiGicEntries(madt[k]) ELSE CommonGicEntries(madt[k])])
      gicd    == SelectSeq(madt, LAMBDA e : e.type = "gicd")
  IN  [entries |-> entries, ended |-> TRUE,
       version |-> IF gicd = <<>> THEN 0 ELSE gicd[Len(gicd)].version,
       gicd |-> Len(gicd), rd |-> CountOf(entries, {"gicc_rd", "gicr_rd"}),
       its  |-> CountOf(entries, {"its"}), msi |-> CountOf(entries, {"msi"})]

NoGic == [entries |-> <<>>, ended |-> TRUE, version |-> 0,
          gicd |-> 0, rd |-> 0, its |-> 0, msi |-> 0]

(* The k-th frame of a reg property, counted from 0. *)
RegFrame(reg, k, ac, sc, type) ==
  GicEntry(type, Cells(reg, k * (ac + sc), ac), Cells(reg, k * (ac + sc) + ac, sc))

(* 32 bit arithmetic on counts, with UInt for 2^32. *)
UInt == 256
Signed(n) == IF n % UInt >= UInt \div 2 THEN (n % UInt) - UInt ELSE n % UInt

(* Distributor, redistributor regions, CPU interface and GICH of the node.   *)
(* num_of_rd is not initialised for a GICv2: dt.garbage is what it happens   *)
(* to hold.                                                                  *)
DtGicFrames(dt, node, npe) ==
  LET v3    == node.compatible = 3
      ac    == node.paddr
      sc    == node.psize
      all   == Len(node.reg) \div (ac + sc)
      rds   == IF v3 THEN node.regions ELSE dt.garbage
      rd    == [k \in 1 .. (IF v3 THEN rds ELSE 0) |-> RegFrame(node.reg, k, ac, sc, "gicr_rd")]
      cpuif == (all - rds) % UInt > 1
      cpus  == [k \in 1 .. (IF cpuif THEN npe ELSE 0) |->
                  RegFrame(node.reg, Len(rd) + 1, ac, sc, "cpuif")]
      at    == Len(rd) + 1 + (IF cpuif THEN 1 ELSE 0)
      gich  == IF ~v3 /\ Signed(all - (rds + 1)) > 1
               THEN <<RegFrame(node.reg, at, ac, sc, "gich")>> ELSE <<>>
  IN  <<RegFrame(node.reg, 0, ac, sc, "gicd")>> \o rd \o cpus \o gich

(* The v2m frames up to the first one without reg, which ends the function *)
(* without marking the end of the table.                                   *)
DtV2mFrames(dt) ==
  LET noreg == {k \in DOMAIN dt.v2m : dt.v2m[k].reg = NoProp}
      good  == IF dt.v2m[1].psize < 0 \/ dt.v2m[1].paddr < 0 THEN <<>>
               ELSE IF noreg = {} THEN dt.v2m
               ELSE SubSeq(dt.v2m, 1, (CHOOSE k \in noreg : \A m \in noreg : k <= m) - 1)
  IN  IF dt.v2m = <<>> THEN <<>>
      ELSE [k \in DOMAIN good |->
              [RegFrame(good[k].reg, 0, dt.v2m[1].paddr, dt.v2m[1].psize, "msi") EXCEPT
                 !.spi_base = good[k].spi_base, !.spi_count = good[k].spi_count]]

(* pal_gic_create_info_table_dt.  ITSs are counted but get no entry. *)
DtGicTable(dt, npe) ==
  LET gic    == GicNode(dt)
      node   == gic[1]
      frames == DtGicFrames(dt, node, npe)
      v2m    == IF node.compatible = 2 THEN DtV2mFrames(dt) ELSE <<>>
      its    == IF node.compatible = 3 THEN Len(dt.its) ELSE 0
      ends   == node.compatible = 3 \/ Len(v2m) = Len(dt.v2m)
  IN  IF gic = <<>> THEN NoGic
      ELSE IF node.psize < 0 \/ node.paddr < 0 \/ node.reg = NoProp
      THEN [NoGic EXCEPT !.version = node.compatible]
      ELSE [entries |-> frames \o v2m, ended |-> ends, version |-> node.compatible,
            gicd |-> 1, rd |-> CountOf(frames, {"gicr_rd"}), its |-> its, msi |-> Len(v2m)]

(* Without a MADT the build without device trees leaves the table unmarked. *)
GicTable(fw) ==
  IF fw.madt # <<>> THEN AcpiGicTable(fw.build, fw.madt)
  ELSE IF fw.build = "dt" THEN DtGicTable(fw.dt, PeTable(fw).num)
  ELSE [NoGic EXCEPT !.ended = FALSE]

(* The base of the first entry of one of these types, 0 if there is none:    *)
(* val_get_gicd_base, val_get_gicr_base, val_get_gich_base and               *)
(* val_get_cpuif_base walk the table in this way.                            *)
FirstBase(table, types) ==
  LET hit == SelectSeq(table.entries, LAMBDA e : e.type \in types)
  IN  IF hit = <<>> THEN 0 ELSE hit[1].base

GicdBase(table)  == FirstBase(table, {"gicd"})
GicrBase(table)  == FirstBase(table, {"gicc_rd", "gicr_rd"})
GichBase(table)  == FirstBase(table, {"gich"})
CpuifBase(table) == FirstBase(table, {"cpuif"})

(* val_gic_v2m_parse_info and val_gic_v2m_get_info: numbers of SPIs that the *)
(* firmware does not give are read from the frame.                           *)
V2mInfo(table, typer) ==
  LET msi == SelectSeq(table.entries, LAMBDA e : e.type = "msi")
  IN  [k \in DOMAIN msi |->
         [id |-> msi[k].id, base |-> msi[k].base,
          spi_base  |-> IF msi[k].spi_base = 0 THEN typer[msi[k].base].spi_base
                        ELSE msi[k].spi_base,
          spi_count |-> IF msi[k].spi_count = 0 THEN typer[msi[k].base].spi_count
                        ELSE msi[k].spi_count]]

(* pal_gic_its_configure gathers the ITSs and the bases before it configures *)
(* them; getItsIndex finds an ITS by its ID, or -1.                          *)
ItsInfo(table) ==
  [its |-> SelectSeq(table.entries, LAMBDA e : e.type = "its"),
   rd  |-> GicrBase(table), d |-> GicdBase(table)]

GetItsIndex(info, id) ==
  LET hit == {k \in DOMAIN info.its : info.its[k].id = id}
  IN  IF hit = {} THEN -1 ELSE (CHOOSE k \in hit : \A m \in hit : k <= m) - 1
=============================================================================
