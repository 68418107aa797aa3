----------------------------- MODULE Firmware ------------------------------
(***************************************************************************)
(* Hardware, and how firmware describes it.  A tester compares the tables  *)
(* that the suite builds with the hardware: these operators write the same *)
(* hardware down as ACPI tables and as a device tree, in the form that     *)
(* Gtdt, Madt and Pcie read.  They stand for firmware and hardware, not    *)
(* for code of the suite.                                                  *)
(***************************************************************************)
EXTENDS Gtdt, Iort, Madt, Devices, Pcie

(* An address in n cells, and an interrupt number as three cells. *)
AddrCells(a, n) == IF n = 1 THEN <<a>> ELSE <<a \div Word, a % Word>>
PpiCells(n) == <<GicPpi, n - PpiOffset, 4>>
SpiCells(n, flag) == <<GicSpi, n - SpiOffset, flag>>

-----------------------------------------------------------------------------
(* Timers and watchdogs: [gsiv, on, blocks, wds].  A GTDT may list the       *)
(* watchdogs before or behind the blocks.                                    *)
TimeAcpi(h, wdFirst) ==
  LET blocks == [b \in DOMAIN h.blocks |-> [type |-> "block", cntl |-> h.blocks[b].cntl,
                                            frames |-> h.blocks[b].frames]]
      wds    == [w \in DOMAIN h.wds |-> [type |-> "wd", ctrl |-> h.wds[w].ctrl,
                                         refresh |-> h.wds[w].refresh, gsiv |-> h.wds[w].gsiv,
                                         flags |-> h.wds[w].flags]]
      header == [k \in {Private[i] : i \in 1 .. 4} \cup {"on"} |->
                   IF k = "on" THEN h.on ELSE h.gsiv[k]]
  IN  [header |-> header, entries |-> IF wdFirst THEN wds \o blocks ELSE blocks \o wds]

(* A device tree describes the frames of one block; addresses have ac cells *)
(* and sizes one.                                                           *)
TimeDt(h, ac, wdCells) ==
  LET block == h.blocks[1]
      frame(f) == [number |-> f.frame_num, reg |-> AddrCells(f.base, ac) \o <<1>>,
                   intr |-> SpiCells(f.gsiv, 4) \o (IF f.virt = 0 THEN <<>> ELSE SpiCells(f.virt, 4)),
                   chain |-> <<0, 3>>]
      wd(w) == [compatible |-> "arm,sbsa-gwdt", psize |-> 1, paddr |-> ac,
                reg |-> AddrCells(w.ctrl, ac) \o <<1>> \o AddrCells(w.refresh, ac) \o <<1>>,
                intr |-> IF wdCells = 3 THEN SpiCells(w.gsiv, 4) ELSE <<w.gsiv>>,
                chain |-> <<wdCells>>]
  IN  [systimer |-> <<[compatible |-> "arm,armv8-timer", chain |-> <<0, 3>>, on |-> h.on,
                       intr |-> FlattenSeq([k \in 1 .. 4 |-> PpiCells(h.gsiv[Private[k]])])]>>,
       memtimer |-> IF h.blocks = <<>> THEN <<>>
                    ELSE <<[compatible |-> "arm,armv7-timer-mem", psize |-> 1, paddr |-> ac,
                            reg |-> AddrCells(block.cntl, ac) \o <<1>>, size |-> 1, addr |-> ac,
                            frames |-> [k \in DOMAIN block.frames |-> frame(block.frames[k])]]>>,
       wd |-> [k \in DOMAIN h.wds |-> wd(h.wds[k])]]

-----------------------------------------------------------------------------
(* PEs and the GIC: [pes, version, gicd, rds, cpuif, gich, its, v2m]. *)
CpuAcpi(h) ==
  LET gicc(p) == [type |-> "gicc", mpidr |-> p.mpidr, pmu |-> p.pmu, cpuif |-> h.cpuif,
                  gicr |-> 0, gich |-> h.gich, gmain |-> 25]
      rd(b)   == [type |-> "gicr", base |-> b, length |-> 1]
      its(i)  == [type |-> "its", base |-> i.base, id |-> i.id]
      v2m(f)  == [type |-> "msi", base |-> f.base, id |-> 0, spi_base |-> f.spi_base,
                  spi_count |-> f.spi_count]
  IN  [k \in DOMAIN h.pes |-> gicc(h.pes[k])]
      \o <<[type |-> "gicd", base |-> h.gicd, version |-> h.version]>>
      \o [k \in DOMAIN h.rds |-> rd(h.rds[k])]
      \o [k \in DOMAIN h.its |-> its(h.its[k])]
      \o [k \in DOMAIN h.v2m |-> v2m(h.v2m[k])]

(* place is the string of pmu_dt_arr that the PMU node is compatible with; a *)
(* PMU interrupt that all PEs share is listed once, otherwise there is one   *)
(* interrupt per PE.  The frames of a GICv2 node are GICD, GICC, GICH and    *)
(* GICV, those of a GICv3 node GICD and the redistributor regions.           *)
CpuDt(h, place, ac, garbage) ==
  LET frame(b) == AddrCells(b, ac) \o <<1>>
      shared   == \A i, j \in DOMAIN h.pes : h.pes[i].pmu = h.pes[j].pmu
      pmu      == IF shared THEN PpiCells(h.pes[1].pmu)
                  ELSE FlattenSeq([k \in DOMAIN h.pes |-> SpiCells(h.pes[k].pmu, 4)])
      frames   == IF h.version = 3 THEN <<h.gicd>> \o h.rds ELSE <<h.gicd, h.cpuif, h.gich, 9>>
      v2m(f)   == [reg |-> frame(f.base), psize |-> 1, paddr |-> ac, spi_base |-> f.spi_base,
                   spi_count |-> f.spi_count]
  IN  [cpus |-> [k \in DOMAIN h.pes |-> [reg |-> TRUE, mpidr |-> h.pes[k].mpidr]],
       psize |-> 0, paddr |-> ac,
       pmus |-> <<[compatible |-> place, intr |-> pmu, chain |-> <<3>>]>>,
       gic |-> <<[compatible |-> h.version, chain |-> <<3>>, intr |-> PpiCells(25), psize |-> 1,
                  paddr |-> ac, regions |-> Len(h.rds),
                  reg |-> FlattenSeq([k \in DOMAIN frames |-> frame(frames[k])])]>>,
       v2m |-> [k \in DOMAIN h.v2m |-> v2m(h.v2m[k])],
       its |-> h.its, garbage |-> garbage]

-----------------------------------------------------------------------------
(* The BARs of a function: one for IO if it has any, then the address of its *)
(* memory, which takes two BARs when it does not fit in a word.              *)
Bar(io, wide, base) == [io |-> io, wide |-> wide, base |-> base]
BarsOf(node) ==
  (IF node.io THEN <<Bar(TRUE, FALSE, 3)>> ELSE <<>>)
    \o (IF node.mmio < Word THEN <<Bar(FALSE, FALSE, node.mmio)>>
        ELSE <<Bar(FALSE, TRUE, node.mmio % Word), Bar(FALSE, FALSE, node.mmio \div Word)>>)

(* A PCIe hierarchy is a sequence of nodes per bus, in the order of device   *)
(* and function number: [at |-> <<dev, func>>, hdr, port, hb, pcie, bar,     *)
(* io, mmio, exerciser, below]; bar is what stands in the bytes that are bus *)
(* numbers in a type 1 header.  `numbered` is the outcome of an enumeration. *)
Function(node, sec, sub) ==
  [hb |-> node.hb, head |-> 1,
   cap |-> <<[id |-> "pm", next |-> 2], [id |-> IF node.pcie THEN "pciecs" ELSE "msi", next |-> 0]>>,
   port |-> node.port, hdr |-> node.hdr, sec |-> sec, sub |-> sub,
   bars |-> BarsOf(node), exerciser |-> node.exerciser]

(* Every function with where it is, what answers there, and the root port it *)
(* is below, or itself if it is one.                                         *)
RECURSIVE Functions(_, _, _, _)

Functions(nodes, bus, numbered, above) ==
  LET bridge(k) == Cardinality({m \in 1 .. k : nodes[m].hdr = 1})
      under(k) == IF above = <<>> /\ nodes[k].port = "RP" THEN <<bus>> \o nodes[k].at ELSE above
      here(k) ==
        LET b == numbered[bridge(k)]
        IN  {[bus |-> bus, at |-> nodes[k].at, node |-> nodes[k], rp |-> under(k),
              f |-> IF nodes[k].hdr = 1 THEN Function(nodes[k], b.sec, b.sub)
                    ELSE Function(nodes[k], nodes[k].bar[1], nodes[k].bar[2])]}
      below(k) ==
        LET b == numbered[bridge(k)]
        IN  IF nodes[k].hdr = 1 THEN Functions(nodes[k].below, b.sec, b.below, under(k)) ELSE {}
  IN  UNION {here(k) \cup below(k) : k \in DOMAIN nodes}

(* What answers behind an ECAM region. *)
HwOf(functions, base) ==
  [a \in {<<base, x.bus, x.at[1], x.at[2]>> : x \in functions} |->
     (CHOOSE x \in functions : <<base, x.bus, x.at[1], x.at[2]>> = a).f]
=============================================================================
