---------------------------- MODULE MCInfoTables ---------------------------
(***************************************************************************)
(* Platforms: a plain one, and those that differ from it in one of timers, *)
(* PEs and GIC, IO virtualisation, devices, or PCIe.                       *)
(***************************************************************************)
EXTENDS InfoTables

-----------------------------------------------------------------------------
(* Up to three blocks of up to two frames, up to two watchdogs, one of them  *)
(* above the addresses that fit in a word.                                   *)
Gsivs == [s_el1 |-> 29, ns_el1 |-> 30, virtual |-> 27, el2 |-> 26]

TheFrame(b, k, virt) == Frame(k - 1, 2 * b + k, 33 + 2 * b + k, IF virt THEN 40 + k ELSE 0, FALSE)
TheBlock(b, n, virt) == [cntl |-> b, frames |-> [k \in 1 .. n |-> TheFrame(b, k, virt)]]
TheWd(k, flags) == WdInfo(IF k = 2 THEN 18 ELSE 7, IF k = 2 THEN 19 ELSE 8, 34 + k, flags)

TimeHw(sizes, virt, wds) ==
  [gsiv |-> Gsivs, on |-> virt,
   blocks |-> [b \in DOMAIN sizes |-> TheBlock(b, sizes[b], virt)],
   wds |-> [k \in 1 .. wds |-> TheWd(k, 0)]]

Acpi(h, wdFirst) == [hw |-> h, gtdt |-> TimeAcpi(h, wdFirst), dt |-> NoDt, wdCells |-> 0]
Tree(h, ac, cells) == [hw |-> h, gtdt |-> NoGtdt, dt |-> TimeDt(h, ac, cells), wdCells |-> cells]

Times ==
  {Acpi(TimeHw(sizes, virt, wds), first) :
     sizes \in {<<>>, <<1>>, <<2>>, <<1, 2>>, <<2, 0, 2>>, <<2, 1, 2>>},
     virt \in BOOLEAN, wds \in 0 .. 2, first \in BOOLEAN}
  \cup {Tree(TimeHw(<<n>>, virt, wds), ac, cells) :
     n \in 1 .. 2, virt \in BOOLEAN, wds \in 0 .. 2, ac \in {2}, cells \in {1, 3}}

-----------------------------------------------------------------------------
Mpidrs == {<< <<0, 0, 0, 0>> >>, << <<0, 0, 0, 0>>, <<0, 0, 0, 1>> >>,
           << <<0, 0, 1, 0>>, <<0, 0, 0, 0>>, <<0, 0, 0, 2>> >>,
           << <<0, 0, 0, 0>>, <<0, 1, 0, 1>>, <<1, 0, 2, 0>> >>}

Pes(mpidrs, shared) ==
  [k \in DOMAIN mpidrs |-> [mpidr |-> mpidrs[k], pmu |-> IF shared THEN 23 ELSE 34 + k]]

V3(mpidrs, shared, rds, its) ==
  [pes |-> Pes(mpidrs, shared), version |-> 3, gicd |-> 3, rds |-> [k \in 1 .. rds |-> 16 + k],
   cpuif |-> 0, gich |-> 0, its |-> [k \in 1 .. its |-> [id |-> 2 - k, base |-> 20 + k]],
   v2m |-> <<>>]

V2(mpidrs, shared, v2m) ==
  [pes |-> Pes(mpidrs, shared), version |-> 2, gicd |-> 3, rds |-> <<>>, cpuif |-> 5, gich |-> 6,
   its |-> <<>>, v2m |-> [k \in 1 .. v2m |-> [base |-> 10 + k, spi_base |-> 40 * (k - 1),
                                              spi_count |-> 4 * (k - 1)]]]

Gics == {V3(m, s, rds, its) : m \in Mpidrs, s \in BOOLEAN, rds \in 1 .. 2, its \in 0 .. 2}
          \cup {V2(m, s, v2m) : m \in Mpidrs, s \in BOOLEAN, v2m \in 0 .. 2}

NoCpuDt == [cpus |-> <<>>]

Cpus ==
  {[build |-> build, hw |-> h, madt |-> CpuAcpi(h), dt |-> NoCpuDt, pmuPlace |-> 0, garbage |-> 0] :
     build \in {"acpi", "dt"}, h \in Gics}
  \cup {[build |-> "dt", hw |-> h, madt |-> <<>>, dt |-> CpuDt(h, place, 2, garbage), pmuPlace |-> place,
         garbage |-> garbage] :
          h \in Gics, place \in {0, 2, 3, 10}, garbage \in {0, 1, 200}}

-----------------------------------------------------------------------------
(* An ITS group, an SMMU before it, one or two root complexes with up to two *)
(* mappings, and a PMCG, in several orders; place[x] is where node x stands. *)
Map(base, count, out, ref) == [base |-> base, count |-> count, out |-> out, ref |-> ref]
Node(type, data, maps, ctx, ref) ==
  [type |-> type, data |-> data, maps |-> maps, ctx |-> ctx, ref |-> ref]

RcNode(segment, maps) ==
  Node("rc", [segment |-> segment, cca |-> 1, ats |-> 1, smmu_base |-> 0], maps, <<>>, 0)
SmmuNode(type, base, ctx, maps) ==
  Node(type, [base |-> base], maps, ctx, 0)
ItsNode == Node("its", [ids |-> <<5, 6>>], <<>>, <<>>, 0)
PmcgNode(ref) == Node("pmcg", [base |-> 9, node_ref |-> 0], <<>>, <<>>, ref)

NoMap == Map(0, 0, 0, 0)
IortBehind(nodes, behind) ==
  [iort |-> [nodes |-> nodes, count |-> Len(nodes), behind |-> behind], dt |-> <<>>, smmus |-> <<>>]
Iort(nodes) == IortBehind(nodes, NoMap)

(* its, smmu, rc in this order, the second map of the root complex to `to`. *)
Chains ==
  {Iort(<<ItsNode, SmmuNode(type, 4, ctx, <<Map(0, 20, 30, 1)>>),
          RcNode(0, <<Map(0, c1, o1, 2), Map(b2, c2, o2, to)>>)>>) :
     type \in Smmus, ctx \in {<<1, 2>>, <<3, 3>>}, c1 \in {0, 2}, o1 \in {0, 3}, b2 \in {1, 3, 5},
     c2 \in {0, 1}, o2 \in {0, 4, 5}, to \in 1 .. 2}

(* What lies behind the mappings reads as a mapping to the SMMU. *)
Overread ==
  {IortBehind(<<ItsNode, SmmuNode("smmuv3", 4, <<>>, <<Map(0, 20, 30, 1)>>),
                RcNode(0, <<Map(0, 2, 0, to), Map(3, 1, 4, 2)>>)>>, Map(0, count, out, 2)) :
     to \in 1 .. 2, count \in {1, 5}, out \in {3, 8}}

(* Two root complexes behind one SMMU or two, with a PMCG of it. *)
Pairs ==
  {Iort(<<ItsNode, SmmuNode("smmuv3", 4, <<>>, <<Map(0, 8, 30, 1)>>),
          SmmuNode("smmuv3", 8, <<>>, <<Map(0, 8, 40, 1)>>),
          RcNode(0, <<Map(0, 2, 1, to)>>), RcNode(segment, <<Map(1, 2, out, 2)>>), PmcgNode(pm)>>) :
     to \in 1 .. 3, out \in {2, 3, 4}, pm \in 2 .. 4, segment \in 1 .. 3}

(* Parents before children, and a PMCG before its node. *)
Forward ==
  {Iort(<<RcNode(0, <<Map(0, 2, 1, smmu), Map(4, 3, 6, its)>>),
          RcNode(1, <<Map(0, 3, 5, smmu)>>)>> \o rest) :
     <<smmu, its, rest>> \in
       {<<3, 4, <<SmmuNode("smmuv3", 4, <<>>, <<Map(0, 9, 20, 4)>>), ItsNode>> >>,
        <<4, 3, <<ItsNode, SmmuNode("smmuv3", 4, <<>>, <<Map(0, 9, 20, 3)>>)>> >>,
        <<5, 4, <<PmcgNode(5), ItsNode, SmmuNode("smmu", 4, <<1>>, <<Map(0, 9, 20, 4)>>)>> >>}}

DtNode(compatible, offset, base, iommu) ==
  [compatible |-> compatible, offset |-> offset, reg |-> AddrCells(base, 2) \o <<1>>, psize |-> 1,
   paddr |-> 2, iommu |-> iommu, coherent |-> TRUE, ats |-> FALSE]

IovirtTrees ==
  {[iort |-> [nodes |-> <<>>, count |-> 0, behind |-> NoMap], smmus |-> [k \in 1 .. n |-> 3 + k],
    dt |-> [k \in 1 .. n |-> DtNode("arm,smmu-v3", 10 * k, 3 + k, 0)]
           \o <<DtNode("pci", 50, 9, iommu)>>] : n \in 0 .. 2, iommu \in {0, 10}}

Iovirts == Chains \cup Overread \cup Pairs \cup Forward \cup IovirtTrees

-----------------------------------------------------------------------------
Handle(bus, dev, class) == [bus |-> bus, dev |-> dev, class |-> class, bar0 |-> 3 * bus + dev + 1]
NoDevDt == [usb |-> <<>>, sata |-> <<>>, uart |-> <<>>]
DevNode(compatible, base, irq) ==
  [compatible |-> compatible, psize |-> 1, paddr |-> 2, reg |-> AddrCells(base, 2) \o <<1>>,
   intr |-> <<GicSpi, irq, 4>>, chain |-> <<0, 3>>, disabled |-> FALSE, parents |-> <<>>]

Region(type, start, pages) == [type |-> type, start |-> start, pages |-> pages]
MemMaps == {<<>>, <<Region("conventional", 0, 4)>>,
            <<Region("conventional", 2, 3), Region("mmio", 6, 2), Region("conventional", 9, 1)>>,
            <<Region("mmio", 7, 2), Region("boot", 2, 2), Region("conventional", 4, 1)>>,
            <<Region("persistent", 1, 2), Region("runtime", 3, 2), Region("other", 6, 1)>>}

Dev(pci, spcr, dt, uart, map) ==
  [pci |-> pci, spcr |-> spcr, dt |-> dt, uart |-> uart, memmap |-> [ok |-> TRUE, regions |-> map],
   gcd |-> <<[exists |-> FALSE, base |-> 0], [exists |-> TRUE, base |-> 2],
             [exists |-> FALSE, base |-> 5]>>]

(* Any three of the functions on two buses of three devices. *)
Slots == {Handle(bus, dev, class) : bus \in 0 .. 1, dev \in 0 .. 2, class \in {"usb", "sata"}}
PciLists == {<<>>} \cup {<<a>> : a \in Slots}
              \cup {<<a, b, c>> : <<a, b, c>> \in {<<a, b, c>> \in Slots \X Slots \X Slots :
                     /\ <<a.bus, a.dev>> # <<b.bus, b.dev>> /\ <<a.bus, a.dev>> # <<c.bus, c.dev>>
                     /\ <<b.bus, b.dev>> # <<c.bus, c.dev>> /\ a.class = "usb"}}

Spcr == <<[base |-> 12, gsiv |-> 33]>>
UartDt(n) == [NoDevDt EXCEPT !.uart = <<DevNode(n, 20, 3)>>, !.usb = <<DevNode("generic-ehci", 6, 2)>>]
Devs ==
  {Dev(pci, Spcr, NoDevDt, Spcr, <<>>) : pci \in PciLists}
  \cup {Dev(<<>>, <<>>, UartDt(n), <<[base |-> 20, gsiv |-> 35]>>, map) :
          n \in {"arm,sbsa-uart", "arm,pl011"}, map \in MemMaps}

-----------------------------------------------------------------------------
(* Hierarchies with up to three bridges below a root bus: endpoints before   *)
(* and behind bridges, a switch, a second function, a legacy device, and     *)
(* BARs that look like bus numbers.                                          *)
Quiet == <<1, 0>>
Leaf(at, port, bar, exerciser, pcie) ==
  [at |-> at, hdr |-> 0, port |-> port, hb |-> FALSE, pcie |-> pcie, bar |-> bar,
   io |-> at[2] = 1, mmio |-> IF exerciser THEN 37 ELSE 6, exerciser |-> exerciser,
   below |-> <<>>]
Ep(dev, bar) == Leaf(<<dev, 0>>, "EP", bar, dev = 1, TRUE)
Bridge(dev, port, below) ==
  [at |-> <<dev, 0>>, hdr |-> 1, port |-> port, hb |-> FALSE, pcie |-> TRUE, bar |-> Quiet,
   io |-> TRUE, mmio |-> 0, exerciser |-> FALSE, below |-> below]
Host == [Leaf(<<0, 0>>, "RCiEP", Quiet, FALSE, TRUE) EXCEPT !.hb = TRUE]

Switch(bar) == <<Bridge(0, "USP", <<Bridge(0, "DSP", <<Ep(0, bar)>>)>>)>>
Below(bar) == {<<>>, <<Ep(0, bar)>>, <<Ep(0, bar), Ep(1, Quiet)>>,
               <<Leaf(<<0, 0>>, "EP", bar, TRUE, TRUE), Leaf(<<0, 1>>, "EP", bar, FALSE, TRUE)>>,
               <<Leaf(<<0, 0>>, "EP", bar, FALSE, FALSE)>>}

Roots(bar) ==
  {<<Bridge(0, "RP", Switch(bar)), Leaf(<<1, 0>>, "RCiEP", bar, TRUE, TRUE)>>,
   <<Leaf(<<0, 0>>, "RCiEP", bar, FALSE, TRUE), Bridge(1, "RP", Switch(Quiet))>>}
  \cup {<<Bridge(0, "RP", a), Bridge(1, "RP", b)>> : a, b \in Below(bar)}
  \cup {<<Host, Bridge(1, "RP", <<Bridge(0, "USP", a), Bridge(1, "USP", b)>>)>> : a, b \in Below(bar)}
  \cup {<<Bridge(0, "RP", <<Bridge(0, "USP", a)>>), Bridge(1, "RP", b)>> : a, b \in Below(bar)}
  \cup {<<Leaf(<<0, 0>>, "RCiEP", bar, FALSE, TRUE), Bridge(1, "RP", a)>> : a \in Below(Quiet)}

Ecam(base, seg, end) == [base |-> base, seg |-> seg, start |-> 0, end |-> end]
PcieDt == <<[compatible |-> "pci-host-ecam-generic", psize |-> 1, paddr |-> 2,
             reg |-> AddrCells(18, 2) \o <<4>>, bus |-> <<0, 3>>]>>
PcieFw(mcfg, dt, root, second) == [mcfg |-> mcfg, dt |-> dt, root |-> root, second |-> second]

Pcies ==
  {PcieFw(<<>>, <<>>, <<>>, <<>>), PcieFw(<<Ecam(0, 0, 3)>>, <<>>, <<Host>>, <<>>)}
  \cup {PcieFw(<<Ecam(5, 0, 3)>>, <<>>, root, <<>>) : root \in Roots(Quiet) \cup Roots(<<0, 3>>)}
  \cup {PcieFw(<<>>, PcieDt, root, <<>>) : root \in Roots(Quiet)}
  \cup {PcieFw(<<Ecam(5, 0, 3), Ecam(6, 1, 1)>>, <<>>, root, <<Bridge(0, "RP", <<Ep(0, Quiet)>>)>>) :
          root \in Roots(Quiet)}

(* One function whose BAR looks like the range of buses 0 to 3 stands before *)
(* the root port.                                                            *)
NoisyPcies == {PcieFw(<<Ecam(5, 0, 3)>>, <<>>, root, <<>>) : root \in Roots(<<0, 3>>)}

-----------------------------------------------------------------------------
PlainHw == V3(<< <<0, 0, 0, 0>> >>, TRUE, 1, 1)
Plain ==
  [time |-> Acpi(TimeHw(<<1>>, FALSE, 1), FALSE),
   cpu |-> [build |-> "dt", hw |-> PlainHw, madt |-> CpuAcpi(PlainHw), dt |-> NoCpuDt, pmuPlace |-> 0, garbage |-> 0],
   iovirt |-> Iort(<<ItsNode, RcNode(0, <<Map(0, 2, 1, 1)>>)>>),
   dev |-> Dev(<<>>, <<>>, NoDevDt, <<>>, <<>>),
   pcie |-> PcieFw(<<Ecam(5, 0, 3)>>, <<>>, <<Bridge(0, "RP", <<Ep(0, Quiet)>>)>>, <<>>),
   tested |-> FALSE]

MCPlatforms ==
  {[Plain EXCEPT !.time = t] : t \in Times} \cup {[Plain EXCEPT !.cpu = c] : c \in Cpus}
    \cup {[Plain EXCEPT !.iovirt = i] : i \in Iovirts}
    \cup {[Plain EXCEPT !.dev = d] : d \in Devs} \cup {[Plain EXCEPT !.pcie = p] : p \in Pcies}
    \cup {[Plain EXCEPT !.tested = TRUE]}

NoisyPlatforms == {[Plain EXCEPT !.pcie = p] : p \in NoisyPcies}
=============================================================================
