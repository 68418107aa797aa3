------------------------------ MODULE Devices ------------------------------
(***************************************************************************)
(* The peripheral and the memory information tables: how                   *)
(* pal_peripherals.c fills them from the PCI handles of the firmware, the  *)
(* ACPI SPCR, the device tree and the UEFI memory map, and how             *)
(* acs_peripherals.c and acs_memory.c read them.                           *)
(*                                                                         *)
(* Firmware is [pci, spcr, dt, memmap, gcd]: pci a sequence of handles     *)
(* [bus, dev, class, bar0], spcr empty or <<[base, gsiv]>>, dt             *)
(* [usb, sata, uart], memmap [ok, regions] and gcd a sequence of regions   *)
(* [exists, base].  Addresses of memory are counted in pages.              *)
(***************************************************************************)
EXTENDS Fdt, FiniteSets

(* PCI_MAX_BUS and PCI_MAX_DEVICE, 255 and 31 in the code. *)
MaxBus == 1
MaxDev == 2

(* The walk over the controllers need not end; the model follows this many. *)
MaxFound == 6

NotFound == 255

(* incrementBusDev; behind the last bus the number spills into the segment, *)
(* which the search does not look at.                                       *)
IncrementBusDev(bus, dev) ==
  IF dev # MaxDev THEN <<bus, dev + 1>> ELSE <<(bus + 1) % (MaxBus + 1), 0>>

(* palPcieGetBdf: the first controller of a class by bus and device number;  *)
(* the device number to start from holds on every bus.  0 is no controller,  *)
(* and also the BDF of the first device of the first bus.                    *)
PcieGetBdf(pci, class, start) ==
  LET hit == {k \in DOMAIN pci : /\ pci[k].class = class
                                 /\ pci[k].bus \in start[1] .. MaxBus
                                 /\ pci[k].dev \in start[2] .. MaxDev}
      before(k, m) == \/ pci[k].bus < pci[m].bus
                      \/ pci[k].bus = pci[m].bus /\ pci[k].dev < pci[m].dev
                      \/ pci[k].bus = pci[m].bus /\ pci[k].dev = pci[m].dev /\ k <= m
      first == CHOOSE k \in hit : \A m \in hit : before(k, m)
  IN  IF hit = {} \/ <<pci[first].bus, pci[first].dev>> = <<0, 0>> THEN 0 ELSE first

(* The loops of pal_peripheral_create_info_table over the controllers of a *)
(* class.                                                                  *)
Controllers(pci, class) ==
  LET Find[n \in 0 .. MaxFound] ==
        LET k     == IF n = 0 THEN 0 ELSE Find[n - 1][Len(Find[n - 1])]
            start == IF n = 0 THEN <<0, 0>> ELSE IncrementBusDev(pci[k].bus, pci[k].dev)
        IN  IF n = 0 THEN <<0>>
            ELSE IF n > 1 /\ k = 0 THEN Find[n - 1]
            ELSE Append(Find[n - 1],
                        PcieGetBdf(pci, class, IF n = 1 THEN <<0, 0>> ELSE start))
  IN  SelectSeq(Find[MaxFound], LAMBDA k : k # 0)

(* An entry of the table; fields that are not set keep what the memory held. *)
Peripheral(type, base0, base1, irq, bdf) ==
  [type |-> type, base0 |-> base0, base1 |-> base1, irq |-> irq, bdf |-> bdf]

FromPci(pci, type) ==
  LET found == Controllers(pci, type)
  IN  [k \in DOMAIN found |->
         Peripheral(type, pci[found[k]].bar0, Junk, Junk,
                    <<pci[found[k]].bus, pci[found[k]].dev>>)]

FromSpcr(spcr) ==
  [k \in DOMAIN spcr |-> Peripheral("uart", spcr[k].base, Junk, spcr[k].gsiv, <<>>)]

NoBdf == <<0, 0>>

-----------------------------------------------------------------------------
(* The number of an interrupt that is no SPI is 0; only the function for     *)
(* UARTs adds the offset of the SPIs.                                        *)
DtIrq(node, offset) ==
  IF InterruptCells(node.chain) < 3 THEN Cell(node.intr, 0) + offset
  ELSE IF Cell(node.intr, 0) = GicSpi THEN Cell(node.intr, 1) + offset ELSE 0

DtUsb(node, ac) == Peripheral("usb", Cells(node.reg, 0, ac), Junk, DtIrq(node, 0), NoBdf)

(* The address goes to base1. *)
DtSata(node, ac) == Peripheral("sata", Junk, Cells(node.reg, 0, ac), DtIrq(node, 0), NoBdf)

ValidNode(node) ==
  node.reg # NoProp /\ node.intr # NoProp /\ InterruptCells(node.chain) \in 1 .. 3

(* The ranges of up to three parents.  Empty ranges, and ranges of a single  *)
(* tuple, lead on to the next parent; of several tuples the one that begins  *)
(* at the address gives the offset that is added to it.  A parent is         *)
(* [has, ranges, addr, size]; an address of no use is -1.                    *)
MaxParents == 3

RangeOffset(parents, base) ==
  LET Up[k \in 1 .. MaxParents + 1, addr \in 0 .. Word * Word] ==
        LET p    == parents[k]
            pa   == parents[k + 1].addr
            step == p.addr + pa + p.size
            tuples == {t \in 0 .. Len(p.ranges) \div step - 1 :
                         Cells(p.ranges, t * step, p.addr) = addr}
            first == CHOOSE t \in tuples : \A u \in tuples : t <= u
        IN  IF k > MaxParents \/ k \notin DOMAIN parents THEN 0
            ELSE IF ~p.has THEN 0
            ELSE IF p.ranges = <<>> THEN Up[k + 1, addr]
            ELSE IF k + 1 \notin DOMAIN parents THEN -1
            ELSE IF p.addr \notin 1 .. 2 \/ pa \notin 1 .. 2 \/ p.size < 0 THEN -1
            ELSE IF Len(p.ranges) = step THEN Up[k + 1, Cells(p.ranges, p.addr, pa)]
            ELSE IF tuples = {} THEN 0
            ELSE Cells(p.ranges, first * step + p.addr, pa)
  IN  Up[1, base]

DtUart(node, ac) ==
  LET base == Cells(node.reg, 0, ac)
  IN  Peripheral("uart", base + RangeOffset(node.parents, base), Junk,
                 DtIrq(node, SpiOffset), NoBdf)

ValidUart(node, ac) ==
  ValidNode(node) /\ RangeOffset(node.parents, Cells(node.reg, 0, ac)) # -1

(* The nodes that a function reaches, string by string; a bad node, or bad   *)
(* cells of the parent of the first node of a string, end it.  `valid` holds *)
(* the good nodes with the number of address cells for which they are.       *)
DtNodes(strings, nodes, skipped, valid) ==
  LET group(s) == SelectSeq(nodes, LAMBDA n : n.compatible = s)
      node(acc, n, ac) ==
        IF acc.ret \/ n \in skipped THEN acc
        ELSE IF <<n, ac>> \in valid THEN [acc EXCEPT !.found = Append(@, [node |-> n, ac |-> ac])]
        ELSE [acc EXCEPT !.ret = TRUE]
      string(acc, s) ==
        LET g == group(s)
        IN  IF acc.ret \/ g = <<>> THEN acc
            ELSE IF g[1].psize < 0 \/ g[1].paddr \notin 1 .. 2 THEN [acc EXCEPT !.ret = TRUE]
            ELSE FoldLeft(LAMBDA a, n : node(a, n, g[1].paddr), acc, g)
  IN  FoldLeft(string, [ret |-> FALSE, found |-> <<>>], strings).found

(* pal_peripheral_usb_create_info_table_dt, _sata_ and _uart_ *)
DtUsbs(dt) ==
  LET found == DtNodes(<<"generic-ohci", "generic-ehci">>, dt.usb,
                       {}, {<<n, ac>> \in Range(dt.usb) \X (1 .. 2) : ValidNode(n)})
  IN  [k \in DOMAIN found |-> DtUsb(found[k].node, found[k].ac)]

DtSatas(dt) ==
  LET found == DtNodes(<<"generic-ahci">>, dt.sata,
                       {}, {<<n, ac>> \in Range(dt.sata) \X (1 .. 2) : ValidNode(n)})
  IN  [k \in DOMAIN found |-> DtSata(found[k].node, found[k].ac)]

DtUarts(dt) ==
  LET found == DtNodes(<<"arm,sbsa-uart", "arm,pl011">>, dt.uart,
                       {n \in Range(dt.uart) : n.disabled},
                       {<<n, ac>> \in Range(dt.uart) \X (1 .. 2) : ValidUart(n, ac)})
  IN  [k \in DOMAIN found |-> DtUart(found[k].node, found[k].ac)]

(* num_all is never set. *)
TableOf(usb, sata, uart) ==
  [info |-> usb \o sata \o uart,
   num  |-> [usb |-> Len(usb), sata |-> Len(sata), uart |-> Len(uart), all |-> Junk]]

(* pal_peripheral_create_info_table without and with a device tree. *)
AcpiPeripheralTable(fw) ==
  TableOf(FromPci(fw.pci, "usb"), FromPci(fw.pci, "sata"), FromSpcr(fw.spcr))

PeripheralTable(fw) ==
  LET acpi == AcpiPeripheralTable(fw)
      or(type, pci, dt) == IF acpi.num[type] = 0 THEN dt ELSE pci
  IN  TableOf(or("usb", FromPci(fw.pci, "usb"), DtUsbs(fw.dt)),
              or("sata", FromPci(fw.pci, "sata"), DtSatas(fw.dt)),
              or("uart", FromSpcr(fw.spcr), DtUarts(fw.dt)))

(* The first entry from which on a table holds instance + 1 of a kind. *)
InstanceOf(info, types, instance) ==
  LET hit == {k \in DOMAIN info : /\ info[k].type \in types
                                  /\ Cardinality({m \in 1 .. k - 1 : info[m].type \in types})
                                       = instance}
  IN  IF hit = {} THEN NotFound ELSE (CHOOSE k \in hit : TRUE) - 1

(* val_peripheral_get_entry_index; PERIPHERAL_TYPE_NONE is every type. *)
PeripheralIndex(table, type, instance) ==
  InstanceOf(table.info, IF type = "none" THEN {"usb", "sata", "uart"} ELSE {type}, instance)

(* val_peripheral_get_info *)
PeripheralInfo(table, type, field, instance) ==
  LET i == PeripheralIndex(table, type, instance)
  IN  IF i = NotFound THEN 0 ELSE table.info[i + 1][field]

-----------------------------------------------------------------------------
IsUefiMemory(type) == type \in {"reserved", "loader", "boot", "runtime", "acpi"}
IsNormalMemory(type) == type = "conventional"
IsDeviceMemory(type) == type \in {"mmio", "ioport", "persistent"}

(* pal_memory_create_info_table; without a memory map the table is not ended *)
(* at all.                                                                   *)
MemoryTable(fw) ==
  LET kind(t) == IF IsUefiMemory(t) THEN "reserved"
                 ELSE IF IsNormalMemory(t) THEN "normal"
                 ELSE IF IsDeviceMemory(t) THEN "device" ELSE "not_populated"
  IN  [ended |-> fw.memmap.ok,
       info  |-> [k \in DOMAIN fw.memmap.regions |->
                    LET r == fw.memmap.regions[k]
                    IN  [type |-> kind(r.type), phy |-> r.start, size |-> r.pages]]]

(* val_memory_get_entry_index *)
MemoryIndex(table, type, instance) == InstanceOf(table.info, {type}, instance)

(* val_memory_get_addr *)
MemoryAddr(table, type, instance) ==
  LET i == MemoryIndex(table, type, instance)
  IN  IF type \notin {"device", "normal"} \/ i = NotFound THEN 0 ELSE table.info[i + 1].phy

(* Mutant of MemoryInfo: the address behind a region belongs to it. *)
MemoryInfo_Inclusive(table, addr) ==
  LET hit == SelectSeq(table.info, LAMBDA r : addr >= r.phy /\ addr <= r.phy + r.size)
  IN  IF hit = <<>> THEN "not_populated" ELSE hit[1].type

(* val_memory_get_info: the first region that holds the address. *)
MemoryInfo(table, addr) ==
  LET hit == SelectSeq(table.info, LAMBDA r : addr >= r.phy /\ addr < r.phy + r.size)
  IN  IF hit = <<>> THEN "not_populated" ELSE hit[1].type

(* val_get_max_memory: a region that begins where the maximum stands is not *)
(* counted.                                                                 *)
MaxMemory(table) ==
  FoldLeft(LAMBDA max, r : IF r.phy > max THEN r.phy + r.size ELSE max, 0, table.info)

(* pal_memory_get_unpopulated_addr: a hole at address 0 gives its place to  *)
(* the next one.                                                            *)
UnpopulatedAddr(gcd, instance) ==
  LET holes == SelectSeq(gcd, LAMBDA r : ~r.exists)
      hit   == {k \in DOMAIN holes : k > instance /\ holes[k].base # 0}
  IN  IF hit = {} THEN -1 ELSE holes[CHOOSE k \in hit : \A m \in hit : k <= m].base
=============================================================================
