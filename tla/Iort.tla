------------------------------- MODULE Iort --------------------------------
(***************************************************************************)
(* The IO virtualisation table: the blocks that pal_iovirt.c makes of the  *)
(* nodes of the ACPI IORT, following their references, or of a device      *)
(* tree, and the translation of requester IDs that acs_iovirt.c reads off  *)
(* it.                                                                     *)
(*                                                                         *)
(* An IORT is [nodes, count, behind]: count is what its header claims, and *)
(* behind is what the words after the mappings of a block look like when   *)
(* they are read as a mapping.  A node is [type, data, maps, ctx, ref]; a  *)
(* mapping is [base, count, out, ref] with ref the index of another node,  *)
(* and count is the number of IDs minus one.  Blocks are laid out one      *)
(* behind the other; an offset is the place of a block in that layout.     *)
(***************************************************************************)
EXTENDS Fdt, FiniteSets

(* IDs are numbers below IdSpace (2^32 in the code). *)
IdSpace == 64

Smmus == {"smmu", "smmuv3"}
Types == {"its", "named", "rc", "pmcg"} \cup Smmus

NoCount == [t \in {"its", "named", "rc", "pmcg", "smmu"} |-> 0]
CountedAs(type) == IF type \in Smmus THEN "smmu" ELSE type

EmptyIovirt == [blocks |-> <<>>, num |-> 0, count |-> NoCount]

(* The data of a block: smmu_base of a root complex is known only after its *)
(* mappings, node_ref of a PMCG after the node it refers to.                *)
BlockData(node) ==
  CASE node.type = "rc"     -> [node.data EXCEPT !.smmu_base = 0]
    [] node.type = "smmu"   -> [rev |-> 2, base |-> node.data.base]
    [] node.type = "smmuv3" -> [rev |-> 3, base |-> node.data.base]
    [] OTHER                -> node.data

Block(node, data) ==
  [type |-> node.type, n |-> Len(node.maps), data |-> data, maps |-> <<>>, flags |-> {}]

(* Write block b at place p: what was behind it is no longer reached. *)
Place(table, p, b) == [table EXCEPT !.blocks = Append(SubSeq(@, 1, p - 1), b)]

(* find_block looks at the first num_blocks blocks.  Only finished blocks are *)
(* counted, but unfinished ones come before their children in the layout: a   *)
(* child that was just finished may be out of sight.                          *)
FindBlock(table, b) ==
  LET found == {k \in 1 .. table.num : /\ k \in DOMAIN table.blocks
                                       /\ table.blocks[k].type = b.type
                                       /\ table.blocks[k].n = b.n
                                       /\ table.blocks[k].data = b.data}
  IN  IF found = {} THEN 0 ELSE CHOOSE k \in found : \A m \in found : k <= m

(* smmu_ctx_int_distinct *)
CtxIntDistinct(ctx) == \A i, j \in DOMAIN ctx : i # j => ctx[i] # ctx[j]

CtxFlags(node) ==
  IF node.type = "smmu" /\ ~CtxIntDistinct(node.ctx) THEN {"ctx_int"} ELSE {}

(* iort_add_block puts node n at place p unless it is there already.  The    *)
(* result is the table, the offset of the block and the place of the next    *)
(* one.  The node that a PMCG refers to is added behind it, but then the     *)
(* place of the next block is computed again as if it had not been.          *)
RECURSIVE AddBlock(_, _, _, _), AddMaps(_, _, _, _, _)

AddBlock(iort, table, n, p) ==
  LET node == iort.nodes[n]
      base == BlockData(node)
      pre  == Place(table, p, Block(node, base))
      ref  == AddBlock(iort, pre, node.ref, p + 1)
      data == IF node.type = "pmcg" THEN [base EXCEPT !.node_ref = ref.offset] ELSE base
      put  == IF node.type = "pmcg"
              THEN [ref.table EXCEPT !.blocks[p].data = data] ELSE pre
      old  == FindBlock(put, Block(node, data))
      new  == [put EXCEPT !.blocks[p].flags = CtxFlags(node)]
      done == AddMaps(iort, [table |-> new, offset |-> p, next |-> p + 1], p, node, 1)
  IN  IF node.type \notin Types THEN [table |-> table, offset |-> -1, next |-> p]
      ELSE IF old # 0 THEN [table |-> put, offset |-> old, next |-> p]
      ELSE [table  |-> [done.table EXCEPT !.num = @ + 1, !.count[CountedAs(node.type)] = @ + 1],
            offset |-> p, next |-> done.next]

(* The mappings of a block, from the k-th on.  The last one decides which *)
(* SMMU a root complex is behind.                                         *)
AddMaps(iort, acc, p, node, k) ==
  IF node.type = "its" \/ k > Len(node.maps) THEN acc
  ELSE LET m   == node.maps[k]
           r   == AddBlock(iort, acc.table, m.ref, acc.next)
           tgt == r.table.blocks[r.offset]
           smmu == IF tgt.type \in Smmus THEN tgt.data.base ELSE 0
           mapped == [r.table EXCEPT !.blocks[p].maps = Append(@, [m EXCEPT !.ref = r.offset])]
           after == IF node.type = "rc"
                    THEN [mapped EXCEPT !.blocks[p].data.smmu_base = smmu] ELSE mapped
       IN  AddMaps(iort, [acc EXCEPT !.table = after, !.next = r.next], p, node, k + 1)

(* check_mapping_overlap compares the outputs of two mappings to one block; *)
(* its ranges end one ID early, and a range of a single ID is empty.        *)
Overlap(key, m) ==
  LET end(r) == (r.out + r.count - 1 + IdSpace) % IdSpace
  IN  \/ key.out >= m.out /\ key.out <= end(m)
      \/ end(key) >= m.out /\ end(key) <= end(m)
      \/ key.out < m.out /\ end(key) > end(m)

(* Each mapping is compared with those of the later blocks, and in its own  *)
(* block with as many entries behind it as the block has other mappings:    *)
(* for every key but the first the last of these lie behind the mappings.   *)
CheckMappingOverlap(table, behind) ==
  LET mapped  == {b \in 1 .. table.num : b \in DOMAIN table.blocks /\ table.blocks[b].type # "its"}
      n(b)    == Len(table.blocks[b].maps)
      keys    == UNION {{b} \X (1 .. n(b)) : b \in mapped}
      others(x) == ({x[1]} \X (x[2] + 1 .. x[2] + n(x[1]) - 1))
                     \cup {y \in keys : y[1] > x[1]}
      mapAt(x) == IF x \in keys THEN table.blocks[x[1]].maps[x[2]] ELSE behind
      hits == UNION {{<<x, y>> : y \in {y \in others(x) : /\ mapAt(x).ref = mapAt(y).ref
                                                         /\ Overlap(mapAt(x), mapAt(y))}} :
                       x \in keys}
      kind(h) == IF table.blocks[mapAt(h[1]).ref].type = "its"
                 THEN "devid_overlap" ELSE "strid_overlap"
      flagsOf(b) == {kind(h) : h \in {h \in hits : b \in {h[1][1], h[2][1]}}}
  IN  [table EXCEPT !.blocks = [b \in DOMAIN @ |-> [@[b] EXCEPT !.flags = @ \cup flagsOf(b)]]]

(* pal_iovirt_create_info_table: a header that claims more nodes than there *)
(* are ends the function before the overlap check.                          *)
AcpiIovirtTable(iort) ==
  LET walk == FoldLeft(LAMBDA acc, n : AddBlock(iort, acc.table, n, acc.next),
                       [table |-> EmptyIovirt, offset |-> 0, next |-> 1],
                       [n \in DOMAIN iort.nodes |-> n])
  IN  IF iort.count > Len(iort.nodes) THEN walk.table
      ELSE CheckMappingOverlap(walk.table, iort.behind)

-----------------------------------------------------------------------------
(* The device tree has no mappings.  The phandle in iommu-map is used as if  *)
(* it were the offset of the node: where no node begins there the program    *)
(* reads through a null pointer.                                             *)
DtSmmus(dt, compatible, type, rev) ==
  LET nodes == SelectSeq(dt, LAMBDA n : n.compatible = compatible)
      noreg == {k \in DOMAIN nodes : nodes[k].reg = NoProp}
      upto  == IF noreg = {} THEN nodes
               ELSE SubSeq(nodes, 1, (CHOOSE k \in noreg : \A m \in noreg : k <= m) - 1)
      usable == nodes # <<>> /\ nodes[1].psize >= 1 /\ nodes[1].paddr >= 1
  IN  [ret    |-> nodes # <<>> /\ (~usable \/ noreg # {}),
       blocks |-> [k \in DOMAIN (IF usable THEN upto ELSE <<>>) |->
                     [type |-> type, n |-> 0, maps |-> <<>>, flags |-> {},
                      data |-> [rev |-> rev, base |-> Cells(upto[k].reg, 0, nodes[1].paddr)]]]]

(* The root complexes with an iommu-map.  cca and ats_attr are inverted: 1 *)
(* when the property is missing.                                           *)
DtRcs(dt) ==
  LET rcs == SelectSeq(dt, LAMBDA n : n.compatible = "pci" /\ n.iommu # 0)
      at(offset) == {k \in DOMAIN dt : dt[k].offset = offset /\ dt[k].reg # NoProp}
      base(n) == IF at(n.iommu) = {} THEN -1
                 ELSE Cells(dt[CHOOSE k \in at(n.iommu) : TRUE].reg, 0, 2)
  IN  [k \in DOMAIN rcs |->
         [type |-> "rc", n |-> 0, maps |-> <<>>, flags |-> {},
          data |-> [segment |-> 0, cca |-> IF rcs[k].coherent THEN 0 ELSE 1,
                    ats |-> IF rcs[k].ats THEN 0 ELSE 1, smmu_base |-> base(rcs[k])]]]

(* pal_iovirt_create_info_table_dt: SMMUs first, then root complexes; a bad *)
(* SMMU node ends the function.                                             *)
DtIovirtTable(dt, behind) ==
  LET v3  == DtSmmus(dt, "arm,smmu-v3", "smmuv3", 3)
      v2  == IF v3.ret THEN [ret |-> TRUE, blocks |-> <<>>]
             ELSE DtSmmus(dt, "arm,smmu-v1", "smmu", 2)
      pci == SelectSeq(dt, LAMBDA n : n.compatible = "pci")
      rcs == IF v2.ret \/ pci = <<>> \/ pci[1].psize < 0 \/ pci[1].paddr \notin 1 .. 2
             THEN <<>> ELSE DtRcs(dt)
      smmus == v3.blocks \o v2.blocks
  IN  CheckMappingOverlap(
        [blocks |-> smmus \o rcs, num |-> Len(smmus \o rcs),
         count  |-> [NoCount EXCEPT !["smmu"] = Len(smmus), !["rc"] = Len(rcs)]],
        behind)

(* pal_iovirt_create_info_table where both sources are known. *)
IovirtTable(fw) ==
  IF fw.iort.nodes = <<>> THEN DtIovirtTable(fw.dt, fw.iort.behind) ELSE AcpiIovirtTable(fw.iort)

-----------------------------------------------------------------------------
(* The blocks that the readers of the table see. *)
Seen(table) == SubSeq(table.blocks, 1, table.num)

OfType(table, types) == SelectSeq(Seen(table), LAMBDA b : b.type \in types)

(* val_iovirt_get_smmu_info and val_iovirt_get_pcie_rc_info *)
SmmuInfo(table, index) == OfType(table, Smmus)[index + 1].data
PcieRcInfo(table, index) == OfType(table, {"rc"})[index + 1].data

UniqueCtxIntid(table, index) == "ctx_int" \notin OfType(table, Smmus)[index + 1].flags
UniqueRidStridMap(table, index) == "strid_overlap" \notin OfType(table, {"rc"})[index + 1].flags

(* Mutant of InMap: the count is the number of IDs. *)
InMap_Exclusive(m, id) == id >= m.base /\ id < m.base + m.count

(* Both ends of a mapping belong to it. *)
InMap(m, id) == id >= m.base /\ id <= m.base + m.count

Translate(m, id) == (id - m.base) + m.out

NoDevice == [status |-> "err", did |-> 0, sid |-> 0, its |-> 0]

(* val_iovirt_get_device_info: the last mapping of the root complex that     *)
(* holds the requester ID wins, and the first one of the SMMU.               *)
GetDeviceInfo(table, rid, segment) ==
  LET rcs   == SelectSeq(Seen(table), LAMBDA b : b.type = "rc" /\ b.data.segment = segment)
      maps  == IF rcs = <<>> THEN <<>> ELSE SelectSeq(rcs[1].maps, LAMBDA m : InMap(m, rid))
      m     == maps[Len(maps)]
      id    == Translate(m, rid)
      block == table.blocks[m.ref]
      smaps == SelectSeq(block.maps, LAMBDA s : InMap(s, id))
      its   == table.blocks[smaps[1].ref]
  IN  IF maps = <<>> THEN NoDevice
      ELSE IF block.type = "its"
      THEN [status |-> "ok", did |-> id, sid |-> -1, its |-> block.data.ids[1]]
      ELSE IF block.type \notin Smmus \/ smaps = <<>> THEN NoDevice
      ELSE [status |-> "ok", did |-> Translate(smaps[1], id), sid |-> id,
            its |-> IF its.type = "its" THEN its.data.ids[1] ELSE 0]

(* The word that every block has where a root complex has its segment. *)
FirstWord(b) ==
  CASE b.type = "rc"    -> b.data.segment
    [] b.type = "its"   -> Len(b.data.ids)
    [] b.type \in Smmus -> b.data.rev
    [] b.type = "pmcg"  -> b.data.base
    [] OTHER            -> -1

(* pal_iovirt_get_rc_smmu_base does not look at the type of a block: the    *)
(* number of ITSs in a group, or the revision of an SMMU, may pass for the  *)
(* segment.  What such a block has in the place of smmu_base is 0.          *)
RcSmmuBase(table, segment) ==
  LET hit == SelectSeq(Seen(table), LAMBDA b : FirstWord(b) = segment)
  IN  IF hit # <<>> /\ hit[1].type = "rc" THEN hit[1].data.smmu_base ELSE 0

(* val_iovirt_get_rc_smmu_index: the last SMMU with that base, or -1. *)
RcSmmuIndex(table, segment) ==
  LET base  == RcSmmuBase(table, segment)
      smmus == OfType(table, Smmus)
      hit   == {k \in DOMAIN smmus : smmus[k].data.base = base}
  IN  IF base = 0 \/ hit = {} THEN -1 ELSE (CHOOSE k \in hit : \A m \in hit : k >= m) - 1
=============================================================================
