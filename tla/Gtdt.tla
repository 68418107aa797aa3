------------------------------- MODULE Gtdt --------------------------------
(***************************************************************************)
(* The timer and the watchdog information tables: how they are filled from *)
(* the ACPI GTDT or, when there is none, from the device tree              *)
(* (pal_timer_wd.c), and how tests read them (acs_timer.c, acs_wd.c).      *)
(*                                                                         *)
(* A GTDT is [header, entries]; an entry is a block of timer frames or a   *)
(* watchdog.  A device tree is [systimer, memtimer, wd], each a sequence   *)
(* of nodes.  NoGtdt and NoDt stand for firmware without the table.        *)
(***************************************************************************)
EXTENDS Fdt

NoGtdt == [entries |-> <<>>, header |-> <<>>]
NoDt   == [systimer |-> <<>>, memtimer |-> <<>>, wd |-> <<>>]

(* The gsivs of the header, in the order in which a device tree lists them, *)
(* and el2_virt_timer_gsiv, which only the platform override sets.          *)
Private == <<"s_el1", "ns_el1", "virtual", "el2">>
El2VirtGsiv == 28
AlwaysOn    == 4

Frame(num, base, gsiv, virt, secure) ==
  [frame_num |-> num, base |-> base, gsiv |-> gsiv, virt |-> virt, secure |-> secure]
JunkFrame == Frame(Junk, Junk, Junk, Junk, FALSE)

(* The override changes a field of the header and, when the build asks for *)
(* it, replaces the first block; this build does not.                      *)
PlatformOverride(table) == [table EXCEPT !.header.gsiv["el2_virt"] = El2VirtGsiv]

EmptyHeader == [gsiv |-> [k \in {"s_el1", "ns_el1", "virtual", "el2", "el2_virt"} |-> 0],
                on |-> FALSE, num |-> 0]

(* pal_timer_create_info_table: every GT block becomes an entry, watchdogs  *)
(* are passed over, and num_platform_timer counts the frames of all blocks. *)
AcpiTimerTable(gtdt) ==
  LET blocks == SelectSeq(gtdt.entries, LAMBDA e : e.type = "block")
      gt     == [b \in DOMAIN blocks |->
                   [cntl |-> blocks[b].cntl, frames |-> blocks[b].frames]]
      num    == FoldLeft(LAMBDA n, e : n + Len(e.frames), 0, blocks)
  IN  PlatformOverride(
        [header |-> [gsiv |-> [k \in {"s_el1", "ns_el1", "virtual", "el2", "el2_virt"} |->
                                 IF k = "el2_virt" THEN 0 ELSE gtdt.header[k]],
                     on |-> gtdt.header.on, num |-> num],
         gt |-> gt])

(* The four interrupts of the system timer.  With three cells the number is *)
(* consumed only when the type cell says PPI, and the flag cell is skipped. *)
DtPrivate(node) ==
  LET cells == InterruptCells(node.chain)
      three(acc, k) ==
        IF Cell(node.intr, acc.index) = GicPpi
        THEN [index |-> acc.index + 3,
              gsiv  |-> Append(acc.gsiv, Cell(node.intr, acc.index + 1) + PpiOffset)]
        ELSE [index |-> acc.index + 2, gsiv |-> Append(acc.gsiv, 0)]
      plain == [k \in 1 .. 4 |-> Cell(node.intr, (k - 1) * cells)]
  IN  IF cells = 3
      THEN FoldLeft(three, [index |-> 0, gsiv |-> <<>>], <<1, 2, 3, 4>>).gsiv
      ELSE plain

DtHeader(node) ==
  LET gsiv == DtPrivate(node)
  IN  [gsiv |-> [k \in {"s_el1", "ns_el1", "virtual", "el2", "el2_virt"} |->
                   IF k = "el2_virt" THEN 0
                   ELSE gsiv[CHOOSE i \in 1 .. 4 : Private[i] = k]],
       on |-> node.on, num |-> 0]

(* Mutant of DtFrame: the flag cell of the first interrupt is not skipped. *)
DtFrame_FlagCell(f, addr) ==
  LET virt == IF Len(f.intr) <= InterruptCells(f.chain) THEN 0
              ELSE IF Cell(f.intr, 2) = GicSpi THEN Cell(f.intr, 3) + SpiOffset ELSE 0
  IN  Frame(f.number, Cells(f.reg, 0, addr), Cell(f.intr, 1) + SpiOffset, virt, FALSE)

(* One frame of a memory mapped timer: an interrupt that is no SPI is 0, and *)
(* its number is not consumed either.  The second interrupt is optional.     *)
DtFrame(f, addr) ==
  LET cells == InterruptCells(f.chain)
      spi   == Cell(f.intr, 0) = GicSpi
      at    == IF spi THEN 3 ELSE 2
      gsiv  == IF cells < 3 THEN Cell(f.intr, 0)
               ELSE IF spi THEN Cell(f.intr, 1) + SpiOffset ELSE 0
      virt  == IF Len(f.intr) <= cells THEN 0
               ELSE IF cells < 3 THEN Cell(f.intr, cells)
               ELSE IF Cell(f.intr, at) = GicSpi THEN Cell(f.intr, at + 1) + SpiOffset
               ELSE 0
  IN  Frame(f.number, Cells(f.reg, 0, addr), gsiv, virt, FALSE)

ValidFrame(f) ==
  f.reg # NoProp /\ f.intr # NoProp /\ InterruptCells(f.chain) \in 1 .. 3

(* The frames up to the first one that ends the function. *)
FramePrefix(frames) ==
  LET bad == {k \in DOMAIN frames : ~ValidFrame(frames[k])}
  IN  IF bad = {} THEN frames
      ELSE SubSeq(frames, 1, (CHOOSE k \in bad : \A m \in bad : k <= m) - 1)

(* The second half of pal_timer_create_info_table_dt.  It returns early in   *)
(* many places; num_platform_timer is set only when it reaches its end, so a *)
(* bad frame leaves a block with frames behind a count of 0.                 *)
DtBlocks(header, mem) ==
  IF mem = <<>> \/ mem[1].psize < 0 \/ mem[1].paddr \notin 1 .. 2 \/ mem[1].reg = NoProp
  THEN [header |-> header, gt |-> <<[cntl |-> Junk, frames |-> <<>>]>>]
  ELSE LET node   == mem[1]
           cntl   == Cells(node.reg, 0, node.paddr)
           usable == node.size >= 0 /\ node.addr \in 1 .. 2
           good   == IF usable THEN FramePrefix(node.frames) ELSE <<>>
           frames == [k \in DOMAIN good |-> DtFrame(good[k], node.addr)]
           whole  == usable /\ Len(good) = Len(node.frames)
       IN  [header |-> [header EXCEPT !.num = IF whole THEN Len(frames) ELSE 0],
            gt     |-> <<[cntl |-> cntl, frames |-> frames]>>]

DtTimerTable(dt) ==
  LET sys == FirstCompatible(<<"arm,armv8-timer", "arm,armv7-timer">>, dt.systimer)
      mem == FirstCompatible(<<"arm,armv7-timer-mem">>, dt.memtimer)
      nothing == [header |-> EmptyHeader, gt |-> <<[cntl |-> Junk, frames |-> <<>>]>>]
  IN  IF sys = <<>> \/ InterruptCells(sys[1].chain) \notin 1 .. 3 \/ sys[1].intr = NoProp
      THEN nothing
      ELSE DtBlocks(DtHeader(sys[1]), mem)

(* pal_timer_create_info_table of the platform that knows device trees. *)
TimerTable(fw) ==
  IF fw.gtdt = NoGtdt THEN DtTimerTable(fw.dt) ELSE AcpiTimerTable(fw.gtdt)

(* val_platform_timer_get_entry_index: both comparisons are off by one. *)
EntryIndex(table, instance) ==
  LET count(b) == IF b + 1 \in DOMAIN table.gt THEN Len(table.gt[b + 1].frames) ELSE Junk
      F[b \in 0 .. Len(table.gt)] ==
        IF b = 0 THEN instance ELSE F[b - 1] - count(b - 1)
      stop == {b \in 0 .. Len(table.gt) : F[b] <= count(b)}
      block == CHOOSE b \in stop : \A c \in stop : b <= c
  IN  IF instance > table.header.num THEN <<>> ELSE <<block, F[block]>>

(* val_timer_get_info for the questions about one memory mapped timer; when *)
(* the instance is not found the switch falls through to the EL1 flags.     *)
TimerInfo(table, instance) ==
  LET at == EntryIndex(table, instance)
      block == table.gt[at[1] + 1]
  IN  IF at = <<>>
      THEN [cntl |-> IF table.header.on THEN AlwaysOn ELSE 0, frame |-> JunkFrame]
      ELSE IF at[1] + 1 \notin DOMAIN table.gt THEN [cntl |-> Junk, frame |-> JunkFrame]
      ELSE [cntl  |-> block.cntl,
            frame |-> IF at[2] + 1 \in DOMAIN block.frames THEN block.frames[at[2] + 1]
                      ELSE JunkFrame]

-----------------------------------------------------------------------------
(* A watchdog of the table. *)
WdInfo(ctrl, refresh, gsiv, flags) ==
  [ctrl |-> ctrl, refresh |-> refresh, gsiv |-> gsiv, flags |-> flags]

(* pal_wd_create_info_table; the override of the build is empty. *)
AcpiWdTable(gtdt) ==
  LET wds == SelectSeq(gtdt.entries, LAMBDA e : e.type = "wd")
  IN  [num |-> Len(wds),
       info |-> [k \in DOMAIN wds |->
                   WdInfo(wds[k].ctrl, wds[k].refresh, wds[k].gsiv, wds[k].flags)]]

(* Mode and polarity of an interrupt flag, as polarity * 2 + mode. *)
TriggerFlags == [none |-> 0, rising |-> 1, falling |-> 3, high |-> 0, low |-> 2]
TriggerOf(flag) ==
  CASE flag = 0 -> "none" [] flag = 1 -> "rising" [] flag = 2 -> "falling"
    [] flag = 4 -> "high" [] flag = 8 -> "low"    [] OTHER -> "invalid"

(* The interrupt of a watchdog node; any type cell but 0 makes a PPI. *)
DtWdIntr(node) ==
  LET cells == InterruptCells(node.chain)
      base  == IF Cell(node.intr, 0) # 0 THEN PpiOffset ELSE SpiOffset
  IN  CASE cells = 3 -> [gsiv |-> Cell(node.intr, 1) + base,
                         trigger |-> TriggerOf(Cell(node.intr, 2))]
        [] cells = 2 -> [gsiv |-> Cell(node.intr, 0),
                         trigger |-> TriggerOf(Cell(node.intr, 1))]
        [] OTHER     -> [gsiv |-> Cell(node.intr, 0), trigger |-> "none"]

(* One node.  The index that the interrupts have used is still in index when *)
(* the reg property of the next node is read.                                *)
DtWdNode(dt, acc, node) ==
  LET cells == InterruptCells(node.chain)
      sc    == dt.wd[1].psize
      ac    == dt.wd[1].paddr
      intr  == DtWdIntr(node)
      wd(f) == WdInfo(Cells(node.reg, acc.index, ac), Cells(node.reg, acc.index + ac + sc, ac),
                      intr.gsiv, f)
  IN  IF acc.ret THEN acc
      ELSE IF node.reg = NoProp \/ node.intr = NoProp \/ cells \notin 1 .. 3
      THEN [acc EXCEPT !.ret = TRUE]
      ELSE IF intr.trigger = "invalid"
      THEN [acc EXCEPT !.ret = TRUE, !.info = Append(@, wd(Junk))]
      ELSE [acc EXCEPT !.index = cells - 1,
                       !.info  = Append(@, wd(TriggerFlags[intr.trigger]))]

DtWdTable(dt) ==
  LET nodes == ByCompatible(<<"arm,sbsa-gwdt">>, dt.wd)
      walk  == FoldLeft(LAMBDA acc, node : DtWdNode(dt, acc, node),
                        [ret |-> FALSE, index |-> 0, info |-> <<>>], nodes)
  IN  IF nodes = <<>> \/ nodes[1].psize \notin 1 .. 2 \/ nodes[1].paddr \notin 1 .. 2
      THEN [num |-> 0, info |-> <<>>]
      ELSE [num |-> Len(walk.info), info |-> walk.info]

WdTable(fw) == IF fw.gtdt = NoGtdt THEN DtWdTable(fw.dt) ELSE AcpiWdTable(fw.gtdt)

(* val_wd_get_info for an index below WD_INFO_COUNT. *)
WdGet(table, index) == table.info[index + 1]

(* val_wd_set_ws0.  The offset register is a word, or two when the revision  *)
(* is 1.  The revision is read through a control base that is cut to one     *)
(* word: behind a wrong address it is anything, `other`.                     *)
BaseCut(ctrl) == ctrl % Word # ctrl

WdSetWs0(table, index, timeout, freq, rev, other) ==
  LET data  == IF BaseCut(WdGet(table, index).ctrl) THEN other ELSE rev
      count == freq * timeout
  IN  IF timeout = 0 THEN [ret |-> 0, armed |-> FALSE, wor |-> 0]
      ELSE IF data = 0 /\ count >= Word THEN [ret |-> 1, armed |-> FALSE, wor |-> 0]
      ELSE [ret |-> 0, armed |-> TRUE,
            wor |-> IF data = 1 THEN count % (Word * Word) ELSE count % Word]
=============================================================================
