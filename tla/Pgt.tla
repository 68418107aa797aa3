-------------------------------- MODULE Pgt --------------------------------
(***************************************************************************)
(* The page tables the suite builds for the SMMU (val/src/acs_pgt.c).      *)
(*                                                                         *)
(* Addresses are counted in pages.  The sizes of the code are powers of    *)
(* two, so a mask is a remainder here and a shift is a quotient.  A table  *)
(* is a page of the heap; `tab` holds what is written in each, and forgets *)
(* what a page held that is free or lost, since every page is zeroed when  *)
(* it is allocated.  A caller keeps a descriptor of each page table it has *)
(* made.                                                                   *)
(*                                                                         *)
(* val_pgt_create runs in small steps: one per round of its loop, one per  *)
(* round of the loop of fill_translation_table, and one per return of it.  *)
(* `frame` is the stack of the calls of fill_translation_table.            *)
(***************************************************************************)
EXTENDS Integers, Sequences

CONSTANTS Descs,          \* the descriptors of the callers
          Heap,           \* addresses of the pages val_memory_alloc_pages can give
          Entries,        \* descriptors in a table, 2^bits_per_level; 512 for 4 KB
          Space,          \* input addresses, 2^(ias - page_size_log2)
          OutSpace,       \* output addresses, 2^(oas - page_size_log2)
          Low,            \* addresses of 32 bits, 2^(32 - page_size_log2)
          Attrs,          \* attributes a caller may ask for
          Arrays          \* arrays of regions the callers may pass, without the last
                          \* entry, whose length is 0

(* num_pgt_levels, the level of the base, and what one entry of a level spans. *)
Levels ==
  IF Space <= Entries THEN 1
  ELSE IF Space <= Entries * Entries THEN 2
  ELSE IF Space <= Entries * Entries * Entries THEN 3 ELSE 4

Top == 4 - Levels

Size(level) ==
  CASE level = 3 -> 1
    [] level = 2 -> Entries
    [] level = 1 -> Entries * Entries
    [] OTHER     -> Entries * Entries * Entries

Width(level) == IF level = Top THEN Space \div Size(Top) ELSE Entries

Index(va, level) == (va \div Size(level)) % Width(level)

Region == [va : Nat, pa : Nat, len : Nat \ {0}, attr : Attrs, aligned : BOOLEAN]

(* There are at most four levels, as on every Armv8 SMMU, and the sizes fit, *)
(* being powers of two.  The heap lies within the input size, to which       *)
(* free_translation_table cuts the addresses of tables.  The callers ask for *)
(* regions within the input size.                                            *)
ASSUME PgtAssumption ==
  /\ Entries \in Nat /\ Entries >= 2
  /\ Space \in Nat /\ Space >= 2
  /\ Space <= Entries * Entries * Entries * Entries
  /\ Space % Size(Top) = 0
  /\ OutSpace \in Nat
  /\ Low \in Nat /\ Low >= 1
  /\ Heap \subseteq 1 .. Space - 1
  /\ Arrays \subseteq Seq(Region)
  /\ \A regions \in Arrays : regions # <<>> => (regions[1].va % Space) + regions[1].len <= Space

(* The heap lies below 4 GB.  Nothing in the code sees to it; above, the     *)
(* address of a table is cut when it is linked (FillReturn), and the walks   *)
(* and the next round of val_pgt_create go astray.                           *)
HeapBelow4G == Heap \subseteq 1 .. Low - 1

VARIABLES tab,    \* tab[p][i]: the i-th descriptor in page p
          used,   \* the pages that are allocated
          desc,   \* desc[d]: a page table, or None
          pc,     \* where val_pgt_create is
          call,   \* its arguments, and the round of its loop
          level,  \* the level of the fill_translation_table that runs
          frame,  \* frame[l]: the tt_desc of the call for level l
          taken,  \* history: the pages it has allocated and not freed again
          lost,   \* history: the pages that creations which failed left allocated
          made    \* history: what each table was allocated for

heap    == <<tab, used, made>>
running == <<pc, call, level, frame, taken>>
vars    == <<tab, used, desc, pc, call, level, frame, taken, lost, made>>

Slots   == 0 .. Entries - 1
Empty   == [kind |-> "none", out |-> 0, attr |-> "zero"]
Zeroed  == [i \in Slots |-> Empty]
NoSpan  == [level |-> 0, in |-> 0, out |-> 0, top |-> 0]
NoFrame == [tt |-> 0, in |-> 0, out |-> 0, top |-> 0]
NoCall  == [d |-> "none", regions |-> <<>>, tg |-> FALSE, round |-> 0]
None    == [root |-> 0, regions |-> <<>>, pages |-> {}]

-----------------------------------------------------------------------------
(* The heap.  val_memory_alloc_pages fails when the heap is used up;         *)
(* val_memory_set zeroes what it returned.                                   *)
Free == Heap \ used
CanAlloc == Free # {}
NewPage == CHOOSE p \in Free : TRUE

Alloc(p, span) ==
  /\ used' = used \cup {p}
  /\ tab' = [tab EXCEPT ![p] = Zeroed]
  /\ made' = [made EXCEPT ![p] = span]
  /\ taken' = taken \cup {p}

(* The pages that stay are the ones in keep. *)
Forget(keep) ==
  /\ tab' = [p \in Heap |-> IF p \in keep THEN tab[p] ELSE Zeroed]
  /\ made' = [p \in Heap |-> IF p \in keep THEN made[p] ELSE NoSpan]

Return ==
  /\ pc' = "idle"
  /\ call' = NoCall
  /\ level' = Top
  /\ frame' = [l \in Top .. 3 |-> NoFrame]
  /\ taken' = {}

-----------------------------------------------------------------------------
(* val_pgt_create allocates the base.  tg is FALSE when the granule asked    *)
(* for is not the page size.                                                 *)
FirstSpan(regions) ==
  IF regions = <<>> THEN [NoSpan EXCEPT !.level = Top]
  ELSE [level |-> Top, in |-> regions[1].va % Space, out |-> regions[1].pa,
        top |-> (regions[1].va % Space) + regions[1].len - 1]

PgtCreate(d, regions, tg) ==
  /\ pc = "idle"
  /\ desc[d] = None
  /\ IF CanAlloc
     THEN /\ Alloc(NewPage, FirstSpan(regions))
          /\ pc' = "region"
          /\ call' = [d |-> d, regions |-> regions, tg |-> tg, round |-> 1]
          /\ frame' = [frame EXCEPT ![Top].tt = NewPage]
          /\ UNCHANGED <<desc, level, lost>>
     ELSE UNCHANGED vars

(* Its loop goes once round for each region of the array, and looks at the   *)
(* first region every time.                                                  *)
MoreRegions == pc = "region" /\ call.round <= Len(call.regions)
FirstFits == call.regions[1].aligned /\ call.regions[1].pa < OutSpace /\ call.tg

RegionRefused ==
  /\ MoreRegions
  /\ ~FirstFits
  /\ lost' = lost \cup taken
  /\ Forget(used \ lost')
  /\ Return
  /\ UNCHANGED <<used, desc>>

(* Mutant: the top is the first address behind the region. *)
RegionStart_Top ==
  LET r == call.regions[1]
  IN  /\ MoreRegions
      /\ FirstFits
      /\ pc' = "fill"
      /\ frame' = [frame EXCEPT ![Top] = [tt |-> @.tt, in |-> r.va % Space, out |-> r.pa,
                                          top |-> (r.va % Space) + r.len]]
      /\ UNCHANGED <<heap, desc, call, level, taken, lost>>

RegionStart ==
  LET r == call.regions[1]
  IN  /\ MoreRegions
      /\ FirstFits
      /\ pc' = "fill"
      /\ frame' = [frame EXCEPT ![Top] = [tt |-> @.tt, in |-> r.va % Space, out |-> r.pa,
                                          top |-> (r.va % Space) + r.len - 1]]
      /\ UNCHANGED <<heap, desc, call, level, taken, lost>>

Created ==
  /\ pc = "region"
  /\ call.round > Len(call.regions)
  /\ desc' = [desc EXCEPT ![call.d] = [root |-> frame[Top].tt, regions |-> call.regions,
                                       pages |-> taken]]
  /\ Return
  /\ UNCHANGED <<heap, lost>>

-----------------------------------------------------------------------------
(* fill_translation_table.  The loop starts at the first address it is given *)
(* and goes on in steps of a block, whether or not that address is the start *)
(* of a block.                                                               *)
F == frame[level]
FIndex == Index(F.in, level)
Looping == pc = "fill" /\ F.in <= F.top

Advance(f, l) == [tt |-> f.tt, in |-> f.in + Size(l), out |-> f.out + Size(l), top |-> f.top]

IsBlock(in, out, top, l) ==
  in % Size(l) = 0 /\ out % Size(l) = 0 /\ top >= in + Size(l) - 1

Leaf(kind, out) ==
  /\ tab' = [tab EXCEPT ![F.tt][FIndex] = [kind |-> kind, out |-> out,
                                           attr |-> call.regions[1].attr]]
  /\ frame' = [frame EXCEPT ![level] = Advance(F, level)]
  /\ UNCHANGED <<used, made, desc, pc, call, level, taken, lost>>

(* ~(page_size - 1) has 32 bits, and takes the rest of the address away. *)
FillPage == Looping /\ level = 3 /\ Leaf("page", F.out % Low)

FillBlock ==
  /\ Looping
  /\ level < 3
  /\ IsBlock(F.in, F.out, F.top, level)
  /\ Leaf("block", F.out)

(* What is no block goes to a table of the next level: the one that is       *)
(* there, or a new one in place of nothing or of a block.                    *)
Nested ==
  /\ Looping
  /\ level < 3
  /\ ~IsBlock(F.in, F.out, F.top, level)

Bound(in, top, l) == IF top < in + Size(l) - 1 THEN top ELSE in + Size(l) - 1

Descend(next) ==
  /\ level' = level + 1
  /\ frame' = [frame EXCEPT ![level + 1] = [tt |-> next, in |-> F.in, out |-> F.out,
                                            top |-> Bound(F.in, F.top, level)]]
  /\ UNCHANGED <<desc, pc, call, lost>>

FillOld ==
  /\ Nested
  /\ tab[F.tt][FIndex].kind = "table"
  /\ Descend(tab[F.tt][FIndex].out)
  /\ UNCHANGED <<heap, taken>>

FillNew ==
  /\ Nested
  /\ tab[F.tt][FIndex].kind # "table"
  /\ CanAlloc
  /\ Alloc(NewPage, [level |-> level + 1, in |-> F.in, out |-> F.out,
                     top |-> Bound(F.in, F.top, level)])
  /\ Descend(NewPage)

FillFails ==
  /\ Nested
  /\ tab[F.tt][FIndex].kind # "table"
  /\ ~CanAlloc
  /\ pc' = "unwind"
  /\ UNCHANGED <<heap, desc, call, level, frame, taken, lost>>

(* A call that is through is linked from the table above, or ends a round    *)
(* of val_pgt_create.                                                        *)
FillReturn ==
  /\ pc = "fill"
  /\ level > Top
  /\ F.in > F.top
  /\ LET up == frame[level - 1]
     IN  /\ tab' = [tab EXCEPT ![up.tt][Index(up.in, level - 1)] =
                                 [kind |-> "table", out |-> F.tt % Low, attr |-> "zero"]]
         /\ frame' = [frame EXCEPT ![level] = NoFrame, ![level - 1] = Advance(up, level - 1)]
  /\ level' = level - 1
  /\ UNCHANGED <<used, made, desc, pc, call, taken, lost>>

FillDone ==
  /\ pc = "fill"
  /\ level = Top
  /\ F.in > F.top
  /\ pc' = "region"
  /\ call' = [call EXCEPT !.round = @ + 1]
  /\ UNCHANGED <<heap, desc, level, frame, taken, lost>>

(* A call that failed: its caller frees the table it had passed, and fails   *)
(* as well.  The tables that are complete are not freed.                     *)
UnwindNested ==
  /\ pc = "unwind"
  /\ level > Top
  /\ used' = used \ {F.tt}
  /\ taken' = taken \ {F.tt}
  /\ Forget(used' \ lost)
  /\ frame' = [frame EXCEPT ![level] = NoFrame]
  /\ level' = level - 1
  /\ UNCHANGED <<desc, pc, call, lost>>

(* Mutant: the base is freed, and no error is returned. *)
CreateFails_NoReturn ==
  /\ pc = "unwind"
  /\ level = Top
  /\ used' = used \ {F.tt}
  /\ taken' = taken \ {F.tt}
  /\ Forget(used' \ lost)
  /\ pc' = "region"
  /\ call' = [call EXCEPT !.round = @ + 1]
  /\ UNCHANGED <<desc, level, frame, lost>>

CreateFails ==
  /\ pc = "unwind"
  /\ level = Top
  /\ used' = used \ {F.tt}
  /\ lost' = lost \cup (taken \ {F.tt})
  /\ Forget(used' \ lost')
  /\ Return
  /\ UNCHANGED desc

-----------------------------------------------------------------------------
(* free_translation_table: the pages it frees below the tables of a level,   *)
(* and below a base.                                                         *)

(* Mutant: the tables of the last level are taken for pages. *)
FreedUnder_Early(tables, l) ==
  IF l >= 2 THEN {}
  ELSE UNION {{tab[p][i].out % Space : i \in {i \in 0 .. Width(l) - 1 : tab[p][i].kind = "table"}} :
                p \in tables}

FreedUnder(tables, l) ==
  IF l >= 3 THEN {}
  ELSE UNION {{tab[p][i].out % Space : i \in {i \in 0 .. Width(l) - 1 : tab[p][i].kind = "table"}} :
                p \in tables}

FreeTranslationTable(root) ==
  LET a == FreedUnder({root}, Top)
      b == FreedUnder(a, Top + 1)
      c == FreedUnder(b, Top + 2)
  IN  a \cup b \cup c

(* val_pgt_destroy *)
PgtDestroy(d) ==
  /\ pc = "idle"
  /\ desc[d] # None
  /\ used' = used \ (FreeTranslationTable(desc[d].root) \cup {desc[d].root})
  /\ desc' = [desc EXCEPT ![d] = None]
  /\ Forget(used' \ lost)
  /\ UNCHANGED <<running, lost>>

(* One step of a walk for va: w.e is a descriptor of level w.at, and a table *)
(* leads to the next level.  After three steps the walk is at its leaf.      *)
FirstEntry(d, va) == [e |-> tab[desc[d].root][Index(va, Top)], at |-> Top]

(* val_pgt_get_attributes.  A descriptor that was never written passes for a *)
(* block with attributes of zero; only the last level is checked.            *)
NextVirt(w, va) ==
  IF w.e.kind = "table" /\ w.at < 3
  THEN [e |-> tab[w.e.out % Space][Index(va, w.at + 1)], at |-> w.at + 1] ELSE w

GetAttributes(d, va) ==
  LET leaf == NextVirt(NextVirt(NextVirt(FirstEntry(d, va), va), va), va)
  IN  IF leaf.at = 3 /\ leaf.e.kind = "none" THEN "error" ELSE leaf.e.attr

-----------------------------------------------------------------------------
(* The SMMU walks the tables of Armv8 stage 1 or stage 2: what address it    *)
(* gets for va, or none.                                                     *)
NextPhys(w, va) ==
  IF w.e.kind = "table" /\ w.at < 3
  THEN [e |-> tab[w.e.out][Index(va, w.at + 1)], at |-> w.at + 1] ELSE w

Walk(d, va) ==
  LET leaf == NextPhys(NextPhys(NextPhys(FirstEntry(d, va), va), va), va)
  IN  IF leaf.e.kind = "none" THEN -1 ELSE leaf.e.out + (va % Size(leaf.at))

-----------------------------------------------------------------------------
Init ==
  /\ tab = [p \in Heap |-> Zeroed]
  /\ used = {}
  /\ desc = [d \in Descs |-> None]
  /\ pc = "idle"
  /\ call = NoCall
  /\ level = Top
  /\ frame = [l \in Top .. 3 |-> NoFrame]
  /\ taken = {}
  /\ lost = {}
  /\ made = [p \in Heap |-> NoSpan]

Create == \E d \in Descs, regions \in Arrays, tg \in BOOLEAN : PgtCreate(d, regions, tg)

Destroy == \E d \in Descs : PgtDestroy(d)

Next ==
  \/ Create \/ RegionRefused \/ RegionStart \/ Created
  \/ FillPage \/ FillBlock \/ FillOld \/ FillNew \/ FillFails \/ FillReturn \/ FillDone
  \/ UnwindNested \/ CreateFails
  \/ Destroy

Spec == Init /\ [][Next]_vars

-----------------------------------------------------------------------------
Live == {d \in Descs : desc[d] # None}

(* The tables the SMMU can reach from the base of a page table; no walk      *)
(* reads more than four.                                                     *)
Under(tables) ==
  UNION {{tab[p][i].out : i \in {i \in Slots : tab[p][i].kind = "table"}} : p \in tables}

Pages(d) ==
  LET a == {desc[d].root}
      b == Under(a)
      c == Under(b)
      e == Under(c)
  IN  a \cup b \cup c \cup e

(* Every page of a live page table is allocated and belongs to no other: a  *)
(* table never reaches a page that the unwinding of a failed                 *)
(* fill_translation_table, or the val_pgt_destroy of another table, has      *)
(* given back.  And only one descriptor refers to it, so that                *)
(* free_translation_table frees it once.                                     *)
Owned ==
  /\ \A d \in Live : Pages(d) \subseteq used
  /\ \A d, e \in Live : d # e => Pages(d) \cap Pages(e) = {}
  /\ \A d \in Live : \A p, q \in Pages(d) : \A i, j \in Slots :
       /\ tab[p][i].kind = "table"
       /\ tab[q][j].kind = "table"
       /\ tab[p][i].out = tab[q][j].out
       => p = q /\ i = j

(* What val_pgt_create took, val_pgt_destroy gives back: between calls no    *)
(* page is allocated that is not part of a live table, but the ones that a   *)
(* failed val_pgt_create left behind.  No page is dropped, then, by a        *)
(* descriptor that is written over, in any round of the loop.                *)
NoLeak == pc = "idle" => used = lost \cup UNION {Pages(d) : d \in Live}

(* A region starts a block of every level it is larger than.  For others     *)
(* the steps of fill_translation_table straddle blocks, and pages land at    *)
(* the wrong end of a table.  And its output addresses have at most 32 bits. *)
Fits(r) ==
  /\ \A l \in Top .. 2 :
       LET size == Size(l)
           va   == r.va % Space
       IN  va % size = 0 \/ va \div size = (va + r.len - 1) \div size
  /\ r.pa + r.len <= Low

(* A page table that val_pgt_create returned for an array of one region      *)
(* translates each page of that region to its output page and no other page  *)
(* to anything, and val_pgt_get_attributes answers with the attributes of    *)
(* the region, across splits into blocks, tables and pages.  Every caller in *)
(* the suite passes one region.  Of a longer array nothing is claimed: the   *)
(* loop of val_pgt_create fills in the first region in every round, where    *)
(* its comment promises all of them.                                         *)
Translates ==
  \A d \in Live :
    Len(desc[d].regions) = 1 =>
      LET r  == desc[d].regions[1]
          va == r.va % Space
      IN  Fits(r) =>
            /\ \A x \in 0 .. Space - 1 :
                 Walk(d, x) = IF x \in va .. va + r.len - 1 THEN r.pa + (x - va) ELSE -1
            /\ \A x \in va .. va + r.len - 1 : GetAttributes(d, x) = r.attr
=============================================================================
