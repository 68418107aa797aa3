----------------------------- MODULE PgtProofs -----------------------------
(***************************************************************************)
(* Proofs about the page tables of Pgt.                                    *)
(*                                                                         *)
(* The pages a creation has taken form a tree.  A page that is linked was  *)
(* made for the addresses of one round of the loop of fill_translation_    *)
(* table over the page above it, and two rounds never meet in one entry;   *)
(* so the same round, when val_pgt_create goes over the region again,      *)
(* finds the table again and never puts a block in its place.              *)
(*                                                                         *)
(* The operators of the invariant take the tables t, and what the pages    *)
(* were made for as m, as parameters, so that a lemma can compare two      *)
(* states.                                                                 *)
(***************************************************************************)
EXTENDS Pgt, TLAPS

Table(t, p, i) == t[p][i].kind = "table"

(* The addresses of the k-th round over a table made for s. *)
InAt(s, k)  == s.in + k * Size(s.level)
OutAt(s, k) == s.out + k * Size(s.level)

(* That round descends, and the table below it is made for Sub(s, k). *)
NestedAt(s, k) ==
  /\ s.level < 3
  /\ InAt(s, k) <= s.top
  /\ ~IsBlock(InAt(s, k), OutAt(s, k), s.top, s.level)

Below(in, out, top, l) == [level |-> l + 1, in |-> in, out |-> out, top |-> Bound(in, top, l)]
Sub(s, k) == Below(InAt(s, k), OutAt(s, k), s.top, s.level)

Span  == [level : Top .. 3, in : Nat, out : Nat, top : Nat]
Frame == [tt : Heap \cup {0}, in : Nat, out : Nat, top : Nat]
Entry == [kind : {"none", "page", "block", "table"}, out : Nat, attr : Attrs \cup {"zero"}]
Call  == [d : Descs, regions : Arrays, tg : BOOLEAN, round : Nat \ {0}]
Desc  == [root : Heap, regions : Seq(Region), pages : SUBSET Heap]

TypeInv ==
  /\ tab \in [Heap -> [Slots -> Entry]]
  /\ used \in SUBSET Heap
  /\ desc \in [Descs -> Desc \cup {None}]
  /\ pc \in {"idle", "region", "fill", "unwind"}
  /\ call \in Call \cup {NoCall}
  /\ level \in Top .. 3
  /\ frame \in [Top .. 3 -> Frame]
  /\ taken \in SUBSET Heap
  /\ lost \in SUBSET Heap
  /\ made \in [Heap -> Span \cup {NoSpan}]

(* Each allocated page is in one place: taken, lost or in one page table. *)
Apart ==
  /\ used = lost \cup taken \cup UNION {desc[d].pages : d \in Descs}
  /\ lost \cap taken = {}
  /\ \A d \in Descs : desc[d].pages \cap (lost \cup taken) = {}
  /\ \A d, e \in Descs : d # e => desc[d].pages \cap desc[e].pages = {}

(* The links of the tables S stay in S, and each was made by a round of the *)
(* loop over the table it is in.                                            *)
LinkedBy(t, m, p, i, k) ==
  /\ NestedAt(m[p], k)
  /\ i = Index(InAt(m[p], k), m[p].level)
  /\ m[t[p][i].out] = Sub(m[p], k)

Links(t, m, S) ==
  \A p \in S, i \in Slots : Table(t, p, i) =>
    t[p][i].out \in S /\ \E k \in Slots : LinkedBy(t, m, p, i, k)

Once(t, S) ==
  \A p, q \in S, i, j \in Slots :
    Table(t, p, i) /\ Table(t, q, j) /\ t[p][i].out = t[q][j].out => p = q /\ i = j

(* The loop over a table goes through each entry at most once. *)
SpanFits(s) == s \in Span /\ s.top < s.in + Width(s.level) * Size(s.level)

Spans(m, S) == \A p \in S : SpanFits(m[p])

Linked(t, S, q) == \E p \in S, i \in Slots : Table(t, p, i) /\ t[p][i].out = q

Forest(t, m, S) == Links(t, m, S) /\ Once(t, S) /\ Spans(m, S)

Tree(t, m, S, root) ==
  /\ Forest(t, m, S)
  /\ root \in S
  /\ m[root].level = Top
  /\ \A q \in S : q = root \/ Linked(t, S, q)

LiveInv == \A d \in Descs : desc[d] # None => Tree(tab, made, desc[d].pages, desc[d].root)

(* The creation that runs. *)
CallInv ==
  /\ pc = "idle" => taken = {}
  /\ pc # "idle" => call \in Call /\ desc[call.d] = None /\ frame[Top].tt \in taken
  /\ pc \in {"idle", "region"} => level = Top
  /\ pc = "fill" => call.regions # <<>>

Loose(fr, lv, q) == \E l \in Top + 1 .. lv : fr[l].tt = q

TreeInv ==
  pc \in {"region", "fill"} =>
    /\ Forest(tab, made, taken)
    /\ made[frame[Top].tt] = FirstSpan(call.regions)
    /\ \A q \in taken : q = frame[Top].tt \/ Linked(tab, taken, q) \/ Loose(frame, level, q)

(* The stack: each frame goes over a table that was taken ... *)
StackInv ==
  pc \in {"fill", "unwind"} =>
    \A l \in Top .. level : frame[l].tt \in taken /\ made[frame[l].tt].level = l

InRound(f, s) ==
  /\ f.top = s.top
  /\ \E k \in 0 .. Entries : f.in = InAt(s, k) /\ f.out = OutAt(s, k)

(* ... and the frame above waits in a round that descends: the table below  *)
(* is the one its entry holds, or nothing refers to it yet.                 *)
Waits(t, m, S, f, next, l) ==
  LET i == Index(f.in, l)
  IN  /\ f.in <= f.top
      /\ ~IsBlock(f.in, f.out, f.top, l)
      /\ m[next] = Below(f.in, f.out, f.top, l)
      /\ Table(t, f.tt, i) => t[f.tt][i].out = next
      /\ ~Table(t, f.tt, i) => ~Linked(t, S, next)

FillInv ==
  pc = "fill" =>
    /\ \A l \in Top .. level : InRound(frame[l], made[frame[l].tt])
    /\ \A l \in Top .. level - 1 : Waits(tab, made, taken, frame[l], frame[l + 1].tt, l)

IInv == TypeInv /\ Apart /\ LiveInv /\ CallInv /\ TreeInv /\ StackInv /\ FillInv

-----------------------------------------------------------------------------
(* Levels, sizes and the entries of the rounds of a loop.                    *)

(* A page table has between one and four levels. *)
LEMMA LevelFacts == Levels \in 1 .. 4 /\ Top \in 0 .. 3
  BY DEF Levels, Top

(* An entry of a level spans as much as a whole table of the next. *)
LEMMA SizeFacts ==
  /\ \A l \in Top .. 3 : Size(l) \in Nat \ {0}
  /\ \A l \in Top .. 2 : Size(l) = Entries * Size(l + 1)
  <1> DEFINE N == Entries
  <1>1. Entries \in Nat \ {0}
    BY PgtAssumption
  <1>2. \A l \in 0 .. 3 : Size(l) \in Nat \ {0}
    <2>1. Entries * Entries \in Nat \ {0}
      BY <1>1
    <2>2. Entries * Entries * Entries \in Nat \ {0}
      BY <1>1, <2>1
    <2> QED BY <1>1, <2>1, <2>2 DEF Size
  <1>3. \A l \in 0 .. 2 : Size(l) = Entries * Size(l + 1)
    <2> SUFFICES ASSUME NEW l \in 0 .. 2 PROVE Size(l) = Entries * Size(l + 1)
      OBVIOUS
    <2>1. CASE l = 0
      BY <2>1, <1>1 DEF Size
    <2>2. CASE l = 1
      BY <2>2, <1>1 DEF Size
    <2>3. CASE l = 2
      BY <2>3, <1>1 DEF Size
    <2> QED BY <2>1, <2>2, <2>3
  <1> QED BY <1>2, <1>3, LevelFacts

(* The whole input space is what the entries of the base that are used span. *)
LEMMA WidthFacts ==
  /\ \A l \in Top .. 3 : Width(l) \in 1 .. Entries
  /\ Width(Top) * Size(Top) = Space
  <1> DEFINE W == Space \div Size(Top)
  <1>1. Size(Top) \in Nat \ {0} /\ Entries \in Nat \ {0} /\ Space \in Nat \ {0}
    BY SizeFacts, LevelFacts, PgtAssumption
  <1>2. W \in Nat /\ Space = Size(Top) * W
    <2>1. Space = Size(Top) * W + (Space % Size(Top)) /\ W \in Nat
      BY <1>1
    <2> HIDE DEF W
    <2> QED BY <2>1, <1>1, PgtAssumption
  <1>3. Space <= Size(Top) * Entries
    <2>1. CASE Levels = 1
      BY <2>1, <1>1 DEF Levels, Top, Size
    <2>2. CASE Levels = 2
      BY <2>2, <1>1 DEF Levels, Top, Size
    <2>3. CASE Levels = 3
      BY <2>3, <1>1 DEF Levels, Top, Size
    <2>4. CASE Levels = 4
      BY <2>4, <1>1, PgtAssumption DEF Levels, Top, Size
    <2> QED BY <2>1, <2>2, <2>3, <2>4, LevelFacts
  <1>4. W >= 1
    <2> SUFFICES ASSUME W = 0 PROVE FALSE
      BY <1>2
    <2> HIDE DEF W
    <2>1. Size(Top) * W = 0
      BY <1>1
    <2> QED BY <2>1, <1>1, <1>2
  <1>5. W <= Entries
    <2> HIDE DEF W
    <2> SUFFICES ASSUME Entries < W PROVE FALSE
      BY <1>1, <1>2
    <2>1. Size(Top) * Entries + Size(Top) <= Size(Top) * W
      BY <1>1, <1>2
    <2> QED BY <2>1, <1>1, <1>2, <1>3
  <1>6. Width(Top) = W /\ \A l \in Top .. 3 : Width(l) \in {W, Entries}
    BY DEF Width
  <1> HIDE DEF W
  <1> QED BY <1>1, <1>2, <1>4, <1>5, <1>6

(* An index is one of an entry that is used. *)
LEMMA IndexType ==
  ASSUME NEW a \in Nat, NEW l \in Top .. 3
  PROVE  Index(a, l) \in 0 .. Width(l) - 1 /\ Index(a, l) \in Slots
  <1>1. Size(l) \in Nat \ {0} /\ Width(l) \in Nat \ {0} /\ Width(l) <= Entries /\ Entries \in Nat
    BY SizeFacts, WidthFacts, PgtAssumption
  <1>2. a \div Size(l) \in Nat
    BY <1>1
  <1>3. (a \div Size(l)) % Width(l) \in 0 .. Width(l) - 1
    BY <1>1, <1>2
  <1> QED BY <1>1, <1>3 DEF Index, Slots

(* A factor that is not zero can be left out of a comparison. *)
LEMMA TimesLess ==
  ASSUME NEW n \in Nat \ {0}, NEW x \in Nat, NEW y \in Nat, n * x < n * y
  PROVE  x < y
  <1> SUFFICES ASSUME y <= x PROVE FALSE
    OBVIOUS
  <1>1. n * y <= n * x
    OBVIOUS
  <1> QED BY <1>1

(* A step of one block is a step of one entry. *)
LEMMA DivStep ==
  ASSUME NEW n \in Nat \ {0}, NEW a \in Nat, NEW k \in Nat
  PROVE  (a + k * n) \div n = (a \div n) + k
  OBVIOUS

(* Fewer steps than there are entries never come back to one. *)
LEMMA ModApart ==
  ASSUME NEW n \in Nat \ {0}, NEW a \in Nat, NEW j \in 0 .. n - 1, NEW k \in 0 .. n - 1,
         j <= k, (a + j) % n = (a + k) % n
  PROVE  j = k
  <1> DEFINE x == (a + j) \div n
             y == (a + k) \div n
             r == (a + j) % n
  <1>1. /\ x \in Nat /\ y \in Nat /\ r \in Nat
        /\ a + j = n * x + r
        /\ a + k = n * y + r
    OBVIOUS
  <1> HIDE DEF x, y, r
  <1>2. n * y < n * x + n /\ n * x <= n * y
    BY <1>1
  <1>3. x = y
    <2>1. n * x + n = n * (x + 1)
      BY <1>1
    <2>2. y < x + 1
      BY <1>1, <1>2, <2>1, TimesLess
    <2>3. n * x < n * (y + 1)
      BY <1>1, <1>2
    <2>4. x < y + 1
      BY <1>1, <2>3, TimesLess
    <2> QED BY <1>1, <2>2, <2>4
  <1> QED BY <1>1, <1>3

(* A loop over a table makes fewer rounds than the table has entries. *)
LEMMA RoundLess ==
  ASSUME NEW s, SpanFits(s), NEW k \in Nat, InAt(s, k) <= s.top
  PROVE  k < Width(s.level) /\ k \in Slots
  <1>1. /\ s.level \in Top .. 3 /\ s.in \in Nat /\ s.top \in Nat
        /\ s.top < s.in + Width(s.level) * Size(s.level)
    BY DEF SpanFits, Span
  <1>2. Size(s.level) \in Nat \ {0} /\ Width(s.level) \in Nat /\ Width(s.level) <= Entries /\ Entries \in Nat
    BY <1>1, SizeFacts, WidthFacts, PgtAssumption
  <1> DEFINE n == Size(s.level)
             w == Width(s.level)
  <1>3. s.in + k * n <= s.top
    BY DEF InAt
  <1> HIDE DEF n, w
  <1>4. s.top < s.in + w * n /\ n \in Nat \ {0} /\ w \in Nat /\ w <= Entries
    BY <1>1, <1>2 DEF n, w
  <1>5. k * n \in Nat /\ w * n \in Nat /\ k * n = n * k /\ w * n = n * w
    BY <1>4
  <1>6. n * k < n * w
    BY <1>1, <1>3, <1>4, <1>5
  <1>7. k < w
    BY <1>4, <1>6, TimesLess
  <1> QED BY <1>4, <1>7, <1>2 DEF w, Slots

(* Two rounds of a loop go to different entries. *)
LEMMA RoundsApart ==
  ASSUME NEW s, SpanFits(s), NEW j \in Nat, NEW k \in Nat,
         InAt(s, j) <= s.top, InAt(s, k) <= s.top,
         Index(InAt(s, j), s.level) = Index(InAt(s, k), s.level)
  PROVE  j = k
  <1> DEFINE n == Size(s.level)
             w == Width(s.level)
             a == s.in \div n
  <1>1. n \in Nat \ {0} /\ w \in Nat \ {0} /\ s.in \in Nat
    BY SizeFacts, WidthFacts, PgtAssumption DEF SpanFits, Span
  <1>2. a \in Nat
    BY <1>1
  <1>3. j \in 0 .. w - 1 /\ k \in 0 .. w - 1
    BY RoundLess, <1>1
  <1>4. (s.in + j * n) \div n = a + j /\ (s.in + k * n) \div n = a + k
    BY <1>1, DivStep
  <1>5. (a + j) % w = (a + k) % w
    BY <1>4 DEF Index, InAt
  <1> HIDE DEF n, w, a
  <1>6. CASE j <= k
    BY <1>1, <1>2, <1>3, <1>5, <1>6, ModApart
  <1>7. CASE k <= j
    BY <1>1, <1>2, <1>3, <1>5, <1>7, ModApart
  <1> QED BY <1>6, <1>7

(* The addresses of a round that goes on are natural numbers. *)
LEMMA RoundType ==
  ASSUME NEW s \in Span, NEW k \in Nat
  PROVE  InAt(s, k) \in Nat /\ OutAt(s, k) \in Nat
  <1>1. Size(s.level) \in Nat /\ s.in \in Nat /\ s.out \in Nat
    BY SizeFacts DEF Span
  <1>2. k * Size(s.level) \in Nat
    BY <1>1
  <1> QED BY <1>1, <1>2 DEF InAt, OutAt

(* A table that is allocated for a round has room for the rounds over it. *)
LEMMA BelowFits ==
  ASSUME NEW in \in Nat, NEW out \in Nat, NEW top \in Nat, NEW l \in Top .. 2, in <= top
  PROVE  SpanFits(Below(in, out, top, l))
  <1>1. Size(l) \in Nat \ {0} /\ Size(l) = Entries * Size(l + 1) /\ Top \in Nat
    BY SizeFacts, LevelFacts
  <1>2. Bound(in, top, l) \in Nat /\ Bound(in, top, l) < in + Size(l)
    BY <1>1 DEF Bound
  <1>3. Width(l + 1) = Entries
    BY LevelFacts DEF Width
  <1>4. Below(in, out, top, l) \in Span
    BY <1>1, <1>2 DEF Below, Span
  <1> QED BY <1>1, <1>2, <1>3, <1>4 DEF Below, SpanFits

(* The base has room for the rounds over the first region. *)
LEMMA FirstFitsSpan ==
  ASSUME NEW regions \in Arrays
  PROVE  SpanFits(FirstSpan(regions)) /\ FirstSpan(regions).level = Top
  <1>1. Top \in Top .. 3 /\ Width(Top) * Size(Top) = Space /\ Space \in Nat \ {0}
    BY WidthFacts, LevelFacts, PgtAssumption
  <1>2. CASE regions = <<>>
    BY <1>1, <1>2 DEF FirstSpan, NoSpan, SpanFits, Span
  <1>3. CASE regions # <<>>
    <2>1. regions \in Seq(Region) /\ (regions[1].va % Space) + regions[1].len <= Space
      BY <1>3, PgtAssumption
    <2>2. regions[1] \in Region
      BY <1>3, <2>1
    <2>3. regions[1].va % Space \in Nat /\ regions[1].len \in Nat \ {0} /\ regions[1].pa \in Nat
      BY <2>2, <1>1 DEF Region
    <2> QED BY <1>1, <1>3, <2>1, <2>3 DEF FirstSpan, SpanFits, Span
  <1> QED BY <1>2, <1>3

-----------------------------------------------------------------------------
(* What a step keeps of the tables it does not link or unlink.               *)

(* A step that links and unlinks nothing in S keeps the forest on S. *)
LEMMA ForestKept ==
  ASSUME NEW t, NEW u, NEW m, NEW n, NEW S,
         Forest(t, m, S),
         \A p \in S : n[p] = m[p],
         \A p \in S, i \in Slots : /\ Table(u, p, i) <=> Table(t, p, i)
                                   /\ Table(t, p, i) => u[p][i].out = t[p][i].out
  PROVE  Forest(u, n, S) /\ \A q : Linked(u, S, q) <=> Linked(t, S, q)
  <1>1. Links(u, n, S)
    BY DEF Forest, Links, LinkedBy
  <1>2. Once(u, S)
    BY DEF Forest, Once
  <1>3. Spans(n, S)
    BY DEF Forest, Spans
  <1>4. ASSUME NEW q PROVE Linked(u, S, q) <=> Linked(t, S, q)
    BY DEF Linked
  <1> QED BY <1>1, <1>2, <1>3, <1>4 DEF Forest

(* A tree whose pages a step does not write stays as it is. *)
LEMMA TreeKept ==
  ASSUME NEW t, NEW u, NEW m, NEW n, NEW S, NEW root,
         Tree(t, m, S, root),
         \A p \in S : n[p] = m[p] /\ u[p] = t[p]
  PROVE  Tree(u, n, S, root)
  <1>1. \A p \in S, i \in Slots : /\ Table(u, p, i) <=> Table(t, p, i)
                                  /\ Table(t, p, i) => u[p][i].out = t[p][i].out
    BY DEF Table
  <1>2. Forest(u, n, S) /\ \A q : Linked(u, S, q) <=> Linked(t, S, q)
    BY <1>1, ForestKept DEF Tree
  <1> QED BY <1>2 DEF Tree

(* A new page, zeroed, adds a table without links. *)
LEMMA ForestNew ==
  ASSUME NEW t, NEW m, NEW S, NEW p, p \notin S, p \in DOMAIN t, p \in DOMAIN m,
         NEW s, SpanFits(s), Forest(t, m, S)
  PROVE  LET u == [t EXCEPT ![p] = Zeroed]
             n == [m EXCEPT ![p] = s]
         IN  /\ Forest(u, n, S \cup {p})
             /\ \A q : Linked(u, S \cup {p}, q) <=> Linked(t, S, q)
  <1> DEFINE u == [t EXCEPT ![p] = Zeroed]
             n == [m EXCEPT ![p] = s]
             R == S \cup {p}
  <1>1. \A q \in S : u[q] = t[q] /\ n[q] = m[q]
    OBVIOUS
  <1>2. n[p] = s /\ \A i \in Slots : ~Table(u, p, i)
    BY DEF Table, Zeroed, Empty
  <1> HIDE DEF u, n
  <1>3. Links(u, n, R)
    BY <1>1, <1>2 DEF Forest, Links, LinkedBy, Table
  <1>4. Once(u, R)
    BY <1>1, <1>2 DEF Forest, Once, Table
  <1>5. Spans(n, R)
    BY <1>1, <1>2 DEF Forest, Spans
  <1>6. ASSUME NEW q PROVE Linked(u, R, q) <=> Linked(t, S, q)
    BY <1>1, <1>2 DEF Linked, Table
  <1> QED BY <1>3, <1>4, <1>5, <1>6 DEF Forest, u, n

(* Entry i of p links the page q, which nothing referred to, in u; the other *)
(* entries are as in t.                                                      *)
NewLink(t, u, m, S, p, i, q) ==
  /\ p \in S /\ i \in Slots /\ q \in S
  /\ ~Linked(t, S, q)
  /\ Table(u, p, i) /\ u[p][i].out = q
  /\ \E k \in Slots : LinkedBy(u, m, p, i, k)
  /\ \A x \in S, j \in Slots : x # p \/ j # i => u[x][j] = t[x][j]

(* A page that nothing refers to may be linked from the entry of the round   *)
(* it was made for.                                                          *)
LEMMA ForestLink ==
  ASSUME NEW t, NEW u, NEW m, NEW S, NEW p, NEW i, NEW q,
         Forest(t, m, S), NewLink(t, u, m, S, p, i, q)
  PROVE  /\ Forest(u, m, S)
         /\ Linked(u, S, q)
         /\ ~Table(t, p, i) => \A x : Linked(t, S, x) => Linked(u, S, x)
         /\ \A x : x # q /\ ~Linked(t, S, x) => ~Linked(u, S, x)
  <1> USE DEF NewLink
  <1>1. Links(u, m, S)
    <2> SUFFICES ASSUME NEW x \in S, NEW j \in Slots, Table(u, x, j)
                 PROVE  u[x][j].out \in S /\ \E h \in Slots : LinkedBy(u, m, x, j, h)
      BY DEF Links
    <2>1. CASE x = p /\ j = i
      BY <2>1
    <2>2. CASE x # p \/ j # i
      <3>1. u[x][j] = t[x][j] /\ Table(t, x, j)
        BY <2>2 DEF Table
      <3> QED BY <3>1 DEF Forest, Links, LinkedBy
    <2> QED BY <2>1, <2>2
  <1>2. Once(u, S)
    <2>1. \A x \in S, j \in Slots : Table(u, x, j) /\ u[x][j].out = q => x = p /\ j = i
      BY DEF Linked, Table
    <2> SUFFICES ASSUME NEW x \in S, NEW y \in S, NEW j \in Slots, NEW h \in Slots,
                        Table(u, x, j), Table(u, y, h), u[x][j].out = u[y][h].out
                 PROVE  x = y /\ j = h
      BY DEF Once
    <2>2. CASE u[x][j].out = q
      BY <2>1, <2>2
    <2>3. CASE u[x][j].out # q
      <3>1. u[x][j] = t[x][j] /\ u[y][h] = t[y][h]
        BY <2>3
      <3> QED BY <3>1 DEF Forest, Once, Table
    <2> QED BY <2>2, <2>3
  <1>3. Linked(u, S, q)
    BY DEF Linked
  <1>4. ASSUME ~Table(t, p, i), NEW x, Linked(t, S, x) PROVE Linked(u, S, x)
    <2>1. PICK y \in S, j \in Slots : Table(t, y, j) /\ t[y][j].out = x
      BY <1>4 DEF Linked
    <2>2. u[y][j] = t[y][j]
      BY <1>4, <2>1
    <2> QED BY <2>1, <2>2 DEF Linked, Table
  <1>5. ASSUME NEW x, x # q, ~Linked(t, S, x) PROVE ~Linked(u, S, x)
    BY <1>5 DEF Linked, Table
  <1> QED BY <1>1, <1>2, <1>3, <1>4, <1>5 DEF Forest

(* The pages of a tree lie on the levels from the base to the last, and only *)
(* the base on its level.                                                    *)
LEMMA TreeLevels ==
  ASSUME NEW t, NEW m, NEW S, NEW root, Tree(t, m, S, root)
  PROVE  /\ \A q \in S : m[q].level \in Top .. 3 /\ (m[q].level = Top => q = root)
         /\ \A p \in S, i \in Slots : Table(t, p, i) =>
              /\ t[p][i].out \in S /\ m[t[p][i].out].level = m[p].level + 1
              /\ i \in 0 .. Width(m[p].level) - 1 /\ m[p].level < 3
         /\ \A q \in S : q # root => \E p \in S, i \in Slots : Table(t, p, i) /\ t[p][i].out = q
  <1>1. \A q \in S : m[q] \in Span /\ m[q].level \in Top .. 3
    BY DEF Tree, Forest, Spans, SpanFits, Span
  <1>2. ASSUME NEW p \in S, NEW i \in Slots, Table(t, p, i)
        PROVE  /\ t[p][i].out \in S /\ m[t[p][i].out].level = m[p].level + 1
               /\ i \in 0 .. Width(m[p].level) - 1 /\ m[p].level < 3
    <2>1. PICK k \in Slots : LinkedBy(t, m, p, i, k) /\ t[p][i].out \in S
      BY <1>2 DEF Tree, Forest, Links
    <2>2. k \in Nat
      BY DEF Slots
    <2>3. i \in 0 .. Width(m[p].level) - 1
      BY <1>1, <2>1, <2>2, RoundType, IndexType DEF LinkedBy
    <2> QED BY <2>1, <2>3 DEF LinkedBy, NestedAt, Sub, Below
  <1>3. ASSUME NEW q \in S, q # root PROVE \E p \in S, i \in Slots : Table(t, p, i) /\ t[p][i].out = q
    BY <1>3 DEF Tree, Linked
  <1>4. ASSUME NEW q \in S, m[q].level = Top PROVE q = root
    <2> SUFFICES ASSUME q # root PROVE FALSE
      OBVIOUS
    <2>1. PICK p \in S, i \in Slots : Table(t, p, i) /\ t[p][i].out = q
      BY <1>3
    <2>2. m[q].level = m[p].level + 1 /\ m[p].level \in Top .. 3
      BY <1>1, <1>2, <2>1
    <2> QED BY <1>4, <2>2, LevelFacts
  <1> QED BY <1>1, <1>2, <1>3, <1>4

-----------------------------------------------------------------------------
(* A tree is what a walk reaches and what free_translation_table frees.      *)

(* A heap address is found again when it is cut to the input size. *)
LEMMA HeapAddress == \A p \in Heap : p \in Nat \ {0} /\ p % Space = p
  <1> SUFFICES ASSUME NEW p \in Heap PROVE p \in Nat \ {0} /\ p % Space = p
    OBVIOUS
  <1>1. p \in 1 .. Space - 1 /\ Space \in Nat
    BY PgtAssumption
  <1> QED BY <1>1

(* Below 4 GB it is also found again when it is cut to the 32 bits of page_size. *)
LEMMA LowAddress == ASSUME HeapBelow4G PROVE \A p \in Heap : p % Low = p
  <1> SUFFICES ASSUME NEW p \in Heap PROVE p % Low = p
    OBVIOUS
  <1>1. p \in 1 .. Low - 1 /\ Low \in Nat
    BY PgtAssumption DEF HeapBelow4G
  <1> QED BY <1>1

(* The pages of each level of a live tree. *)
LEMMA LevelOf ==
  ASSUME NEW S \in SUBSET Heap, NEW root, Tree(tab, made, S, root), NEW l \in Top .. 2
  PROVE  LET R == {p \in S : made[p].level = l}
             N == {p \in S : made[p].level = l + 1}
         IN  Under(R) = N /\ FreedUnder(R, l) = N
  <1> DEFINE R == {p \in S : made[p].level = l}
             N == {p \in S : made[p].level = l + 1}
  <1>0. Top \in Nat /\ l \in Nat /\ l < 3 /\ Entries \in Nat
    BY LevelFacts, PgtAssumption
  <1>1. ASSUME NEW p \in R, NEW i \in Slots, tab[p][i].kind = "table"
        PROVE  /\ tab[p][i].out \in N /\ tab[p][i].out % Space = tab[p][i].out
               /\ i \in 0 .. Width(l) - 1
    <2>1. Table(tab, p, i) /\ p \in S /\ made[p].level = l
      BY <1>1 DEF Table
    <2> QED BY <2>1, TreeLevels, HeapAddress
  <1>2. ASSUME NEW q \in N
        PROVE  \E p \in R, i \in Slots : tab[p][i].kind = "table" /\ tab[p][i].out = q
    <2>1. q # root
      BY <1>0 DEF Tree
    <2>2. PICK p \in S, i \in Slots : Table(tab, p, i) /\ tab[p][i].out = q
      BY <2>1, TreeLevels
    <2>3. made[p].level + 1 = l + 1 /\ made[p].level \in Top .. 3
      BY <2>2, TreeLevels
    <2>4. made[p].level = l
      BY <2>3, <1>0
    <2> QED BY <2>2, <2>4 DEF Table
  <1>3. 0 .. Width(l) - 1 \subseteq Slots
    BY <1>0, WidthFacts DEF Slots
  <1> HIDE DEF R, N
  <1>4. Under(R) = N
    BY <1>1, <1>2 DEF Under
  <1>5. FreedUnder(R, l) = N
    <2>1. ASSUME NEW q \in FreedUnder(R, l) PROVE q \in N
      <3>1. PICK p \in R, i \in 0 .. Width(l) - 1 : tab[p][i].kind = "table" /\ q = tab[p][i].out % Space
        BY <1>0 DEF FreedUnder
      <3> QED BY <3>1, <1>1, <1>3
    <2>2. ASSUME NEW q \in N PROVE q \in FreedUnder(R, l)
      <3>1. PICK p \in R, i \in Slots : tab[p][i].kind = "table" /\ tab[p][i].out = q
        BY <1>2
      <3>2. i \in 0 .. Width(l) - 1 /\ q = tab[p][i].out % Space
        BY <1>1, <3>1
      <3> QED BY <1>0, <3>1, <3>2 DEF FreedUnder
    <2> QED BY <2>1, <2>2
  <1> QED BY <1>4, <1>5 DEF R, N

(* Below the last level there is nothing. *)
LEMMA NoneBelow ==
  ASSUME NEW S, NEW root, Tree(tab, made, S, root), NEW l \in Nat, l >= 3
  PROVE  /\ Under({p \in S : made[p].level = l}) = {}
         /\ FreedUnder({p \in S : made[p].level = l}, l) = {}
         /\ {p \in S : made[p].level = l + 1} = {}
  <1>1. \A p \in S : made[p].level = l => \A i \in Slots : tab[p][i].kind # "table"
    BY TreeLevels DEF Table
  <1>2. \A p \in S : made[p].level \in Top .. 3 /\ Top \in Nat
    BY TreeLevels, LevelFacts
  <1>3. {p \in S : made[p].level = l + 1} = {}
    BY <1>2
  <1> QED BY <1>1, <1>3 DEF Under, FreedUnder

(* A walk reaches the pages of a tree, and freeing it frees them. *)
LEMMA TreeReached ==
  ASSUME NEW d \in Descs, desc[d].pages \in SUBSET Heap,
         Tree(tab, made, desc[d].pages, desc[d].root)
  PROVE  /\ Pages(d) = desc[d].pages
         /\ FreeTranslationTable(desc[d].root) \cup {desc[d].root} = desc[d].pages
  <1> DEFINE S == desc[d].pages
             root == desc[d].root
             L(l) == {p \in S : made[p].level = l}
  <1>1. Top \in 0 .. 3
    BY LevelFacts
  <1>2. {root} = L(Top)
    BY TreeLevels DEF Tree
  <1>3. \A l \in 0 .. 6 : l >= Top => Under(L(l)) = L(l + 1) /\ FreedUnder(L(l), l) = L(l + 1)
    <2> SUFFICES ASSUME NEW l \in 0 .. 6, l >= Top
                 PROVE  Under(L(l)) = L(l + 1) /\ FreedUnder(L(l), l) = L(l + 1)
      OBVIOUS
    <2>1. CASE l <= 2
      BY <1>1, <2>1, LevelOf
    <2>2. CASE l >= 3
      BY <2>2, NoneBelow
    <2> QED BY <2>1, <2>2
  <1>4. \A p \in S : p \in L(Top) \/ p \in L(Top + 1) \/ p \in L(Top + 2) \/ p \in L(Top + 3)
    <2>1. \A p \in S : made[p].level \in Top .. 3
      BY TreeLevels
    <2>2. \A p \in S : made[p].level \in {Top, Top + 1, Top + 2, Top + 3}
      BY <1>1, <2>1
    <2> QED BY <2>2
  <1>5. L(Top) \cup L(Top + 1) \cup L(Top + 2) \cup L(Top + 3) = S
    BY <1>4
  <1>6. /\ Under(L(Top)) = L(Top + 1) /\ FreedUnder(L(Top), Top) = L(Top + 1)
        /\ Under(L(Top + 1)) = L(Top + 2) /\ FreedUnder(L(Top + 1), Top + 1) = L(Top + 2)
        /\ Under(L(Top + 2)) = L(Top + 3) /\ FreedUnder(L(Top + 2), Top + 2) = L(Top + 3)
    <2> HIDE DEF L
    <2>1. Under(L(Top)) = L(Top + 1) /\ FreedUnder(L(Top), Top) = L(Top + 1)
      BY <1>1, <1>3
    <2>2. Under(L(Top + 1)) = L(Top + 1 + 1) /\ FreedUnder(L(Top + 1), Top + 1) = L(Top + 1 + 1)
      BY <1>1, <1>3
    <2>3. Under(L(Top + 2)) = L(Top + 2 + 1) /\ FreedUnder(L(Top + 2), Top + 2) = L(Top + 2 + 1)
      BY <1>1, <1>3
    <2>4. Top + 1 + 1 = Top + 2 /\ Top + 2 + 1 = Top + 3
      BY <1>1
    <2> QED BY <2>1, <2>2, <2>3, <2>4
  <1> HIDE DEF L
  <1>7. Pages(d) = S
    BY <1>2, <1>5, <1>6 DEF Pages
  <1>8. FreeTranslationTable(root) \cup {root} = S
    BY <1>2, <1>5, <1>6 DEF FreeTranslationTable
  <1> QED BY <1>7, <1>8

-----------------------------------------------------------------------------
(* The inductive invariant: one lemma per action.                            *)

(* The page val_memory_alloc_pages gives was free. *)
LEMMA NewPageFree == ASSUME CanAlloc PROVE NewPage \in Heap /\ NewPage \notin used
  BY DEF Free, CanAlloc, NewPage

(* What an empty frame and an empty descriptor are. *)
LEMMA Defaults ==
  /\ None.pages = {} /\ None \notin Desc
  /\ NoFrame \in Frame /\ Zeroed \in [Slots -> Entry]
  /\ Top \in Top .. 3 /\ Top \in Nat
  <1>1. None \notin Desc
    BY HeapAddress DEF None, Desc
  <1>2. NoFrame \in Frame /\ Zeroed \in [Slots -> Entry]
    BY DEF NoFrame, Frame, Zeroed, Entry, Empty
  <1> QED BY <1>1, <1>2, LevelFacts DEF None

(* A step that leaves the descriptors and their pages alone keeps LiveInv. *)
LEMMA LiveKept ==
  ASSUME LiveInv, desc' = desc,
         \A d \in Descs : \A p \in desc[d].pages : tab'[p] = tab[p] /\ made'[p] = made[p]
  PROVE  LiveInv'
  BY TreeKept DEF LiveInv

(* Nothing is allocated before the first creation. *)
LEMMA InitIInv == Init => IInv
  <1> SUFFICES ASSUME Init PROVE IInv
    OBVIOUS
  <1>1. TypeInv
    BY Defaults DEF Init, TypeInv
  <1>2. Apart
    BY Defaults DEF Init, Apart
  <1> QED BY <1>1, <1>2 DEF Init, IInv, LiveInv, CallInv, TreeInv, StackInv, FillInv

(* Steps that change no variable. *)
LEMMA StutterIInv == ASSUME IInv, UNCHANGED vars PROVE IInv'
  BY DEF IInv, TypeInv, Apart, LiveInv, CallInv, TreeInv, StackInv, FillInv, vars

(* A base is allocated, without links. *)
LEMMA CreateIInv ==
  ASSUME IInv, NEW d \in Descs, NEW regions \in Arrays, NEW tg \in BOOLEAN,
         PgtCreate(d, regions, tg)
  PROVE  IInv'
  <1>0. CASE ~CanAlloc
    BY <1>0, StutterIInv DEF PgtCreate
  <1>a. CASE CanAlloc
    <2> DEFINE P == NewPage
               s == FirstSpan(regions)
    <2>0. P \in Heap /\ P \notin used /\ SpanFits(s) /\ s.level = Top
      BY <1>a, NewPageFree, FirstFitsSpan
    <2>1. /\ TypeInv /\ Apart /\ LiveInv /\ taken = {} /\ desc[d] = None /\ pc = "idle"
          /\ used' = used \cup {P} /\ tab' = [tab EXCEPT ![P] = Zeroed]
          /\ made' = [made EXCEPT ![P] = s] /\ taken' = {P}
          /\ pc' = "region" /\ frame' = [frame EXCEPT ![Top].tt = P]
          /\ call' = [d |-> d, regions |-> regions, tg |-> tg, round |-> 1]
          /\ desc' = desc /\ level' = level /\ lost' = lost
      BY <1>a DEF PgtCreate, Alloc, IInv, CallInv
    <2> HIDE DEF P, s
    <2>2. s \in Span
      BY <2>0 DEF SpanFits
    <2>3. TypeInv'
      <3>1. call' \in Call
        BY <2>1 DEF Call
      <3>2. frame' \in [Top .. 3 -> Frame]
        BY <2>0, <2>1, Defaults DEF TypeInv, Frame
      <3>3. tab' \in [Heap -> [Slots -> Entry]] /\ made' \in [Heap -> Span \cup {NoSpan}]
        BY <2>0, <2>1, <2>2, Defaults DEF TypeInv
      <3> QED BY <2>0, <2>1, <3>1, <3>2, <3>3 DEF TypeInv
    <2>4. \A e \in Descs : P \notin desc[e].pages
      BY <2>0, <2>1 DEF Apart
    <2>5. Apart'
      BY <2>0, <2>1, <2>4 DEF Apart
    <2>6. LiveInv'
      BY <2>0, <2>1, <2>4, LiveKept DEF TypeInv
    <2>7. frame'[Top].tt = P /\ level' \in Top .. 3
      BY <2>1, Defaults DEF TypeInv, Frame
    <2>8. CallInv'
      <3>1. call' \in Call /\ call'.d = d
        BY <2>1 DEF Call
      <3>2. level = Top
        BY <2>1 DEF IInv, CallInv
      <3> QED BY <2>1, <2>7, <3>1, <3>2 DEF CallInv
    <2>9. TreeInv'
      <3>1. made'[P] = s /\ \A i \in Slots : ~Table(tab', P, i)
        BY <2>0, <2>1 DEF TypeInv, Table, Zeroed, Empty
      <3>2. Forest(tab', made', {P})
        BY <2>0, <3>1 DEF Forest, Links, Once, Spans
      <3> QED BY <2>1, <2>7, <3>1, <3>2 DEF TreeInv, s
    <2> QED BY <2>1, <2>3, <2>5, <2>6, <2>8, <2>9 DEF IInv, StackInv, FillInv
  <1> QED BY <1>0, <1>a

(* What Return resets. *)
LEMMA ReturnFacts ==
  ASSUME Return
  PROVE  /\ pc' = "idle" /\ taken' = {} /\ level' = Top /\ call' = NoCall
         /\ frame' \in [Top .. 3 -> Frame]
         /\ TreeInv' /\ StackInv' /\ FillInv' /\ CallInv'
  BY Defaults DEF Return, TreeInv, StackInv, FillInv, CallInv

(* A region that is refused leaves all that was taken. *)
LEMMA RefusedIInv == ASSUME IInv, RegionRefused PROVE IInv'
  <1>1. /\ TypeInv /\ Apart /\ LiveInv
        /\ lost' = lost \cup taken /\ used' = used /\ desc' = desc
        /\ Forget(used \ (lost \cup taken)) /\ Return
    BY DEF IInv, RegionRefused
  <1>2. TypeInv'
    BY <1>1, ReturnFacts, Defaults DEF TypeInv, Forget
  <1>3. Apart'
    BY <1>1, ReturnFacts DEF Apart
  <1>4. \A d \in Descs : \A p \in desc[d].pages : p \in used \ (lost \cup taken)
    BY <1>1 DEF Apart
  <1>5. LiveInv'
    BY <1>1, <1>4, LiveKept DEF TypeInv, Forget
  <1> QED BY <1>1, <1>2, <1>3, <1>5, ReturnFacts DEF IInv

(* A round of val_pgt_create starts with the first round over the base. *)
LEMMA StartIInv == ASSUME IInv, RegionStart PROVE IInv'
  <1> DEFINE r == call.regions[1]
             root == frame[Top].tt
             f == [tt |-> root, in |-> r.va % Space, out |-> r.pa, top |-> (r.va % Space) + r.len - 1]
  <1>1. /\ TypeInv /\ Apart /\ LiveInv /\ CallInv /\ TreeInv
        /\ pc = "region" /\ call.round <= Len(call.regions)
        /\ pc' = "fill" /\ frame' = [frame EXCEPT ![Top] = f]
        /\ tab' = tab /\ used' = used /\ made' = made /\ desc' = desc /\ call' = call
        /\ level' = level /\ taken' = taken /\ lost' = lost
    BY DEF IInv, RegionStart, MoreRegions, heap
  <1>2. call \in Call /\ root \in taken /\ level = Top /\ taken \subseteq Heap
    BY <1>1 DEF CallInv, TypeInv
  <1>3. call.regions \in Arrays /\ call.regions \in Seq(Region) /\ call.regions # <<>>
    BY <1>1, <1>2, PgtAssumption DEF Call
  <1>4. SpanFits(FirstSpan(call.regions)) /\ FirstSpan(call.regions) \in Span
    BY <1>3, FirstFitsSpan DEF SpanFits
  <1>5. FirstSpan(call.regions) = [level |-> Top, in |-> f.in, out |-> f.out, top |-> f.top]
    BY <1>3 DEF FirstSpan
  <1>6. f \in Frame
    <2>1. f.in \in Nat /\ f.out \in Nat /\ f.top \in Nat
      BY <1>4, <1>5 DEF Span
    <2> QED BY <1>2, <2>1 DEF Frame
  <1>7. frame'[Top] = f /\ frame' \in [Top .. 3 -> Frame]
    BY <1>1, <1>6, Defaults DEF TypeInv
  <1>8. TypeInv'
    BY <1>1, <1>7 DEF TypeInv
  <1>9. Apart' /\ LiveInv'
    BY <1>1 DEF Apart, LiveInv
  <1>10. made[root] = FirstSpan(call.regions)
    BY <1>1 DEF TreeInv
  <1>11. CallInv'
    BY <1>1, <1>2, <1>3, <1>7 DEF CallInv
  <1>12. TreeInv'
    BY <1>1, <1>2, <1>7, Defaults DEF TreeInv, Loose
  <1>13. StackInv'
    BY <1>1, <1>2, <1>5, <1>7, <1>10, Defaults DEF StackInv
  <1>14. InRound(f, made[root])
    <2>1. 0 \in 0 .. Entries /\ Size(Top) \in Nat /\ f.in \in Nat /\ f.out \in Nat
      BY <1>6, PgtAssumption, SizeFacts, Defaults DEF Frame
    <2> QED BY <1>5, <1>10, <2>1 DEF InRound, InAt, OutAt
  <1>15. FillInv'
    BY <1>1, <1>2, <1>7, <1>14, Defaults DEF FillInv
  <1> QED BY <1>8, <1>9, <1>11, <1>12, <1>13, <1>15 DEF IInv

(* What was taken becomes the page table. *)
LEMMA CreatedIInv == ASSUME IInv, Created PROVE IInv'
  <1> DEFINE new == [root |-> frame[Top].tt, regions |-> call.regions, pages |-> taken]
  <1>1. /\ TypeInv /\ Apart /\ LiveInv /\ CallInv /\ TreeInv
        /\ pc = "region" /\ desc' = [desc EXCEPT ![call.d] = new]
        /\ Return
        /\ tab' = tab /\ used' = used /\ made' = made /\ lost' = lost
    BY DEF IInv, Created, heap
  <1>2. call \in Call /\ call.d \in Descs /\ frame[Top].tt \in taken /\ level = Top
        /\ taken \subseteq Heap /\ desc[call.d] = None
    BY <1>1 DEF CallInv, TypeInv, Call
  <1>3. call.regions \in Arrays /\ call.regions \in Seq(Region)
    BY <1>2, PgtAssumption DEF Call
  <1>4. new \in Desc
    BY <1>2, <1>3 DEF Desc
  <1>5. desc'[call.d] = new /\ \A e \in Descs : e # call.d => desc'[e] = desc[e]
    BY <1>1, <1>2 DEF TypeInv
  <1>6. TypeInv'
    BY <1>1, <1>2, <1>4, ReturnFacts DEF TypeInv
  <1>7. Apart'
    <2>1. taken' = {} /\ desc[call.d].pages = {} /\ new.pages = taken
      BY <1>1, <1>2, ReturnFacts, Defaults
    <2>2. UNION {desc'[e].pages : e \in Descs} = taken \cup UNION {desc[e].pages : e \in Descs}
      BY <1>2, <1>5, <2>1
    <2> QED BY <1>1, <1>2, <1>5, <2>1, <2>2 DEF Apart
  <1>8. Tree(tab, made, taken, frame[Top].tt)
    <2>1. made[frame[Top].tt].level = Top
      BY <1>1, <1>3, FirstFitsSpan DEF TreeInv
    <2>2. \A q : ~Loose(frame, level, q)
      BY <1>2, Defaults DEF Loose
    <2> QED BY <1>1, <1>2, <2>1, <2>2 DEF TreeInv, Tree
  <1>9. LiveInv'
    BY <1>1, <1>5, <1>8 DEF LiveInv
  <1> QED BY <1>1, <1>6, <1>7, <1>9, ReturnFacts DEF IInv

(* A round of val_pgt_create ends: nothing is loose. *)
LEMMA DoneIInv == ASSUME IInv, FillDone PROVE IInv'
  <1>1. /\ TypeInv /\ Apart /\ LiveInv /\ CallInv /\ TreeInv
        /\ pc = "fill" /\ level = Top /\ pc' = "region" /\ call' = [call EXCEPT !.round = @ + 1]
        /\ tab' = tab /\ used' = used /\ made' = made /\ desc' = desc
        /\ level' = level /\ frame' = frame /\ taken' = taken /\ lost' = lost
    BY DEF IInv, FillDone, heap
  <1>2. call \in Call
    BY <1>1 DEF CallInv
  <1>3. call' \in Call /\ call'.d = call.d /\ call'.regions = call.regions
    BY <1>1, <1>2 DEF Call
  <1>4. TypeInv' /\ Apart' /\ LiveInv'
    BY <1>1, <1>3 DEF TypeInv, Apart, LiveInv
  <1>5. CallInv' /\ TreeInv'
    BY <1>1, <1>3 DEF CallInv, TreeInv
  <1> QED BY <1>1, <1>4, <1>5 DEF IInv, StackInv, FillInv

(* The heap is used up. *)
LEMMA FailsIInv == ASSUME IInv, FillFails PROVE IInv'
  BY DEF IInv, FillFails, Nested, Looping, heap, TypeInv, Apart, LiveInv, CallInv, TreeInv, StackInv, FillInv

(* A table that is freed on the way up was taken, and the ones above it are  *)
(* other pages.                                                              *)
LEMMA UnwindIInv == ASSUME IInv, UnwindNested PROVE IInv'
  <1> DEFINE P == frame[level].tt
  <1>1. /\ TypeInv /\ Apart /\ LiveInv /\ CallInv /\ StackInv
        /\ pc = "unwind" /\ level > Top
        /\ used' = used \ {P} /\ taken' = taken \ {P} /\ Forget(used' \ lost)
        /\ frame' = [frame EXCEPT ![level] = NoFrame] /\ level' = level - 1
        /\ desc' = desc /\ pc' = pc /\ call' = call /\ lost' = lost
    BY DEF IInv, UnwindNested, F
  <1>2. level \in Top .. 3 /\ level - 1 \in Top .. 3 /\ Top \in Nat
    BY <1>1, Defaults DEF TypeInv
  <1>3. P \in taken /\ made[P].level = level
    BY <1>1, <1>2 DEF StackInv
  <1>4. TypeInv'
    BY <1>1, <1>2, Defaults DEF TypeInv, Forget
  <1>5. \A d \in Descs : \A p \in desc[d].pages : p \in used' \ lost
    BY <1>1, <1>3 DEF Apart
  <1>6. Apart'
    BY <1>1, <1>3, <1>5 DEF Apart
  <1>7. LiveInv'
    BY <1>1, <1>5, LiveKept DEF TypeInv, Forget
  <1>8. \A l \in Top .. level - 1 : frame'[l] = frame[l] /\ frame[l].tt \in taken
                                    /\ made[frame[l].tt].level = l /\ frame[l].tt # P
    BY <1>1, <1>2, <1>3 DEF StackInv, TypeInv
  <1>9. taken' \subseteq used' \ lost
    BY <1>1 DEF Apart
  <1>10. StackInv'
    BY <1>1, <1>8, <1>9 DEF StackInv, Forget, TypeInv
  <1>11. CallInv'
    BY <1>1, <1>2, <1>8 DEF CallInv
  <1> QED BY <1>1, <1>4, <1>6, <1>7, <1>10, <1>11 DEF IInv, TreeInv, FillInv

(* The base is freed, and the rest of what was taken is lost. *)
LEMMA FailedIInv == ASSUME IInv, CreateFails PROVE IInv'
  <1> DEFINE P == frame[level].tt
  <1>1. /\ TypeInv /\ Apart /\ LiveInv /\ CallInv /\ StackInv
        /\ pc = "unwind" /\ level = Top
        /\ used' = used \ {P} /\ lost' = lost \cup (taken \ {P}) /\ Forget(used' \ lost')
        /\ Return /\ desc' = desc
    BY DEF IInv, CreateFails, F
  <1>2. P \in taken
    BY <1>1 DEF CallInv
  <1>3. TypeInv'
    BY <1>1, <1>2, ReturnFacts, Defaults DEF TypeInv, Forget
  <1>4. \A d \in Descs : \A p \in desc[d].pages : p \in used' \ lost'
    BY <1>1, <1>2 DEF Apart
  <1>5. Apart'
    BY <1>1, <1>2, <1>4, ReturnFacts DEF Apart
  <1>6. LiveInv'
    BY <1>1, <1>4, LiveKept DEF TypeInv, Forget
  <1> QED BY <1>1, <1>3, <1>5, <1>6, ReturnFacts DEF IInv

(* val_pgt_destroy frees the pages of the table and no others. *)
LEMMA DestroyIInv == ASSUME IInv, NEW d \in Descs, PgtDestroy(d) PROVE IInv'
  <1> DEFINE S == desc[d].pages
  <1>1. /\ TypeInv /\ Apart /\ LiveInv /\ CallInv /\ pc = "idle" /\ desc[d] # None
        /\ used' = used \ (FreeTranslationTable(desc[d].root) \cup {desc[d].root})
        /\ desc' = [desc EXCEPT ![d] = None] /\ Forget(used' \ lost)
        /\ pc' = pc /\ call' = call /\ level' = level /\ frame' = frame /\ taken' = taken
        /\ lost' = lost
    BY DEF IInv, PgtDestroy, running
  <1>2. S \in SUBSET Heap /\ Tree(tab, made, S, desc[d].root)
    BY <1>1 DEF TypeInv, LiveInv, Desc
  <1>3. used' = used \ S
    BY <1>1, <1>2, TreeReached
  <1>4. TypeInv'
    BY <1>1, <1>3, Defaults DEF TypeInv, Forget
  <1>5. desc'[d] = None /\ \A e \in Descs : e # d => desc'[e] = desc[e]
    BY <1>1 DEF TypeInv
  <1>6. \A e \in Descs : e # d => \A p \in desc[e].pages : p \in used' \ lost /\ p \notin S
    BY <1>1, <1>3 DEF Apart
  <1>7. UNION {desc'[e].pages : e \in Descs} = (UNION {desc[e].pages : e \in Descs}) \ S
    BY <1>5, <1>6, Defaults
  <1>8. Apart'
    <2>1. used' = lost \cup taken \cup UNION {desc'[e].pages : e \in Descs}
      BY <1>1, <1>3, <1>7 DEF Apart
    <2>2. \A e \in Descs : desc'[e].pages \subseteq desc[e].pages
      BY <1>5, Defaults
    <2> QED BY <1>1, <2>1, <2>2 DEF Apart
  <1>9. LiveInv'
    <2> SUFFICES ASSUME NEW e \in Descs, desc'[e] # None
                 PROVE  Tree(tab', made', desc'[e].pages, desc'[e].root)
      BY DEF LiveInv
    <2>1. e # d /\ desc'[e] = desc[e]
      BY <1>5
    <2>2. \A p \in desc[e].pages : tab'[p] = tab[p] /\ made'[p] = made[p]
      <3>1. desc[e].pages \subseteq Heap
        BY <1>1, <2>1 DEF TypeInv, Desc
      <3> QED BY <1>1, <1>6, <2>1, <3>1 DEF Forget
    <2> QED BY <1>1, <2>1, <2>2, TreeKept DEF LiveInv
  <1> QED BY <1>1, <1>4, <1>8, <1>9 DEF IInv, CallInv, TreeInv, StackInv, FillInv

(* The frame that runs goes over a table that was taken, in a round that is  *)
(* within the table when the loop goes on.                                   *)
LEMMA FillFacts ==
  ASSUME IInv, pc = "fill"
  PROVE  /\ level \in Top .. 3 /\ Top \in Nat
         /\ F = frame[level] /\ F \in Frame /\ F.in \in Nat /\ F.out \in Nat /\ F.top \in Nat
         /\ F.tt \in taken /\ F.tt \in Heap /\ FIndex \in Slots
         /\ made[F.tt] \in Span /\ SpanFits(made[F.tt]) /\ made[F.tt].level = level
         /\ F.top = made[F.tt].top
         /\ \E k \in 0 .. Entries : F.in = InAt(made[F.tt], k) /\ F.out = OutAt(made[F.tt], k)
  <1>1. TypeInv /\ StackInv /\ TreeInv /\ FillInv /\ level \in Top .. 3 /\ Top \in Nat
    BY Defaults DEF IInv, TypeInv
  <1>2. F = frame[level] /\ F \in Frame
    BY <1>1 DEF TypeInv, F
  <1>3. F.in \in Nat /\ F.out \in Nat /\ F.top \in Nat
    BY <1>2 DEF Frame
  <1>4. F.tt \in taken /\ F.tt \in Heap /\ made[F.tt].level = level
    BY <1>1, <1>2 DEF StackInv, TypeInv
  <1>5. SpanFits(made[F.tt])
    BY <1>1, <1>4 DEF TreeInv, Forest, Spans
  <1>6. InRound(F, made[F.tt])
    BY <1>1, <1>2 DEF FillInv
  <1> QED BY <1>1, <1>2, <1>3, <1>4, <1>5, <1>6, IndexType DEF FIndex, SpanFits, InRound

(* The round after one that is within the table. *)
LEMMA AdvanceRound ==
  ASSUME NEW f \in Frame, NEW s, SpanFits(s), InRound(f, s), f.in <= f.top
  PROVE  /\ Advance(f, s.level) \in Frame /\ Advance(f, s.level).tt = f.tt
         /\ InRound(Advance(f, s.level), s)
         /\ \E k \in Slots : f.in = InAt(s, k) /\ f.out = OutAt(s, k) /\ InAt(s, k) <= s.top
  <1> DEFINE n == Size(s.level)
             g == Advance(f, s.level)
  <1>1. n \in Nat \ {0} /\ f.in \in Nat /\ f.out \in Nat /\ s \in Span /\ s.in \in Nat /\ s.out \in Nat
    BY SizeFacts DEF SpanFits, Span, Frame
  <1>2. PICK k \in 0 .. Entries : f.in = InAt(s, k) /\ f.out = OutAt(s, k)
    BY DEF InRound
  <1>3. k \in Nat /\ InAt(s, k) <= s.top /\ f.top = s.top /\ Entries \in Nat
    BY <1>2, PgtAssumption DEF InRound
  <1>4. k \in Slots
    BY <1>3, RoundLess
  <1>5. k + 1 \in 0 .. Entries
    BY <1>3, <1>4 DEF Slots
  <1>6. g.tt = f.tt /\ g.in = f.in + n /\ g.out = f.out + n /\ g.top = f.top
    BY DEF Advance, Frame
  <1>7. g \in Frame
    BY <1>1 DEF Advance, Frame
  <1>8. InAt(s, k + 1) = InAt(s, k) + n /\ OutAt(s, k + 1) = OutAt(s, k) + n
    <2>1. (k + 1) * n = k * n + n /\ k * n \in Nat
      BY <1>1, <1>3
    <2> QED BY <1>1, <2>1 DEF InAt, OutAt
  <1>9. InRound(g, s)
    BY <1>2, <1>3, <1>5, <1>6, <1>8 DEF InRound
  <1> QED BY <1>2, <1>3, <1>4, <1>6, <1>7, <1>9

(* An entry that holds a table is one the loop descends from: the last level *)
(* holds none, and a round that would write a block finds none.              *)
LEMMA LeafOverNoTable ==
  ASSUME IInv, Looping, level = 3 \/ IsBlock(F.in, F.out, F.top, level)
  PROVE  ~Table(tab, F.tt, FIndex)
  <1> SUFFICES ASSUME Table(tab, F.tt, FIndex) PROVE FALSE
    OBVIOUS
  <1> DEFINE s == made[F.tt]
  <1>1. pc = "fill" /\ F.in <= F.top
    BY DEF Looping
  <1>2. Links(tab, made, taken)
    BY <1>1 DEF IInv, TreeInv, Forest
  <1>3. F.tt \in taken /\ FIndex \in Slots /\ SpanFits(s) /\ s.level = level /\ F.top = s.top
    BY <1>1, FillFacts
  <1>4. PICK j \in Slots : LinkedBy(tab, made, F.tt, FIndex, j)
    BY <1>2, <1>3 DEF Links
  <1>5. PICK k \in 0 .. Entries : F.in = InAt(s, k) /\ F.out = OutAt(s, k)
    BY <1>1, FillFacts
  <1>6. j \in Nat /\ k \in Nat
    BY PgtAssumption DEF Slots
  <1>7. j = k
    BY <1>1, <1>3, <1>4, <1>5, <1>6, RoundsApart DEF LinkedBy, NestedAt, FIndex
  <1> QED BY <1>3, <1>4, <1>5, <1>7 DEF LinkedBy, NestedAt

(* A page or a block changes no link. *)
LEMMA LeafIInv ==
  ASSUME IInv, Looping, level = 3 \/ IsBlock(F.in, F.out, F.top, level),
         NEW kind \in {"page", "block"}, NEW out \in Nat, Leaf(kind, out)
  PROVE  IInv'
  <1> DEFINE e == [kind |-> kind, out |-> out, attr |-> call.regions[1].attr]
             s == made[F.tt]
  <1>0. pc = "fill" /\ F.in <= F.top
    BY DEF Looping
  <1>1. /\ TypeInv /\ Apart /\ LiveInv /\ CallInv /\ TreeInv /\ StackInv /\ FillInv
        /\ tab' = [tab EXCEPT ![F.tt][FIndex] = e]
        /\ frame' = [frame EXCEPT ![level] = Advance(F, level)]
        /\ used' = used /\ made' = made /\ desc' = desc /\ pc' = pc /\ call' = call
        /\ level' = level /\ taken' = taken /\ lost' = lost
    BY DEF IInv, Leaf
  <1>2. e \in Entry
    <2>1. call \in Call /\ call.regions # <<>>
      BY <1>0, <1>1 DEF CallInv
    <2>2. call.regions \in Seq(Region)
      BY <2>1, PgtAssumption DEF Call
    <2>3. call.regions[1] \in Region
      BY <2>1, <2>2
    <2> QED BY <1>0, <2>3, FillFacts DEF Entry, Region
  <1>3. /\ level \in Top .. 3 /\ F = frame[level] /\ F \in Frame /\ F.tt \in taken /\ F.tt \in Heap
        /\ FIndex \in Slots /\ SpanFits(s) /\ s.level = level /\ InRound(F, s)
    BY <1>0, FillFacts DEF InRound
  <1>4. Advance(F, level) \in Frame /\ Advance(F, level).tt = F.tt /\ InRound(Advance(F, level), s)
    BY <1>0, <1>3, AdvanceRound
  <1> HIDE DEF e, s
  <1>5. /\ frame' \in [Top .. 3 -> Frame]
        /\ frame'[level] = Advance(F, level)
        /\ \A l \in Top .. 3 : l # level => frame'[l] = frame[l]
        /\ \A l \in Top .. 3 : frame'[l].tt = frame[l].tt
    BY <1>1, <1>3, <1>4 DEF TypeInv
  <1>6. TypeInv'
    BY <1>1, <1>2, <1>3, <1>5 DEF TypeInv
  <1>7. Apart'
    BY <1>1 DEF Apart
  <1>8. LiveInv'
    <2>1. \A d \in Descs : F.tt \notin desc[d].pages
      BY <1>1, <1>3 DEF Apart
    <2>2. \A p \in Heap : p # F.tt => tab'[p] = tab[p]
      BY <1>1 DEF TypeInv
    <2>3. \A d \in Descs : desc[d].pages \subseteq Heap
      BY <1>1, Defaults DEF TypeInv, Desc
    <2> QED BY <1>1, <2>1, <2>2, <2>3, LiveKept
  <1>9. \A p \in Heap, i \in Slots : /\ Table(tab', p, i) <=> Table(tab, p, i)
                                     /\ Table(tab, p, i) => tab'[p][i].out = tab[p][i].out
    <2>1. ~Table(tab, F.tt, FIndex)
      BY LeafOverNoTable
    <2>2. tab'[F.tt][FIndex] = e /\ e.kind # "table"
      BY <1>1, <1>3 DEF TypeInv, e
    <2>3. \A p \in Heap, i \in Slots : p # F.tt \/ i # FIndex => tab'[p][i] = tab[p][i]
      BY <1>1, <1>3 DEF TypeInv
    <2> QED BY <2>1, <2>2, <2>3 DEF Table
  <1>10. taken \subseteq Heap
    BY <1>1 DEF TypeInv
  <1>11. Forest(tab', made', taken) /\ \A q : Linked(tab', taken, q) <=> Linked(tab, taken, q)
    <2>1. Forest(tab, made, taken)
      BY <1>0, <1>1 DEF TreeInv
    <2> QED BY <1>1, <1>9, <1>10, <2>1, ForestKept
  <1>12. CallInv'
    BY <1>1, <1>3, <1>5, Defaults DEF CallInv
  <1>13. TreeInv'
    <2>1. \A q : Loose(frame, level, q) => Loose(frame', level', q)
      BY <1>1, <1>3, <1>5, Defaults DEF Loose
    <2> QED BY <1>1, <1>0, <1>5, <1>11, <2>1, Defaults DEF TreeInv
  <1>14. StackInv'
    BY <1>1, <1>0, <1>3, <1>5 DEF StackInv
  <1>15. FillInv'
    <2>1. \A l \in Top .. level : InRound(frame'[l], made'[frame'[l].tt])
      BY <1>0, <1>1, <1>3, <1>4, <1>5 DEF FillInv, s
    <2>2. ASSUME NEW l \in Top .. level - 1
          PROVE  Waits(tab', made', taken', frame'[l], frame'[l + 1].tt, l)
      <3>1. l \in Top .. 3 /\ l + 1 \in Top .. 3 /\ l # level /\ l \in Top .. level
        BY <1>3, Defaults
      <3>2. frame'[l] = frame[l] /\ frame'[l + 1].tt = frame[l + 1].tt
        BY <1>5, <3>1
      <3>3. Waits(tab, made, taken, frame[l], frame[l + 1].tt, l)
        BY <1>0, <1>1 DEF FillInv
      <3>4. frame[l].tt \in Heap /\ frame[l].in \in Nat
        BY <1>0, <1>1, <1>10, <3>1 DEF StackInv, TypeInv, Frame
      <3>5. Index(frame[l].in, l) \in Slots
        BY <3>1, <3>4, IndexType
      <3> QED BY <1>1, <1>9, <1>11, <3>2, <3>3, <3>4, <3>5 DEF Waits
    <2> QED BY <1>1, <2>1, <2>2 DEF FillInv
  <1> QED BY <1>6, <1>7, <1>8, <1>12, <1>13, <1>14, <1>15 DEF IInv

(* A call of fill_translation_table starts in the round 0 of its table. *)
LEMMA BelowRound ==
  ASSUME NEW in \in Nat, NEW out \in Nat, NEW top \in Nat, NEW l \in Top .. 2, NEW tt
  PROVE  InRound([tt |-> tt, in |-> in, out |-> out, top |-> Bound(in, top, l)],
                 Below(in, out, top, l))
  <1>1. Size(l + 1) \in Nat /\ 0 \in 0 .. Entries
    BY SizeFacts, LevelFacts, PgtAssumption
  <1> QED BY <1>1 DEF InRound, InAt, OutAt, Below

(* The loop goes down into the table of an earlier round of val_pgt_create,  *)
(* which was made for the same addresses.                                    *)
LEMMA OldIInv == ASSUME IInv, FillOld PROVE IInv'
  <1> DEFINE next == tab[F.tt][FIndex].out
             s == made[F.tt]
             g == [tt |-> next, in |-> F.in, out |-> F.out, top |-> Bound(F.in, F.top, level)]
  <1>0. pc = "fill" /\ F.in <= F.top /\ Looping /\ level < 3 /\ ~IsBlock(F.in, F.out, F.top, level)
        /\ Table(tab, F.tt, FIndex)
    BY DEF FillOld, Nested, Looping, Table
  <1>1. /\ TypeInv /\ Apart /\ LiveInv /\ CallInv /\ TreeInv /\ StackInv /\ FillInv
        /\ level' = level + 1 /\ frame' = [frame EXCEPT ![level + 1] = g]
        /\ tab' = tab /\ used' = used /\ made' = made /\ desc' = desc /\ pc' = pc /\ call' = call
        /\ taken' = taken /\ lost' = lost
    BY DEF IInv, FillOld, Descend, heap
  <1>2. /\ level \in Top .. 3 /\ Top \in Nat /\ F = frame[level] /\ F \in Frame
        /\ F.tt \in taken /\ FIndex \in Slots
        /\ SpanFits(s) /\ s.level = level /\ F.top = s.top
        /\ F.in \in Nat /\ F.out \in Nat /\ F.top \in Nat
    BY <1>0, FillFacts
  <1>3. next \in taken /\ next \in Heap /\ made[next] = Below(F.in, F.out, F.top, level)
    <2>1. PICK j \in Slots : LinkedBy(tab, made, F.tt, FIndex, j) /\ next \in taken
      BY <1>0, <1>1, <1>2 DEF TreeInv, Forest, Links
    <2>2. PICK k \in 0 .. Entries : F.in = InAt(s, k) /\ F.out = OutAt(s, k)
      BY <1>0, FillFacts
    <2>3. j \in Nat /\ k \in Nat
      BY PgtAssumption DEF Slots
    <2>4. j = k
      BY <1>0, <1>2, <2>1, <2>2, <2>3, RoundsApart DEF LinkedBy, NestedAt, FIndex
    <2> QED BY <1>1, <1>2, <2>1, <2>2, <2>4 DEF LinkedBy, Sub, TypeInv
  <1> HIDE DEF next, s
  <1>4. SpanFits(Below(F.in, F.out, F.top, level))
    BY <1>0, <1>2, BelowFits
  <1>5. g \in Frame
    BY <1>2, <1>3, <1>4 DEF SpanFits, Span, Below, Frame
  <1>6. /\ frame' \in [Top .. 3 -> Frame] /\ frame'[level + 1] = g
        /\ level + 1 \in Top .. 3 /\ \A l \in Top .. level : frame'[l] = frame[l]
    BY <1>0, <1>1, <1>2, <1>5 DEF TypeInv
  <1>7. TypeInv'
    BY <1>1, <1>6 DEF TypeInv
  <1>8. Apart' /\ LiveInv'
    BY <1>1 DEF Apart, LiveInv
  <1>9. CallInv'
    BY <1>1, <1>2, <1>6, <1>0 DEF CallInv
  <1>10. TreeInv'
    <2>1. \A q : Loose(frame, level, q) => Loose(frame', level', q)
      BY <1>1, <1>2, <1>6 DEF Loose
    <2>2. frame'[Top] = frame[Top]
      BY <1>2, <1>6
    <2> QED BY <1>0, <1>1, <2>1, <2>2 DEF TreeInv
  <1>11. StackInv'
    BY <1>0, <1>1, <1>2, <1>3, <1>6 DEF StackInv, Below
  <1>12. InRound(g, made[next])
    BY <1>0, <1>2, <1>3, BelowRound
  <1>13. Waits(tab, made, taken, F, next, level)
    BY <1>0, <1>3 DEF Waits, FIndex, next
  <1>14. FillInv'
    <2>1. frame'[level + 1].tt = next /\ frame'[level] = F
      BY <1>2, <1>6
    <2>2. \A l \in Top .. level' : l \in Top .. level \/ l = level + 1
      BY <1>1, <1>2
    <2>3. \A l \in Top .. level : InRound(frame'[l], made'[frame'[l].tt])
      BY <1>0, <1>1, <1>6 DEF FillInv
    <2>4. \A l \in Top .. level' : InRound(frame'[l], made'[frame'[l].tt])
      BY <1>1, <1>6, <1>12, <2>1, <2>2, <2>3
    <2>5. ASSUME NEW l \in Top .. level - 1
          PROVE  Waits(tab', made', taken', frame'[l], frame'[l + 1].tt, l)
      <3>1. l \in Top .. level /\ l + 1 \in Top .. level
        BY <1>2
      <3>2. frame'[l] = frame[l] /\ frame'[l + 1] = frame[l + 1]
        BY <1>6, <3>1
      <3> QED BY <1>0, <1>1, <3>2 DEF FillInv
    <2>6. \A l \in Top .. level' - 1 : l \in Top .. level - 1 \/ l = level
      BY <1>1, <1>2
    <2> QED BY <1>1, <1>13, <2>1, <2>4, <2>5, <2>6 DEF FillInv
  <1> QED BY <1>7, <1>8, <1>9, <1>10, <1>11, <1>14 DEF IInv

(* The loop goes down into a new table, which nothing refers to yet. *)
LEMMA NewIInv == ASSUME IInv, FillNew PROVE IInv'
  <1> DEFINE P == NewPage
             s == Below(F.in, F.out, F.top, level)
             g == [tt |-> P, in |-> F.in, out |-> F.out, top |-> Bound(F.in, F.top, level)]
  <1>0. pc = "fill" /\ F.in <= F.top /\ level < 3 /\ ~IsBlock(F.in, F.out, F.top, level)
        /\ ~Table(tab, F.tt, FIndex) /\ CanAlloc
    BY DEF FillNew, Nested, Looping, Table
  <1>1. /\ TypeInv /\ Apart /\ LiveInv /\ CallInv /\ TreeInv /\ StackInv /\ FillInv
        /\ level' = level + 1 /\ frame' = [frame EXCEPT ![level + 1] = g]
        /\ used' = used \cup {P} /\ tab' = [tab EXCEPT ![P] = Zeroed]
        /\ made' = [made EXCEPT ![P] = s] /\ taken' = taken \cup {P}
        /\ desc' = desc /\ pc' = pc /\ call' = call /\ lost' = lost
    BY DEF IInv, FillNew, Alloc, Descend, Below
  <1>2. /\ level \in Top .. 3 /\ Top \in Nat /\ F = frame[level] /\ F \in Frame
        /\ F.tt \in taken /\ FIndex \in Slots
        /\ F.in \in Nat /\ F.out \in Nat /\ F.top \in Nat
    BY <1>0, FillFacts
  <1>3. SpanFits(s) /\ s \in Span
    BY <1>0, <1>2, BelowFits DEF SpanFits
  <1>4. P \in Heap /\ P \notin used /\ P \notin taken /\ \A d \in Descs : P \notin desc[d].pages
    BY <1>0, <1>1, NewPageFree DEF Apart
  <1> HIDE DEF P
  <1>5. g \in Frame
    BY <1>2, <1>3, <1>4 DEF Span, Below, Frame
  <1> HIDE DEF s
  <1>6. /\ frame' \in [Top .. 3 -> Frame] /\ frame'[level + 1] = g
        /\ level + 1 \in Top .. 3 /\ \A l \in Top .. level : frame'[l] = frame[l]
    BY <1>0, <1>1, <1>2, <1>5 DEF TypeInv
  <1>7. TypeInv'
    BY <1>1, <1>3, <1>4, <1>6, Defaults DEF TypeInv
  <1>8. Apart'
    BY <1>1, <1>4 DEF Apart
  <1>9. made'[P] = s /\ \A p \in Heap : p # P => tab'[p] = tab[p] /\ made'[p] = made[p]
    BY <1>1, <1>4 DEF TypeInv
  <1>10. LiveInv'
    BY <1>1, <1>4, LiveKept DEF TypeInv
  <1>11. CallInv'
    BY <1>0, <1>1, <1>2, <1>6 DEF CallInv
  <1>12. /\ Forest(tab', made', taken') /\ \A q : Linked(tab', taken', q) <=> Linked(tab, taken, q)
         /\ ~Linked(tab, taken, P)
    <2>1. Forest(tab, made, taken)
      BY <1>0, <1>1 DEF TreeInv
    <2>2. ~Linked(tab, taken, P)
      BY <1>4, <2>1 DEF Linked, Forest, Links
    <2> QED BY <1>1, <1>3, <1>4, <2>1, <2>2, ForestNew DEF TypeInv
  <1>13. \A l \in Top .. level : frame[l].tt \in taken /\ frame[l].tt \in Heap /\ frame[l].tt # P
    BY <1>0, <1>1, <1>4 DEF StackInv, TypeInv
  <1>14. TreeInv'
    <2>1. \A q : Loose(frame, level, q) => Loose(frame', level', q)
      BY <1>1, <1>2, <1>6 DEF Loose
    <2>2. Loose(frame', level', P)
      BY <1>1, <1>2, <1>6 DEF Loose
    <2>3. frame'[Top].tt = frame[Top].tt /\ made'[frame[Top].tt] = made[frame[Top].tt]
      BY <1>2, <1>6, <1>9, <1>13
    <2> QED BY <1>0, <1>1, <1>12, <2>1, <2>2, <2>3 DEF TreeInv
  <1>15. s.level = level + 1
    BY DEF s, Below
  <1>16. StackInv'
    BY <1>0, <1>1, <1>2, <1>6, <1>9, <1>13, <1>15 DEF StackInv
  <1>17. InRound(g, s)
    BY <1>0, <1>2, BelowRound DEF s
  <1>18. Waits(tab', made', taken', F, P, level)
    <2>1. tab'[F.tt] = tab[F.tt] /\ ~Table(tab', F.tt, FIndex)
      BY <1>0, <1>2, <1>9, <1>13 DEF Table
    <2> QED BY <1>0, <1>9, <1>12, <2>1 DEF Waits, FIndex, s
  <1>19. ASSUME NEW l \in Top .. level - 1
         PROVE  Waits(tab', made', taken', frame'[l], frame'[l + 1].tt, l)
    <2>1. l \in Top .. level /\ l + 1 \in Top .. level
      BY <1>2
    <2>2. Waits(tab, made, taken, frame[l], frame[l + 1].tt, l)
      BY <1>0, <1>1 DEF FillInv
    <2>3. frame'[l] = frame[l] /\ frame'[l + 1] = frame[l + 1]
      BY <1>6, <2>1
    <2>4. tab'[frame[l].tt] = tab[frame[l].tt] /\ made'[frame[l + 1].tt] = made[frame[l + 1].tt]
      BY <1>9, <1>13, <2>1
    <2> QED BY <1>12, <2>2, <2>3, <2>4 DEF Waits, Table
  <1>20. FillInv'
    <2>1. \A l \in Top .. level : InRound(frame'[l], made'[frame'[l].tt])
      BY <1>0, <1>1, <1>6, <1>9, <1>13 DEF FillInv
    <2>2. frame'[level + 1].tt = P /\ frame'[level] = F
      BY <1>2, <1>6
    <2>3. \A l \in Top .. level' : l \in Top .. level \/ l = level + 1
      BY <1>1, <1>2
    <2>4. \A l \in Top .. level' : InRound(frame'[l], made'[frame'[l].tt])
      BY <1>6, <1>9, <1>17, <2>1, <2>2, <2>3
    <2>5. \A l \in Top .. level' - 1 : l \in Top .. level - 1 \/ l = level
      BY <1>1, <1>2
    <2> QED BY <1>1, <1>18, <1>19, <2>2, <2>4, <2>5 DEF FillInv
  <1> QED BY <1>7, <1>8, <1>10, <1>11, <1>14, <1>16, <1>20 DEF IInv

(* A table that is through is linked from the entry its caller waits at. *)
LEMMA ReturnIInv == ASSUME HeapBelow4G, IInv, FillReturn PROVE IInv'
  <1> DEFINE lv == level - 1
             up == frame[lv]
             P == F.tt
             i == Index(up.in, lv)
             e == [kind |-> "table", out |-> P, attr |-> "zero"]
             s == made[up.tt]
  <1>0. pc = "fill" /\ level > Top
    BY DEF FillReturn
  <1>a. P % Low = P
    BY <1>0, FillFacts, LowAddress
  <1>1. /\ TypeInv /\ Apart /\ LiveInv /\ CallInv /\ TreeInv /\ StackInv /\ FillInv
        /\ tab' = [tab EXCEPT ![up.tt][i] = e]
        /\ frame' = [frame EXCEPT ![level] = NoFrame, ![lv] = Advance(up, lv)]
        /\ level' = lv
        /\ used' = used /\ made' = made /\ desc' = desc /\ pc' = pc /\ call' = call
        /\ taken' = taken /\ lost' = lost
    BY <1>a DEF IInv, FillReturn
  <1>2. /\ level \in Top .. 3 /\ Top \in Nat /\ P = frame[level].tt /\ P \in taken
        /\ lv \in Top .. 2 /\ lv \in Top .. 3 /\ lv \in Top .. level /\ lv \in Top .. level - 1
        /\ lv + 1 = level /\ lv # level /\ made[P].level = level
    BY <1>0, FillFacts
  <1> HIDE DEF lv
  <1>3. /\ up \in Frame /\ up.in \in Nat /\ up.tt \in taken /\ up.tt \in Heap
        /\ s.level = lv /\ taken \subseteq Heap
    BY <1>0, <1>1, <1>2 DEF StackInv, TypeInv, Frame
  <1>4. SpanFits(s) /\ InRound(up, s)
    BY <1>0, <1>1, <1>2, <1>3 DEF TreeInv, Forest, Spans, FillInv
  <1>5. Waits(tab, made, taken, up, P, lv)
    BY <1>0, <1>1, <1>2 DEF FillInv, lv
  <1>6. i \in Slots
    BY <1>2, <1>3, IndexType
  <1>7. /\ Advance(up, lv) \in Frame /\ Advance(up, lv).tt = up.tt /\ InRound(Advance(up, lv), s)
        /\ \E k \in Slots : up.in = InAt(s, k) /\ up.out = OutAt(s, k) /\ InAt(s, k) <= s.top
    BY <1>3, <1>4, <1>5, AdvanceRound DEF Waits
  <1>8. e \in Entry
    BY <1>2, <1>3, HeapAddress DEF Entry
  <1>9. /\ frame' \in [Top .. 3 -> Frame] /\ frame'[lv] = Advance(up, lv)
        /\ \A l \in Top .. lv : frame'[l].tt = frame[l].tt
        /\ \A l \in Top .. lv : l # lv => frame'[l] = frame[l]
    <2>1. \A l \in Top .. lv : l \in Top .. 3 /\ l # level
      BY <1>2 DEF lv
    <2> HIDE DEF e, i, up, s, P
    <2>2. frame'[lv] = Advance(up, lv) /\ \A l \in Top .. 3 : l # lv /\ l # level => frame'[l] = frame[l]
      BY <1>1, <1>2 DEF TypeInv
    <2>3. frame' \in [Top .. 3 -> Frame]
      BY <1>1, <1>2, <1>7, Defaults DEF TypeInv
    <2> QED BY <1>7, <2>1, <2>2, <2>3 DEF up
  <1> HIDE DEF e, i, up, s, P
  <1>10. TypeInv'
    BY <1>1, <1>2, <1>3, <1>6, <1>8, <1>9 DEF TypeInv
  <1>11. Apart'
    BY <1>1 DEF Apart
  <1>12. \A p \in Heap : p # up.tt => tab'[p] = tab[p]
    BY <1>1 DEF TypeInv
  <1>13. LiveInv'
    <2>1. \A d \in Descs : up.tt \notin desc[d].pages
      BY <1>1, <1>3 DEF Apart
    <2>2. \A d \in Descs : desc[d].pages \subseteq Heap
      BY <1>1, Defaults DEF TypeInv, Desc
    <2> QED BY <1>1, <1>12, <2>1, <2>2, LiveKept
  <1>14. CallInv'
    BY <1>0, <1>1, <1>2, <1>9 DEF CallInv
  <1>15. /\ Forest(tab', made', taken) /\ Linked(tab', taken, P)
         /\ \A q : Linked(tab, taken, q) => Linked(tab', taken, q)
         /\ \A q : q # P /\ ~Linked(tab, taken, q) => ~Linked(tab', taken, q)
    <2>1. Forest(tab, made, taken) /\ tab \in [Heap -> [Slots -> Entry]]
      BY <1>0, <1>1 DEF TreeInv, TypeInv
    <2>2. CASE Table(tab, up.tt, i)
      <3>1. tab[up.tt][i].out = P
        BY <1>5, <2>2 DEF Waits, i
      <3>2. tab'[up.tt][i] = e /\ e.kind = "table" /\ e.out = P
        BY <1>1, <1>3, <1>6, <2>1 DEF e
      <3>3. \A p \in taken, j \in Slots : /\ Table(tab', p, j) <=> Table(tab, p, j)
                                          /\ Table(tab, p, j) => tab'[p][j].out = tab[p][j].out
        <4>1. \A p \in taken, j \in Slots : p # up.tt \/ j # i => tab'[p][j] = tab[p][j]
          BY <1>1, <1>3, <1>6, <2>1
        <4> QED BY <2>2, <3>1, <3>2, <4>1 DEF Table
      <3>4. Linked(tab, taken, P)
        BY <1>3, <1>6, <2>2, <3>1 DEF Linked
      <3> QED BY <1>1, <2>1, <3>3, <3>4, ForestKept
    <2>3. CASE ~Table(tab, up.tt, i)
      <3>1. ~Linked(tab, taken, P)
        BY <1>5, <2>3 DEF Waits, i
      <3>2. PICK k \in Slots : up.in = InAt(s, k) /\ up.out = OutAt(s, k) /\ InAt(s, k) <= s.top
        BY <1>7
      <3>3. up.top = s.top /\ s.level = lv /\ lv < 3
        BY <1>2, <1>3, <1>4 DEF InRound
      <3>4. NestedAt(s, k) /\ made[P] = Sub(s, k) /\ i = Index(InAt(s, k), s.level)
        BY <1>5, <3>2, <3>3 DEF Waits, NestedAt, Sub, i
      <3>5. tab'[up.tt][i].out = P
        BY <1>1, <1>3, <1>6, <2>1 DEF e
      <3>6. LinkedBy(tab', made, up.tt, i, k)
        BY <3>4, <3>5 DEF s, LinkedBy
      <3>7. /\ Table(tab', up.tt, i)
            /\ \A p \in taken, j \in Slots : p # up.tt \/ j # i => tab'[p][j] = tab[p][j]
        BY <1>1, <1>3, <1>6, <2>1 DEF e, Table
      <3>8. NewLink(tab, tab', made, taken, up.tt, i, P)
        BY <1>2, <1>3, <1>6, <3>1, <3>5, <3>6, <3>7 DEF NewLink
      <3>9. /\ Forest(tab', made, taken) /\ Linked(tab', taken, P)
            /\ \A q : Linked(tab, taken, q) => Linked(tab', taken, q)
            /\ \A q : q # P /\ ~Linked(tab, taken, q) => ~Linked(tab', taken, q)
        BY <2>1, <2>3, <3>8, ForestLink
      <3> QED BY <1>1, <3>9
    <2> QED BY <2>2, <2>3
  <1>16. TreeInv'
    <2>1. \A q : Loose(frame, level, q) => Loose(frame', level', q) \/ q = P
      <3> SUFFICES ASSUME NEW q, Loose(frame, level, q), q # P PROVE Loose(frame', level', q)
        OBVIOUS
      <3>1. PICK l \in Top + 1 .. level : frame[l].tt = q
        BY DEF Loose
      <3>2. l # level
        BY <1>2, <3>1
      <3>3. l \in Top + 1 .. lv /\ l \in Top .. lv
        BY <1>2, <3>2 DEF lv
      <3> QED BY <1>1, <1>9, <3>1, <3>3 DEF Loose
    <2>2. frame'[Top].tt = frame[Top].tt
      BY <1>2, <1>9
    <2> QED BY <1>0, <1>1, <1>15, <2>1, <2>2 DEF TreeInv
  <1>17. \A l \in Top .. lv : l \in Top .. level /\ l # level
    BY <1>2 DEF lv
  <1>18. \A l \in Top .. lv : frame[l].tt \in taken /\ made[frame[l].tt].level = l
    BY <1>0, <1>1, <1>17 DEF StackInv
  <1>19. StackInv'
    BY <1>1, <1>9, <1>18 DEF StackInv
  <1>20. \A l \in Top .. lv : InRound(frame'[l], made'[frame'[l].tt])
    <2>1. InRound(frame'[lv], made'[frame'[lv].tt])
      BY <1>1, <1>7, <1>9 DEF s
    <2> QED BY <1>0, <1>1, <1>9, <1>17, <2>1 DEF FillInv
  <1>21. ASSUME NEW l \in Top .. lv - 1
         PROVE  Waits(tab', made', taken', frame'[l], frame'[l + 1].tt, l)
    <2>1. l \in Top .. lv /\ l + 1 \in Top .. lv /\ l # lv /\ l \in Top .. level - 1
      BY <1>2 DEF lv
    <2>2. frame'[l] = frame[l] /\ frame'[l + 1].tt = frame[l + 1].tt
      BY <1>9, <2>1
    <2>3. Waits(tab, made, taken, frame[l], frame[l + 1].tt, l)
      BY <1>0, <1>1, <2>1 DEF FillInv
    <2>4. made[frame[l].tt].level = l /\ frame[l].tt # up.tt /\ frame[l].tt \in Heap
      BY <1>3, <1>18, <2>1 DEF s
    <2>5. made[frame[l + 1].tt].level = l + 1 /\ frame[l + 1].tt # P
      BY <1>2, <1>18, <2>1
    <2>6. tab'[frame[l].tt] = tab[frame[l].tt]
      BY <1>12, <2>4
    <2> QED BY <1>1, <1>15, <2>2, <2>3, <2>5, <2>6 DEF Waits, Table
  <1>22. FillInv'
    BY <1>1, <1>20, <1>21 DEF FillInv
  <1> QED BY <1>10, <1>11, <1>13, <1>14, <1>16, <1>19, <1>22 DEF IInv

(* Every step keeps the invariant. *)
LEMMA NextIInv == HeapBelow4G /\ IInv /\ [Next]_vars => IInv'
  <1> SUFFICES ASSUME HeapBelow4G, IInv, [Next]_vars PROVE IInv'
    OBVIOUS
  <1>1. CASE Create
    BY <1>1, CreateIInv DEF Create
  <1>2. CASE FillPage
    <2>1. F.out % Low \in Nat
      BY <1>2, FillFacts, PgtAssumption DEF FillPage, Looping
    <2> QED BY <1>2, <2>1, LeafIInv DEF FillPage
  <1>3. CASE FillBlock
    <2>1. F.out \in Nat
      BY <1>3, FillFacts DEF FillBlock, Looping
    <2> QED BY <1>3, <2>1, LeafIInv DEF FillBlock
  <1>4. CASE Destroy
    BY <1>4, DestroyIInv DEF Destroy
  <1>5. CASE UNCHANGED vars
    BY <1>5, StutterIInv
  <1> QED BY <1>1, <1>2, <1>3, <1>4, <1>5, RefusedIInv, StartIInv, CreatedIInv, OldIInv, NewIInv,
             FailsIInv, ReturnIInv, DoneIInv, UnwindIInv, FailedIInv DEF Next

(* The pages of a live page table are the ones its creation took. *)
LEMMA LivePages == ASSUME IInv, NEW d \in Live PROVE Pages(d) = desc[d].pages /\ d \in Descs
  <1>1. TypeInv /\ LiveInv /\ d \in Descs /\ desc[d] # None
    BY DEF IInv, Live
  <1>2. desc[d].pages \in SUBSET Heap
    BY <1>1 DEF TypeInv, Desc
  <1> QED BY <1>1, <1>2, TreeReached DEF LiveInv

(* The invariant gives the ownership of pages. *)
LEMMA IInvOwned == IInv => Owned
  <1> SUFFICES ASSUME IInv PROVE Owned
    OBVIOUS
  <1>1. \A d \in Live : Pages(d) \subseteq used
    BY LivePages DEF IInv, Apart
  <1>2. \A d, e \in Live : d # e => Pages(d) \cap Pages(e) = {}
    BY LivePages DEF IInv, Apart
  <1>3. ASSUME NEW d \in Live, NEW p \in Pages(d), NEW q \in Pages(d), NEW i \in Slots, NEW j \in Slots,
               tab[p][i].kind = "table", tab[q][j].kind = "table", tab[p][i].out = tab[q][j].out
        PROVE  p = q /\ i = j
    <2>1. Once(tab, Pages(d))
      BY LivePages DEF IInv, LiveInv, Tree, Forest, Live
    <2> QED BY <1>3, <2>1 DEF Once, Table
  <1> QED BY <1>1, <1>2, <1>3 DEF Owned

(* The invariant gives that no page is lost unseen. *)
LEMMA IInvNoLeak == IInv => NoLeak
  <1> SUFFICES ASSUME IInv, pc = "idle" PROVE used = lost \cup UNION {Pages(d) : d \in Live}
    BY DEF NoLeak
  <1>1. used = lost \cup UNION {desc[d].pages : d \in Descs}
    BY DEF IInv, Apart, CallInv
  <1>2. \A d \in Descs : d \in Live \/ desc[d].pages = {}
    BY Defaults DEF Live
  <1>3. UNION {desc[d].pages : d \in Descs} = UNION {Pages(d) : d \in Live}
    BY <1>2, LivePages
  <1> QED BY <1>1, <1>3

(* Owned on a heap below 4 GB, in every run of val_pgt_create and            *)
(* val_pgt_destroy, with the heap running out wherever it may, for every     *)
(* number of levels, of entries and of rounds: the page tables that were     *)
(* returned own their pages, and each page hangs from one descriptor.        *)
THEOREM OwnedHolds == HeapBelow4G => (Spec => []Owned)
  <1> SUFFICES ASSUME HeapBelow4G PROVE Spec => []Owned
    OBVIOUS
  <1>1. IInv /\ [Next]_vars => IInv'
    BY NextIInv
  <1> QED BY <1>1, InitIInv, IInvOwned, PTL DEF Spec

(* NoLeak on a heap below 4 GB: between the calls no page is allocated but   *)
(* those of the tables that were returned and those that creations which     *)
(* failed have left behind.                                                  *)
THEOREM NoLeakHolds == HeapBelow4G => (Spec => []NoLeak)
  <1> SUFFICES ASSUME HeapBelow4G PROVE Spec => []NoLeak
    OBVIOUS
  <1>1. IInv /\ [Next]_vars => IInv'
    BY NextIInv
  <1> QED BY <1>1, InitIInv, IInvNoLeak, PTL DEF Spec

-----------------------------------------------------------------------------
(* What the tables translate.  A table is made for all of the region that    *)
(* lies in the addresses it stands for; the rounds of the loop over it cover *)
(* them, and each has written its entry once the table is linked.            *)
Va(r) == r.va % Space
Last(r) == Va(r) + r.len - 1

(* A table of level l, and one of its entries, stand for a block. *)
Whole(l) == Width(l) * Size(l)
SameBlock(x, y, n) == x \div n = y \div n

Exact(s, r) ==
  /\ s.out + Va(r) = s.in + r.pa
  /\ s.in <= s.top /\ s.top < Space
  /\ (s.in - Va(r)) % Size(s.level) = 0
  /\ \A x \in 0 .. Space - 1 :
       x \in s.in .. s.top <=> x \in Va(r) .. Last(r) /\ SameBlock(x, s.in, Whole(s.level))

(* A page or a block was written by a round of the loop. *)
LeafBy(e, s, i, k, r) ==
  /\ InAt(s, k) <= s.top
  /\ i = Index(InAt(s, k), s.level)
  /\ e.out = (IF s.level = 3 THEN OutAt(s, k) % Low ELSE OutAt(s, k)) /\ e.attr = r.attr
  /\ s.level = 3 \/ IsBlock(InAt(s, k), OutAt(s, k), s.top, s.level)

Leaves(t, m, S, r) ==
  \A p \in S, i \in Slots : t[p][i].kind \in {"page", "block"} =>
    \E k \in Slots : LeafBy(t[p][i], m[p], i, k, r)

(* The rounds before the address in have written their entries. *)
Filled(t, s, p, in) ==
  \A k \in Slots : InAt(s, k) <= s.top /\ InAt(s, k) < in =>
    t[p][Index(InAt(s, k), s.level)].kind # "none"

Complete(t, s, p) ==
  \A k \in Slots : InAt(s, k) <= s.top => t[p][Index(InAt(s, k), s.level)].kind # "none"

Exacts(m, S, r) == Fits(r) => \A p \in S : Exact(m[p], r)

LiveMap ==
  \A d \in Descs : desc[d].regions # <<>> =>
    LET r == desc[d].regions[1]
    IN  /\ r \in Region /\ Last(r) < Space
        /\ Leaves(tab, made, desc[d].pages, r)
        /\ Exacts(made, desc[d].pages, r)
        /\ \A p \in desc[d].pages : Complete(tab, made[p], p)

CallMap ==
  pc \in {"region", "fill"} /\ call.regions # <<>> =>
    LET r    == call.regions[1]
        root == frame[Top].tt
    IN  /\ Leaves(tab, made, taken, r)
        /\ Exacts(made, taken, r)
        /\ \A p \in taken : Linked(tab, taken, p) => Complete(tab, made[p], p)
        /\ call.round > 1 => Complete(tab, made[root], root)
        /\ pc = "fill" => \A l \in Top .. level :
             Filled(tab, made[frame[l].tt], frame[l].tt, frame[l].in)

MapInv == LiveMap /\ CallMap

(* Quotient and remainder. *)
LEMMA DivFacts ==
  ASSUME NEW x \in Nat, NEW n \in Nat \ {0}
  PROVE  /\ x \div n \in Nat /\ x % n \in 0 .. n - 1
         /\ x = n * (x \div n) + (x % n)
  OBVIOUS

LEMMA DivUnique ==
  ASSUME NEW x \in Nat, NEW n \in Nat \ {0}, NEW q \in Nat, NEW r \in 0 .. n - 1, x = n * q + r
  PROVE  x \div n = q /\ x % n = r
  <1> DEFINE y == x \div n
             z == x % n
  <1>1. y \in Nat /\ z \in 0 .. n - 1 /\ x = n * y + z
    BY DivFacts
  <1> HIDE DEF y, z
  <1>2. n * y < n * (q + 1) /\ n * q < n * (y + 1)
    <2>1. n * (q + 1) = n * q + n /\ n * (y + 1) = n * y + n /\ n * q \in Nat /\ n * y \in Nat
      BY <1>1
    <2> QED BY <1>1, <2>1
  <1>3. y < q + 1 /\ q < y + 1
    BY <1>1, <1>2, TimesLess
  <1>4. y = q
    BY <1>1, <1>3
  <1>5. z = r
    BY <1>1, <1>4
  <1> QED BY <1>4, <1>5 DEF y, z

(* Blocks of two sizes. *)
LEMMA DivDiv ==
  ASSUME NEW x \in Nat, NEW n \in Nat \ {0}, NEW w \in Nat \ {0}
  PROVE  (x \div n) \div w = x \div (w * n)
  <1> DEFINE a == x \div n
             b == a \div w
             r == x % n
             q == a % w
             c == w * n
             s == n * q + r
  <1>1. a \in Nat /\ r \in 0 .. n - 1 /\ x = n * a + r
    BY DivFacts
  <1>2. b \in Nat /\ q \in 0 .. w - 1 /\ a = w * b + q
    BY <1>1, DivFacts
  <1> HIDE DEF a, b, r, q
  <1>3. c \in Nat \ {0}
    OBVIOUS
  <1>4. n * a = c * b + n * q
    BY <1>2
  <1>5. n * q + n <= c /\ n * q \in Nat
    <2>1. n * q + n = n * (q + 1) /\ n * q \in Nat
      BY <1>2
    <2>2. n * (q + 1) <= n * w
      BY <1>2
    <2>3. n * w = w * n
      OBVIOUS
    <2> QED BY <1>3, <2>1, <2>2, <2>3
  <1> HIDE DEF c
  <1>6. s \in 0 .. c - 1 /\ c * b \in Nat
    BY <1>1, <1>2, <1>3, <1>5
  <1>7. x = c * b + s
    BY <1>1, <1>4, <1>5, <1>6
  <1>8. x \div c = b
    BY <1>2, <1>3, <1>6, <1>7, DivUnique
  <1> QED BY <1>8 DEF a, b, c

(* A small block lies in a large one, and is known by its place there. *)
LEMMA BlockInBlock ==
  ASSUME NEW x \in Nat, NEW y \in Nat, NEW n \in Nat \ {0}, NEW w \in Nat \ {0}
  PROVE  /\ SameBlock(x, y, n) => SameBlock(x, y, w * n)
         /\ SameBlock(x, y, w * n) /\ (x \div n) % w = (y \div n) % w => SameBlock(x, y, n)
  <1> DEFINE a == x \div n
             b == y \div n
  <1>1. a \in Nat /\ b \in Nat
    OBVIOUS
  <1>2. a \div w = x \div (w * n) /\ b \div w = y \div (w * n)
    BY DivDiv
  <1> HIDE DEF a, b
  <1>3. a = w * (a \div w) + (a % w) /\ b = w * (b \div w) + (b % w)
    BY <1>1
  <1> QED BY <1>2, <1>3 DEF SameBlock, a, b

(* The addresses of a block. *)
LEMMA BlockBounds ==
  ASSUME NEW x \in Nat, NEW y \in Nat, NEW n \in Nat \ {0}
  PROVE  /\ SameBlock(x, y, n) => x < y + n /\ y < x + n
         /\ y % n = 0 => (SameBlock(x, y, n) <=> x \in y .. y + n - 1)
         /\ y % n = 0 /\ SameBlock(x, y, n) => x % n = x - y
  <1> DEFINE a == x \div n
             b == y \div n
             r == x % n
             q == y % n
  <1>1. a \in Nat /\ b \in Nat /\ r \in 0 .. n - 1 /\ q \in 0 .. n - 1 /\ x = n * a + r /\ y = n * b + q
    OBVIOUS
  <1> HIDE DEF a, b, r, q
  <1>2. n * a \in Nat /\ n * b \in Nat
    BY <1>1
  <1>3. a = b => x < y + n /\ y < x + n
    BY <1>1, <1>2
  <1>4. q = 0 /\ a = b => x \in y .. y + n - 1 /\ r = x - y
    BY <1>1, <1>2
  <1>5. ASSUME q = 0, x \in y .. y + n - 1 PROVE a = b
    <2>1. n * (b + 1) = n * b + n /\ n * (a + 1) = n * a + n
      BY <1>1
    <2>2. n * a < n * (b + 1) /\ n * b < n * (a + 1)
      BY <1>1, <1>2, <1>5, <2>1
    <2>3. a < b + 1 /\ b < a + 1
      BY <1>1, <2>2, TimesLess
    <2> QED BY <1>1, <2>3
  <1> QED BY <1>3, <1>4, <1>5 DEF SameBlock, a, b, r, q

(* Steps of a block keep an address where it is within its block. *)
InSteps(a, b, n) == \E k \in Nat : b = a + k * n

LEMMA ModStep ==
  ASSUME NEW a \in Nat, NEW b, NEW n \in Nat \ {0}, InSteps(a, b, n)
  PROVE  b % n = a % n
  <1> DEFINE q == a \div n
             r == a % n
  <1>0. PICK k \in Nat : b = a + k * n
    BY DEF InSteps
  <1>1. q \in Nat /\ r \in 0 .. n - 1 /\ a = n * q + r
    BY DivFacts
  <1> HIDE DEF q, r
  <1>2. k * n = n * k /\ n * (q + k) = n * q + n * k /\ k * n \in Nat /\ n * q \in Nat
    BY <1>1
  <1>3. b = n * (q + k) + r /\ b \in Nat
    BY <1>0, <1>1, <1>2
  <1>4. q + k \in Nat
    BY <1>1
  <1>5. b % n = r
    BY <1>1, <1>3, <1>4, DivUnique
  <1> QED BY <1>5 DEF r

(* A table stands for one entry of the table above. *)
LEMMA WholeFacts ==
  /\ \A l \in Top .. 3 : Whole(l) \in Nat \ {0} /\ Size(l) \in Nat \ {0} /\ Width(l) \in Nat \ {0}
  /\ Whole(Top) = Space
  /\ \A l \in Top .. 2 : Whole(l + 1) = Size(l)
  <1>1. \A l \in Top .. 3 : Size(l) \in Nat \ {0} /\ Width(l) \in Nat \ {0}
    BY SizeFacts, WidthFacts, PgtAssumption
  <1>2. ASSUME NEW l \in Top .. 3 PROVE Whole(l) \in Nat \ {0}
    BY <1>1 DEF Whole
  <1>3. ASSUME NEW l \in Top .. 2 PROVE Whole(l + 1) = Size(l)
    BY SizeFacts, LevelFacts DEF Whole, Width
  <1> QED BY <1>1, <1>2, <1>3, WidthFacts DEF Whole

(* Quotients grow with the address. *)
LEMMA DivMono ==
  ASSUME NEW x \in Nat, NEW y \in Nat, NEW n \in Nat \ {0}, x <= y
  PROVE  x \div n <= y \div n
  <1> DEFINE a == x \div n
             b == y \div n
             r == x % n
             q == y % n
  <1>1. /\ a \in Nat /\ r \in 0 .. n - 1 /\ x = n * a + r
        /\ b \in Nat /\ q \in 0 .. n - 1 /\ y = n * b + q
    BY DivFacts
  <1> HIDE DEF a, b, r, q
  <1>2. n * (b + 1) = n * b + n /\ n * b \in Nat /\ n * a \in Nat
    BY <1>1
  <1>3. n * a < n * (b + 1)
    BY <1>1, <1>2
  <1>4. a < b + 1
    BY <1>1, <1>3, TimesLess
  <1>5. a <= b
    BY <1>1, <1>4
  <1> QED BY <1>5 DEF a, b

(* The rounds over a table start blocks, or there is only one and the whole  *)
(* region lies in its block.                                                 *)
InStep(s, r) ==
  \/ s.in % Size(s.level) = 0
  \/ \A x \in Va(r) .. Last(r) : SameBlock(x, s.in, Size(s.level))

(* What a region that fits and an exact table say of each other. *)
Mapped(s, r) == SpanFits(s) /\ r \in Region /\ Last(r) < Space /\ Fits(r) /\ Exact(s, r)

LEMMA MappedFacts ==
  ASSUME NEW s, NEW r, Mapped(s, r)
  PROVE  /\ s.level \in Top .. 3 /\ s.in \in Nat /\ s.out \in Nat /\ s.top \in Nat /\ s \in Span
         /\ Size(s.level) \in Nat \ {0} /\ Width(s.level) \in Nat \ {0}
         /\ Whole(s.level) = Width(s.level) * Size(s.level)
         /\ Va(r) \in Nat /\ Last(r) \in Nat /\ Va(r) <= Last(r) /\ r.pa \in Nat /\ r.len \in Nat \ {0}
         /\ s.in \in Va(r) .. Last(r) /\ s.top \in Va(r) .. Last(r)
         /\ s.in <= s.top /\ s.top < Space /\ Space \in Nat
         /\ InStep(s, r)
  <1>1. /\ s.level \in Top .. 3 /\ s.in \in Nat /\ s.out \in Nat /\ s.top \in Nat /\ s \in Span
        /\ Size(s.level) \in Nat \ {0} /\ Width(s.level) \in Nat \ {0}
        /\ Whole(s.level) = Width(s.level) * Size(s.level)
    BY WholeFacts DEF Mapped, SpanFits, Span, Whole
  <1>2. Va(r) \in Nat /\ Last(r) \in Nat /\ Va(r) <= Last(r) /\ r.pa \in Nat /\ Space \in Nat \ {0}
        /\ r.len \in Nat \ {0}
    <2>1. r.va \in Nat /\ r.len \in Nat \ {0} /\ r.pa \in Nat /\ Space \in Nat \ {0}
      BY PgtAssumption DEF Mapped, Region
    <2>2. r.va % Space \in Nat
      BY <2>1
    <2> QED BY <2>1, <2>2 DEF Va, Last
  <1>3. s.in <= s.top /\ s.top < Space /\ s.in \in Va(r) .. Last(r) /\ s.top \in Va(r) .. Last(r)
    BY <1>1, <1>2 DEF Mapped, Exact
  <1>4. InStep(s, r)
    <2> DEFINE n == Size(s.level)
    <2>1. CASE s.level = 3
      <3>1. Size(s.level) = 1
        BY <2>1 DEF Size
      <3> QED BY <1>1, <3>1 DEF InStep
    <2>2. CASE s.level # 3
      <3>1. s.level \in Top .. 2
        BY <1>1, <2>2, LevelFacts
      <3>2. Va(r) % n = 0 \/ Va(r) \div n = Last(r) \div n
        BY <3>1 DEF Mapped, Fits, Va, Last
      <3>3. CASE Va(r) % n = 0
        <4> DEFINE j == (s.in - Va(r)) \div n
        <4>1. s.in - Va(r) \in Nat /\ (s.in - Va(r)) % n = 0
          BY <1>1, <1>2, <1>3 DEF Mapped, Exact
        <4>2. j \in Nat /\ s.in - Va(r) = n * j + 0
          BY <1>1, <4>1, DivFacts
        <4> HIDE DEF j
        <4>3. s.in = Va(r) + j * n
          BY <1>1, <1>2, <4>2
        <4>4. InSteps(Va(r), s.in, n)
          BY <4>2, <4>3 DEF InSteps
        <4>5. s.in % n = Va(r) % n
          BY <1>1, <1>2, <4>4, ModStep
        <4> QED BY <3>3, <4>5 DEF InStep
      <3>4. CASE Va(r) \div n = Last(r) \div n
        <4>1. ASSUME NEW x \in Va(r) .. Last(r) PROVE x \div n = Va(r) \div n
          <5>1. x \in Nat /\ Va(r) <= x /\ x <= Last(r)
            BY <1>2
          <5>2. Va(r) \div n <= x \div n /\ x \div n <= Last(r) \div n
            BY <1>1, <1>2, <5>1, DivMono
          <5>3. Va(r) \div n \in Nat /\ x \div n \in Nat
            BY <1>1, <1>2, <5>1, DivFacts
          <5> QED BY <3>4, <5>2, <5>3
        <4> QED BY <1>3, <4>1 DEF InStep, SameBlock
      <3> QED BY <3>2, <3>3, <3>4
    <2> QED BY <2>1, <2>2
  <1> QED BY <1>1, <1>2, <1>3, <1>4

(* The block of an entry lies in the block of its table. *)
LEMMA EntryBlock ==
  ASSUME NEW s, NEW r, Mapped(s, r), NEW x \in Nat, NEW y \in Nat
  PROVE  /\ SameBlock(x, y, Size(s.level)) => SameBlock(x, y, Whole(s.level))
         /\ SameBlock(x, y, Whole(s.level)) /\ Index(x, s.level) = Index(y, s.level)
              => SameBlock(x, y, Size(s.level))
         /\ SameBlock(x, y, Size(s.level)) => Index(x, s.level) = Index(y, s.level)
  <1> DEFINE n == Size(s.level)
             w == Width(s.level)
  <1>1. n \in Nat \ {0} /\ w \in Nat \ {0} /\ Whole(s.level) = w * n
    BY MappedFacts
  <1>2. Index(x, s.level) = (x \div n) % w /\ Index(y, s.level) = (y \div n) % w
    BY DEF Index
  <1> HIDE DEF n, w
  <1>3. /\ SameBlock(x, y, n) => SameBlock(x, y, w * n)
        /\ SameBlock(x, y, w * n) /\ (x \div n) % w = (y \div n) % w => SameBlock(x, y, n)
    BY <1>1, BlockInBlock
  <1>4. SameBlock(x, y, n) => Index(x, s.level) = Index(y, s.level)
    BY <1>2 DEF SameBlock
  <1> QED BY <1>1, <1>2, <1>3, <1>4 DEF n

(* A round that goes on is at an address of the region and of the table, at  *)
(* the start of a block when the table is in step, else at its only address. *)
LEMMA RoundFacts ==
  ASSUME NEW s, NEW r, Mapped(s, r), NEW k \in Nat, InAt(s, k) <= s.top
  PROVE  /\ InAt(s, k) \in s.in .. s.top /\ InAt(s, k) \in Nat /\ InAt(s, k) < Space
         /\ InAt(s, k) \in Va(r) .. Last(r)
         /\ SameBlock(InAt(s, k), s.in, Whole(s.level))
         /\ OutAt(s, k) + Va(r) = InAt(s, k) + r.pa /\ OutAt(s, k) \in Nat
         /\ s.in % Size(s.level) = 0 => InAt(s, k) % Size(s.level) = 0
         /\ s.in % Size(s.level) # 0 => InAt(s, k) = s.in
  <1> DEFINE n == Size(s.level)
             a == InAt(s, k)
  <1>1. /\ s.in \in Nat /\ s.out \in Nat /\ n \in Nat \ {0} /\ s.top < Space /\ Space \in Nat
        /\ s.top \in Nat /\ Va(r) \in Nat /\ r.pa \in Nat /\ Last(r) \in Nat
    BY MappedFacts
  <1>2. k * n \in Nat /\ a = s.in + k * n /\ OutAt(s, k) = s.out + k * n
    BY <1>1 DEF InAt, OutAt
  <1>3. a \in s.in .. s.top /\ a \in 0 .. Space - 1
    BY <1>1, <1>2
  <1>4. a \in Va(r) .. Last(r) /\ SameBlock(a, s.in, Whole(s.level))
    BY <1>3 DEF Mapped, Exact
  <1>5. OutAt(s, k) + Va(r) = a + r.pa
    BY <1>1, <1>2 DEF Mapped, Exact
  <1>6. s.in % n = 0 => a % n = 0
    <2>1. InSteps(s.in, a, n)
      BY <1>2 DEF InSteps
    <2> HIDE DEF n, a
    <2>2. a % n = s.in % n
      BY <1>1, <2>1, ModStep
    <2> QED BY <2>2
  <1>7. ASSUME s.in % n # 0 PROVE a = s.in
    <2>1. SameBlock(a, s.in, n)
      BY <1>4, <1>7, MappedFacts DEF InStep
    <2>2. a < s.in + n
      BY <1>1, <1>3, <2>1, BlockBounds
    <2>3. k * n < n
      BY <1>1, <1>2, <2>2
    <2>4. n * k < n * 1
      BY <1>1, <2>3
    <2>5. k < 1
      BY <1>1, <2>4, TimesLess
    <2>6. k = 0
      BY <2>5
    <2> QED BY <1>1, <1>2, <2>6
  <1> QED BY <1>1, <1>2, <1>3, <1>4, <1>5, <1>6, <1>7

(* The table below a round is exact. *)
LEMMA SubExact ==
  ASSUME NEW s, NEW r, Mapped(s, r), NEW k \in Nat, InAt(s, k) <= s.top, s.level < 3
  PROVE  Exact(Sub(s, k), r)
  <1> DEFINE l == s.level
             n == Size(s.level)
             a == InAt(s, k)
             b == Bound(a, s.top, l)
  <1>1. /\ l \in Top .. 2 /\ s.in \in Nat /\ s.top \in Nat /\ n \in Nat \ {0}
        /\ Va(r) \in Nat /\ Last(r) \in Nat /\ s.top < Space /\ Space \in Nat
    BY MappedFacts, LevelFacts
  <1>2. /\ a \in s.in .. s.top /\ a \in Nat /\ a \in Va(r) .. Last(r)
        /\ SameBlock(a, s.in, Whole(l)) /\ OutAt(s, k) + Va(r) = a + r.pa
    BY RoundFacts
  <1>3. b = (IF s.top < a + n - 1 THEN s.top ELSE a + n - 1)
    BY DEF Bound
  <1>4. b \in Nat /\ a <= b /\ b < Space
    BY <1>1, <1>2, <1>3
  <1>5. Whole(l + 1) = n
    BY <1>1, WholeFacts
  <1>6. (a - Va(r)) % Size(l + 1) = 0
    <2> DEFINE m == Size(l + 1)
               j == (s.in - Va(r)) \div n
    <2>0. l + 1 \in Top .. 3
      BY <1>1, LevelFacts
    <2>1. m \in Nat \ {0} /\ n = Entries * m /\ Entries \in Nat
      BY <1>1, <2>0, SizeFacts, PgtAssumption
    <2>2. s.in - Va(r) \in Nat /\ (s.in - Va(r)) % n = 0
      BY <1>1, MappedFacts DEF Mapped, Exact
    <2>3. j \in Nat /\ s.in - Va(r) = n * j + 0
      BY <1>1, <2>2, DivFacts
    <2>4. a = s.in + k * n
      BY DEF InAt
    <2> HIDE DEF j, m, n, a
    <2>5. a - Va(r) = n * j + n * k
      BY <1>1, <2>3, <2>4
    <2>6. n * j + n * k = (Entries * (j + k)) * m
      BY <2>1, <2>3
    <2> DEFINE h == Entries * (j + k)
    <2>7. h \in Nat
      BY <2>1, <2>3
    <2> HIDE DEF h
    <2>8. a - Va(r) = 0 + h * m
      BY <2>1, <2>5, <2>6, <2>7 DEF h
    <2>9. InSteps(0, a - Va(r), m)
      BY <2>7, <2>8 DEF InSteps
    <2>10. (a - Va(r)) % m = 0 % m /\ 0 % m = 0
      BY <2>1, <2>9, ModStep
    <2> QED BY <2>10 DEF m
  <1> HIDE DEF a, b, n
  <1>7. ASSUME NEW x \in 0 .. Space - 1
        PROVE  x \in a .. b <=> x \in Va(r) .. Last(r) /\ SameBlock(x, a, n)
    <2>0. x \in Nat
      BY <1>1
    <2>1. x \in s.in .. s.top <=> x \in Va(r) .. Last(r) /\ SameBlock(x, s.in, Whole(l))
      BY DEF Mapped, Exact
    <2>2. SameBlock(x, a, n) => SameBlock(x, s.in, Whole(l))
      <3>1. SameBlock(x, a, n) => SameBlock(x, a, Whole(l))
        BY <1>2, <2>0, EntryBlock DEF n
      <3> QED BY <1>2, <3>1 DEF SameBlock
    <2>3. CASE s.in % n = 0
      <3>1. a % n = 0
        BY <2>3, RoundFacts DEF n, a
      <3>2. SameBlock(x, a, n) <=> x \in a .. a + n - 1
        BY <1>1, <1>2, <2>0, <3>1, BlockBounds
      <3>3. x \in a .. b <=> x \in s.in .. s.top /\ x \in a .. a + n - 1
        BY <1>1, <1>2, <1>3, <2>0
      <3> QED BY <2>1, <2>2, <3>2, <3>3
    <2>4. CASE s.in % n # 0
      <3>1. a = s.in
        BY <2>4, RoundFacts DEF n, a
      <3>2. \A y \in Va(r) .. Last(r) : SameBlock(y, a, n)
        BY <2>4, <3>1, MappedFacts DEF InStep, n
      <3>3. SameBlock(x, a, n) => x < a + n
        BY <1>1, <1>2, <2>0, BlockBounds
      <3>4. x \in s.in .. s.top /\ x < a + n => x \in a .. b
        BY <1>1, <1>2, <1>3, <2>0, <3>1
      <3>5. x \in a .. b => x \in s.in .. s.top
        BY <1>1, <1>2, <1>3, <2>0, <3>1
      <3> QED BY <2>1, <2>2, <3>2, <3>3, <3>4, <3>5
    <2> QED BY <2>3, <2>4
  <1>8. /\ Sub(s, k).in = a /\ Sub(s, k).out = OutAt(s, k) /\ Sub(s, k).top = b
        /\ Sub(s, k).level = l + 1
    BY DEF Sub, Below, a, b
  <1> QED BY <1>2, <1>4, <1>5, <1>6, <1>7, <1>8 DEF Exact

(* Each address of the region that a table stands for has its round. *)
LEMMA RoundFor ==
  ASSUME NEW s, NEW r, Mapped(s, r), NEW x \in s.in .. s.top
  PROVE  \E k \in Slots : InAt(s, k) <= s.top /\ SameBlock(InAt(s, k), x, Size(s.level))
  <1> DEFINE n == Size(s.level)
  <1>1. n \in Nat \ {0} /\ s.in \in Nat /\ s.top \in Nat /\ x \in Nat /\ s.top < Space /\ Space \in Nat
    BY MappedFacts
  <1>2. SpanFits(s)
    BY DEF Mapped
  <1>3. CASE s.in % n = 0
    <2> DEFINE y == x - s.in
               k == y \div n
               q == y % n
    <2>0. y \in Nat
      BY <1>1
    <2> HIDE DEF y, n
    <2>1. k \in Nat /\ q \in 0 .. n - 1 /\ y = n * k + q
      BY <1>1, <2>0, DivFacts
    <2> HIDE DEF k, q
    <2>2. InAt(s, k) = s.in + k * n /\ k * n \in Nat /\ k * n = n * k
      BY <1>1, <2>1 DEF InAt, n
    <2>3. x = InAt(s, k) + q /\ q \in 0 .. n - 1 /\ InAt(s, k) \in Nat
      BY <1>1, <2>1, <2>2 DEF y
    <2>4. InAt(s, k) <= s.top
      BY <1>1, <2>3
    <2>5. InAt(s, k) % n = 0
      <3>1. InSteps(s.in, InAt(s, k), n)
        BY <2>1, <2>2 DEF InSteps
      <3> QED BY <1>1, <1>3, <3>1, ModStep
    <2>6. SameBlock(x, InAt(s, k), n)
      BY <1>1, <2>3, <2>5, BlockBounds
    <2>7. k \in Slots
      BY <1>2, <2>1, <2>4, RoundLess
    <2> QED BY <2>4, <2>6, <2>7 DEF SameBlock, n
  <1>4. CASE s.in % n # 0
    <2>1. x \in Va(r) .. Last(r)
      BY <1>1 DEF Mapped, Exact
    <2>2. SameBlock(x, s.in, n)
      BY <1>4, <2>1, MappedFacts DEF InStep
    <2>3. InAt(s, 0) = s.in /\ s.in <= s.top
      BY <1>1, MappedFacts DEF InAt
    <2>4. 0 \in Slots
      BY <1>2, <2>3, RoundLess
    <2> QED BY <2>2, <2>3, <2>4 DEF SameBlock
  <1> QED BY <1>3, <1>4

-----------------------------------------------------------------------------
(* A walk through a complete tree of exact tables.                           *)
Covers(s, x) == SameBlock(x, s.in, Whole(s.level))

InRegion(r, x) == x \in Va(r) .. Last(r)

(* What a walk for x knows at a descriptor: nothing is written where no part *)
(* of the region lies, a page or a block gives the address that was asked    *)
(* for, and a table leads to one that stands for x.                          *)
Good(m, S, r, x, w) ==
  /\ w.at \in Top .. 3
  /\ w.e.kind \in {"none", "page", "block", "table"}
  /\ w.e.kind = "none" => ~InRegion(r, x)
  /\ w.e.kind \in {"page", "block"} =>
       InRegion(r, x) /\ w.e.out + (x % Size(w.at)) = r.pa + (x - Va(r)) /\ w.e.attr = r.attr
  /\ w.e.kind = "table" =>
       w.at < 3 /\ w.e.out \in S /\ m[w.e.out].level = w.at + 1 /\ Covers(m[w.e.out], x)

MapOf(t, m, S, r) ==
  /\ Forest(t, m, S) /\ Leaves(t, m, S, r)
  /\ \A p \in S : Mapped(m[p], r) /\ Complete(t, m[p], p)
  /\ \A p \in S, i \in Slots : t[p][i] \in Entry

(* The descriptor for x in a table that stands for x is good. *)
LEMMA EntryGood ==
  ASSUME NEW t, NEW m, NEW S, NEW r, MapOf(t, m, S, r), NEW p \in S,
         NEW x \in 0 .. Space - 1, Covers(m[p], x)
  PROVE  Good(m, S, r, x, [e |-> t[p][Index(x, m[p].level)], at |-> m[p].level])
  <1> DEFINE s == m[p]
             l == s.level
             n == Size(l)
             i == Index(x, l)
             e == t[p][i]
  <1>1. Mapped(s, r) /\ SpanFits(s) /\ Complete(t, s, p)
    BY DEF MapOf, Mapped
  <1>2. /\ l \in Top .. 3 /\ n \in Nat \ {0} /\ x \in Nat /\ s.in \in Nat /\ s.top \in Nat
        /\ Va(r) \in Nat /\ Last(r) \in Nat /\ r.pa \in Nat /\ s \in Span
    BY <1>1, MappedFacts, PgtAssumption
  <1>3. i \in Slots /\ e \in Entry
    BY <1>2, IndexType DEF MapOf
  <1>4. InRegion(r, x) <=> x \in s.in .. s.top
    BY <1>1 DEF Mapped, Exact, Covers, InRegion
  <1>5. e.kind = "none" => ~InRegion(r, x)
    <2> SUFFICES ASSUME e.kind = "none", x \in s.in .. s.top PROVE FALSE
      BY <1>4
    <2>1. PICK k \in Slots : InAt(s, k) <= s.top /\ SameBlock(InAt(s, k), x, n)
      BY <1>1, RoundFor
    <2>2. k \in Nat /\ InAt(s, k) \in Nat
      BY <1>2, RoundType DEF Slots
    <2>3. Index(InAt(s, k), l) = i
      BY <1>1, <1>2, <2>1, <2>2, EntryBlock
    <2> QED BY <1>1, <2>1, <2>3 DEF Complete
  <1>6. ASSUME NEW k \in Slots, InAt(s, k) <= s.top, i = Index(InAt(s, k), l)
        PROVE  /\ SameBlock(x, InAt(s, k), n) /\ k \in Nat /\ InAt(s, k) \in Nat
               /\ InAt(s, k) \in s.in .. s.top /\ OutAt(s, k) \in Nat
               /\ OutAt(s, k) + Va(r) = InAt(s, k) + r.pa
    <2>1. k \in Nat
      BY DEF Slots
    <2>2. /\ InAt(s, k) \in Nat /\ SameBlock(InAt(s, k), s.in, Whole(l))
          /\ InAt(s, k) \in s.in .. s.top /\ OutAt(s, k) \in Nat
          /\ OutAt(s, k) + Va(r) = InAt(s, k) + r.pa
      BY <1>1, <1>6, <2>1, RoundFacts
    <2>3. SameBlock(x, InAt(s, k), Whole(l))
      BY <2>2 DEF SameBlock, Covers
    <2>4. SameBlock(x, InAt(s, k), n)
      BY <1>1, <1>2, <1>6, <2>2, <2>3, EntryBlock
    <2> QED BY <2>1, <2>2, <2>4
  <1>7. ASSUME e.kind \in {"page", "block"}
        PROVE  InRegion(r, x) /\ e.out + (x % n) = r.pa + (x - Va(r)) /\ e.attr = r.attr
    <2>1. PICK k \in Slots : LeafBy(e, s, i, k, r)
      BY <1>3, <1>7 DEF MapOf, Leaves
    <2> DEFINE a == InAt(s, k)
               o == OutAt(s, k)
    <2>0. /\ a <= s.top /\ i = Index(a, l) /\ e.attr = r.attr
          /\ e.out = (IF l = 3 THEN o % Low ELSE o)
          /\ l = 3 \/ IsBlock(a, o, s.top, l)
      BY <2>1 DEF LeafBy
    <2>a. o % Low = o
      <3>1. a \in Va(r) .. Last(r) /\ a \in Nat /\ o \in Nat /\ o + Va(r) = a + r.pa
        BY <1>1, <2>0, RoundFacts DEF Slots
      <3>2. r.pa + r.len <= Low /\ Low \in Nat
        BY <1>1, PgtAssumption DEF Mapped, Fits
      <3>3. Va(r) \in Nat /\ r.len \in Nat /\ r.pa \in Nat /\ Last(r) = Va(r) + r.len - 1
        BY <1>1, MappedFacts DEF Last
      <3> HIDE DEF a, o
      <3>4. o < Low
        BY <3>1, <3>2, <3>3
      <3> QED BY <3>1, <3>2, <3>4
    <2>2. /\ a <= s.top /\ i = Index(a, l) /\ e.out = o /\ e.attr = r.attr
          /\ l = 3 \/ IsBlock(a, o, s.top, l)
      BY <2>0, <2>a
    <2>3. SameBlock(x, a, n) /\ a \in Nat /\ a \in s.in .. s.top /\ o \in Nat /\ o + Va(r) = a + r.pa
      BY <1>6, <2>2
    <2>4. a % n = 0 /\ s.top >= a + n - 1
      <3>1. CASE l = 3
        <4>1. n = 1
          BY <3>1 DEF Size
        <4> HIDE DEF n, a, o
        <4> QED BY <1>2, <2>3, <4>1
      <3>2. CASE IsBlock(a, o, s.top, l)
        BY <3>2 DEF IsBlock
      <3> QED BY <2>2, <3>1, <3>2
    <2> HIDE DEF n, a, o, s, e
    <2>5. x \in a .. a + n - 1 /\ x % n = x - a
      BY <1>2, <2>3, <2>4, BlockBounds
    <2>6. x \in s.in .. s.top
      BY <1>2, <2>3, <2>4, <2>5
    <2>7. e.out + (x % n) = r.pa + (x - Va(r))
      <3>1. x % n = x - a
        BY <2>5
      <3>2. e.out = o /\ o \in Nat /\ a \in Nat /\ x \in Nat /\ r.pa \in Nat /\ Va(r) \in Nat
            /\ o + Va(r) = a + r.pa
        BY <1>2, <2>2, <2>3
      <3>3. o + (x - a) = r.pa + (x - Va(r))
        BY <3>2
      <3> QED BY <3>1, <3>2, <3>3
    <2> QED BY <1>4, <2>2, <2>6, <2>7
  <1>8. ASSUME e.kind = "table"
        PROVE  l < 3 /\ e.out \in S /\ m[e.out].level = l + 1 /\ Covers(m[e.out], x)
    <2>1. PICK k \in Slots : LinkedBy(t, m, p, i, k) /\ e.out \in S
      BY <1>3, <1>8 DEF MapOf, Forest, Links, Table
    <2>2. l < 3 /\ InAt(s, k) <= s.top /\ i = Index(InAt(s, k), l) /\ m[e.out] = Sub(s, k)
      BY <2>1 DEF LinkedBy, NestedAt
    <2>3. SameBlock(x, InAt(s, k), n)
      BY <1>6, <2>2
    <2>4. l \in Top .. 2
      BY <1>2, <2>2, LevelFacts
    <2>5. Whole(l + 1) = n
      BY <2>4, WholeFacts
    <2> QED BY <2>1, <2>2, <2>3, <2>5 DEF Sub, Below, Covers
  <1> QED BY <1>2, <1>3, <1>5, <1>7, <1>8 DEF Good, Entry

(* A step of the walk leads from a good descriptor to a good one, a level    *)
(* further down when it was a table; both walks take the same step.          *)
LEMMA StepGood ==
  ASSUME NEW S \in SUBSET Heap, NEW r, MapOf(tab, made, S, r), NEW x \in 0 .. Space - 1,
         NEW w, Good(made, S, r, x, w)
  PROVE  /\ Good(made, S, r, x, NextPhys(w, x)) /\ NextVirt(w, x) = NextPhys(w, x)
         /\ NextPhys(w, x).e.kind = "table" => w.e.kind = "table" /\ NextPhys(w, x).at = w.at + 1
  <1>1. CASE w.e.kind = "table"
    <2> DEFINE q == w.e.out
    <2>1. w.at < 3 /\ q \in S /\ q \in Heap /\ made[q].level = w.at + 1 /\ Covers(made[q], x)
      BY <1>1 DEF Good
    <2>2. q % Space = q
      BY <2>1, HeapAddress
    <2> HIDE DEF q
    <2>3. NextPhys(w, x) = [e |-> tab[q][Index(x, made[q].level)], at |-> made[q].level]
      BY <1>1, <2>1 DEF NextPhys, q
    <2>4. Good(made, S, r, x, NextPhys(w, x))
      BY <2>1, <2>3, EntryGood
    <2>5. NextVirt(w, x) = NextPhys(w, x)
      BY <1>1, <2>1, <2>2, <2>3 DEF NextVirt, q
    <2> QED BY <1>1, <2>1, <2>3, <2>4, <2>5
  <1>2. CASE w.e.kind # "table"
    BY <1>2 DEF NextPhys, NextVirt
  <1> QED BY <1>1, <1>2

(* Both walks end at the descriptor of the region, or at none outside it. *)
LEMMA WalkGood ==
  ASSUME NEW d, NEW r, desc[d].pages \in SUBSET Heap, MapOf(tab, made, desc[d].pages, r),
         Tree(tab, made, desc[d].pages, desc[d].root),
         made[desc[d].root].in \in 0 .. Space - 1,
         NEW x \in 0 .. Space - 1
  PROVE  /\ Walk(d, x) = IF InRegion(r, x) THEN r.pa + (x - Va(r)) ELSE -1
         /\ InRegion(r, x) => GetAttributes(d, x) = r.attr
  <1> DEFINE S == desc[d].pages
             root == desc[d].root
             w0 == FirstEntry(d, x)
             w1 == NextPhys(w0, x)
             w2 == NextPhys(w1, x)
             w3 == NextPhys(w2, x)
  <1>1. root \in S /\ made[root].level = Top
    BY DEF Tree
  <1>2. Covers(made[root], x)
    <2>0. ASSUME NEW y \in 0 .. Space - 1 PROVE y \div Space = 0
      <3>1. Space \in Nat \ {0} /\ y \in Nat /\ 0 \in Nat /\ y = Space * 0 + y
        BY PgtAssumption
      <3> QED BY <3>1, DivUnique
    <2>1. x \div Space = 0 /\ made[root].in \div Space = 0
      BY <2>0
    <2> QED BY <1>1, <2>1, WholeFacts DEF Covers, SameBlock
  <1>3. Good(made, S, r, x, w0) /\ w0.at = Top
    BY <1>1, <1>2, EntryGood DEF FirstEntry
  <1> HIDE DEF w0
  <1>4. /\ Good(made, S, r, x, w1) /\ NextVirt(w0, x) = w1
        /\ w1.e.kind = "table" => w0.e.kind = "table" /\ w1.at = w0.at + 1
    BY <1>3, StepGood
  <1> HIDE DEF w1
  <1>5. /\ Good(made, S, r, x, w2) /\ NextVirt(w1, x) = w2
        /\ w2.e.kind = "table" => w1.e.kind = "table" /\ w2.at = w1.at + 1
    BY <1>4, StepGood
  <1> HIDE DEF w2
  <1>6. /\ Good(made, S, r, x, w3) /\ NextVirt(w2, x) = w3
        /\ w3.e.kind = "table" => w2.e.kind = "table" /\ w3.at = w2.at + 1
    BY <1>5, StepGood
  <1> HIDE DEF w3
  <1>7. w3.e.kind # "table"
    <2> SUFFICES ASSUME w3.e.kind = "table" PROVE FALSE
      OBVIOUS
    <2>1. w3.at = Top + 1 + 1 + 1 /\ w3.at < 3
      BY <1>3, <1>4, <1>5, <1>6 DEF Good
    <2> QED BY <2>1, LevelFacts
  <1>8. Walk(d, x) = IF w3.e.kind = "none" THEN -1 ELSE w3.e.out + (x % Size(w3.at))
    BY DEF Walk, w0, w1, w2, w3
  <1>9. GetAttributes(d, x) = IF w3.at = 3 /\ w3.e.kind = "none" THEN "error" ELSE w3.e.attr
    BY <1>4, <1>5, <1>6 DEF GetAttributes, w0
  <1> QED BY <1>6, <1>7, <1>8, <1>9 DEF Good


-----------------------------------------------------------------------------
(* MapInv is kept.  A step never takes an entry of a table away.             *)
Grows(t, u, p) == \A i \in Slots : t[p][i].kind # "none" => u[p][i].kind # "none"

(* The entry of a round is an entry of the table. *)
LEMMA RoundIndex ==
  ASSUME NEW s, SpanFits(s), NEW k \in Slots
  PROVE  k \in Nat /\ InAt(s, k) \in Nat /\ OutAt(s, k) \in Nat /\ Index(InAt(s, k), s.level) \in Slots
  <1>1. s \in Span /\ s.level \in Top .. 3 /\ k \in Nat
    BY DEF SpanFits, Span, Slots
  <1> QED BY <1>1, RoundType, IndexType

(* What has been filled in stays filled in. *)
LEMMA FilledGrows ==
  ASSUME NEW t, NEW u, NEW s, NEW p, SpanFits(s), Grows(t, u, p)
  PROVE  /\ Complete(t, s, p) => Complete(u, s, p)
         /\ \A in : Filled(t, s, p, in) => Filled(u, s, p, in)
  BY RoundIndex DEF Complete, Filled, Grows

(* A loop starts with nothing filled in, goes on by a round, and has filled  *)
(* in everything when it ends.                                               *)
LEMMA FilledFirst == ASSUME NEW t, NEW s, NEW p, SpanFits(s) PROVE Filled(t, s, p, s.in)
  <1> SUFFICES ASSUME NEW k \in Slots PROVE ~(InAt(s, k) < s.in)
    BY DEF Filled
  <1>1. s.in \in Nat /\ Size(s.level) \in Nat /\ k \in Nat
    BY SizeFacts DEF SpanFits, Span, Slots
  <1>2. k * Size(s.level) \in Nat
    BY <1>1
  <1> QED BY <1>1, <1>2 DEF InAt

LEMMA FilledNext ==
  ASSUME NEW t, NEW u, NEW s, NEW p, SpanFits(s), Grows(t, u, p), NEW k \in Slots,
         Filled(t, s, p, InAt(s, k)),
         u[p][Index(InAt(s, k), s.level)].kind # "none"
  PROVE  Filled(u, s, p, InAt(s, k) + Size(s.level))
  <1> SUFFICES ASSUME NEW j \in Slots, InAt(s, j) <= s.top, InAt(s, j) < InAt(s, k) + Size(s.level)
               PROVE  u[p][Index(InAt(s, j), s.level)].kind # "none"
    BY DEF Filled
  <1> DEFINE n == Size(s.level)
  <1>1. n \in Nat \ {0} /\ s.in \in Nat /\ j \in Nat /\ k \in Nat
    BY SizeFacts, RoundIndex DEF SpanFits, Span
  <1>2. InAt(s, j) = s.in + j * n /\ InAt(s, k) = s.in + k * n
    BY DEF InAt
  <1> HIDE DEF n
  <1>3. j * n = n * j /\ k * n = n * k /\ n * j \in Nat /\ n * k \in Nat /\ n * (k + 1) = n * k + n
    BY <1>1
  <1>4. n * j < n * (k + 1)
    BY <1>1, <1>2, <1>3 DEF n
  <1>5. j < k + 1
    BY <1>1, <1>4, TimesLess
  <1>6. CASE j = k
    BY <1>6
  <1>7. CASE j < k
    <2>1. n * j + n <= n * k
      BY <1>1, <1>7
    <2>2. InAt(s, j) < InAt(s, k)
      BY <1>1, <1>2, <1>3, <2>1
    <2> QED BY <2>2, RoundIndex DEF Filled, Grows
  <1> QED BY <1>1, <1>5, <1>6, <1>7

LEMMA FilledAll ==
  ASSUME NEW t, NEW s, NEW p, SpanFits(s), NEW in \in Nat, s.top < in, Filled(t, s, p, in)
  PROVE  Complete(t, s, p)
  <1> SUFFICES ASSUME NEW k \in Slots, InAt(s, k) <= s.top PROVE InAt(s, k) < in
    BY DEF Filled, Complete
  <1>1. InAt(s, k) \in Nat /\ s.top \in Nat
    BY RoundIndex DEF SpanFits, Span
  <1> QED BY <1>1

(* The page tables that are left alone. *)
LEMMA LiveMapKept ==
  ASSUME LiveMap, desc' = desc,
         \A d \in Descs : \A p \in desc[d].pages : tab'[p] = tab[p] /\ made'[p] = made[p]
  PROVE  LiveMap'
  BY DEF LiveMap, Leaves, Exacts, Complete

(* The base is made for the whole region. *)
LEMMA FirstExact ==
  ASSUME NEW regions \in Arrays, regions # <<>>
  PROVE  /\ regions[1] \in Region /\ Last(regions[1]) < Space
         /\ Exact(FirstSpan(regions), regions[1])
  <1> DEFINE r == regions[1]
             s == FirstSpan(regions)
  <1>1. r \in Region /\ Va(r) + r.len <= Space /\ Space \in Nat \ {0}
    BY PgtAssumption DEF Va
  <1>2. r.va \in Nat /\ r.len \in Nat \ {0} /\ r.pa \in Nat
    BY <1>1 DEF Region
  <1>3. Va(r) \in Nat
    BY <1>1, <1>2 DEF Va
  <1>4. s.in = Va(r) /\ s.out = r.pa /\ s.top = Last(r) /\ s.level = Top
    BY DEF FirstSpan, Va, Last
  <1>5. Va(r) <= Last(r) /\ Last(r) < Space /\ Last(r) \in Nat
    BY <1>1, <1>2, <1>3 DEF Last
  <1>6. ASSUME NEW x \in 0 .. Space - 1 PROVE SameBlock(x, Va(r), Whole(Top))
    <2>1. x = Space * 0 + x /\ Va(r) = Space * 0 + Va(r) /\ x \in Nat /\ 0 \in Nat
          /\ Va(r) \in 0 .. Space - 1
      BY <1>1, <1>3, <1>5
    <2>2. x \div Space = 0 /\ Va(r) \div Space = 0
      BY <1>1, <1>3, <2>1, DivUnique
    <2> QED BY <2>2, WholeFacts DEF SameBlock
  <1>7. (Va(r) - Va(r)) % Size(Top) = 0
    <2>1. Va(r) - Va(r) = 0 /\ Size(Top) \in Nat \ {0}
      BY <1>3, SizeFacts, LevelFacts
    <2> QED BY <2>1
  <1> HIDE DEF r, s
  <1>8. Exact(s, r)
    BY <1>2, <1>3, <1>4, <1>5, <1>6, <1>7 DEF Exact
  <1> QED BY <1>1, <1>5, <1>8 DEF r, s

(* Nothing is mapped at first. *)
LEMMA InitMap == Init => MapInv
  BY DEF Init, MapInv, LiveMap, CallMap, None

LEMMA CreateMap ==
  ASSUME IInv, MapInv, NEW d \in Descs, NEW regions \in Arrays, NEW tg \in BOOLEAN,
         PgtCreate(d, regions, tg)
  PROVE  MapInv'
  <1>0. CASE ~CanAlloc
    BY <1>0 DEF PgtCreate, vars, MapInv, LiveMap, CallMap
  <1>a. CASE CanAlloc
    <2> DEFINE P == NewPage
               s == FirstSpan(regions)
    <2>0. P \in Heap /\ P \notin used
      BY <1>a, NewPageFree
    <2>1. /\ TypeInv /\ Apart /\ taken = {} /\ pc' = "region" /\ desc' = desc
          /\ tab' = [tab EXCEPT ![P] = Zeroed] /\ made' = [made EXCEPT ![P] = s] /\ taken' = {P}
          /\ frame' = [frame EXCEPT ![Top].tt = P]
          /\ call' = [d |-> d, regions |-> regions, tg |-> tg, round |-> 1]
      BY <1>a DEF PgtCreate, Alloc, IInv, CallInv
    <2> HIDE DEF P, s
    <2>2. LiveMap'
      <3>1. \A e \in Descs : P \notin desc[e].pages
        BY <2>0, <2>1 DEF Apart
      <3> QED BY <2>0, <2>1, <3>1, LiveMapKept DEF TypeInv, MapInv
    <2>3. tab'[P] = Zeroed /\ made'[P] = s
      BY <2>0, <2>1 DEF TypeInv
    <2>4. \A i \in Slots : tab'[P][i].kind = "none"
      BY <2>3 DEF Zeroed, Empty
    <2>5. ASSUME regions # <<>> PROVE Exact(s, regions[1])
      BY <2>5, FirstExact DEF s
    <2>6. call'.regions = regions /\ call'.round = 1
      BY <2>1
    <2>7. CallMap'
      <3> SUFFICES ASSUME regions # <<>>
                   PROVE  /\ Leaves(tab', made', taken', regions[1])
                          /\ Exacts(made', taken', regions[1])
                          /\ \A p \in taken' : ~Linked(tab', taken', p)
        BY <2>1, <2>6 DEF CallMap
      <3> QED BY <2>1, <2>3, <2>4, <2>5 DEF Leaves, Exacts, Linked, Table
    <2> QED BY <2>2, <2>7 DEF MapInv
  <1> QED BY <1>0, <1>a

LEMMA RefusedMap == ASSUME IInv, MapInv, RegionRefused PROVE MapInv'
  <1>1. TypeInv /\ Apart /\ pc' = "idle" /\ desc' = desc /\ Forget(used \ (lost \cup taken))
    BY ReturnFacts DEF IInv, RegionRefused
  <1>2. \A d \in Descs : \A p \in desc[d].pages : p \in used \ (lost \cup taken)
    BY <1>1 DEF Apart
  <1>3. LiveMap'
    BY <1>1, <1>2, LiveMapKept DEF MapInv, TypeInv, Forget
  <1> QED BY <1>1, <1>3 DEF MapInv, CallMap

LEMMA FailedMap == ASSUME IInv, MapInv, UnwindNested \/ CreateFails PROVE MapInv'
  <1> DEFINE P == frame[level].tt
  <1>1. /\ TypeInv /\ Apart /\ StackInv /\ pc = "unwind" /\ pc' \in {"idle", "unwind"} /\ desc' = desc
        /\ used' = used \ {P} /\ Forget(used' \ lost') /\ lost' \subseteq lost \cup taken
    BY ReturnFacts DEF IInv, UnwindNested, CreateFails, F
  <1>2. P \in taken
    BY <1>1 DEF StackInv, TypeInv
  <1>3. \A d \in Descs : \A p \in desc[d].pages : p \in used' \ lost'
    BY <1>1, <1>2 DEF Apart
  <1>4. LiveMap'
    BY <1>1, <1>3, LiveMapKept DEF MapInv, TypeInv, Forget
  <1> QED BY <1>1, <1>4 DEF MapInv, CallMap

LEMMA DestroyMap == ASSUME IInv, MapInv, NEW d \in Descs, PgtDestroy(d) PROVE MapInv'
  <1> DEFINE S == desc[d].pages
  <1>1. /\ TypeInv /\ Apart /\ LiveInv /\ desc[d] # None /\ pc' = "idle"
        /\ used' = used \ (FreeTranslationTable(desc[d].root) \cup {desc[d].root})
        /\ desc' = [desc EXCEPT ![d] = None] /\ Forget(used' \ lost)
    BY DEF IInv, PgtDestroy, running
  <1>2. S \in SUBSET Heap /\ Tree(tab, made, S, desc[d].root)
    BY <1>1 DEF TypeInv, LiveInv, Desc
  <1>3. used' = used \ S
    BY <1>1, <1>2, TreeReached
  <1>4. desc'[d] = None /\ \A e \in Descs : e # d => desc'[e] = desc[e]
    BY <1>1 DEF TypeInv
  <1>5. \A e \in Descs : e # d => \A p \in desc[e].pages : tab'[p] = tab[p] /\ made'[p] = made[p]
    <2>1. \A e \in Descs : e # d => \A p \in desc[e].pages : p \in used' \ lost /\ p \in Heap
      BY <1>1, <1>3 DEF Apart, TypeInv
    <2> QED BY <1>1, <2>1 DEF Forget
  <1>6. None.regions = <<>>
    BY DEF None
  <1>7. LiveMap'
    <2> SUFFICES ASSUME NEW e \in Descs, desc'[e].regions # <<>>
                 PROVE  LET r == desc'[e].regions[1]
                        IN  /\ r \in Region /\ Last(r) < Space
                            /\ Leaves(tab', made', desc'[e].pages, r)
                            /\ Exacts(made', desc'[e].pages, r)
                            /\ \A p \in desc'[e].pages : Complete(tab', made'[p], p)
      BY DEF LiveMap
    <2>1. e # d /\ desc'[e] = desc[e]
      BY <1>4, <1>6
    <2> QED BY <1>5, <2>1 DEF MapInv, LiveMap, Leaves, Exacts, Complete
  <1> QED BY <1>1, <1>7 DEF MapInv, CallMap

(* The loop over the base starts. *)
LEMMA StartMap == ASSUME IInv, MapInv, RegionStart PROVE MapInv'
  <1> DEFINE root == frame[Top].tt
             r == call.regions[1]
             s == FirstSpan(call.regions)
  <1>1. /\ TypeInv /\ CallInv /\ TreeInv /\ pc = "region" /\ call.round <= Len(call.regions)
        /\ pc' = "fill" /\ tab' = tab /\ made' = made /\ desc' = desc /\ call' = call
        /\ level' = level /\ taken' = taken
        /\ frame' = [frame EXCEPT ![Top] = [tt |-> root, in |-> r.va % Space, out |-> r.pa,
                                            top |-> (r.va % Space) + r.len - 1]]
    BY DEF IInv, RegionStart, MoreRegions, heap
  <1>2. call \in Call /\ level = Top /\ made[root] = s
    BY <1>1 DEF CallInv, TreeInv
  <1>3. call.regions \in Arrays /\ call.regions # <<>>
    BY <1>1, <1>2, PgtAssumption DEF Call
  <1>4. frame'[Top].tt = root /\ frame'[Top].in = s.in
    BY <1>1, <1>3, Defaults DEF TypeInv, FirstSpan
  <1>5. Filled(tab, made[root], root, frame'[Top].in)
    BY <1>2, <1>3, <1>4, FilledFirst, FirstFitsSpan
  <1>6. LiveMap'
    BY <1>1, LiveMapKept DEF MapInv
  <1>7. CallMap'
    <2>1. \A l \in Top .. level : l = Top
      BY <1>2, Defaults
    <2> QED BY <1>1, <1>3, <1>4, <1>5, <2>1 DEF MapInv, CallMap
  <1> QED BY <1>6, <1>7 DEF MapInv

(* The page table is returned once its base is complete. *)
LEMMA CreatedMap == ASSUME IInv, MapInv, Created PROVE MapInv'
  <1> DEFINE root == frame[Top].tt
             new == [root |-> root, regions |-> call.regions, pages |-> taken]
  <1>1. /\ TypeInv /\ CallInv /\ TreeInv /\ pc = "region" /\ call.round > Len(call.regions)
        /\ desc' = [desc EXCEPT ![call.d] = new] /\ pc' = "idle" /\ tab' = tab /\ made' = made
    BY ReturnFacts DEF IInv, Created, heap
  <1>2. call \in Call /\ call.d \in Descs /\ level = Top
    BY <1>1 DEF CallInv, Call
  <1>3. call.regions \in Arrays /\ call.regions \in Seq(Region) /\ call.round \in Nat
    BY <1>2, PgtAssumption DEF Call
  <1>4. desc'[call.d] = new /\ \A e \in Descs : e # call.d => desc'[e] = desc[e]
    BY <1>1, <1>2 DEF TypeInv
  <1>5. \A q \in taken : q = root \/ Linked(tab, taken, q)
    BY <1>1, <1>2, Defaults DEF TreeInv, Loose
  <1>6. ASSUME new.regions # <<>>
        PROVE  LET r == new.regions[1]
               IN  /\ r \in Region /\ Last(r) < Space
                   /\ Leaves(tab, made, taken, r)
                   /\ Exacts(made, taken, r)
                   /\ \A p \in taken : Complete(tab, made[p], p)
    <2>1. call.regions # <<>> /\ new.regions[1] = call.regions[1]
      BY <1>6
    <2>2. call.round > 1
      BY <1>1, <1>3, <2>1
    <2> QED BY <1>1, <1>3, <1>5, <2>1, <2>2, FirstExact DEF MapInv, CallMap
  <1> HIDE DEF new
  <1>7. new.pages = taken
    BY DEF new
  <1>8. LiveMap'
    <2> SUFFICES ASSUME NEW e \in Descs, desc'[e].regions # <<>>
                 PROVE  LET r == desc'[e].regions[1]
                        IN  /\ r \in Region /\ Last(r) < Space
                            /\ Leaves(tab', made', desc'[e].pages, r)
                            /\ Exacts(made', desc'[e].pages, r)
                            /\ \A p \in desc'[e].pages : Complete(tab', made'[p], p)
      BY DEF LiveMap
    <2>1. CASE e = call.d
      BY <1>1, <1>4, <1>6, <1>7, <2>1
    <2>2. CASE e # call.d
      BY <1>1, <1>4, <2>2 DEF MapInv, LiveMap
    <2> QED BY <2>1, <2>2
  <1> QED BY <1>1, <1>8 DEF MapInv, CallMap

(* A round of val_pgt_create has filled in the base. *)
LEMMA DoneMap == ASSUME IInv, MapInv, FillDone PROVE MapInv'
  <1> DEFINE root == frame[Top].tt
  <1>1. /\ CallInv /\ pc = "fill" /\ level = Top /\ F.in > F.top /\ pc' = "region"
        /\ call' = [call EXCEPT !.round = @ + 1]
        /\ tab' = tab /\ made' = made /\ desc' = desc /\ frame' = frame /\ taken' = taken
    BY DEF IInv, FillDone, heap
  <1>2. call \in Call /\ call.regions # <<>> /\ call'.regions = call.regions
    BY <1>1 DEF CallInv, Call
  <1>3. F.tt = root /\ F.in \in Nat /\ SpanFits(made[root]) /\ made[root].top < F.in
        /\ F.in = frame[Top].in
    BY <1>1, FillFacts
  <1>4. Filled(tab, made[root], root, F.in)
    BY <1>1, <1>2, <1>3, Defaults DEF MapInv, CallMap
  <1>5. Complete(tab, made[root], root)
    BY <1>3, <1>4, FilledAll
  <1>6. LiveMap'
    BY <1>1, LiveMapKept DEF MapInv
  <1> QED BY <1>1, <1>2, <1>5, <1>6 DEF MapInv, CallMap

LEMMA FailsMap == ASSUME IInv, MapInv, FillFails PROVE MapInv'
  <1>1. pc' = "unwind" /\ tab' = tab /\ made' = made /\ desc' = desc
    BY DEF FillFails, heap
  <1> QED BY <1>1, LiveMapKept DEF MapInv, CallMap

(* An entry that is written in a table of the creation takes none away, and  *)
(* leaves the other page tables alone.                                       *)
Writes(p, i, e) == tab' = [tab EXCEPT ![p][i] = e] /\ e.kind # "none"

LEMMA WriteMap ==
  ASSUME IInv, MapInv, pc \in {"region", "fill"}, NEW p \in taken, NEW i \in Slots,
         NEW e, Writes(p, i, e), made' = made, desc' = desc
  PROVE  /\ LiveMap'
         /\ tab'[p][i] = e /\ \A q \in taken, j \in Slots : q # p \/ j # i => tab'[q][j] = tab[q][j]
         /\ \A q \in taken : SpanFits(made[q]) /\ Grows(tab, tab', q)
         /\ \A q \in taken : Complete(tab, made[q], q) => Complete(tab', made[q], q)
         /\ \A q \in taken : \A in : Filled(tab, made[q], q, in) => Filled(tab', made[q], q, in)
  <1>1. TypeInv /\ Apart /\ TreeInv
    BY DEF IInv
  <1>2. /\ taken \subseteq Heap /\ tab \in [Heap -> [Slots -> Entry]]
        /\ tab' = [tab EXCEPT ![p][i] = e] /\ e.kind # "none"
    BY <1>1 DEF TypeInv, Writes
  <1>3. /\ tab'[p][i] = e /\ \A q \in taken, j \in Slots : q # p \/ j # i => tab'[q][j] = tab[q][j]
    BY <1>2
  <1>4. \A q \in taken : SpanFits(made[q])
    BY <1>1 DEF TreeInv, Forest, Spans
  <1>5. \A q \in taken : Grows(tab, tab', q)
    BY <1>2, <1>3 DEF Grows
  <1>6. LiveMap'
    <2>1. \A d \in Descs : p \notin desc[d].pages /\ desc[d].pages \subseteq Heap
      BY <1>1, Defaults DEF Apart, TypeInv, Desc
    <2> QED BY <1>2, <2>1, LiveMapKept DEF MapInv
  <1> QED BY <1>3, <1>4, <1>5, <1>6, FilledGrows

(* A page or a block is written by the round the loop is in. *)
LEMMA LeafMap ==
  ASSUME IInv, MapInv, Looping, level = 3 \/ IsBlock(F.in, F.out, F.top, level),
         NEW kind \in {"page", "block"},
         NEW out, out = (IF level = 3 THEN F.out % Low ELSE F.out), Leaf(kind, out)
  PROVE  MapInv'
  <1> DEFINE r == call.regions[1]
             P == F.tt
             s == made[P]
             e == [kind |-> kind, out |-> out, attr |-> r.attr]
  <1>1. pc = "fill" /\ F.in <= F.top /\ TypeInv /\ CallInv /\ StackInv /\ TreeInv
    BY DEF IInv, Looping
  <1>2. /\ tab' = [tab EXCEPT ![P][FIndex] = e] /\ frame' = [frame EXCEPT ![level] = Advance(F, level)]
        /\ made' = made /\ desc' = desc /\ pc' = pc /\ call' = call /\ level' = level /\ taken' = taken
    BY DEF Leaf
  <1>3. /\ level \in Top .. 3 /\ F = frame[level] /\ F \in Frame /\ P \in taken /\ FIndex \in Slots
        /\ SpanFits(s) /\ s.level = level /\ InRound(F, s)
    BY <1>1, FillFacts DEF InRound
  <1>4. Advance(F, level).tt = P /\ Advance(F, level).in = F.in + Size(level)
    BY DEF Advance
  <1>5. PICK k \in Slots : F.in = InAt(s, k) /\ F.out = OutAt(s, k) /\ InAt(s, k) <= s.top
    BY <1>1, <1>3, AdvanceRound
  <1>6. F.top = s.top
    BY <1>3 DEF InRound
  <1>7. ~Table(tab, P, FIndex)
    BY LeafOverNoTable
  <1>8. e.kind = kind /\ e.kind \in {"page", "block"} /\ e.out = out /\ e.attr = r.attr
    OBVIOUS
  <1> HIDE DEF e
  <1>9. LeafBy(e, s, FIndex, k, r)
    BY <1>3, <1>5, <1>6, <1>8 DEF LeafBy, FIndex
  <1>10. /\ LiveMap'
         /\ tab'[P][FIndex] = e
         /\ \A q \in taken, j \in Slots : q # P \/ j # FIndex => tab'[q][j] = tab[q][j]
         /\ \A q \in taken : Grows(tab, tab', q)
         /\ \A q \in taken : Complete(tab, made[q], q) => Complete(tab', made[q], q)
         /\ \A q \in taken : \A in : Filled(tab, made[q], q, in) => Filled(tab', made[q], q, in)
    <2>1. /\ pc \in {"region", "fill"} /\ P \in taken /\ FIndex \in Slots
          /\ Writes(P, FIndex, e) /\ made' = made /\ desc' = desc
      BY <1>1, <1>2, <1>3, <1>8 DEF Writes
    <2> HIDE DEF P
    <2> QED BY <2>1, WriteMap
  <1>11. /\ frame'[level].tt = P /\ frame'[level].in = F.in + Size(level)
         /\ \A l \in Top .. 3 : l # level => frame'[l] = frame[l]
         /\ frame'[Top].tt = frame[Top].tt
    BY <1>1, <1>2, <1>3, <1>4, Defaults DEF TypeInv
  <1>12. call.regions # <<>> /\ frame[Top].tt \in taken
    BY <1>1 DEF CallInv
  <1>13. /\ Leaves(tab, made, taken, r) /\ Exacts(made, taken, r)
         /\ \A p \in taken : Linked(tab, taken, p) => Complete(tab, made[p], p)
         /\ call.round > 1 => Complete(tab, made[frame[Top].tt], frame[Top].tt)
         /\ \A l \in Top .. level : Filled(tab, made[frame[l].tt], frame[l].tt, frame[l].in)
    BY <1>1, <1>12 DEF MapInv, CallMap
  <1>14. Leaves(tab', made, taken, r)
    <2> SUFFICES ASSUME NEW p \in taken, NEW i \in Slots, tab'[p][i].kind \in {"page", "block"}
                 PROVE  \E h \in Slots : LeafBy(tab'[p][i], made[p], i, h, r)
      BY DEF Leaves
    <2>1. CASE p = P /\ i = FIndex
      BY <1>9, <1>10, <2>1
    <2>2. CASE p # P \/ i # FIndex
      BY <1>10, <1>13, <2>2 DEF Leaves
    <2> QED BY <2>1, <2>2
  <1>15. \A q : Linked(tab', taken, q) => Linked(tab, taken, q)
    BY <1>3, <1>7, <1>8, <1>10 DEF Linked, Table
  <1>16. ASSUME NEW l \in Top .. level
         PROVE  Filled(tab', made[frame'[l].tt], frame'[l].tt, frame'[l].in)
    <2>1. CASE l = level
      <3>1. Filled(tab, s, P, InAt(s, k)) /\ tab'[P][Index(InAt(s, k), s.level)].kind # "none"
        BY <1>3, <1>5, <1>8, <1>10, <1>13 DEF FIndex
      <3>2. Filled(tab', s, P, InAt(s, k) + Size(s.level))
        BY <1>3, <1>5, <1>10, <3>1, FilledNext
      <3> QED BY <1>3, <1>5, <1>11, <2>1, <3>2
    <2>2. CASE l # level
      <3>1. l \in Top .. 3 /\ frame[l].tt \in taken
        BY <1>1, <1>3 DEF StackInv
      <3> QED BY <1>10, <1>11, <1>13, <2>2, <3>1
    <2> QED BY <2>1, <2>2
  <1>17. CallMap'
    BY <1>2, <1>10, <1>11, <1>12, <1>13, <1>14, <1>15, <1>16 DEF CallMap
  <1> QED BY <1>10, <1>17 DEF MapInv

(* The loop over a table that was there starts again. *)
LEMMA OldMap == ASSUME IInv, MapInv, FillOld PROVE MapInv'
  <1> DEFINE next == tab[F.tt][FIndex].out
  <1>1. /\ pc = "fill" /\ TypeInv /\ CallInv
        /\ level' = level + 1 /\ tab' = tab /\ made' = made /\ desc' = desc /\ pc' = pc /\ call' = call
        /\ taken' = taken
        /\ frame' = [frame EXCEPT ![level + 1] = [tt |-> next, in |-> F.in, out |-> F.out,
                                                  top |-> Bound(F.in, F.top, level)]]
        /\ level < 3
    BY DEF IInv, FillOld, Nested, Looping, Descend, heap
  <1>2. level \in Top .. 3 /\ Top \in Nat
    BY <1>1, FillFacts
  <1>3. /\ frame'[level + 1].tt = next /\ frame'[level + 1].in = F.in
        /\ \A l \in Top .. level : frame'[l] = frame[l]
    BY <1>1, <1>2 DEF TypeInv
  <1> HIDE DEF next
  <1>4. SpanFits(made[next]) /\ made[next].in = F.in
    <2>1. IInv'
      BY OldIInv
    <2>2. StackInv' /\ TreeInv' /\ FillInv'
      BY <2>1 DEF IInv
    <2>3. next \in taken
      BY <1>1, <1>2, <1>3, <2>2 DEF StackInv
    <2>4. SpanFits(made[next])
      BY <1>1, <2>2, <2>3 DEF TreeInv, Forest, Spans
    <2>5. Waits(tab, made, taken, frame[level], next, level)
      <3>1. level \in Top .. level' - 1
        BY <1>1, <1>2
      <3> QED BY <1>1, <1>2, <1>3, <2>2, <3>1 DEF FillInv
    <2> QED BY <2>4, <2>5 DEF Waits, Below, F
  <1>5. Filled(tab, made[next], next, F.in)
    BY <1>4, FilledFirst
  <1>6. LiveMap'
    BY <1>1, LiveMapKept DEF MapInv
  <1>7. frame'[Top] = frame[Top]
    BY <1>2, <1>3
  <1>8. CallMap'
    <2>1. \A l \in Top .. level' : l \in Top .. level \/ l = level + 1
      BY <1>1, <1>2
    <2> QED BY <1>1, <1>3, <1>5, <1>7, <2>1 DEF MapInv, CallMap
  <1> QED BY <1>6, <1>8 DEF MapInv

(* A new table has no entries, and is made for the part of the region that   *)
(* lies in the block of its round.                                           *)
LEMMA NewMap == ASSUME IInv, MapInv, FillNew PROVE MapInv'
  <1> DEFINE r == call.regions[1]
             P == NewPage
             s == Below(F.in, F.out, F.top, level)
             g == [tt |-> P, in |-> F.in, out |-> F.out, top |-> Bound(F.in, F.top, level)]
  <1>0. pc = "fill" /\ F.in <= F.top /\ level < 3 /\ CanAlloc
    BY DEF FillNew, Nested, Looping
  <1>1. /\ TypeInv /\ Apart /\ CallInv /\ TreeInv /\ StackInv
        /\ level' = level + 1 /\ frame' = [frame EXCEPT ![level + 1] = g]
        /\ tab' = [tab EXCEPT ![P] = Zeroed]
        /\ made' = [made EXCEPT ![P] = s] /\ taken' = taken \cup {P}
        /\ desc' = desc /\ pc' = pc /\ call' = call
    BY DEF IInv, FillNew, Alloc, Descend, Below
  <1>2. /\ level \in Top .. 3 /\ Top \in Nat /\ F = frame[level] /\ F \in Frame /\ F.tt \in taken
        /\ F.in \in Nat /\ F.out \in Nat /\ F.top \in Nat
        /\ SpanFits(made[F.tt]) /\ made[F.tt].level = level /\ InRound(F, made[F.tt])
        /\ F.top = made[F.tt].top
    BY <1>0, FillFacts DEF InRound
  <1>3. SpanFits(s) /\ s.in = F.in
    BY <1>0, <1>2, BelowFits DEF Below
  <1>4. P \in Heap /\ P \notin taken /\ \A d \in Descs : P \notin desc[d].pages
    BY <1>0, <1>1, NewPageFree DEF Apart
  <1> HIDE DEF P
  <1>5. /\ frame'[level + 1].tt = P /\ frame'[level + 1].in = F.in
        /\ \A l \in Top .. level : frame'[l] = frame[l]
    BY <1>0, <1>1, <1>2 DEF TypeInv
  <1>6. made'[P] = s /\ \A p \in Heap : p # P => tab'[p] = tab[p] /\ made'[p] = made[p]
    BY <1>1, <1>4 DEF TypeInv
  <1>7. \A i \in Slots : tab'[P][i].kind = "none"
    BY <1>1, <1>4 DEF TypeInv, Zeroed, Empty
  <1>8. \A p \in taken : p \in Heap /\ p # P /\ tab'[p] = tab[p] /\ made'[p] = made[p]
    BY <1>1, <1>4, <1>6 DEF TypeInv
  <1>9. call \in Call /\ call.regions # <<>> /\ frame[Top].tt \in taken
    BY <1>0, <1>1 DEF CallInv
  <1>10. /\ Leaves(tab, made, taken, r) /\ Exacts(made, taken, r)
         /\ \A p \in taken : Linked(tab, taken, p) => Complete(tab, made[p], p)
         /\ call.round > 1 => Complete(tab, made[frame[Top].tt], frame[Top].tt)
         /\ \A l \in Top .. level : Filled(tab, made[frame[l].tt], frame[l].tt, frame[l].in)
    BY <1>0, <1>9 DEF MapInv, CallMap
  <1>11. LiveMap'
    BY <1>1, <1>4, LiveMapKept DEF TypeInv, MapInv
  <1>12. Leaves(tab', made', taken', r)
    <2> SUFFICES ASSUME NEW p \in taken', NEW i \in Slots, tab'[p][i].kind \in {"page", "block"}
                 PROVE  \E h \in Slots : LeafBy(tab'[p][i], made'[p], i, h, r)
      BY DEF Leaves
    <2>1. p \in taken
      BY <1>1, <1>7
    <2> QED BY <1>8, <1>10, <2>1 DEF Leaves
  <1>13. ASSUME Fits(r) PROVE Exact(s, r)
    <2> DEFINE u == made[F.tt]
    <2>1. PICK k \in Slots : F.in = InAt(u, k) /\ F.out = OutAt(u, k) /\ InAt(u, k) <= u.top
      BY <1>0, <1>2, AdvanceRound
    <2>2. r \in Region /\ Last(r) < Space
      BY <1>9, FirstExact DEF Call
    <2>3. Mapped(u, r)
      BY <1>2, <1>10, <1>13, <2>2 DEF Mapped, Exacts
    <2>4. s = Sub(u, k) /\ k \in Nat
      BY <1>2, <2>1 DEF Sub, Slots
    <2> QED BY <1>0, <1>2, <2>1, <2>3, <2>4, SubExact
  <1> HIDE DEF s
  <1>14. Exacts(made', taken', r)
    BY <1>1, <1>6, <1>8, <1>10, <1>13 DEF Exacts
  <1>15. \A q : Linked(tab', taken', q) => Linked(tab, taken, q) /\ q \in taken
    <2>1. Links(tab, made, taken)
      BY <1>0, <1>1 DEF TreeInv, Forest
    <2> QED BY <1>1, <1>7, <1>8, <2>1 DEF Linked, Table, Links
  <1>16. ASSUME NEW q \in taken
         PROVE  /\ Complete(tab, made[q], q) => Complete(tab', made'[q], q)
                /\ \A in : Filled(tab, made[q], q, in) => Filled(tab', made'[q], q, in)
    BY <1>8 DEF Complete, Filled
  <1>17. Filled(tab', s, P, F.in)
    BY <1>3, FilledFirst
  <1>18. ASSUME NEW l \in Top .. level'
         PROVE  Filled(tab', made'[frame'[l].tt], frame'[l].tt, frame'[l].in)
    <2>1. CASE l = level + 1
      BY <1>5, <1>6, <1>17, <2>1
    <2>2. CASE l \in Top .. level
      <3>1. frame[l].tt \in taken
        BY <1>0, <1>1, <2>2 DEF StackInv
      <3> QED BY <1>5, <1>10, <1>16, <2>2, <3>1
    <2> QED BY <1>1, <1>2, <2>1, <2>2
  <1>19. frame'[Top] = frame[Top]
    BY <1>2, <1>5
  <1>20. CallMap'
    BY <1>1, <1>9, <1>10, <1>12, <1>14, <1>15, <1>16, <1>18, <1>19 DEF CallMap
  <1> QED BY <1>11, <1>20 DEF MapInv

(* A table that is through is complete, and so is the entry of its round. *)
LEMMA ReturnMap == ASSUME HeapBelow4G, IInv, MapInv, FillReturn PROVE MapInv'
  <1> DEFINE lv == level - 1
             up == frame[lv]
             U == up.tt
             P == F.tt
             i == Index(up.in, lv)
             e == [kind |-> "table", out |-> P, attr |-> "zero"]
             s == made[U]
             r == call.regions[1]
  <1>0. pc = "fill" /\ level > Top /\ F.in > F.top
    BY DEF FillReturn
  <1>a. P % Low = P
    BY <1>0, FillFacts, LowAddress
  <1>1. /\ TypeInv /\ CallInv /\ TreeInv /\ StackInv /\ FillInv
        /\ tab' = [tab EXCEPT ![U][i] = e]
        /\ frame' = [frame EXCEPT ![level] = NoFrame, ![lv] = Advance(up, lv)]
        /\ level' = lv
        /\ made' = made /\ desc' = desc /\ pc' = pc /\ call' = call /\ taken' = taken
    BY <1>a DEF IInv, FillReturn
  <1>2. /\ level \in Top .. 3 /\ Top \in Nat /\ F = frame[level] /\ P \in taken
        /\ lv \in Top .. 2 /\ lv \in Top .. level /\ lv \in Top .. level - 1
        /\ lv + 1 = level /\ lv # level /\ SpanFits(made[P]) /\ F.in \in Nat /\ made[P].top < F.in
    BY <1>0, FillFacts
  <1> HIDE DEF lv
  <1>3. /\ up \in Frame /\ up.in \in Nat /\ U \in taken /\ s.level = lv
    BY <1>0, <1>1, <1>2 DEF StackInv, TypeInv, Frame
  <1>4. SpanFits(s) /\ InRound(up, s) /\ Waits(tab, made, taken, up, P, lv)
    BY <1>0, <1>1, <1>2, <1>3 DEF TreeInv, Forest, Spans, FillInv, lv
  <1>5. i \in Slots
    BY <1>2, <1>3, IndexType
  <1>6. PICK k \in Slots : up.in = InAt(s, k)
    BY <1>3, <1>4, AdvanceRound DEF Waits
  <1>7. Advance(up, lv).tt = U /\ Advance(up, lv).in = up.in + Size(lv)
    BY DEF Advance
  <1>8. e.kind = "table" /\ e.out = P
    OBVIOUS
  <1>9. /\ frame'[lv].tt = U /\ frame'[lv].in = up.in + Size(lv)
        /\ \A l \in Top .. lv : l # lv => frame'[l] = frame[l]
        /\ \A l \in Top .. lv : l \in Top .. level
        /\ frame'[Top].tt = frame[Top].tt
    <2>1. \A l \in Top .. lv : l \in Top .. 3 /\ l # level /\ l \in Top .. level
      BY <1>2 DEF lv
    <2> HIDE DEF e, i, up, s, P
    <2>2. frame'[lv] = Advance(up, lv) /\ \A l \in Top .. 3 : l # lv /\ l # level => frame'[l] = frame[l]
      BY <1>1, <1>2 DEF TypeInv
    <2> QED BY <1>2, <1>7, <2>1, <2>2 DEF up
  <1> HIDE DEF e, i, up, s, P, U
  <1>10. /\ LiveMap'
         /\ tab'[U][i] = e
         /\ \A q \in taken, j \in Slots : q # U \/ j # i => tab'[q][j] = tab[q][j]
         /\ \A q \in taken : Grows(tab, tab', q)
         /\ \A q \in taken : Complete(tab, made[q], q) => Complete(tab', made[q], q)
         /\ \A q \in taken : \A in : Filled(tab, made[q], q, in) => Filled(tab', made[q], q, in)
    <2>1. pc \in {"region", "fill"} /\ Writes(U, i, e)
      BY <1>0, <1>1, <1>8 DEF Writes
    <2> QED BY <1>1, <1>3, <1>5, <2>1, WriteMap
  <1>11. call.regions # <<>> /\ frame[Top].tt \in taken
    BY <1>0, <1>1 DEF CallInv
  <1>12. /\ Leaves(tab, made, taken, r) /\ Exacts(made, taken, r)
         /\ \A p \in taken : Linked(tab, taken, p) => Complete(tab, made[p], p)
         /\ call.round > 1 => Complete(tab, made[frame[Top].tt], frame[Top].tt)
         /\ \A l \in Top .. level : Filled(tab, made[frame[l].tt], frame[l].tt, frame[l].in)
    BY <1>0, <1>11 DEF MapInv, CallMap
  <1>13. Leaves(tab', made, taken, r)
    <2> SUFFICES ASSUME NEW p \in taken, NEW j \in Slots, tab'[p][j].kind \in {"page", "block"}
                 PROVE  \E h \in Slots : LeafBy(tab'[p][j], made[p], j, h, r)
      BY DEF Leaves
    <2>1. tab'[p][j] = tab[p][j]
      BY <1>8, <1>10
    <2> QED BY <1>12, <2>1 DEF Leaves
  <1>14. \A q : Linked(tab', taken, q) => Linked(tab, taken, q) \/ q = P
    BY <1>8, <1>10 DEF Linked, Table
  <1>15. Complete(tab, made[P], P)
    <2>1. Filled(tab, made[P], P, F.in)
      BY <1>2, <1>12 DEF P
    <2> QED BY <1>2, <2>1, FilledAll
  <1>16. ASSUME NEW l \in Top .. lv
         PROVE  Filled(tab', made[frame'[l].tt], frame'[l].tt, frame'[l].in)
    <2>1. CASE l = lv
      <3>1. Filled(tab, s, U, InAt(s, k))
        BY <1>2, <1>6, <1>12 DEF up, U, s
      <3>2. tab'[U][Index(InAt(s, k), s.level)].kind # "none"
        BY <1>3, <1>6, <1>8, <1>10 DEF i
      <3>3. Filled(tab', s, U, InAt(s, k) + Size(s.level))
        BY <1>3, <1>4, <1>10, <3>1, <3>2, FilledNext
      <3> QED BY <1>3, <1>6, <1>9, <2>1, <3>3 DEF s
    <2>2. CASE l # lv
      <3>1. l \in Top .. level /\ frame[l].tt \in taken
        BY <1>0, <1>1, <1>9 DEF StackInv
      <3> QED BY <1>9, <1>10, <1>12, <2>2, <3>1
    <2> QED BY <2>1, <2>2
  <1>17. CallMap'
    BY <1>1, <1>9, <1>10, <1>11, <1>12, <1>13, <1>14, <1>15, <1>16 DEF CallMap
  <1> QED BY <1>10, <1>17 DEF MapInv

(* Every step keeps the invariant of the mapping. *)
LEMMA NextMap == HeapBelow4G /\ IInv /\ MapInv /\ [Next]_vars => MapInv'
  <1> SUFFICES ASSUME HeapBelow4G, IInv, MapInv, [Next]_vars PROVE MapInv'
    OBVIOUS
  <1>1. CASE Create
    BY <1>1, CreateMap DEF Create
  <1>2. CASE FillPage
    BY <1>2, LeafMap DEF FillPage
  <1>3. CASE FillBlock
    BY <1>3, LeafMap DEF FillBlock
  <1>4. CASE Destroy
    BY <1>4, DestroyMap DEF Destroy
  <1>5. CASE UNCHANGED vars
    BY <1>5 DEF vars, MapInv, LiveMap, CallMap
  <1>6. CASE UnwindNested \/ CreateFails
    BY <1>6, FailedMap
  <1> QED BY <1>1, <1>2, <1>3, <1>4, <1>5, <1>6, RefusedMap, StartMap, CreatedMap, OldMap, NewMap,
             FailsMap, ReturnMap, DoneMap DEF Next

(* A page table whose tables are complete and exact translates the region.   *)
LEMMA MapTranslates == IInv /\ MapInv => Translates
  <1> SUFFICES ASSUME IInv, MapInv, NEW d \in Live, Len(desc[d].regions) = 1,
                      Fits(desc[d].regions[1])
               PROVE  LET r  == desc[d].regions[1]
                          va == r.va % Space
                      IN  /\ \A x \in 0 .. Space - 1 :
                               Walk(d, x) = IF x \in va .. va + r.len - 1 THEN r.pa + (x - va) ELSE -1
                          /\ \A x \in va .. va + r.len - 1 : GetAttributes(d, x) = r.attr
    BY DEF Translates
  <1>a. desc[d].regions # <<>>
    BY Len(<<>>) = 0
  <1> DEFINE r == desc[d].regions[1]
             S == desc[d].pages
             root == desc[d].root
  <1>1. TypeInv /\ LiveInv /\ LiveMap /\ d \in Descs /\ desc[d] # None
    BY DEF IInv, MapInv, Live
  <1>2. S \in SUBSET Heap /\ Tree(tab, made, S, root)
    BY <1>1 DEF TypeInv, LiveInv, Desc
  <1>3. /\ r \in Region /\ Last(r) < Space /\ Leaves(tab, made, S, r) /\ Exacts(made, S, r)
        /\ \A p \in S : Complete(tab, made[p], p)
    BY <1>1, <1>a DEF LiveMap
  <1>4. \A p \in S, i \in Slots : tab[p][i] \in Entry
    BY <1>1, <1>2 DEF TypeInv
  <1>5. MapOf(tab, made, S, r)
    BY <1>2, <1>3, <1>4 DEF MapOf, Mapped, Exacts, Tree, Forest, Spans
  <1>6. root \in S
    BY <1>2 DEF Tree
  <1>7. made[root].in \in 0 .. Space - 1
    <2>1. made[root].in \in Nat /\ made[root].in <= made[root].top /\ made[root].top < Space
          /\ made[root].top \in Nat /\ Space \in Nat
      BY <1>5, <1>6, MappedFacts DEF MapOf
    <2> QED BY <2>1
  <1>8. /\ \A x \in 0 .. Space - 1 : Walk(d, x) = IF InRegion(r, x) THEN r.pa + (x - Va(r)) ELSE -1
        /\ \A x \in 0 .. Space - 1 : InRegion(r, x) => GetAttributes(d, x) = r.attr
    BY <1>2, <1>5, <1>7, WalkGood
  <1>9. \A x \in Va(r) .. Last(r) : x \in 0 .. Space - 1
    <2>1. Va(r) \in Nat /\ Last(r) \in Nat /\ Space \in Nat
      BY <1>5, <1>6, MappedFacts DEF MapOf
    <2> QED BY <1>3, <2>1
  <1> QED BY <1>8, <1>9 DEF InRegion, Va, Last

(* Translates, for every geometry of the tables, every heap below 4 GB and   *)
(* every array the callers may pass: a page table that val_pgt_create        *)
(* returned for one region translates that region and nothing else, and      *)
(* val_pgt_get_attributes agrees.                                            *)
THEOREM TranslatesHolds == HeapBelow4G => (Spec => []Translates)
  <1> SUFFICES ASSUME HeapBelow4G PROVE Spec => []Translates
    OBVIOUS
  <1>1. Init => IInv /\ MapInv
    BY InitIInv, InitMap
  <1>2. (IInv /\ MapInv) /\ [Next]_vars => (IInv /\ MapInv)'
    BY NextIInv, NextMap
  <1>3. IInv /\ MapInv => Translates
    BY MapTranslates
  <1> QED BY <1>1, <1>2, <1>3, PTL DEF Spec
=============================================================================
