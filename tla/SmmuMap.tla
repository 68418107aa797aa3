------------------------------ MODULE SmmuMap ------------------------------
(***************************************************************************)
(* Stream tables and context descriptors of the SMMUs                      *)
(* (val/sys_arch_src/smmu_v3/smmu_v3.c): val_smmu_map gives the traffic of *)
(* a stream a page table, val_smmu_unmap takes it away again.  The list of *)
(* masters is shared by all SMMUs and searched by stream ID alone.         *)
(*                                                                         *)
(* The SMMUs run beside the driver and may look up a stream, and cache     *)
(* what they find, between any two of its stores.  smmu_tlbi_cfgi is one   *)
(* step here; SmmuCmdq shows that nothing cached survives it.              *)
(***************************************************************************)
EXTENDS Integers, Sequences

CONSTANTS
  NumSmmus,    \* g_num_smmus
  TwoLevels,   \* the values of supported.st_level_2lvl that SMMUs have
  Supports,    \* the stages supported, from {"S1", "S2"}
  Sids,        \* stream IDs the callers use
  Streams,     \* the streams they map and unmap: an SMMU and a stream ID
  SidLimit,    \* 1 << sid_bits
  Split,       \* 1 << STRTAB_SPLIT, the streams of one level 2 table
  Pgts,        \* page tables the callers ask for
  MaxMasters,  \* bound on the length of the list of masters
  MaxCds       \* bound on the context descriptor tables allocated at a time

Smmus   == 0 .. NumSmmus - 1
Ssids   == {0, 1}
Bits    == {0, 1}          \* ssid_bits of a master
Stages  == {"S1", "S2"}
CdIds   == 1 .. MaxCds
Null    == -1              \* a NULL pointer to an SMMU or a table
Nil     == <<>>            \* a table that is not allocated, a cache that is empty
Fault   == "fault"         \* the outcome of a transaction without translation
L1(sid) == sid \div Split
L1s     == {L1(s) : s \in Sids}
DescPerSte == 8            \* STRTAB_STE_DWORDS level 1 descriptors fill one STE

ASSUME SmmuMapAssumption ==
  /\ NumSmmus \in Nat /\ SidLimit \in Nat /\ Split \in Nat \ {0}
  /\ TwoLevels \subseteq BOOLEAN
  /\ Supports \subseteq Stages
  /\ Sids \subseteq Nat /\ Streams \subseteq Smmus \X Sids
  /\ MaxMasters \in Nat /\ MaxCds \in Nat
  /\ Fault \notin Pgts

VARIABLES
  twoLevel, \* supported.st_level_2lvl: the stream tables have two levels
  ste,      \* [Smmus -> [Sids -> stream table entry]]
  l1,       \* [Smmus -> [L1s -> level 1 descriptor in the table of the SMMU]]
  l2ptr,    \* [Smmus -> [L1s -> the driver's l1_desc[..].l2ptr is set]]
  cds,      \* [CdIds -> context descriptor table, or Nil]
  masters,  \* g_smmu_master_list_head
  cache,    \* [Smmus -> [Sids -> what the SMMU has cached, or Nil]]
  pc,       \* control point of the driver
  op,       \* arguments of the call the driver is in
  node,     \* position in the list of the master the call is about
  want      \* history: [Smmus -> [Sids -> page table the callers last asked for]]

tables == <<ste, l1, l2ptr, cds>>
vars   == <<twoLevel, tables, masters, cache, pc, op, node, want>>

Abort     == [cfg |-> "abort"]
S1Ste(id) == [cfg |-> "S1", cd |-> id]
S2Ste(p)  == [cfg |-> "S2", pgt |-> p]
Stes      == {Abort} \cup {S1Ste(id) : id \in CdIds} \cup {S2Ste(p) : p \in Pgts}

Master == [smmu : Smmus \cup {Null}, sid : Sids \cup {0}, bits : Bits, cd : CdIds \cup {Null}]

(* val_memory_set of a smmu_master_t to zero: its stream ID is 0.            *)
ZeroMaster == [smmu |-> Null, sid |-> 0, bits |-> 0, cd |-> Null]

NoOp == [sid |-> 0]
Request == {r \in [smmu : Smmus, sid : Sids, stage : Stages, ssid : Ssids, bits : Bits,
                   pgt : Pgts] : <<r.smmu, r.sid>> \in Streams /\ (r.stage = "S2" => r.ssid = 0)}
NoWant == [pgt |-> Fault, ssid |-> 0]

TypeOK ==
  /\ twoLevel \in TwoLevels
  /\ ste \in [Smmus -> [Sids -> Stes]]
  /\ l1 \in [Smmus -> [L1s -> {"invalid", "valid", "junk"}]]
  /\ l2ptr \in [Smmus -> [L1s -> BOOLEAN]]
  /\ cds \in [CdIds -> [Ssids -> Pgts \cup {Fault}] \cup {Nil}]
  /\ Len(masters) <= MaxMasters
  /\ masters \in Seq(Master)
  /\ cache \in [Smmus -> [Sids -> [Ssids -> Pgts \cup {Fault}] \cup {Nil}]]
  /\ pc \in {"idle", "ste", "free", "mapInval", "unmapInval"}
  /\ node \in 0 .. Len(masters)
  /\ want \in [Smmus -> [Sids -> [pgt : Pgts \cup {Fault}, ssid : Ssids]]]

(* The stream table entry an SMMU finds for a stream: level 1 descriptors    *)
(* that are not valid lead to none of the driver's entries.                  *)
Entry(i, sid) ==
  IF sid >= SidLimit \/ (twoLevel /\ l1[i][L1(sid)] # "valid") THEN Abort ELSE ste[i][sid]

(* The page table that serves the transactions of a stream, per substream.   *)
Walk(i, sid) ==
  LET e == Entry(i, sid) IN
    [x \in Ssids |-> CASE e.cfg = "abort" -> Fault
                       [] e.cfg = "S2"    -> e.pgt
                       [] e.cfg = "S1"    -> IF cds[e.cd] = Nil THEN Fault ELSE cds[e.cd][x]]

Effective(i, sid) == IF cache[i][sid] = Nil THEN Walk(i, sid) ELSE cache[i][sid]

Init ==
  /\ twoLevel \in TwoLevels
  /\ ste = [i \in Smmus |-> [s \in Sids |-> Abort]]
  /\ l1 = [i \in Smmus |-> [j \in L1s |-> "invalid"]]
  /\ l2ptr = [i \in Smmus |-> [j \in L1s |-> FALSE]]
  /\ cds = [id \in CdIds |-> Nil]
  /\ masters = <<>>
  /\ cache = [i \in Smmus |-> [s \in Sids |-> Nil]]
  /\ pc = "idle"
  /\ op = NoOp /\ node = 0
  /\ want = [i \in Smmus |-> [s \in Sids |-> NoWant]]

----------------------------------------------------------------------------
(* smmu_master_at: the list with the master of a stream at hand.  A new node *)
(* is put in front; it is zero, whatever the stream.                         *)
Known(sid) == \E n \in DOMAIN masters : masters[n].sid = sid
MasterList(sid) == IF Known(sid) THEN masters ELSE <<ZeroMaster>> \o masters
MasterIndex(sid) ==
  IF Known(sid) THEN CHOOSE n \in DOMAIN masters :
                       /\ masters[n].sid = sid
                       /\ \A m \in 1 .. n - 1 : masters[m].sid # sid
                ELSE 1
MayAllocate(sid) == Known(sid) \/ Len(masters) < MaxMasters

(* val_smmu_map claims a master that has no SMMU.                            *)
Claim(m, r) == IF m.smmu = Null
                 THEN [m EXCEPT !.smmu = r.smmu, !.sid = r.sid, !.bits = r.bits]
                 ELSE m

(* smmu_strtab_init_level2: a level 2 table is made once per descriptor.     *)
NeedsLevel2(r) == twoLevel /\ ~l2ptr[r.smmu][L1(r.sid)]

FreeCds == {id \in CdIds : cds[id] = Nil}

(* smmu_cdtab_write_ctx_desc refuses a substream beyond s1cdmax.             *)
SsidInRange(m, r) == r.ssid < 2 ^ m.bits

(* The call returns.                                                         *)
Return == pc' = "idle" /\ op' = NoOp /\ node' = 0

(* val_smmu_map up to the stream table entry.  Every early return leaves     *)
(* behind what was done before it: the node, its claim, the level 2 table,   *)
(* the context descriptor table.                                             *)
MapCall(r) == pc = "idle" /\ MayAllocate(r.sid)
Accepted(r) == r.stage \in Supports /\ r.sid < SidLimit

TheMaster(r)  == Claim(MasterList(r.sid)[MasterIndex(r.sid)], r)
Claimed(r)    == [MasterList(r.sid) EXCEPT ![MasterIndex(r.sid)] = TheMaster(r)]
Proceed(r)    == pc' = "ste" /\ op' = r /\ node' = MasterIndex(r.sid)

(* The stage is not supported, or the stream lies beyond the table.          *)
MapRejected(r) ==
  /\ MapCall(r)
  /\ ~Accepted(r)
  /\ masters' = Claimed(r)
  /\ Return
  /\ UNCHANGED <<tables, cache, want>>

(* There is no memory for the level 2 table.                                 *)
MapNoLevel2(r) ==
  /\ MapCall(r)
  /\ Accepted(r)
  /\ NeedsLevel2(r)
  /\ masters' = Claimed(r)
  /\ Return
  /\ UNCHANGED <<tables, cache, want>>

(* smmu_strtab_init_level2, whose entries all abort.                         *)
LinkLevel2(r) ==
  /\ l2ptr' = [l2ptr EXCEPT ![r.smmu][L1(r.sid)] = @ \/ NeedsLevel2(r)]
  /\ l1' = IF NeedsLevel2(r) THEN [l1 EXCEPT ![r.smmu][L1(r.sid)] = "valid"] ELSE l1

(* A stage 2 translation needs no further table.                             *)
MapStage2(r) ==
  /\ MapCall(r)
  /\ Accepted(r)
  /\ r.stage = "S2"
  /\ LinkLevel2(r)
  /\ masters' = Claimed(r)
  /\ Proceed(r)
  /\ UNCHANGED <<ste, cds, cache, want>>

(* There is no memory for the context descriptors.                           *)
MapNoCd(r) ==
  /\ MapCall(r)
  /\ Accepted(r)
  /\ r.stage = "S1"
  /\ TheMaster(r).cd = Null
  /\ LinkLevel2(r)
  /\ masters' = Claimed(r)
  /\ Return
  /\ UNCHANGED <<ste, cds, cache, want>>

(* smmu_cdtab_alloc, once per master, and smmu_cdtab_write_ctx_desc, which   *)
(* fails when the substream is out of range.                                 *)
MapStage1(r) ==
  /\ MapCall(r)
  /\ Accepted(r)
  /\ r.stage = "S1"
  /\ LinkLevel2(r)
  /\ \E id \in IF TheMaster(r).cd = Null THEN FreeCds ELSE {TheMaster(r).cd} :
       LET table == IF TheMaster(r).cd = Null THEN [x \in Ssids |-> Fault] ELSE cds[id] IN
         /\ masters' = [Claimed(r) EXCEPT ![MasterIndex(r.sid)].cd = id]
         /\ \/ /\ SsidInRange(TheMaster(r), r)
               /\ cds' = [cds EXCEPT ![id] = [table EXCEPT ![r.ssid] = r.pgt]]
               /\ Proceed(r)
            \/ /\ ~SsidInRange(TheMaster(r), r)
               /\ cds' = [cds EXCEPT ![id] = table]
               /\ Return
  /\ UNCHANGED <<ste, cache, want>>

(* smmu_strtab_write_ste for the master, into the entry of the stream.       *)
WriteSte ==
  /\ pc = "ste"
  /\ ste' = [ste EXCEPT ![op.smmu][op.sid] =
               IF op.stage = "S2" THEN S2Ste(op.pgt) ELSE S1Ste(masters[node].cd)]
  /\ pc' = "mapInval"
  /\ UNCHANGED <<l1, l2ptr, cds, masters, cache, op, node, want>>

(* smmu_tlbi_cfgi drops everything an SMMU has cached.                       *)
Invalidate(i) == cache' = [cache EXCEPT ![i] = [s \in Sids |-> Nil]]

MapEnd_NoInvalidate ==
  /\ pc = "mapInval"
  /\ want' = [want EXCEPT ![op.smmu][op.sid] = [pgt |-> op.pgt, ssid |-> op.ssid]]
  /\ Return
  /\ UNCHANGED <<tables, masters, cache>>

(* val_smmu_map returns 0.                                                   *)
MapEnd ==
  /\ pc = "mapInval"
  /\ Invalidate(op.smmu)
  /\ want' = [want EXCEPT ![op.smmu][op.sid] = [pgt |-> op.pgt, ssid |-> op.ssid]]
  /\ Return
  /\ UNCHANGED <<tables, masters>>

----------------------------------------------------------------------------
(* The caller of val_smmu_unmap takes the stream to be gone.                 *)
Unwant(i, sid) == want' = [want EXCEPT ![i][sid] = NoWant]

WriteAbort_Missing(i, sid) == UNCHANGED <<ste, l1>>

(* The abort entry val_smmu_unmap writes, at the offset a linear table has.  *)
(* In a two-level table that is the place of level 1 descriptors: the first  *)
(* becomes a valid one without a table, the next two invalid.                *)
WriteAbort(i, sid) ==
  IF ~twoLevel
    THEN ste' = [ste EXCEPT ![i][sid] = Abort] /\ UNCHANGED l1
    ELSE /\ l1' = [l1 EXCEPT ![i] = [j \in L1s |->
                     CASE j = DescPerSte * sid -> "junk"
                       [] j - DescPerSte * sid \in {1, 2} -> "invalid"
                       [] OTHER -> @[j]]]
         /\ UNCHANGED ste

(* val_smmu_unmap(smmu index i, stream sid): the SMMU is that of the master. *)
UnmapStart(i, sid) ==
  LET n == MasterIndex(sid)
      m == MasterList(sid)[n]
  IN
  /\ pc = "idle"
  /\ MayAllocate(sid)
  /\ masters' = MasterList(sid)
  /\ \/ /\ m.smmu = Null \/ sid >= SidLimit
        /\ Unwant(i, sid)
        /\ UNCHANGED <<ste, l1, pc, op, node>>
     \/ /\ m.smmu # Null /\ sid < SidLimit
        /\ WriteAbort(m.smmu, sid)
        /\ pc' = "free" /\ op' = [smmu |-> i, sid |-> sid] /\ node' = n
        /\ UNCHANGED want
  /\ UNCHANGED <<l2ptr, cds, cache>>

(* smmu_cdtab_free: the context descriptors go before the invalidation.      *)
UnmapFree ==
  /\ pc = "free"
  /\ LET id == masters[node].cd IN
       /\ cds' = IF id = Null THEN cds ELSE [cds EXCEPT ![id] = Nil]
       /\ masters' = [masters EXCEPT ![node].cd = Null]
  /\ pc' = "unmapInval"
  /\ UNCHANGED <<ste, l1, l2ptr, cache, op, node, want>>

UnmapEnd_NoInvalidate ==
  /\ pc = "unmapInval"
  /\ masters' = [masters EXCEPT ![node] = ZeroMaster]
  /\ Unwant(op.smmu, op.sid)
  /\ Return
  /\ UNCHANGED <<tables, cache>>

(* The end of val_smmu_unmap: the master is cleared, its stream ID too.      *)
UnmapEnd ==
  /\ pc = "unmapInval"
  /\ Invalidate(masters[node].smmu)
  /\ masters' = [masters EXCEPT ![node] = ZeroMaster]
  /\ Unwant(op.smmu, op.sid)
  /\ Return
  /\ UNCHANGED tables

----------------------------------------------------------------------------
(* The SMMU (external) looks up a stream and caches what it finds.           *)
Fetch(i, sid) ==
  /\ cache[i][sid] = Nil
  /\ cache' = [cache EXCEPT ![i][sid] = Walk(i, sid)]
  /\ UNCHANGED <<tables, masters, pc, op, node, want>>

Next ==
  /\ \/ \E r \in Request : \/ MapRejected(r) \/ MapNoLevel2(r) \/ MapStage2(r)
                           \/ MapNoCd(r) \/ MapStage1(r)
     \/ WriteSte \/ MapEnd
     \/ \E s \in Streams : UnmapStart(s[1], s[2])
     \/ UnmapFree \/ UnmapEnd
     \/ \E i \in Smmus, sid \in Sids : Fetch(i, sid)
  /\ UNCHANGED twoLevel

Spec == Init /\ [][Next]_vars

----------------------------------------------------------------------------
(* No call for the stream is under way.                                      *)
Settled(i, sid) == pc = "idle" \/ op.sid # sid

(* Whenever val_smmu_map has returned success for a stream, and until the    *)
(* next call for that stream, its transactions go through the page table     *)
(* asked for, whatever the SMMU cached and whatever is done to other streams *)
(* or fails in between.                                                      *)
MappedTranslate ==
  \A i \in Smmus, sid \in Sids :
    Settled(i, sid) /\ want[i][sid] # NoWant =>
      Effective(i, sid)[want[i][sid].ssid] = want[i][sid].pgt

(* Whenever val_smmu_unmap has returned for a stream, none of its            *)
(* transactions is translated.                                               *)
UnmappedAbort ==
  \A i \in Smmus, sid \in Sids :
    Settled(i, sid) /\ want[i][sid] = NoWant =>
      \A x \in Ssids : Effective(i, sid)[x] = Fault

(* The same for SMMUs with a linear stream table, which is the one that      *)
(* val_smmu_unmap knows how to find an entry in.                             *)
LinearUnmappedAbort == ~twoLevel => UnmappedAbort

(* No entry of a linear stream table points to context descriptors that have *)
(* been freed, at any moment of val_smmu_map and val_smmu_unmap.             *)
NoDanglingCd ==
  ~twoLevel =>
    \A i \in Smmus, sid \in Sids :
      Entry(i, sid).cfg = "S1" => cds[Entry(i, sid).cd] # Nil

----------------------------------------------------------------------------
(* What the inductive invariants assume of the callers.  A cleared master    *)
(* is found for stream ID 0 whatever it was, and the list does not tell the  *)
(* streams of different SMMUs apart.                                         *)
NoStreamZero == 0 \notin Sids
OneSmmu      == \A s, t \in Streams : s[2] = t[2] => s[1] = t[1]

(* What val_smmu_unmap writes into a two-level table hits no descriptor that *)
(* is in use.                                                                *)
Apart ==
  TRUE \in TwoLevels => \A s, t \in Sids : L1(t) - DescPerSte * s \notin {0, 1, 2}

(* A master has a stream ID once it has an SMMU; no two share a stream or a  *)
(* table of context descriptors.                                             *)
Listed(M) ==
  /\ \A n \in DOMAIN M :
       /\ M[n].smmu = Null <=> M[n].sid = 0
       /\ M[n].smmu = Null => M[n].cd = Null
       /\ M[n].smmu # Null => <<M[n].smmu, M[n].sid>> \in Streams
  /\ \A m, n \in DOMAIN M : m # n =>
       /\ M[m].sid # 0 => M[m].sid # M[n].sid
       /\ M[m].cd # Null => M[m].cd # M[n].cd

(* What the call under way is about.                                         *)
Mapping   == pc \in {"ste", "mapInval"}
Unmapping == pc \in {"free", "unmapInval"}
NewSte    == IF op.stage = "S2" THEN S2Ste(op.pgt) ELSE S1Ste(masters[node].cd)
UnderWay ==
  /\ Mapping \/ Unmapping =>
       /\ <<op.smmu, op.sid>> \in Streams
       /\ node \in DOMAIN masters
       /\ masters[node].smmu = op.smmu /\ masters[node].sid = op.sid
  /\ Mapping =>
       /\ op \in Request /\ op.sid < SidLimit
       /\ op.stage = "S1" => /\ masters[node].cd # Null
                             /\ cds[masters[node].cd][op.ssid] = op.pgt
  /\ pc = "mapInval" => ste[op.smmu][op.sid] = NewSte
  /\ pc = "unmapInval" => masters[node].cd = Null

MasterInv ==
  /\ TypeOK /\ Listed(masters) /\ UnderWay
  /\ \A n \in DOMAIN masters : masters[n].cd # Null => cds[masters[n].cd] # Nil
  /\ \A i \in Smmus, s \in Sids :
       want[i][s] # NoWant => <<i, s>> \in Streams /\ s < SidLimit

(* A linear table: an entry that translates has its master, and an entry of  *)
(* a stream that nobody has mapped does not translate and is not cached as   *)
(* one that does.                                                            *)
HasMaster(i, s, e) ==
  \E n \in DOMAIN masters : /\ masters[n].smmu = i /\ masters[n].sid = s
                            /\ e.cfg = "S1" => masters[n].cd = e.cd
Silent(i, s) ==
  /\ ste[i][s].cfg = "abort"
  /\ cache[i][s] # Nil => \A x \in Ssids : cache[i][s][x] = Fault

Linear ==
  \A i \in Smmus, s \in Sids :
    /\ ste[i][s].cfg # "abort" => HasMaster(i, s, ste[i][s])
    /\ Unmapping /\ s = op.sid => ste[i][s].cfg = "abort"
    /\ <<i, s>> \notin Streams \/ (Settled(i, s) /\ want[i][s] = NoWant) => Silent(i, s)
    /\ Settled(i, s) /\ want[i][s] # NoWant => ste[i][s].cfg # "abort"

LinearInv == MasterInv /\ (~twoLevel => Linear)

(* Any table: the entry of a mapped stream is reached, leads to the page     *)
(* table asked for, and is cached as such.                                   *)
Owns(s, id) == \E n \in DOMAIN masters : masters[n].sid = s /\ masters[n].cd = id
Serving(i, s) ==
  /\ twoLevel => l2ptr[i][L1(s)]
  /\ \/ ste[i][s] = S2Ste(want[i][s].pgt)
     \/ \E id \in CdIds : /\ ste[i][s] = S1Ste(id) /\ Owns(s, id)
                          /\ cds[id][want[i][s].ssid] = want[i][s].pgt
  /\ cache[i][s] # Nil => cache[i][s][want[i][s].ssid] = want[i][s].pgt

Reached ==
  /\ twoLevel => \A i \in Smmus, j \in L1s : l2ptr[i][j] => l1[i][j] = "valid"
  /\ twoLevel /\ Mapping => l2ptr[op.smmu][L1(op.sid)]
  /\ \A i \in Smmus, s \in Sids : Settled(i, s) /\ want[i][s] # NoWant => Serving(i, s)

ServedInv == MasterInv /\ Reached
=============================================================================
