--------------------------- MODULE SmmuMapProofs ----------------------------
(* Proofs about stream tables and context descriptors, for every number of *)
(* SMMUs, every set of streams and page tables and every bound.            *)
EXTENDS SmmuMap, TLAPS

----------------------------------------------------------------------------
(* The operators the model is built from.                                  *)

(* The kinds of a stream table entry.                                      *)
LEMMA SteKinds ==
  /\ Abort.cfg = "abort"
  /\ \A id : S1Ste(id).cfg = "S1" /\ S1Ste(id).cd = id
  /\ \A p : S2Ste(p).cfg = "S2" /\ S2Ste(p).pgt = p
  BY DEF Abort, S1Ste, S2Ste

(* A table of context descriptors is not the mark of a missing one.        *)
LEMMA TableNotNil ==
  ASSUME NEW T, NEW f \in [Ssids -> T] PROVE f # Nil
<1>1. DOMAIN f = {0, 1}
  BY DEF Ssids
<1>2. DOMAIN Nil = {}
  BY DEF Nil
<1> QED BY <1>1, <1>2

(* The fields of a cleared master.                                         *)
LEMMA ZeroFields ==
  /\ ZeroMaster \in Master
  /\ ZeroMaster.smmu = Null /\ ZeroMaster.sid = 0 /\ ZeroMaster.cd = Null
  BY DEF ZeroMaster, Master, Bits

(* Null names neither an SMMU nor a table.                                 *)
LEMMA NullIsNone == Null \notin Smmus /\ Null \notin CdIds
  BY SmmuMapAssumption DEF Null, Smmus, CdIds

(* A master that has a table is one of a stream.                           *)
LEMMA MasterFields ==
  ASSUME TypeOK, Listed(masters), NEW n \in DOMAIN masters
  PROVE  /\ masters[n].smmu \in Smmus \cup {Null} /\ masters[n].cd \in CdIds \cup {Null}
         /\ masters[n].cd # Null => masters[n].sid # 0 /\ masters[n].cd \in CdIds
<1>1. masters[n] \in Master
  BY DEF TypeOK
<1>2. masters[n].smmu \in Smmus \cup {Null} /\ masters[n].cd \in CdIds \cup {Null}
  BY <1>1 DEF Master
<1>3. masters[n].cd # Null => masters[n].sid # 0
  BY DEF Listed
<1> QED BY <1>2, <1>3

(* smmu_master_at: the list, in front of which there may be a cleared      *)
(* master now, and the place of the master.                                *)
LEMMA ListAt ==
  ASSUME TypeOK, Listed(masters), NoStreamZero, NEW sid \in Sids, MayAllocate(sid)
  PROVE  /\ MasterList(sid) \in Seq(Master) /\ Len(MasterList(sid)) <= MaxMasters
         /\ MasterIndex(sid) \in DOMAIN MasterList(sid)
         /\ Listed(MasterList(sid))
         /\ \/ MasterList(sid)[MasterIndex(sid)] = ZeroMaster
            \/ MasterList(sid)[MasterIndex(sid)].sid = sid
         /\ \A n \in DOMAIN MasterList(sid) :
              n # MasterIndex(sid) => MasterList(sid)[n].sid # sid
         /\ \A n \in DOMAIN masters : \E m \in DOMAIN MasterList(sid) : MasterList(sid)[m] = masters[n]
         /\ \A m \in DOMAIN MasterList(sid) :
              MasterList(sid)[m] = ZeroMaster \/ \E n \in DOMAIN masters : masters[n] = MasterList(sid)[m]
<1>1. masters \in Seq(Master) /\ Len(masters) \in Nat /\ Len(masters) <= MaxMasters /\ sid # 0
      /\ MaxMasters \in Nat
  BY SmmuMapAssumption DEF TypeOK, NoStreamZero
<1>2. CASE Known(sid)
  <2>1. MasterList(sid) = masters
    BY <1>2 DEF MasterList
  <2>2. PICK n \in DOMAIN masters : masters[n].sid = sid
    BY <1>2 DEF Known
  <2>3. \A m \in DOMAIN masters : m # n => masters[m].sid # sid
    BY <1>1, <2>2 DEF Listed
  <2>4. \A m \in 1 .. n - 1 : masters[m].sid # sid
    BY <1>1, <2>2, <2>3
  <2>5. MasterIndex(sid) = n
    BY <1>2, <2>2, <2>3, <2>4 DEF MasterIndex
  <2> QED BY <1>1, <2>1, <2>2, <2>3, <2>5
<1>3. CASE ~Known(sid)
  <2> DEFINE M == <<ZeroMaster>> \o masters
  <2>1. MasterList(sid) = M /\ MasterIndex(sid) = 1 /\ Len(masters) < MaxMasters
    BY <1>3 DEF MasterList, MasterIndex, MayAllocate
  <2>2. /\ M \in Seq(Master) /\ Len(M) = Len(masters) + 1 /\ M[1] = ZeroMaster
        /\ \A n \in DOMAIN masters : M[n + 1] = masters[n]
        /\ DOMAIN M = 1 .. Len(masters) + 1 /\ DOMAIN masters = 1 .. Len(masters)
    BY <1>1, ZeroFields
  <2>3. \A m \in DOMAIN M : m = 1 \/ (m - 1 \in DOMAIN masters /\ M[m] = masters[m - 1])
    BY <1>1, <2>2
  <2> HIDE DEF M
  <2>4. \A n \in DOMAIN masters : masters[n].sid # sid
    BY <1>3 DEF Known
  <2>5. Listed(M)
    <3>1. \A n \in DOMAIN M :
            /\ M[n].smmu = Null <=> M[n].sid = 0
            /\ M[n].smmu = Null => M[n].cd = Null
            /\ M[n].smmu # Null => <<M[n].smmu, M[n].sid>> \in Streams
      BY <2>2, <2>3, ZeroFields DEF Listed
    <3>2. ASSUME NEW m \in DOMAIN M, NEW n \in DOMAIN M, m # n
          PROVE  /\ M[m].sid # 0 => M[m].sid # M[n].sid
                 /\ M[m].cd # Null => M[m].cd # M[n].cd
      <4>1. CASE m = 1
        BY <2>2, <4>1, ZeroFields
      <4>2. CASE n = 1
        BY <2>2, <4>2, ZeroFields
      <4>3. CASE m # 1 /\ n # 1
        <5>1. /\ m - 1 \in DOMAIN masters /\ n - 1 \in DOMAIN masters /\ m - 1 # n - 1
              /\ M[m] = masters[m - 1] /\ M[n] = masters[n - 1]
          BY <1>1, <2>2, <2>3, <3>2, <4>3
        <5> QED BY <5>1 DEF Listed
      <4> QED BY <4>1, <4>2, <4>3
    <3> QED BY <3>1, <3>2 DEF Listed
  <2>6. \A n \in DOMAIN masters : \E m \in DOMAIN M : M[m] = masters[n]
    <3> SUFFICES ASSUME NEW n \in DOMAIN masters PROVE \E m \in DOMAIN M : M[m] = masters[n]
      OBVIOUS
    <3>1. n + 1 \in DOMAIN M /\ M[n + 1] = masters[n]
      BY <1>1, <2>2
    <3> QED BY <3>1
  <2>7. \A m \in DOMAIN M : M[m] = ZeroMaster \/ \E n \in DOMAIN masters : masters[n] = M[m]
    BY <2>2, <2>3
  <2>8. 1 \in DOMAIN M /\ Len(M) <= MaxMasters
    BY <1>1, <2>1, <2>2
  <2>9. \A n \in DOMAIN M : n # 1 => M[n].sid # sid
    BY <2>3, <2>4
  <2> QED BY <2>1, <2>2, <2>5, <2>6, <2>7, <2>8, <2>9
<1> QED BY <1>2, <1>3

(* The fields of a request.                                                *)
LEMMA RequestFields ==
  ASSUME NEW r \in Request
  PROVE  /\ r.smmu \in Smmus /\ r.sid \in Sids /\ r.stage \in Stages /\ r.ssid \in Ssids
         /\ r.bits \in Bits /\ r.pgt \in Pgts /\ <<r.smmu, r.sid>> \in Streams
         /\ r.pgt # Fault
  BY SmmuMapAssumption DEF Request

Put(M, k, x) == [M EXCEPT ![k] = x]

(* A master of the list is replaced by one that keeps its stream, or gets  *)
(* one that nobody has, and keeps its table or gets one nobody has.        *)
LEMMA Replaced ==
  ASSUME NEW M \in Seq(Master), Listed(M), NEW k \in DOMAIN M, NEW x \in Master,
         x.smmu # Null, x.sid # 0, <<x.smmu, x.sid>> \in Streams,
         \A n \in DOMAIN M : n # k => M[n].sid # x.sid /\ (x.cd # Null => M[n].cd # x.cd)
  PROVE  /\ Put(M, k, x) \in Seq(Master) /\ Listed(Put(M, k, x))
         /\ Len(Put(M, k, x)) = Len(M) /\ DOMAIN Put(M, k, x) = DOMAIN M
         /\ Put(M, k, x)[k] = x /\ \A n \in DOMAIN M : n # k => Put(M, k, x)[n] = M[n]
<1> DEFINE D == Put(M, k, x)
<1>1. /\ D \in Seq(Master) /\ Len(D) = Len(M) /\ DOMAIN D = DOMAIN M /\ D[k] = x
      /\ \A n \in DOMAIN M : n # k => D[n] = M[n]
  BY DEF Put
<1> HIDE DEF D
<1>2. \A n \in DOMAIN D :
        /\ D[n].smmu = Null <=> D[n].sid = 0
        /\ D[n].smmu = Null => D[n].cd = Null
        /\ D[n].smmu # Null => <<D[n].smmu, D[n].sid>> \in Streams
  <2> SUFFICES ASSUME NEW n \in DOMAIN D
               PROVE  /\ D[n].smmu = Null <=> D[n].sid = 0
                      /\ D[n].smmu = Null => D[n].cd = Null
                      /\ D[n].smmu # Null => <<D[n].smmu, D[n].sid>> \in Streams
    OBVIOUS
  <2>1. CASE n = k
    BY <1>1, <2>1
  <2>2. CASE n # k
    BY <1>1, <2>2 DEF Listed
  <2> QED BY <2>1, <2>2
<1>3. ASSUME NEW m \in DOMAIN D, NEW n \in DOMAIN D, m # n
      PROVE  /\ D[m].sid # 0 => D[m].sid # D[n].sid
             /\ D[m].cd # Null => D[m].cd # D[n].cd
  <2>1. CASE m = k
    BY <1>1, <1>3, <2>1
  <2>2. CASE n = k
    BY <1>1, <1>3, <2>2
  <2>3. CASE m # k /\ n # k
    BY <1>1, <1>3, <2>3 DEF Listed
  <2> QED BY <2>1, <2>2, <2>3
<1>4. Listed(D)
  BY <1>2, <1>3 DEF Listed
<1> QED BY <1>1, <1>4 DEF D

(* The list after val_smmu_map has claimed the master of the stream.       *)
LEMMA ClaimedList ==
  ASSUME TypeOK, Listed(masters), NoStreamZero, OneSmmu, NEW r \in Request, MapCall(r)
  PROVE  /\ Claimed(r) \in Seq(Master) /\ Len(Claimed(r)) <= MaxMasters /\ Listed(Claimed(r))
         /\ MasterIndex(r.sid) \in DOMAIN Claimed(r)
         /\ Claimed(r)[MasterIndex(r.sid)] = TheMaster(r)
         /\ TheMaster(r) \in Master /\ TheMaster(r).smmu = r.smmu /\ TheMaster(r).sid = r.sid
         /\ \A n \in DOMAIN masters :
              masters[n].sid # 0 => \E m \in DOMAIN Claimed(r) : Claimed(r)[m] = masters[n]
         /\ \A m \in DOMAIN Claimed(r) : Claimed(r)[m].cd # Null =>
              \E n \in DOMAIN masters : masters[n].cd = Claimed(r)[m].cd
<1> DEFINE M == MasterList(r.sid)
           k == MasterIndex(r.sid)
           x == TheMaster(r)
<1>1. /\ r.smmu \in Smmus /\ r.sid \in Sids /\ r.bits \in Bits /\ <<r.smmu, r.sid>> \in Streams
      /\ r.sid # 0 /\ r.smmu # Null
  BY RequestFields, NullIsNone DEF NoStreamZero
<1>2. /\ M \in Seq(Master) /\ Len(M) <= MaxMasters /\ k \in DOMAIN M /\ Listed(M)
      /\ M[k] = ZeroMaster \/ M[k].sid = r.sid
      /\ \A n \in DOMAIN M : n # k => M[n].sid # r.sid
      /\ \A n \in DOMAIN masters : \E m \in DOMAIN M : M[m] = masters[n]
      /\ \A m \in DOMAIN M : M[m] = ZeroMaster \/ \E n \in DOMAIN masters : masters[n] = M[m]
  BY <1>1, ListAt DEF MapCall
<1>3. x = Claim(M[k], r) /\ Claimed(r) = Put(M, k, x) /\ M[k] \in Master
  BY <1>2 DEF TheMaster, Claimed, Put
<1> HIDE DEF M, k, x
<1>4. CASE M[k] = ZeroMaster
  <2>1. x = [ZeroMaster EXCEPT !.smmu = r.smmu, !.sid = r.sid, !.bits = r.bits]
    BY <1>3, <1>4, ZeroFields DEF Claim
  <2>2. x \in Master /\ x.smmu = r.smmu /\ x.sid = r.sid /\ x.cd = Null
    BY <1>1, <2>1, ZeroFields DEF Master, ZeroMaster
  <2>3. /\ Claimed(r) \in Seq(Master) /\ Listed(Claimed(r)) /\ Len(Claimed(r)) = Len(M)
        /\ DOMAIN Claimed(r) = DOMAIN M /\ Claimed(r)[k] = x
        /\ \A n \in DOMAIN M : n # k => Claimed(r)[n] = M[n]
    <3>1. x.smmu # Null /\ x.sid # 0 /\ <<x.smmu, x.sid>> \in Streams
      BY <1>1, <2>2
    <3>2. \A n \in DOMAIN M : n # k => M[n].sid # x.sid /\ (x.cd # Null => M[n].cd # x.cd)
      BY <1>2, <2>2
    <3>3. /\ M \in Seq(Master) /\ Listed(M) /\ k \in DOMAIN M /\ x \in Master
          /\ Claimed(r) = Put(M, k, x)
      BY <1>2, <1>3, <2>2
    <3> QED BY <3>1, <3>2, <3>3, Replaced
  <2>4. \A n \in DOMAIN masters :
          masters[n].sid # 0 => \E m \in DOMAIN Claimed(r) : Claimed(r)[m] = masters[n]
    BY <1>2, <1>4, <2>3, ZeroFields
  <2>5. \A m \in DOMAIN Claimed(r) : Claimed(r)[m].cd # Null =>
          \E n \in DOMAIN masters : masters[n].cd = Claimed(r)[m].cd
    BY <1>2, <2>2, <2>3, ZeroFields
  <2> QED BY <1>2, <2>2, <2>3, <2>4, <2>5 DEF k, x
<1>5. CASE M[k] # ZeroMaster /\ M[k].sid = r.sid
  <2>1. M[k].smmu # Null /\ <<M[k].smmu, M[k].sid>> \in Streams
    BY <1>1, <1>2, <1>5 DEF Listed
  <2>2. x = M[k]
    BY <1>3, <2>1 DEF Claim
  <2>3. M[k].smmu = r.smmu
    <3>1. <<M[k].smmu, M[k].sid>>[2] = <<r.smmu, r.sid>>[2] =>
            <<M[k].smmu, M[k].sid>>[1] = <<r.smmu, r.sid>>[1]
      BY <1>1, <2>1 DEF OneSmmu
    <3> QED BY <1>5, <3>1
  <2>4. Claimed(r) = M
    BY <1>2, <1>3, <2>2 DEF Put
  <2>5. \A m \in DOMAIN M : M[m].cd # Null => \E n \in DOMAIN masters : masters[n].cd = M[m].cd
    BY <1>2, ZeroFields
  <2> QED BY <1>2, <1>3, <1>5, <2>2, <2>3, <2>4, <2>5 DEF k, x
<1> QED BY <1>2, <1>4, <1>5

(* The level 2 table of the stream is there afterwards.                    *)
LEMMA Linked ==
  ASSUME TypeOK, NEW r \in Request, LinkLevel2(r), twoLevel' = twoLevel
  PROVE  /\ l1' \in [Smmus -> [L1s -> {"invalid", "valid", "junk"}]]
         /\ l2ptr' \in [Smmus -> [L1s -> BOOLEAN]]
         /\ \A i \in Smmus, j \in L1s : l2ptr[i][j] => l2ptr'[i][j]
         /\ twoLevel => l2ptr'[r.smmu][L1(r.sid)]
         /\ (\A i \in Smmus, j \in L1s : l2ptr[i][j] => l1[i][j] = "valid") =>
              (twoLevel => \A i \in Smmus, j \in L1s : l2ptr'[i][j] => l1'[i][j] = "valid")
<1> DEFINE a == r.smmu
           b == L1(r.sid)
           new == NeedsLevel2(r)
<1>1. a \in Smmus /\ b \in L1s
  BY RequestFields DEF L1s
<1>2. /\ l2ptr' = [l2ptr EXCEPT ![a] = [l2ptr[a] EXCEPT ![b] = l2ptr[a][b] \/ new]]
      /\ l1' = IF new THEN [l1 EXCEPT ![a] = [l1[a] EXCEPT ![b] = "valid"]] ELSE l1
  BY DEF LinkLevel2
<1>3. new <=> twoLevel /\ ~l2ptr[a][b]
  BY DEF NeedsLevel2
<1>4. l2ptr \in [Smmus -> [L1s -> BOOLEAN]] /\ l1 \in [Smmus -> [L1s -> {"invalid", "valid", "junk"}]]
  BY DEF TypeOK
<1> HIDE DEF a, b, new
<1>5. l2ptr' \in [Smmus -> [L1s -> BOOLEAN]]
  BY <1>1, <1>2, <1>4
<1>6. l1' \in [Smmus -> [L1s -> {"invalid", "valid", "junk"}]]
  BY <1>1, <1>2, <1>4
<1>7. \A i \in Smmus, j \in L1s :
        l2ptr'[i][j] <=> IF i = a /\ j = b THEN l2ptr[i][j] \/ new ELSE l2ptr[i][j]
  BY <1>1, <1>2, <1>4
<1>8. \A i \in Smmus, j \in L1s :
        l1'[i][j] = IF new /\ i = a /\ j = b THEN "valid" ELSE l1[i][j]
  BY <1>1, <1>2, <1>4
<1>9. twoLevel => l2ptr'[a][b]
  BY <1>1, <1>3, <1>7
<1>10. (\A i \in Smmus, j \in L1s : l2ptr[i][j] => l1[i][j] = "valid") =>
         (twoLevel => \A i \in Smmus, j \in L1s : l2ptr'[i][j] => l1'[i][j] = "valid")
  BY <1>1, <1>3, <1>7, <1>8
<1> QED BY <1>5, <1>6, <1>7, <1>9, <1>10 DEF a, b

(* What a stream table entry may be.                                       *)
LEMMA SteType ==
  ASSUME TypeOK, NEW i \in Smmus, NEW s \in Sids
  PROVE  /\ ste[i][s].cfg \in {"abort", "S1", "S2"}
         /\ ste[i][s].cfg = "S1" => ste[i][s] = S1Ste(ste[i][s].cd) /\ ste[i][s].cd \in CdIds
         /\ ste[i][s].cfg = "S2" => ste[i][s] = S2Ste(ste[i][s].pgt) /\ ste[i][s].pgt \in Pgts
<1>1. ste[i][s] \in Stes
  BY DEF TypeOK
<1>2. CASE ste[i][s] = Abort
  BY <1>2, SteKinds
<1>3. CASE \E id \in CdIds : ste[i][s] = S1Ste(id)
  BY <1>3, SteKinds
<1>4. CASE \E p \in Pgts : ste[i][s] = S2Ste(p)
  BY <1>4, SteKinds
<1> QED BY <1>1, <1>2, <1>3, <1>4 DEF Stes

----------------------------------------------------------------------------
(* val_smmu_map up to the stream table entry.                              *)
MapAny(r) == MapRejected(r) \/ MapNoLevel2(r) \/ MapStage2(r) \/ MapNoCd(r) \/ MapStage1(r)

(* The masters and their tables afterwards: whoever has a stream keeps it, *)
(* its SMMU and its table, and the contents of the table unless the call   *)
(* goes on for that stream.                                                *)
Kept(r) ==
  /\ \A n \in DOMAIN masters : masters[n].sid # 0 =>
       \E m \in DOMAIN masters' :
         /\ masters'[m].smmu = masters[n].smmu /\ masters'[m].sid = masters[n].sid
         /\ masters[n].cd # Null => masters'[m].cd = masters[n].cd
  /\ \A n \in DOMAIN masters :
       masters[n].cd # Null /\ (masters[n].sid # r.sid \/ pc' = "idle") =>
         cds'[masters[n].cd] = cds[masters[n].cd]

(* The step of the tables, the list and the control point.                 *)
Moved(r) ==
  /\ pc = "idle" /\ UNCHANGED <<ste, cache, want>>
  /\ \/ Return
     \/ Proceed(r) /\ Accepted(r)

(* Everything of an early return but its guard.                            *)
LEMMA MapFails ==
  ASSUME MasterInv, NoStreamZero, OneSmmu, NEW r \in Request, MapCall(r), twoLevel' = twoLevel,
         masters' = Claimed(r), Return, UNCHANGED <<ste, cds, cache, want>>,
         l1' \in [Smmus -> [L1s -> {"invalid", "valid", "junk"}]],
         l2ptr' \in [Smmus -> [L1s -> BOOLEAN]]
  PROVE  MasterInv' /\ Kept(r)
<1> USE DEF MasterInv
<1>1. /\ masters' \in Seq(Master) /\ Len(masters') <= MaxMasters /\ Listed(masters')
      /\ \A n \in DOMAIN masters :
           masters[n].sid # 0 => \E m \in DOMAIN masters' : masters'[m] = masters[n]
      /\ \A m \in DOMAIN masters' : masters'[m].cd # Null =>
           \E n \in DOMAIN masters : masters[n].cd = masters'[m].cd
  BY ClaimedList
<1>2. pc' = "idle" /\ node' = 0
  BY DEF Return
<1>3. TypeOK'
  <2>1. node' \in 0 .. Len(masters')
    BY <1>1, <1>2
  <2> QED BY <1>1, <1>2, <2>1 DEF TypeOK
<1>4. UnderWay'
  BY <1>2 DEF UnderWay, Mapping, Unmapping
<1>5. \A m \in DOMAIN masters' : masters'[m].cd # Null => cds'[masters'[m].cd] # Nil
  BY <1>1
<1>6. Kept(r)
  BY <1>1 DEF Kept
<1>7. Listed(masters)'
  BY <1>1 DEF Listed
<1> QED BY <1>3, <1>4, <1>5, <1>6, <1>7

(* A stage 2 translation goes on to the stream table entry.                *)
LEMMA MapGoesOn2 ==
  ASSUME MasterInv, NoStreamZero, OneSmmu, NEW r \in Request, twoLevel' = twoLevel,
         MapStage2(r)
  PROVE  MasterInv' /\ Kept(r)
<1> USE DEF MasterInv
<1>1. /\ MapCall(r) /\ Accepted(r) /\ r.stage = "S2" /\ LinkLevel2(r) /\ masters' = Claimed(r)
      /\ pc' = "ste" /\ op' = r /\ node' = MasterIndex(r.sid)
      /\ UNCHANGED <<ste, cds, cache, want>>
  BY DEF MapStage2, Proceed
<1>2. /\ masters' \in Seq(Master) /\ Len(masters') <= MaxMasters /\ Listed(masters')
      /\ node' \in DOMAIN masters' /\ masters'[node'].smmu = r.smmu /\ masters'[node'].sid = r.sid
      /\ \A n \in DOMAIN masters :
           masters[n].sid # 0 => \E m \in DOMAIN masters' : masters'[m] = masters[n]
      /\ \A m \in DOMAIN masters' : masters'[m].cd # Null =>
           \E n \in DOMAIN masters : masters[n].cd = masters'[m].cd
  BY <1>1, ClaimedList
<1>3. /\ l1' \in [Smmus -> [L1s -> {"invalid", "valid", "junk"}]]
      /\ l2ptr' \in [Smmus -> [L1s -> BOOLEAN]]
  BY <1>1, Linked
<1>4. <<r.smmu, r.sid>> \in Streams
  BY RequestFields
<1>5. TypeOK'
  <2>1. node' \in 0 .. Len(masters')
    BY <1>2
  <2> QED BY <1>1, <1>2, <1>3, <2>1 DEF TypeOK
<1>6. UnderWay'
  BY <1>1, <1>2, <1>4 DEF UnderWay, Mapping, Unmapping, Accepted
<1>7. \A m \in DOMAIN masters' : masters'[m].cd # Null => cds'[masters'[m].cd] # Nil
  BY <1>1, <1>2
<1>8. Kept(r)
  BY <1>1, <1>2 DEF Kept
<1>9. Listed(masters)'
  BY <1>2 DEF Listed
<1> QED BY <1>1, <1>5, <1>6, <1>7, <1>8, <1>9

(* A stage 1 translation: the master has a table of context descriptors    *)
(* afterwards, its own or one that nobody has used.                        *)
LEMMA MapGoesOn1 ==
  ASSUME MasterInv, NoStreamZero, OneSmmu, NEW r \in Request, twoLevel' = twoLevel,
         MapStage1(r)
  PROVE  MasterInv' /\ Kept(r)
<1> USE DEF MasterInv
<1> DEFINE C == Claimed(r)
           k == MasterIndex(r.sid)
           old == TheMaster(r)
<1>1. /\ MapCall(r) /\ Accepted(r) /\ r.stage = "S1" /\ LinkLevel2(r)
      /\ UNCHANGED <<ste, cache, want>>
  BY DEF MapStage1
<1>2. PICK id \in IF TheMaster(r).cd = Null THEN FreeCds ELSE {TheMaster(r).cd} :
        LET table == IF TheMaster(r).cd = Null THEN [x \in Ssids |-> Fault] ELSE cds[id] IN
          /\ masters' = [Claimed(r) EXCEPT ![MasterIndex(r.sid)].cd = id]
          /\ \/ /\ SsidInRange(TheMaster(r), r)
                /\ cds' = [cds EXCEPT ![id] = [table EXCEPT ![r.ssid] = r.pgt]]
                /\ Proceed(r)
             \/ /\ ~SsidInRange(TheMaster(r), r)
                /\ cds' = [cds EXCEPT ![id] = table]
                /\ Return
  BY DEF MapStage1
<1> DEFINE table == IF old.cd = Null THEN [x \in Ssids |-> Fault] ELSE cds[id]
           new == [old EXCEPT !.cd = id]
<1>3. /\ C \in Seq(Master) /\ Len(C) <= MaxMasters /\ Listed(C) /\ k \in DOMAIN C
      /\ C[k] = old /\ old \in Master /\ old.smmu = r.smmu /\ old.sid = r.sid
      /\ \A n \in DOMAIN masters :
           masters[n].sid # 0 => \E m \in DOMAIN C : C[m] = masters[n]
      /\ \A m \in DOMAIN C : C[m].cd # Null =>
           \E n \in DOMAIN masters : masters[n].cd = C[m].cd
  BY <1>1, ClaimedList
<1>4. /\ r.smmu \in Smmus /\ r.sid \in Sids /\ r.sid # 0 /\ r.smmu # Null
      /\ <<r.smmu, r.sid>> \in Streams /\ r.ssid \in Ssids /\ r.pgt \in Pgts
  BY RequestFields, NullIsNone DEF NoStreamZero
<1>5. /\ id \in CdIds /\ (old.cd = Null => cds[id] = Nil) /\ (old.cd # Null => id = old.cd)
      /\ id # Null
  BY <1>2, <1>3, NullIsNone DEF FreeCds, Master
<1>6. old.cd # Null => cds[id] # Nil
  BY <1>3, <1>5
<1>7. table \in [Ssids -> Pgts \cup {Fault}]
  BY <1>5, <1>6 DEF TypeOK
<1>8. /\ masters' = Put(C, k, new)
      /\ \/ cds' = [cds EXCEPT ![id] = [table EXCEPT ![r.ssid] = r.pgt]] /\ Proceed(r)
         \/ cds' = [cds EXCEPT ![id] = table] /\ Return
  BY <1>2, <1>3 DEF Put
<1>9. new \in Master /\ new.smmu = r.smmu /\ new.sid = r.sid /\ new.cd = id
  BY <1>3, <1>5 DEF Master
<1> HIDE DEF C, k, old, table, new
<1>10. \A m \in DOMAIN C : m # k => C[m].sid # r.sid /\ C[m].cd # id
  <2> SUFFICES ASSUME NEW m \in DOMAIN C, m # k PROVE C[m].sid # r.sid /\ C[m].cd # id
    OBVIOUS
  <2>1. C[m].sid # r.sid
    BY <1>3, <1>4 DEF Listed
  <2>2. CASE old.cd # Null
    BY <1>3, <1>5, <2>1, <2>2 DEF Listed
  <2>3. CASE old.cd = Null
    BY <1>3, <1>5, <2>1, <2>3
  <2> QED BY <2>2, <2>3
<1>11. /\ masters' \in Seq(Master) /\ Listed(masters') /\ Len(masters') <= MaxMasters
       /\ DOMAIN masters' = DOMAIN C /\ k \in DOMAIN masters' /\ masters'[k] = new
       /\ \A m \in DOMAIN C : m # k => masters'[m] = C[m]
  <2>1. new.smmu # Null /\ new.sid # 0 /\ <<new.smmu, new.sid>> \in Streams
    BY <1>4, <1>9
  <2>2. \A m \in DOMAIN C : m # k => C[m].sid # new.sid /\ (new.cd # Null => C[m].cd # new.cd)
    BY <1>9, <1>10
  <2>3. C \in Seq(Master) /\ Listed(C) /\ k \in DOMAIN C /\ new \in Master
    BY <1>3, <1>9
  <2>4. /\ Put(C, k, new) \in Seq(Master) /\ Listed(Put(C, k, new))
        /\ Len(Put(C, k, new)) = Len(C) /\ DOMAIN Put(C, k, new) = DOMAIN C
        /\ Put(C, k, new)[k] = new /\ \A m \in DOMAIN C : m # k => Put(C, k, new)[m] = C[m]
    BY <2>1, <2>2, <2>3, Replaced
  <2> QED BY <1>3, <1>8, <2>4
<1>12. /\ cds' \in [CdIds -> [Ssids -> Pgts \cup {Fault}] \cup {Nil}]
       /\ cds'[id] \in [Ssids -> Pgts \cup {Fault}]
       /\ \A j \in CdIds : j # id => cds'[j] = cds[j]
       /\ pc' = "ste" => cds'[id][r.ssid] = r.pgt
       /\ pc' = "idle" => cds'[id] = table
  <2>1. CASE cds' = [cds EXCEPT ![id] = [table EXCEPT ![r.ssid] = r.pgt]] /\ Proceed(r)
    BY <1>4, <1>5, <1>7, <2>1 DEF TypeOK, Proceed
  <2>2. CASE cds' = [cds EXCEPT ![id] = table] /\ Return
    BY <1>5, <1>7, <2>2 DEF TypeOK, Return
  <2> QED BY <1>8, <2>1, <2>2
<1>13. \/ pc' = "ste" /\ op' = r /\ node' = k
       \/ pc' = "idle" /\ node' = 0
  BY <1>8 DEF Proceed, Return, k
<1>14. /\ l1' \in [Smmus -> [L1s -> {"invalid", "valid", "junk"}]]
       /\ l2ptr' \in [Smmus -> [L1s -> BOOLEAN]]
  BY <1>1, Linked
<1>15. TypeOK'
  <2>1. node' \in 0 .. Len(masters')
    BY <1>11, <1>13
  <2>2. pc' \in {"ste", "idle"}
    BY <1>13
  <2> QED BY <1>1, <1>11, <1>12, <1>14, <2>1, <2>2 DEF TypeOK
<1>16. UnderWay'
  <2>1. CASE pc' = "idle"
    BY <2>1 DEF UnderWay, Mapping, Unmapping
  <2>2. CASE pc' = "ste" /\ op' = r /\ node' = k
    BY <1>1, <1>4, <1>5, <1>9, <1>11, <1>12, <2>2 DEF UnderWay, Mapping, Unmapping, Accepted
  <2> QED BY <1>13, <2>1, <2>2
<1>17. \A m \in DOMAIN masters' : masters'[m].cd # Null => cds'[masters'[m].cd] # Nil
  <2>1. cds'[id] # Nil
    BY <1>12, TableNotNil
  <2> SUFFICES ASSUME NEW m \in DOMAIN masters', masters'[m].cd # Null
               PROVE  cds'[masters'[m].cd] # Nil
    OBVIOUS
  <2>2. CASE m = k
    BY <1>9, <1>11, <2>1, <2>2
  <2>3. CASE m # k
    <3>1. masters'[m] = C[m] /\ C[m].cd # id /\ C[m] \in Master
      BY <1>3, <1>10, <1>11, <2>3
    <3>2. PICK n \in DOMAIN masters : masters[n].cd = C[m].cd
      BY <1>3, <1>11, <3>1
    <3>3. C[m].cd \in CdIds /\ cds[C[m].cd] # Nil
      BY <3>1, <3>2 DEF Master
    <3> QED BY <1>12, <3>1, <3>3
  <2> QED BY <2>2, <2>3
<1>18. Kept(r)
  <2>1. ASSUME NEW n \in DOMAIN masters, masters[n].sid # 0
        PROVE  \E m \in DOMAIN masters' :
                 /\ masters'[m].smmu = masters[n].smmu /\ masters'[m].sid = masters[n].sid
                 /\ masters[n].cd # Null => masters'[m].cd = masters[n].cd
    <3>1. PICK m \in DOMAIN C : C[m] = masters[n]
      BY <1>3, <2>1
    <3>2. CASE m = k
      BY <1>3, <1>5, <1>9, <1>11, <3>1, <3>2
    <3>3. CASE m # k
      BY <1>11, <3>1, <3>3
    <3> QED BY <3>2, <3>3
  <2>2. ASSUME NEW n \in DOMAIN masters, masters[n].cd # Null,
               masters[n].sid # r.sid \/ pc' = "idle"
        PROVE  cds'[masters[n].cd] = cds[masters[n].cd]
    <3>1. masters[n].sid # 0 /\ masters[n].cd \in CdIds
      BY <2>2, MasterFields
    <3>2. PICK m \in DOMAIN C : C[m] = masters[n]
      BY <1>3, <3>1
    <3>3. CASE m # k
      BY <1>10, <1>12, <3>1, <3>2, <3>3
    <3>4. CASE m = k
      <4>1. pc' = "idle" /\ old.cd # Null /\ id = masters[n].cd
        BY <1>3, <1>5, <2>2, <3>2, <3>4
      <4> QED BY <1>12, <4>1 DEF table
    <3> QED BY <3>3, <3>4
  <2> QED BY <2>1, <2>2 DEF Kept
<1>19. Listed(masters)'
  BY <1>11 DEF Listed
<1> QED BY <1>1, <1>15, <1>16, <1>17, <1>18, <1>19

(* What val_smmu_map does to the level 1 descriptors and to everything     *)
(* else, however far it gets.                                              *)
LEMMA MapStep ==
  ASSUME MasterInv, NoStreamZero, OneSmmu, NEW r \in Request, twoLevel' = twoLevel, MapAny(r)
  PROVE  /\ MasterInv' /\ Kept(r) /\ Moved(r)
         /\ \A i \in Smmus, j \in L1s : l2ptr[i][j] => l2ptr'[i][j]
         /\ twoLevel /\ pc' = "ste" => l2ptr'[r.smmu][L1(r.sid)]
         /\ (\A i \in Smmus, j \in L1s : l2ptr[i][j] => l1[i][j] = "valid") =>
              (twoLevel => \A i \in Smmus, j \in L1s : l2ptr'[i][j] => l1'[i][j] = "valid")
<1> USE DEF MasterInv
<1>1. CASE MapRejected(r) \/ MapNoLevel2(r)
  <2>1. /\ MapCall(r) /\ masters' = Claimed(r) /\ Return
        /\ UNCHANGED <<ste, cds, cache, want>> /\ l1' = l1 /\ l2ptr' = l2ptr
    BY <1>1 DEF MapRejected, MapNoLevel2, tables
  <2>2. /\ l1' \in [Smmus -> [L1s -> {"invalid", "valid", "junk"}]]
        /\ l2ptr' \in [Smmus -> [L1s -> BOOLEAN]]
    BY <2>1 DEF TypeOK
  <2>3. MasterInv' /\ Kept(r)
    BY <2>1, <2>2, MapFails
  <2>4. Moved(r) /\ pc' # "ste"
    BY <2>1 DEF Moved, MapCall, Return
  <2> QED BY <2>1, <2>3, <2>4
<1>2. CASE MapStage2(r)
  <2>1. LinkLevel2(r) /\ Moved(r)
    BY <1>2 DEF MapStage2, Moved, MapCall
  <2>2. MasterInv' /\ Kept(r)
    BY <1>2, MapGoesOn2
  <2> QED BY <2>1, <2>2, Linked
<1>3. CASE MapNoCd(r)
  <2>1. /\ MapCall(r) /\ masters' = Claimed(r) /\ Return /\ LinkLevel2(r)
        /\ UNCHANGED <<ste, cds, cache, want>>
    BY <1>3 DEF MapNoCd
  <2>2. /\ l1' \in [Smmus -> [L1s -> {"invalid", "valid", "junk"}]]
        /\ l2ptr' \in [Smmus -> [L1s -> BOOLEAN]]
    BY <2>1, Linked
  <2>3. MasterInv' /\ Kept(r)
    BY <2>1, <2>2, MapFails
  <2>4. Moved(r)
    BY <2>1 DEF Moved, MapCall
  <2> QED BY <2>1, <2>3, <2>4, Linked
<1>4. CASE MapStage1(r)
  <2>1. LinkLevel2(r) /\ Moved(r)
    BY <1>4 DEF MapStage1, Moved, MapCall
  <2>2. MasterInv' /\ Kept(r)
    BY <1>4, MapGoesOn1
  <2> QED BY <2>1, <2>2, Linked
<1> QED BY <1>1, <1>2, <1>3, <1>4 DEF MapAny

----------------------------------------------------------------------------
(* The other steps keep the list and what is known of the call.            *)

(* A stream ID belongs to one SMMU.                                        *)
LEMMA SameSmmu ==
  ASSUME OneSmmu, NEW i, NEW j, NEW s, <<i, s>> \in Streams, <<j, s>> \in Streams
  PROVE  i = j
<1>1. <<i, s>>[2] = <<j, s>>[2] => <<i, s>>[1] = <<j, s>>[1]
  BY DEF OneSmmu
<1> QED BY <1>1

(* A stream the callers use is an SMMU and a stream ID.                    *)
LEMMA StreamType ==
  ASSUME NEW i, NEW s, <<i, s>> \in Streams PROVE i \in Smmus /\ s \in Sids
  BY SmmuMapAssumption

(* smmu_strtab_write_ste writes one entry.                                 *)
LEMMA WriteSteStep ==
  ASSUME MasterInv, WriteSte, twoLevel' = twoLevel
  PROVE  /\ MasterInv' /\ pc = "ste" /\ pc' = "mapInval"
         /\ UNCHANGED <<l1, l2ptr, cds, masters, cache, op, node, want>>
         /\ \A i \in Smmus, s \in Sids :
              ste'[i][s] = IF i = op.smmu /\ s = op.sid THEN NewSte ELSE ste[i][s]
         /\ NewSte \in Stes /\ NewSte.cfg # "abort"
<1> USE DEF MasterInv
<1>1. /\ pc = "ste" /\ pc' = "mapInval"
      /\ UNCHANGED <<l1, l2ptr, cds, masters, cache, op, node, want>>
      /\ ste' = [ste EXCEPT ![op.smmu] = [ste[op.smmu] EXCEPT ![op.sid] = NewSte]]
  BY DEF WriteSte, NewSte
<1>2. /\ op \in Request /\ node \in DOMAIN masters
      /\ op.stage = "S1" => masters[node].cd # Null
  BY <1>1 DEF UnderWay, Mapping
<1>3. op.smmu \in Smmus /\ op.sid \in Sids /\ op.pgt \in Pgts /\ op.stage \in {"S1", "S2"}
  BY <1>2, RequestFields DEF Stages
<1>4. NewSte \in Stes /\ NewSte.cfg # "abort"
  <2>1. CASE op.stage = "S2"
    <3>1. NewSte = S2Ste(op.pgt)
      BY <2>1 DEF NewSte
    <3> QED BY <1>3, <3>1, SteKinds DEF Stes
  <2>2. CASE op.stage = "S1"
    <3>1. NewSte = S1Ste(masters[node].cd)
      BY <2>2 DEF NewSte
    <3>2. masters[node].cd \in CdIds
      BY <1>2, <2>2, MasterFields
    <3> QED BY <3>1, <3>2, SteKinds DEF Stes
  <2> QED BY <1>3, <2>1, <2>2
<1>5. ste \in [Smmus -> [Sids -> Stes]]
  BY DEF TypeOK
<1> HIDE DEF MasterInv
<1>6. ste' \in [Smmus -> [Sids -> Stes]]
  BY <1>1, <1>3, <1>4, <1>5
<1>7. \A i \in Smmus, s \in Sids :
        ste'[i][s] = IF i = op.smmu /\ s = op.sid THEN NewSte ELSE ste[i][s]
  BY <1>1, <1>3, <1>5
<1>8. NewSte' = NewSte
  BY <1>1 DEF NewSte
<1>9. TypeOK'
  BY <1>1, <1>6 DEF TypeOK, MasterInv
<1>10. UnderWay'
  <2>1. ste'[op.smmu][op.sid] = NewSte
    BY <1>3, <1>7
  <2> QED BY <1>1, <1>8, <2>1 DEF UnderWay, Mapping, Unmapping, MasterInv
<1>11. Listed(masters)' <=> Listed(masters)
  BY <1>1 DEF Listed
<1>12. MasterInv'
  BY <1>1, <1>9, <1>10, <1>11 DEF MasterInv
<1> QED BY <1>1, <1>4, <1>7, <1>12

(* smmu_tlbi_cfgi for an SMMU leaves the caches of the others alone.       *)
LEMMA Invalidated ==
  ASSUME TypeOK, NEW a \in Smmus, Invalidate(a)
  PROVE  /\ cache' \in [Smmus -> [Sids -> [Ssids -> Pgts \cup {Fault}] \cup {Nil}]]
         /\ \A i \in Smmus, s \in Sids : cache'[i][s] = IF i = a THEN Nil ELSE cache[i][s]
  BY DEF TypeOK, Invalidate

(* The page table last asked for changes for one stream.                   *)
LEMMA Wanted ==
  ASSUME TypeOK, NEW a \in Smmus, NEW b \in Sids, NEW w \in [pgt : Pgts \cup {Fault}, ssid : Ssids],
         want' = [want EXCEPT ![a][b] = w]
  PROVE  /\ want' \in [Smmus -> [Sids -> [pgt : Pgts \cup {Fault}, ssid : Ssids]]]
         /\ \A i \in Smmus, s \in Sids :
              want'[i][s] = IF i = a /\ s = b THEN w ELSE want[i][s]
<1> DEFINE W == [pgt : Pgts \cup {Fault}, ssid : Ssids]
<1>1. want \in [Smmus -> [Sids -> W]] /\ w \in W
  BY DEF TypeOK
<1>2. want' = [want EXCEPT ![a] = [want[a] EXCEPT ![b] = w]]
  OBVIOUS
<1> HIDE DEF W
<1>3. want' \in [Smmus -> [Sids -> W]]
  BY <1>1, <1>2
<1>4. \A i \in Smmus, s \in Sids : want'[i][s] = IF i = a /\ s = b THEN w ELSE want[i][s]
  BY <1>1, <1>2
<1> QED BY <1>3, <1>4 DEF W

(* The mark of a stream that is not mapped.                                *)
LEMMA NoWantType == NoWant \in [pgt : Pgts \cup {Fault}, ssid : Ssids]
  BY DEF NoWant, Ssids

(* val_smmu_map returns success.                                           *)
LEMMA MapEndStep ==
  ASSUME MasterInv, MapEnd, twoLevel' = twoLevel
  PROVE  /\ MasterInv' /\ pc = "mapInval" /\ pc' = "idle"
         /\ UNCHANGED <<ste, l1, l2ptr, cds, masters>>
         /\ op \in Request
         /\ \A i \in Smmus, s \in Sids :
              cache'[i][s] = IF i = op.smmu THEN Nil ELSE cache[i][s]
         /\ \A i \in Smmus, s \in Sids :
              want'[i][s] = IF i = op.smmu /\ s = op.sid THEN [pgt |-> op.pgt, ssid |-> op.ssid]
                                                         ELSE want[i][s]
<1> USE DEF MasterInv
<1> DEFINE w == [pgt |-> op.pgt, ssid |-> op.ssid]
<1>1. /\ pc = "mapInval" /\ Invalidate(op.smmu) /\ want' = [want EXCEPT ![op.smmu][op.sid] = w]
      /\ pc' = "idle" /\ node' = 0 /\ UNCHANGED <<ste, l1, l2ptr, cds, masters>>
  BY DEF MapEnd, Return, tables
<1>2. op \in Request /\ op.sid < SidLimit
  BY <1>1 DEF UnderWay, Mapping
<1>3. op.smmu \in Smmus /\ op.sid \in Sids /\ <<op.smmu, op.sid>> \in Streams
      /\ w \in [pgt : Pgts \cup {Fault}, ssid : Ssids]
  BY <1>2, RequestFields
<1>4. /\ cache' \in [Smmus -> [Sids -> [Ssids -> Pgts \cup {Fault}] \cup {Nil}]]
      /\ \A i \in Smmus, s \in Sids : cache'[i][s] = IF i = op.smmu THEN Nil ELSE cache[i][s]
  BY <1>1, <1>3, Invalidated
<1>5. /\ want' \in [Smmus -> [Sids -> [pgt : Pgts \cup {Fault}, ssid : Ssids]]]
      /\ \A i \in Smmus, s \in Sids :
           want'[i][s] = IF i = op.smmu /\ s = op.sid THEN w ELSE want[i][s]
  BY <1>1, <1>3, Wanted
<1> HIDE DEF MasterInv
<1>6. TypeOK'
  <2>1. node' \in 0 .. Len(masters')
    BY <1>1 DEF MasterInv, TypeOK
  <2> QED BY <1>1, <1>4, <1>5, <2>1 DEF TypeOK, MasterInv
<1>7. UnderWay'
  BY <1>1 DEF UnderWay, Mapping, Unmapping
<1>8. Listed(masters)'
  BY <1>1 DEF Listed, MasterInv
<1>9. \A i \in Smmus, s \in Sids : want'[i][s] # NoWant => <<i, s>> \in Streams /\ s < SidLimit
  BY <1>2, <1>3, <1>5 DEF MasterInv
<1>10. MasterInv'
  BY <1>1, <1>6, <1>7, <1>8, <1>9 DEF MasterInv
<1> QED BY <1>1, <1>2, <1>4, <1>5, <1>10

(* val_smmu_unmap for a stream: it finds no master, or the stream lies     *)
(* beyond the table, and returns; or it writes the entry that aborts.      *)
UnmapMiss(i, sid) ==
  /\ pc' = "idle" /\ UNCHANGED <<ste, l1>>
  /\ sid >= SidLimit \/ ~Known(sid)
  /\ \A j \in Smmus, s \in Sids :
       want'[j][s] = IF j = i /\ s = sid THEN NoWant ELSE want[j][s]

UnmapHit(i, sid) ==
  /\ pc' = "free" /\ op'.sid = sid /\ op'.smmu = i /\ UNCHANGED want
  /\ WriteAbort(i, sid)

(* Which of the two it is, and that the list keeps its masters.            *)
LEMMA UnmapStartStep ==
  ASSUME MasterInv, NoStreamZero, OneSmmu, twoLevel' = twoLevel,
         NEW i, NEW sid, <<i, sid>> \in Streams, UnmapStart(i, sid)
  PROVE  /\ MasterInv' /\ pc = "idle" /\ UNCHANGED <<l2ptr, cds, cache>>
         /\ \A n \in DOMAIN masters : \E m \in DOMAIN masters' : masters'[m] = masters[n]
         /\ UnmapMiss(i, sid) \/ UnmapHit(i, sid)
<1> USE DEF MasterInv
<1> DEFINE M == MasterList(sid)
           k == MasterIndex(sid)
<1>1. i \in Smmus /\ sid \in Sids /\ sid # 0
  BY StreamType DEF NoStreamZero
<1>2. /\ pc = "idle" /\ MayAllocate(sid) /\ masters' = M /\ UNCHANGED <<l2ptr, cds, cache>>
      /\ \/ /\ M[k].smmu = Null \/ sid >= SidLimit
            /\ Unwant(i, sid) /\ UNCHANGED <<ste, l1, pc, op, node>>
         \/ /\ M[k].smmu # Null /\ sid < SidLimit /\ WriteAbort(M[k].smmu, sid)
            /\ pc' = "free" /\ op' = [smmu |-> i, sid |-> sid] /\ node' = k
            /\ UNCHANGED want
  BY DEF UnmapStart
<1>3. /\ M \in Seq(Master) /\ Len(M) <= MaxMasters /\ k \in DOMAIN M /\ Listed(M)
      /\ M[k] = ZeroMaster \/ M[k].sid = sid
      /\ \A n \in DOMAIN M : n # k => M[n].sid # sid
      /\ \A n \in DOMAIN masters : \E m \in DOMAIN M : M[m] = masters[n]
      /\ \A m \in DOMAIN M : M[m] = ZeroMaster \/ \E n \in DOMAIN masters : masters[n] = M[m]
  BY <1>1, <1>2, ListAt
<1> HIDE DEF M, k
<1>4. \A m \in DOMAIN masters' : masters'[m].cd # Null => cds'[masters'[m].cd] # Nil
  BY <1>2, <1>3, ZeroFields
<1>5. Listed(masters)'
  BY <1>2, <1>3 DEF Listed
<1>6. CASE /\ M[k].smmu = Null \/ sid >= SidLimit
           /\ Unwant(i, sid) /\ UNCHANGED <<ste, l1, pc, op, node>>
  <2>1. /\ want' \in [Smmus -> [Sids -> [pgt : Pgts \cup {Fault}, ssid : Ssids]]]
        /\ \A j \in Smmus, s \in Sids :
             want'[j][s] = IF j = i /\ s = sid THEN NoWant ELSE want[j][s]
    BY <1>1, <1>6, Wanted, NoWantType DEF Unwant
  <2>2. pc' = "idle"
    BY <1>2, <1>6
  <2>3. TypeOK'
    <3>1. node' \in 0 .. Len(masters')
      <4>1. node \in 0 .. Len(masters) /\ Len(masters) \in Nat /\ Len(M) \in Nat
        BY <1>3 DEF TypeOK
      <4>2. Len(masters) <= Len(M)
        <5>1. CASE Known(sid)
          BY <4>1, <5>1 DEF M, MasterList
        <5>2. CASE ~Known(sid)
          <6>1. M = <<ZeroMaster>> \o masters
            BY <5>2 DEF M, MasterList
          <6> QED BY <4>1, <6>1 DEF TypeOK
        <5> QED BY <5>1, <5>2
      <4> QED BY <1>2, <1>6, <4>1, <4>2
    <3> QED BY <1>2, <1>3, <1>6, <2>1, <3>1 DEF TypeOK
  <2>4. UnderWay'
    BY <2>2 DEF UnderWay, Mapping, Unmapping
  <2>5. \A j \in Smmus, s \in Sids : want'[j][s] # NoWant => <<j, s>> \in Streams /\ s < SidLimit
    BY <2>1
  <2>6. sid >= SidLimit \/ ~Known(sid)
    <3> SUFFICES ASSUME M[k].smmu = Null, Known(sid) PROVE FALSE
      BY <1>6
    <3>1. PICK n \in DOMAIN masters : masters[n].sid = sid
      BY DEF Known
    <3>2. PICK m \in DOMAIN M : M[m] = masters[n]
      BY <1>3
    <3>3. m = k
      BY <1>3, <3>1, <3>2
    <3> QED BY <1>1, <1>3, <3>1, <3>2, <3>3 DEF Listed
  <2>7. UnmapMiss(i, sid)
    BY <1>6, <2>1, <2>2, <2>6 DEF UnmapMiss
  <2> QED BY <1>2, <1>3, <1>4, <1>5, <2>3, <2>4, <2>5, <2>7
<1>7. CASE /\ M[k].smmu # Null /\ sid < SidLimit /\ WriteAbort(M[k].smmu, sid)
           /\ pc' = "free" /\ op' = [smmu |-> i, sid |-> sid] /\ node' = k
           /\ UNCHANGED want
  <2>1. M[k].sid = sid /\ <<M[k].smmu, M[k].sid>> \in Streams
    BY <1>3, <1>7, ZeroFields DEF Listed
  <2>2. M[k].smmu = i
    BY <2>1, SameSmmu
  <2>3. op'.smmu = i /\ op'.sid = sid
    BY <1>7
  <2>4. WriteAbort(i, sid)
    BY <1>7, <2>2
  <2>5. ste' \in [Smmus -> [Sids -> Stes]] /\ l1' \in [Smmus -> [L1s -> {"invalid", "valid", "junk"}]]
    <3>1. ste \in [Smmus -> [Sids -> Stes]] /\ l1 \in [Smmus -> [L1s -> {"invalid", "valid", "junk"}]]
          /\ Abort \in Stes
      BY DEF TypeOK, Stes
    <3>2. CASE ~twoLevel
      <4>1. ste' = [ste EXCEPT ![i] = [ste[i] EXCEPT ![sid] = Abort]] /\ l1' = l1
        BY <2>4, <3>2 DEF WriteAbort
      <4> QED BY <1>1, <3>1, <4>1
    <3>3. CASE twoLevel
      <4>1. ste' = ste
        BY <2>4, <3>3 DEF WriteAbort
      <4>2. l1' = [l1 EXCEPT ![i] = [j \in L1s |->
                     CASE j = DescPerSte * sid -> "junk"
                       [] j - DescPerSte * sid \in {1, 2} -> "invalid"
                       [] OTHER -> l1[i][j]]]
        BY <2>4, <3>3 DEF WriteAbort
      <4> QED BY <1>1, <3>1, <4>1, <4>2
    <3> QED BY <3>2, <3>3
  <2>6. TypeOK'
    <3>1. node' \in 0 .. Len(masters')
      BY <1>2, <1>3, <1>7
    <3> QED BY <1>2, <1>3, <1>7, <2>5, <3>1 DEF TypeOK
  <2>7. UnderWay'
    BY <1>2, <1>3, <1>7, <2>1, <2>2, <2>3 DEF UnderWay, Mapping, Unmapping
  <2>8. UnmapHit(i, sid)
    BY <1>7, <2>3, <2>4 DEF UnmapHit
  <2> QED BY <1>2, <1>3, <1>4, <1>5, <1>7, <2>6, <2>7, <2>8
<1> QED BY <1>2, <1>6, <1>7

(* A master is written over, and the others stay where they are.           *)
LEMMA PutFacts ==
  ASSUME NEW M \in Seq(Master), NEW k \in DOMAIN M, NEW x \in Master
  PROVE  /\ Put(M, k, x) \in Seq(Master) /\ Len(Put(M, k, x)) = Len(M)
         /\ DOMAIN Put(M, k, x) = DOMAIN M /\ Put(M, k, x)[k] = x
         /\ \A n \in DOMAIN M : n # k => Put(M, k, x)[n] = M[n]
  BY DEF Put

(* smmu_cdtab_free takes the table of the master of the call only.         *)
LEMMA UnmapFreeStep ==
  ASSUME MasterInv, UnmapFree, twoLevel' = twoLevel
  PROVE  /\ MasterInv' /\ pc = "free" /\ pc' = "unmapInval"
         /\ UNCHANGED <<ste, l1, l2ptr, cache, op, node, want>>
         /\ DOMAIN masters' = DOMAIN masters
         /\ \A n \in DOMAIN masters : masters[n].sid # op.sid =>
              /\ masters'[n] = masters[n]
              /\ masters[n].cd # Null => cds'[masters[n].cd] = cds[masters[n].cd]
<1> USE DEF MasterInv
<1> DEFINE id == masters[node].cd
           x == [masters[node] EXCEPT !.cd = Null]
<1>1. /\ pc = "free" /\ pc' = "unmapInval"
      /\ UNCHANGED <<ste, l1, l2ptr, cache, op, node, want>>
      /\ cds' = IF id = Null THEN cds ELSE [cds EXCEPT ![id] = Nil]
      /\ masters' = [masters EXCEPT ![node] = x]
  BY DEF UnmapFree
<1>2. /\ <<op.smmu, op.sid>> \in Streams /\ node \in DOMAIN masters
      /\ masters[node].smmu = op.smmu /\ masters[node].sid = op.sid
  BY <1>1 DEF UnderWay, Unmapping
<1>3. masters \in Seq(Master) /\ masters[node] \in Master
  BY <1>2 DEF TypeOK
<1>4. x \in Master /\ x.smmu = op.smmu /\ x.sid = op.sid /\ x.cd = Null
  BY <1>2, <1>3 DEF Master
<1>5. id \in CdIds \cup {Null}
  BY <1>3 DEF Master
<1>6. masters' = Put(masters, node, x)
  BY <1>1 DEF Put
<1> HIDE DEF x, id
<1>7. /\ masters' \in Seq(Master) /\ Len(masters') = Len(masters) /\ DOMAIN masters' = DOMAIN masters
      /\ masters'[node] = x /\ \A n \in DOMAIN masters : n # node => masters'[n] = masters[n]
  BY <1>2, <1>3, <1>4, <1>6, PutFacts
<1>8. op.smmu # Null /\ (masters[node].smmu = Null <=> masters[node].sid = 0)
  BY <1>2, StreamType, NullIsNone DEF Listed
<1>9. Listed(masters)'
  <2>1. \A n \in DOMAIN masters : n # node => masters[n].sid # op.sid
    BY <1>2, <1>8 DEF Listed
  <2>2. Listed(Put(masters, node, x))
    BY <1>2, <1>3, <1>4, <1>8, <2>1, Replaced
  <2> QED BY <1>6, <2>2 DEF Listed
<1>10. cds' \in [CdIds -> [Ssids -> Pgts \cup {Fault}] \cup {Nil}]
       /\ \A j \in CdIds : j # id => cds'[j] = cds[j]
  BY <1>1, <1>5 DEF TypeOK
<1>11. \A n \in DOMAIN masters : n # node /\ masters[n].cd # Null =>
         masters[n].cd \in CdIds /\ masters[n].cd # id
  BY <1>2, MasterFields DEF Listed, id
<1>12. \A n \in DOMAIN masters' : masters'[n].cd # Null => cds'[masters'[n].cd] # Nil
  BY <1>4, <1>7, <1>10, <1>11
<1>13. TypeOK'
  BY <1>1, <1>7, <1>10 DEF TypeOK
<1>14. UnderWay'
  BY <1>1, <1>2, <1>4, <1>7 DEF UnderWay, Mapping, Unmapping
<1>15. \A n \in DOMAIN masters : masters[n].sid # op.sid =>
         /\ masters'[n] = masters[n]
         /\ masters[n].cd # Null => cds'[masters[n].cd] = cds[masters[n].cd]
  BY <1>2, <1>7, <1>10, <1>11
<1>16. MasterInv'
  BY <1>1, <1>9, <1>12, <1>13, <1>14
<1> QED BY <1>1, <1>7, <1>15, <1>16

(* The master of the call is cleared, the others are left alone.           *)
LEMMA UnmapEndStep ==
  ASSUME MasterInv, UnmapEnd, twoLevel' = twoLevel
  PROVE  /\ MasterInv' /\ pc = "unmapInval" /\ pc' = "idle"
         /\ UNCHANGED <<ste, l1, l2ptr, cds>>
         /\ <<op.smmu, op.sid>> \in Streams
         /\ DOMAIN masters' = DOMAIN masters
         /\ \A n \in DOMAIN masters : masters[n].sid # op.sid => masters'[n] = masters[n]
         /\ \A i \in Smmus, s \in Sids :
              cache'[i][s] = IF i = op.smmu THEN Nil ELSE cache[i][s]
         /\ \A i \in Smmus, s \in Sids :
              want'[i][s] = IF i = op.smmu /\ s = op.sid THEN NoWant ELSE want[i][s]
<1> USE DEF MasterInv
<1>1. /\ pc = "unmapInval" /\ pc' = "idle" /\ node' = 0 /\ UNCHANGED <<ste, l1, l2ptr, cds>>
      /\ Invalidate(masters[node].smmu) /\ masters' = Put(masters, node, ZeroMaster)
      /\ Unwant(op.smmu, op.sid)
  BY DEF UnmapEnd, Return, tables, Put
<1>2. /\ <<op.smmu, op.sid>> \in Streams /\ node \in DOMAIN masters
      /\ masters[node].smmu = op.smmu /\ masters[node].sid = op.sid
  BY <1>1 DEF UnderWay, Unmapping
<1>3. op.smmu \in Smmus /\ op.sid \in Sids
  BY <1>2, StreamType
<1>4. /\ cache' \in [Smmus -> [Sids -> [Ssids -> Pgts \cup {Fault}] \cup {Nil}]]
      /\ \A i \in Smmus, s \in Sids : cache'[i][s] = IF i = op.smmu THEN Nil ELSE cache[i][s]
  BY <1>1, <1>2, <1>3, Invalidated
<1>5. /\ want' \in [Smmus -> [Sids -> [pgt : Pgts \cup {Fault}, ssid : Ssids]]]
      /\ \A i \in Smmus, s \in Sids :
           want'[i][s] = IF i = op.smmu /\ s = op.sid THEN NoWant ELSE want[i][s]
  BY <1>1, <1>3, Wanted, NoWantType DEF Unwant
<1>6. masters \in Seq(Master)
  BY DEF TypeOK
<1>7. /\ masters' \in Seq(Master) /\ Len(masters') = Len(masters) /\ DOMAIN masters' = DOMAIN masters
      /\ masters'[node] = ZeroMaster
      /\ \A n \in DOMAIN masters : n # node => masters'[n] = masters[n]
  BY <1>1, <1>2, <1>6, ZeroFields, PutFacts
<1>8. Listed(masters)'
  <2>1. \A n \in DOMAIN masters' :
          /\ masters'[n].smmu = Null <=> masters'[n].sid = 0
          /\ masters'[n].smmu = Null => masters'[n].cd = Null
          /\ masters'[n].smmu # Null => <<masters'[n].smmu, masters'[n].sid>> \in Streams
    BY <1>7, ZeroFields DEF Listed
  <2>2. ASSUME NEW m \in DOMAIN masters', NEW n \in DOMAIN masters', m # n
        PROVE  /\ masters'[m].sid # 0 => masters'[m].sid # masters'[n].sid
               /\ masters'[m].cd # Null => masters'[m].cd # masters'[n].cd
    <3>1. CASE m = node
      BY <1>7, <3>1, ZeroFields
    <3>2. CASE n = node
      BY <1>7, <3>2, ZeroFields
    <3>3. CASE m # node /\ n # node
      BY <1>7, <2>2, <3>3 DEF Listed
    <3> QED BY <3>1, <3>2, <3>3
  <2> QED BY <2>1, <2>2 DEF Listed
<1>9. \A n \in DOMAIN masters' : masters'[n].cd # Null => cds'[masters'[n].cd] # Nil
  BY <1>1, <1>7, ZeroFields
<1>10. TypeOK'
  <2>1. node' \in 0 .. Len(masters')
    BY <1>1, <1>6, <1>7
  <2> QED BY <1>1, <1>4, <1>5, <1>7, <2>1 DEF TypeOK
<1>11. UnderWay'
  BY <1>1 DEF UnderWay, Mapping, Unmapping
<1>12. \A i \in Smmus, s \in Sids : want'[i][s] # NoWant => <<i, s>> \in Streams /\ s < SidLimit
  BY <1>5
<1>13. MasterInv'
  BY <1>8, <1>9, <1>10, <1>11, <1>12
<1> QED BY <1>1, <1>2, <1>4, <1>5, <1>7, <1>13

(* What an SMMU finds is a table of outcomes.                              *)
LEMMA WalkType ==
  ASSUME MasterInv, NEW i \in Smmus, NEW s \in Sids
  PROVE  Walk(i, s) \in [Ssids -> Pgts \cup {Fault}]
<1> USE DEF MasterInv
<1> DEFINE e == Entry(i, s)
           out(x) == CASE e.cfg = "abort" -> Fault
                       [] e.cfg = "S2"    -> e.pgt
                       [] e.cfg = "S1"    -> IF cds[e.cd] = Nil THEN Fault ELSE cds[e.cd][x]
<1>1. e = Abort \/ e = ste[i][s]
  BY DEF Entry
<1>2. \/ e.cfg = "abort"
      \/ e.cfg = "S2" /\ e.pgt \in Pgts
      \/ e.cfg = "S1" /\ e.cd \in CdIds
  <2>1. CASE e = Abort
    BY <2>1, SteKinds
  <2>2. CASE e = ste[i][s]
    BY <2>2, SteType
  <2> QED BY <1>1, <2>1, <2>2
<1>3. Walk(i, s) = [x \in Ssids |-> out(x)]
  BY DEF Walk
<1> HIDE DEF e
<1>4. ASSUME NEW x \in Ssids PROVE out(x) \in Pgts \cup {Fault}
  <2>1. CASE e.cfg = "abort"
    BY <2>1
  <2>2. CASE e.cfg = "S2" /\ e.pgt \in Pgts
    BY <2>2
  <2>3. CASE e.cfg = "S1" /\ e.cd \in CdIds
    <3>1. cds[e.cd] = Nil \/ cds[e.cd] \in [Ssids -> Pgts \cup {Fault}]
      BY <2>3 DEF TypeOK
    <3> QED BY <2>3, <3>1
  <2> QED BY <1>2, <2>1, <2>2, <2>3
<1> HIDE DEF out
<1> QED BY <1>3, <1>4

(* An SMMU looks up a stream.                                              *)
LEMMA FetchStep ==
  ASSUME MasterInv, twoLevel' = twoLevel, NEW i \in Smmus, NEW s \in Sids, Fetch(i, s)
  PROVE  /\ MasterInv' /\ UNCHANGED <<ste, l1, l2ptr, cds, masters, pc, op, node, want>>
         /\ \A j \in Smmus, t \in Sids :
              cache'[j][t] = IF j = i /\ t = s THEN Walk(i, s) ELSE cache[j][t]
<1> USE DEF MasterInv
<1> DEFINE C == [Ssids -> Pgts \cup {Fault}] \cup {Nil}
           w == Walk(i, s)
<1>1. w \in C /\ cache \in [Smmus -> [Sids -> C]]
  BY WalkType DEF TypeOK
<1>2. /\ cache' = [cache EXCEPT ![i] = [cache[i] EXCEPT ![s] = w]]
      /\ UNCHANGED <<ste, l1, l2ptr, cds, masters, pc, op, node, want>>
  BY DEF Fetch, tables
<1> HIDE DEF C, w
<1>3. /\ cache' \in [Smmus -> [Sids -> C]]
      /\ \A j \in Smmus, t \in Sids : cache'[j][t] = IF j = i /\ t = s THEN w ELSE cache[j][t]
  BY <1>1, <1>2
<1>4. TypeOK'
  BY <1>2, <1>3 DEF TypeOK, C
<1>5. UnderWay' /\ Listed(masters)'
  BY <1>2 DEF UnderWay, Mapping, Unmapping, NewSte, Listed
<1>6. MasterInv'
  BY <1>2, <1>4, <1>5
<1> QED BY <1>2, <1>3, <1>6 DEF w

(* A step of nobody.                                                       *)
LEMMA StutterStep ==
  ASSUME UNCHANGED vars
  PROVE  /\ UNCHANGED <<twoLevel, ste, l1, l2ptr, cds, masters, cache, pc, op, node, want>>
         /\ (MasterInv' <=> MasterInv) /\ (Linear' <=> Linear) /\ (Reached' <=> Reached)
<1>1. UNCHANGED <<twoLevel, ste, l1, l2ptr, cds, masters, cache, pc, op, node, want>>
  BY DEF vars, tables
<1>2. MasterInv' <=> MasterInv
  BY <1>1 DEF MasterInv, TypeOK, UnderWay, Mapping, Unmapping, NewSte, Listed
<1>3. Linear' <=> Linear
  BY <1>1 DEF Linear, HasMaster, Silent, Settled, Unmapping
<1>4. Reached' <=> Reached
  BY <1>1 DEF Reached, Serving, Owns, Settled, Mapping
<1> QED BY <1>1, <1>2, <1>3, <1>4

(* No call has been made: there is no master.                              *)
LEMMA MasterInit == ASSUME Init PROVE MasterInv
<1> USE SmmuMapAssumption DEF Init
<1>1. masters = <<>> /\ Len(masters) = 0 /\ masters \in Seq(Master) /\ DOMAIN masters = {}
  OBVIOUS
<1>2. ste \in [Smmus -> [Sids -> Stes]]
  BY DEF Stes
<1>3. /\ want \in [Smmus -> [Sids -> [pgt : Pgts \cup {Fault}, ssid : Ssids]]]
      /\ \A i \in Smmus, s \in Sids : want[i][s] = NoWant
  BY NoWantType
<1>4. /\ l1 \in [Smmus -> [L1s -> {"invalid", "valid", "junk"}]]
      /\ l2ptr \in [Smmus -> [L1s -> BOOLEAN]]
  OBVIOUS
<1>5. /\ cds \in [CdIds -> [Ssids -> Pgts \cup {Fault}] \cup {Nil}]
      /\ cache \in [Smmus -> [Sids -> [Ssids -> Pgts \cup {Fault}] \cup {Nil}]]
  OBVIOUS
<1>6. TypeOK
  BY <1>1, <1>2, <1>3, <1>4, <1>5 DEF TypeOK
<1>7. UnderWay
  BY DEF UnderWay, Mapping, Unmapping
<1>8. Listed(masters)
  BY <1>1 DEF Listed
<1> QED BY <1>1, <1>3, <1>6, <1>7, <1>8 DEF MasterInv

(* The actions, by what is needed of the callers for each.                 *)
LEMMA Steps ==
  ASSUME Next
  PROVE  /\ twoLevel' = twoLevel
         /\ \/ \E r \in Request : MapAny(r)
            \/ WriteSte \/ MapEnd \/ UnmapFree \/ UnmapEnd
            \/ \E i, s : <<i, s>> \in Streams /\ UnmapStart(i, s)
            \/ \E i \in Smmus, s \in Sids : Fetch(i, s)
<1>1. ASSUME NEW t \in Streams, UnmapStart(t[1], t[2])
      PROVE  \E i, s : <<i, s>> \in Streams /\ UnmapStart(i, s)
  <2>1. t = <<t[1], t[2]>>
    BY SmmuMapAssumption
  <2> QED BY <1>1, <2>1
<1> QED BY <1>1 DEF Next, MapAny

----------------------------------------------------------------------------
(* The list of masters, and what the call under way is about.              *)
LEMMA MasterNext ==
  ASSUME MasterInv, NoStreamZero, OneSmmu, [Next]_vars PROVE MasterInv'
<1>1. CASE UNCHANGED vars
  BY <1>1, StutterStep
<1>2. CASE Next
  <2>1. twoLevel' = twoLevel
    BY <1>2, Steps
  <2>2. ASSUME NEW r \in Request, MapAny(r) PROVE MasterInv'
    BY <2>1, <2>2, MapStep
  <2>3. CASE WriteSte
    BY <2>1, <2>3, WriteSteStep
  <2>4. CASE MapEnd
    BY <2>1, <2>4, MapEndStep
  <2>5. CASE UnmapFree
    BY <2>1, <2>5, UnmapFreeStep
  <2>6. CASE UnmapEnd
    BY <2>1, <2>6, UnmapEndStep
  <2>7. ASSUME NEW i, NEW s, <<i, s>> \in Streams, UnmapStart(i, s) PROVE MasterInv'
    BY <2>1, <2>7, UnmapStartStep
  <2>8. ASSUME NEW i \in Smmus, NEW s \in Sids, Fetch(i, s) PROVE MasterInv'
    BY <2>1, <2>8, FetchStep
  <2> QED BY <1>2, <2>2, <2>3, <2>4, <2>5, <2>6, <2>7, <2>8, Steps
<1> QED BY <1>1, <1>2

----------------------------------------------------------------------------
(* Linear stream tables: the parts of the invariant for one stream.        *)
LinearAt(i, s) ==
  /\ ste[i][s].cfg # "abort" => HasMaster(i, s, ste[i][s])
  /\ Unmapping /\ s = op.sid => ste[i][s].cfg = "abort"
  /\ <<i, s>> \notin Streams \/ (Settled(i, s) /\ want[i][s] = NoWant) => Silent(i, s)
  /\ Settled(i, s) /\ want[i][s] # NoWant => ste[i][s].cfg # "abort"

(* A call for one stream begins: val_smmu_map has written no entry yet.    *)
LEMMA LinearMap ==
  ASSUME MasterInv, Linear, NoStreamZero, NEW r \in Request, Kept(r), Moved(r)
  PROVE  Linear'
<1> SUFFICES ASSUME NEW i \in Smmus, NEW s \in Sids PROVE LinearAt(i, s)'
  BY DEF Linear, LinearAt
<1>1. pc = "idle" /\ ste' = ste /\ cache' = cache /\ want' = want /\ ~Unmapping'
  BY DEF Moved, Return, Proceed, Unmapping
<1>2. LinearAt(i, s) /\ Settled(i, s)
  BY <1>1 DEF Linear, LinearAt, Settled
<1>3. ASSUME ste[i][s].cfg # "abort" PROVE HasMaster(i, s, ste[i][s])'
  <2>1. PICK n \in DOMAIN masters : /\ masters[n].smmu = i /\ masters[n].sid = s
                                    /\ ste[i][s].cfg = "S1" => masters[n].cd = ste[i][s].cd
    BY <1>2, <1>3 DEF LinearAt, HasMaster
  <2>2. PICK m \in DOMAIN masters' :
          /\ masters'[m].smmu = masters[n].smmu /\ masters'[m].sid = masters[n].sid
          /\ masters[n].cd # Null => masters'[m].cd = masters[n].cd
    BY <2>1 DEF Kept, NoStreamZero
  <2>3. ste[i][s].cfg = "S1" => masters[n].cd # Null
    BY <2>1, SteType, NullIsNone DEF MasterInv
  <2> QED BY <1>1, <2>1, <2>2, <2>3 DEF HasMaster
<1>4. Silent(i, s)' <=> Silent(i, s)
  BY <1>1 DEF Silent
<1> QED BY <1>1, <1>2, <1>3, <1>4 DEF LinearAt

(* The entry of the call is written while its master is there.             *)
LEMMA LinearWriteSte ==
  ASSUME MasterInv, Linear, twoLevel' = twoLevel, WriteSte PROVE Linear'
<1> SUFFICES ASSUME NEW i \in Smmus, NEW s \in Sids PROVE LinearAt(i, s)'
  BY DEF Linear, LinearAt
<1>1. /\ pc = "ste" /\ pc' = "mapInval" /\ UNCHANGED <<masters, cache, op, node, want>>
      /\ ste'[i][s] = IF i = op.smmu /\ s = op.sid THEN NewSte ELSE ste[i][s]
      /\ NewSte.cfg # "abort"
  BY WriteSteStep
<1>2. LinearAt(i, s)
  BY DEF Linear, LinearAt
<1>3. /\ node \in DOMAIN masters /\ masters[node].smmu = op.smmu /\ masters[node].sid = op.sid
      /\ <<op.smmu, op.sid>> \in Streams
  BY <1>1 DEF MasterInv, UnderWay, Mapping
<1>4. CASE i = op.smmu /\ s = op.sid
  <2>1. NewSte.cfg = "S1" => NewSte.cd = masters[node].cd
    BY SteKinds DEF NewSte
  <2>2. HasMaster(i, s, ste[i][s])'
    BY <1>1, <1>3, <1>4, <2>1 DEF HasMaster
  <2>3. ~Unmapping' /\ ~Settled(i, s)'
    BY <1>1, <1>4 DEF Unmapping, Settled
  <2> QED BY <1>1, <1>3, <1>4, <2>2, <2>3 DEF LinearAt
<1>5. CASE ~(i = op.smmu /\ s = op.sid)
  <2>1. ste'[i][s] = ste[i][s] /\ ~Unmapping' /\ (Settled(i, s)' <=> Settled(i, s))
    BY <1>1, <1>5 DEF Unmapping, Settled
  <2>2. (HasMaster(i, s, ste[i][s])' <=> HasMaster(i, s, ste[i][s])) /\ (Silent(i, s)' <=> Silent(i, s))
    BY <1>1, <2>1 DEF HasMaster, Silent
  <2> QED BY <1>1, <1>2, <2>1, <2>2 DEF LinearAt
<1> QED BY <1>4, <1>5

(* val_smmu_map returns: the entry of the stream is there.                 *)
LEMMA LinearMapEnd ==
  ASSUME MasterInv, Linear, OneSmmu, twoLevel' = twoLevel, MapEnd PROVE Linear'
<1> SUFFICES ASSUME NEW i \in Smmus, NEW s \in Sids PROVE LinearAt(i, s)'
  BY DEF Linear, LinearAt
<1>1. /\ pc = "mapInval" /\ pc' = "idle" /\ UNCHANGED <<ste, masters>> /\ op \in Request
      /\ cache'[i][s] = IF i = op.smmu THEN Nil ELSE cache[i][s]
      /\ want'[i][s] = IF i = op.smmu /\ s = op.sid THEN [pgt |-> op.pgt, ssid |-> op.ssid]
                                                     ELSE want[i][s]
      /\ MasterInv'
  BY MapEndStep
<1>2. LinearAt(i, s)
  BY DEF Linear, LinearAt
<1>3. ~Unmapping' /\ Settled(i, s)'
  BY <1>1 DEF Unmapping, Settled
<1>4. /\ HasMaster(i, s, ste[i][s])' <=> HasMaster(i, s, ste[i][s])
      /\ Silent(i, s) => Silent(i, s)'
  BY <1>1 DEF HasMaster, Silent
<1>5. CASE i = op.smmu /\ s = op.sid
  <2>1. want'[i][s] # NoWant /\ <<i, s>> \in Streams
    BY <1>1, <1>5, RequestFields DEF NoWant
  <2>2. ste[i][s].cfg # "abort"
    <3>1. ste[i][s] = NewSte
      BY <1>1, <1>5 DEF MasterInv, UnderWay
    <3> QED BY <3>1, SteKinds DEF NewSte
  <2> QED BY <1>1, <1>2, <1>3, <1>4, <2>1, <2>2 DEF LinearAt
<1>6. CASE s # op.sid
  <2>1. Settled(i, s) /\ want'[i][s] = want[i][s]
    BY <1>1, <1>6 DEF Settled
  <2> QED BY <1>1, <1>2, <1>3, <1>4, <2>1 DEF LinearAt
<1>7. CASE s = op.sid /\ i # op.smmu
  <2>1. <<i, s>> \notin Streams
    BY <1>1, <1>7, RequestFields, SameSmmu
  <2>2. want'[i][s] = NoWant
    BY <1>1, <2>1 DEF MasterInv
  <2> QED BY <1>1, <1>2, <1>3, <1>4, <2>1, <2>2 DEF LinearAt
<1> QED BY <1>5, <1>6, <1>7

(* val_smmu_unmap begins: the stream has no entry that translates, or its  *)
(* entry aborts afterwards.                                                *)
LEMMA LinearUnmapStart ==
  ASSUME MasterInv, Linear, NoStreamZero, OneSmmu, ~twoLevel, twoLevel' = twoLevel,
         NEW a, NEW b, <<a, b>> \in Streams, UnmapStart(a, b)
  PROVE  Linear'
<1> SUFFICES ASSUME NEW i \in Smmus, NEW s \in Sids PROVE LinearAt(i, s)'
  BY DEF Linear, LinearAt
<1>1. /\ pc = "idle" /\ UNCHANGED cache /\ MasterInv'
      /\ \A n \in DOMAIN masters : \E m \in DOMAIN masters' : masters'[m] = masters[n]
      /\ UnmapMiss(a, b) \/ UnmapHit(a, b)
  BY UnmapStartStep
<1>2. LinearAt(i, s) /\ Settled(i, s) /\ a \in Smmus /\ b \in Sids
  BY <1>1, StreamType DEF Linear, LinearAt, Settled
<1>3. HasMaster(i, s, ste[i][s]) => (ste'[i][s] = ste[i][s] => HasMaster(i, s, ste[i][s])')
  BY <1>1 DEF HasMaster
<1>4. CASE UnmapMiss(a, b)
  <2>1. /\ pc' = "idle" /\ ste' = ste /\ (b >= SidLimit \/ ~Known(b))
        /\ want'[i][s] = IF i = a /\ s = b THEN NoWant ELSE want[i][s]
    BY <1>4 DEF UnmapMiss
  <2>2. ~Unmapping' /\ Settled(i, s)' /\ (Silent(i, s)' <=> Silent(i, s))
    BY <1>1, <2>1 DEF Unmapping, Settled, Silent
  <2>3. CASE i = a /\ s = b
    <3>1. want[i][s] = NoWant
      <4>1. CASE b >= SidLimit
        BY <2>3, <4>1, SmmuMapAssumption DEF MasterInv
      <4>2. CASE ~Known(b)
        <5>1. ste[i][s].cfg = "abort"
          BY <1>2, <2>3, <4>2 DEF LinearAt, HasMaster, Known
        <5> QED BY <1>2, <5>1 DEF LinearAt
      <4> QED BY <2>1, <4>1, <4>2
    <3> QED BY <1>2, <1>3, <2>1, <2>2, <3>1 DEF LinearAt
  <2>4. CASE ~(i = a /\ s = b)
    BY <1>2, <1>3, <2>1, <2>2, <2>4 DEF LinearAt
  <2> QED BY <2>3, <2>4
<1>5. CASE UnmapHit(a, b)
  <2>1. /\ pc' = "free" /\ op'.sid = b /\ op'.smmu = a /\ UNCHANGED want
        /\ ste' = [ste EXCEPT ![a] = [ste[a] EXCEPT ![b] = Abort]]
    BY <1>5 DEF UnmapHit, WriteAbort
  <2>2. ste'[i][s] = IF i = a /\ s = b THEN Abort ELSE ste[i][s]
    BY <1>2, <2>1 DEF MasterInv, TypeOK
  <2>3. Settled(i, s)' <=> s # b
    BY <2>1 DEF Settled
  <2>4. Abort.cfg = "abort"
    BY SteKinds
  <2>5. CASE i = a /\ s = b
    BY <2>1, <2>2, <2>3, <2>4, <2>5 DEF LinearAt
  <2>6. CASE s # b
    <3>1. Silent(i, s)' <=> Silent(i, s)
      BY <1>1, <2>2, <2>6 DEF Silent
    <3> QED BY <1>2, <1>3, <2>1, <2>2, <2>6, <3>1 DEF LinearAt
  <2>7. CASE s = b /\ i # a
    <3>1. <<i, s>> \notin Streams
      BY <2>7, SameSmmu
    <3>2. Silent(i, s) /\ Silent(i, s)'
      BY <1>1, <1>2, <2>2, <2>7, <3>1 DEF LinearAt, Silent
    <3> QED BY <2>2, <2>3, <2>7, <3>2 DEF LinearAt, Silent
  <2> QED BY <2>5, <2>6, <2>7
<1> QED BY <1>1, <1>4, <1>5

(* The context descriptors go: no entry leads to them any more.            *)
LEMMA LinearUnmapFree ==
  ASSUME MasterInv, Linear, twoLevel' = twoLevel, UnmapFree PROVE Linear'
<1> SUFFICES ASSUME NEW i \in Smmus, NEW s \in Sids PROVE LinearAt(i, s)'
  BY DEF Linear, LinearAt
<1>1. /\ pc = "free" /\ pc' = "unmapInval" /\ UNCHANGED <<ste, cache, op, want>>
      /\ DOMAIN masters' = DOMAIN masters
      /\ \A n \in DOMAIN masters : masters[n].sid # op.sid => masters'[n] = masters[n]
  BY UnmapFreeStep
<1>2. LinearAt(i, s) /\ Unmapping
  BY <1>1 DEF Linear, LinearAt, Unmapping
<1>3. /\ Settled(i, s)' <=> Settled(i, s)
      /\ Silent(i, s)' <=> Silent(i, s)
      /\ ste[i][s].cfg # "abort" => HasMaster(i, s, ste[i][s])'
  BY <1>1, <1>2 DEF Settled, Silent, HasMaster, LinearAt
<1> QED BY <1>1, <1>2, <1>3 DEF LinearAt

(* The master is cleared: its entry aborts, and nothing is cached.         *)
LEMMA LinearUnmapEnd ==
  ASSUME MasterInv, Linear, OneSmmu, twoLevel' = twoLevel, UnmapEnd PROVE Linear'
<1> SUFFICES ASSUME NEW i \in Smmus, NEW s \in Sids PROVE LinearAt(i, s)'
  BY DEF Linear, LinearAt
<1>1. /\ pc = "unmapInval" /\ pc' = "idle" /\ UNCHANGED ste /\ <<op.smmu, op.sid>> \in Streams
      /\ DOMAIN masters' = DOMAIN masters
      /\ \A n \in DOMAIN masters : masters[n].sid # op.sid => masters'[n] = masters[n]
      /\ cache'[i][s] = IF i = op.smmu THEN Nil ELSE cache[i][s]
      /\ want'[i][s] = IF i = op.smmu /\ s = op.sid THEN NoWant ELSE want[i][s]
      /\ MasterInv'
  BY UnmapEndStep
<1>2. LinearAt(i, s) /\ Unmapping /\ ~Unmapping' /\ Settled(i, s)'
  BY <1>1 DEF Linear, LinearAt, Unmapping, Settled
<1>3. /\ Silent(i, s) => Silent(i, s)'
      /\ ste[i][s].cfg # "abort" => HasMaster(i, s, ste[i][s])'
  BY <1>1, <1>2 DEF Silent, HasMaster, LinearAt
<1>4. CASE i = op.smmu /\ s = op.sid
  <2>1. Silent(i, s)'
    BY <1>1, <1>2, <1>4 DEF Silent, LinearAt
  <2> QED BY <1>1, <1>2, <1>3, <1>4, <2>1 DEF LinearAt
<1>5. CASE s # op.sid
  <2>1. Settled(i, s) /\ want'[i][s] = want[i][s]
    BY <1>1, <1>5 DEF Settled
  <2> QED BY <1>1, <1>2, <1>3, <2>1 DEF LinearAt
<1>6. CASE s = op.sid /\ i # op.smmu
  <2>1. <<i, s>> \notin Streams
    BY <1>1, <1>6, SameSmmu
  <2>2. want'[i][s] = NoWant
    BY <1>1, <2>1 DEF MasterInv
  <2> QED BY <1>1, <1>2, <1>3, <2>1, <2>2 DEF LinearAt
<1> QED BY <1>4, <1>5, <1>6

(* What aborts is cached as such.                                          *)
LEMMA WalkAborts ==
  ASSUME NEW i \in Smmus, NEW s \in Sids, ste[i][s].cfg = "abort"
  PROVE  \A x \in Ssids : Walk(i, s)[x] = Fault
<1>1. Entry(i, s).cfg = "abort"
  BY SteKinds DEF Entry
<1> QED BY <1>1 DEF Walk

(* What an SMMU caches for a silent stream is silent.                      *)
LEMMA LinearFetch ==
  ASSUME MasterInv, Linear, twoLevel' = twoLevel, NEW a \in Smmus, NEW b \in Sids, Fetch(a, b)
  PROVE  Linear'
<1> SUFFICES ASSUME NEW i \in Smmus, NEW s \in Sids PROVE LinearAt(i, s)'
  BY DEF Linear, LinearAt
<1>1. /\ UNCHANGED <<ste, masters, pc, op, want>>
      /\ cache'[i][s] = IF i = a /\ s = b THEN Walk(a, b) ELSE cache[i][s]
  BY FetchStep
<1>2. LinearAt(i, s)
  BY DEF Linear, LinearAt
<1>3. /\ Settled(i, s)' <=> Settled(i, s)
      /\ Unmapping' <=> Unmapping
      /\ HasMaster(i, s, ste[i][s])' <=> HasMaster(i, s, ste[i][s])
  BY <1>1 DEF Settled, HasMaster, Unmapping
<1>4. Silent(i, s) => Silent(i, s)'
  BY <1>1, WalkAborts DEF Silent
<1> QED BY <1>1, <1>2, <1>3, <1>4 DEF LinearAt

(* Every step keeps the invariant of linear tables.                        *)
LEMMA LinearNext ==
  ASSUME LinearInv, NoStreamZero, OneSmmu, [Next]_vars PROVE LinearInv'
<1>1. MasterInv /\ MasterInv'
  BY MasterNext DEF LinearInv
<1> SUFFICES ASSUME ~twoLevel' PROVE Linear'
  BY <1>1 DEF LinearInv
<1>2. CASE UNCHANGED vars
  BY <1>2, StutterStep DEF LinearInv
<1>3. CASE Next
  <2>1. twoLevel' = twoLevel /\ ~twoLevel /\ Linear
    BY <1>3, Steps DEF LinearInv
  <2>2. ASSUME NEW r \in Request, MapAny(r) PROVE Linear'
    BY <1>1, <2>1, <2>2, MapStep, LinearMap
  <2>3. CASE WriteSte
    BY <1>1, <2>1, <2>3, LinearWriteSte
  <2>4. CASE MapEnd
    BY <1>1, <2>1, <2>4, LinearMapEnd
  <2>5. CASE UnmapFree
    BY <1>1, <2>1, <2>5, LinearUnmapFree
  <2>6. CASE UnmapEnd
    BY <1>1, <2>1, <2>6, LinearUnmapEnd
  <2>7. ASSUME NEW i, NEW s, <<i, s>> \in Streams, UnmapStart(i, s) PROVE Linear'
    BY <1>1, <2>1, <2>7, LinearUnmapStart
  <2>8. ASSUME NEW i \in Smmus, NEW s \in Sids, Fetch(i, s) PROVE Linear'
    BY <1>1, <2>1, <2>8, LinearFetch
  <2> QED BY <1>3, <2>2, <2>3, <2>4, <2>5, <2>6, <2>7, <2>8, Steps
<1> QED BY <1>2, <1>3

(* At first every entry aborts and nothing is cached.                      *)
LEMMA LinearInit == ASSUME Init PROVE LinearInv
<1>1. MasterInv
  BY MasterInit
<1>2. ASSUME NEW i \in Smmus, NEW s \in Sids PROVE LinearAt(i, s)
  <2>1. ste[i][s] = Abort /\ cache[i][s] = Nil /\ want[i][s] = NoWant
    BY DEF Init
  <2> QED BY <2>1, SteKinds DEF LinearAt, Silent
<1>3. Linear
  BY <1>2 DEF Linear, LinearAt
<1> QED BY <1>1, <1>3 DEF LinearInv

(* What holds of linear stream tables at every moment: an entry that       *)
(* translates has its master, and a stream nobody has mapped is silent.    *)
THEOREM LinearTables == NoStreamZero /\ OneSmmu => (Spec => []LinearInv)
<1> SUFFICES ASSUME NoStreamZero, OneSmmu PROVE Spec => []LinearInv
  OBVIOUS
<1>1. Init => LinearInv
  BY LinearInit
<1>2. LinearInv /\ [Next]_vars => LinearInv'
  BY LinearNext
<1> QED BY <1>1, <1>2, PTL DEF Spec

(* val_smmu_unmap frees context descriptors only after no entry of the     *)
(* linear stream table leads to them, whichever stream they belong to.     *)
THEOREM NeverDangling == NoStreamZero /\ OneSmmu => (Spec => []NoDanglingCd)
<1> SUFFICES ASSUME NoStreamZero, OneSmmu PROVE Spec => []NoDanglingCd
  OBVIOUS
<1>1. LinearInv => NoDanglingCd
  <2> SUFFICES ASSUME LinearInv, ~twoLevel, NEW i \in Smmus, NEW s \in Sids,
                      Entry(i, s).cfg = "S1"
               PROVE  cds[Entry(i, s).cd] # Nil
    BY DEF NoDanglingCd
  <2>1. Entry(i, s) = ste[i][s] /\ ste[i][s].cfg = "S1"
    BY SteKinds DEF Entry
  <2>2. PICK n \in DOMAIN masters : masters[n].cd = ste[i][s].cd
    BY <2>1 DEF LinearInv, Linear, HasMaster
  <2>3. masters[n].cd # Null
    BY <2>1, <2>2, SteType, NullIsNone DEF LinearInv, MasterInv
  <2> QED BY <2>1, <2>2, <2>3 DEF LinearInv, MasterInv
<1>2. Spec => []LinearInv
  BY LinearTables
<1> QED BY <1>1, <1>2, PTL

(* With a linear stream table, no transaction of a stream is translated    *)
(* once val_smmu_unmap has returned for it, or before val_smmu_map has.    *)
THEOREM UnmappedIsSilent == NoStreamZero /\ OneSmmu => (Spec => []LinearUnmappedAbort)
<1> SUFFICES ASSUME NoStreamZero, OneSmmu PROVE Spec => []LinearUnmappedAbort
  OBVIOUS
<1>1. LinearInv => LinearUnmappedAbort
  <2> SUFFICES ASSUME LinearInv, ~twoLevel, NEW i \in Smmus, NEW s \in Sids,
                      Settled(i, s), want[i][s] = NoWant, NEW x \in Ssids
               PROVE  Effective(i, s)[x] = Fault
    BY DEF LinearUnmappedAbort, UnmappedAbort
  <2>1. Silent(i, s)
    BY DEF LinearInv, Linear
  <2> QED BY <2>1, WalkAborts DEF Silent, Effective
<1>2. Spec => []LinearInv
  BY LinearTables
<1> QED BY <1>1, <1>2, PTL

----------------------------------------------------------------------------
(* Streams that are mapped, whatever the table: the parts for one stream.  *)
Linked2 == twoLevel => \A i \in Smmus, j \in L1s : l2ptr[i][j] => l1[i][j] = "valid"
MapLinked == twoLevel /\ Mapping => l2ptr[op.smmu][L1(op.sid)]
ServedAt(i, s) == Settled(i, s) /\ want[i][s] # NoWant => Serving(i, s)

(* The parts after a step.                                                 *)
LEMMA ReachedPartsNext ==
  Reached' <=> Linked2' /\ MapLinked' /\ \A i \in Smmus, s \in Sids : ServedAt(i, s)'
  BY DEF Reached, Linked2, MapLinked, ServedAt

(* The level 1 descriptor of a stream.                                     *)
LEMMA L1Type == ASSUME NEW s \in Sids PROVE L1(s) \in L1s
  BY DEF L1s

(* A stream stays served when its entry, the table behind it and the page  *)
(* table asked for stay, and what is cached stays or goes.                 *)
LEMMA StillServed ==
  ASSUME NEW i \in Smmus, NEW s \in Sids, Serving(i, s), twoLevel' = twoLevel,
         twoLevel => (l2ptr[i][L1(s)] => l2ptr'[i][L1(s)]),
         ste'[i][s] = ste[i][s], want'[i][s] = want[i][s],
         cache'[i][s] = cache[i][s] \/ cache'[i][s] = Nil,
         \A id \in CdIds : Owns(s, id) => Owns(s, id)' /\ cds'[id] = cds[id]
  PROVE  Serving(i, s)'
<1>1. CASE ste[i][s] = S2Ste(want[i][s].pgt)
  BY <1>1 DEF Serving
<1>2. CASE \E id \in CdIds : /\ ste[i][s] = S1Ste(id) /\ Owns(s, id)
                             /\ cds[id][want[i][s].ssid] = want[i][s].pgt
  BY <1>2 DEF Serving
<1> QED BY <1>1, <1>2 DEF Serving

(* A stream that is served is translated to the page table asked for.      *)
LEMMA ServedWalk ==
  ASSUME MasterInv, Linked2, NEW i \in Smmus, NEW s \in Sids, want[i][s] # NoWant, Serving(i, s)
  PROVE  Walk(i, s)[want[i][s].ssid] = want[i][s].pgt
<1> DEFINE w == want[i][s]
<1>1. s < SidLimit /\ w.ssid \in Ssids
  BY DEF MasterInv, TypeOK
<1>2. Entry(i, s) = ste[i][s]
  <2>1. ~(s >= SidLimit)
    BY <1>1, SmmuMapAssumption
  <2>2. twoLevel => l1[i][L1(s)] = "valid"
    BY L1Type DEF Serving, Linked2
  <2> QED BY <2>1, <2>2 DEF Entry
<1>3. CASE ste[i][s] = S2Ste(w.pgt)
  <2>1. Entry(i, s).cfg = "S2" /\ Entry(i, s).pgt = w.pgt
    BY <1>2, <1>3, SteKinds
  <2> QED BY <1>1, <2>1 DEF Walk
<1>4. CASE \E id \in CdIds : /\ ste[i][s] = S1Ste(id) /\ Owns(s, id)
                             /\ cds[id][w.ssid] = w.pgt
  <2>1. PICK id \in CdIds : /\ ste[i][s] = S1Ste(id) /\ Owns(s, id) /\ cds[id][w.ssid] = w.pgt
    BY <1>4
  <2>2. Entry(i, s).cfg = "S1" /\ Entry(i, s).cd = id
    BY <1>2, <2>1, SteKinds
  <2>3. cds[id] # Nil
    BY <2>1, NullIsNone DEF Owns, MasterInv
  <2> QED BY <1>1, <2>1, <2>2, <2>3 DEF Walk
<1> QED BY <1>3, <1>4 DEF Serving

(* val_smmu_map for one stream leaves the others served.                   *)
LEMMA ReachedMap ==
  ASSUME MasterInv, Reached, NoStreamZero, OneSmmu, twoLevel' = twoLevel,
         NEW r \in Request, MapAny(r)
  PROVE  Reached'
<1>1. /\ Kept(r) /\ Moved(r)
      /\ \A i \in Smmus, j \in L1s : l2ptr[i][j] => l2ptr'[i][j]
      /\ twoLevel /\ pc' = "ste" => l2ptr'[r.smmu][L1(r.sid)]
      /\ (\A i \in Smmus, j \in L1s : l2ptr[i][j] => l1[i][j] = "valid") =>
           (twoLevel => \A i \in Smmus, j \in L1s : l2ptr'[i][j] => l1'[i][j] = "valid")
  BY MapStep
<1>2. /\ pc = "idle" /\ UNCHANGED <<ste, cache, want>>
      /\ pc' = "idle" \/ (pc' = "ste" /\ op' = r)
  BY <1>1 DEF Moved, Return, Proceed
<1>3. Linked2'
  BY <1>1 DEF Linked2, Reached
<1>4. MapLinked'
  BY <1>1, <1>2 DEF MapLinked, Mapping
<1>5. ASSUME NEW i \in Smmus, NEW s \in Sids PROVE ServedAt(i, s)'
  <2> SUFFICES ASSUME Settled(i, s)', want'[i][s] # NoWant PROVE Serving(i, s)'
    BY DEF ServedAt
  <2>1. Serving(i, s)
    BY <1>2 DEF Reached, Settled
  <2>2. pc' = "idle" \/ s # r.sid
    BY <1>2 DEF Settled
  <2>3. ASSUME NEW id \in CdIds, Owns(s, id) PROVE Owns(s, id)' /\ cds'[id] = cds[id]
    <3>1. PICK n \in DOMAIN masters : masters[n].sid = s /\ masters[n].cd = id
      BY <2>3 DEF Owns
    <3>2. s # 0 /\ id # Null
      BY NullIsNone DEF NoStreamZero
    <3>3. \E m \in DOMAIN masters' : masters'[m].sid = s /\ masters'[m].cd = id
      BY <1>1, <3>1, <3>2 DEF Kept
    <3>4. cds'[id] = cds[id]
      BY <1>1, <2>2, <3>1, <3>2 DEF Kept
    <3> QED BY <3>3, <3>4 DEF Owns
  <2>4. l2ptr[i][L1(s)] => l2ptr'[i][L1(s)]
    BY <1>1, L1Type
  <2> QED BY <1>2, <2>1, <2>3, <2>4, StillServed
<1> QED BY <1>3, <1>4, <1>5, ReachedPartsNext

(* So does smmu_strtab_write_ste.                                          *)
LEMMA ReachedWriteSte ==
  ASSUME MasterInv, Reached, twoLevel' = twoLevel, WriteSte PROVE Reached'
<1>1. /\ pc = "ste" /\ pc' = "mapInval"
      /\ UNCHANGED <<l1, l2ptr, cds, masters, cache, op, node, want>>
      /\ \A i \in Smmus, s \in Sids :
           ste'[i][s] = IF i = op.smmu /\ s = op.sid THEN NewSte ELSE ste[i][s]
  BY WriteSteStep
<1>2. Linked2' /\ MapLinked'
  BY <1>1 DEF Linked2, MapLinked, Mapping, Reached
<1>3. ASSUME NEW i \in Smmus, NEW s \in Sids PROVE ServedAt(i, s)'
  <2> SUFFICES ASSUME Settled(i, s)', want'[i][s] # NoWant PROVE Serving(i, s)'
    BY DEF ServedAt
  <2>1. Settled(i, s) /\ s # op.sid
    BY <1>1 DEF Settled
  <2>2. Serving(i, s) /\ ste'[i][s] = ste[i][s]
    BY <1>1, <2>1 DEF Reached
  <2>3. \A id \in CdIds : Owns(s, id) => Owns(s, id)'
    BY <1>1 DEF Owns
  <2> QED BY <1>1, <2>2, <2>3, StillServed
<1> QED BY <1>2, <1>3, ReachedPartsNext

(* A stream is served when val_smmu_map returns success for it.            *)
LEMMA ReachedMapEnd ==
  ASSUME MasterInv, Reached, OneSmmu, twoLevel' = twoLevel, MapEnd PROVE Reached'
<1>1. /\ pc = "mapInval" /\ pc' = "idle" /\ UNCHANGED <<ste, l1, l2ptr, cds, masters>>
      /\ op \in Request /\ MasterInv'
      /\ \A i \in Smmus, s \in Sids :
           cache'[i][s] = IF i = op.smmu THEN Nil ELSE cache[i][s]
      /\ \A i \in Smmus, s \in Sids :
           want'[i][s] = IF i = op.smmu /\ s = op.sid THEN [pgt |-> op.pgt, ssid |-> op.ssid]
                                                      ELSE want[i][s]
  BY MapEndStep
<1>2. Linked2' /\ MapLinked'
  BY <1>1 DEF Linked2, MapLinked, Mapping, Reached
<1>3. ASSUME NEW i \in Smmus, NEW s \in Sids PROVE ServedAt(i, s)'
  <2> SUFFICES ASSUME want'[i][s] # NoWant PROVE Serving(i, s)'
    BY DEF ServedAt
  <2>1. CASE i = op.smmu /\ s = op.sid
    <3>1. want'[i][s].pgt = op.pgt /\ want'[i][s].ssid = op.ssid /\ cache'[i][s] = Nil
      BY <1>1, <2>1
    <3>2. twoLevel' => l2ptr'[i][L1(s)]
      BY <1>1, <2>1 DEF Reached, Mapping
    <3>3. /\ ste[i][s] = NewSte /\ node \in DOMAIN masters /\ masters[node].sid = s
          /\ op.stage = "S1" => /\ masters[node].cd # Null
                                /\ cds[masters[node].cd][op.ssid] = op.pgt
      BY <1>1, <2>1 DEF MasterInv, UnderWay, Mapping
    <3>4. CASE op.stage = "S2"
      BY <1>1, <3>1, <3>2, <3>3, <3>4 DEF Serving, NewSte
    <3>5. CASE op.stage = "S1"
      <4>1. PICK id \in CdIds : id = masters[node].cd
        BY <3>3, <3>5, MasterFields DEF MasterInv
      <4>2. Owns(s, id)'
        BY <1>1, <3>3, <4>1 DEF Owns
      <4>3. ste'[i][s] = S1Ste(id) /\ cds'[id][op.ssid] = op.pgt
        BY <1>1, <3>3, <3>5, <4>1 DEF NewSte
      <4> QED BY <3>1, <3>2, <4>1, <4>2, <4>3 DEF Serving
    <3> QED BY <1>1, <3>4, <3>5, RequestFields DEF Stages
  <2>2. CASE s # op.sid
    <3>1. Serving(i, s)
      BY <1>1, <2>2 DEF Reached, Settled
    <3>2. \A id \in CdIds : Owns(s, id) => Owns(s, id)'
      BY <1>1 DEF Owns
    <3> QED BY <1>1, <2>2, <3>1, <3>2, StillServed
  <2>3. CASE s = op.sid /\ i # op.smmu
    <3>1. <<i, s>> \in Streams /\ <<op.smmu, op.sid>> \in Streams
      BY <1>1, RequestFields DEF MasterInv
    <3> QED BY <2>3, <3>1, SameSmmu
  <2> QED BY <2>1, <2>2, <2>3
<1> QED BY <1>2, <1>3, ReachedPartsNext

(* The abort entry misses every descriptor in use.                         *)
LEMMA ReachedUnmapStart ==
  ASSUME MasterInv, Reached, NoStreamZero, OneSmmu, Apart, twoLevel' = twoLevel,
         NEW a, NEW b, <<a, b>> \in Streams, UnmapStart(a, b)
  PROVE  Reached'
<1>1. /\ pc = "idle" /\ UNCHANGED <<l2ptr, cds, cache>> /\ a \in Smmus /\ b \in Sids
      /\ \A n \in DOMAIN masters : \E m \in DOMAIN masters' : masters'[m] = masters[n]
      /\ UnmapMiss(a, b) \/ UnmapHit(a, b)
  BY UnmapStartStep, StreamType
<1>2. MapLinked'
  BY <1>1 DEF MapLinked, Mapping, UnmapMiss, UnmapHit
<1>3. \A s, id : Owns(s, id) => Owns(s, id)'
  BY <1>1 DEF Owns
<1>4. twoLevel => l1' = l1
  <2> SUFFICES ASSUME twoLevel, UnmapHit(a, b) PROVE l1' = l1
    BY <1>1 DEF UnmapMiss
  <2>1. l1' = [l1 EXCEPT ![a] = [j \in L1s |->
                 CASE j = DescPerSte * b -> "junk"
                   [] j - DescPerSte * b \in {1, 2} -> "invalid"
                   [] OTHER -> l1[a][j]]]
    BY DEF UnmapHit, WriteAbort
  <2>2. ASSUME NEW j \in L1s PROVE j # DescPerSte * b /\ j - DescPerSte * b \notin {1, 2}
    <3>1. PICK s \in Sids : j = L1(s)
      BY DEF L1s
    <3>2. j - DescPerSte * b \notin {0, 1, 2}
      BY <1>1, <3>1 DEF Apart, MasterInv, TypeOK
    <3>3. j \in Int /\ DescPerSte * b \in Int
      BY <1>1, <3>1, SmmuMapAssumption DEF L1, DescPerSte
    <3> HIDE DEF DescPerSte
    <3> QED BY <3>2, <3>3
  <2>3. [j \in L1s |-> CASE j = DescPerSte * b -> "junk"
                         [] j - DescPerSte * b \in {1, 2} -> "invalid"
                         [] OTHER -> l1[a][j]] = [j \in L1s |-> l1[a][j]]
    BY <2>2
  <2>4. l1 \in [Smmus -> [L1s -> {"invalid", "valid", "junk"}]]
    BY DEF MasterInv, TypeOK
  <2>5. [j \in L1s |-> l1[a][j]] = l1[a]
    BY <1>1, <2>4
  <2> QED BY <1>1, <2>1, <2>3, <2>4, <2>5
<1>5. Linked2'
  BY <1>1, <1>4 DEF Linked2, Reached
<1>6. ASSUME NEW i \in Smmus, NEW s \in Sids PROVE ServedAt(i, s)'
  <2> SUFFICES ASSUME Settled(i, s)', want'[i][s] # NoWant PROVE Serving(i, s)'
    BY DEF ServedAt
  <2>1. CASE UnmapMiss(a, b)
    <3>1. want'[i][s] = want[i][s] /\ ste' = ste
      BY <2>1 DEF UnmapMiss
    <3>2. Serving(i, s)
      BY <1>1, <3>1 DEF Reached, Settled
    <3> QED BY <1>1, <1>3, <3>1, <3>2, StillServed
  <2>2. CASE UnmapHit(a, b)
    <3>1. want' = want /\ s # b
      BY <2>2 DEF UnmapHit, Settled
    <3>2. Serving(i, s)
      BY <1>1, <3>1 DEF Reached, Settled
    <3>3. ste'[i][s] = ste[i][s]
      <4>1. CASE twoLevel
        BY <2>2, <4>1 DEF UnmapHit, WriteAbort
      <4>2. CASE ~twoLevel
        <5>1. ste' = [ste EXCEPT ![a] = [ste[a] EXCEPT ![b] = Abort]]
          BY <2>2, <4>2 DEF UnmapHit, WriteAbort
        <5> QED BY <1>1, <3>1, <5>1 DEF MasterInv, TypeOK
      <4> QED BY <4>1, <4>2
    <3> QED BY <1>1, <1>3, <3>1, <3>2, <3>3, StillServed
  <2> QED BY <1>1, <2>1, <2>2
<1> QED BY <1>2, <1>5, <1>6, ReachedPartsNext

(* The context descriptors that go belong to no other stream.              *)
LEMMA ReachedUnmapFree ==
  ASSUME MasterInv, Reached, twoLevel' = twoLevel, UnmapFree PROVE Reached'
<1>1. /\ pc = "free" /\ pc' = "unmapInval"
      /\ UNCHANGED <<ste, l1, l2ptr, cache, op, node, want>>
      /\ DOMAIN masters' = DOMAIN masters
      /\ \A n \in DOMAIN masters : masters[n].sid # op.sid =>
           /\ masters'[n] = masters[n]
           /\ masters[n].cd # Null => cds'[masters[n].cd] = cds[masters[n].cd]
  BY UnmapFreeStep
<1>2. Linked2' /\ MapLinked'
  BY <1>1 DEF Linked2, MapLinked, Mapping, Reached
<1>3. ASSUME NEW i \in Smmus, NEW s \in Sids PROVE ServedAt(i, s)'
  <2> SUFFICES ASSUME Settled(i, s)', want'[i][s] # NoWant PROVE Serving(i, s)'
    BY DEF ServedAt
  <2>1. Settled(i, s) /\ s # op.sid
    BY <1>1 DEF Settled
  <2>2. Serving(i, s)
    BY <1>1, <2>1 DEF Reached
  <2>3. ASSUME NEW id \in CdIds, Owns(s, id) PROVE Owns(s, id)' /\ cds'[id] = cds[id]
    BY <1>1, <2>1, <2>3, NullIsNone DEF Owns
  <2> QED BY <1>1, <2>2, <2>3, StillServed
<1> QED BY <1>2, <1>3, ReachedPartsNext

(* Nor does the master that is cleared.                                    *)
LEMMA ReachedUnmapEnd ==
  ASSUME MasterInv, Reached, OneSmmu, twoLevel' = twoLevel, UnmapEnd PROVE Reached'
<1>1. /\ pc = "unmapInval" /\ pc' = "idle" /\ UNCHANGED <<ste, l1, l2ptr, cds>>
      /\ <<op.smmu, op.sid>> \in Streams /\ MasterInv'
      /\ DOMAIN masters' = DOMAIN masters
      /\ \A n \in DOMAIN masters : masters[n].sid # op.sid => masters'[n] = masters[n]
      /\ \A i \in Smmus, s \in Sids :
           cache'[i][s] = IF i = op.smmu THEN Nil ELSE cache[i][s]
      /\ \A i \in Smmus, s \in Sids :
           want'[i][s] = IF i = op.smmu /\ s = op.sid THEN NoWant ELSE want[i][s]
  BY UnmapEndStep
<1>2. Linked2' /\ MapLinked'
  BY <1>1 DEF Linked2, MapLinked, Mapping, Reached
<1>3. ASSUME NEW i \in Smmus, NEW s \in Sids PROVE ServedAt(i, s)'
  <2> SUFFICES ASSUME want'[i][s] # NoWant PROVE Serving(i, s)'
    BY DEF ServedAt
  <2>1. <<i, s>> \in Streams
    BY <1>1 DEF MasterInv
  <2>2. s # op.sid
    BY <1>1, <2>1, SameSmmu
  <2>3. Serving(i, s)
    BY <1>1, <2>2 DEF Reached, Settled
  <2>4. \A id \in CdIds : Owns(s, id) => Owns(s, id)'
    BY <1>1, <2>2 DEF Owns
  <2> QED BY <1>1, <2>2, <2>3, <2>4, StillServed
<1> QED BY <1>2, <1>3, ReachedPartsNext

(* What an SMMU caches for a served stream serves it.                      *)
LEMMA ReachedFetch ==
  ASSUME MasterInv, Reached, twoLevel' = twoLevel, NEW a \in Smmus, NEW b \in Sids, Fetch(a, b)
  PROVE  Reached'
<1>1. /\ UNCHANGED <<ste, l1, l2ptr, cds, masters, pc, op, node, want>>
      /\ \A i \in Smmus, s \in Sids :
           cache'[i][s] = IF i = a /\ s = b THEN Walk(a, b) ELSE cache[i][s]
  BY FetchStep
<1>2. Linked2' /\ MapLinked' /\ Linked2
  BY <1>1 DEF Linked2, MapLinked, Mapping, Reached
<1>3. ASSUME NEW i \in Smmus, NEW s \in Sids PROVE ServedAt(i, s)'
  <2> SUFFICES ASSUME Settled(i, s)', want'[i][s] # NoWant PROVE Serving(i, s)'
    BY DEF ServedAt
  <2>1. Serving(i, s) /\ want[i][s] # NoWant
    BY <1>1 DEF Reached, Settled
  <2>2. Walk(i, s)[want[i][s].ssid] = want[i][s].pgt
    BY <1>2, <2>1, ServedWalk
  <2>3. \A id \in CdIds : Owns(s, id)' <=> Owns(s, id)
    BY <1>1 DEF Owns
  <2>4. cache'[i][s] # Nil => cache'[i][s][want[i][s].ssid] = want[i][s].pgt
    BY <1>1, <2>1, <2>2 DEF Serving
  <2> QED BY <1>1, <2>1, <2>3, <2>4 DEF Serving
<1> QED BY <1>2, <1>3, ReachedPartsNext

(* Every step keeps the invariant of mapped streams.                       *)
LEMMA ServedNext ==
  ASSUME ServedInv, NoStreamZero, OneSmmu, Apart, [Next]_vars PROVE ServedInv'
<1>1. MasterInv /\ MasterInv' /\ Reached
  BY MasterNext DEF ServedInv
<1> SUFFICES Reached'
  BY <1>1 DEF ServedInv
<1>2. CASE UNCHANGED vars
  BY <1>1, <1>2, StutterStep
<1>3. CASE Next
  <2>1. twoLevel' = twoLevel
    BY <1>3, Steps
  <2>2. ASSUME NEW r \in Request, MapAny(r) PROVE Reached'
    BY <1>1, <2>1, <2>2, ReachedMap
  <2>3. CASE WriteSte
    BY <1>1, <2>1, <2>3, ReachedWriteSte
  <2>4. CASE MapEnd
    BY <1>1, <2>1, <2>4, ReachedMapEnd
  <2>5. CASE UnmapFree
    BY <1>1, <2>1, <2>5, ReachedUnmapFree
  <2>6. CASE UnmapEnd
    BY <1>1, <2>1, <2>6, ReachedUnmapEnd
  <2>7. ASSUME NEW i, NEW s, <<i, s>> \in Streams, UnmapStart(i, s) PROVE Reached'
    BY <1>1, <2>1, <2>7, ReachedUnmapStart
  <2>8. ASSUME NEW i \in Smmus, NEW s \in Sids, Fetch(i, s) PROVE Reached'
    BY <1>1, <2>1, <2>8, ReachedFetch
  <2> QED BY <1>3, <2>2, <2>3, <2>4, <2>5, <2>6, <2>7, <2>8, Steps
<1> QED BY <1>2, <1>3

(* A stream that val_smmu_map has returned success for is served with the  *)
(* page table asked for until the next call for it, whatever the SMMUs     *)
(* cache and whatever is done to other streams, with linear and with       *)
(* two-level tables, as long as the streams keep apart.                    *)
THEOREM MappedIsServed == NoStreamZero /\ OneSmmu /\ Apart => (Spec => []MappedTranslate)
<1> SUFFICES ASSUME NoStreamZero, OneSmmu, Apart PROVE Spec => []MappedTranslate
  OBVIOUS
<1>1. Init => ServedInv
  <2> SUFFICES ASSUME Init PROVE ServedInv
    OBVIOUS
  <2>1. MasterInv
    BY MasterInit
  <2>2. Reached
    BY DEF Reached, Init, Mapping
  <2> QED BY <2>1, <2>2 DEF ServedInv
<1>2. ServedInv /\ [Next]_vars => ServedInv'
  BY ServedNext
<1>3. ServedInv => MappedTranslate
  <2> SUFFICES ASSUME ServedInv, NEW i \in Smmus, NEW s \in Sids,
                      Settled(i, s), want[i][s] # NoWant
               PROVE  Effective(i, s)[want[i][s].ssid] = want[i][s].pgt
    BY DEF MappedTranslate
  <2>1. MasterInv /\ Linked2 /\ Serving(i, s)
    BY DEF ServedInv, Reached, Linked2
  <2>2. Walk(i, s)[want[i][s].ssid] = want[i][s].pgt
    BY <2>1, ServedWalk
  <2> QED BY <2>1, <2>2 DEF Effective, Serving
<1> QED BY <1>1, <1>2, <1>3, PTL DEF Spec
=============================================================================
