--------------------------- MODULE PcieRegsProofs ---------------------------
(* Proofs about the registers of a PCIe function, for a register of every  *)
(* width.                                                                  *)
EXTENDS PcieRegs, SequenceTheorems, TLAPS

----------------------------------------------------------------------------
(* What a write does *)

(* Writing back what was read clears the status bits and nothing else.     *)
LEMMA WriteBack ==
  ASSUME NEW hw \in [Bits -> Kinds], NEW v \in SUBSET Bits
  PROVE  WriteReg(hw, v, v) = {b \in v : hw[b] # "w1c"}
  BY DEF WriteReg, Kinds

(* Once they are cleared, status bits stay so, and a write changes the     *)
(* read-write bits only.                                                   *)
LEMMA WriteOver ==
  ASSUME NEW hw \in [Bits -> Kinds], NEW v \in SUBSET Bits, NEW w \in SUBSET Bits,
         \A b \in v : hw[b] # "w1c"
  PROVE  /\ WriteReg(hw, v, w) \in SUBSET Bits
         /\ \A b \in Bits : hw[b] = "rw" => (b \in WriteReg(hw, v, w) <=> b \in w)
         /\ \A b \in Bits : hw[b] # "rw" => (b \in WriteReg(hw, v, w) <=> b \in v)
  BY DEF WriteReg, Kinds

----------------------------------------------------------------------------
(* The probe of one field: the register after the first write, after       *)
(* writing the flipped field, and after writing the field as zero.         *)
Settled(hw, v) == {b \in v : hw[b] # "w1c"}
Flipped(hw, v, field) == WriteReg(hw, v, Flip(v, field))
Zeroed(hw, v, field)  == WriteReg(hw, v, v \ field)

(* The flipped field is accepted as a whole exactly if the field can be    *)
(* written, refused as a whole exactly if no bit of it can, and in both    *)
(* cases the bits around it keep their value.                              *)
LEMMA FlipField ==
  ASSUME NEW hw \in [Bits -> Kinds], NEW v \in SUBSET Bits, NEW field \in SUBSET Bits,
         \A b \in v : hw[b] # "w1c"
  PROVE  /\ (Flipped(hw, v, field) = Flip(v, field)) <=> \A b \in field : hw[b] = "rw"
         /\ (Flipped(hw, v, field) = v) <=> \A b \in field : hw[b] # "rw"
         /\ Flipped(hw, v, field) \ field = v \ field
<1> DEFINE f == Flip(v, field)
           r == WriteReg(hw, v, f)
<1>1. f \in SUBSET Bits
  BY DEF Flip
<1>2. /\ r \in SUBSET Bits
      /\ \A b \in Bits : hw[b] = "rw" => (b \in r <=> b \in f)
      /\ \A b \in Bits : hw[b] # "rw" => (b \in r <=> b \in v)
  BY <1>1, WriteOver
<1> HIDE DEF r
<1>3. \A b \in Bits : b \in f <=> ((b \in v /\ b \notin field) \/ (b \in field /\ b \notin v))
  BY DEF Flip
<1> HIDE DEF f
<1>4. r = f <=> \A b \in field : hw[b] = "rw"
  <2>1. ASSUME r = f, NEW b \in field PROVE hw[b] = "rw"
    BY <2>1, <1>2, <1>3
  <2>2. ASSUME \A b \in field : hw[b] = "rw", NEW b \in Bits PROVE b \in r <=> b \in f
    BY <2>2, <1>2, <1>3
  <2>3. QED
    BY <2>1, <2>2, <1>1, <1>2
<1>5. r = v <=> \A b \in field : hw[b] # "rw"
  <2>1. ASSUME r = v, NEW b \in field PROVE hw[b] # "rw"
    BY <2>1, <1>2, <1>3
  <2>2. ASSUME \A b \in field : hw[b] # "rw", NEW b \in Bits PROVE b \in r <=> b \in v
    BY <2>2, <1>2, <1>3
  <2>3. QED
    BY <2>1, <2>2, <1>1, <1>2
<1>6. r \ field = v \ field
  <2>1. ASSUME NEW b \in Bits, b \notin field PROVE b \in r <=> b \in v
    BY <2>1, <1>2, <1>3
  <2>2. QED
    BY <2>1, <1>2
<1>7. QED
  BY <1>4, <1>5, <1>6 DEF r, f, Flipped

(* Writing the field as zero clears the bits of it that can be written.    *)
LEMMA ZeroField ==
  ASSUME NEW hw \in [Bits -> Kinds], NEW v \in SUBSET Bits, NEW field \in SUBSET Bits,
         \A b \in v : hw[b] # "w1c"
  PROVE  Zeroed(hw, v, field) \ field = v \ field
<1> DEFINE r == WriteReg(hw, v, v \ field)
<1>1. /\ r \in SUBSET Bits
      /\ \A b \in Bits : hw[b] = "rw" => (b \in r <=> b \in v \ field)
      /\ \A b \in Bits : hw[b] # "rw" => (b \in r <=> b \in v)
  BY WriteOver
<1> HIDE DEF r
<1>2. \A b \in Bits \ field : b \in r <=> b \in v
  BY <1>1
<1>3. QED
  BY <1>1, <1>2 DEF r, Zeroed

(* Writing the first value again undoes every change of the probe.         *)
LEMMA RestoreField ==
  ASSUME NEW hw \in [Bits -> Kinds], NEW v \in SUBSET Bits, NEW field \in SUBSET Bits,
         \A b \in v : hw[b] # "w1c"
  PROVE  WriteReg(hw, Flipped(hw, v, field), v) = v
<1> DEFINE f == Flip(v, field)
           r == WriteReg(hw, v, f)
           s == WriteReg(hw, r, v)
<1>1. /\ r \in SUBSET Bits
      /\ \A b \in Bits : hw[b] = "rw" => (b \in r <=> b \in f)
      /\ \A b \in Bits : hw[b] # "rw" => (b \in r <=> b \in v)
  BY WriteOver DEF Flip
<1> HIDE DEF r
<1>2. \A b \in r : hw[b] # "w1c"
  BY <1>1
<1>3. /\ s \in SUBSET Bits
      /\ \A b \in Bits : hw[b] = "rw" => (b \in s <=> b \in v)
      /\ \A b \in Bits : hw[b] # "rw" => (b \in s <=> b \in r)
  BY <1>1, <1>2, WriteOver
<1> HIDE DEF s
<1>4. \A b \in Bits : b \in s <=> b \in v
  BY <1>1, <1>3
<1>5. s = v
  BY <1>3, <1>4
<1>6. QED
  BY <1>5 DEF s, r, f, Flipped

(* The first write leaves a register without status bits, and writing it   *)
(* back again changes nothing.                                             *)
LEMMA FirstWrite ==
  ASSUME NEW hw \in [Bits -> Kinds], NEW v \in SUBSET Bits
  PROVE  /\ WriteReg(hw, v, v) = Settled(hw, v)
         /\ Settled(hw, v) \in SUBSET Bits
         /\ \A b \in Settled(hw, v) : hw[b] # "w1c"
         /\ WriteReg(hw, Settled(hw, v), Settled(hw, v)) = Settled(hw, v)
<1> DEFINE v1 == Settled(hw, v)
<1>1. WriteReg(hw, v, v) = v1
  BY WriteBack DEF Settled
<1>2. v1 \in SUBSET Bits /\ \A b \in v1 : hw[b] # "w1c"
  BY DEF Settled
<1> HIDE DEF v1
<1>3. WriteReg(hw, v1, v1) = {b \in v1 : hw[b] # "w1c"}
  BY <1>2, WriteBack
<1>4. WriteReg(hw, v1, v1) = v1
  BY <1>2, <1>3
<1>5. QED
  BY <1>1, <1>2, <1>4 DEF v1

----------------------------------------------------------------------------
(* The check of a field *)

Verdict(warnings, what, ok) == IF ok \/ what \in warnings THEN 0 ELSE 1

(* What the check finds (r) and leaves behind, by the attribute that the   *)
(* field is checked for, when the register was v1 after the first write,   *)
(* and ro or rz after the field was flipped or zeroed.                     *)
Outcome(v1, ro, rz, r, field, value, attr, warnings) ==
  /\ v1 \cap field # value => r = [ret |-> Verdict(warnings, "value", FALSE), reg |-> v1]
  /\ v1 \cap field = value =>
       /\ attr = "ro" => r = [ret |-> Verdict(warnings, "attr", ro = v1), reg |-> ro]
       /\ attr = "rw" => r = [ret |-> Verdict(warnings, "attr", ro = Flip(v1, field)), reg |-> v1]
       /\ attr = "rsvdp" => r = [ret |-> Verdict(warnings, "attr", v1 \cap field = {}), reg |-> v1]
       /\ attr = "rsvdz" => r = [ret |-> Verdict(warnings, "attr", rz = v1), reg |-> rz]
       /\ attr = "other" => r = [ret |-> 1, reg |-> v1]

(* This is what val_pcie_bitfield_check does.                              *)
LEMMA CheckResult ==
  ASSUME NEW hw \in [Bits -> Kinds], NEW v \in SUBSET Bits, NEW field \in SUBSET Bits,
         NEW value \in SUBSET field, NEW attr \in Attrs,
         NEW warnings \in SUBSET {"value", "attr"},
         NEW e, e = Field(field, value, attr, warnings),
         NEW v1, v1 = Settled(hw, v),
         NEW ro, ro = Flipped(hw, v1, field),
         NEW rz, rz = Zeroed(hw, v1, field),
         NEW r, r = BitfieldCheck(hw, v, e)
  PROVE  Outcome(v1, ro, rz, r, field, value, attr, warnings)
<1>1. /\ e.field = field /\ e.value = value /\ e.attr = attr
      /\ e.warnings = warnings /\ e.at = "found"
  BY DEF Field, FieldAt
<1>2. /\ WriteReg(hw, v, v) = v1
      /\ WriteReg(hw, v1, v1) = v1
      /\ v1 \in SUBSET Bits /\ \A b \in v1 : hw[b] # "w1c"
  BY FirstWrite
<1>3. WriteReg(hw, ro, v1) = v1
  BY <1>2, RestoreField
<1>4. r = IF v1 \cap field # value THEN [ret |-> Verdict(warnings, "value", FALSE), reg |-> v1]
          ELSE [ro    |-> [ret |-> Verdict(warnings, "attr", ro = v1), reg |-> ro],
                rsvdp |-> [ret |-> Verdict(warnings, "attr", v1 \cap field = {}), reg |-> v1],
                rsvdz |-> [ret |-> Verdict(warnings, "attr", rz = v1), reg |-> rz],
                other |-> [ret |-> 1, reg |-> v1],
                rw    |-> [ret |-> Verdict(warnings, "attr", ro = Flip(v1, field)), reg |-> v1]][attr]
  BY <1>1, <1>2, <1>3, Zenon DEF BitfieldCheck, Verdict, Flipped, Zeroed
<1>5. QED
  <2>1. ASSUME v1 \cap field # value PROVE r = [ret |-> Verdict(warnings, "value", FALSE), reg |-> v1]
    BY <1>4, <2>1
  <2>2. ASSUME v1 \cap field = value, attr = "ro"
        PROVE  r = [ret |-> Verdict(warnings, "attr", ro = v1), reg |-> ro]
    BY <1>4, <2>2
  <2>3. ASSUME v1 \cap field = value, attr = "rw"
        PROVE  r = [ret |-> Verdict(warnings, "attr", ro = Flip(v1, field)), reg |-> v1]
    BY <1>4, <2>3
  <2>4. ASSUME v1 \cap field = value, attr = "rsvdp"
        PROVE  r = [ret |-> Verdict(warnings, "attr", v1 \cap field = {}), reg |-> v1]
    BY <1>4, <2>4
  <2>5. ASSUME v1 \cap field = value, attr = "rsvdz"
        PROVE  r = [ret |-> Verdict(warnings, "attr", rz = v1), reg |-> rz]
    BY <1>4, <2>5
  <2>6. ASSUME v1 \cap field = value, attr = "other"
        PROVE  r = [ret |-> 1, reg |-> v1]
    BY <1>4, <2>6
  <2>7. QED
    BY <2>1, <2>2, <2>3, <2>4, <2>5, <2>6 DEF Outcome

(* A check judges the field rightly and leaves the bits around it alone,   *)
(* whatever kind of bits the hardware has in the register.                 *)
LEMMA CheckSound ==
  ASSUME NEW hw \in [Bits -> Kinds], NEW v \in SUBSET Bits, NEW field \in SUBSET Bits,
         NEW value \in SUBSET field, NEW attr \in Attrs,
         NEW warnings \in SUBSET {"value", "attr"}
  PROVE  BitfieldChecked(hw, v, Field(field, value, attr, warnings))
<1> DEFINE e  == Field(field, value, attr, warnings)
           r  == BitfieldCheck(hw, v, e)
           v1 == Settled(hw, v)
           ro == Flipped(hw, v1, field)
           rz == Zeroed(hw, v1, field)
<1>1. Outcome(v1, ro, rz, r, field, value, attr, warnings)
  <2> HIDE DEF e, v1, ro, rz, r
  <2>1. e = Field(field, value, attr, warnings) /\ v1 = Settled(hw, v)
    BY Zenon DEF e, v1
  <2>2. /\ ro = Flipped(hw, v1, field) /\ rz = Zeroed(hw, v1, field)
        /\ r = BitfieldCheck(hw, v, e)
    BY Zenon DEF ro, rz, r
  <2>3. QED
    BY <2>1, <2>2, CheckResult
<1>2. v1 \in SUBSET Bits /\ \A b \in v1 : hw[b] # "w1c"
  BY DEF Settled
<1>3. /\ ro = Flip(v1, field) <=> \A b \in field : hw[b] = "rw"
      /\ ro = v1 <=> \A b \in field : hw[b] # "rw"
      /\ ro \ field = v1 \ field
  <2> HIDE DEF v1
  <2>1. QED
    BY <1>2, FlipField, Zenon
<1>4. rz \ field = v1 \ field
  <2> HIDE DEF v1
  <2>1. QED
    BY <1>2, ZeroField
<1>5. /\ e.field = field /\ e.value = value /\ e.attr = attr /\ e.warnings = warnings
      /\ e.at = "found"
  BY DEF Field, FieldAt
<1> HIDE DEF r, v1, ro, rz, e
<1>6. /\ attr = "rw" /\ r.ret = 0 /\ warnings = {} =>
           (\A b \in field : hw[b] = "rw") /\ r.reg = v1
      /\ attr = "ro" /\ r.ret = 0 /\ warnings = {} => \A b \in field : hw[b] # "rw"
      /\ attr \in {"rsvdp", "rsvdz"} /\ r.ret = 0 /\ warnings = {} =>
           v1 \cap field = value /\ r.reg = v1
      /\ r.ret = 0 /\ warnings = {} => attr # "other"
  BY <1>1, <1>3 DEF Outcome, Attrs, Verdict
<1>7. /\ v1 \cap field = value /\ attr = "ro" /\ (\A b \in field : hw[b] = "ro") => r.ret = 0
      /\ v1 \cap field = value /\ attr = "rw" /\ (\A b \in field : hw[b] = "rw") => r.ret = 0
  BY <1>1, <1>3 DEF Outcome, Verdict
<1>8. r.reg \ field = v1 \ field
  <2>1. r.reg = v1 \/ r.reg = ro \/ r.reg = rz
    <3>1. CASE v1 \cap field # value
      BY <1>1, <3>1 DEF Outcome
    <3>2. CASE v1 \cap field = value
      BY <1>1, <3>2 DEF Outcome, Attrs
    <3>3. QED
      BY <3>1, <3>2
  <2>2. QED
    BY <2>1, <1>3, <1>4
<1>9. QED
  <2>1. /\ r.ret = 0 /\ e.warnings = {} /\ e.attr = "rw" =>
             (\A b \in e.field : hw[b] = "rw") /\ r.reg = v1
        /\ r.ret = 0 /\ e.warnings = {} /\ e.attr = "ro" => \A b \in e.field : hw[b] # "rw"
        /\ r.ret = 0 /\ e.warnings = {} /\ e.attr \in {"rsvdp", "rsvdz"} =>
             v1 \cap e.field = e.value /\ r.reg = v1
        /\ r.ret = 0 /\ e.warnings = {} => e.at = "found" /\ e.attr # "other"
        /\ v1 \cap e.field = e.value /\ e.attr \in {"ro", "rw"}
             /\ (\A b \in e.field : hw[b] = e.attr) => r.ret = 0
        /\ r.reg \ e.field = v1 \ e.field
    BY <1>5, <1>6, <1>7, <1>8
  <2>2. BitfieldChecked(hw, v, e)
    BY <2>1, <1>5, Zenon DEF BitfieldChecked, Settled, r, v1
  <2>3. QED
    BY <2>2 DEF e

(* Without a register the check fails and writes nothing.                  *)
LEMMA NoRegister ==
  ASSUME NEW hw \in [Bits -> Kinds], NEW v \in SUBSET Bits, NEW field \in SUBSET Bits,
         NEW value \in SUBSET field, NEW attr \in Attrs,
         NEW warnings \in SUBSET {"value", "attr"},
         NEW at \in Ats, at # "found"
  PROVE  BitfieldChecked(hw, v, FieldAt(at, field, value, attr, warnings))
<1> DEFINE e == FieldAt(at, field, value, attr, warnings)
           r == BitfieldCheck(hw, v, e)
<1>1. e.at # "found"
  BY DEF FieldAt
<1> HIDE DEF e
<1>2. r = [ret |-> 1, reg |-> v]
  BY <1>1 DEF BitfieldCheck
<1> HIDE DEF r
<1>3. r.ret = 1 /\ r.reg = v
  BY <1>2
<1>4. r.ret # 0
  BY <1>3
<1>5. BitfieldChecked(hw, v, e)
  BY <1>1, <1>3, <1>4, Zenon DEF BitfieldChecked, r
<1>6. QED
  BY <1>5 DEF e

(* val_pcie_bitfield_check is right about every register.                  *)
THEOREM EveryFieldChecked == BitfieldsChecked
<1> SUFFICES ASSUME NEW hw \in [Bits -> Kinds], NEW v \in SUBSET Bits, NEW field \in SUBSET Bits,
                    NEW at \in Ats, NEW attr \in Attrs,
                    NEW warnings \in SUBSET {"value", "attr"}, NEW value \in SUBSET field
             PROVE  BitfieldChecked(hw, v, FieldAt(at, field, value, attr, warnings))
  BY DEF BitfieldsChecked
<1>1. CASE at = "found"
  BY <1>1, CheckSound DEF Field
<1>2. CASE at # "found"
  BY <1>2, NoRegister
<1>3. QED
  BY <1>1, <1>2

----------------------------------------------------------------------------
(* The registers through the tests *)

Words   == {"cmd", "sec", "dev"}
WordBits == [cmd |-> {"bme", "mse", "serr", "sta"}, sec |-> {"ssta"},
             dev |-> ReportBits \cup DeviceErrors]

(* A write of a word follows the read of that word, or a write of it that  *)
(* changed nothing; clearing an unsupported request is the only write that *)
(* follows nothing.  Bits are written to the word they belong to.          *)
Follows(a, b) == a.word = b.word /\ (a.is = "write" => a.set = {} /\ a.clear = {})

Access == [is : {"read", "write"}, word : Words, set : SUBSET UNION {WordBits[w] : w \in Words},
           clear : SUBSET UNION {WordBits[w] : w \in Words}]

WellFormed(todo) ==
  /\ todo \in Seq(Access)
  /\ \A i \in 1 .. Len(todo) : todo[i].set \subseteq WordBits[todo[i].word]
  /\ \A i \in 1 .. Len(todo) : todo[i].clear \cap Status = {}
  /\ \A i \in 1 .. Len(todo) :
       i + 1 \in 1 .. Len(todo) /\ todo[i + 1].is = "write" => Follows(todo[i], todo[i + 1])

(* The value that is about to be written is of the word that it was read   *)
(* from, or nothing was read.                                              *)
RegsType ==
  /\ regs \in [cmd : SUBSET WordBits.cmd, sec : SUBSET WordBits.sec, dev : SUBSET WordBits.dev]
  /\ call = [todo |-> call.todo, value |-> call.value]
  /\ WellFormed(call.todo)
  /\ At("write") => call.value \subseteq WordBits[Now.word]
  /\ ~At("write") => call.value = {}
  /\ events = [on |-> events.on, fresh |-> events.fresh, recorded |-> events.recorded]
  /\ events.on \subseteq Enables
  /\ events.fresh \subseteq Status /\ events.recorded \subseteq Status

(* A fresh error has its bit, and is not in the value that a helper will   *)
(* write back; the enable bits that it will write back are the current     *)
(* ones, for only the helpers change them.                                 *)
RegsInv ==
  /\ RegsType
  /\ regs.cmd \cap Enables = events.on
  /\ At("write") /\ Now.word = "cmd" => call.value \cap Enables = events.on
  /\ events.fresh \subseteq regs.cmd \cup regs.sec \cup regs.dev
  /\ events.fresh \cap call.value = {}
  /\ (regs.cmd \cup regs.sec \cup regs.dev) \cap Status \subseteq events.recorded

(* What is left of a helper is as well formed as the helper.               *)
LEMMA WellFormedTail ==
  ASSUME NEW todo, WellFormed(todo), todo # <<>>
  PROVE  /\ WellFormed(Tail(todo))
         /\ Head(todo) \in Access
         /\ Head(todo).set \subseteq WordBits[Head(todo).word]
         /\ Head(todo).clear \cap Status = {}
         /\ Tail(todo) # <<>> /\ Head(Tail(todo)).is = "write" =>
              Follows(Head(todo), Head(Tail(todo)))
<1> DEFINE t == Tail(todo)
<1>1. todo \in Seq(Access) /\ Len(todo) \in Nat /\ Len(todo) > 0
  BY DEF WellFormed
<1>2. /\ t \in Seq(Access) /\ Len(t) = Len(todo) - 1
      /\ \A i \in 1 .. Len(t) : t[i] = todo[i + 1]
  BY <1>1
<1>3. Head(todo) = todo[1] /\ (t # <<>> => Head(t) = t[1] /\ Len(t) > 0)
  BY <1>1, <1>2
<1> HIDE DEF t
<1>4. WellFormed(t)
  <2>1. ASSUME NEW i \in 1 .. Len(t)
        PROVE  /\ t[i].set \subseteq WordBits[t[i].word]
               /\ t[i].clear \cap Status = {}
    <3>1. i + 1 \in 1 .. Len(todo) /\ t[i] = todo[i + 1]
      BY <1>1, <1>2
    <3>2. QED
      BY <3>1 DEF WellFormed
  <2>2. ASSUME NEW i \in 1 .. Len(t), i + 1 \in 1 .. Len(t), t[i + 1].is = "write"
        PROVE  Follows(t[i], t[i + 1])
    <3> DEFINE k == i + 1
    <3>1. /\ k \in 1 .. Len(todo) /\ k + 1 \in 1 .. Len(todo)
          /\ t[i] = todo[k] /\ t[i + 1] = todo[k + 1]
      BY <1>1, <1>2, <2>2
    <3> HIDE DEF k
    <3>2. todo[k + 1].is = "write" => Follows(todo[k], todo[k + 1])
      BY <3>1 DEF WellFormed
    <3>3. QED
      BY <2>2, <3>1, <3>2
  <2>3. QED
    BY <1>2, <2>1, <2>2 DEF WellFormed
<1>5. /\ Head(todo) \in Access
      /\ Head(todo).set \subseteq WordBits[Head(todo).word]
      /\ Head(todo).clear \cap Status = {}
  BY <1>1, <1>3 DEF WellFormed
<1>6. t # <<>> /\ Head(t).is = "write" => Follows(Head(todo), Head(t))
  <2> HAVE t # <<>> /\ Head(t).is = "write"
  <2>1. 1 \in 1 .. Len(todo) /\ 1 + 1 \in 1 .. Len(todo) /\ Head(t) = todo[1 + 1]
    BY <1>1, <1>2, <1>3
  <2>2. QED
    BY <2>1, <1>3 DEF WellFormed
<1>7. QED
  BY <1>4, <1>5, <1>6 DEF t

(* A read and a write of one word.                                         *)
LEMMA ChangeFormed ==
  ASSUME NEW word \in Words, NEW set \in SUBSET WordBits[word],
         NEW clear \in SUBSET WordBits[word], clear \cap Status = {}
  PROVE  /\ Change(word, set, clear) \in Seq(Access)
         /\ Len(Change(word, set, clear)) = 2
         /\ Change(word, set, clear)[1] = ReadAt(word)
         /\ Change(word, set, clear)[2] = WriteAt(word, set, clear)
<1>1. ReadAt(word) \in Access /\ WriteAt(word, set, clear) \in Access
  BY DEF ReadAt, WriteAt, Access
<1>2. QED
  BY <1>1 DEF Change

(* The elements of a sequence put together of two.                         *)
LEMMA Joined ==
  ASSUME NEW S, NEW s \in Seq(S), NEW t \in Seq(S), NEW st, st = s \o t
  PROVE  /\ st \in Seq(S) /\ Len(st) = Len(s) + Len(t)
         /\ \A i \in 1 .. Len(s) : st[i] = s[i]
         /\ \A i \in 1 .. Len(t) : st[Len(s) + i] = t[i]
<1>1. /\ st \in Seq(S) /\ Len(st) = Len(s) + Len(t)
      /\ \A i \in 1 .. Len(s) + Len(t) : st[i] = IF i <= Len(s) THEN s[i] ELSE t[i - Len(s)]
  BY ConcatProperties, Zenon
<1>2. Len(s) \in Nat /\ Len(t) \in Nat
  OBVIOUS
<1>3. \A i \in 1 .. Len(s) : st[i] = s[i]
  BY <1>1, <1>2
<1>4. ASSUME NEW i \in 1 .. Len(t) PROVE st[Len(s) + i] = t[i]
  <2>1. Len(s) + i \in 1 .. Len(s) + Len(t) /\ ~(Len(s) + i <= Len(s)) /\ (Len(s) + i) - Len(s) = i
    BY <1>2
  <2>2. QED
    BY <1>1, <2>1
<1>5. QED
  BY <1>1, <1>3, <1>4

(* A helper of one or two such pairs.                                      *)
LEMMA PairFormed ==
  ASSUME NEW c, NEW w \in Words, NEW set \in SUBSET WordBits[w],
         NEW clear \in SUBSET WordBits[w], clear \cap Status = {},
         c = Change(w, set, clear)
  PROVE  WellFormed(c) /\ c # <<>> /\ Head(c).is = "read"
<1>1. /\ c \in Seq(Access) /\ Len(c) = 2
      /\ c[1] = ReadAt(w) /\ c[2] = WriteAt(w, set, clear)
  BY ChangeFormed
<1>2. /\ c[1].is = "read" /\ c[1].word = w /\ c[1].set = {} /\ c[1].clear = {}
      /\ c[2].is = "write" /\ c[2].word = w /\ c[2].set = set /\ c[2].clear = clear
  BY <1>1 DEF ReadAt, WriteAt
<1>3. \A i \in 1 .. Len(c) : i = 1 \/ i = 2
  BY <1>1
<1>4. QED
  BY <1>1, <1>2, <1>3 DEF WellFormed, Follows

LEMMA TwoPairsFormed ==
  ASSUME NEW c, NEW w \in Words, NEW x \in Words,
         NEW set \in SUBSET WordBits[w], NEW clear \in SUBSET WordBits[w], clear \cap Status = {},
         NEW set2 \in SUBSET WordBits[x], NEW clear2 \in SUBSET WordBits[x], clear2 \cap Status = {},
         c = Change(w, set, clear) \o Change(x, set2, clear2)
  PROVE  WellFormed(c) /\ c # <<>> /\ Head(c).is = "read"
<1> DEFINE a == Change(w, set, clear)
           b == Change(x, set2, clear2)
<1>1. /\ a \in Seq(Access) /\ Len(a) = 2
      /\ a[1] = ReadAt(w) /\ a[2] = WriteAt(w, set, clear)
      /\ b \in Seq(Access) /\ Len(b) = 2
      /\ b[1] = ReadAt(x) /\ b[2] = WriteAt(x, set2, clear2)
  BY ChangeFormed
<1> HIDE DEF a, b
<1>2. c = a \o b
  BY DEF a, b
<1>3. /\ c \in Seq(Access) /\ Len(c) = 4
      /\ c[1] = ReadAt(w) /\ c[2] = WriteAt(w, set, clear)
      /\ c[3] = ReadAt(x) /\ c[4] = WriteAt(x, set2, clear2)
  <2>1. /\ c \in Seq(Access) /\ Len(c) = Len(a) + Len(b)
        /\ \A i \in 1 .. Len(a) : c[i] = a[i]
        /\ \A i \in 1 .. Len(b) : c[Len(a) + i] = b[i]
    <3>1. a \in Seq(Access) /\ b \in Seq(Access)
      BY <1>1
    <3>2. QED
      BY <3>1, <1>2, Joined
  <2>2. c[2 + 1] = b[1] /\ c[2 + 2] = b[2]
    BY <2>1, <1>1
  <2>3. QED
    BY <2>1, <2>2, <1>1
<1>4. /\ c[1].is = "read" /\ c[1].word = w /\ c[1].set = {} /\ c[1].clear = {}
      /\ c[2].is = "write" /\ c[2].word = w /\ c[2].set = set /\ c[2].clear = clear
      /\ c[3].is = "read" /\ c[3].word = x /\ c[3].set = {} /\ c[3].clear = {}
      /\ c[4].is = "write" /\ c[4].word = x /\ c[4].set = set2 /\ c[4].clear = clear2
  BY <1>3 DEF ReadAt, WriteAt
<1>5. \A i \in 1 .. Len(c) : i = 1 \/ i = 2 \/ i = 3 \/ i = 4
  BY <1>3
<1>6. QED
  BY <1>3, <1>4, <1>5 DEF WellFormed, Follows

(* The accesses of a field check, or of the part of it that is done.       *)
LEMMA CheckFormed ==
  ASSUME NEW w \in Words, NEW n \in 3 .. 5, NEW h, h = FieldCheck(w, n)
  PROVE  WellFormed(h) /\ h # <<>> /\ Head(h).is = "read"
<1> DEFINE a == Change(w, {}, {})
           z == WriteAt(w, {}, {})
           p == a \o a
           c == p \o <<z>>
<1>1. /\ a \in Seq(Access) /\ Len(a) = 2 /\ a[1] = ReadAt(w) /\ a[2] = z
      /\ z \in Access
  <2>1. {} \in SUBSET WordBits[w] /\ {} \cap Status = {}
    OBVIOUS
  <2>2. z \in Access
    BY DEF WriteAt, Access
  <2>3. QED
    BY <2>1, <2>2, ChangeFormed
<1> HIDE DEF a, z
<1>2. /\ c \in Seq(Access) /\ Len(c) = 5
      /\ c[1] = ReadAt(w) /\ c[2] = z /\ c[3] = ReadAt(w) /\ c[4] = z /\ c[5] = z
  <2>1. /\ p \in Seq(Access) /\ Len(p) = 4
        /\ p[1] = ReadAt(w) /\ p[2] = z /\ p[3] = ReadAt(w) /\ p[4] = z
    <3>1. /\ p \in Seq(Access) /\ Len(p) = Len(a) + Len(a)
          /\ \A i \in 1 .. Len(a) : p[i] = a[i]
          /\ \A i \in 1 .. Len(a) : p[Len(a) + i] = a[i]
      <4>1. a \in Seq(Access) /\ p = a \o a
        BY <1>1
      <4> HIDE DEF p
      <4>2. QED
        BY <4>1, Joined
    <3> HIDE DEF p
    <3>2. p[2 + 1] = a[1] /\ p[2 + 2] = a[2]
      BY <3>1, <1>1
    <3>3. QED
      BY <3>1, <3>2, <1>1
  <2>2. <<z>> \in Seq(Access) /\ Len(<<z>>) = 1 /\ <<z>>[1] = z
    BY <1>1
  <2> HIDE DEF p
  <2>3. QED
    <3>1. /\ c \in Seq(Access) /\ Len(c) = Len(p) + Len(<<z>>)
          /\ \A i \in 1 .. Len(p) : c[i] = p[i]
          /\ \A i \in 1 .. Len(<<z>>) : c[Len(p) + i] = <<z>>[i]
      <4>1. p \in Seq(Access) /\ <<z>> \in Seq(Access) /\ c = p \o <<z>>
        BY <2>1, <2>2
      <4> HIDE DEF c
      <4>2. QED
        BY <4>1, Joined
    <3> HIDE DEF c
    <3>2. c[4 + 1] = z
      BY <3>1, <2>1, <2>2
    <3>3. QED
      BY <3>1, <3>2, <2>1
<1>3. h = SubSeq(c, 1, n)
  BY DEF FieldCheck, a, z, p, c
<1> HIDE DEF c
<1>4. h \in Seq(Access) /\ Len(h) = n /\ \A i \in 1 .. n : h[i] = c[i]
  BY <1>2, <1>3
<1>5. /\ \A i \in 1 .. n : h[i].word = w /\ h[i].set = {} /\ h[i].clear = {}
      /\ h[1].is = "read"
  <2>1. \A i \in 1 .. n : h[i] = ReadAt(w) \/ h[i] = z
    BY <1>2, <1>4
  <2>2. QED
    BY <2>1, <1>2, <1>4 DEF ReadAt, WriteAt, z
<1>6. QED
  BY <1>4, <1>5 DEF WellFormed, Follows

(* All helpers are such; only the clearing of an unsupported request       *)
(* starts with a write, of device control.                                 *)
LEMMA HelpersFormed ==
  ASSUME NEW h \in Helpers
  PROVE  /\ WellFormed(h) /\ h # <<>>
         /\ Head(h).is = "write" => Head(h).word = "dev"
<1> USE DEF Words, WordBits, Enables, ReportBits, DeviceErrors, Status
<1>1. CASE h = EnableBme
  BY <1>1, PairFormed DEF EnableBme
<1>2. CASE h = DisableBme
  BY <1>2, PairFormed DEF DisableBme
<1>3. CASE h = EnableMsa
  BY <1>3, PairFormed DEF EnableMsa
<1>4. CASE h = DisableMsa
  BY <1>4, PairFormed DEF DisableMsa
<1>5. CASE h = ExerciserInit
  BY <1>5, PairFormed DEF ExerciserInit
<1>6. CASE h = ClearDeviceStatusError
  BY <1>6, PairFormed DEF ClearDeviceStatusError
<1>7. CASE h = ClearSigTargetAbort
  <2>1. /\ {"sta"} \in SUBSET WordBits["cmd"] /\ {"ssta"} \in SUBSET WordBits["sec"]
        /\ {} \in SUBSET WordBits["cmd"] /\ {} \in SUBSET WordBits["sec"]
        /\ {} \cap Status = {} /\ "cmd" \in Words /\ "sec" \in Words
    OBVIOUS
  <2>2. h = Change("cmd", {"sta"}, {}) \o Change("sec", {"ssta"}, {})
    BY <1>7 DEF ClearSigTargetAbort
  <2> HIDE DEF Words, WordBits, Status
  <2>3. WellFormed(h) /\ h # <<>> /\ Head(h).is = "read"
    BY <2>1, <2>2, TwoPairsFormed
  <2>4. QED
    BY <2>3
<1>8. CASE h = DisableEru
  <2>1. /\ {"serr"} \in SUBSET WordBits["cmd"] /\ ReportBits \in SUBSET WordBits["dev"]
        /\ {} \in SUBSET WordBits["cmd"] /\ {} \in SUBSET WordBits["dev"]
        /\ {"serr"} \cap Status = {} /\ ReportBits \cap Status = {}
        /\ "cmd" \in Words /\ "dev" \in Words
    OBVIOUS
  <2>2. h = Change("cmd", {}, {"serr"}) \o Change("dev", {}, ReportBits)
    BY <1>8 DEF DisableEru
  <2> HIDE DEF Words, WordBits, Status, ReportBits
  <2>3. WellFormed(h) /\ h # <<>> /\ Head(h).is = "read"
    BY <2>1, <2>2, TwoPairsFormed
  <2>4. QED
    BY <2>3
<1>9. CASE h = ClearUrd
  <2>1. WriteAt("dev", {"urd"}, {}) \in Access
    BY DEF WriteAt, Access
  <2>2. /\ h \in Seq(Access) /\ Len(h) = 1 /\ h[1] = WriteAt("dev", {"urd"}, {})
        /\ Head(h) = h[1]
    BY <1>9, <2>1 DEF ClearUrd
  <2>3. h[1].word = "dev" /\ h[1].set = {"urd"} /\ h[1].clear = {}
    BY <2>2 DEF WriteAt
  <2>4. QED
    BY <2>2, <2>3 DEF WellFormed
<1>10. CASE \E w \in Words, n \in 3 .. 5 : h = FieldCheck(w, n)
  BY <1>10, CheckFormed
<1>11. QED
  BY <1>1, <1>2, <1>3, <1>4, <1>5, <1>6, <1>7, <1>8, <1>9, <1>10 DEF Helpers

(* The reset state.                                                        *)
LEMMA RegsInvInit == RegsInit => RegsInv
<1> SUFFICES ASSUME RegsInit PROVE RegsInv
  OBVIOUS
<1>1. WellFormed(<<>>)
  BY DEF WellFormed
<1>2. call.todo = <<>> /\ call.value = {} /\ call = [todo |-> <<>>, value |-> {}]
  BY DEF RegsInit, Idle
<1>3. RegsType
  BY <1>1, <1>2 DEF RegsInit, RegsType, Reset, WordBits, ReportBits, DeviceErrors
<1>4. QED
  BY <1>2, <1>3 DEF RegsInit, RegsInv, Reset, At, Enables, Status, DeviceErrors

(* The start of a helper.                                                  *)
LEMMA RegsInvBegin ==
  ASSUME RegsInv, NEW h \in Helpers, Begin(h) PROVE RegsInv'
<1>1. WellFormed(h) /\ h # <<>> /\ (Head(h).is = "write" => Head(h).word = "dev")
  BY HelpersFormed
<1>2. /\ call' = [todo |-> h, value |-> call.value]
      /\ call'.todo = h /\ call'.value = call.value
      /\ regs' = regs /\ events' = events
  BY DEF Begin, RegsInv, RegsType
<1>3. call.value = {}
  BY DEF Begin, RegsInv, RegsType, At
<1>4. At("write")' => Now.word' = "dev"
  BY <1>1, <1>2 DEF At, Now
<1>5. RegsType'
  BY <1>1, <1>2, <1>3 DEF RegsInv, RegsType
<1>6. QED
  BY <1>2, <1>3, <1>4, <1>5 DEF RegsInv

(* The part of an access that does not depend on what it is.               *)
LEMMA RegsInvGo ==
  ASSUME RegsInv, call.todo # <<>>, NEW value,
         call' = Go(Tail(call.todo), value)
  PROVE  /\ Now \in Access
         /\ Now.set \subseteq WordBits[Now.word] /\ Now.clear \cap Status = {}
         /\ call' = [todo |-> (call').todo, value |-> (call').value]
         /\ WellFormed((call').todo)
         /\ At("write")' => (call').value = value /\ Follows(Now, Now')
         /\ ~At("write")' => (call').value = {}
<1>1. (call').todo = Tail(call.todo)
  BY DEF Go
<1>2. (call').value = IF (call').todo # <<>> /\ Head((call').todo).is = "write" THEN value ELSE {}
  BY <1>1 DEF Go
<1>3. call' = [todo |-> (call').todo, value |-> (call').value]
  BY <1>1, <1>2 DEF Go
<1>4. At("write")' <=> (call').todo # <<>> /\ Head((call').todo).is = "write"
  BY DEF At, Now
<1>5. WellFormed(call.todo)
  BY DEF RegsInv, RegsType
<1>6. /\ WellFormed(Tail(call.todo))
      /\ Now \in Access
      /\ Now.set \subseteq WordBits[Now.word] /\ Now.clear \cap Status = {}
      /\ Tail(call.todo) # <<>> /\ Head(Tail(call.todo)).is = "write" =>
           Follows(Now, Head(Tail(call.todo)))
  BY <1>5, WellFormedTail DEF Now
<1>7. Now' = Head(Tail(call.todo))
  BY <1>1 DEF Now
<1>8. QED
  BY <1>1, <1>2, <1>3, <1>4, <1>6, <1>7

(* A read: what is read is not fresh, and is what the word holds.          *)
LEMMA RegsInvRead ==
  ASSUME RegsInv, ReadWord PROVE RegsInv'
<1> DEFINE w == Now.word
<1>1. /\ call.todo # <<>> /\ Now.is = "read" /\ call' = Go(Tail(call.todo), regs[w])
      /\ regs' = regs
  BY DEF ReadWord, At
<1>2. /\ Now \in Access
      /\ call' = [todo |-> (call').todo, value |-> (call').value]
      /\ WellFormed((call').todo)
      /\ At("write")' => (call').value = regs[w] /\ Follows(Now, Now')
      /\ ~At("write")' => (call').value = {}
  BY <1>1, RegsInvGo
<1>3. w \in Words /\ regs[w] \subseteq WordBits[w]
  BY <1>2 DEF RegsInv, RegsType, Access, Words, WordBits
<1>4. (At("write")' => (Now').word = w) /\ (call').value \subseteq regs[w]
  BY <1>2 DEF Follows
<1>5. /\ events' = [on |-> events.on, fresh |-> events.fresh \ regs[w],
                    recorded |-> events.recorded]
      /\ (events').on = events.on /\ (events').recorded = events.recorded
      /\ (events').fresh = events.fresh \ regs[w]
  BY DEF ReadWord, RegsInv, RegsType
<1>6. RegsType'
  BY <1>1, <1>2, <1>3, <1>4, <1>5 DEF RegsInv, RegsType
<1>7. QED
  BY <1>1, <1>2, <1>4, <1>5, <1>6 DEF RegsInv

(* A write: it clears the bits that it means to clear and those that were  *)
(* read as one, and no fresh error is among the latter.                    *)
LEMMA RegsInvWrite ==
  ASSUME RegsInv, WriteWord PROVE RegsInv'
<1> DEFINE w   == Now.word
           v   == call.value
           new == (v \ Now.clear) \cup Now.set
           old == regs[w]
<1>1. /\ call.todo # <<>> /\ At("write") /\ Now.is = "write"
      /\ call' = Go(Tail(call.todo), v)
      /\ regs' = [regs EXCEPT ![w] = Written(old, new)]
      /\ events' = [on       |-> IF w = "cmd"
                                 THEN (events.on \ Now.clear) \cup (Now.set \cap Enables)
                                 ELSE events.on,
                    fresh    |-> events.fresh \ Now.set,
                    recorded |-> events.recorded \ Now.set]
  BY DEF WriteWord, At
<1>2. /\ Now \in Access
      /\ Now.set \subseteq WordBits[w] /\ Now.clear \cap Status = {}
      /\ call' = [todo |-> (call').todo, value |-> (call').value]
      /\ WellFormed((call').todo)
      /\ At("write")' => (call').value = v /\ Follows(Now, Now')
      /\ ~At("write")' => (call').value = {}
  BY <1>1, RegsInvGo
<1>3. /\ w \in Words /\ v \subseteq WordBits[w] /\ old \subseteq WordBits[w]
      /\ new \subseteq WordBits[w]
      /\ Written(old, new) \subseteq WordBits[w]
  <2>1. w \in Words /\ v \subseteq WordBits[w] /\ old \subseteq WordBits[w]
    BY <1>1, <1>2 DEF RegsInv, RegsType, Access, Words, WordBits
  <2>2. QED
    BY <2>1, <1>2 DEF Written
<1>4. /\ regs' \in [cmd : SUBSET WordBits.cmd, sec : SUBSET WordBits.sec, dev : SUBSET WordBits.dev]
      /\ (regs')[w] = Written(old, new)
      /\ \A x \in Words \ {w} : (regs')[x] = regs[x]
  BY <1>1, <1>3 DEF RegsInv, RegsType, Words, WordBits
<1>5. /\ (events').on = IF w = "cmd" THEN (events.on \ Now.clear) \cup (Now.set \cap Enables)
                        ELSE events.on
      /\ (events').fresh = events.fresh \ Now.set
      /\ (events').recorded = events.recorded \ Now.set
      /\ events' = [on |-> (events').on, fresh |-> (events').fresh, recorded |-> (events').recorded]
  BY <1>1
<1>6. /\ At("write")' => (Now').word = w /\ Now.set = {} /\ Now.clear = {}
      /\ (call').value \subseteq v
  BY <1>1, <1>2 DEF Follows
<1>7. RegsType'
  BY <1>2, <1>3, <1>4, <1>5, <1>6 DEF RegsInv, RegsType
<1>8. /\ Words = {"cmd", "sec", "dev"}
      /\ Enables \cap Status = {}
      /\ regs.cmd \cap Enables = events.on
      /\ w = "cmd" => v \cap Enables = events.on
      /\ events.fresh \subseteq regs.cmd \cup regs.sec \cup regs.dev
      /\ events.fresh \cap v = {} /\ events.fresh \subseteq Status
      /\ (regs.cmd \cup regs.sec \cup regs.dev) \cap Status \subseteq events.recorded
      /\ events.on \subseteq Enables
  BY <1>1 DEF RegsInv, RegsType, Words, Enables, Status, DeviceErrors
<1>9. \A x \in Words \ {w} : WordBits[x] \cap WordBits[w] = {}
  BY <1>3 DEF Words, WordBits, ReportBits, DeviceErrors
<1>10. \A x \in Words : regs[x] \subseteq WordBits[x]
  BY DEF RegsInv, RegsType, Words, WordBits
<1> HIDE DEF w, v, new, old
<1>11. (regs').cmd \cap Enables = (events').on
  <2>1. CASE w = "cmd"
    <3>1. (regs').cmd = Written(old, new)
      BY <2>1, <1>4
    <3>2. Written(old, new) \cap Enables = new \cap Enables
      BY <1>8 DEF Written
    <3>3. new \cap Enables = ((v \cap Enables) \ Now.clear) \cup (Now.set \cap Enables)
      BY DEF new
    <3>4. QED
      BY <3>1, <3>2, <3>3, <2>1, <1>5, <1>8
  <2>2. CASE w # "cmd"
    BY <2>2, <1>4, <1>5, <1>8
  <2>3. QED
    BY <2>1, <2>2
<1>12. At("write")' /\ (Now').word = "cmd" => (call').value \cap Enables = (events').on
  BY <1>2, <1>5, <1>6, <1>8
<1>13. (events').fresh \subseteq (regs').cmd \cup (regs').sec \cup (regs').dev
  <2> SUFFICES ASSUME NEW e \in (events').fresh PROVE \E x \in Words : e \in (regs')[x]
    BY <1>8
  <2>1. e \in events.fresh /\ e \notin Now.set /\ e \notin v /\ e \in Status
    BY <1>5, <1>8
  <2>2. PICK x \in Words : e \in regs[x]
    BY <2>1, <1>8
  <2>3. CASE x = w
    <3>1. e \in old /\ e \notin new
      BY <2>1, <2>2, <2>3 DEF new, old
    <3>2. e \in (regs')[w]
      BY <3>1, <2>1, <1>4 DEF Written
    <3>3. QED
      BY <3>2, <1>3
  <2>4. CASE x # w
    BY <2>2, <2>4, <1>4
  <2>5. QED
    BY <2>3, <2>4
<1>14. (events').fresh \cap (call').value = {}
  BY <1>5, <1>6, <1>8
<1>15. ((regs').cmd \cup (regs').sec \cup (regs').dev) \cap Status \subseteq (events').recorded
  <2> SUFFICES ASSUME NEW x \in Words, NEW e \in (regs')[x], e \in Status
               PROVE  e \in (events').recorded
    BY <1>8
  <2>1. CASE x = w
    <3>1. e \in old /\ e \notin new
      BY <2>1, <1>4 DEF Written
    <3>2. e \in regs[w] /\ e \notin Now.set
      BY <3>1 DEF old, new
    <3>3. QED
      BY <3>2, <1>3, <1>5, <1>8
  <2>2. CASE x # w
    <3>1. e \in regs[x] /\ e \in WordBits[x]
      BY <2>2, <1>4, <1>10
    <3>2. e \notin Now.set
      BY <3>1, <2>2, <1>2, <1>9 DEF w
    <3>3. QED
      BY <3>1, <3>2, <1>5, <1>8
  <2>3. QED
    BY <2>1, <2>2
<1>16. QED
  BY <1>7, <1>11, <1>12, <1>13, <1>14, <1>15 DEF RegsInv

(* An error is recorded where it belongs, and is fresh unless the helper   *)
(* that runs has read its bit.                                             *)
LEMMA RegsInvError ==
  ASSUME RegsInv, HwError PROVE RegsInv'
<1> DEFINE Placed(word, e) == word \in Words /\ e \in WordBits[word] /\ e \in Status
<1>1. PICK word, e : Record(word, e) /\ Placed(word, e)
  BY DEF HwError, Words, WordBits, Status, DeviceErrors
<1>2. /\ regs' = [regs EXCEPT ![word] = @ \cup {e}]
      /\ (events').on = events.on /\ (events').recorded = events.recorded \cup {e}
      /\ (events').fresh = events.fresh \cup ({e} \ call.value)
      /\ events' = [on |-> (events').on, fresh |-> (events').fresh, recorded |-> (events').recorded]
      /\ call' = call
  BY <1>1 DEF Record, RegsInv, RegsType
<1>3. /\ regs' \in [cmd : SUBSET WordBits.cmd, sec : SUBSET WordBits.sec, dev : SUBSET WordBits.dev]
      /\ (regs')[word] = regs[word] \cup {e}
      /\ \A x \in Words \ {word} : (regs')[x] = regs[x]
  BY <1>1, <1>2 DEF RegsInv, RegsType, Words, WordBits
<1>4. e \notin Enables /\ Words = {"cmd", "sec", "dev"}
  BY <1>1 DEF Enables, Status, DeviceErrors, Words
<1>5. /\ (regs').cmd \cap Enables = regs.cmd \cap Enables
      /\ (regs').cmd \cup (regs').sec \cup (regs').dev = regs.cmd \cup regs.sec \cup regs.dev \cup {e}
  BY <1>1, <1>3, <1>4
<1>6. (At("write")' <=> At("write")) /\ Now' = Now
  BY <1>2 DEF At, Now
<1>7. RegsType'
  BY <1>1, <1>2, <1>3, <1>6 DEF RegsInv, RegsType
<1>8. QED
  BY <1>1, <1>2, <1>5, <1>6, <1>7 DEF RegsInv

(* Through every sequence of helpers and field checks, and errors that     *)
(* come between any two of their accesses, what the tests enabled is       *)
(* enabled, an error stays visible until a helper clears it that means to  *)
(* or that has read it, and no error is reported that did not happen.      *)
THEOREM RegistersTracked == RegsSpec => []RegisterChecks
<1>1. RegsInit => RegsInv
  BY RegsInvInit
<1>2. RegsInv /\ [RegsNext]_regsVars => RegsInv'
  <2> SUFFICES ASSUME RegsInv, [RegsNext]_regsVars PROVE RegsInv'
    OBVIOUS
  <2>1. CASE RegsNext
    BY <2>1, RegsInvBegin, RegsInvRead, RegsInvWrite, RegsInvError DEF RegsNext
  <2>2. CASE UNCHANGED regsVars
    BY <2>2 DEF regsVars, RegsInv, RegsType, At, Now
  <2>3. QED
    BY <2>1, <2>2
<1>3. RegsInv => RegisterChecks
  <2> SUFFICES ASSUME RegsInv PROVE RegsTracked
    BY EveryFieldChecked DEF RegisterChecks
  <2>1. /\ regs.cmd \subseteq WordBits.cmd /\ regs.sec \subseteq WordBits.sec
        /\ regs.dev \subseteq WordBits.dev
        /\ events.fresh \subseteq regs.cmd \cup regs.sec \cup regs.dev
        /\ (regs.cmd \cup regs.sec \cup regs.dev) \cap Status \subseteq events.recorded
        /\ regs.cmd \cap Enables = events.on
    BY DEF RegsInv, RegsType
  <2>2. QED
    BY <2>1 DEF RegsTracked, IsUrd, IsDeviceStatusError, IsSigTargetAbort, WordBits, Status,
                DeviceErrors, ReportBits
<1>4. QED
  BY <1>1, <1>2, <1>3, PTL DEF RegsSpec
=============================================================================
