------------------------------ MODULE PcieRegs ------------------------------
(***************************************************************************)
(* The registers of the PCIe function under test.  Tests change them with  *)
(* helpers that read a register, change some bits and write all of it      *)
(* back, while the hardware records errors in the status bits beside the   *)
(* bits that are changed; val_pcie_bitfield_check probes a field of a      *)
(* register by writing it.  A register is the set of its bits that are     *)
(* one.                                                                    *)
(***************************************************************************)
EXTENDS Naturals, Sequences

CONSTANT Bits      \* the bits of a register that val_pcie_bitfield_check probes

VARIABLES regs,    \* the words of command and status, secondary status, device control and status
          call,    \* the accesses left of the helper that runs, and the value it has read
          events   \* what the hardware and the tests did to them

regsVars == <<regs, call, events>>

DeviceErrors == {"ced", "nfed", "fed", "urd"}
Status     == DeviceErrors \cup {"sta", "ssta"}
Enables    == {"bme", "mse"}
ReportBits == {"cere", "nfere", "fere", "urre"}

(* A helper is the sequence of its accesses to configuration space: a read   *)
(* keeps the value of a word, a write puts the value back without the bits   *)
(* `clear` and with the bits `set`.                                          *)
ReadAt(word) == [is |-> "read", word |-> word, set |-> {}, clear |-> {}]
WriteAt(word, set, clear) == [is |-> "write", word |-> word, set |-> set, clear |-> clear]
Change(word, set, clear) == <<ReadAt(word), WriteAt(word, set, clear)>>

EnableBme  == Change("cmd", {"bme"}, {})
DisableBme == Change("cmd", {}, {"bme"})
EnableMsa  == Change("cmd", {"mse"}, {})
DisableMsa == Change("cmd", {}, {"mse"})

(* Nothing is read: device control is written as zero. *)
ClearUrd == <<WriteAt("dev", {"urd"}, {})>>
IsUrd(r) == "urd" \in r.dev

ClearDeviceStatusError == Change("dev", DeviceErrors, {})
IsDeviceStatusError(r) == r.dev \cap DeviceErrors # {}

ClearSigTargetAbort == Change("cmd", {"sta"}, {}) \o Change("sec", {"ssta"}, {})
IsSigTargetAbort(r) == "sta" \in r.cmd \/ "ssta" \in r.sec

DisableEru == Change("cmd", {}, {"serr"}) \o Change("dev", {}, ReportBits)

(* val_exerciser_init; BUS_MEM_EN_MASK is both enable bits. *)
ExerciserInit == Change("cmd", Enables, {})

(* val_pcie_bitfield_check of a field beside these bits, as the fields of    *)
(* the tests are: the write that clears status bits, and unless the value of *)
(* the field is wrong (n = 3) the one that probes it; a read-write field is  *)
(* then restored with the value from before the probe (n = 5).               *)
FieldCheck(word, n) ==
  SubSeq(Change(word, {}, {}) \o Change(word, {}, {}) \o <<WriteAt(word, {}, {})>>, 1, n)

Helpers ==
  {EnableBme, DisableBme, EnableMsa, DisableMsa, ExerciserInit, ClearUrd,
   ClearDeviceStatusError, ClearSigTargetAbort, DisableEru}
  \cup {FieldCheck(word, n) : word \in {"cmd", "sec", "dev"}, n \in 3 .. 5}

-----------------------------------------------------------------------------
Reset == [cmd |-> {"serr"}, sec |-> {}, dev |-> {"urre"}]
Idle  == [todo |-> <<>>, value |-> {}]

RegsInit ==
  /\ regs = Reset
  /\ call = Idle
  /\ events = [on |-> {}, fresh |-> {}, recorded |-> {}]

Begin(h) ==
  /\ call.todo = <<>>
  /\ call' = [call EXCEPT !.todo = h]
  /\ UNCHANGED <<regs, events>>

Now == Head(call.todo)
At(is) == call.todo # <<>> /\ Now.is = is

(* The value is kept as long as it will be written. *)
Go(left, value) ==
  [todo |-> left, value |-> IF left # <<>> /\ Head(left).is = "write" THEN value ELSE {}]

(* val_pcie_read_cfg in a helper.  An error that it reads is not fresh any   *)
(* more.                                                                     *)
ReadWord ==
  /\ At("read")
  /\ call' = Go(Tail(call.todo), regs[Now.word])
  /\ events' = [events EXCEPT !.fresh = @ \ regs[Now.word]]
  /\ UNCHANGED regs

(* val_pcie_write_cfg.  A status bit is cleared by writing it as one, by a   *)
(* helper that means it or one that has read it as one.                      *)
Written(old, new) == (new \ Status) \cup ((old \cap Status) \ new)

WriteWord ==
  LET new == (call.value \ Now.clear) \cup Now.set
  IN  /\ At("write")
      /\ regs' = [regs EXCEPT ![Now.word] = Written(@, new)]
      /\ call' = Go(Tail(call.todo), call.value)
      /\ events' = [on       |-> IF Now.word = "cmd"
                                 THEN (events.on \ Now.clear) \cup (Now.set \cap Enables)
                                 ELSE events.on,
                    fresh    |-> events.fresh \ Now.set,
                    recorded |-> events.recorded \ Now.set]

(* The hardware records an error, between any two accesses.  One whose bit   *)
(* the helper under way has read as one, and has cleared or will, is not     *)
(* fresh: the helper may clear it again.                                     *)
Record(word, e) ==
  /\ regs' = [regs EXCEPT ![word] = @ \cup {e}]
  /\ events' = [events EXCEPT !.recorded = @ \cup {e}, !.fresh = @ \cup ({e} \ call.value)]
  /\ UNCHANGED call

(* An unsupported request, a correctable error, or a target abort on either  *)
(* side.                                                                     *)
HwError == Record("dev", "urd") \/ Record("dev", "ced") \/ Record("cmd", "sta") \/ Record("sec", "ssta")

RegsNext == (\E h \in Helpers : Begin(h)) \/ ReadWord \/ WriteWord \/ HwError

RegsSpec == RegsInit /\ [][RegsNext]_regsVars

-----------------------------------------------------------------------------
Kinds == {"ro", "rw", "w1c"}
Attrs == {"ro", "rw", "rsvdp", "rsvdz", "other"}
Ats   == {"found", "missing", "invalid"}

(* What the hardware makes of writing w over v, hw being the kind of each    *)
(* bit.                                                                      *)
WriteReg(hw, v, w) ==
  {b \in DOMAIN hw : \/ hw[b] = "ro" /\ b \in v
                     \/ hw[b] = "rw" /\ b \in w
                     \/ hw[b] = "w1c" /\ b \in v \ w}

Flip(v, field) == (v \ field) \cup (field \ v)

(* Mutant of BitfieldCheck: a read-write field is not restored. *)
BitfieldCheck_NoRestore(hw, v, e) ==
  LET v1   == WriteReg(hw, v, v)
      flip == Flip(v1, e.field)
      ro   == WriteReg(hw, v1, flip)
      rsvp == WriteReg(hw, v1, v1)
      rsvz == WriteReg(hw, v1, v1 \ e.field)
      result(what, ok, reg) ==
        [ret |-> IF ok \/ what \in e.warnings THEN 0 ELSE 1, reg |-> reg]
  IN  IF e.at # "found" THEN [ret |-> 1, reg |-> v]
      ELSE IF v1 \cap e.field # e.value THEN result("value", FALSE, v1)
      ELSE [ro    |-> result("attr", ro = v1, ro),
            rsvdp |-> result("attr", rsvp \cap e.field = {}, rsvp),
            rsvdz |-> result("attr", rsvz = v1, rsvz),
            other |-> [ret |-> 1, reg |-> v1],
            rw    |-> result("attr", ro = flip, ro)][e.attr]

(* val_pcie_bitfield_check of the bits `field`, e.at being whether the       *)
(* function has the capability that holds the register, or the type of it is *)
(* invalid, and e.warnings which of the two messages is only a warning.  An  *)
(* attribute that is none of the known ones is `other`.  The register is     *)
(* first written with what was read, so that status bits that are one do not *)
(* disturb the comparison; only a read-write field is restored.              *)
BitfieldCheck(hw, v, e) ==
  LET v1   == WriteReg(hw, v, v)
      flip == Flip(v1, e.field)
      ro   == WriteReg(hw, v1, flip)
      rsvp == WriteReg(hw, v1, v1)
      rsvz == WriteReg(hw, v1, v1 \ e.field)
      result(what, ok, reg) ==
        [ret |-> IF ok \/ what \in e.warnings THEN 0 ELSE 1, reg |-> reg]
  IN  IF e.at # "found" THEN [ret |-> 1, reg |-> v]
      ELSE IF v1 \cap e.field # e.value THEN result("value", FALSE, v1)
      ELSE [ro    |-> result("attr", ro = v1, ro),
            rsvdp |-> result("attr", rsvp \cap e.field = {}, rsvp),
            rsvdz |-> result("attr", rsvz = v1, rsvz),
            other |-> [ret |-> 1, reg |-> v1],
            rw    |-> result("attr", ro = flip, WriteReg(hw, ro, v1))][e.attr]

-----------------------------------------------------------------------------
(* An entry of the table of fields to check, the port types left open. *)
FieldAt(at, field, value, attr, warnings) ==
  [at |-> at, field |-> field, value |-> value, attr |-> attr, warnings |-> warnings]
Field(field, value, attr, warnings) == FieldAt("found", field, value, attr, warnings)

(* A check that passes without a warning has seen that the hardware treats   *)
(* the field as the attribute says, one that fails had a reason to, and in   *)
(* both cases the bits around the field keep their value but for status      *)
(* bits, which the first write clears.  Without a register, or a known       *)
(* attribute, it never passes, and without a register it writes nothing.     *)
BitfieldChecked(hw, v, e) ==
  LET r  == BitfieldCheck(hw, v, e)
      v1 == {b \in v : hw[b] # "w1c"}
      sure == r.ret = 0 /\ e.warnings = {}
      all(kind) == \A b \in e.field : hw[b] = kind
  IN  /\ sure /\ e.attr = "rw" => all("rw") /\ r.reg = v1
      /\ sure /\ e.attr = "ro" => \A b \in e.field : hw[b] # "rw"
      /\ sure /\ e.attr \in {"rsvdp", "rsvdz"} =>
           v1 \cap e.field = e.value /\ r.reg = v1
      /\ sure => e.at = "found" /\ e.attr # "other"
      /\ e.at = "found" /\ v1 \cap e.field = e.value /\ e.attr \in {"ro", "rw"} /\ all(e.attr) =>
           r.ret = 0
      /\ e.at # "found" => r.ret # 0 /\ r.reg = v
      /\ e.at = "found" => r.reg \ e.field = v1 \ e.field

(* This is so for every register, value of it and field of it. *)
BitfieldsChecked ==
  \A hw \in [Bits -> Kinds], v \in SUBSET Bits, field \in SUBSET Bits,
     at \in Ats, attr \in Attrs, warnings \in SUBSET {"value", "attr"} :
    \A value \in SUBSET field :
      BitfieldChecked(hw, v, FieldAt(at, field, value, attr, warnings))

(* The enable bits are what the tests made them, no fresh error has lost its *)
(* bit, and no bit is seen of an error that was not recorded since the       *)
(* helper that clears it.                                                    *)
RegsTracked ==
  /\ regs.cmd \cap Enables = events.on
  /\ "urd" \in events.fresh => IsUrd(regs)
  /\ events.fresh \cap DeviceErrors # {} => IsDeviceStatusError(regs)
  /\ "sta" \in events.fresh \/ "ssta" \in events.fresh => IsSigTargetAbort(regs)
  /\ IsUrd(regs) => "urd" \in events.recorded
  /\ IsDeviceStatusError(regs) => events.recorded \cap DeviceErrors # {}
  /\ IsSigTargetAbort(regs) => events.recorded \cap {"sta", "ssta"} # {}

(* val_pcie_bitfield_check judges every small register rightly and leaves    *)
(* the bits around the field for the checks behind it; the enable bits of    *)
(* the command register are as the tests left them through all the           *)
(* read-modify-write of the helpers and the checks.                          *)
(*                                                                           *)
(* An error that the hardware records, also between the read and the write   *)
(* of a helper, stays visible to val_pcie_is_urd,                            *)
(* val_pcie_is_device_status_error and val_pcie_is_sig_target_abort until a  *)
(* helper is called that clears it, or another one (enabling the bus master  *)
(* is enough) has read its bit: writing that back clears it.  So an error    *)
(* that comes after a test has cleared the bits is there when the test looks *)
(* if no other helper came in between that writes the same word.             *)
RegisterChecks == BitfieldsChecked /\ RegsTracked
=============================================================================
