# A TLA+ model of the BSA ACS

`bsa-acs` is Arm's Base System Architecture compliance suite: a UEFI application that
runs a few hundred small tests on the bare machine, some of them on every processor,
some with interrupts, PCIe devices and SMMUs, and prints how many passed. A compliance
suite is believed, so the interesting question is whether its verdicts follow from what
the tests did. This directory models the parts on which that depends: the machinery
that runs payloads on several PEs and turns status words into verdicts, and the drivers
that share memory with hardware that runs beside them.

## 1. The system

| part | state | operations | who else touches it |
|---|---|---|---|
| Test harness, `val/src/acs_test_infra.c`, `acs_pe_infra.c`, `acs_status.c` | one `VAL_SHARED_MEM_t` per PE (`data0`, `data1`, `status`), the counters `g_bsa_tests_*`, `g_skip_test_num` | `val_initialize_test`, `val_run_test_payload`, `val_execute_on_pe`, `val_test_entry`, `val_wait_for_test_completion`, `val_check_for_error` | the secondary PEs, ISRs on the main PE, PSCI firmware |
| SMMUv3 driver, queues, `val/sys_arch_src/smmu_v3/smmu_v3.c` | command ring with producer and consumer registers, `CR0`, event and stream table memory | `smmu_init`, `smmu_reset`, `smmu_tlbi_cfgi`, `smmu_set_state`, `val_smmu_stop` | the SMMU, which fetches commands and caches tables |
| SMMUv3 driver, tables, same file | stream table (linear or two-level), list of masters, context descriptor tables | `val_smmu_map`, `val_smmu_unmap` | the SMMU, which reads the tables at any moment |
| ITS and LPIs, `platform/pal_uefi/src_gic_its/` | command queue and its write pointer, LPI configuration table, ITT | `ArmGicItsConfiguration`, `ArmGicItsCreateLpiMap`, `ArmGicItsClearLpiMappings` | the ITS and the redistributor |
| Suite application and runners, `uefi_app/BsaAcsMain.c`, `val/src/acs_*.c` | options, information tables, overall status | parse options, create the tables, run the modules in order, print, free | called once; an unexpected exception jumps to its end |
| GIC driver, `val/sys_arch_src/gic/` | handler tables, distributor and redistributor registers | install and dispatch an ISR, end of interrupt | ISRs |
| Wakeup, timer and watchdog tests | a status word, a device timer, a failsafe timer | arm, sleep, ISR, failsafe ISR | the timers |
| PCIe: enumeration, BDF table, rule tests | configuration space, `g_pcie_bdf_table` | enumerate, read, write, check a rule per function | - |
| IO virtualisation tables, page tables, information tables | tables built once | build, look up | the SMMU reads page tables |
| Linux application | proc file of an out-of-tree kernel module | write parameters, wait, read messages | the kernel module |

How they interact: the application creates the tables and calls the module runners; a
runner calls the entry function of each test; the entry function calls the harness; the
harness runs the payload, on secondary PEs through PSCI and the shared memory; payloads
call the drivers; the drivers share memory with hardware.

What is hard in it: PEs that answer after the harness has given up on them and meet the
data of the next test; interrupts that arrive after the loop that waited for them; a
status word read one by one while others write; status left over from a previous test;
polling loops whose timeouts may not run out; firmware that answers `ON_PENDING`; rings
that must tell full from empty; tables changed under a device that caches them; memory
freed while a device still uses it; early returns that leave a half-made mapping.
`PROJECT.json` lists these hazards with their lines and the properties aimed at them.

What makes each part correct:
- harness: a passed test has run and passed on every PE it is about; a failed one did
  not pass somewhere; a PE only executes the payload of the current test; a skipped test
  does not run; the printed totals add up; the suite ends;
- SMMU queue: commands are executed once, in order; after an invalidation nothing stale
  is left; no fetch from freed memory; the wait for the queue ends;
- SMMU tables: a mapped stream is translated by the page table asked for, an unmapped
  one is not translated, no entry points to freed descriptors;
- ITS: a requested MSI is delivered as its LPI, a freed one is not; nothing is enabled
  before its tables are in place; every call returns; the queue is not overrun;
- suite: every selected test runs, no other does; tables are freed; the exit is reached;
- interrupts: every interrupt that is dispatched has its routine, a sleep ends, and a test
  leaves no timer running for the next one;
- page tables: the walk of the SMMU gives what the caller asked for; pages are owned once
  and given back;
- information tables: what a test reads from a table is what the hardware is, whichever
  way firmware describes it;
- PCIe: every bus is reached through one bridge, every function is listed once with the
  root port above it, and a register check leaves the register as it was.

## 2. Modules

Each `Op_Slip` operator in a module is a mutated form of `Op`; no action uses it. It
records a slip in the code that the property named in `PROJECT.json` detects.

### Harness (proofs in HarnessProofs, instances in MCHarness)

The main PE is a sequential process (`pc`) that goes through `NumTests` tests. A step is
one access to shared memory, one PSCI call or a stretch of code that only touches the
PE's own state. Test payloads are abstracted to their form and their result, any of
PASS, FAIL and SKIP. There are seven forms; each is taken from tests of `test_pool`:

| form | tests | what differs |
|---|---|---|
| `sync` | os_t001, os_g001 and most others | the payload writes its result on the main PE |
| `irq` | os_c010 | waits for an ISR; `val_initialize_test` sets PENDING for all PEs |
| `irqset` | os_w002, os_t004, os_d003 | the payload writes PENDING itself before it arms the device |
| `irqv2m` | os_v003 with one frame | `val_initialize_test` sets PENDING for PE 0 only; a second doorbell write |
| `irqpend` | os_v004 with one frame | as `irqv2m`, but the first interrupt must not come, and the loop that has seen to it leaves no time for the second |
| `all` | os_c002 .. os_c020 | main PE first, then every other PE through PSCI, then a scan |
| `remote` | os_c001 | one PE after the other, with a wait for each |

`status[p]`, `data[p]` are the fields of the shared memory; `data1` is written and read
with `data0` and adds nothing. `power[p]` is the PE's progress between `PSCI_CPU_ON` and
`PSCI_CPU_OFF`: `booting` in firmware, `entry` in `val_test_entry` before `data0` is
read, `run`, `report` (os_c001 has stored its debug value and not yet its status),
`exit`, `lost`. `Isr(t)` may be taken between any two steps of the main PE.
`UnexpectedException` is `val_pe_default_esr`. Shared memory starts uncleared.
`ran`, `verdict` and `timedOut` are history variables: what the payloads really
reported, what the entry functions returned, whether a polling loop has expired.
`<<t, p, "STRAY">>` in `ran` says that the main PE took the interrupt of another test during
`t`; `PassIsEarned` is about the tests to which that did not happen.

Properties with `~timedOut` in front say what holds as long as no polling loop has
expired. That condition is not decoration: after a timeout the PE that was given up may
still run, and the findings show what it then does. `SkipHonoured`, `Accounting` and
`SuiteEnds` hold without it.

### SmmuCmdq, CmdFifo (proofs in SmmuCmdqProofs, instances in MCSmmuCmdq)

The driver's side of one SMMU: `SmmuInit` and the `smmu_reset` sequence, a table change
followed by `smmu_tlbi_cfgi` (its four or five commands are written and the producer
register updated one at a time), `smmu_set_state`, `val_smmu_stop`. Beside it the SMMU
(external) acknowledges `CR0`, fetches a command, completes it, or stops with a command
error. Pointers carry the wrap bit of the code. `CmdFifo` is the abstract queue: a
sequence, commands appended at one end and taken from the other.

### SmmuMap (proofs in SmmuMapProofs, instances in MCSmmuMap)

`val_smmu_map` and `val_smmu_unmap` for linear and two-level stream tables, with each
early return as an action that leaves behind what was done before it (the master in the
list, its claim, the level 2 table, the context descriptors). The SMMU (external) looks
up a stream and caches the result between any two steps. `smmu_tlbi_cfgi` is one step
here: SmmuCmdq shows that nothing cached survives it. Field encodings of an entry are
abstracted to what the entry selects.

In SmmuMap `TwoLevels` gives the kinds of stream table a run looks at and `twoLevel` the
one of this SMMU. `Streams` says which stream IDs the callers use with which SMMU; the runs
allow all. `UnmappedAbort` is what the comment on `val_smmu_unmap` promises;
`LinearUnmappedAbort` is the part of it that holds.

### Its (proofs in ItsProofs, instances in MCIts)

MSIs through the ITS, from `val_gic_its_configure` to `val_gic_request_msi` and
`val_gic_free_msi`. The set up is a sequence of steps (`pc` from `find` to `tables`) each
of which may fail and leaves what was programmed before; `regs` records the base
registers that hold a table, `setup = "done"` is `g_its_setup_done`. A call then writes
the configuration byte, enables redistributor and ITS, writes its commands one at a time
(`Batch`), sets `GITS_CWRITER`, polls with retries for a stalled ITS (`Poll`), and
programs or clears the MSI-X vector (`WriteMsix`). Beside it the ITS executes or stalls
and the redistributor reads configuration and applies an `INV` some time after the ITS
has executed it; `SYNC` waits for that. All devices of an ITS share one interrupt
translation table, as in the code. When the IO virtualisation table does not know a
device, `its_id` is uninitialised: `Route` is any ITS or none, chosen anew by each call.

`expired` remembers that a poll was given up: delivery is claimed only before that, since
commands may then be executed during a later call. `strayed` remembers LPIs freed at
another ITS than requested. Callers are taken as the tests use the interface: vector 0,
and an LPI for one device at a time. The write pointer never wraps in the code; the model
covers the runs in which it stays inside the queue.

### Suite (proofs in SuiteProofs, instances in MCSuite)

`ShellAppMain` and the ten module runners: `ParseOptions`, one action per information
table (`Create`), `Runners` that decides whether a module runs and puts its tests into
the set `todo`, `RunTest`, which takes the one with the smallest number (the runners call
them in that order), `EndModule`, `PrintStatus`, `FreeBsaAcsMem`. `short` is the set of
buffers for which there is no memory, `plat` what the runners ask the platform for.
`Exception` may be taken at any moment from the installation of the default handler to the
end of `freeBsaAcsMem`, `print_test_status` included, and goes to `print_test_status`, from
where `freeBsaAcsMem` starts over. The handler itself reads the PE table and the shared memory:
where one of them is missing, not yet allocated or already freed it may raise a second
exception (`pc = "nested"`). A test is one step with any result: what happens inside is
Harness. `ran`, `passed`, `aborted`, `freed` and `twice` (`FreePool` got a buffer again) are
history.

### Wakeup (proofs in WakeupProofs, instances in MCWakeup)

Interrupts on the primary PE. `gic` (`enabled`, `handler`, `vector`, `masked`, `open`, `active`)
is distributor, redistributor, CPU interface and vector table for a GICv2, a GICv3 or the
firmware's own driver. `DisableAll` to `CpuIfInit` are the steps of `val_gic_init` between
which an interrupt may arrive; `TakeInterrupt(s)` is exception entry, dispatch, the
routine and the end of interrupt, which the routine and the dispatcher share in
different ways on the three controllers. `StartTest` to `CheckForError` are the payloads of
`os_u001`: find a watchdog or a frame, install the routine, set the failsafe timer, arm,
`WFI`, clear the failsafe. `Expire(s)` lets a timer run out at any moment; `WfiOther` ends
`WFI` for a reason of its own, as the architecture allows. `early`, `wild` and `why` are
history: a `WFI` that ended before its interrupt, an interrupt dispatched without routine or
with a `timer_num` out of range, and the reasons a test had to fail.

### Pgt (instances in MCPgt)

`val_pgt_create` with `fill_translation_table`, `val_pgt_destroy` and
`val_pgt_get_attributes`, for any number of entries in a table, any input size of up to four
levels and any heap. `frame` is the stack of the recursive calls. Each round of a loop is a
step: `FillPage` and `FillBlock` write a descriptor, `FillOld` and `FillNew` call down into a
table that is there or is allocated, `FillFails` is the allocation that fails, `FillReturn` links
a finished table, `UnwindNested` and `CreateFails` free on the way up. So the heap may run out in
any round, and `val_pgt_create` goes over the region again with the tables of the round before.
Addresses are counted in pages: a mask is a remainder and a shift a quotient. `Low` is 2^32
bytes, to which `~(page_size - 1)` cuts page and table addresses. `taken`, `lost` and `made` are
history: the pages of the call, the pages that failed creations left, and the addresses each
table was allocated for. `Walk` (external) is the translation that the SMMU makes.

`PgtAssumption` says of the constants what holds for every Armv8 SMMU (at most four levels, sizes
that fit each other), of the platform that the heap lies below the input size, to which
`val_pgt_destroy` cuts addresses of tables, and of the callers that the first region, once cut to
the input size, ends within it. `fill_translation_table` also cuts the address of a table that it
links to 32 bits; that the heap lies below 4 GB, where this does no harm, is not assumed but a
hypothesis of the theorems, `HeapBelow4G`: nothing in the code ensures it (section 5). The
instances satisfy it. `Translates` is about arrays of one region, which is what every caller
passes (test_os_e005.c, test_os_e013.c); arrays of two are in the run for `Owned` and `NoLeak`.

### Information tables: Fdt, Gtdt, Madt, Iort, Devices, Pcie, PcieRegs, Firmware, InfoTables (proofs in PcieRegsProofs, instances in MCInfoTables)

Each createXInfoTable function is a pure algorithm from what firmware gives to a table, and each
`val_*_get_info` one from a table to an answer. They are written as operators, one module
per group:

| module | code | from | read by |
|---|---|---|---|
| Gtdt | `pal_timer_wd.c` (ACPI and device tree), `acs_timer.c`, `acs_wd.c` | GTDT, timer and watchdog nodes | `TimerInfo`, `WdGet`, `WdSetWs0` |
| Madt | `pal_pe.c`, `pal_gic.c`, `acs_pe_infra.c`, `acs_gic.c`, `acs_gic_v2m.c`, `ModuleEntryPoint.S` | MADT, cpu, pmu and gic nodes | PE index, stacks, GIC bases, ITS and MSI frames |
| Iort | `pal_iovirt.c`, `acs_iovirt.c` | IORT, SMMU and PCI nodes | requester ID to device ID, stream ID and ITS; overlap of stream IDs |
| Devices | `pal_peripherals.c`, `pal_pcie_enumeration.c`, `acs_peripherals.c`, `acs_memory.c` | PCI handles, SPCR, nodes, memory map | instances, memory types, holes |
| Pcie | `pal_pcie.c`, `pcie.c`, `acs_pcie.c`, `acs_exerciser.c`, `pal_exerciser.c` | MCFG, nodes, configuration space | bus numbers, functions, root ports, BARs |
| PcieRegs | `acs_pcie.c`, `acs_exerciser.c` | registers of a function | enable bits, recorded errors, `BitfieldCheck` |
| Fdt | `pal_dt.c` | | cells and compatible strings |

`Firmware` goes the other way: it writes hardware down as ACPI tables and as device tree, so
that both descriptions of one machine can be compared with the machine. `InfoTables` is the
state machine: the tables are made one after the other as the application does, and the
invariants compare what the tests will read with the hardware. A platform that is described by
ACPI tables is read by both builds of the suite: `"acpi"` is the library `pal_uefi`, `"dt"` is
`pal_uefi_dt`, which takes no GICH and no MSI frames from a MADT.

For one platform the tests and the hardware then change the command, status and device control
registers of a function. `PcieRegs` is a state machine of its own: a helper is the sequence of
its configuration accesses (`ReadWord`, `WriteWord`), a write puts back all of what was read,
and between any two accesses the hardware may record an error (`HwError`). The accesses of a
field check to these words (`FieldCheck`) are among the helpers. `InfoTables` takes the steps
of `PcieRegs` once the tables are made. `BitfieldCheck` is `val_pcie_bitfield_check` on a
register of `Bits`, each of which the hardware may treat as read-only, read-write or cleared
by writing one; `RegisterBitfieldsCheck` makes the checks of a table on every function, after
what `val_pcie_disable_eru` has left of the register (`AfterEru`).

Numbers are small stand-ins (`Word`, `IdSpace`, `MaxBus`, `MaxDevs`, `MaxBuses`, each
defined next to the value in the code); a number that is cut to 32 bits in the code is cut to
`Word` in the model. A read behind a property or of memory that was never written gives
`Junk`, a number no platform uses.

## 3. Runs

| run | what it shows | distinct states |
|---|---|---|
| `multi` | three PEs, the main PE in the middle, `os_c001`, a watchdog test, then an `all` test: failures are earned, only current payloads run, the inductive invariant holds, statuses are stable while read, the suite ends | 973 k |
| `mix` | two PEs, five tests: `os_v004` directly after `os_v003`, an `all` test, a skipped one, an interrupt test, so that a loose interrupt meets each of them: skipping, accounting, earned passes, end | 356 k |
| `late` (violation) | a PE that has reported nothing in a passed test | |
| `ring` | ring of four entries implements the FIFO; invalidations are complete; no fetch after stop; the wait ends | 8 k |
| `streams` | two streams, both stages, linear and two-level table, mapped and unmapped in any order with failing allocations | 3.8 M |
| `unmap2` (violation) | `val_smmu_unmap` on a two-level table leaves the stream translated | |
| `msi` | two ITSs, a known and an unknown device that share an LPI: programmed vectors are delivered, released LPIs are not, tables come before enables, calls return | 945 k |
| `suite` | the application with every combination of options, missing memory and platform, exceptions from the installation of the handler to the end: the inductive invariant holds, tests that run are asked for, those asked for and possible run, tables are released, and freed once unless `freeBsaAcsMem` is interrupted | 2.2 M |
| `wakeup` | `os_u001` on three kinds of interrupt controller: no stray dispatch, nothing left behind, failures explained, guarded sleeps end | 147 k |
| `pgt` | two page tables made and destroyed in any order on a heap that runs out: owned once, freed once, nothing lost, translation of one region as asked for | 1.3 M |
| `tables` | all information tables for 2592 platforms, compared with the hardware; PCIe registers under test, access by access, with errors in between | 183 k |
| `rootport` (violation) | an endpoint whose BAR looks like bus numbers is taken for a root port | |

Bounds. Three PEs are needed for two PEs to be pending at once next to the main PE, two
tests for a PE of one to meet the next. `PollLimit` and `OnRetries` stand for
`TIMEOUT_LARGE`: two or three rounds already let every loop end early, in its last
round, or by expiry. A ring of four entries is the smallest power of two that holds the
three to five commands of an invalidation only with wrapping. `MaxMasters` and `MaxCds`
allow one more than the streams in use, so that allocation can both succeed and fail;
`SidLimit` and `Split` keep the values that decide the level of a stream. Page tables
are symmetric. `msi` needs two ITSs for a free to go astray and two LPIs for one to be in
use while the other is freed; `MaxCommands` lets a call start with a command of an earlier
one left in a queue.

`suite` follows 20 of the tests, at least one for each runner, view and condition; the others
differ from one of these only in their number. Five skip lists hold modules, single tests and
a full list of nine, but not 701 or 702 (section 5); each buffer is missing alone, and all
behind PCIe together; a platform lacks at most one thing, because the conditions of the runners are independent. `wakeup` has
two watchdogs, so that one can be secure and the other not, one frame, and eight platforms:
each controller, and each thing that can be missing or refused. `pgt` has three levels of two
entries: blocks exist on two levels, tables on two, and a region can start and end within each;
seven pages are enough for two tables of three levels and few enough to run out; `Low` lies
inside the output space, so that some regions are cut. `tables`
varies one part of a plain platform at a time, since no table is made from two parts: up to
three blocks of frames, up to three PEs with gaps in their affinities, each read by both
builds, chains of IORT nodes in both directions with ranges that touch and overlap, also with
something behind the mappings that reads as one more, three controllers on two buses, and
hierarchies with up to three bridges, a switch, two functions and two segments. Registers of
three bits (`Bits`) have room for a field of every kind of bit and bits around it.

Deadlock checking is off but for `pgt`: a finished suite, a stopped driver and a full list of
masters are legitimate ends.

Fairness. `Harness!FairSpec` has weak fairness of the main PE's step and nothing else:
the PE executes instructions, while firmware, other PEs and devices may do nothing for
ever. `SmmuCmdq!FairSpec` has weak fairness of the driver, and of the SMMU's fetching
and completing, for which an enabled SMMU without a command error exists; the driver alone
does not guarantee its end (section 5). `Its!FairSpec` has weak fairness of the PE inside a
call only: `CallReturns` holds with an ITS that never executes anything.
`Wakeup!FairSpec` has weak fairness of the PE, of each counter (they count) and of taking a
signalled interrupt (interrupts are unmasked); it has none for `WfiOther`, on which no program
may rely.

## 4. Proofs

`HarnessProofs` (for all numbers of PEs and tests, and all timeouts):
- `TypeCorrect`: no index leaves the shared memory. `TypeOK` is also the first conjunct of
  `HarnessInv`, as which the runs check it.
- `HarnessInvariant`: `HarnessInv`, which is inductive. `PassIsEarned` is not: the proof
  needs that until a timeout nothing of an earlier test is left over. `ActiveIsCurrent`
  says so of PEs (one that has been started and has not reported belongs to the current
  test, finds its payload in `data0` and has a PENDING status), `ArmedIsCurrent` of
  devices, `ResultIsStatus` and `PassIsResult` tie the status words to what the payloads
  reported, `NotStarted` and `ScanProgress` carry this through the loops, and
  `VerdictEvidence` records it for finished tests.
- `PassEarned`, `CurrentPayload`, `ResultsStableThm` follow from it.

These four (not `TypeCorrect`), and `FailEarned` below, assume `NoLooseIrq`: no test of the forms
`irqv2m` and `irqpend`. With one they are false: its second interrupt may be taken during a
later test, and on a main PE other than PE 0, whose slot `val_initialize_test` does not reset, it
starts with the status that the previous test left. The run `mix` checks what `PassIsEarned`
says of suites with such tests.

With a few invariants beside it, of which `SkipInv` and `AccountingInv` need no `NoLooseIrq`:
- `SkippedNeverRun`: `SkipHonoured`, for `SkipChecked` (no skipped test whose entry function
  ignores the skip status). `SkipInv` follows a test number through the four places from which a
  payload can be started: the control point, an armed device, `data0` and a PE that has
  loaded it. It needs no `~timedOut`: a PE that was given up never picks up a skipped test;
- `EveryTestCounted`: `Accounting`, without any hypothesis. The counters are tied to the
  cardinality of the set of verdicts, so each step that counts needs that the current test
  has no verdict yet (`AccountingInv`);
- `FailEarned`: `FailIsEarned`, for `NoLooseIrq` and `MainNotLast` (where `os_c001` runs the
  main PE is not the last PE; section 5 says what happens there).

`SmmuCmdqProofs` (for every ring size that is at least an invalidation,
`QueueHoldsBatch`; with two entries the driver overruns the ring, since it compares
copies of the pointers that are never updated): `SmmuInvariant` relates the pointers,
the commands in the ring and the FIFO; `InvalidatedThm`, `NoFetchThm` and
`FifoRefinement` (every step of the ring is a step of `CmdFifo` or a stutter) follow. The FIFO
has two steps, a command goes in or the oldest comes out, so none is lost or overtaken.

`SuiteProofs` (for every set of tests, command lines, platforms and missing buffers):
`SuiteInvariant`, `OnlyAskedRun`, `AllAskedRun`, `EverythingReleased`, `NothingFreedTwice`.
`OnlyAskedRun` has the hypothesis `SkipsChecked`, that no list after `-skip` names 701 or 702,
whose entry functions do not look at the answer; the others have none. `OnlyAsked` is
not inductive: it needs that the globals say what the command line says once it is
parsed (`Parsed`) and that `todo` holds nothing excluded (`TodoAsked`). `AllAsked` needs
`Progress`: the tests of the runners that have returned have run, those of the current one
have run or are in `todo`, but for what the platform does not allow; and `BdfMade`: the
exerciser runner makes no table of functions that the PCIe runner went without.

`WakeupProofs` (for any number of watchdogs, frames and platforms): `WakeupInvariant`,
`QuietBetweenTests`, `FailIsExplained`, `NoStrayInterrupt`. `WakeupInv` says of each control point
which round the payload is in, which interrupts have which routine, which timers may be
armed and, unless a `WFI` has ended early, that the status word is explained by the round.
`NoStrayInterrupt` adds when the vector is installed and what is enabled then; it assumes
`TickKnown`: a firmware that lets the EL1 physical timer tick names its interrupt, for
otherwise `val_gic_init` cannot turn it off.

`ItsProofs` (for any number of ITSs, devices and LPIs, any queue length, no hypothesis):
`ItsInvariant`, `TablesFirst`, `RequestedAreDelivered`, `FreedAreSilent`. The heart of `ItsInv` is
`Queues`: the queue of the call holds the last commands of its batch, so the number of
commands executed is known, and `Effects` says what each of them has brought about: after
the fifth (`SYNC`) the redistributor has read the configuration again. `Delivery` keeps that
for the vectors in use while other calls run, and `Vectors` that an LPI has one holder.

`SmmuMapProofs` (for any number of SMMUs, streams, page tables and bounds): `LinearTables`,
`NeverDangling`, `UnmappedIsSilent`, `MappedIsServed`. `MasterInv` is about the list of masters: no two
have a stream or a table of context descriptors in common, each table in it is allocated, and
the master of the call under way is where the call left it. On it rest `Linear` (an
entry that translates has a master with its context descriptors; a stream that is not mapped
neither translates nor is cached) and `Reached` (the entry of a mapped stream is reached through a
valid level 1 descriptor, leads to a table the stream's master owns, and is cached as
such). What they assume of the callers is needed; TLC finds a counterexample without each:
- `NoStreamZero`, no stream has the ID 0: with `Sids = {0, 1}` a cleared master shadows the one of
  stream 0, and `LinearUnmappedAbort` fails;
- `OneSmmu`, a stream ID is used with one SMMU: the list is searched by stream ID alone, and
  with two SMMUs that share an ID `MappedTranslate` fails;
- `Apart`, for two-level tables, `val_smmu_unmap` of one stream hits no level 1 descriptor of
  another: with `Sids = {1, 2048}` and a level 2 table for 256 streams, the abort entry
  written for stream 1 lands on the descriptor of stream 2048, and `MappedTranslate` fails.

`PgtProofs` (for every number of entries, input and output size, heap and set of regions that
`PgtAssumption` allows, each under the hypothesis `HeapBelow4G`): `OwnedHolds`, `NoLeakHolds`,
`TranslatesHolds`.
- None of the three is inductive. What `val_pgt_create` must not do is put a block or another
  table where a round before has linked a table, for that would drop a page; what unwinding
  must not do is free a table that something refers to. `IInv` says why neither happens. Each
  table remembers in `made` for which addresses it was allocated. `Links`: a table that is linked
  was made for exactly one round of the loop over the table above, a round that descends.
  `RoundsApart`, the arithmetic heart: two rounds of a loop never have the same entry, since a
  loop makes fewer rounds than there are entries. So the same round comes back to the same
  entry, finds the table, and decides as before. `Once` (each page is referred to at most once) and
  `Waits` (the table below a frame is the one its entry holds, or nothing refers to it yet)
  carry this through the stack. `TreeReached` ties the levels that `free_translation_table`
  and a walk go through to the pages that were taken.
- `MapInv` adds what the tables translate: each table is made for all of the region that lies in
  the block it stands for (`Exact`), each page or block was written by a round (`Leaves`), and a
  table that is linked has all its entries (`Complete`, from `Filled` for the loops under way).
  `SubExact` passes `Exact` down, and `WalkGood` follows both walks down a complete tree.

`PcieRegsProofs` (for every set `Bits`, no hypothesis), about the specification `RegsSpec` of
`PcieRegs`, whose variables no step of `InfoTables` changes but by a step of `PcieRegs`:
- `EveryFieldChecked`: `BitfieldsChecked`, by following the register through the writes of the
  check. `FlipField` is the core: the flipped field is taken as a whole exactly if all its bits
  are read-write and refused as a whole exactly if none is, so the comparison of one value decides
  the field; `RestoreField` says that the last write undoes the probe. Both need that the first
  write has cleared the status bits (`FirstWrite`), the reason the code gives for it.
  `NoRegister` is about a function without the capability and a register type that is unknown.
- `RegistersTracked`: `RegisterChecks`. The property is about the registers between any two
  accesses, so the inductive `RegsInv` has to speak of the value that a helper has read and
  will write back: it holds no error that is still fresh, and its enable bits are those of the
  register. `WellFormed` is what that needs of a helper, that it writes back only the word it
  has read; `HelpersFormed` shows it of all helpers.

The instances of `streams`, `unmap2` and `wakeup` meet these hypotheses; their MC modules say so
with an `ASSUME` that TLC evaluates.

The strengthened invariants were checked with TLC on the instances of the runs before they
were proved; `SuiteInv` stays in its run, the others hold on the instances of `multi`, `mix`,
`msi`, `streams` (with `MaxMasters = 2`), `wakeup`, `pgt` and `tables`.

Only model-checked: the liveness properties `SuiteEnds`, `PollEnds`, `CallReturns` and
`SleepEnds`, since the prover does not handle fairness; and the
information tables (but for the registers), which follow loops with recursive operators, about which the
prover cannot reason, over tables of any length, which would take induction over data. Every
other property that a passing run checks is stated by a theorem.

## 5. What the checks found

Three findings in `PROJECT.json` have a run: `late`, `unmap2` and `rootport`. The models show
further behaviour of the code. Some of it is decided by the choice of constants, some is what a
property has to leave out, and the comment of that property says so.

Harness
- `os_c001` when the main PE is the last PE: its own status stays PENDING and
  `val_check_for_error` counts a failure although every PE passed;
- `os_v003` on a main PE other than PE 0 returns the status of the previous test;
- `os_v003` writes the doorbell a second time and does not wait for the interrupt, since its
  status is not PENDING any more; the interrupt may be taken during `os_v004`, which follows
  directly (acs_gic.c:83), or during a later test, whose status its ISR then sets to PASS;
- `os_v004` does not reset its timeout between its two loops: when the first has shown that the
  interrupt does not come the second has no round left and the payload writes FAIL. It passes
  only if the ISR overwrites that before `val_check_for_error` looks;
- `os_w001`, `os_w002` run their payload when skipped: the test belongs to `NoSkipCheck`
  and breaks `SkipHonoured` if it is also in `Skip`.

SMMU and ITS
- a command queue of two entries is overrun (`Entries = 2`, `Invalidated` fails);
- `smmu_cmdq_poll_until_consumed` never counts its timeout down (smmu_v3.c:129): after a command
  error it polls for ever;
- `smmu_reset` returns 1 both ways while `smmu_init` takes 0 as the failure (smmu_v3.c:980), so an
  SMMU that did not acknowledge `CR0` counts as initialised;
- a master cleared by `val_smmu_unmap` keeps its place with stream ID 0 and shadows the
  master of stream 0 (`0 \in Sids`, `LinearUnmappedAbort` fails); with two SMMUs, equal stream
  IDs share one master (`NumSmmus = 2`); on a two-level table `val_smmu_unmap` may overwrite the
  level 1 descriptor of another stream (section 4);
- `pal_gic_request_msi` returns success when the set up has failed, and the vector is
  programmed although nothing is mapped (`RequestedDelivered` is about `setup = "done"`);
- a device whose MSI was freed is delivered again when another device of the same ITS
  requests that LPI, because they share the translation table;
- `create_va_pa_mapping` of test_os_e013.c fills a copy of the master attributes and the caller
  unmaps with its own, uninitialised ones (read in the code, not modelled).

Suite
- `-skip 701` and `-skip 702` skip nothing: the entry functions of the watchdog tests ignore the
  answer of `val_initialize_test`, where the help text (BsaAcsMain.c:258) says that the number
  of a test skips it. `OnlyAsked` counts such a test as not asked for and fails on such a list,
  which the hypothesis `SkipsChecked` and the lists of the run leave out;
- an exception inside `freeBsaAcsMem` makes it start over, and `FreePool` gets the pointers that
  were freed before it again; `FreedOnce` leaves this case out;
- a token after `-skip` that is no number counts as 0, which is the number of the PE module; more
  than nine numbers are written behind the array;
- skipping `os_p001` ends the PCIe module; without memory for the table of functions its pointer is
  read as NULL (acs_pcie.c:296);
- the tables of memory regions and of PCIe functions are never freed; `-help` leaves the log open;
- an exception before the shared memory is allocated, or after it is freed, may raise another
  one in its handler.

Interrupts
- `payload3` sets no failsafe timer and sleeps on when its interrupt comes before `WFI`; with a
  fast counter the failsafe timer may run out before the wakeup it guards; a wakeup that comes
  late finds the `timer_num` of another round;
- a GICv3 whose redistributor is not found keeps its PPIs enabled; `val_gic_install_isr` accepts
  the interrupt number behind the last;
- in `payload1` the FAIL of an installation is overwritten by the PASS of a later round.

Page tables
- the loop over the regions reads the first one in every round, so the second region of an array
  is never mapped, where the comment on `val_pgt_create` (acs_pgt.c:140) speaks of an array.
  `Translates` claims nothing for an array of more than one region; no caller passes one;
- a region that crosses a block without starting on it lands at the wrong end of a table;
- `page_size` has 32 bits, and so has `~(page_size - 1)`: a page or a table above 4 GB gets a
  descriptor without the upper half of its address (acs_pgt.c:69 and 119; a block does not).
  `Translates` leaves out regions above 4 GB, and the theorems and the run a heap that lies
  there (`HeapBelow4G`);
- a creation that fails leaves completed subtables and the root allocated;
  `val_pgt_get_attributes` succeeds for a descriptor that was never written.

Information tables
- the first frame of every timer block but the first is looked for in the block before it; the
  second watchdog node of a device tree is read from a wrong cell when interrupts have several
  cells;
- `val_wd_set_ws0` cuts the control base to 32 bits, so for a watchdog above 4 GB it reads the
  revision at a wrong address and may lose the upper part of the count; its comment has the
  timeout in ticks (acs_wd.c:156) while it multiplies it by the counter frequency, as callers
  that pass seconds need. `TimeTables` judges neither;
- IORT nodes that come before the nodes they refer to may get two blocks, and so may a root
  complex with a PMCG;
- `check_mapping_overlap` ends ranges one ID early, so that it misses an overlap in the last ID,
  where its comment (pal_iovirt.c:109) has "any overlap of ID ranges"; it takes a single ID mapped
  to 0 for all IDs; and in the block of the mapping it compares it counts all mappings but one,
  however many are left (pal_iovirt.c:139-145), and reads behind them. The search for the SMMU of a root
  complex compares the first word of blocks of every type (pal_iovirt.c:449). `IdTables` claims
  what is left;
- `iort_add_block` clears bytes 16 to 23 of the name of a named component,
  which share their place with `smmu_base` (pal_iovirt.c:327);
- `pal_uefi_dt` finds no GICH and no MSI frame where firmware has a MADT, so a platform with MSI
  frames counts as one without;
- the loop over PMU strings shares its counter with the loop over interrupts; the number of
  redistributors of a GICv2 in a device tree is not initialised; a secondary PE with all
  affinities 0 has its stack in front of the allocation; `val_pe_get_mpid_index` lets an index
  equal to the number of PEs pass;
- a controller at 00:00.0 is taken for the end of the search, behind one at the last device of
  the last bus the search starts again without end, and controllers on later buses with lower
  device numbers are missed; `val_get_max_memory` misses regions that touch; the memory table is
  not bounded.

PCIe
- the table of functions has 8192 bytes, which hold half of the "2048 valid BDFs" of
  bsa_acs_pcie.h:66; the list of exercisers holds 20 and is not guarded, and ignores segments;
- a cyclic list of capabilities is followed for ever; bus numbers past 255 are not guarded;
- `val_pcie_clear_urd` zeroes the device control register;
- a helper that only sets an enable bit, such as `val_pcie_enable_bme`, and
  `val_pcie_disable_eru` write back the status bits they have read and so drop errors recorded
  before; the restoring write of a field check clears an error that comes back while it runs.
  `RegisterChecks` promises an error to its reader only until a helper has read its bit.

## 6. Not modelled, and the plan

Not modelled: printing and formatting; the encodings of registers and descriptors; the PCIe
rule tests and the PE feature tests beyond their form (each compares register fields with
constants; the walk over the functions, the lookups and the register checks they share are
in Pcie and PcieRegs); the exerciser tests, which drive a device outside the repository through its
own registers; `os_u002`; the search for ACPI tables; the DMA table, whose creation nothing
calls; the Linux application, whose protocol its kernel module defines, which is not in
the repository.

Modelled in this order, each on its own and joined where they interact (SmmuCmdq under
SmmuMap, Harness under Suite, the tables under Its and Suite): Harness, SmmuCmdq, SmmuMap,
Its, Suite, Wakeup, Pgt, the information tables. Left, in this order:
1. proofs: what holds of Harness after a timeout, and of SmmuMap for callers that use stream
   ID 0 on a linear table;
2. an abstract specification of a stream table (a map from streams to page tables) that SmmuMap
   implements where its hypotheses hold;
3. `os_u002`: a second PE asleep while the main PE's timer runs, with Wakeup and Harness joined;
4. the exerciser tests of ATS and MSI over SmmuMap and Its.
