------------------------------ MODULE Harness ------------------------------
(***************************************************************************)
(* The test harness of the VAL (val/src/acs_test_infra.c, acs_pe_infra.c,  *)
(* acs_status.c): the main PE runs the tests one after another, starts     *)
(* their payloads on the secondary PEs through PSCI, polls the shared      *)
(* memory for their results and turns these into a verdict per test.       *)
(*                                                                         *)
(* The shared memory has one VAL_SHARED_MEM_t per PE: data0, the payload   *)
(* the PE is to execute (data1, its argument, is written and read together *)
(* with it and carries nothing of its own), and status.  A payload is      *)
(* named by its test.  A step is one access to shared memory, one PSCI     *)
(* call, or one piece of code that touches only its PE's own state.        *)
(*                                                                         *)
(* Seven forms of test occur in test_pool:                                   *)
(*   "sync"   one PE, the payload writes its own result (os_t001, os_g001) *)
(*   "irq"    one PE, the payload waits for an ISR to replace the PENDING  *)
(*            that val_initialize_test has set for all PEs (os_c010)       *)
(*   "irqv2m" as "irq", but val_initialize_test is called for one PE only, *)
(*            and the payload triggers the interrupt a second time without *)
(*            setting PENDING again (os_v003 with one MSI frame)           *)
(*   "irqpend" as "irqv2m", but the interrupt must not come: its ISR makes *)
(*            the payload fail, and a loop that has expired leaves no time *)
(*            for the second interrupt, which should come (os_v004)        *)
(*   "irqset" as "irq", but the payload first writes PENDING itself        *)
(*            (os_w002 with one watchdog, os_t004 with one timer)          *)
(*   "all"    every PE runs the payload (os_c003 .. os_c020)               *)
(*   "remote" the main PE starts a check on each other PE in turn and      *)
(*            waits for it (os_c001)                                       *)
(***************************************************************************)
EXTENDS Integers, FiniteSets

CONSTANTS
  NumPe,        \* val_pe_get_num()
  MainPe,       \* index of the PE the application runs on
  NumTests,     \* number of tests in the run
  Kind,         \* Kind[t]: the form of test t
  Skip,         \* g_skip_test_num: the tests the user asked to skip
  NoSkipCheck,  \* tests whose entry ignores ACS_STATUS_SKIP (os_w001, os_w002)
  PollLimit,    \* stands for TIMEOUT_LARGE in the polling loops
  OnRetries     \* stands for TIMEOUT_LARGE in val_execute_on_pe

PE       == 0 .. NumPe - 1
Tests    == 1 .. NumTests
Kinds    == {"sync", "irq", "irqset", "irqv2m", "irqpend", "all", "remote"}
IrqKinds == {"irq", "irqset", "irqv2m", "irqpend"}
V2mKinds == {"irqv2m", "irqpend"}
Results  == {"PASS", "FAIL", "SKIP"}
Debug    == -1      \* os_c001 leaves a register value in data0
NoTest   == 0       \* RESULT_FAIL(0, ..): a status that names no test

ASSUME HarnessAssumption ==
  /\ NumPe \in Nat \ {0}
  /\ MainPe \in PE
  /\ NumTests \in Nat
  /\ Kind \in [Tests -> Kinds]
  /\ Skip \subseteq Tests
  /\ NoSkipCheck \subseteq {t \in Tests : Kind[t] \in {"sync", "irqset"}}
  /\ PollLimit \in Nat /\ PollLimit >= 2
  /\ OnRetries \in Nat

VARIABLES
  status,     \* [PE -> state nibble and test number of the PE's status word]
  data,       \* [PE -> data0]
  power,      \* [PE -> where the PE is between PSCI_CPU_ON and PSCI_CPU_OFF]
  vector,     \* [PE -> the payload val_test_entry has loaded]
  pc,         \* control point of the main PE
  cur,        \* the test the main PE is running
  idx,        \* the loop index i of the function the main PE is in
  last,       \* j of val_wait_for_test_completion
  polls,      \* timeout of the current polling loop
  retries,    \* timeout of val_execute_on_pe
  irq,        \* tests whose interrupt is armed and has not fired
  total, pass, fail,      \* g_bsa_tests_total, g_bsa_tests_pass, g_bsa_tests_fail
  ran,        \* history: <<t, p, r>> when payload or ISR of t gave r on PE p, and
              \* <<t, p, "STRAY">> when PE p took another test's interrupt during t
  verdict,    \* history: what the entry of each test returned
  timedOut    \* history: a polling loop has expired

shared  == <<status, data>>
secVars == <<power, vector>>
loop    == <<cur, idx, last, polls, retries>>
counts  == <<total, pass, fail>>
history == <<ran, verdict, timedOut>>
vars    == <<shared, secVars, pc, loop, irq, counts, history>>

States == {"NONE", "PENDING"} \cup Results
Status(s, t) == [state |-> s, test |-> t]
Powers == {"off", "booting", "entry", "run", "report", "exit", "lost"}
MainPcs == {"init", "payload", "irqwait", "launch", "smc", "rwait", "rcheck",
            "scan", "check", "done"}

TypeOK ==
  /\ status \in [PE -> [state : States, test : Tests \cup {NoTest}]]
  /\ data \in [PE -> Tests \cup {NoTest, Debug}]
  /\ power \in [PE -> Powers]
  /\ vector \in [PE -> Tests \cup {NoTest, Debug}]
  /\ pc \in MainPcs
  /\ cur \in 1 .. NumTests + 1
  /\ idx \in 0 .. NumPe
  /\ last \in 0 .. NumPe
  /\ polls \in 0 .. PollLimit
  /\ retries \in 0 .. OnRetries
  /\ irq \subseteq Tests
  /\ total \in Nat /\ pass \in Nat /\ fail \in Nat
  /\ ran \subseteq Tests \X PE \X (Results \cup {"STRAY"})
  /\ verdict \in [Tests -> Results \cup {"NONE"}]
  /\ timedOut \in BOOLEAN

(* An operator Op_Slip is a mutated form of Op that no action uses: a slip   *)
(* that the properties below are sensitive to.                               *)

(* num_pe of a test's entry: tests for one PE overwrite their argument. *)
NumPeOf(t) == IF Kind[t] \in {"all", "remote"} THEN NumPe ELSE 1

Slots_LastMissed(t) == 0 .. NumPeOf(t) - 2
Slots_NoReset(t)    == {}

(* The slots val_initialize_test sets: os_c010 passes it val_pe_get_num().   *)
Slots(t) == IF Kind[t] = "irq" THEN PE ELSE 0 .. NumPeOf(t) - 1

SetStatus(p, s) == status' = [status EXCEPT ![p] = s]
IsPending_Unset(p) == status[p].state = "NONE"
IsPending(p) == status[p].state = "PENDING"

----------------------------------------------------------------------------
(* Shared memory comes from AllocatePool and is not cleared, so a status    *)
(* word starts out with any state nibble.                                   *)
Init ==
  /\ status \in [PE -> {Status(s, NoTest) : s \in States}]
  /\ data = [p \in PE |-> NoTest]
  /\ power = [p \in PE |-> IF p = MainPe THEN "run" ELSE "off"]
  /\ vector = [p \in PE |-> NoTest]
  /\ pc = IF NumTests = 0 THEN "done" ELSE "init"
  /\ cur = 1 /\ idx = 0 /\ last = 0 /\ polls = 0 /\ retries = 0
  /\ irq = {}
  /\ total = 0 /\ pass = 0 /\ fail = 0
  /\ ran = {}
  /\ verdict = [t \in Tests |-> "NONE"]
  /\ timedOut = FALSE

InitializeTest_SkipIgnored ==
  /\ pc = "init"
  /\ total' = total + 1
  /\ status' = [p \in PE |->
       IF cur \in Skip /\ p = MainPe THEN Status("SKIP", cur)
       ELSE IF p \in Slots(cur) THEN Status("PENDING", cur)
       ELSE status[p]]
  /\ idx' = 0
  /\ pc' = "payload"
  /\ UNCHANGED <<data, secVars, cur, last, polls, retries, irq, pass, fail, history>>

(* val_initialize_test and the test of its result in the entry function.    *)
(* Its stores go to different slots and nothing is read between them.       *)
InitializeTest ==
  /\ pc = "init"
  /\ total' = total + 1
  /\ status' = [p \in PE |->
       IF cur \in Skip /\ p = MainPe THEN Status("SKIP", cur)
       ELSE IF p \in Slots(cur) THEN Status("PENDING", cur)
       ELSE status[p]]
  /\ idx' = 0
  /\ pc' = IF cur \in Skip /\ cur \notin NoSkipCheck THEN "check" ELSE "payload"
  /\ UNCHANGED <<data, secVars, cur, last, polls, retries, irq, pass, fail, history>>

(* The payload of a "sync" or "all" test runs on the main PE and writes its  *)
(* result; val_run_test_payload goes on to the other PEs if there are any.   *)
RunPayloadOnMain ==
  /\ pc = "payload"
  /\ Kind[cur] \in {"sync", "all"}
  /\ \E r \in Results :
       /\ SetStatus(MainPe, Status(r, cur))
       /\ ran' = ran \cup {<<cur, MainPe, r>>}
  /\ pc' = IF NumPeOf(cur) = 1 THEN "check" ELSE "launch"
  /\ retries' = OnRetries
  /\ UNCHANGED <<data, secVars, cur, idx, last, polls, irq, counts, verdict, timedOut>>

(* os_c001 with a single PE skips; otherwise it starts with the first PE.   *)
RemotePayload ==
  /\ pc = "payload"
  /\ Kind[cur] = "remote"
  /\ IF NumPe = 1
       THEN /\ SetStatus(MainPe, Status("SKIP", cur))
            /\ ran' = ran \cup {<<cur, MainPe, "SKIP">>}
            /\ pc' = "check"
       ELSE pc' = "launch" /\ UNCHANGED <<status, ran>>
  /\ retries' = OnRetries
  /\ UNCHANGED <<data, secVars, cur, idx, last, polls, irq, counts, verdict, timedOut>>

(* The payload of an interrupt test: the early exits that write a result     *)
(* (feature absent, ISR not installed), or the device is armed.              *)
ArmInterrupt ==
  /\ pc = "payload"
  /\ Kind[cur] \in IrqKinds
  /\ \/ /\ \E r \in {"FAIL", "SKIP"} :
             /\ SetStatus(MainPe, Status(r, cur))
             /\ ran' = ran \cup {<<cur, MainPe, r>>}
        /\ pc' = "check"
        /\ UNCHANGED <<polls, irq>>
     \/ /\ IF Kind[cur] = "irqset"
             THEN SetStatus(MainPe, Status("PENDING", cur))
             ELSE UNCHANGED status
        /\ irq' = irq \cup {cur}
        /\ polls' = PollLimit
        /\ pc' = "irqwait"
        /\ UNCHANGED ran
  /\ UNCHANGED <<data, secVars, cur, idx, last, retries, counts, verdict, timedOut>>

(* while ((--timeout > 0) && IS_RESULT_PENDING(..)), and the failure that    *)
(* follows when timeout == 0.  The device stays armed.  os_v003 and os_v004  *)
(* write the doorbell after the loop; the second loop of os_v003 finds the   *)
(* result of the first, that of os_v004 no time left.                        *)
WaitForInterrupt ==
  /\ pc = "irqwait"
  /\ polls' = polls - 1
  /\ \/ /\ polls - 1 = 0
        /\ SetStatus(MainPe, Status("FAIL", cur))
        /\ irq' = IF Kind[cur] = "irqpend" THEN irq \cup {cur} ELSE irq
        /\ timedOut' = TRUE
        /\ pc' = "check"
        /\ UNCHANGED ran
     \/ /\ polls - 1 > 0
        /\ IsPending(MainPe)
        /\ UNCHANGED <<status, timedOut, pc, irq, ran>>
     \/ /\ polls - 1 > 0
        /\ ~IsPending(MainPe)
        /\ Kind[cur] # "irqpend"
        /\ irq' = IF Kind[cur] = "irqv2m" THEN irq \cup {cur} ELSE irq
        /\ pc' = "check"
        /\ UNCHANGED <<status, timedOut, ran>>
     \/ /\ polls - 1 > 0
        /\ ~IsPending(MainPe)
        /\ Kind[cur] = "irqpend"
        /\ SetStatus(MainPe, Status("FAIL", cur))
        /\ ran' = ran \cup {<<cur, MainPe, "FAIL">>}
        /\ pc' = "check"
        /\ UNCHANGED <<timedOut, irq>>
  /\ UNCHANGED <<data, secVars, cur, idx, last, retries, counts, verdict>>

(* The ISR of an interrupt test, taken on the main PE between two of its     *)
(* steps: it silences the device and writes PASS, into the status of         *)
(* whatever test the PE is in.                                               *)
Isr(t) ==
  /\ pc # "done"
  /\ t \in irq
  /\ irq' = irq \ {t}
  /\ SetStatus(MainPe, Status("PASS", t))
  /\ ran' = ran \cup {<<t, MainPe, "PASS">>}
                \cup (IF t = cur THEN {} ELSE {<<cur, MainPe, "STRAY">>})
  /\ UNCHANGED <<data, secVars, pc, loop, counts, verdict, timedOut>>

(* val_pe_default_esr: the payload took an unexpected exception; the ELR is  *)
(* set to print_test_status and the rest of the suite is abandoned.          *)
UnexpectedException ==
  /\ pc = "payload"
  /\ SetStatus(MainPe, Status("FAIL", NoTest))
  /\ pc' = "done"
  /\ UNCHANGED <<data, secVars, loop, irq, counts, history>>

----------------------------------------------------------------------------
(* After val_execute_on_pe(idx, ..): val_run_test_payload takes the next PE, *)
(* os_c001 first waits for this one.                                         *)
AfterExecute ==
  IF Kind[cur] = "remote"
    THEN pc' = "rwait" /\ polls' = PollLimit /\ UNCHANGED <<idx, last, retries>>
    ELSE /\ pc' = "launch"
         /\ idx' = idx + 1
         /\ retries' = OnRetries
         /\ UNCHANGED <<last, polls>>

(* The loop over the PEs has ended.                                          *)
AfterLaunch ==
  /\ pc' = IF Kind[cur] = "remote" THEN "check" ELSE "scan"
  /\ idx' = 0
  /\ last' = 0
  /\ polls' = PollLimit

SetTestData_NoStore ==
  /\ pc = "launch"
  /\ \/ idx = NumPe /\ AfterLaunch
     \/ /\ idx = MainPe
        /\ idx' = idx + 1
        /\ UNCHANGED <<pc, last, polls>>
     \/ /\ idx \in PE \ {MainPe}
        /\ pc' = "smc"
        /\ UNCHANGED <<idx, last, polls>>
  /\ UNCHANGED <<shared, secVars, cur, retries, irq, counts, history>>

(* One iteration of the for loop: val_set_test_data stores the payload, the  *)
(* main PE's own index is passed over.                                       *)
SetTestData ==
  /\ pc = "launch"
  /\ \/ /\ idx = NumPe
        /\ AfterLaunch
        /\ UNCHANGED data
     \/ /\ idx = MainPe
        /\ idx' = idx + 1
        /\ UNCHANGED <<data, pc, last, polls>>
     \/ /\ idx \in PE \ {MainPe}
        /\ data' = [data EXCEPT ![idx] = cur]
        /\ pc' = "smc"
        /\ UNCHANGED <<idx, last, polls>>
  /\ UNCHANGED <<status, secVars, cur, retries, irq, counts, history>>

(* PSCI_CPU_ON as the code uses it: SUCCESS or an error for a PE that is     *)
(* off, ON_PENDING for one that is starting, ALREADY_ON for one that runs.   *)
CpuOnReturns(p) ==
  CASE power[p] = "off"     -> {"SUCCESS", "ERROR"}
    [] power[p] = "booting" -> {"ON_PENDING"}
    [] OTHER                -> {"ALREADY_ON"}

(* pal_pe_execute_payload and the tests of its return value: only            *)
(* ALREADY_ON is retried, everything else but SUCCESS is a failure of the PE *)
(* with test number 0.                                                       *)
ExecuteOnPe ==
  /\ pc = "smc"
  /\ \E ret \in CpuOnReturns(idx) :
       \/ /\ ret = "SUCCESS"
          /\ power' = [power EXCEPT ![idx] = "booting"]
          /\ AfterExecute
          /\ UNCHANGED status
       \/ /\ ret = "ALREADY_ON" /\ retries > 0
          /\ retries' = retries - 1
          /\ pc' = "launch"
          /\ UNCHANGED <<status, power, idx, last, polls>>
       \/ /\ ret \in {"ERROR", "ON_PENDING"} \/ (ret = "ALREADY_ON" /\ retries = 0)
          /\ SetStatus(idx, Status("FAIL", NoTest))
          /\ AfterExecute
          /\ UNCHANGED power
  /\ UNCHANGED <<data, vector, cur, irq, counts, history>>

RemoteWait_NoCountdown ==
  /\ pc = "rwait"
  /\ pc' = IF IsPending(idx) THEN "rwait" ELSE "rcheck"
  /\ UNCHANGED <<shared, secVars, cur, idx, last, polls, retries, irq, counts, history>>

(* os_c001: while ((--timeout) && IS_RESULT_PENDING(val_get_status(i))).     *)
RemoteWait ==
  /\ pc = "rwait"
  /\ polls' = polls - 1
  /\ \/ /\ polls - 1 = 0
        /\ SetStatus(idx, Status("FAIL", cur))
        /\ timedOut' = TRUE
        /\ pc' = "check" /\ idx' = 0
     \/ /\ polls - 1 > 0
        /\ pc' = IF IsPending(idx) THEN "rwait" ELSE "rcheck"
        /\ UNCHANGED <<status, timedOut, idx>>
  /\ UNCHANGED <<data, secVars, cur, last, retries, irq, counts, ran, verdict>>

(* os_c001: a failure ends the payload, otherwise the next PE is started.    *)
RemoteCheck ==
  /\ pc = "rcheck"
  /\ IF status[idx].state = "FAIL"
       THEN pc' = "check" /\ idx' = 0 /\ UNCHANGED retries
       ELSE pc' = "launch" /\ idx' = idx + 1 /\ retries' = OnRetries
  /\ UNCHANGED <<shared, secVars, cur, last, polls, irq, counts, history>>

----------------------------------------------------------------------------
(* val_wait_for_test_completion: one read of the scan over the PEs.          *)
ScanStatus ==
  /\ pc = "scan"
  /\ idx < NumPe
  /\ last' = IF IsPending(idx) THEN idx + 1 ELSE last
  /\ idx' = idx + 1
  /\ UNCHANGED <<shared, secVars, pc, cur, polls, retries, irq, counts, history>>

ScanEnd_NoCountdown ==
  /\ pc = "scan"
  /\ idx = NumPe
  /\ idx' = 0
  /\ \/ last = 0 /\ pc' = "check" /\ UNCHANGED last
     \/ last # 0 /\ last' = 0 /\ UNCHANGED pc
  /\ UNCHANGED <<shared, secVars, cur, polls, retries, irq, counts, history>>

(* ... and the end of one scan: nobody was pending, or the scan is repeated, *)
(* or the time is up and the PE seen pending last is marked as failed.       *)
ScanEnd ==
  /\ pc = "scan"
  /\ idx = NumPe
  /\ idx' = 0
  /\ \/ /\ last = 0
        /\ pc' = "check"
        /\ UNCHANGED <<status, last, polls, timedOut>>
     \/ /\ last # 0 /\ polls > 2
        /\ polls' = polls - 1
        /\ last' = 0
        /\ UNCHANGED <<status, pc, timedOut>>
     \/ /\ last # 0 /\ polls <= 2
        /\ SetStatus(last - 1, Status("FAIL", cur))
        /\ timedOut' = TRUE
        /\ pc' = "check"
        /\ UNCHANGED <<last, polls>>
  /\ UNCHANGED <<data, secVars, cur, retries, irq, counts, ran, verdict>>

(* The end of val_check_for_error for the status s it settled on, and the    *)
(* step to the next test.                                                    *)
Verdict(s) == IF s.state \in {"PASS", "SKIP"} THEN s.state ELSE "FAIL"

Conclude_SkipPasses(s) ==
  /\ verdict' = [verdict EXCEPT ![cur] = Verdict(s)]
  /\ pass' = IF Verdict(s) # "FAIL" THEN pass + 1 ELSE pass
  /\ fail' = IF Verdict(s) = "FAIL" THEN fail + 1 ELSE fail
  /\ cur' = cur + 1
  /\ pc' = IF cur = NumTests THEN "done" ELSE "init"
  /\ idx' = 0

Conclude(s) ==
  /\ verdict' = [verdict EXCEPT ![cur] = Verdict(s)]
  /\ pass' = IF Verdict(s) = "PASS" THEN pass + 1 ELSE pass
  /\ fail' = IF Verdict(s) = "FAIL" THEN fail + 1 ELSE fail
  /\ cur' = cur + 1
  /\ pc' = IF cur = NumTests THEN "done" ELSE "init"
  /\ idx' = 0

CheckForError_MainOnly ==
  /\ pc = "check"
  /\ Conclude(status[MainPe])
  /\ UNCHANGED <<shared, secVars, last, polls, retries, irq, total, ran, timedOut>>

(* val_check_for_error: with one PE its own status counts, otherwise the     *)
(* first FAIL or SKIP, or else the status of the last PE.                    *)
CheckForError ==
  /\ pc = "check"
  /\ \/ /\ NumPeOf(cur) = 1
        /\ Conclude(status[MainPe])
     \/ /\ NumPeOf(cur) # 1
        /\ \/ status[idx].state \in {"FAIL", "SKIP"}
           \/ idx = NumPe - 1
        /\ Conclude(status[idx])
     \/ /\ NumPeOf(cur) # 1
        /\ status[idx].state \notin {"FAIL", "SKIP"}
        /\ idx < NumPe - 1
        /\ idx' = idx + 1
        /\ UNCHANGED <<verdict, pass, fail, cur, pc>>
  /\ UNCHANGED <<shared, secVars, last, polls, retries, irq, total, ran, timedOut>>

----------------------------------------------------------------------------
(* Firmware brings the PE up and enters ModuleEntryPoint.                    *)
Boot(p) ==
  /\ power[p] = "booting"
  /\ power' = [power EXCEPT ![p] = "entry"]
  /\ UNCHANGED <<shared, vector, pc, loop, irq, counts, history>>

(* val_test_entry reads data0 and calls it; a data0 that is not a payload    *)
(* takes the PE out of the harness's control.                                *)
GetTestData(p) ==
  /\ power[p] = "entry"
  /\ vector' = [vector EXCEPT ![p] = data[p]]
  /\ power' = [power EXCEPT ![p] = IF data[p] \in Tests THEN "run" ELSE "lost"]
  /\ UNCHANGED <<shared, pc, loop, irq, counts, history>>

(* The payload on a secondary PE.  id_regs_check of os_c001 writes the       *)
(* differing register to data0 before it reports the failure.                *)
RunPayload(p) ==
  /\ p # MainPe
  /\ power[p] = "run"
  /\ \/ /\ \E r \in IF Kind[vector[p]] = "remote" THEN {"PASS"} ELSE Results :
             /\ SetStatus(p, Status(r, vector[p]))
             /\ ran' = ran \cup {<<vector[p], p, r>>}
        /\ power' = [power EXCEPT ![p] = "exit"]
        /\ UNCHANGED data
     \/ /\ Kind[vector[p]] = "remote"
        /\ data' = [data EXCEPT ![p] = Debug]
        /\ power' = [power EXCEPT ![p] = "report"]
        /\ UNCHANGED <<status, ran>>
  /\ UNCHANGED <<vector, pc, loop, irq, counts, verdict, timedOut>>

ReportFailure(p) ==
  /\ power[p] = "report"
  /\ SetStatus(p, Status("FAIL", vector[p]))
  /\ ran' = ran \cup {<<vector[p], p, "FAIL">>}
  /\ power' = [power EXCEPT ![p] = "exit"]
  /\ UNCHANGED <<data, vector, pc, loop, irq, counts, verdict, timedOut>>

(* An exception or a hang on a secondary PE: it never reports.               *)
Hang(p) ==
  /\ p # MainPe
  /\ power[p] = "run"
  /\ power' = [power EXCEPT ![p] = "lost"]
  /\ UNCHANGED <<shared, vector, pc, loop, irq, counts, history>>

(* The PSCI_CPU_OFF call that ends val_test_entry.                           *)
CpuOff(p) ==
  /\ power[p] = "exit"
  /\ power' = [power EXCEPT ![p] = "off"]
  /\ UNCHANGED <<shared, vector, pc, loop, irq, counts, history>>

----------------------------------------------------------------------------
Main ==
  \/ InitializeTest \/ RunPayloadOnMain \/ RemotePayload \/ ArmInterrupt
  \/ WaitForInterrupt \/ UnexpectedException \/ SetTestData \/ ExecuteOnPe
  \/ RemoteWait \/ RemoteCheck \/ ScanStatus \/ ScanEnd \/ CheckForError

Secondary(p) ==
  \/ Boot(p) \/ GetTestData(p) \/ RunPayload(p) \/ ReportFailure(p)
  \/ Hang(p) \/ CpuOff(p)

Next ==
  \/ Main
  \/ \E t \in Tests : Isr(t)
  \/ \E p \in PE : Secondary(p)

Spec == Init /\ [][Next]_vars

(* The main PE keeps executing; nothing is assumed of the firmware, of the   *)
(* secondary PEs or of the devices.                                          *)
FairSpec == Spec /\ WF_vars(Main)

----------------------------------------------------------------------------
(* The PEs whose results a test is about: os_c001 compares the others with   *)
(* the main PE, which reports nothing.                                       *)
Participants(t) ==
  CASE Kind[t] = "all" -> PE
    [] Kind[t] = "remote" /\ NumPe # 1 -> PE \ {MainPe}
    [] OTHER -> {MainPe}

(* As long as no polling loop has expired, a test that val_check_for_error   *)
(* counts as passed has run on every participating PE, and passed there: no  *)
(* leftover status, unreported PE or masked failure is read as a pass.  Two  *)
(* things can forge a pass: an interrupt that os_v003 or os_v004 has left    *)
(* behind, for the one test in which the main PE takes it and no other; and  *)
(* what val_initialize_test leaves in the status of a main PE other than 0,  *)
(* for these two tests only, which wait without a PENDING of their own.      *)
PassIsEarned ==
  ~timedOut =>
    \A t \in Tests :
      /\ verdict[t] = "PASS"
      /\ <<t, MainPe, "STRAY">> \notin ran
      /\ Kind[t] \in V2mKinds => MainPe = 0
      => \A p \in Participants(t) : <<t, p, "PASS">> \in ran /\ <<t, p, "FAIL">> \notin ran

(* As long as no polling loop has expired, a test is counted as failed only  *)
(* if some participating PE did not pass it.                                 *)
FailIsEarned ==
  ~timedOut =>
    \A t \in Tests : verdict[t] = "FAIL" =>
      \E p \in Participants(t) : <<t, p, "PASS">> \notin ran

(* A secondary PE that is inside a payload is inside the payload of the test *)
(* the main PE is running, until a polling loop expires: val_test_entry      *)
(* never picks up the data0 of another test or the debug value of os_c001.   *)
OnlyCurrentPayload ==
  ~timedOut =>
    \A p \in PE \ {MainPe} :
      power[p] \in {"run", "report", "lost"} => vector[p] = cur /\ pc # "init"

(* The payload of a test given with -skip is executed on no PE, also when    *)
(* earlier tests have left PEs running.                                      *)
SkipHonoured ==
  \A t \in Skip, p \in PE, r \in Results : <<t, p, r>> \notin ran

(* The three counters printed at the end account for every test started: the *)
(* ones that neither passed nor failed were skipped, but for the running one.*)
Accounting ==
  /\ pass = Cardinality({t \in Tests : verdict[t] = "PASS"})
  /\ fail = Cardinality({t \in Tests : verdict[t] = "FAIL"})
  /\ total = pass + fail + Cardinality({t \in Tests : verdict[t] = "SKIP"})
              + (IF pc = "init" \/ cur > NumTests THEN 0 ELSE 1)

(* val_check_for_error reads the status words one by one; until a polling    *)
(* loop has expired none of them changes while it does.                      *)
ResultsStable == [][pc = "check" /\ ~timedOut => status' = status]_vars

(* Whatever the firmware, the secondary PEs and the devices do, the main PE  *)
(* gets through all the tests: every wait of the harness is bounded.         *)
SuiteEnds == <>(pc = "done")

(* A test is not counted as passed when some PE that should have run it has  *)
(* reported nothing, expired polling loops included.                         *)
PassMeansReported ==
  \A t \in Tests : verdict[t] = "PASS" =>
    \A p \in Participants(t) : \E r \in Results : <<t, p, r>> \in ran

----------------------------------------------------------------------------
(* The strengthening that makes the invariants above inductive.              *)

(* Where the loop variables are at each control point of the main PE.        *)
Bounds ==
  /\ pc # "done" => cur \in Tests
  /\ pc \in {"payload", "irqwait"} => idx = 0
  /\ pc \in {"smc", "rwait", "rcheck"} => idx \in PE \ {MainPe}
  /\ pc = "check" => idx \in PE
  /\ pc \in {"irqwait", "rwait"} => polls # 0
  /\ pc = "irqwait" => Kind[cur] \in IrqKinds
  /\ pc \in {"rwait", "rcheck"} => Kind[cur] = "remote" /\ NumPe # 1
  /\ pc = "scan" => Kind[cur] = "all" /\ NumPe # 1
  /\ pc \in {"launch", "smc"} => Kind[cur] \in {"all", "remote"} /\ NumPe # 1
  /\ power[MainPe] = "run"
  /\ \A p \in PE \ {MainPe} : power[p] \in {"run", "report"} => vector[p] \in Tests

(* A PE that has been switched on and has not reported yet.                  *)
Active(p) == p # MainPe /\ power[p] \in {"booting", "entry", "run", "report", "lost"}

(* Such a PE belongs to the current test, finds its payload in data0, and    *)
(* its status is still the PENDING of val_initialize_test.                   *)
ActiveIsCurrent ==
  \A p \in PE : Active(p) =>
    /\ pc \in {"launch", "smc", "rwait", "scan"}
    /\ status[p] = Status("PENDING", cur)
    /\ power[p] \in {"booting", "entry"} => data[p] = cur
    /\ power[p] \in {"run", "report", "lost"} => vector[p] = cur
    /\ Kind[cur] = "remote" => pc = "rwait" /\ p = idx
    /\ pc \in {"launch", "smc"} => p < idx

(* What the main PE has not started yet is still pending.                    *)
NotStarted ==
  /\ pc = "payload" /\ Kind[cur] \in {"all", "remote"} =>
       \A p \in PE : status[p] = Status("PENDING", cur)
  /\ pc = "payload" /\ Kind[cur] = "irq" => status[MainPe] = Status("PENDING", cur)
  /\ pc \in {"launch", "smc"} =>
       \A p \in PE \ {MainPe} : p >= idx => status[p] = Status("PENDING", cur)
  /\ pc \in {"rwait", "rcheck"} =>
       \A p \in PE \ {MainPe} : p > idx => status[p] = Status("PENDING", cur)
  /\ pc = "smc" => data[idx] = cur

(* An armed interrupt belongs to the test that is waiting for it.            *)
ArmedIsCurrent ==
  \A t \in irq : t = cur /\ pc = "irqwait" /\ status[MainPe] = Status("PENDING", cur)

(* A result was produced by the current or an earlier test, and a result of  *)
(* the current test is what the status of its PE says.                       *)
ResultIsStatus ==
  \A t \in Tests, p \in PE, r \in Results : <<t, p, r>> \in ran =>
    /\ t <= cur
    /\ pc \in {"init", "payload"} => t < cur
    /\ t = cur => status[p] = Status(r, cur)

(* Once the payload of the main PE has returned, a PASS in the status of a   *)
(* participating PE is the result of its payload.                            *)
PassIsResult ==
  pc \notin {"init", "payload", "done"} =>
    \A p \in Participants(cur) : status[p].state = "PASS" => <<cur, p, "PASS">> \in ran

(* A test that looks at several PEs finds a state in each status word.       *)
Initialised ==
  pc \notin {"init", "payload", "done"} /\ NumPeOf(cur) # 1 =>
    \A p \in PE : status[p].state # "NONE"

(* What the scans of val_wait_for_test_completion, os_c001 and               *)
(* val_check_for_error have established so far.                              *)
ScanProgress ==
  /\ pc = "scan" /\ last = 0 => \A p \in PE : p < idx => ~IsPending(p)
  /\ pc \in {"launch", "smc", "scan"} /\ Kind[cur] = "all" => ~IsPending(MainPe)
  /\ pc \in {"launch", "smc", "rwait", "rcheck"} /\ Kind[cur] = "remote" =>
       \A p \in PE \ {MainPe} : p < idx => ~IsPending(p)
  /\ pc = "rcheck" => ~IsPending(idx)
  /\ pc = "check" /\ NumPeOf(cur) # 1 =>
       /\ \A p \in PE : p < idx => status[p].state \notin {"FAIL", "SKIP"}
       /\ \/ \A p \in Participants(cur) : ~IsPending(p)
          \/ \E q \in PE : status[q].state \in {"FAIL", "SKIP"}

(* Verdicts are those of finished tests, and a pass has its evidence.        *)
VerdictEvidence ==
  \A t \in Tests : verdict[t] # "NONE" =>
    /\ t < cur
    /\ verdict[t] = "PASS" =>
         \A p \in Participants(t) : <<t, p, "PASS">> \in ran /\ <<t, p, "FAIL">> \notin ran

(* The inductive invariant: the type, the bounds, and, until a polling loop  *)
(* expires, that nothing of an earlier test is left in the shared memory, on *)
(* a secondary PE or in a device.                                            *)
Clean ==
  /\ ActiveIsCurrent
  /\ NotStarted
  /\ ArmedIsCurrent
  /\ ResultIsStatus
  /\ PassIsResult
  /\ Initialised
  /\ ScanProgress
  /\ VerdictEvidence

HarnessInv == TypeOK /\ Bounds /\ (~timedOut => Clean)

(* What the theorems about verdicts ask of the run: it has no test of the    *)
(* forms of os_v003 and os_v004, which leave interrupts behind.              *)
NoLooseIrq == \A t \in Tests : Kind[t] \notin V2mKinds

(* os_c001 leaves the main PE's slot PENDING, and val_check_for_error falls  *)
(* back on the status of the last PE: the main PE is not the last one where  *)
(* the register comparison runs.                                             *)
MainNotLast ==
  \A t \in Tests : Kind[t] = "remote" /\ NumPe # 1 => MainPe # NumPe - 1

(* A test whose entry ignores ACS_STATUS_SKIP is not among the skipped ones. *)
SkipChecked == Skip \cap NoSkipCheck = {}

(* No control point, armed device, data0 or loaded payload belongs to a test *)
(* the user skips.                                                           *)
SkipInv ==
  /\ cur \in Skip => pc \in {"init", "check", "done"}
  /\ irq \cap Skip = {}
  /\ \A p \in PE : data[p] \notin Skip /\ vector[p] \notin Skip
  /\ SkipHonoured

(* The counters, and no verdict for a test that has not ended.               *)
AccountingInv ==
  /\ Accounting
  /\ \A t \in Tests : t >= cur => verdict[t] = "NONE"

(* os_c001 puts no failure into the main PE's own slot.                      *)
MainSilent ==
  Kind[cur] = "remote" /\ NumPe # 1 /\ pc \notin {"init", "done"} =>
    status[MainPe].state # "FAIL"

(* A failure has its evidence: a participating PE that did not pass.         *)
FailEvidence ==
  \A t \in Tests : verdict[t] = "FAIL" =>
    \E p \in Participants(t) : <<t, p, "PASS">> \notin ran
=============================================================================
