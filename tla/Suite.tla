------------------------------- MODULE Suite -------------------------------
(***************************************************************************)
(* The suite application (uefi_app/BsaAcsMain.c) and the module runners    *)
(* (val_*_execute_tests): options, creation of the information tables,     *)
(* the runners in order, the exit that an unexpected exception jumps to,   *)
(* and the release of the tables.  What a test does is module Harness.     *)
(*                                                                         *)
(* An exception before the default handler is installed, or after the      *)
(* program has ended, is the firmware's and left out, and so are more      *)
(* numbers after -skip than g_skip_test_num holds: they are written behind *)
(* the array.                                                              *)
(***************************************************************************)
EXTENDS Integers, Sequences, Functions

CONSTANTS
  Sample,       \* the tests that are followed, out of AllTests
  SkipArgs,     \* the lists of numbers that may follow -skip; a token that is no number is 0
  Flags,        \* the sets of view flags that may be given
  Shortages,    \* the sets of buffers for which there is no memory
  Platforms     \* the platforms, as records of what the runners ask for

PlatformFields == {"pes", "gicd", "wds", "ecam", "bdfs", "smmus", "cards", "v2m"}
Views == {"os", "hyp", "ps"}
MAX_TEST_SKIP_NUM == 9
Unused == 10000

(* The first test number of each module, in the order of the runners.        *)
PE == 0
MEM == 100
GIC == 200
SMMU == 300
TIMER == 400
WAKEUP == 500
PER == 600
WD == 700
PCIE == 800
EXER == 900
Modules == <<PE, MEM, GIC, SMMU, TIMER, WAKEUP, PER, WD, PCIE, EXER>>
V2M == GIC + 80

(* val_w001 and val_w002 ignore the answer of val_initialize_test.           *)
NoSkipCheck == {701, 702}

AllTests ==
  (1 .. 20) \cup (51 .. 55) \cup {76} \cup (101 .. 103) \cup (201 .. 206) \cup {251}
  \cup (281 .. 284) \cup (301 .. 309) \cup (351 .. 355) \cup (401 .. 405) \cup {501}
  \cup (601 .. 603) \cup {701, 702, 801, 802} \cup (820 .. 839) \cup {841, 842, 844, 848}
  \cup (850 .. 862) \cup {901, 904, 905, 906, 912, 913, 915}

ASSUME SuiteAssumption ==
  /\ Sample \subseteq AllTests
  /\ \A a \in SkipArgs : Len(a) <= MAX_TEST_SKIP_NUM /\ a \in Seq(Nat)
  /\ Flags \subseteq SUBSET Views
  /\ Platforms \subseteq [PlatformFields -> BOOLEAN]

(* The view a test belongs to, by its number; os_i009 belongs to two.        *)
ViewsOf(t) ==
  IF t = 309 THEN {"os", "hyp"}
  ELSE IF t = 76 THEN {"ps"}
  ELSE IF t \in (51 .. 55) \cup {251} \cup (351 .. 355) THEN {"hyp"}
  ELSE {"os"}

VARIABLES
  pc,        \* "options", "create", "modules", "tests", "print", "free", "nested" or "done"
  plat,      \* the platform
  short,     \* the buffers that cannot be allocated
  args,      \* the numbers after -skip
  given,     \* the view flags on the command line
  skip,      \* g_skip_test_num
  views,     \* g_sw_view
  log,       \* the log file is open
  step,      \* the next table or runner
  todo,      \* the tests the current runner has not called yet
  tables,    \* the tables and buffers that are allocated
  handler,   \* val_pe_default_esr is installed
  ran,       \* history: the tests whose payload has been run
  passed,    \* history: os_p001 has passed
  aborted,   \* history: "no", or what has cut the program short
  freed,     \* history: the buffers that FreePool has got
  twice      \* history: FreePool has got a buffer that was free

options == <<args, given, skip, views, plat, short>>
freeing == <<freed, twice>>
history == <<ran, passed, aborted, freeing>>
vars    == <<pc, options, log, step, todo, tables, handler, history>>

Tables == <<"pe", "gic", "timer", "wd", "pcie", "iovirt", "per", "memory", "shared">>
Buffers == Range(Tables) \cup {"bdf"}

(* What freeBsaAcsMem frees, in its order: the table of memory regions and   *)
(* the table of PCIe functions are not among it.                             *)
FreeOrder_Twice == <<"pe", "gic", "timer", "wd", "pcie", "pcie", "iovirt", "per", "shared">>
FreeOrder_NoIovirt == <<"pe", "gic", "timer", "wd", "pcie", "per", "shared">>
FreeOrder == <<"pe", "gic", "timer", "wd", "pcie", "iovirt", "per", "shared">>

TypeOK ==
  /\ pc \in {"options", "create", "modules", "tests", "print", "free", "nested", "done"}
  /\ plat \in Platforms /\ short \in Shortages /\ args \in SkipArgs /\ given \in Flags
  /\ skip \in [1 .. MAX_TEST_SKIP_NUM -> Nat] /\ views \subseteq Views
  /\ log \in BOOLEAN /\ handler \in BOOLEAN /\ passed \in BOOLEAN
  /\ step \in 1 .. Len(Modules) + 1
  /\ todo \subseteq Sample
  /\ tables \subseteq Buffers
  /\ ran \subseteq Sample
  /\ aborted \in {"no", "early", "exception", "freeing"}
  /\ freed \subseteq Buffers /\ twice \in BOOLEAN

Init ==
  /\ pc = "options"
  /\ plat \in Platforms /\ short \in Shortages /\ args \in SkipArgs /\ given \in Flags
  /\ skip = [i \in 1 .. MAX_TEST_SKIP_NUM |-> Unused] /\ views = Views
  /\ log = FALSE /\ step = 1 /\ todo = {} /\ tables = {} /\ handler = FALSE
  /\ ran = {} /\ passed = FALSE /\ aborted = "no"
  /\ freed = {} /\ twice = FALSE

----------------------------------------------------------------------------
(* The command line.                                                         *)
ParseSkip_Short(a) ==
  [i \in 1 .. MAX_TEST_SKIP_NUM |-> IF i < Len(a) THEN a[i] ELSE Unused]

ParseSkip_Terminated(a) ==
  [i \in DOMAIN a \cup {Len(a) + 1} \cup (1 .. MAX_TEST_SKIP_NUM) |->
     IF i <= Len(a) THEN a[i] ELSE Unused]

ParseSkip(a) ==
  [i \in 1 .. MAX_TEST_SKIP_NUM |-> IF i <= Len(a) THEN a[i] ELSE Unused]

(* No flag selects every view, any flag only the views given.                *)
ParseViews(g) == IF g = {} THEN Views ELSE g

(* -help, or a line that does not parse, ends the program; the log file      *)
(* stays open then.                                                          *)
ParseOptions ==
  /\ pc = "options"
  /\ log' \in BOOLEAN
  /\ \/ /\ skip' = ParseSkip(args)
        /\ views' = ParseViews(given)
        /\ pc' = "create"
        /\ UNCHANGED aborted
     \/ /\ pc' = "done" /\ aborted' = "early"
        /\ UNCHANGED <<skip, views>>
  /\ UNCHANGED <<args, given, plat, short, step, todo, tables, handler, ran, passed, freeing>>

----------------------------------------------------------------------------
(* The information tables, in order.                                         *)
Creating(t) == pc = "create" /\ step <= Len(Tables) /\ Tables[step] = t

Got(t) == {t} \ short

Allocated(new, next) ==
  /\ tables' = tables \cup new
  /\ step' = next
  /\ UNCHANGED <<pc, options, log, todo, handler, history>>

(* The program returns, and leaves what it has allocated.                    *)
ReturnEarly(new) ==
  /\ tables' = tables \cup new
  /\ pc' = "done" /\ aborted' = "early"
  /\ UNCHANGED <<options, log, step, todo, handler, ran, passed, freeing>>

(* Without memory, or without a PE, the program ends.                        *)
CreatePeInfoTable ==
  /\ Creating("pe")
  /\ IF "pe" \in short \/ ~plat.pes THEN ReturnEarly(Got("pe")) ELSE Allocated({"pe"}, step + 1)

(* Without a distributor too.  Then the exception handler is installed.      *)
CreateGicInfoTable ==
  /\ Creating("gic")
  /\ IF "gic" \in short \/ ~plat.gicd
       THEN ReturnEarly(Got("gic"))
       ELSE /\ tables' = tables \cup {"gic"} /\ step' = step + 1 /\ handler' = TRUE
            /\ UNCHANGED <<pc, options, log, todo, history>>

CreateTimerInfoTable    == Creating("timer") /\ Allocated(Got("timer"), step + 1)
CreateWatchdogInfoTable == Creating("wd") /\ Allocated(Got("wd"), step + 1)

(* Without memory the IO virtualisation table is not created either.  With   *)
(* an ECAM the bus is enumerated and the table of functions is made.         *)
CreatePcieInfoTable ==
  /\ Creating("pcie")
  /\ IF "pcie" \in short
       THEN Allocated({}, step + 2)
       ELSE Allocated({"pcie"} \cup (IF plat.ecam THEN Got("bdf") ELSE {}), step + 1)

CreateIovirtInfoTable   == Creating("iovirt") /\ Allocated(Got("iovirt"), step + 1)

(* Without memory the table of memory regions is not created either.         *)
CreatePeripheralInfoTable ==
  /\ Creating("per")
  /\ Allocated(Got("per"), IF "per" \in short THEN step + 2 ELSE step + 1)

CreateMemoryInfoTable   == Creating("memory") /\ Allocated(Got("memory"), step + 1)

(* The memory shared by the PEs; then the tests start.                       *)
AllocateSharedMem ==
  /\ Creating("shared")
  /\ tables' = tables \cup Got("shared")
  /\ pc' = "modules" /\ step' = 1
  /\ UNCHANGED <<options, log, todo, handler, history>>

Create ==
  \/ CreatePeInfoTable \/ CreateGicInfoTable \/ CreateTimerInfoTable
  \/ CreateWatchdogInfoTable \/ CreatePcieInfoTable \/ CreateIovirtInfoTable
  \/ CreatePeripheralInfoTable \/ CreateMemoryInfoTable \/ AllocateSharedMem

----------------------------------------------------------------------------
(* The runners.                                                              *)
InSkip(n) == n \in Range(skip)

(* The tests of a runner that the views select; it calls them in order.      *)
Selected(lo, hi) == {t \in Sample \cap (lo .. hi) : ViewsOf(t) \cap views # {}}

Runner(m) == pc = "modules" /\ step <= Len(Modules) /\ Modules[step] = m

(* The runner of m calls the tests ts, or skips the module.                  *)
Call(ts) ==
  /\ todo' = ts
  /\ pc' = "tests"
  /\ UNCHANGED <<options, log, step, tables, handler, history>>

Plain(m, hi) == Runner(m) /\ Call(IF InSkip(m) THEN {} ELSE Selected(m, hi))

PeExecuteTests     == Plain(PE, 99)
MemoryExecuteTests == Plain(MEM, 199)
TimerExecuteTests  == Plain(TIMER, 499)
WakeupExecuteTests == Plain(WAKEUP, 599)
PeripheralExecuteTests == Plain(PER, 699)

(* configureGicIts comes first (module Its); the GICv2m tests are for a      *)
(* GICv2 with consistent MSI frames.                                         *)
GicExecuteTests ==
  /\ Runner(GIC)
  /\ Call(IF InSkip(GIC) THEN {}
          ELSE Selected(GIC, V2M - 1) \cup (IF plat.v2m THEN Selected(V2M, 299) ELSE {}))

(* Without a table there is no SMMU.                                         *)
SmmuExecuteTests ==
  /\ Runner(SMMU)
  /\ Call(IF InSkip(SMMU) \/ ~plat.smmus \/ "iovirt" \notin tables THEN {}
          ELSE Selected(SMMU, 399))

(* main asks val_wd_get_info before it calls the runner.                     *)
WdExecuteTests ==
  /\ Runner(WD)
  /\ Call(IF InSkip(WD) \/ ~plat.wds \/ "wd" \notin tables THEN {} ELSE Selected(WD, 799))

(* os_p001 decides about the rest.  The number of functions is then read     *)
(* from g_pcie_bdf_table, which is anything when that was not allocated.     *)
PcieExecuteTests ==
  /\ Runner(PCIE)
  /\ LET found == IF "bdf" \in tables THEN {plat.bdfs} ELSE BOOLEAN
         first == Selected(PCIE + 1, PCIE + 1)
     IN IF InSkip(PCIE) \/ ~plat.ecam \/ "pcie" \notin tables
          THEN Call({})
          ELSE \E f \in found : Call(first \cup (IF f THEN Selected(PCIE + 2, 899) ELSE {}))

(* The table of functions is made if it is missing.                          *)
ExerciserExecuteTests ==
  /\ Runner(EXER)
  /\ IF InSkip(EXER)
       THEN Call({})
       ELSE /\ tables' = tables \cup Got("bdf")
            /\ todo' = IF /\ {"bdf", "pcie"} \subseteq tables'
                          /\ plat.ecam /\ plat.bdfs /\ plat.cards
                         THEN Selected(EXER, 999) ELSE {}
            /\ pc' = "tests"
            /\ UNCHANGED <<options, log, step, handler, history>>

Runners ==
  \/ PeExecuteTests \/ MemoryExecuteTests \/ GicExecuteTests \/ SmmuExecuteTests
  \/ TimerExecuteTests \/ WakeupExecuteTests \/ PeripheralExecuteTests \/ WdExecuteTests
  \/ PcieExecuteTests \/ ExerciserExecuteTests

(* The smallest number of the tests that are left.                           *)
NextTest == CHOOSE t \in todo : \A u \in todo : t <= u

RunTest_StopsOnSkip ==
  /\ pc = "tests" /\ todo # {}
  /\ LET t == NextTest
         run == ~InSkip(t) \/ t \in NoSkipCheck
     IN /\ ran' = IF run THEN ran \cup {t} ELSE ran
        /\ passed' \in (IF ~run THEN {FALSE} ELSE IF t = PCIE + 1 THEN BOOLEAN ELSE {passed})
        /\ todo' = IF run /\ (t = PCIE + 1 => passed') THEN todo \ {t} ELSE {}
  /\ UNCHANGED <<pc, options, log, step, tables, handler, aborted, freeing>>

(* The entry function of the next test.  Its verdict matters for os_p001     *)
(* only, whose runner returns unless it passes: a skipped test does not.     *)
RunTest ==
  /\ pc = "tests" /\ todo # {}
  /\ LET t == NextTest
         run == ~InSkip(t) \/ t \in NoSkipCheck
     IN /\ ran' = IF run THEN ran \cup {t} ELSE ran
        /\ IF t = PCIE + 1
             THEN /\ passed' \in (IF run THEN BOOLEAN ELSE {FALSE})
                  /\ todo' = IF passed' THEN todo \ {t} ELSE {}
             ELSE todo' = todo \ {t} /\ UNCHANGED passed
  /\ UNCHANGED <<pc, options, log, step, tables, handler, aborted, freeing>>

(* The runner returns; after the last one the results are printed.           *)
EndModule ==
  /\ pc = "tests" /\ todo = {}
  /\ IF step = Len(Modules) THEN pc' = "print" /\ step' = 1
                            ELSE pc' = "modules" /\ step' = step + 1
  /\ UNCHANGED <<options, log, todo, tables, handler, history>>

(* val_pe_default_esr looks its PE up in the PE table, stores a status in    *)
(* the shared memory and returns to print_test_status, from there and from   *)
(* freeBsaAcsMem too.  Where one of the two is missing, not yet allocated or *)
(* already freed, the handler may raise the next exception.                  *)
Exception ==
  /\ handler /\ pc \in {"create", "modules", "tests", "print", "free"}
  /\ pc' \in (IF {"pe", "shared"} \subseteq tables THEN {"print"} ELSE {"print", "nested"})
  /\ aborted' = IF pc = "free" \/ aborted = "freeing" THEN "freeing" ELSE "exception"
  /\ todo' = {} /\ step' = 1
  /\ UNCHANGED <<options, log, tables, handler, ran, passed, freeing>>

PrintStatus ==
  /\ pc = "print"
  /\ pc' = "free"
  /\ UNCHANGED <<options, log, step, todo, tables, handler, history>>

(* One call of freeBsaAcsMem.  The pointer of a table that was not made is   *)
(* NULL, which FreePool refuses; the pointer of a freed one stays, and       *)
(* FreePool gets it again when freeBsaAcsMem starts over.                    *)
FreeBsaAcsMem ==
  /\ pc = "free" /\ step <= Len(FreeOrder)
  /\ tables' = tables \ {FreeOrder[step]}
  /\ freed' = freed \cup (tables \cap {FreeOrder[step]})
  /\ twice' = (twice \/ FreeOrder[step] \in freed)
  /\ step' = step + 1
  /\ UNCHANGED <<pc, options, log, todo, handler, ran, passed, aborted>>

(* The log file is closed and ShellAppMain returns.                          *)
EndMain ==
  /\ pc = "free" /\ step > Len(FreeOrder)
  /\ log' = FALSE /\ pc' = "done"
  /\ UNCHANGED <<options, step, todo, tables, handler, history>>

Next ==
  \/ ParseOptions \/ Create \/ Runners \/ RunTest \/ EndModule
  \/ PrintStatus \/ FreeBsaAcsMem \/ EndMain \/ Exception

Spec == Init /\ [][Next]_vars

----------------------------------------------------------------------------
ModuleOf(t) == t - (t % 100)

(* What the command line asks for, read from it directly.                    *)
Asked ==
  {t \in Sample : /\ ModuleOf(t) \notin Range(args)
                  /\ t \notin Range(args)
                  /\ given = {} \/ ViewsOf(t) \cap given # {}}

(* What the platform, and the tables that could be made, allow to run.       *)
Feasible(t) ==
  /\ ModuleOf(t) = SMMU => plat.smmus /\ "iovirt" \in tables
  /\ ModuleOf(t) = WD   => plat.wds /\ "wd" \in tables
  /\ ModuleOf(t) = PCIE => /\ plat.ecam /\ "pcie" \in tables
                           /\ t = PCIE + 1 \/ (plat.bdfs /\ "bdf" \in tables)
  /\ ModuleOf(t) = EXER => /\ plat.ecam /\ plat.bdfs /\ plat.cards
                           /\ {"pcie", "bdf"} \subseteq tables
  /\ t \in V2M .. V2M + 19 => plat.v2m

(* ... and os_p001 too, which the other PCIe tests come after.               *)
Possible(t) == Feasible(t) /\ (ModuleOf(t) = PCIE => t = PCIE + 1 \/ passed)

(* What OnlyAsked asks of the command line: os_w001 and os_w002 are not      *)
(* skipped by number.  They run then, against what HelpMsg says of -skip.    *)
SkipsChecked == \A a \in SkipArgs : Range(a) \cap NoSkipCheck = {}

(* No test runs that the command line has excluded by module, by number or   *)
(* by view, in whatever state the tables are and however the suite ends, as  *)
(* long as SkipsChecked.                                                     *)
OnlyAsked == ran \subseteq Asked

(* When the results are printed, and no exception has cut the suite short,   *)
(* every test that was asked for and that the platform allows has run: a     *)
(* test that fails or is skipped keeps no other one from running, but for    *)
(* os_p001.                                                                  *)
AllAsked ==
  pc = "print" /\ aborted = "no" => {t \in Asked : Possible(t)} \subseteq ran

(* When the program ends through print_test_status, also after exceptions    *)
(* half way through the creation of the tables, in the tests, or while the   *)
(* results are printed and the tables freed, everything it allocated is free *)
(* but the two tables that freeBsaAcsMem does not know, and the log file is  *)
(* closed.                                                                   *)
Released ==
  pc = "done" /\ aborted # "early" => tables \subseteq {"memory", "bdf"} /\ ~log

(* However the program gets to freeBsaAcsMem, FreePool gets no buffer twice, *)
(* unless an exception interrupts freeBsaAcsMem itself: the pointers are not *)
(* reset and it starts over then.                                            *)
FreedOnce ==
  aborted # "freeing" => ~twice

----------------------------------------------------------------------------
(* The inductive invariant.                                                  *)

(* Where the program is in its lists; a runner's tests are its own module's. *)
Positions ==
  /\ pc = "options" => step = 1
  /\ pc = "create" => step <= Len(Tables)
  /\ pc \in {"modules", "tests"} => step <= Len(Modules)
  /\ pc = "print" => step = 1
  /\ pc = "free" => step <= Len(FreeOrder) + 1
  /\ todo # {} => pc = "tests"
  /\ \A t \in todo : Modules[step] <= t /\ t < Modules[step] + 100
  /\ passed => /\ pc \notin {"options", "create"}
               /\ pc = "modules" => Modules[step] > PCIE
               /\ pc = "tests" => Modules[step] >= PCIE

(* From the options on, the globals say what the command line says.          *)
Parsed ==
  pc \in {"create", "modules", "tests"} =>
    skip = ParseSkip(args) /\ views = ParseViews(given)

(* What a runner has still to call was not excluded by module or view.       *)
TodoAsked ==
  \A t \in todo : /\ ModuleOf(t) \notin Range(args)
                  /\ given = {} \/ ViewsOf(t) \cap given # {}

(* With an ECAM only a lack of memory leaves the table of functions out, so  *)
(* val_exerciser_execute_tests makes no table that the PCIe tests missed.    *)
BdfMade ==
  /\ pc \in {"options", "create"} /\ step <= 5 => "pcie" \notin tables
  /\ /\ \/ pc = "create" /\ step > 5
        \/ pc \in {"modules", "tests", "print"} /\ aborted = "no"
     /\ plat.ecam /\ "pcie" \in tables
     => "bdf" \in tables \cup short

(* The tests of the runners that have returned have run, those of the        *)
(* current one have run or are still to be called.                           *)
Progress ==
  aborted = "no" => \A t \in Asked :
    /\ pc = "modules" /\ Possible(t) /\ t < Modules[step] => t \in ran
    /\ pc = "tests" /\ t < Modules[step] + 100 =>
         (Possible(t) \/ (PCIE + 1 \in todo /\ Feasible(t)) => t \in ran \cup todo)
    /\ pc = "print" /\ Possible(t) => t \in ran

(* What freeBsaAcsMem has got through is free, and nothing was freed before. *)
Freeing ==
  /\ pc \in {"options", "create", "modules", "tests"} => aborted = "no"
  /\ pc = "free" => \A i \in 1 .. step - 1 : FreeOrder[i] \notin tables
  /\ aborted # "freeing" =>
       /\ pc \notin {"free", "done"} => freed = {}
       /\ pc = "free" => freed \subseteq {FreeOrder[i] : i \in 1 .. step - 1}
  /\ FreedOnce

(* SkipsChecked is a condition of the instance; the rest is inductive.       *)
SuiteInv ==
  /\ TypeOK
  /\ Positions
  /\ Parsed
  /\ TodoAsked
  /\ SkipsChecked => OnlyAsked
  /\ BdfMade
  /\ Progress
  /\ Freeing
  /\ Released
=============================================================================
