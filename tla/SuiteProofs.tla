---------------------------- MODULE SuiteProofs ----------------------------
(* Proofs about the suite application, for every selection of tests, every *)
(* command line, every platform and every shortage of memory.              *)
EXTENDS Suite, WellFoundedInduction, TLAPS

----------------------------------------------------------------------------
(* The operators the model is built from.                                  *)

(* The runners come in the order of their first test number.               *)
LEMMA ModuleTable ==
  /\ Len(Modules) = 10 /\ Len(Tables) = 9 /\ Len(FreeOrder) = 8
  /\ \A i \in 1 .. 10 : Modules[i] = 100 * (i - 1)
  BY DEF Modules, Tables, FreeOrder, PE, MEM, GIC, SMMU, TIMER, WAKEUP, PER, WD, PCIE, EXER

(* Test numbers are in the range of the runners; 800 is not one.           *)
LEMMA TestNumbers == \A t \in Sample : t \in 1 .. 999 /\ t # 800
<1>1. \A t \in AllTests : t \in 1 .. 999 /\ t # 800
  BY DEF AllTests
<1>2. Sample \subseteq AllTests
  BY SuiteAssumption
<1> QED BY <1>1, <1>2

(* A test belongs to the runner whose hundred it is in.                    *)
LEMMA ModuleOfTest ==
  \A t \in Nat, i \in 1 .. 10 :
    ModuleOf(t) = 100 * (i - 1) <=> 100 * (i - 1) <= t /\ t < 100 * i
  BY DEF ModuleOf

(* g_skip_test_num holds the numbers given, and otherwise only a number    *)
(* that is no test's and no module's.                                      *)
LEMMA SkipParsed ==
  ASSUME NEW a \in SkipArgs, NEW n \in Nat, n # Unused
  PROVE  n \in Range(ParseSkip(a)) <=> n \in Range(a)
<1>a. a \in Seq(Nat)
  BY SuiteAssumption
<1> DEFINE k == Len(a)
<1>b. k \in Nat
  BY <1>a
<1>c. DOMAIN a = 1 .. k
  BY <1>a
<1>d. k <= 9
  BY SuiteAssumption DEF MAX_TEST_SKIP_NUM
<1> DEFINE p == ParseSkip(a)
<1>1. /\ DOMAIN p = 1 .. 9
      /\ \A i \in 1 .. 9 : p[i] = IF i <= k THEN a[i] ELSE Unused
  BY DEF ParseSkip, MAX_TEST_SKIP_NUM
<1> HIDE DEF k, p
<1>2. DOMAIN a \subseteq 1 .. 9
  BY <1>b, <1>c, <1>d
<1>3. ASSUME NEW i \in DOMAIN p, p[i] = n PROVE n \in Range(a)
  <2>1. i \in 1 .. 9 /\ i <= k
    BY <1>1, <1>3
  <2>2. i \in DOMAIN a
    BY <1>b, <1>c, <2>1
  <2>3. a[i] = n
    BY <1>1, <1>3, <2>1
  <2> QED BY <2>2, <2>3 DEF Range
<1>4. ASSUME NEW i \in DOMAIN a, a[i] = n PROVE n \in Range(p)
  <2>1. i \in DOMAIN p
    BY <1>1, <1>2, <1>4
  <2>2. i <= k
    BY <1>b, <1>c, <1>4
  <2>3. p[i] = n
    BY <1>1, <1>4, <2>1, <2>2
  <2> QED BY <2>1, <2>3 DEF Range
<1>5. n \in Range(p) <=> n \in Range(a)
  BY <1>3, <1>4 DEF Range
<1> QED BY <1>5 DEF p

(* The views kept in g_sw_view select what the flags select.               *)
LEMMA ViewsParsed ==
  ASSUME NEW g \in Flags, NEW t
  PROVE  ViewsOf(t) \cap ParseViews(g) # {} <=> g = {} \/ ViewsOf(t) \cap g # {}
<1>1. ViewsOf(t) \subseteq Views /\ ViewsOf(t) # {}
  BY DEF ViewsOf, Views
<1> QED BY <1>1 DEF ParseViews

(* A runner with tests left has a next one.                                *)
LEMMA NextTestIsLeft ==
  ASSUME TypeOK, todo # {} PROVE NextTest \in todo
<1>1. todo \subseteq Nat
  <2>1. todo \subseteq Sample
    BY DEF TypeOK
  <2> QED BY <2>1, TestNumbers
<1> DEFINE less == {ss \in Nat \X Nat : ss[1] < ss[2]}
<1>2. IsWellFoundedOn(less, Nat)
  BY NatLessThanWellFounded DEF OpToRel
<1> HIDE DEF less
<1>3. PICK t \in todo : \A u \in todo : ~(<<u, t>> \in less)
  BY <1>1, <1>2, WFMin
<1>4. ASSUME NEW u \in todo PROVE t <= u
  <2>1. t \in Nat /\ u \in Nat /\ <<u, t>> \notin less
    BY <1>1, <1>3
  <2>2. ~(u < t)
    BY <2>1 DEF less
  <2> QED BY <2>1, <2>2
<1> QED BY <1>4 DEF NextTest

----------------------------------------------------------------------------
(* What every runner has in common.                                        *)

(* The runner of module m is called: it takes its tests from those of m    *)
(* that the views select, none if m is skipped, and leaves none out that   *)
(* could run if os_p001 passed.                                            *)
Calls(m) ==
  /\ pc = "modules" /\ pc' = "tests" /\ Modules[step] = m
  /\ UNCHANGED <<options, log, step, handler, history>>
  /\ tables \subseteq tables' /\ tables' \subseteq tables \cup Got("bdf")
  /\ todo' \subseteq Selected(m, m + 99)
  /\ InSkip(m) => todo' = {}
  /\ ~InSkip(m) => \A t \in Selected(m, m + 99) : Feasible(t)' => t \in todo'

(* Each of the ten runners is such a call.                                 *)
LEMMA RunnerCalls ==
  ASSUME TypeOK, Positions, Runners
  PROVE  step \in 1 .. 10 /\ Calls(Modules[step])
<1>s. step \in 1 .. 10 /\ pc = "modules"
  BY ModuleTable DEF TypeOK, Positions, Runners, PeExecuteTests, MemoryExecuteTests,
     GicExecuteTests, SmmuExecuteTests, TimerExecuteTests, WakeupExecuteTests,
     PeripheralExecuteTests, WdExecuteTests, PcieExecuteTests, ExerciserExecuteTests, Plain,
     Runner
<1>p. ASSUME NEW m \in {PE, MEM, TIMER, WAKEUP, PER}, Plain(m, m + 99) PROVE Calls(m)
  BY <1>p DEF Plain, Runner, Call, Calls
<1>1. CASE PeExecuteTests \/ MemoryExecuteTests \/ TimerExecuteTests \/ WakeupExecuteTests
           \/ PeripheralExecuteTests
  <2>1. PICK m \in {PE, MEM, TIMER, WAKEUP, PER} : Plain(m, m + 99)
    BY <1>1 DEF PeExecuteTests, MemoryExecuteTests, TimerExecuteTests, WakeupExecuteTests,
       PeripheralExecuteTests, PE, MEM, TIMER, WAKEUP, PER
  <2> QED BY <1>s, <1>p, <2>1 DEF Plain, Runner
<1>2. CASE GicExecuteTests
  <2>1. Runner(GIC) /\ UNCHANGED <<options, log, step, tables, handler, history>>
        /\ pc' = "tests"
    BY <1>2 DEF GicExecuteTests, Call
  <2>2. todo' = IF InSkip(GIC) THEN {}
                ELSE Selected(200, 279) \cup (IF plat.v2m THEN Selected(280, 299) ELSE {})
    BY <1>2 DEF GicExecuteTests, Call, GIC, V2M
  <2>3. ASSUME NEW t \in Selected(200, 299), Feasible(t)'
        PROVE  t < 280 \/ plat.v2m
    <3>1. t \in Nat /\ 200 <= t /\ t < 300
      BY TestNumbers DEF Selected
    <3>2. ModuleOf(t) = 200
      BY <3>1 DEF ModuleOf
    <3> QED
      BY <2>1, <2>3, <3>1, <3>2 DEF Feasible, GIC, V2M, SMMU, WD, PCIE, EXER, options
  <2>4. \A t \in Selected(200, 299) :
           /\ t < 280 => t \in Selected(200, 279)
           /\ t >= 280 => t \in Selected(280, 299)
    BY TestNumbers DEF Selected
  <2>5. Selected(200, 279) \cup Selected(280, 299) \subseteq Selected(200, 299)
    BY TestNumbers DEF Selected
  <2>6. \A t \in Selected(200, 299) : t \in Nat
    BY TestNumbers DEF Selected
  <2>7. /\ todo' \subseteq Selected(200, 299)
        /\ ~InSkip(GIC) => \A t \in Selected(200, 299) : Feasible(t)' => t \in todo'
    BY <2>2, <2>3, <2>4, <2>5, <2>6
  <2> QED BY <1>s, <2>1, <2>2, <2>7 DEF Runner, Calls, GIC
<1>3. CASE SmmuExecuteTests
  <2>1. ASSUME NEW t \in Selected(SMMU, 399), Feasible(t)'
        PROVE  plat'.smmus /\ "iovirt" \in tables'
    <3>1. ModuleOf(t) = SMMU
      BY TestNumbers DEF Selected, ModuleOf, SMMU
    <3> QED
      BY <2>1, <3>1 DEF Feasible
  <2> QED
    BY <1>s, <1>3, <2>1 DEF SmmuExecuteTests, Runner, Call, Calls, options, SMMU
<1>4. CASE WdExecuteTests
  <2>1. ASSUME NEW t \in Selected(WD, 799), Feasible(t)'
        PROVE  plat'.wds /\ "wd" \in tables'
    <3>1. ModuleOf(t) = WD
      BY TestNumbers DEF Selected, ModuleOf, WD
    <3> QED
      BY <2>1, <3>1 DEF Feasible, SMMU, WD
  <2> QED
    BY <1>s, <1>4, <2>1 DEF WdExecuteTests, Runner, Call, Calls, options, WD
<1>5. CASE PcieExecuteTests
  <2>1. Runner(PCIE) /\ UNCHANGED <<options, log, step, tables, handler, history>>
        /\ pc' = "tests"
    BY <1>5 DEF PcieExecuteTests, Call
  <2>2. ASSUME NEW t \in Selected(800, 899), Feasible(t)'
        PROVE  /\ plat.ecam /\ "pcie" \in tables
               /\ t = 801 \/ (plat.bdfs /\ "bdf" \in tables)
    <3>1. ModuleOf(t) = PCIE
      BY TestNumbers DEF Selected, ModuleOf, PCIE
    <3> QED
      BY <2>1, <2>2, <3>1 DEF Feasible, SMMU, WD, PCIE, options
  <2>3. /\ \A t \in Selected(800, 899) :
              t \in Selected(801, 801) \cup Selected(802, 899) /\ (t = 801 => t \in Selected(801, 801))
        /\ Selected(801, 801) \cup Selected(802, 899) \subseteq Selected(800, 899)
    BY TestNumbers DEF Selected
  <2>4. CASE InSkip(PCIE) \/ ~plat.ecam \/ "pcie" \notin tables
    <3>1. todo' = {}
      BY <1>5, <2>4 DEF PcieExecuteTests, Call
    <3> QED
      BY <1>s, <2>1, <2>2, <2>4, <3>1 DEF Runner, Calls, PCIE
  <2>5. CASE ~(InSkip(PCIE) \/ ~plat.ecam \/ "pcie" \notin tables)
    <3>1. PICK f \in (IF "bdf" \in tables THEN {plat.bdfs} ELSE BOOLEAN) :
            todo' = Selected(801, 801) \cup (IF f THEN Selected(802, 899) ELSE {})
      BY <1>5, <2>5 DEF PcieExecuteTests, Call, PCIE
    <3>2. plat.bdfs /\ "bdf" \in tables => f
      BY <3>1
    <3>3. /\ todo' \subseteq Selected(800, 899)
          /\ \A t \in Selected(800, 899) : Feasible(t)' => t \in todo'
      BY <2>2, <2>3, <3>1, <3>2
    <3> QED
      BY <1>s, <2>1, <2>5, <3>3 DEF Runner, Calls, PCIE
  <2> QED BY <2>4, <2>5
<1>6. CASE ExerciserExecuteTests
  <2>1. ASSUME NEW t \in Selected(900, 999), Feasible(t)'
        PROVE  /\ plat'.ecam /\ plat'.bdfs /\ plat'.cards
               /\ {"pcie", "bdf"} \subseteq tables'
    <3>1. ModuleOf(t) = EXER
      BY TestNumbers DEF Selected, ModuleOf, EXER
    <3> QED
      BY <2>1, <3>1 DEF Feasible, SMMU, WD, PCIE, EXER
  <2>2. CASE InSkip(EXER)
    BY <1>s, <1>6, <2>2 DEF ExerciserExecuteTests, Runner, Call, Calls
  <2>3. CASE ~InSkip(EXER)
    BY <1>s, <1>6, <2>1, <2>3 DEF ExerciserExecuteTests, Runner, Calls, options, EXER
  <2> QED BY <2>2, <2>3
<1> QED BY <1>1, <1>2, <1>3, <1>4, <1>5, <1>6 DEF Runners

----------------------------------------------------------------------------
(* The steps of the program, one lemma each.                               *)

(* The parsed list is one of g_skip_test_num's length.                     *)
LEMMA ParseSkipType ==
  ASSUME NEW a \in SkipArgs PROVE ParseSkip(a) \in [1 .. MAX_TEST_SKIP_NUM -> Nat]
<1>1. a \in Seq(Nat)
  BY SuiteAssumption
<1>2. \A i \in 1 .. MAX_TEST_SKIP_NUM : i <= Len(a) => a[i] \in Nat
  BY <1>1 DEF MAX_TEST_SKIP_NUM
<1> QED
  BY <1>2 DEF ParseSkip, Unused

(* The options only set the globals, or end the program.                   *)
LEMMA InvParseOptions ==
  ASSUME SuiteInv, ParseOptions PROVE SuiteInv'
<1> USE DEF SuiteInv
<1>1. TypeOK'
  <2>1. log' \in BOOLEAN /\ handler' \in BOOLEAN /\ passed' \in BOOLEAN /\ twice' \in BOOLEAN
    BY Zenon DEF ParseOptions, TypeOK, freeing
  <2>2. skip' \in [1 .. MAX_TEST_SKIP_NUM -> Nat]
    BY ParseSkipType DEF ParseOptions, TypeOK
  <2>3. views' \subseteq Views
    BY SuiteAssumption DEF ParseOptions, ParseViews, TypeOK
  <2> QED
    BY <2>1, <2>2, <2>3 DEF ParseOptions, TypeOK, freeing
<1>2. Positions' /\ Parsed' /\ TodoAsked'
  <2>1. todo = {} /\ ~passed /\ step = 1
    BY DEF Positions, ParseOptions
  <2> QED BY <2>1, ModuleTable DEF ParseOptions, Positions, Parsed, TodoAsked
<1>3. (SkipsChecked => OnlyAsked)'
  BY DEF ParseOptions, OnlyAsked, Asked, SkipsChecked
<1>4. BdfMade' /\ Progress' /\ Released'
  BY DEF ParseOptions, Positions, BdfMade, Progress, Released
<1>5. Freeing'
  BY DEF ParseOptions, Freeing, FreedOnce, freeing
<1> QED BY <1>1, <1>2, <1>3, <1>4, <1>5

(* The order in which the tables are created.                              *)
LEMMA TableOrder ==
  ASSUME NEW i \in 1 .. 9
  PROVE  /\ Tables[i] = "pe" => i = 1
         /\ Tables[i] = "gic" => i = 2
         /\ Tables[i] = "timer" => i = 3
         /\ Tables[i] = "wd" => i = 4
         /\ Tables[i] = "pcie" => i = 5
         /\ Tables[i] = "iovirt" => i = 6
         /\ Tables[i] = "per" => i = 7
         /\ Tables[i] = "memory" => i = 8
         /\ Tables[i] = "shared" => i = 9
  BY DEF Tables

(* What may be allocated.                                                  *)
LEMMA BufferNames ==
  Buffers = {"pe", "gic", "timer", "wd", "pcie", "iovirt", "per", "memory", "shared", "bdf"}
<1>1. \A i \in 1 .. 9 : Tables[i] \in {"pe", "gic", "timer", "wd", "pcie", "iovirt", "per",
                                       "memory", "shared"}
  BY DEF Tables
<1>2. DOMAIN Tables = 1 .. 9
  BY DEF Tables
<1>3. /\ Tables[1] = "pe" /\ Tables[2] = "gic" /\ Tables[3] = "timer" /\ Tables[4] = "wd"
      /\ Tables[5] = "pcie" /\ Tables[6] = "iovirt" /\ Tables[7] = "per"
      /\ Tables[8] = "memory" /\ Tables[9] = "shared"
  BY DEF Tables
<1> HIDE DEF Tables
<1>4. Range(Tables) = {"pe", "gic", "timer", "wd", "pcie", "iovirt", "per", "memory", "shared"}
  BY <1>1, <1>2, <1>3 DEF Range
<1> QED BY <1>4 DEF Buffers

(* Each creation of a table goes on to a later one, or to the runners, or  *)
(* ends the program.                                                       *)
LEMMA CreateSteps ==
  ASSUME TypeOK, Positions, BdfMade, Create
  PROVE  /\ pc = "create"
         /\ UNCHANGED <<options, log, todo, ran, passed, freed, twice>>
         /\ tables' \subseteq Buffers
         /\ \/ pc' = "done" /\ aborted' = "early" /\ step' = step
            \/ pc' = "create" /\ aborted' = aborted /\ step' \in 1 .. 9
            \/ pc' = "modules" /\ aborted' = aborted /\ step' = 1
         /\ BdfMade'
<1>s. pc = "create" /\ step \in 1 .. 9
  BY ModuleTable DEF TypeOK, Positions, Create, CreatePeInfoTable, CreateGicInfoTable,
     CreateTimerInfoTable, CreateWatchdogInfoTable, CreatePcieInfoTable, CreateIovirtInfoTable,
     CreatePeripheralInfoTable, CreateMemoryInfoTable, AllocateSharedMem, Creating
<1>t. tables \subseteq Buffers
  BY DEF TypeOK
<1>1. CASE CreatePeInfoTable
  <2>1. step = 1
    BY <1>s, <1>1, TableOrder DEF CreatePeInfoTable, Creating
  <2>2. UNCHANGED <<options, log, todo, ran, passed, freed, twice>>
    BY <1>1 DEF CreatePeInfoTable, Allocated, ReturnEarly, history, freeing
  <2>3. tables' \subseteq Buffers
    BY <1>t, <1>1, BufferNames DEF CreatePeInfoTable, Allocated, ReturnEarly, Got
  <2>4. \/ pc' = "done" /\ aborted' = "early" /\ step' = step
        \/ pc' = "create" /\ aborted' = aborted /\ step' = 2
    BY <1>s, <1>1, <2>1 DEF CreatePeInfoTable, Allocated, ReturnEarly, history, freeing
  <2>5. BdfMade'
    BY <1>s, <1>1, <2>1, <2>4 DEF CreatePeInfoTable, Allocated, ReturnEarly, Got, BdfMade
  <2> QED BY <1>s, <2>2, <2>3, <2>4, <2>5
<1>2. CASE CreateGicInfoTable
  <2>1. step = 2
    BY <1>s, <1>2, TableOrder DEF CreateGicInfoTable, Creating
  <2>2. UNCHANGED <<options, log, todo, ran, passed, freed, twice>>
    BY <1>2 DEF CreateGicInfoTable, ReturnEarly, history, freeing
  <2>3. tables' \subseteq Buffers
    BY <1>t, <1>2, BufferNames DEF CreateGicInfoTable, ReturnEarly, Got
  <2>4. \/ pc' = "done" /\ aborted' = "early" /\ step' = step
        \/ pc' = "create" /\ aborted' = aborted /\ step' = 3
    BY <1>s, <1>2, <2>1 DEF CreateGicInfoTable, ReturnEarly, history, freeing
  <2>5. BdfMade'
    BY <1>s, <1>2, <2>1, <2>4 DEF CreateGicInfoTable, ReturnEarly, Got, BdfMade
  <2> QED BY <1>s, <2>2, <2>3, <2>4, <2>5
<1>3. CASE CreateTimerInfoTable
  <2>1. step = 3
    BY <1>s, <1>3, TableOrder DEF CreateTimerInfoTable, Creating
  <2>2. UNCHANGED <<options, log, todo, ran, passed, freed, twice>>
    BY <1>3 DEF CreateTimerInfoTable, Allocated, history, freeing
  <2>3. tables' \subseteq Buffers
    BY <1>t, <1>3, BufferNames DEF CreateTimerInfoTable, Allocated, Got
  <2>4. pc' = "create" /\ aborted' = aborted /\ step' = 4
    BY <1>s, <1>3, <2>1 DEF CreateTimerInfoTable, Allocated, history, freeing
  <2>5. BdfMade'
    BY <1>s, <1>3, <2>1, <2>4 DEF CreateTimerInfoTable, Allocated, Got, BdfMade
  <2> QED BY <1>s, <2>2, <2>3, <2>4, <2>5
<1>4. CASE CreateWatchdogInfoTable
  <2>1. step = 4
    BY <1>s, <1>4, TableOrder DEF CreateWatchdogInfoTable, Creating
  <2>2. UNCHANGED <<options, log, todo, ran, passed, freed, twice>>
    BY <1>4 DEF CreateWatchdogInfoTable, Allocated, history, freeing
  <2>3. tables' \subseteq Buffers
    BY <1>t, <1>4, BufferNames DEF CreateWatchdogInfoTable, Allocated, Got
  <2>4. pc' = "create" /\ aborted' = aborted /\ step' = 5
    BY <1>s, <1>4, <2>1 DEF CreateWatchdogInfoTable, Allocated, history, freeing
  <2>5. BdfMade'
    BY <1>s, <1>4, <2>1, <2>4 DEF CreateWatchdogInfoTable, Allocated, Got, BdfMade
  <2> QED BY <1>s, <2>2, <2>3, <2>4, <2>5
<1>5. CASE CreatePcieInfoTable
  <2>1. step = 5
    BY <1>s, <1>5, TableOrder DEF CreatePcieInfoTable, Creating
  <2>2. UNCHANGED <<options, log, todo, ran, passed, freed, twice>>
    BY <1>5 DEF CreatePcieInfoTable, Allocated, history, freeing
  <2>3. tables' \subseteq Buffers
    BY <1>t, <1>5, BufferNames DEF CreatePcieInfoTable, Allocated, Got
  <2>4. pc' = "create" /\ aborted' = aborted /\ step' \in {6, 7}
    BY <1>s, <1>5, <2>1 DEF CreatePcieInfoTable, Allocated, history, freeing
  <2>5. BdfMade'
    BY <1>s, <1>5, <2>1, <2>2, <2>4 DEF CreatePcieInfoTable, Allocated, Got, BdfMade, options
  <2> QED BY <1>s, <2>2, <2>3, <2>4, <2>5
<1>6. CASE CreateIovirtInfoTable
  <2>1. step = 6
    BY <1>s, <1>6, TableOrder DEF CreateIovirtInfoTable, Creating
  <2>2. UNCHANGED <<options, log, todo, ran, passed, freed, twice>>
    BY <1>6 DEF CreateIovirtInfoTable, Allocated, history, freeing
  <2>3. tables' \subseteq Buffers
    BY <1>t, <1>6, BufferNames DEF CreateIovirtInfoTable, Allocated, Got
  <2>4. pc' = "create" /\ aborted' = aborted /\ step' = 7
    BY <1>s, <1>6, <2>1 DEF CreateIovirtInfoTable, Allocated, history, freeing
  <2>5. BdfMade'
    BY <1>s, <1>6, <2>1, <2>2, <2>4 DEF CreateIovirtInfoTable, Allocated, Got, BdfMade, options
  <2> QED BY <1>s, <2>2, <2>3, <2>4, <2>5
<1>7. CASE CreatePeripheralInfoTable
  <2>1. step = 7
    BY <1>s, <1>7, TableOrder DEF CreatePeripheralInfoTable, Creating
  <2>2. UNCHANGED <<options, log, todo, ran, passed, freed, twice>>
    BY <1>7 DEF CreatePeripheralInfoTable, Allocated, history, freeing
  <2>3. tables' \subseteq Buffers
    BY <1>t, <1>7, BufferNames DEF CreatePeripheralInfoTable, Allocated, Got
  <2>4. pc' = "create" /\ aborted' = aborted /\ step' \in {8, 9}
    BY <1>s, <1>7, <2>1 DEF CreatePeripheralInfoTable, Allocated, history, freeing
  <2>5. BdfMade'
    BY <1>s, <1>7, <2>1, <2>2, <2>4 DEF CreatePeripheralInfoTable, Allocated, Got, BdfMade, options
  <2> QED BY <1>s, <2>2, <2>3, <2>4, <2>5
<1>8. CASE CreateMemoryInfoTable
  <2>1. step = 8
    BY <1>s, <1>8, TableOrder DEF CreateMemoryInfoTable, Creating
  <2>2. UNCHANGED <<options, log, todo, ran, passed, freed, twice>>
    BY <1>8 DEF CreateMemoryInfoTable, Allocated, history, freeing
  <2>3. tables' \subseteq Buffers
    BY <1>t, <1>8, BufferNames DEF CreateMemoryInfoTable, Allocated, Got
  <2>4. pc' = "create" /\ aborted' = aborted /\ step' = 9
    BY <1>s, <1>8, <2>1 DEF CreateMemoryInfoTable, Allocated, history, freeing
  <2>5. BdfMade'
    BY <1>s, <1>8, <2>1, <2>2, <2>4 DEF CreateMemoryInfoTable, Allocated, Got, BdfMade, options
  <2> QED BY <1>s, <2>2, <2>3, <2>4, <2>5
<1>9. CASE AllocateSharedMem
  <2>1. step = 9
    BY <1>s, <1>9, TableOrder DEF AllocateSharedMem, Creating
  <2>2. UNCHANGED <<options, log, todo, ran, passed, freed, twice>>
    BY <1>9 DEF AllocateSharedMem, history, freeing
  <2>3. tables' \subseteq Buffers
    BY <1>t, <1>9, BufferNames DEF AllocateSharedMem, Got
  <2>4. pc' = "modules" /\ aborted' = aborted /\ step' = 1
    BY <1>s, <1>9, <2>1 DEF AllocateSharedMem, history, freeing
  <2>5. BdfMade'
    BY <1>s, <1>9, <2>1, <2>2, <2>4 DEF AllocateSharedMem, Got, BdfMade, options
  <2> QED BY <1>s, <2>2, <2>3, <2>4, <2>5
<1> QED BY <1>1, <1>2, <1>3, <1>4, <1>5, <1>6, <1>7, <1>8, <1>9 DEF Create

(* While the tables are created no test is run or called.                  *)
LEMMA InvCreate ==
  ASSUME SuiteInv, Create PROVE SuiteInv'
<1> USE DEF SuiteInv
<1>1. /\ pc = "create" /\ UNCHANGED <<options, log, todo, ran, passed, freed, twice>>
      /\ tables' \subseteq Buffers
      /\ \/ pc' = "done" /\ aborted' = "early" /\ step' = step
         \/ pc' = "create" /\ aborted' = aborted /\ step' \in 1 .. 9
         \/ pc' = "modules" /\ aborted' = aborted /\ step' = 1
      /\ BdfMade'
  BY CreateSteps
<1>h. handler' \in BOOLEAN
  BY Zenon DEF Create, CreatePeInfoTable, CreateGicInfoTable,
     CreateTimerInfoTable, CreateWatchdogInfoTable, CreatePcieInfoTable, CreateIovirtInfoTable,
     CreatePeripheralInfoTable, CreateMemoryInfoTable, AllocateSharedMem, Creating, Allocated,
     ReturnEarly, TypeOK
<1>b. log' \in BOOLEAN /\ passed' \in BOOLEAN /\ twice' \in BOOLEAN
  BY <1>1, Zenon DEF TypeOK
<1>2. TypeOK'
  BY <1>1, <1>h, <1>b, ModuleTable DEF TypeOK, options
<1>3. todo = {} /\ ~passed
  BY <1>1 DEF Positions
<1>4. Positions' /\ Parsed' /\ TodoAsked'
  BY <1>1, <1>3, ModuleTable DEF Positions, Parsed, TodoAsked, options
<1>5. (SkipsChecked => OnlyAsked)'
  BY <1>1 DEF OnlyAsked, Asked, SkipsChecked, options
<1>6. Progress'
  <2>1. \A t \in Asked' : t \in 1 .. 999
    BY TestNumbers DEF Asked
  <2>2. Modules[1] = 0
    BY ModuleTable
  <2> QED BY <1>1, <2>1, <2>2 DEF Progress
<1>7. Released' /\ Freeing'
  BY <1>1 DEF Released, Freeing, FreedOnce
<1> QED BY <1>1, <1>2, <1>4, <1>5, <1>6, <1>7

(* A runner takes what the command line asks of its module.                *)
LEMMA InvRunners ==
  ASSUME SuiteInv, Runners PROVE SuiteInv'
<1> USE DEF SuiteInv
<1> DEFINE m == Modules[step]
<1>1. step \in 1 .. 10 /\ Calls(m)
  BY RunnerCalls
<1>m. m = 100 * (step - 1) /\ m \in Nat /\ m # Unused
  BY <1>1, ModuleTable DEF Unused
<1> HIDE DEF m
<1>2. /\ pc = "modules" /\ pc' = "tests" /\ UNCHANGED <<args, given, skip, views, plat, short>>
      /\ UNCHANGED <<step, ran, passed, aborted, freed, twice>>
  BY <1>1 DEF Calls, options, history, freeing
<1>3. TypeOK'
  <2>1. log' \in BOOLEAN /\ handler' \in BOOLEAN /\ passed' \in BOOLEAN /\ twice' \in BOOLEAN
    BY <1>1, Zenon DEF TypeOK, Calls, history, freeing
  <2>2. todo' \subseteq Sample /\ tables' \subseteq Buffers
    BY <1>1, BufferNames DEF Calls, Selected, TypeOK, Got
  <2> QED
    BY <1>2, <2>1, <2>2 DEF TypeOK
<1>4. \A t \in todo' : t \in Sample /\ t \in Nat /\ m <= t /\ t < m + 100
                      /\ ViewsOf(t) \cap views # {}
  BY <1>1, <1>m, TestNumbers DEF Calls, Selected
<1>5. Positions'
  <2>1. pc' = "modules" => FALSE
    BY <1>2
  <2>2. passed => m >= PCIE
    BY <1>2, <1>m DEF Positions, m, PCIE
  <2> QED
    BY <1>1, <1>2, <1>4, <2>2, ModuleTable DEF Positions, m
<1>6. Parsed'
  BY <1>2 DEF Parsed
<1>p. skip = ParseSkip(args) /\ views = ParseViews(given) /\ args \in SkipArgs /\ given \in Flags
  BY <1>2 DEF Parsed, TypeOK
<1>s. InSkip(m) <=> m \in Range(args)
  BY <1>p, <1>m, SkipParsed DEF InSkip
<1>o. \A t \in Sample : m <= t /\ t < m + 100 => ModuleOf(t) = m
  <2> HIDE DEF SuiteInv
  <2> SUFFICES ASSUME NEW t \in Sample, m <= t, t < m + 100 PROVE ModuleOf(t) = m
    OBVIOUS
  <2>1. t \in Nat
    BY TestNumbers
  <2>2. 100 * (step - 1) <= t /\ t < 100 * step
    BY <1>1, <1>m, <2>1
  <2>3. ModuleOf(t) = 100 * (step - 1)
    BY <1>1, <2>1, <2>2, ModuleOfTest
  <2> QED BY <1>m, <2>3
<1>7. TodoAsked'
  <2> SUFFICES ASSUME NEW t \in todo'
               PROVE  /\ ModuleOf(t) \notin Range(args)
                      /\ given = {} \/ ViewsOf(t) \cap given # {}
    BY <1>2 DEF TodoAsked
  <2>1. ModuleOf(t) = m /\ m \notin Range(args)
    BY <1>1, <1>4, <1>o, <1>s DEF Calls
  <2> QED BY <1>4, <1>p, <2>1, ViewsParsed
<1>8. (SkipsChecked => OnlyAsked)'
  BY <1>2 DEF OnlyAsked, Asked, SkipsChecked
<1>t. tables \subseteq tables' /\ tables' \subseteq tables \cup Got("bdf")
  BY <1>1 DEF Calls
<1>9. BdfMade'
  BY <1>2, <1>t DEF BdfMade, Got
<1>10. Progress'
  <2> SUFFICES ASSUME aborted = "no", NEW t \in Asked, t < m + 100, Feasible(t)',
                      ModuleOf(t) = PCIE => t = PCIE + 1 \/ passed \/ PCIE + 1 \in todo'
               PROVE  t \in ran \cup todo'
    <3>1. Asked' = Asked
      BY <1>2 DEF Asked
    <3> QED BY <1>2, <3>1 DEF Progress, Possible, m
  <2>1. /\ t \in Sample /\ t \in Nat
        /\ ModuleOf(t) \notin Range(args)
        /\ given = {} \/ ViewsOf(t) \cap given # {}
    BY TestNumbers DEF Asked
  (* The runners before: the exerciser's runner makes no table they missed. *)
  <2>2. CASE t < m
    <3>1. Feasible(t)
      <4>1. tables' \subseteq tables \cup Got("bdf") /\ plat' = plat
        BY <1>2, <1>t
      <4>2. plat.ecam /\ "pcie" \in tables /\ "bdf" \in tables' => "bdf" \in tables
        BY <1>2, <1>t DEF BdfMade, Got
      <4> QED BY <2>2, <4>1, <4>2 DEF Feasible, Got
    <3>2. ModuleOf(t) = PCIE => t = PCIE + 1 \/ passed
      <4>1. ModuleOf(t) = 800 => t >= 800
        BY <2>1 DEF ModuleOf
      <4>2. 801 \in todo' => m = 800
        BY <1>1, <1>m, <1>4
      <4> QED BY <1>m, <2>1, <2>2, <4>1, <4>2 DEF PCIE
    <3> QED
      BY <1>2, <2>2, <3>1, <3>2 DEF Progress, Possible, m
  <2>3. CASE m <= t
    <3>1. ModuleOf(t) = m
      BY <1>o, <2>1, <2>3
    <3>2. t \in Selected(m, m + 99)
      BY <1>m, <1>p, <2>1, <2>3, ViewsParsed DEF Selected
    <3> QED
      BY <1>1, <1>s, <2>1, <3>1, <3>2 DEF Calls
  <2> QED BY <1>m, <2>1, <2>2, <2>3
<1>11. Released' /\ Freeing'
  BY <1>2 DEF Released, Freeing, FreedOnce
<1> QED BY <1>3, <1>5, <1>6, <1>7, <1>8, <1>9, <1>10, <1>11

(* A test is called: it runs unless its number is skipped, and only a      *)
(* os_p001 that does not pass drops the tests after it.                    *)
LEMMA InvRunTest ==
  ASSUME SuiteInv, RunTest PROVE SuiteInv'
<1> USE DEF SuiteInv
<1> DEFINE n == NextTest
           run == ~InSkip(n) \/ n \in NoSkipCheck
<1>n. n \in todo /\ n \in Sample /\ n \in Nat /\ n # Unused
  <2>1. todo # {}
    BY DEF RunTest
  <2>2. n \in todo
    BY <2>1, NextTestIsLeft
  <2>3. n \in Sample
    BY <2>2 DEF TypeOK
  <2> HIDE DEF n
  <2>4. n \in 1 .. 999
    BY <2>3, TestNumbers
  <2> QED BY <2>2, <2>3, <2>4 DEF Unused
<1>1. /\ pc = "tests" /\ UNCHANGED <<args, given, skip, views, plat, short>>
      /\ UNCHANGED <<pc, step, tables, aborted, freed, twice>>
      /\ ran' = IF run THEN ran \cup {n} ELSE ran
  BY DEF RunTest, options, freeing
<1>2. \/ n # PCIE + 1 /\ todo' = todo \ {n} /\ passed' = passed
      \/ n = PCIE + 1 /\ todo' = todo \ {n} /\ passed'
      \/ n = PCIE + 1 /\ todo' = {} /\ ~passed'
  BY Zenon DEF RunTest
<1>3. TypeOK'
  <2>1. log' \in BOOLEAN /\ handler' \in BOOLEAN /\ twice' \in BOOLEAN
    BY Zenon DEF TypeOK, RunTest, freeing
  <2>2. passed' \in BOOLEAN
    BY Zenon DEF TypeOK, RunTest
  <2>3. todo' \subseteq Sample /\ ran' \subseteq Sample
    BY <1>n, <1>1, <1>2 DEF TypeOK
  <2> QED
    BY <1>1, <2>1, <2>2, <2>3 DEF TypeOK
<1>r. run <=> n \notin Range(args) \/ n \in NoSkipCheck
  BY <1>n, <1>1, SkipParsed DEF InSkip, Parsed, TypeOK
<1> HIDE DEF n, run
<1>t. todo' \subseteq todo
  BY <1>2
<1>s. step \in 1 .. 10 /\ Modules[step] = 100 * (step - 1)
  BY <1>1, ModuleTable DEF Positions, TypeOK
<1>4. Positions'
  <2>1. n = PCIE + 1 => Modules[step] >= PCIE
    BY <1>n, <1>s DEF Positions, PCIE
  <2> QED
    BY <1>1, <1>2, <1>t, <2>1 DEF Positions
<1>5. Parsed' /\ TodoAsked'
  BY <1>1, <1>t DEF Parsed, TodoAsked
<1>a. Asked' = Asked
  BY <1>1 DEF Asked
<1>6. (SkipsChecked => OnlyAsked)'
  <2>1. SkipsChecked /\ run => n \in Asked
    <3>1. SkipsChecked /\ run => n \notin Range(args)
      BY <1>r DEF SkipsChecked, TypeOK
    <3> QED BY <1>n, <3>1 DEF TodoAsked, Asked
  <2> QED BY <1>1, <1>a, <2>1 DEF OnlyAsked, SkipsChecked
<1>7. BdfMade'
  BY <1>1 DEF BdfMade
<1>8. Progress'
  <2> SUFFICES ASSUME aborted = "no", NEW t \in Asked, t < Modules[step] + 100,
                      Possible(t)' \/ (PCIE + 1 \in todo' /\ Feasible(t)')
               PROVE  t \in ran' \cup todo'
    BY <1>1, <1>a DEF Progress
  <2>1. Feasible(t)' <=> Feasible(t)
    BY <1>1 DEF Feasible
  <2>2. t = n => t \in ran'
    BY <1>1, <1>r DEF Asked
  <2>3. CASE todo' = todo \ {n}
    <3>1. Possible(t) \/ (PCIE + 1 \in todo /\ Feasible(t))
      BY <1>n, <1>2, <2>1, <2>3 DEF Possible
    <3>2. t \in ran \cup todo
      BY <1>1, <3>1 DEF Progress
    <3> QED BY <1>1, <2>2, <2>3, <3>2
  <2>4. CASE todo' # todo \ {n}
    <3>1. n = PCIE + 1 /\ ~passed' /\ todo' = {}
      BY <1>2, <2>4
    <3>2. t \in Nat /\ Modules[step] = 800
      BY <1>n, <1>s, <3>1, TestNumbers DEF Positions, PCIE, Asked
    <3>3. Possible(t)' /\ (ModuleOf(t) = PCIE => t = n)
      BY <3>1 DEF Possible
    <3>4. CASE t >= 800
      <4>1. ModuleOf(t) = PCIE
        BY <3>2, <3>4 DEF ModuleOf, PCIE
      <4> QED BY <2>2, <3>3, <4>1
    <3>5. CASE t < 800
      <4>1. ModuleOf(t) # PCIE
        BY <3>2, <3>5 DEF ModuleOf, PCIE
      <4>2. t \in ran \cup todo
        BY <1>1, <2>1, <3>3, <4>1 DEF Possible, Progress
      <4>3. t \notin todo
        BY <1>1, <3>2, <3>5 DEF Positions
      <4> QED BY <1>1, <4>2, <4>3
    <3> QED BY <3>2, <3>4, <3>5
  <2> QED BY <2>3, <2>4
<1>9. Released' /\ Freeing'
  BY <1>1 DEF Released, Freeing, FreedOnce
<1> QED BY <1>3, <1>4, <1>5, <1>6, <1>7, <1>8, <1>9

(* A runner returns when it has no test left.                              *)
LEMMA InvEndModule ==
  ASSUME SuiteInv, EndModule PROVE SuiteInv'
<1> USE DEF SuiteInv
<1>1. /\ pc = "tests" /\ todo = {}
      /\ step = 10 => pc' = "print" /\ step' = 1
      /\ step # 10 => pc' = "modules" /\ step' = step + 1
      /\ UNCHANGED <<args, given, skip, views, plat, short>>
      /\ UNCHANGED <<todo, tables, ran, passed, aborted, freed, twice>>
  BY ModuleTable DEF EndModule, options, history, freeing
<1>2. step \in 1 .. 10 /\ Modules[step] = 100 * (step - 1)
  BY <1>1, ModuleTable DEF Positions, TypeOK
<1>3. TypeOK'
  <2>1. log' \in BOOLEAN /\ handler' \in BOOLEAN /\ passed' \in BOOLEAN /\ twice' \in BOOLEAN
    BY Zenon DEF TypeOK, EndModule, history, freeing
  <2>2. step' \in 1 .. Len(Modules) + 1
    BY <1>1, <1>2, ModuleTable
  <2> QED
    BY <1>1, <2>1, <2>2 DEF TypeOK
<1>4. pc' = "modules" => step' \in 1 .. 10 /\ Modules[step'] = Modules[step] + 100
  BY <1>1, <1>2, ModuleTable
<1>5. Positions'
  BY <1>1, <1>2, <1>4, ModuleTable DEF Positions, PCIE
<1>6. Parsed' /\ TodoAsked'
  BY <1>1 DEF Parsed, TodoAsked
<1>7. (SkipsChecked => OnlyAsked)'
  BY <1>1 DEF OnlyAsked, Asked, SkipsChecked
<1>8. BdfMade'
  BY <1>1 DEF BdfMade
<1>9. Progress'
  <2> SUFFICES ASSUME aborted = "no", NEW t \in Asked, Possible(t)',
                      pc' = "modules" => t < Modules[step']
               PROVE  t \in ran
    <3>1. Asked' = Asked
      BY <1>1 DEF Asked
    <3>2. pc' # "tests"
      BY <1>1
    <3> QED BY <1>1, <3>1, <3>2 DEF Progress
  <2>1. Possible(t)
    BY <1>1 DEF Possible, Feasible
  <2>2. t < Modules[step] + 100
    <3>1. t \in 1 .. 999
      BY TestNumbers DEF Asked
    <3> QED BY <1>1, <1>2, <1>4, <3>1
  <2> QED
    BY <1>1, <2>1, <2>2 DEF Progress
<1>10. Released' /\ Freeing'
  BY <1>1, <1>2 DEF Released, Freeing, FreedOnce
<1> QED BY <1>3, <1>5, <1>6, <1>7, <1>8, <1>9, <1>10

(* An exception abandons the tests that are left, and freeBsaAcsMem starts *)
(* over if it was there.                                                   *)
LEMMA InvException ==
  ASSUME SuiteInv, Exception PROVE SuiteInv'
<1> USE DEF SuiteInv
<1>1. /\ pc' \in {"print", "nested"} /\ todo' = {} /\ step' = 1
      /\ UNCHANGED <<args, given, skip, views, plat, short>>
      /\ UNCHANGED <<tables, ran, passed, freed, twice>>
      /\ pc \notin {"done"}
      /\ \/ aborted' = "freeing"
         \/ aborted' = "exception" /\ aborted # "freeing" /\ pc # "free"
  BY DEF Exception, options, freeing
<1>2. TypeOK'
  <2>1. log' \in BOOLEAN /\ handler' \in BOOLEAN /\ passed' \in BOOLEAN /\ twice' \in BOOLEAN
    BY Zenon DEF TypeOK, Exception, freeing
  <2>2. step' \in 1 .. Len(Modules) + 1
    BY <1>1, ModuleTable
  <2> QED
    BY <1>1, <2>1, <2>2 DEF TypeOK
<1>3. Positions' /\ Parsed' /\ TodoAsked'
  BY <1>1 DEF Positions, Parsed, TodoAsked
<1>4. (SkipsChecked => OnlyAsked)'
  BY <1>1 DEF OnlyAsked, Asked, SkipsChecked
<1>5. BdfMade' /\ Progress' /\ Released'
  BY <1>1 DEF BdfMade, Progress, Released
<1>6. Freeing'
  BY <1>1 DEF Freeing, FreedOnce
<1> QED BY <1>2, <1>3, <1>4, <1>5, <1>6

(* The results are printed.                                                *)
LEMMA InvPrintStatus ==
  ASSUME SuiteInv, PrintStatus PROVE SuiteInv'
<1> USE DEF SuiteInv
<1>1. /\ pc = "print" /\ pc' = "free" /\ step = 1
      /\ UNCHANGED <<args, given, skip, views, plat, short>>
      /\ UNCHANGED <<step, todo, tables, ran, passed, aborted, freed, twice>>
  BY DEF PrintStatus, options, history, freeing, Positions
<1>2. TypeOK'
  <2>1. log' \in BOOLEAN /\ handler' \in BOOLEAN /\ passed' \in BOOLEAN /\ twice' \in BOOLEAN
    BY Zenon DEF TypeOK, PrintStatus, history, freeing
  <2> QED
    BY <1>1, <2>1 DEF TypeOK
<1>3. Positions' /\ Parsed' /\ TodoAsked'
  BY <1>1, ModuleTable DEF Positions, Parsed, TodoAsked
<1>4. (SkipsChecked => OnlyAsked)'
  BY <1>1 DEF OnlyAsked, Asked, SkipsChecked
<1>5. BdfMade' /\ Progress' /\ Released'
  BY <1>1 DEF BdfMade, Progress, Released
<1>6. Freeing'
  BY <1>1 DEF Freeing, FreedOnce
<1> QED BY <1>2, <1>3, <1>4, <1>5, <1>6

(* What freeBsaAcsMem frees are buffers, each in one place.                *)
LEMMA FreeOrderFacts ==
  /\ \A i \in 1 .. 8 : FreeOrder[i] \in Buffers
  /\ \A i, j \in 1 .. 8 : FreeOrder[i] = FreeOrder[j] => i = j
  /\ \A b \in Buffers \ {"memory", "bdf"} : \E i \in 1 .. 8 : FreeOrder[i] = b
<1>1. /\ FreeOrder[1] = "pe" /\ FreeOrder[2] = "gic" /\ FreeOrder[3] = "timer"
      /\ FreeOrder[4] = "wd" /\ FreeOrder[5] = "pcie" /\ FreeOrder[6] = "iovirt"
      /\ FreeOrder[7] = "per" /\ FreeOrder[8] = "shared"
  BY DEF FreeOrder
<1> QED BY <1>1, BufferNames

(* One buffer is given to FreePool, which has not had it before unless     *)
(* freeBsaAcsMem has been interrupted.                                     *)
LEMMA InvFree ==
  ASSUME SuiteInv, FreeBsaAcsMem PROVE SuiteInv'
<1> USE DEF SuiteInv
<1> DEFINE b == FreeOrder[step]
<1>1. /\ pc = "free" /\ pc' = "free" /\ step \in 1 .. 8 /\ step' = step + 1
      /\ UNCHANGED <<args, given, skip, views, plat, short>>
      /\ UNCHANGED <<todo, ran, passed, aborted>>
      /\ tables' = tables \ {b}
      /\ freed' = freed \cup (tables \cap {b})
  BY ModuleTable DEF FreeBsaAcsMem, options, TypeOK
<1>2. TypeOK'
  <2>1. log' \in BOOLEAN /\ handler' \in BOOLEAN /\ passed' \in BOOLEAN /\ twice' \in BOOLEAN
    BY Zenon DEF TypeOK, FreeBsaAcsMem
  <2>2. step' \in 1 .. Len(Modules) + 1
    BY <1>1, ModuleTable
  <2> QED
    BY <1>1, <2>1, <2>2 DEF TypeOK
<1>3. Positions' /\ Parsed' /\ TodoAsked'
  BY <1>1, ModuleTable DEF Positions, Parsed, TodoAsked
<1>4. (SkipsChecked => OnlyAsked)'
  BY <1>1 DEF OnlyAsked, Asked, SkipsChecked
<1>5. BdfMade' /\ Progress' /\ Released'
  BY <1>1 DEF BdfMade, Progress, Released
<1>6. \A i \in 1 .. step : FreeOrder[i] \notin tables'
  <2>1. \A i \in 1 .. step : i = step \/ i \in 1 .. step - 1
    BY <1>1
  <2> QED BY <1>1, <2>1 DEF Freeing
<1>7. aborted # "freeing" => freed \subseteq {FreeOrder[i] : i \in 1 .. step - 1}
  BY <1>1 DEF Freeing
<1>8. aborted # "freeing" => b \notin freed
  <2>1. \A i \in 1 .. step - 1 : i \in 1 .. 8 /\ i # step
    BY <1>1
  <2> QED BY <1>1, <1>7, <2>1, FreeOrderFacts
<1>9. aborted # "freeing" => ~twice'
  BY <1>8, Zenon DEF FreeBsaAcsMem, Freeing, FreedOnce
<1>10. aborted # "freeing" => freed' \subseteq {FreeOrder[i] : i \in 1 .. step}
  <2>1. step \in 1 .. step /\ 1 .. step - 1 \subseteq 1 .. step
    BY <1>1
  <2> QED BY <1>1, <1>7, <2>1
<1>11. step' - 1 = step
  BY <1>1
<1>12. Freeing'
  BY <1>1, <1>6, <1>9, <1>10, <1>11 DEF Freeing, FreedOnce
<1> QED BY <1>2, <1>3, <1>4, <1>5, <1>12

(* The end of the program: freeBsaAcsMem has been through its list.        *)
LEMMA InvEndMain ==
  ASSUME SuiteInv, EndMain PROVE SuiteInv'
<1> USE DEF SuiteInv
<1>1. /\ pc = "free" /\ pc' = "done" /\ step = 9 /\ log' = FALSE
      /\ UNCHANGED <<args, given, skip, views, plat, short>>
      /\ UNCHANGED <<step, todo, tables, ran, passed, aborted, freed, twice>>
  BY ModuleTable DEF EndMain, options, history, freeing, TypeOK, Positions
<1>2. TypeOK'
  <2>1. log' \in BOOLEAN /\ handler' \in BOOLEAN /\ passed' \in BOOLEAN /\ twice' \in BOOLEAN
    BY Zenon DEF TypeOK, EndMain, history, freeing
  <2> QED
    BY <1>1, <2>1 DEF TypeOK
<1>3. Positions' /\ Parsed' /\ TodoAsked'
  BY <1>1 DEF Positions, Parsed, TodoAsked
<1>4. (SkipsChecked => OnlyAsked)'
  BY <1>1 DEF OnlyAsked, Asked, SkipsChecked
<1>5. BdfMade' /\ Progress' /\ Freeing'
  BY <1>1 DEF BdfMade, Progress, Freeing, FreedOnce
<1>6. tables \subseteq {"memory", "bdf"}
  <2>1. \A i \in 1 .. 8 : FreeOrder[i] \notin tables
    BY <1>1 DEF Freeing
  <2> QED BY <2>1, FreeOrderFacts DEF TypeOK
<1>7. Released'
  BY <1>1, <1>6 DEF Released
<1> QED BY <1>2, <1>3, <1>4, <1>5, <1>7

(* The initial state.                                                      *)
LEMMA InitSuiteInv == Init => SuiteInv
<1> SUFFICES ASSUME Init PROVE SuiteInv
  OBVIOUS
<1>1. TypeOK
  <2>1. log \in BOOLEAN /\ handler \in BOOLEAN /\ passed \in BOOLEAN /\ twice \in BOOLEAN
    BY Zenon DEF Init
  <2>2. step \in 1 .. Len(Modules) + 1
    BY ModuleTable DEF Init
  <2> QED
    BY <2>1, <2>2 DEF Init, TypeOK, Unused
<1>2. Positions /\ Parsed /\ TodoAsked /\ OnlyAsked /\ BdfMade /\ Progress /\ Freeing
      /\ Released
  BY DEF Init, Positions, Parsed, TodoAsked, OnlyAsked, BdfMade, Progress, Freeing, FreedOnce,
     Released
<1> QED BY <1>1, <1>2 DEF SuiteInv

----------------------------------------------------------------------------
(* The inductive invariant of the suite: types, positions, the parsed      *)
(* options, and what the runners have done so far.                         *)
THEOREM SuiteInvariant == Spec => []SuiteInv
<1>1. SuiteInv /\ [Next]_vars => SuiteInv'
  <2> SUFFICES ASSUME SuiteInv, [Next]_vars PROVE SuiteInv'
    OBVIOUS
  <2>1. CASE Next
    BY <2>1, InvParseOptions, InvCreate, InvRunners, InvRunTest, InvEndModule, InvException,
       InvPrintStatus, InvFree, InvEndMain DEF Next
  <2>2. CASE UNCHANGED vars
    BY <2>2 DEF vars, options, history, freeing, SuiteInv, TypeOK, Positions, Parsed, TodoAsked,
       SkipsChecked, OnlyAsked, Asked, BdfMade, Progress, Possible, Feasible, Freeing,
       FreedOnce, Released
  <2> QED BY <2>1, <2>2
<1> QED
  BY <1>1, InitSuiteInv, PTL DEF Spec

(* No test runs that the command line has excluded by module, by number or *)
(* by view, provided that no list after -skip names os_w001 or os_w002.    *)
THEOREM OnlyAskedRun == SkipsChecked => (Spec => []OnlyAsked)
<1> SUFFICES ASSUME SkipsChecked PROVE Spec => []OnlyAsked
  OBVIOUS
<1>1. SuiteInv => OnlyAsked
  BY DEF SuiteInv
<1> QED
  BY <1>1, SuiteInvariant, PTL

(* When the results are printed and no exception has cut the suite short,  *)
(* every test that was asked for and that the platform allows has run.     *)
THEOREM AllAskedRun == Spec => []AllAsked
<1>1. SuiteInv => AllAsked
  BY DEF SuiteInv, Progress, AllAsked
<1> QED
  BY <1>1, SuiteInvariant, PTL

(* FreePool gets no buffer twice unless an exception interrupts            *)
(* freeBsaAcsMem.                                                          *)
THEOREM NothingFreedTwice == Spec => []FreedOnce
<1>1. SuiteInv => FreedOnce
  BY DEF SuiteInv, Freeing
<1> QED
  BY <1>1, SuiteInvariant, PTL

(* A program that ends through print_test_status has freed all but two of  *)
(* its tables and closed the log file, exceptions at any point after the   *)
(* handler is installed included.                                          *)
THEOREM EverythingReleased == Spec => []Released
<1>1. SuiteInv => Released
  BY DEF SuiteInv
<1> QED
  BY <1>1, SuiteInvariant, PTL
=============================================================================
