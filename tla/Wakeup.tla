------------------------------ MODULE Wakeup -------------------------------
(***************************************************************************)
(* Interrupts on the primary PE: initialisation of the GIC (gic_v2.c,      *)
(* gic_v3.c), installation of service routines, dispatch and end of        *)
(* interrupt (bsa_exception.c, acs_gic_support.c, pal_gic.c), the timers   *)
(* and watchdogs that raise them (acs_timer.c, acs_wd.c), and the test     *)
(* that sleeps until they do (test_os_u001.c).                             *)
(*                                                                         *)
(* An interrupt is a source: a watchdog, a memory mapped timer frame or a  *)
(* timer of the PE.  Sources are level sensitive.  Priorities are all      *)
(* equal, so no interrupt is signalled while one is active.                *)
(***************************************************************************)
EXTENDS Integers, FiniteSets

CONSTANTS
  NumWd,      \* watchdogs
  NumFrame,   \* timer frames
  Configs     \* the platforms

ASSUME WakeupAssumption == NumWd \in Nat /\ NumFrame \in Nat

Wd(k)    == <<"wd", k>>
Frame(k) == <<"frame", k>>
Phy1 == <<"phy1", 0>>
Vir1 == <<"vir1", 0>>
Phy2 == <<"phy2", 0>>
Ppis == {Phy1, Vir1, Phy2}
Spis == {Wd(k) : k \in 0 .. NumWd - 1} \cup {Frame(k) : k \in 0 .. NumFrame - 1}
Sources == Ppis \cup Spis

Isrs == {"none", "isr1", "isr2", "isr3", "isr4", "isr5", "failsafe"}

VARIABLES
  plat,      \* the platform: a member of Configs
  pc,        \* where the primary PE is
  test,      \* the test of os_u001 that runs
  n,         \* timer_num, the watchdog or frame of the round
  found,     \* ns_wdg or ns_timer is not zero
  timer,     \* each source: "off", "armed" or "up", its interrupt asserted
  enabled,   \* the sources enabled in distributor and redistributor
  handler,   \* g_intr_handler, or what the firmware has registered
  vector,    \* whose vector table is installed: "fw" or "acs"
  masked,    \* DAIF.I
  open,      \* distributor and CPU interface forward interrupts
  active,    \* acknowledged and not ended
  status,    \* the status word of the PE
  tried,     \* history: the sources armed by this test
  woke,      \* history: the sources whose own routine has run in this test
  safe,      \* history: this test has set the failsafe timer
  why,       \* history: "install" or "raced", why this test may fail
  early,     \* history: a WFI ended before the interrupt under test was taken
  wild       \* history: a dispatch without handler, or one for timer_num = -1

gic     == <<enabled, handler, vector, masked, open, active>>
history == <<tried, woke, safe, why, early, wild>>
vars    == <<plat, pc, test, n, found, timer, gic, status, history>>

(* gic:    "v2" and "v3" are the suite's own driver, "fw" the firmware's     *)
(* rd:     the redistributor of the PE is found                              *)
(* proto:  the firmware offers its interrupt protocol                        *)
(* el2:    the suite runs at EL2                                             *)
(* secure: sources that are secure;  bad: without a valid interrupt ID       *)
(* locked: frames whose CNTACR does not open                                 *)
(* fwtick: the firmware has left the EL1 physical timer running              *)
ConfigType ==
  [gic : {"v2", "v3", "fw"}, rd : BOOLEAN, proto : BOOLEAN, el2 : BOOLEAN,
   secure : SUBSET Spis, bad : SUBSET Sources, locked : SUBSET Spis, fwtick : BOOLEAN]

ASSUME ConfigsAssumption == Configs \subseteq ConfigType

Places ==
  {"init", "vector", "unmask", "control", "wakerd", "cpuif", "timers",
   "next", "round", "failsafe", "arm", "armed", "wfi", "clear", "check", "done"}

TypeOK ==
  /\ plat \in Configs /\ pc \in Places /\ test \in 1 .. 6
  /\ n \in -1 .. NumWd + NumFrame /\ found \in BOOLEAN
  /\ timer \in [Sources -> {"off", "armed", "up"}]
  /\ enabled \subseteq Sources /\ active \subseteq Sources
  /\ handler \in [Sources -> Isrs]
  /\ vector \in {"fw", "acs"} /\ masked \in BOOLEAN /\ open \in BOOLEAN
  /\ status \in {"pending", "pass", "fail", "skip"}
  /\ tried \subseteq Sources /\ woke \subseteq Sources
  /\ why \subseteq {"install", "raced"}
  /\ {safe, early, wild} \subseteq BOOLEAN

Init ==
  /\ plat \in Configs
  /\ pc = IF plat.gic = "fw" THEN "timers" ELSE "init"
  /\ test = 1 /\ n = 0 /\ found = FALSE
  /\ timer = [s \in Sources |-> IF s = Phy1 /\ plat.fwtick THEN "armed" ELSE "off"]
  /\ enabled = IF plat.fwtick THEN {Phy1} ELSE {}
  /\ handler = [s \in Sources |-> "none"]
  /\ vector = "fw"
  /\ masked \in (IF plat.gic = "fw" THEN {FALSE} ELSE BOOLEAN)
  /\ open \in (IF plat.gic = "fw" THEN {TRUE} ELSE BOOLEAN)
  /\ active = {} /\ status = "pending"
  /\ tried = {} /\ woke = {}
  /\ safe = FALSE /\ why = {} /\ early = FALSE /\ wild = FALSE

(* The routine and the source of a test; timer_num selects among several.   *)
Isr == <<"isr1", "isr2", "isr3", "isr4", "isr5">>
SourceOf(t, k) ==
  CASE t = 1 -> Wd(k) [] t = 2 -> Frame(k) [] t = 3 -> Phy1 [] t = 4 -> Vir1 [] t = 5 -> Phy2
Src == SourceOf(test, n)
Looped == test \in {1, 2}
Count == CASE test = 1 -> NumWd [] test = 2 -> NumFrame [] OTHER -> 0

----------------------------------------------------------------------------
(* The interrupt controller.                                                 *)

(* v2_DisableInterruptSource and v3_DisableInterruptSource, and the enabling *)
(* ones: the private interrupts of a GICv3 are in the redistributor, and     *)
(* nothing happens if that of the PE is not found.                           *)
Reachable(S) == IF plat.gic = "v3" /\ ~plat.rd THEN S \ Ppis ELSE S
DisableInterruptSource(en, s) == en \ Reachable({s})
EnableInterruptSource(en, s)  == en \cup Reachable({s})

GicStep(from, to) ==
  /\ pc = from /\ pc' = to
  /\ UNCHANGED <<plat, test, n, found, timer, handler, active, status, history>>

DisableAll_SpisOnly ==
  /\ GicStep("init", "vector")
  /\ enabled' = enabled \ Spis
  /\ UNCHANGED <<vector, masked, open>>

(* v2_Init and v3_Init: all sources off, then the vector table, then DAIF.   *)
DisableAll ==
  /\ GicStep("init", "vector")
  /\ enabled' = enabled \ Reachable(Sources)
  /\ UNCHANGED <<vector, masked, open>>

VectorTableInit ==
  /\ GicStep("vector", "unmask")
  /\ vector' = "acs"
  /\ UNCHANGED <<enabled, masked, open>>

ClearDaif ==
  /\ GicStep("unmask", IF plat.gic = "v2" THEN "cpuif" ELSE "control")
  /\ masked' = FALSE
  /\ UNCHANGED <<enabled, vector, open>>

(* GICD_CTLR of a GICv3; the SPIs are routed to the primary PE.              *)
DistributorControl ==
  /\ GicStep("control", "wakerd")
  /\ UNCHANGED <<enabled, vector, masked, open>>

(* The poll of GICR_WAKER ends when the redistributor is awake.              *)
WakeUpRD ==
  /\ GicStep("wakerd", "cpuif")
  /\ UNCHANGED <<enabled, vector, masked, open>>

CpuIfInit_NotOpened ==
  /\ GicStep("cpuif", "timers")
  /\ UNCHANGED <<enabled, vector, masked, open>>

CpuIfInit ==
  /\ GicStep("cpuif", "timers")
  /\ open' = TRUE
  /\ UNCHANGED <<enabled, vector, masked>>

(* val_timer_create_info_table switches the EL1 physical timer off.          *)
TimersQuiet ==
  /\ pc = "timers" /\ pc' = "next"
  /\ timer' = [timer EXCEPT ![Phy1] = "off"]
  /\ UNCHANGED <<plat, test, n, found, gic, status, history>>

(* val_gic_install_isr: FALSE is an invalid ID, or no protocol.              *)
CanInstall(s) == s \notin plat.bad /\ (plat.gic = "fw" => plat.proto)

(* What it leaves: the suite's driver disables, stores and enables; the      *)
(* firmware enables what is registered.  Without the protocol the            *)
(* distributor is written none the less.                                     *)
InstallIsr(s, isr) ==
  /\ handler' = IF CanInstall(s) THEN [handler EXCEPT ![s] = isr] ELSE handler
  /\ enabled' = IF CanInstall(s)
                  THEN EnableInterruptSource(DisableInterruptSource(enabled, s), s)
                  ELSE IF s \in plat.bad THEN enabled ELSE enabled \cup ({s} \cap Spis)

----------------------------------------------------------------------------
(* Timers.  The counter reaches the programmed value at some time.           *)
Expire(s) ==
  /\ timer[s] = "armed"
  /\ timer' = [timer EXCEPT ![s] = "up"]
  /\ UNCHANGED <<plat, pc, test, n, found, gic, status, history>>

Signalled(s) == s \in enabled /\ timer[s] = "up" /\ ~masked /\ open /\ active = {}

(* What the routine of s switches off: isr1 and isr2 use timer_num.          *)
IsrTarget(isr) ==
  CASE isr = "isr1" -> Wd(n)
    [] isr = "isr2" -> Frame(n)
    [] isr \in {"isr3", "failsafe"} -> Phy1
    [] isr = "isr4" -> Vir1
    [] isr = "isr5" -> Phy2

(* The routine switches its source off, stores the status and ends the       *)
(* interrupt of that source; default_irq_handler ends the one it took, the   *)
(* firmware leaves that to the routine.                                      *)
Dispatch(s) ==
  LET isr == handler[s]
      off == IsrTarget(isr)
  IN IF isr = "none"
       THEN wild' = TRUE /\ UNCHANGED <<timer, status, active, woke>>
       ELSE /\ timer' = IF off \in Sources THEN [timer EXCEPT ![off] = "off"] ELSE timer
            /\ status' = IF isr = "failsafe" THEN "fail" ELSE "pass"
            /\ woke' = IF isr = "failsafe" THEN woke ELSE woke \cup {s}
            /\ active' = IF plat.gic = "fw" THEN {s} \ {off} ELSE {}
            /\ wild' = (wild \/ off \notin Sources)

(* default_irq_handler, or the firmware's, at any place of the program.      *)
(* A sleeping PE wakes up.                                                   *)
TakeInterrupt(s) ==
  /\ Signalled(s) /\ (vector = "acs" \/ (plat.gic = "fw" /\ pc # "timers"))
  /\ Dispatch(s)
  /\ pc' = IF pc = "wfi" THEN "clear" ELSE pc
  /\ why' = IF handler[s] = "failsafe" /\ safe /\ test # 3 THEN why \cup {"raced"} ELSE why
  /\ early' = (early \/ (pc = "wfi" /\ s # Src /\ Src \notin woke))
  /\ UNCHANGED <<plat, test, n, found, enabled, handler, vector, masked, open,
                 tried, safe>>

(* The tick of the firmware under its own vector table.                      *)
FirmwareTick ==
  /\ vector = "fw" /\ pc \in {"init", "vector", "unmask", "timers"} /\ Signalled(Phy1)
  /\ timer' = [timer EXCEPT ![Phy1] = "armed"]
  /\ UNCHANGED <<plat, pc, test, n, found, gic, status, history>>

----------------------------------------------------------------------------
(* os_u001.                                                                  *)
(* val_initialize_test; the fifth test needs EL2.                            *)
StartTest ==
  /\ pc = "next"
  /\ IF test = 6 \/ (test = 5 /\ ~plat.el2)
       THEN /\ pc' = "done"
            /\ UNCHANGED <<n, found, status, tried, woke, safe, why>>
       ELSE /\ pc' = "round"
            /\ status' = IF Looped THEN "pending" ELSE "fail"
            /\ n' = Count
            /\ found' = FALSE
            /\ tried' = {} /\ woke' = {} /\ safe' = FALSE /\ why' = {}
  /\ UNCHANGED <<plat, test, timer, gic, early, wild>>

(* while (timer_num--) of payload1 and payload2, from the last one down.     *)
LoopRound ==
  /\ pc = "round" /\ Looped /\ n > 0
  /\ n' = n - 1
  /\ LET s == SourceOf(test, n - 1) IN
       IF s \in plat.secure
         THEN UNCHANGED <<pc, status, found, handler, enabled, why>>
         ELSE /\ found' = TRUE
              /\ IF s \in plat.locked
                   THEN /\ status' = "skip" /\ pc' = "check"
                        /\ UNCHANGED <<handler, enabled, why>>
                   ELSE /\ InstallIsr(s, Isr[test])
                        /\ why' = IF CanInstall(s) THEN why ELSE why \cup {"install"}
                        /\ status' = IF CanInstall(s) THEN status ELSE "fail"
                        /\ pc' = IF CanInstall(s) THEN "failsafe"
                                 ELSE IF test = 1 THEN "round" ELSE "check"
  /\ UNCHANGED <<plat, test, timer, vector, masked, open, active, tried, woke, safe, early, wild>>

(* After the loop timer_num has wrapped round.  Neither a watchdog nor a     *)
(* frame, or none that is not secure: the test is skipped.                   *)
LoopEnd ==
  /\ pc = "round" /\ Looped /\ n = 0
  /\ n' = IF Count = 0 THEN 0 ELSE -1
  /\ status' = IF found THEN status ELSE "skip"
  /\ pc' = "check"
  /\ UNCHANGED <<plat, test, found, timer, gic, history>>

SingleRound_FailsafeToo ==
  /\ pc = "round" /\ ~Looped
  /\ InstallIsr(Src, Isr[test])
  /\ why' = IF CanInstall(Src) THEN why ELSE why \cup {"install"}
  /\ pc' = IF ~CanInstall(Src) THEN "check" ELSE "failsafe"
  /\ UNCHANGED <<plat, test, n, found, timer, vector, masked, open, active, status,
                 tried, woke, safe, early, wild>>

(* payload3, payload4 and payload5; the third one sets no failsafe timer.    *)
SingleRound ==
  /\ pc = "round" /\ ~Looped
  /\ InstallIsr(Src, Isr[test])
  /\ why' = IF CanInstall(Src) THEN why ELSE why \cup {"install"}
  /\ pc' = IF ~CanInstall(Src) THEN "check" ELSE IF test = 3 THEN "arm" ELSE "failsafe"
  /\ UNCHANGED <<plat, test, n, found, timer, vector, masked, open, active, status,
                 tried, woke, safe, early, wild>>

(* val_timer_set_phy_el1 and its kin disable the timer, write the value and  *)
(* enable it; zero only disables.                                            *)
SetTimer(s, timeout) == timer' = [timer EXCEPT ![s] = IF timeout = 0 THEN "off" ELSE "armed"]

WakeupSetFailsafe ==
  /\ pc = "failsafe" /\ pc' = "arm"
  /\ InstallIsr(Phy1, "failsafe")
  /\ SetTimer(Phy1, 1)
  /\ safe' = TRUE
  /\ UNCHANGED <<plat, test, n, found, vector, masked, open, active, status,
                 tried, woke, why, early, wild>>

(* val_wd_set_ws0, val_timer_set_system_timer or val_timer_set_*.  With a    *)
(* timeout of one second the watchdog's value fits, as CNTFRQ has 32 bits.   *)
Arm ==
  /\ pc = "arm" /\ pc' = "armed"
  /\ SetTimer(Src, 1)
  /\ tried' = tried \cup {Src}
  /\ woke' = woke \ {Src}
  /\ UNCHANGED <<plat, test, n, found, gic, status, safe, why, early, wild>>

(* ArmCallWFI.                                                               *)
EnterSemanticB ==
  /\ pc = "armed" /\ pc' = "wfi"
  /\ UNCHANGED <<plat, test, n, found, timer, gic, status, history>>

(* WFI may complete without an interrupt.                                    *)
WfiOther ==
  /\ pc = "wfi" /\ pc' = "clear"
  /\ early' = (early \/ Src \notin woke)
  /\ UNCHANGED <<plat, test, n, found, timer, gic, status, tried, woke, safe, why, wild>>

WakeupClearFailsafe_NoClear ==
  /\ pc = "clear"
  /\ pc' = IF Looped THEN "round" ELSE "check"
  /\ UNCHANGED <<plat, test, n, found, timer, gic, status, history>>

WakeupClearFailsafe ==
  /\ pc = "clear"
  /\ pc' = IF Looped THEN "round" ELSE "check"
  /\ IF test = 3 THEN UNCHANGED timer ELSE SetTimer(Phy1, 0)
  /\ UNCHANGED <<plat, test, n, found, gic, status, history>>

(* val_check_for_error.                                                      *)
CheckForError ==
  /\ pc = "check" /\ pc' = "next"
  /\ test' = test + 1
  /\ UNCHANGED <<plat, n, found, timer, gic, status, history>>

Driver == DisableAll \/ VectorTableInit \/ ClearDaif \/ DistributorControl \/ WakeUpRD \/ CpuIfInit
Payload ==
  \/ TimersQuiet \/ StartTest \/ LoopRound \/ LoopEnd \/ SingleRound \/ WakeupSetFailsafe \/ Arm \/ EnterSemanticB
  \/ WakeupClearFailsafe \/ CheckForError
Next ==
  \/ Driver \/ Payload \/ WfiOther \/ FirmwareTick
  \/ \E s \in Sources : Expire(s) \/ TakeInterrupt(s)

Spec == Init /\ [][Next]_vars

(* The PE executes, counters count and a signalled interrupt is taken.  WFI  *)
(* itself completes for no other reason that one could rely on.              *)
FairSpec ==
  /\ Spec /\ WF_vars(Driver \/ Payload)
  /\ \A s \in Sources : WF_vars(Expire(s)) /\ WF_vars(TakeInterrupt(s))

----------------------------------------------------------------------------
(* From the time the suite's vector table is installed, every interrupt that *)
(* is dispatched has a routine, and that routine finds a valid timer_num:    *)
(* the timer that the firmware may have left running is disabled before      *)
(* interrupts are unmasked, and stopped before it is enabled again.  A       *)
(* redistributor that is not found leaves it enabled, and after a WFI that   *)
(* ended early the interrupt it waited for finds the timer_num of another    *)
(* round: these two cases are left out.                                      *)
NoStrayDispatch == (plat.gic # "v3" \/ plat.rd) /\ ~early => ~wild

(* As long as no WFI has ended before the interrupt it waits for, a test of  *)
(* os_u001 leaves no timer running, the failsafe timer included, and no      *)
(* interrupt active: nothing of it can reach the next test.                  *)
Quiet ==
  pc = "next" /\ ~early =>
    /\ \A s \in Sources : timer[s] = "off"
    /\ active = {}

(* Then a test fails for two reasons only: its routine could not be          *)
(* installed, or the failsafe timer that it has set itself ran out and wrote *)
(* over the result.  That happens when the interrupt comes before WFI, or    *)
(* when the timer runs out between the wakeup and wakeup_clear_failsafe.     *)
FailExplained == pc = "check" /\ status = "fail" /\ ~early => why # {}

(* A sleep guarded by the failsafe timer ends, whatever happened before it.  *)
(* payload3 sets none, and sleeps on when its interrupt comes before WFI.    *)
SleepEnds ==
  (pc = "wfi" /\ ~early /\ timer[Phy1] # "off" /\ Phy1 \in enabled) ~> (pc # "wfi")

----------------------------------------------------------------------------
(* The inductive invariant.                                                  *)
Booting  == pc \in {"init", "vector", "unmask", "control", "wakerd", "cpuif", "timers"}
Sleeping == pc \in {"arm", "armed", "wfi", "clear"}

(* The routines that are ever installed for a source.                        *)
RoutinesOf(s) ==
  CASE s[1] = "wd"    -> {"isr1"}
    [] s[1] = "frame" -> {"isr2"}
    [] s[1] = "phy1"  -> {"isr3", "failsafe"}
    [] s[1] = "vir1"  -> {"isr4"}
    [] s[1] = "phy2"  -> {"isr5"}

(* The test and the source of the round are there, and the routine of the    *)
(* source is installed before it is armed.                                   *)
Rounds ==
  /\ ~Booting /\ pc \notin {"next", "done"} => test \in 1 .. 5
  /\ pc = "round" /\ Looped => n \in 0 .. Count
  /\ pc = "failsafe" => test # 3
  /\ pc = "failsafe" \/ Sleeping =>
       /\ Src \in Sources /\ CanInstall(Src)
       /\ handler[Src] = Isr[test]

(* What is registered: only what could be installed, and each for its own    *)
(* source; with the failsafe timer set, its routine.                         *)
Handlers ==
  /\ \A s \in Sources : handler[s] # "none" =>
       ~Booting /\ CanInstall(s) /\ handler[s] \in RoutinesOf(s)
  /\ Sleeping /\ test # 3 =>
       safe /\ handler[Phy1] = IF CanInstall(Phy1) THEN "failsafe" ELSE "none"

(* Only the source of the round and the failsafe timer run, and the source   *)
(* is off again when its routine has run.                                    *)
Timers ==
  /\ active = {}
  /\ \A s \in Sources : timer[s] # "off" =>
       (Booting /\ s = Phy1) \/ (Sleeping /\ s \in {Src, Phy1})
  /\ pc = "arm" => timer[Src] = "off"
  /\ pc \in {"armed", "wfi", "clear"} /\ Src \in woke => timer[Src] = "off"
  /\ pc = "clear" => Src \in woke

(* A failure has its reason once the routine of the source has run.          *)
Results ==
  status = "fail" =>
    /\ Looped /\ (pc \in {"round", "failsafe"} \/ Sleeping) => why # {}
    /\ pc \in {"armed", "wfi", "clear"} /\ Src \in woke => why # {}
    /\ pc = "check" => why # {}

WakeupInv == TypeOK /\ Rounds /\ Handlers /\ (~early => Timers /\ Results)

(* The redistributor of the PE is found if there is one.                     *)
Reached == plat.gic # "v3" \/ plat.rd

(* An interrupt of the EL1 physical timer that is enabled has a routine, but *)
(* for the firmware's own tick.                                              *)
TickOff ==
  Reached /\ pc # "init" /\ Phy1 \in enabled /\ handler[Phy1] = "none" =>
    plat.gic = "fw" /\ plat.fwtick

(* The firmware's vector table stays where its driver is used; the suite's   *)
(* is installed when the sources are off.                                    *)
VectorFirst ==
  /\ plat.gic = "fw" => vector = "fw" /\ (Booting => pc = "timers")
  /\ vector = "acs" => pc # "init"

StrayInv == WakeupInv /\ VectorFirst /\ TickOff /\ NoStrayDispatch

(* A firmware that lets the EL1 physical timer tick gives its interrupt ID.  *)
TickKnown == \A c \in Configs : c.gic = "fw" /\ c.fwtick => Phy1 \notin c.bad
=============================================================================
