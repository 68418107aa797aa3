---------------------------- MODULE WakeupProofs ----------------------------
(* Proofs about the interrupts of the primary PE and the wakeup test, for  *)
(* every number of watchdogs and timer frames and every set of platforms.  *)
EXTENDS Wakeup, TLAPS

----------------------------------------------------------------------------
(* The operators the model is built from.                                  *)

(* A source is one of three timers of the PE, a watchdog or a frame.       *)
LEMMA SourceKinds ==
  /\ Phy1 \in Sources /\ Vir1 \in Sources /\ Phy2 \in Sources
  /\ Phy1 # Vir1 /\ Phy1 # Phy2 /\ Vir1 # Phy2
  /\ Phy1 \notin Spis
  /\ \A k : /\ Wd(k) \in Sources <=> k \in 0 .. NumWd - 1
            /\ Frame(k) \in Sources <=> k \in 0 .. NumFrame - 1
            /\ Phy1 # Wd(k) /\ Phy1 # Frame(k)
  BY DEF Sources, Ppis, Spis, Phy1, Vir1, Phy2, Wd, Frame

(* The routine that a test installs for its source is one of that source,  *)
(* and switches off that source; it is the failsafe one's for payload3.    *)
LEMMA OwnRoutine ==
  ASSUME test \in 1 .. 5
  PROVE  /\ Isr[test] \in RoutinesOf(Src)
         /\ Isr[test] \in Isrs \ {"none", "failsafe"}
         /\ IsrTarget(Isr[test]) = Src
         /\ Src = Phy1 <=> test = 3
<1>1. CASE test = 1
  BY <1>1 DEF Isr, Isrs, RoutinesOf, IsrTarget, Src, SourceOf, Wd, Phy1
<1>2. CASE test = 2
  BY <1>2 DEF Isr, Isrs, RoutinesOf, IsrTarget, Src, SourceOf, Frame, Phy1
<1>3. CASE test = 3
  BY <1>3 DEF Isr, Isrs, RoutinesOf, IsrTarget, Src, SourceOf, Phy1
<1>4. CASE test = 4
  BY <1>4 DEF Isr, Isrs, RoutinesOf, IsrTarget, Src, SourceOf, Vir1, Phy1
<1>5. CASE test = 5
  BY <1>5 DEF Isr, Isrs, RoutinesOf, IsrTarget, Src, SourceOf, Vir1, Phy1, Phy2
<1> QED BY <1>1, <1>2, <1>3, <1>4, <1>5

(* The same of the source of any round.                                    *)
LEMMA RoutineKinds ==
  ASSUME NEW t \in 1 .. 5, NEW k
  PROVE  /\ Isr[t] \in RoutinesOf(SourceOf(t, k))
         /\ Isr[t] \in Isrs \ {"none", "failsafe"}
         /\ t # 3 => SourceOf(t, k) # Phy1
<1>1. CASE t = 1
  BY <1>1 DEF Isr, Isrs, RoutinesOf, SourceOf, Wd, Phy1
<1>2. CASE t = 2
  BY <1>2 DEF Isr, Isrs, RoutinesOf, SourceOf, Frame, Phy1
<1>3. CASE t = 3
  BY <1>3 DEF Isr, Isrs, RoutinesOf, SourceOf, Phy1
<1>4. CASE t = 4
  BY <1>4 DEF Isr, Isrs, RoutinesOf, SourceOf, Vir1, Phy1
<1>5. CASE t = 5
  BY <1>5 DEF Isr, Isrs, RoutinesOf, SourceOf, Vir1, Phy1, Phy2
<1> QED BY <1>1, <1>2, <1>3, <1>4, <1>5

(* The failsafe routine belongs to the EL1 physical timer.                 *)
LEMMA FailsafeRoutine ==
  /\ RoutinesOf(Phy1) = {"isr3", "failsafe"}
  /\ \A s \in Sources : "failsafe" \in RoutinesOf(s) => s = Phy1
  /\ IsrTarget("isr3") = Phy1 /\ IsrTarget("failsafe") = Phy1
<1>1. \A s \in Sources : s[1] = "phy1" => s = Phy1
  BY DEF Sources, Ppis, Spis, Phy1, Vir1, Phy2, Wd, Frame
<1>2. \A s \in Sources : s[1] \in {"wd", "frame", "phy1", "vir1", "phy2"}
  BY DEF Sources, Ppis, Spis, Phy1, Vir1, Phy2, Wd, Frame
<1>3. \A s \in Sources : "failsafe" \in RoutinesOf(s) => s[1] = "phy1"
  BY <1>2 DEF RoutinesOf
<1>4. RoutinesOf(Phy1) = {"isr3", "failsafe"}
  BY DEF RoutinesOf, Phy1
<1>5. IsrTarget("isr3") = Phy1 /\ IsrTarget("failsafe") = Phy1
  BY DEF IsrTarget
<1> QED BY <1>1, <1>3, <1>4, <1>5

(* The sources of the two looping payloads.                                *)
LEMMA LoopSources ==
  ASSUME Looped
  PROVE  /\ test \in 1 .. 5 /\ test # 3
         /\ \A k \in 0 .. Count - 1 : SourceOf(test, k) \in Sources
  BY SourceKinds DEF Looped, Count, SourceOf

(* val_gic_install_isr changes the routine and the enable bit of its own   *)
(* source only.                                                            *)
LEMMA Install ==
  ASSUME TypeOK, NEW s \in Sources, NEW isr \in Isrs, InstallIsr(s, isr)
  PROVE  /\ handler' \in [Sources -> Isrs] /\ enabled' \subseteq Sources
         /\ \A u \in Sources \ {s} : handler'[u] = handler[u] /\ (u \in enabled' <=> u \in enabled)
         /\ handler'[s] = IF CanInstall(s) THEN isr ELSE handler[s]
         /\ ~CanInstall(s) /\ s \notin Spis => enabled' = enabled
  BY DEF TypeOK, InstallIsr, EnableInterruptSource, DisableInterruptSource, Reachable

----------------------------------------------------------------------------
(* The inductive step, one lemma for each action.                          *)

(* A store to one timer leaves a state for each.                           *)
LEMMA SetTimerType ==
  ASSUME TypeOK, NEW s \in Sources, NEW k \in Nat, SetTimer(s, k)
  PROVE  /\ timer' \in [Sources -> {"off", "armed", "up"}]
         /\ timer'[s] = IF k = 0 THEN "off" ELSE "armed"
         /\ \A u \in Sources \ {s} : timer'[u] = timer[u]
  BY DEF TypeOK, SetTimer

(* The driver's initialisation changes no routine and no timer.            *)
LEMMA InvDriver ==
  ASSUME WakeupInv, Driver PROVE WakeupInv'
<1> USE DEF WakeupInv
<1>1. /\ UNCHANGED <<plat, test, n, found, timer, handler, active, status>>
      /\ UNCHANGED <<tried, woke, safe, why, early, wild>>
      /\ Booting /\ Booting' /\ pc' \in Places /\ pc' # "init"
  BY DEF Driver, DisableAll, VectorTableInit, ClearDaif, DistributorControl, WakeUpRD,
     CpuIfInit, GicStep, history, Booting, Places
<1>2. TypeOK'
  <2>1. found' \in BOOLEAN /\ masked' \in BOOLEAN /\ open' \in BOOLEAN
    BY Zenon DEF Driver, DisableAll, VectorTableInit, ClearDaif, DistributorControl, WakeUpRD,
       CpuIfInit, GicStep, TypeOK
  <2>2. enabled' \subseteq Sources /\ vector' \in {"fw", "acs"}
    BY DEF Driver, DisableAll, VectorTableInit, ClearDaif, DistributorControl, WakeUpRD,
       CpuIfInit, TypeOK
  <2> QED
    BY <1>1, <2>1, <2>2 DEF TypeOK
<1>3. Rounds' /\ Handlers'
  BY <1>1 DEF Rounds, Handlers, Booting, Sleeping, CanInstall
<1>4. ~early' => Timers' /\ Results'
  BY <1>1 DEF Timers, Results, Booting, Sleeping, Src
<1> QED BY <1>2, <1>3, <1>4

(* The last step before the tests leaves no timer running.                 *)
LEMMA InvTimersQuiet ==
  ASSUME WakeupInv, TimersQuiet PROVE WakeupInv'
<1> USE DEF WakeupInv
<1>1. /\ UNCHANGED <<plat, test, n, found, handler, active, status, enabled, vector, masked, open>>
      /\ UNCHANGED <<tried, woke, safe, why, early, wild>>
      /\ pc = "timers" /\ pc' = "next"
  BY DEF TimersQuiet, gic, history
<1>2. /\ timer' \in [Sources -> {"off", "armed", "up"}]
      /\ timer'[Phy1] = "off" /\ \A s \in Sources \ {Phy1} : timer'[s] = timer[s]
  BY SourceKinds DEF TimersQuiet, TypeOK
<1>3. TypeOK'
  BY <1>1, <1>2 DEF TypeOK, Places
<1>4. Rounds' /\ Handlers'
  BY <1>1 DEF Rounds, Handlers, Booting, Sleeping, CanInstall
<1>5. ~early' => Timers' /\ Results'
  BY <1>1, <1>2 DEF Timers, Results, Booting, Sleeping
<1> QED BY <1>3, <1>4, <1>5

(* A counter reaches its value.                                            *)
LEMMA InvExpire ==
  ASSUME WakeupInv, NEW s \in Sources, Expire(s) PROVE WakeupInv'
<1> USE DEF WakeupInv
<1>1. /\ UNCHANGED <<plat, pc, test, n, found, handler, active, status, enabled, vector>>
      /\ UNCHANGED <<masked, open, tried, woke, safe, why, early, wild>>
  BY DEF Expire, gic, history
<1>2. /\ timer' \in [Sources -> {"off", "armed", "up"}]
      /\ \A u \in Sources : timer'[u] = "off" <=> timer[u] = "off"
  BY DEF Expire, TypeOK
<1>3. TypeOK'
  BY <1>1, <1>2 DEF TypeOK
<1>4. Rounds' /\ Handlers'
  BY <1>1 DEF Rounds, Handlers, Booting, Sleeping, CanInstall, Looped, Count, Src
<1>5. ~early' => Timers' /\ Results'
  <2>1. Sleeping => Src \in Sources
    BY DEF Rounds
  <2> QED
    BY <1>1, <1>2, <2>1 DEF Timers, Results, Booting, Sleeping, Looped, Src
<1> QED BY <1>3, <1>4, <1>5

(* The firmware's tick is one of the EL1 physical timer.                   *)
LEMMA InvFirmwareTick ==
  ASSUME WakeupInv, FirmwareTick PROVE WakeupInv'
<1> USE DEF WakeupInv
<1>1. /\ UNCHANGED <<plat, pc, test, n, found, handler, active, status, enabled, vector>>
      /\ UNCHANGED <<masked, open, tried, woke, safe, why, early, wild>>
      /\ Booting
  BY DEF FirmwareTick, gic, history, Booting
<1>2. /\ timer' \in [Sources -> {"off", "armed", "up"}]
      /\ \A s \in Sources \ {Phy1} : timer'[s] = timer[s]
  BY SourceKinds DEF FirmwareTick, TypeOK
<1>3. TypeOK'
  BY <1>1, <1>2 DEF TypeOK
<1>4. Rounds' /\ Handlers'
  BY <1>1 DEF Rounds, Handlers, Booting, Sleeping, CanInstall
<1>5. ~early' => Timers' /\ Results'
  BY <1>1, <1>2 DEF Timers, Results, Booting, Sleeping
<1> QED BY <1>3, <1>4, <1>5

(* A running timer whose interrupt is dispatched is the source of the      *)
(* round or the failsafe timer, and its routine switches it off.           *)
LEMMA DispatchTarget ==
  ASSUME TypeOK, Rounds, Handlers, Timers, NEW s \in Sources, timer[s] = "up",
         handler[s] # "none"
  PROVE  /\ Sleeping /\ s \in {Src, Phy1}
         /\ IsrTarget(handler[s]) = s
         /\ handler[s] = "failsafe" => s = Phy1 /\ s # Src /\ safe /\ test # 3
<1>1. Sleeping /\ s \in {Src, Phy1}
  BY DEF Timers, Handlers
<1>2. test \in 1 .. 5 /\ handler[Src] = Isr[test]
  BY <1>1 DEF Rounds, Sleeping, Booting
<1>3. handler[s] \in RoutinesOf(s)
  BY DEF Handlers
<1>4. CASE s = Src
  BY <1>1, <1>2, <1>4, OwnRoutine
<1>5. CASE s = Phy1 /\ s # Src
  <2>1. test # 3
    BY <1>2, <1>5, OwnRoutine
  <2>2. handler[s] \in {"isr3", "failsafe"} /\ IsrTarget(handler[s]) = s
    BY <1>3, <1>5, FailsafeRoutine
  <2> QED BY <1>1, <1>5, <2>1, <2>2 DEF Handlers
<1> QED BY <1>1, <1>4, <1>5

(* An interrupt is taken: its routine switches its source off.             *)
LEMMA InvTakeInterrupt ==
  ASSUME WakeupInv, NEW s \in Sources, TakeInterrupt(s) PROVE WakeupInv'
<1> USE DEF WakeupInv
<1>1. /\ UNCHANGED <<plat, test, n, found, enabled, handler, vector, masked, open, tried, safe>>
      /\ Signalled(s) /\ Dispatch(s)
      /\ pc' = IF pc = "wfi" THEN "clear" ELSE pc
      /\ why' = IF handler[s] = "failsafe" /\ safe /\ test # 3 THEN why \cup {"raced"} ELSE why
  BY DEF TakeInterrupt
<1>2. early' = (early \/ (pc = "wfi" /\ s # Src /\ Src \notin woke))
  BY DEF TakeInterrupt
<1>3. TypeOK'
  <2>1. early' \in BOOLEAN /\ wild' \in BOOLEAN /\ safe' \in BOOLEAN
    BY <1>1, <1>2, Zenon DEF TypeOK, Dispatch
  <2>2. /\ timer' \in [Sources -> {"off", "armed", "up"}] /\ active' \subseteq Sources
        /\ status' \in {"pending", "pass", "fail", "skip"} /\ woke' \subseteq Sources
    BY <1>1 DEF TypeOK, Dispatch
  <2>3. found' \in BOOLEAN /\ masked' \in BOOLEAN /\ open' \in BOOLEAN
    BY <1>1, Zenon DEF TypeOK
  <2> QED
    BY <1>1, <2>1, <2>2, <2>3 DEF TypeOK, Places
<1>4. Rounds' /\ Handlers'
  BY <1>1 DEF Rounds, Handlers, Booting, Sleeping, CanInstall, Looped, Count, Src
<1>5. ASSUME ~early' PROVE Timers' /\ Results'
  <2>1. ~early /\ Timers /\ Results
    BY <1>2, <1>5, Zenon
  <2>2. pc = "wfi" => s = Src \/ Src \in woke
    BY <1>2, <1>5, Zenon
  <2>3. Src' = Src
    BY <1>1 DEF Src
  <2>4. Sleeping => test \in 1 .. 5 /\ Src \in Sources /\ handler[Src] = Isr[test] /\ handler[Src] # "none"
    BY OwnRoutine DEF Rounds, Sleeping, Booting
  <2>5. CASE handler[s] = "none"
    <3>1. UNCHANGED <<timer, status, active, woke, why>>
      BY <1>1, <2>5 DEF Dispatch
    <3>2. pc = "wfi" => Src \in woke
      BY <2>2, <2>4, <2>5 DEF Sleeping
    <3> QED
      BY <1>1, <2>1, <2>3, <3>1, <3>2 DEF Timers, Results, Booting, Sleeping, Looped
  <2>6. CASE handler[s] # "none"
    <3>1. timer[s] = "up"
      BY <1>1 DEF Signalled
    <3>2. /\ Sleeping /\ s \in {Src, Phy1} /\ IsrTarget(handler[s]) = s
          /\ handler[s] = "failsafe" => s = Phy1 /\ s # Src /\ safe /\ test # 3
      BY <2>1, <2>6, <3>1, DispatchTarget
    <3>3. /\ timer' = [timer EXCEPT ![s] = "off"] /\ active' = {}
          /\ status' = IF handler[s] = "failsafe" THEN "fail" ELSE "pass"
          /\ woke' = IF handler[s] = "failsafe" THEN woke ELSE woke \cup {s}
      BY <1>1, <2>6, <3>2 DEF Dispatch
    <3>4. status' = "fail" => why' # {}
      BY <1>1, <3>2, <3>3
    <3>5. timer'[s] = "off" /\ \A u \in Sources \ {s} : timer'[u] = timer[u]
      BY <3>3 DEF TypeOK
    <3>6. Timers'
      BY <1>1, <2>1, <2>2, <2>3, <2>4, <3>2, <3>3, <3>5 DEF Timers, Booting, Sleeping
    <3> QED
      BY <3>4, <3>6 DEF Results
  <2> QED BY <2>5, <2>6
<1> QED BY <1>3, <1>4, <1>5

(* WFI completes by itself.                                                *)
LEMMA InvWfiOther ==
  ASSUME WakeupInv, WfiOther PROVE WakeupInv'
<1> USE DEF WakeupInv
<1>1. /\ UNCHANGED <<plat, test, n, found, timer, handler, active, status, enabled, vector>>
      /\ UNCHANGED <<masked, open, tried, woke, safe, why, wild>>
      /\ pc = "wfi" /\ pc' = "clear"
  BY DEF WfiOther, gic
<1>2. early' = (early \/ Src \notin woke)
  BY DEF WfiOther
<1>3. TypeOK'
  <2>1. early' \in BOOLEAN
    BY <1>2, Zenon DEF TypeOK
  <2> QED BY <1>1, <2>1 DEF TypeOK, Places
<1>4. Rounds' /\ Handlers'
  BY <1>1 DEF Rounds, Handlers, Booting, Sleeping, CanInstall, Looped, Count, Src
<1>5. ASSUME ~early' PROVE Timers' /\ Results'
  <2>1. ~early /\ Timers /\ Results /\ Src \in woke
    BY <1>2, <1>5, Zenon
  <2> QED
    BY <1>1, <2>1 DEF Timers, Results, Booting, Sleeping, Looped, Src
<1> QED BY <1>3, <1>4, <1>5

(* A test starts when nothing runs, with a result that is not its own yet. *)
LEMMA InvStartTest ==
  ASSUME WakeupInv, StartTest PROVE WakeupInv'
<1> USE DEF WakeupInv
<1>1. /\ UNCHANGED <<plat, test, timer, handler, active, enabled, vector, masked, open, early, wild>>
      /\ pc = "next"
  BY DEF StartTest, gic
<1>2. CASE test = 6 \/ (test = 5 /\ ~plat.el2)
  <2>1. pc' = "done" /\ UNCHANGED <<n, found, status, tried, woke, safe, why>>
    BY <1>2 DEF StartTest
  <2>2. TypeOK'
    BY <1>1, <2>1 DEF TypeOK, Places
  <2>3. Rounds' /\ Handlers'
    BY <1>1, <2>1 DEF Rounds, Handlers, Booting, Sleeping, CanInstall
  <2>4. ~early' => Timers' /\ Results'
    BY <1>1, <2>1 DEF Timers, Results, Booting, Sleeping
  <2> QED BY <2>2, <2>3, <2>4
<1>3. CASE ~(test = 6 \/ (test = 5 /\ ~plat.el2))
  <2>1. /\ pc' = "round" /\ n' = Count /\ found' = FALSE /\ tried' = {} /\ woke' = {}
        /\ safe' = FALSE /\ why' = {}
        /\ status' = IF Looped THEN "pending" ELSE "fail"
    BY <1>3 DEF StartTest
  <2>2. Count \in 0 .. NumWd + NumFrame /\ Count' = Count /\ (Looped' <=> Looped)
    BY <1>1, WakeupAssumption DEF Count, Looped
  <2>3. test \in 1 .. 5
    BY <1>3 DEF TypeOK
  <2>4. TypeOK'
    <3>1. n' \in -1 .. NumWd + NumFrame
      BY <2>1, <2>2, WakeupAssumption
    <3>2. {safe', early', wild'} \subseteq BOOLEAN /\ found' \in BOOLEAN
      BY <1>1, <2>1, Zenon DEF TypeOK
    <3> QED
      BY <1>1, <2>1, <3>1, <3>2 DEF TypeOK, Places
  <2>5. Rounds' /\ Handlers'
    BY <1>1, <2>1, <2>2, <2>3 DEF Rounds, Handlers, Booting, Sleeping, CanInstall
  <2>6. ~early' => Timers' /\ Results'
    BY <1>1, <2>1, <2>2 DEF Timers, Results, Booting, Sleeping
  <2> QED BY <2>4, <2>5, <2>6
<1> QED BY <1>2, <1>3

(* A round of payload1 or payload2 prepares the next watchdog or frame.    *)
LEMMA InvLoopRound ==
  ASSUME WakeupInv, LoopRound PROVE WakeupInv'
<1> USE DEF WakeupInv
<1> DEFINE s == SourceOf(test, n - 1)
<1>1. /\ UNCHANGED <<plat, test, timer, vector, masked, open, active, tried, woke, safe, early, wild>>
      /\ pc = "round" /\ Looped /\ n > 0 /\ n' = n - 1
  BY DEF LoopRound
<1>2. /\ test \in 1 .. 5 /\ test # 3 /\ s \in Sources /\ Src' = s
      /\ Count' = Count /\ Looped' /\ n \in 0 .. Count /\ n' \in 0 .. Count
  BY <1>1, LoopSources, WakeupAssumption DEF Rounds, Src, Count, Looped
<1>3. Isr[test] \in RoutinesOf(s) /\ Isr[test] \in Isrs \ {"none", "failsafe"} /\ s # Phy1
  BY <1>2, RoutineKinds
<1>4. n' \in -1 .. NumWd + NumFrame
  BY <1>1, WakeupAssumption DEF TypeOK
<1> HIDE DEF s
<1>5. CASE s \in plat.secure
  <2>1. UNCHANGED <<pc, status, found, handler, enabled, why>>
    BY <1>5 DEF LoopRound, s
  <2>2. TypeOK'
    BY <1>1, <1>4, <2>1 DEF TypeOK
  <2>3. Rounds' /\ Handlers'
    BY <1>1, <1>2, <2>1 DEF Rounds, Handlers, Booting, Sleeping, CanInstall
  <2>4. ~early' => Timers' /\ Results'
    BY <1>1, <1>2, <2>1 DEF Timers, Results, Booting, Sleeping
  <2> QED BY <2>2, <2>3, <2>4
<1>6. CASE s \notin plat.secure /\ s \in plat.locked
  <2>1. UNCHANGED <<handler, enabled, why>> /\ found' = TRUE /\ status' = "skip" /\ pc' = "check"
    BY <1>6 DEF LoopRound, s
  <2>2. TypeOK'
    BY <1>1, <1>4, <2>1 DEF TypeOK, Places
  <2>3. Rounds' /\ Handlers'
    BY <1>1, <1>2, <2>1 DEF Rounds, Handlers, Booting, Sleeping, CanInstall
  <2>4. ~early' => Timers' /\ Results'
    BY <1>1, <2>1 DEF Timers, Results, Booting, Sleeping
  <2> QED BY <2>2, <2>3, <2>4
<1>7. CASE s \notin plat.secure /\ s \notin plat.locked
  <2>1. /\ found' = TRUE /\ InstallIsr(s, Isr[test])
        /\ why' = IF CanInstall(s) THEN why ELSE why \cup {"install"}
        /\ status' = IF CanInstall(s) THEN status ELSE "fail"
        /\ pc' = IF CanInstall(s) THEN "failsafe" ELSE IF test = 1 THEN "round" ELSE "check"
    BY <1>7 DEF LoopRound, s
  <2>2. /\ handler' \in [Sources -> Isrs] /\ enabled' \subseteq Sources
        /\ \A u \in Sources \ {s} : handler'[u] = handler[u]
        /\ handler'[s] = IF CanInstall(s) THEN Isr[test] ELSE handler[s]
    BY <1>2, <1>3, <2>1, Install
  <2>3. TypeOK'
    BY <1>1, <1>4, <2>1, <2>2 DEF TypeOK, Places
  <2>4. Rounds'
    BY <1>1, <1>2, <2>1, <2>2 DEF Rounds, Booting, Sleeping, CanInstall
  <2>5. Handlers'
    BY <1>1, <1>2, <1>3, <2>1, <2>2 DEF Handlers, Booting, Sleeping, CanInstall
  <2>6. ~early' => Timers' /\ Results'
    BY <1>1, <1>2, <2>1 DEF Timers, Results, Booting, Sleeping
  <2> QED BY <2>3, <2>4, <2>5, <2>6
<1> QED BY <1>5, <1>6, <1>7

(* The loop ends with the result of its rounds.                            *)
LEMMA InvLoopEnd ==
  ASSUME WakeupInv, LoopEnd PROVE WakeupInv'
<1> USE DEF WakeupInv
<1>1. /\ UNCHANGED <<plat, test, found, timer, handler, active, enabled, vector, masked, open>>
      /\ UNCHANGED <<tried, woke, safe, why, early, wild>>
      /\ pc = "round" /\ Looped /\ pc' = "check" /\ n' \in {0, -1}
      /\ status' \in {status, "skip"}
  BY DEF LoopEnd, gic, history
<1>2. n' \in -1 .. NumWd + NumFrame
  BY <1>1, WakeupAssumption
<1>3. TypeOK'
  BY <1>1, <1>2 DEF TypeOK, Places
<1>4. Rounds' /\ Handlers'
  BY <1>1 DEF Rounds, Handlers, Booting, Sleeping, CanInstall
<1>5. ~early' => Timers' /\ Results'
  BY <1>1 DEF Timers, Results, Booting, Sleeping
<1> QED BY <1>3, <1>4, <1>5

(* payload3, payload4 and payload5 install the routine of their timer.     *)
LEMMA InvSingleRound ==
  ASSUME WakeupInv, SingleRound PROVE WakeupInv'
<1> USE DEF WakeupInv
<1>1. /\ UNCHANGED <<plat, test, n, found, timer, vector, masked, open, active, status>>
      /\ UNCHANGED <<tried, woke, safe, early, wild>>
      /\ pc = "round" /\ ~Looped /\ InstallIsr(Src, Isr[test])
      /\ why' = IF CanInstall(Src) THEN why ELSE why \cup {"install"}
      /\ pc' = IF ~CanInstall(Src) THEN "check" ELSE IF test = 3 THEN "arm" ELSE "failsafe"
  BY DEF SingleRound
<1>2. test \in 3 .. 5 /\ Src \in Sources /\ Src' = Src /\ ~Looped'
  BY <1>1, SourceKinds DEF Rounds, Booting, Looped, Src, SourceOf
<1>3. Isr[test] \in RoutinesOf(Src) /\ Isr[test] \in Isrs \ {"none", "failsafe"}
  BY <1>2, OwnRoutine
<1>4. /\ handler' \in [Sources -> Isrs] /\ enabled' \subseteq Sources
      /\ \A u \in Sources \ {Src} : handler'[u] = handler[u]
      /\ handler'[Src] = IF CanInstall(Src) THEN Isr[test] ELSE handler[Src]
  BY <1>1, <1>2, <1>3, Install
<1>5. TypeOK'
  BY <1>1, <1>4 DEF TypeOK, Places
<1>6. Rounds'
  BY <1>1, <1>2, <1>4 DEF Rounds, Booting, Sleeping, CanInstall
<1>7. Handlers'
  BY <1>1, <1>2, <1>3, <1>4 DEF Handlers, Booting, Sleeping, CanInstall
<1>8. ~early' => Timers' /\ Results'
  BY <1>1, <1>2 DEF Timers, Results, Booting, Sleeping
<1> QED BY <1>5, <1>6, <1>7, <1>8

(* The failsafe timer runs while the source of the round is still off.     *)
LEMMA InvWakeupSetFailsafe ==
  ASSUME WakeupInv, WakeupSetFailsafe PROVE WakeupInv'
<1> USE DEF WakeupInv
<1>1. /\ UNCHANGED <<plat, test, n, found, vector, masked, open, active, status>>
      /\ UNCHANGED <<tried, woke, why, early, wild>>
      /\ pc = "failsafe" /\ pc' = "arm" /\ safe' = TRUE
      /\ InstallIsr(Phy1, "failsafe") /\ SetTimer(Phy1, 1)
  BY DEF WakeupSetFailsafe
<1>2. test \in 1 .. 5 /\ test # 3 /\ Src \in Sources /\ Src # Phy1 /\ Src' = Src /\ (Looped' <=> Looped)
  BY <1>1, OwnRoutine DEF Rounds, Booting, Sleeping, Src, Looped
<1>3. /\ handler' \in [Sources -> Isrs] /\ enabled' \subseteq Sources
      /\ \A u \in Sources \ {Phy1} : handler'[u] = handler[u]
      /\ handler'[Phy1] = IF CanInstall(Phy1) THEN "failsafe" ELSE handler[Phy1]
  BY <1>1, Install, SourceKinds DEF Isrs
<1>4. /\ timer' \in [Sources -> {"off", "armed", "up"}]
      /\ \A u \in Sources \ {Phy1} : timer'[u] = timer[u]
  BY <1>1, SetTimerType, SourceKinds
<1>5. TypeOK'
  <2>1. {safe', early', wild'} \subseteq BOOLEAN
    BY <1>1, Zenon DEF TypeOK
  <2> QED BY <1>1, <1>3, <1>4, <2>1 DEF TypeOK, Places
<1>6. Rounds'
  BY <1>1, <1>2, <1>3 DEF Rounds, Booting, Sleeping, CanInstall
<1>7. Handlers'
  BY <1>1, <1>2, <1>3, FailsafeRoutine, SourceKinds DEF Handlers, Booting, Sleeping, CanInstall
<1>8. ~early' => Timers' /\ Results'
  BY <1>1, <1>2, <1>4 DEF Timers, Results, Booting, Sleeping
<1> QED BY <1>5, <1>6, <1>7, <1>8

(* The source of the round is armed.                                       *)
LEMMA InvArm ==
  ASSUME WakeupInv, Arm PROVE WakeupInv'
<1> USE DEF WakeupInv
<1>1. /\ UNCHANGED <<plat, test, n, found, handler, enabled, vector, masked, open, active, status>>
      /\ UNCHANGED <<safe, why, early, wild>>
      /\ pc = "arm" /\ pc' = "armed" /\ tried' = tried \cup {Src} /\ woke' = woke \ {Src}
      /\ SetTimer(Src, 1)
  BY DEF Arm, gic
<1>2. Src \in Sources /\ Src' = Src /\ (Looped' <=> Looped) /\ test \in 1 .. 5
  BY <1>1 DEF Rounds, Booting, Sleeping, Src, Looped
<1>3. /\ timer' \in [Sources -> {"off", "armed", "up"}]
      /\ \A u \in Sources \ {Src} : timer'[u] = timer[u]
  BY <1>1, <1>2, SetTimerType
<1>4. TypeOK'
  BY <1>1, <1>2, <1>3 DEF TypeOK, Places
<1>5. Rounds' /\ Handlers'
  BY <1>1, <1>2 DEF Rounds, Handlers, Booting, Sleeping, CanInstall
<1>6. ~early' => Timers' /\ Results'
  BY <1>1, <1>2, <1>3 DEF Timers, Results, Booting, Sleeping
<1> QED BY <1>4, <1>5, <1>6

(* The PE goes to sleep.                                                   *)
LEMMA InvEnterSemanticB ==
  ASSUME WakeupInv, EnterSemanticB PROVE WakeupInv'
<1> USE DEF WakeupInv
<1>1. /\ UNCHANGED <<plat, test, n, found, timer, handler, active, status, enabled, vector>>
      /\ UNCHANGED <<masked, open, tried, woke, safe, why, early, wild>>
      /\ pc = "armed" /\ pc' = "wfi"
  BY DEF EnterSemanticB, gic, history
<1>2. TypeOK'
  BY <1>1 DEF TypeOK, Places
<1>3. Rounds' /\ Handlers'
  BY <1>1 DEF Rounds, Handlers, Booting, Sleeping, CanInstall, Looped, Count, Src
<1>4. ~early' => Timers' /\ Results'
  BY <1>1 DEF Timers, Results, Booting, Sleeping, Looped, Src
<1> QED BY <1>2, <1>3, <1>4

(* With the source off the failsafe timer is the last one that runs.       *)
LEMMA InvWakeupClearFailsafe ==
  ASSUME WakeupInv, WakeupClearFailsafe PROVE WakeupInv'
<1> USE DEF WakeupInv
<1>1. /\ UNCHANGED <<plat, test, n, found, handler, active, status, enabled, vector>>
      /\ UNCHANGED <<masked, open, tried, woke, safe, why, early, wild>>
      /\ pc = "clear" /\ pc' = IF Looped THEN "round" ELSE "check"
      /\ IF test = 3 THEN UNCHANGED timer ELSE SetTimer(Phy1, 0)
  BY DEF WakeupClearFailsafe, gic, history
<1>2. /\ Src \in Sources /\ Src' = Src /\ (Looped' <=> Looped) /\ test \in 1 .. 5
      /\ test = 3 => Src = Phy1
  BY <1>1, OwnRoutine DEF Rounds, Booting, Sleeping, Src, Looped
<1>3. /\ timer' \in [Sources -> {"off", "armed", "up"}]
      /\ test # 3 => timer'[Phy1] = "off"
      /\ \A u \in Sources \ {Phy1} : timer'[u] = timer[u]
      /\ test = 3 => timer' = timer
  <2>1. CASE test = 3
    BY <1>1, <2>1 DEF TypeOK
  <2>2. CASE test # 3
    BY <1>1, <2>2, SetTimerType, SourceKinds
  <2> QED BY <2>1, <2>2
<1>4. Looped => n \in 0 .. Count /\ Count' = Count
  <2>1. (test = 1 => Src = Wd(n)) /\ (test = 2 => Src = Frame(n))
    BY DEF Src, SourceOf
  <2>2. test = 1 => n \in 0 .. NumWd - 1
    BY <1>2, <2>1, SourceKinds
  <2>3. test = 2 => n \in 0 .. NumFrame - 1
    BY <1>2, <2>1, SourceKinds
  <2> QED BY <1>1, <2>2, <2>3, WakeupAssumption DEF Looped, Count
<1>5. TypeOK'
  BY <1>1, <1>3 DEF TypeOK, Places
<1>6. Rounds' /\ Handlers'
  BY <1>1, <1>2, <1>4 DEF Rounds, Handlers, Booting, Sleeping, CanInstall
<1>7. ~early' => Timers' /\ Results'
  <2>1. ~early => \A u \in Sources : timer'[u] = "off"
    BY <1>1, <1>2, <1>3 DEF Timers, Booting, Sleeping
  <2> QED
    BY <1>1, <1>2, <2>1 DEF Timers, Results, Booting, Sleeping
<1> QED BY <1>5, <1>6, <1>7

(* The next test.                                                          *)
LEMMA InvCheckForError ==
  ASSUME WakeupInv, CheckForError PROVE WakeupInv'
<1> USE DEF WakeupInv
<1>1. /\ UNCHANGED <<plat, n, found, timer, handler, active, status, enabled, vector>>
      /\ UNCHANGED <<masked, open, tried, woke, safe, why, early, wild>>
      /\ pc = "check" /\ pc' = "next" /\ test' = test + 1
  BY DEF CheckForError, gic, history
<1>2. test' \in 1 .. 6
  BY <1>1 DEF Rounds, Booting
<1>3. TypeOK'
  BY <1>1, <1>2 DEF TypeOK, Places
<1>4. Rounds' /\ Handlers'
  BY <1>1 DEF Rounds, Handlers, Booting, Sleeping, CanInstall
<1>5. ~early' => Timers' /\ Results'
  BY <1>1 DEF Timers, Results, Booting, Sleeping
<1> QED BY <1>3, <1>4, <1>5

(* A step that changes nothing.                                            *)
LEMMA InvStutter ==
  ASSUME WakeupInv, UNCHANGED vars PROVE WakeupInv'
<1> USE DEF WakeupInv
<1>1. /\ UNCHANGED <<plat, pc, test, n, found, timer, handler, active, status, enabled, vector>>
      /\ UNCHANGED <<masked, open, tried, woke, safe, why, early, wild>>
  BY DEF vars, gic, history
<1>2. TypeOK'
  BY <1>1 DEF TypeOK
<1>3. Rounds' /\ Handlers'
  BY <1>1 DEF Rounds, Handlers, Booting, Sleeping, CanInstall, Looped, Count, Src
<1>4. ~early' => Timers' /\ Results'
  BY <1>1 DEF Timers, Results, Booting, Sleeping, Looped, Src
<1> QED BY <1>2, <1>3, <1>4

(* The firmware leaves at most the EL1 physical timer running.             *)
LEMMA InitWakeupInv ==
  ASSUME Init PROVE WakeupInv
<1>1. /\ pc \in {"timers", "init"} /\ test = 1 /\ n = 0
      /\ handler = [s \in Sources |-> "none"] /\ status = "pending" /\ active = {}
      /\ timer = [s \in Sources |-> IF s = Phy1 /\ plat.fwtick THEN "armed" ELSE "off"]
  BY DEF Init
<1>2. TypeOK
  <2>1. found \in BOOLEAN /\ masked \in BOOLEAN /\ open \in BOOLEAN /\ {safe, early, wild} \subseteq BOOLEAN
    BY Zenon DEF Init
  <2>2. timer \in [Sources -> {"off", "armed", "up"}] /\ handler \in [Sources -> Isrs]
    BY <1>1 DEF Isrs
  <2>3. enabled \subseteq Sources
    BY SourceKinds DEF Init
  <2>4. n \in -1 .. NumWd + NumFrame
    BY <1>1, WakeupAssumption
  <2> QED
    BY <2>1, <2>2, <2>3, <2>4 DEF Init, TypeOK, Places
<1>3. Rounds /\ Handlers
  BY <1>1 DEF Rounds, Handlers, Booting, Sleeping
<1>4. Timers /\ Results
  BY <1>1 DEF Timers, Results, Booting, Sleeping
<1> QED BY <1>2, <1>3, <1>4 DEF WakeupInv

----------------------------------------------------------------------------
(* Dispatch without a routine.                                             *)

(* The interrupt of the EL1 physical timer is enabled with a routine only, *)
(* and the suite's vector table comes after the sources are off.           *)
LEMMA TickOffStep ==
  ASSUME WakeupInv, VectorFirst, TickOff, [Next]_vars
  PROVE  VectorFirst' /\ TickOff'
<1>1. Phy1 \in Sources /\ Phy1 \notin Spis
  BY SourceKinds
<1>2. CASE DisableAll
  <2>1. /\ UNCHANGED <<plat, vector, handler>> /\ pc = "init" /\ pc' = "vector"
        /\ enabled' = enabled \ Reachable(Sources)
    BY <1>2 DEF DisableAll, GicStep
  <2>2. Reached => Phy1 \notin enabled'
    BY <1>1, <2>1 DEF Reached, Reachable
  <2> QED
    BY <2>1, <2>2 DEF VectorFirst, TickOff, Reached, Booting
<1>3. CASE VectorTableInit \/ ClearDaif \/ DistributorControl \/ WakeUpRD \/ CpuIfInit
  <2>1. /\ UNCHANGED <<plat, handler, enabled>> /\ Booting /\ pc \notin {"init", "timers"}
        /\ pc' # "init"
    BY <1>3 DEF VectorTableInit, ClearDaif, DistributorControl, WakeUpRD, CpuIfInit, GicStep, Booting
  <2> QED
    BY <2>1 DEF VectorFirst, TickOff, Reached, Booting
<1>4. CASE \/ TimersQuiet \/ StartTest \/ LoopEnd \/ Arm \/ EnterSemanticB
           \/ WakeupClearFailsafe \/ CheckForError \/ WfiOther
  <2>1. /\ UNCHANGED <<plat, vector, handler, enabled>> /\ pc # "init"
        /\ pc' \in {"next", "done", "round", "check", "armed", "wfi", "clear"}
    BY <1>4 DEF TimersQuiet, StartTest, LoopEnd, Arm, EnterSemanticB, WakeupClearFailsafe,
       CheckForError, WfiOther, gic
  <2> QED
    BY <2>1 DEF VectorFirst, TickOff, Reached, Booting
<1>5. CASE FirmwareTick \/ (\E s \in Sources : Expire(s) \/ TakeInterrupt(s)) \/ UNCHANGED vars
  <2>1. UNCHANGED <<plat, vector, handler, enabled>> /\ pc' = IF pc = "wfi" THEN pc' ELSE pc
    BY <1>5 DEF FirmwareTick, Expire, TakeInterrupt, gic, vars
  <2>2. pc = "wfi" => pc' \in {"wfi", "clear"}
    BY <1>5 DEF FirmwareTick, Expire, TakeInterrupt, vars
  <2> QED
    BY <2>1, <2>2 DEF VectorFirst, TickOff, Reached, Booting
<1>6. ASSUME NEW s \in Sources, NEW isr \in Isrs \ {"none"}, InstallIsr(s, isr),
             UNCHANGED <<plat, vector>>, pc # "init",
             pc' \in {"round", "failsafe", "check", "arm"}
      PROVE  VectorFirst' /\ TickOff'
  <2>1. VectorFirst'
    BY <1>6 DEF VectorFirst, Booting
  <2>2. TypeOK
    BY DEF WakeupInv
  <2>3. CASE s = Phy1
    <3>1. handler'[Phy1] = IF CanInstall(Phy1) THEN isr ELSE handler[Phy1]
      BY <1>6, <2>2, <2>3, Install
    <3>2. ~CanInstall(Phy1) => enabled' = enabled
      BY <1>1, <1>6, <2>2, <2>3, Install
    <3> QED
      BY <1>6, <2>1, <3>1, <3>2 DEF TickOff, Reached
  <2>4. CASE s # Phy1
    <3>1. handler'[Phy1] = handler[Phy1] /\ (Phy1 \in enabled' <=> Phy1 \in enabled)
      BY <1>1, <1>6, <2>2, <2>4, Install
    <3> QED
      BY <1>6, <2>1, <3>1 DEF TickOff, Reached
  <2> QED BY <2>3, <2>4
<1>7. CASE WakeupSetFailsafe
  <2>1. /\ UNCHANGED <<plat, vector>> /\ pc = "failsafe" /\ pc' = "arm"
        /\ InstallIsr(Phy1, "failsafe") /\ "failsafe" \in Isrs \ {"none"}
    BY <1>7 DEF WakeupSetFailsafe, Isrs
  <2> QED BY <1>1, <1>6, <2>1
<1>8. CASE SingleRound
  <2>1. /\ UNCHANGED <<plat, vector>> /\ pc = "round" /\ pc' \in {"check", "arm", "failsafe"}
        /\ ~Looped /\ InstallIsr(Src, Isr[test])
    BY <1>8 DEF SingleRound
  <2>2. test \in 3 .. 5 /\ Src \in Sources
    BY <2>1, SourceKinds DEF WakeupInv, Rounds, Booting, Looped, Src, SourceOf
  <2>3. Isr[test] \in Isrs \ {"none"}
    BY <2>2, OwnRoutine
  <2> QED BY <1>6, <2>1, <2>2, <2>3
<1>9. CASE LoopRound
  <2> DEFINE s == SourceOf(test, n - 1)
  <2>1. /\ UNCHANGED <<plat, vector>> /\ pc = "round" /\ Looped /\ n > 0
        /\ pc' \in {"round", "check", "failsafe"}
        /\ UNCHANGED <<handler, enabled>> \/ InstallIsr(s, Isr[test])
    BY <1>9 DEF LoopRound
  <2>2. test \in 1 .. 5 /\ s \in Sources /\ Isr[test] \in Isrs \ {"none"}
    <3>1. test \in 1 .. 5 /\ n - 1 \in 0 .. Count - 1
      BY <2>1, LoopSources, WakeupAssumption DEF WakeupInv, Rounds, Count
    <3>2. s \in Sources
      BY <2>1, <3>1, LoopSources
    <3> QED BY <3>1, <3>2, RoutineKinds
  <2>3. CASE UNCHANGED <<handler, enabled>>
    BY <2>1, <2>3 DEF VectorFirst, TickOff, Reached, Booting
  <2>4. CASE InstallIsr(s, Isr[test])
    <3> HIDE DEF s
    <3> QED BY <1>6, <2>1, <2>2, <2>4
  <2> QED BY <2>1, <2>3, <2>4
<1> QED
  BY <1>2, <1>3, <1>4, <1>5, <1>7, <1>8, <1>9 DEF Next, Driver, Payload

(* An interrupt that can be taken has a routine, and that routine a valid  *)
(* timer_num.                                                              *)
LEMMA DispatchHasRoutine ==
  ASSUME TickKnown, WakeupInv, VectorFirst, TickOff, Reached, ~early,
         NEW s \in Sources, TakeInterrupt(s)
  PROVE  handler[s] # "none" /\ IsrTarget(handler[s]) = s
<1> USE DEF WakeupInv
<1>1. /\ timer[s] = "up" /\ s \in enabled
      /\ vector = "acs" \/ (plat.gic = "fw" /\ pc # "timers")
  BY DEF TakeInterrupt, Signalled
<1>2. handler[s] # "none"
  <2> SUFFICES ASSUME handler[s] = "none" PROVE FALSE
    OBVIOUS
  <2>1. (Booting /\ s = Phy1) \/ (Sleeping /\ s \in {Src, Phy1})
    BY <1>1 DEF Timers
  <2>2. CASE Booting /\ s = Phy1
    BY <1>1, <2>2 DEF VectorFirst, TickOff
  <2>3. CASE Sleeping /\ s \in {Src, Phy1}
    <3>1. test \in 1 .. 5 /\ CanInstall(Src) /\ handler[Src] = Isr[test] /\ handler[Src] # "none"
      BY <2>3, OwnRoutine DEF Rounds, Sleeping, Booting
    <3>2. s = Phy1 /\ test # 3
      BY <2>3, <3>1, OwnRoutine
    <3>3. ~CanInstall(Phy1)
      BY <2>3, <3>2 DEF Handlers
    <3>4. plat.gic = "fw" /\ plat.fwtick
      BY <1>1, <2>3, <3>2 DEF TickOff, Sleeping
    <3>5. Phy1 \in plat.bad
      BY <3>1, <3>3, <3>4 DEF CanInstall
    <3> QED
      BY <3>4, <3>5 DEF TickKnown, TypeOK
  <2> QED BY <2>1, <2>2, <2>3
<1> QED BY <1>1, <1>2, DispatchTarget

(* Only a dispatch without a routine, or with a stale timer_num, is wild.  *)
LEMMA NoStrayStep ==
  ASSUME TickKnown, StrayInv, [Next]_vars
  PROVE  NoStrayDispatch'
<1> USE DEF StrayInv
<1>1. CASE \E s \in Sources : TakeInterrupt(s)
  <2>1. PICK s \in Sources : TakeInterrupt(s)
    BY <1>1
  <2>2. plat' = plat /\ Dispatch(s)
    BY <2>1 DEF TakeInterrupt
  <2>3. ~early' => ~early
    BY <2>1, Zenon DEF TakeInterrupt
  <2>4. ASSUME Reached, ~early PROVE ~wild'
    <3>1. ~wild
      BY <2>4 DEF NoStrayDispatch, Reached
    <3>2. handler[s] # "none" /\ IsrTarget(handler[s]) = s
      BY <2>1, <2>4, DispatchHasRoutine
    <3>3. wild' = (wild \/ IsrTarget(handler[s]) \notin Sources)
      BY <2>2, <3>2, Zenon DEF Dispatch
    <3> QED BY <3>1, <3>2, <3>3
  <2> QED
    BY <2>2, <2>3, <2>4 DEF NoStrayDispatch, Reached
<1>2. CASE ~(\E s \in Sources : TakeInterrupt(s))
  <2>1. plat' = plat /\ wild' = wild
    BY <1>2 DEF Next, Driver, Payload, DisableAll, VectorTableInit, ClearDaif, DistributorControl,
       WakeUpRD, CpuIfInit, GicStep, TimersQuiet, StartTest, LoopRound, LoopEnd, SingleRound,
       WakeupSetFailsafe, Arm, EnterSemanticB, WakeupClearFailsafe, CheckForError, WfiOther,
       FirmwareTick, Expire, gic, history, vars
  <2>2. ~early' => ~early
    BY <1>2, Zenon DEF Next, Driver, Payload, DisableAll, VectorTableInit, ClearDaif, DistributorControl,
       WakeUpRD, CpuIfInit, GicStep, TimersQuiet, StartTest, LoopRound, LoopEnd, SingleRound,
       WakeupSetFailsafe, Arm, EnterSemanticB, WakeupClearFailsafe, CheckForError, WfiOther,
       FirmwareTick, Expire, gic, history, vars
  <2> QED
    BY <2>1, <2>2 DEF NoStrayDispatch
<1> QED BY <1>1, <1>2

----------------------------------------------------------------------------
(* The results.                                                            *)

(* The inductive invariant holds in every state: each routine is           *)
(* registered for its own source, and, as long as no WFI has ended too     *)
(* early, only the source under test and the failsafe timer run.           *)
THEOREM WakeupInvariant == Spec => []WakeupInv
<1>1. Init => WakeupInv
  BY InitWakeupInv
<1>2. WakeupInv /\ [Next]_vars => WakeupInv'
  BY InvDriver, InvTimersQuiet, InvStartTest, InvLoopRound, InvLoopEnd, InvSingleRound,
     InvWakeupSetFailsafe, InvArm, InvEnterSemanticB, InvWakeupClearFailsafe, InvCheckForError,
     InvWfiOther, InvFirmwareTick, InvExpire, InvTakeInterrupt, InvStutter DEF Next, Payload
<1> QED BY <1>1, <1>2, PTL DEF Spec

(* A test leaves no timer running and no interrupt active: of a looping    *)
(* payload as of a single one, whatever routine has run and when, as long  *)
(* as no WFI has ended before its interrupt.                               *)
THEOREM QuietBetweenTests == Spec => []Quiet
<1>1. WakeupInv => Quiet
  BY DEF WakeupInv, Timers, Quiet, Booting, Sleeping
<1> QED BY <1>1, WakeupInvariant, PTL

(* A failed wakeup test could not install its routine, or its failsafe     *)
(* timer ran out and wrote over the result.                                *)
THEOREM FailIsExplained == Spec => []FailExplained
<1>1. WakeupInv => FailExplained
  BY DEF WakeupInv, Results, FailExplained
<1> QED BY <1>1, WakeupInvariant, PTL

(* Where a firmware whose EL1 physical timer ticks gives the interrupt ID  *)
(* of that timer, no interrupt is dispatched without a routine and none    *)
(* with a timer_num that names no watchdog or frame.                       *)
THEOREM NoStrayInterrupt == TickKnown => (Spec => []NoStrayDispatch)
<1> SUFFICES ASSUME TickKnown PROVE Spec => []NoStrayDispatch
  OBVIOUS
<1>1. Init => StrayInv
  <2> SUFFICES ASSUME Init PROVE StrayInv
    OBVIOUS
  <2>1. VectorFirst /\ TickOff
    BY DEF Init, VectorFirst, TickOff, Booting
  <2>2. NoStrayDispatch
    BY DEF Init, NoStrayDispatch
  <2> QED BY <2>1, <2>2, InitWakeupInv DEF StrayInv
<1>2. StrayInv /\ WakeupInv' /\ [Next]_vars => StrayInv'
  <2> SUFFICES ASSUME StrayInv, WakeupInv', [Next]_vars PROVE StrayInv'
    OBVIOUS
  <2>1. VectorFirst' /\ TickOff'
    BY TickOffStep DEF StrayInv
  <2>2. NoStrayDispatch'
    BY NoStrayStep
  <2> QED BY <2>1, <2>2 DEF StrayInv
<1>3. StrayInv => NoStrayDispatch
  BY DEF StrayInv
<1> QED BY <1>1, <1>2, <1>3, WakeupInvariant, PTL DEF Spec
=============================================================================
