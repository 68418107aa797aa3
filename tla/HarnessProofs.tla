--------------------------- MODULE HarnessProofs ---------------------------
(* Proofs about the harness, for every number of PEs and tests, every      *)
(* choice of test forms, and every bound on the polling loops.             *)
EXTENDS Harness, FiniteSetTheorems, TLAPS

(* The type invariant together with the positions of the loop variables.   *)
TypeInv == TypeOK /\ Bounds

StatusType == [PE -> [state : States, test : Tests \cup {NoTest}]]

(* A store of val_set_status leaves a well-formed shared memory.           *)
LEMMA SetStatusType ==
  ASSUME TypeOK, NEW p \in PE, NEW s \in States, NEW t \in Tests \cup {NoTest},
         SetStatus(p, Status(s, t))
  PROVE  status' \in StatusType
  BY DEF TypeOK, SetStatus, Status, StatusType

(* The initial state is well formed: the shared memory may hold anything,  *)
(* but every slot is a status word.                                        *)
LEMMA InitTypeInv == Init => TypeInv
<1> SUFFICES ASSUME Init PROVE TypeInv
  OBVIOUS
<1> USE HarnessAssumption DEF Init, PE, Tests
<1>1. status \in StatusType
  BY DEF StatusType, Status
<1>b. timedOut \in BOOLEAN
  BY Zenon
<1>2. TypeOK
  BY <1>1, <1>b DEF TypeOK, StatusType, MainPcs, Powers, Results
<1>3. Bounds
  BY DEF Bounds
<1> QED BY <1>2, <1>3 DEF TypeInv

(* Every step keeps the type and the loop bounds: one case per action.     *)
LEMMA TypeInvStep == TypeInv /\ [Next]_vars => TypeInv'
<1> SUFFICES ASSUME TypeOK, Bounds, [Next]_vars PROVE TypeOK' /\ Bounds'
  BY DEF TypeInv
<1> USE HarnessAssumption
<1>s. Results \subseteq States /\ {"PENDING", "FAIL", "SKIP", "PASS"} \subseteq States
  BY DEF States, Results
<1>1. CASE InitializeTest
  <2>1. status' \in StatusType
    BY <1>1, <1>s DEF InitializeTest, TypeOK, Bounds, Status, StatusType
  <2>2. TypeOK'
    BY <1>1, <2>1 DEF InitializeTest, TypeOK, StatusType, MainPcs, secVars, history, PE
  <2>3. Bounds'
    BY <1>1 DEF InitializeTest, Bounds, secVars, PE
  <2> QED BY <2>2, <2>3
<1>2. CASE RunPayloadOnMain
  <2>1. status' \in StatusType
    BY <1>2, <1>s, SetStatusType DEF RunPayloadOnMain, Bounds
  <2>2. TypeOK'
    BY <1>2, <2>1 DEF RunPayloadOnMain, Bounds, TypeOK, StatusType, MainPcs, secVars, counts
  <2>3. Bounds'
    BY <1>2 DEF RunPayloadOnMain, Bounds, secVars, NumPeOf, PE
  <2> QED BY <2>2, <2>3
<1>3. CASE RemotePayload
  <2>1. status' \in StatusType
    <3>1. CASE NumPe = 1
      BY <1>3, <3>1, <1>s, SetStatusType DEF RemotePayload, Bounds
    <3>2. CASE NumPe # 1
      BY <1>3, <3>2 DEF RemotePayload, TypeOK, StatusType
    <3> QED BY <3>1, <3>2
  <2>2. TypeOK'
    BY <1>3, <2>1 DEF RemotePayload, Bounds, TypeOK, StatusType, MainPcs, secVars, counts,
           Results
  <2>3. Bounds'
    BY <1>3 DEF RemotePayload, Bounds, secVars, PE
  <2> QED BY <2>2, <2>3
<1>4. CASE ArmInterrupt
  <2>1. status' \in StatusType
    <3>1. CASE UNCHANGED status
      BY <3>1 DEF TypeOK, StatusType
    <3>2. CASE ~UNCHANGED status
      BY <1>4, <3>2, <1>s, SetStatusType DEF IrqKinds, ArmInterrupt, Bounds
    <3> QED BY <3>1, <3>2
  <2>2. TypeOK'
    <3>1. ran' \subseteq Tests \X PE \X (Results \cup {"STRAY"})
      BY <1>4 DEF IrqKinds, ArmInterrupt, TypeOK, Bounds, Results
    <3> QED
      BY <1>4, <2>1, <3>1 DEF IrqKinds, ArmInterrupt, Bounds, TypeOK, StatusType, MainPcs,
             secVars, counts
  <2>3. Bounds'
    BY <1>4 DEF IrqKinds, ArmInterrupt, Bounds, secVars, PE
  <2> QED BY <2>2, <2>3
<1>5. CASE WaitForInterrupt
  <2>1. status' \in StatusType
    <3>1. CASE UNCHANGED status
      BY <3>1 DEF TypeOK, StatusType
    <3>2. CASE ~UNCHANGED status
      BY <1>5, <3>2, <1>s, SetStatusType DEF IrqKinds, WaitForInterrupt, Bounds
    <3> QED BY <3>1, <3>2
  <2>b. timedOut' \in BOOLEAN
    BY <1>5, Zenon DEF IrqKinds, WaitForInterrupt, TypeOK
  <2>r. ran' \subseteq Tests \X PE \X (Results \cup {"STRAY"})
    BY <1>5 DEF WaitForInterrupt, TypeOK, Bounds, Results
  <2>2. TypeOK'
    BY <1>5, <2>1, <2>b, <2>r DEF IrqKinds, WaitForInterrupt, Bounds, TypeOK, StatusType, MainPcs,
           secVars, counts
  <2>3. Bounds'
    BY <1>5 DEF IrqKinds, WaitForInterrupt, Bounds, secVars, PE
  <2> QED BY <2>2, <2>3
<1>6. CASE UnexpectedException
  <2>1. status' \in StatusType
    BY <1>6, <1>s, SetStatusType DEF UnexpectedException
  <2>2. TypeOK'
    BY <1>6, <2>1 DEF UnexpectedException, TypeOK, StatusType, MainPcs, secVars, loop, counts,
           history
  <2>3. Bounds'
    BY <1>6 DEF UnexpectedException, Bounds, secVars, loop
  <2> QED BY <2>2, <2>3
<1>7. CASE SetTestData
  <2>1. data' \in [PE -> Tests \cup {NoTest, Debug}]
    BY <1>7 DEF SetTestData, TypeOK, Bounds
  <2>2. TypeOK'
    BY <1>7, <2>1 DEF SetTestData, AfterLaunch, TypeOK, MainPcs, secVars, counts, history, PE
  <2>3. Bounds'
    BY <1>7 DEF SetTestData, AfterLaunch, TypeOK, Bounds, secVars, PE
  <2> QED BY <2>2, <2>3
<1>8. CASE ExecuteOnPe
  <2>0. idx \in PE
    BY <1>8 DEF ExecuteOnPe, Bounds
  <2>1. status' \in StatusType
    <3>1. CASE UNCHANGED status
      BY <3>1 DEF TypeOK, StatusType
    <3>2. CASE ~UNCHANGED status
      BY <1>8, <2>0, <3>2, <1>s, SetStatusType DEF ExecuteOnPe
    <3> QED BY <3>1, <3>2
  <2>2. power' \in [PE -> Powers]
    BY <1>8 DEF ExecuteOnPe, TypeOK, Powers
  <2>3. TypeOK'
    <3>1. /\ idx' \in 0 .. NumPe
          /\ polls' \in 0 .. PollLimit
          /\ retries' \in 0 .. OnRetries
          /\ pc' \in MainPcs
          /\ last' = last
      BY <1>8, <2>0 DEF ExecuteOnPe, AfterExecute, TypeOK, MainPcs, PE
    <3> QED
      BY <1>8, <2>1, <2>2, <3>1 DEF ExecuteOnPe, TypeOK, StatusType, counts, history
  <2>4. Bounds'
    <3>1. /\ power'[MainPe] = "run"
          /\ \A p \in PE \ {MainPe} : power'[p] \in {"run", "report"} => power[p] = power'[p]
      BY <1>8 DEF ExecuteOnPe, TypeOK, Bounds
    <3> QED
      BY <1>8, <3>1 DEF ExecuteOnPe, AfterExecute, Bounds
  <2> QED BY <2>3, <2>4
<1>9. CASE RemoteWait
  <2>1. status' \in StatusType
    <3>1. CASE UNCHANGED status
      BY <3>1 DEF TypeOK, StatusType
    <3>2. CASE ~UNCHANGED status
      BY <1>9, <3>2, <1>s, SetStatusType DEF RemoteWait, Bounds
    <3> QED BY <3>1, <3>2
  <2>b. timedOut' \in BOOLEAN
    BY <1>9, Zenon DEF RemoteWait, TypeOK
  <2>2. TypeOK'
    BY <1>9, <2>1, <2>b DEF RemoteWait, Bounds, TypeOK, StatusType, MainPcs, secVars, counts
  <2>3. Bounds'
    BY <1>9 DEF RemoteWait, Bounds, secVars, PE
  <2> QED BY <2>2, <2>3
<1>10. CASE RemoteCheck
  <2>1. TypeOK'
    BY <1>10 DEF RemoteCheck, Bounds, TypeOK, MainPcs, shared, secVars, counts, history, PE
  <2>2. Bounds'
    BY <1>10 DEF RemoteCheck, Bounds, secVars, PE
  <2> QED BY <2>1, <2>2
<1>11. CASE ScanStatus
  <2>1. TypeOK'
    BY <1>11 DEF ScanStatus, TypeOK, shared, secVars, counts, history
  <2>2. Bounds'
    BY <1>11 DEF ScanStatus, Bounds, secVars
  <2> QED BY <2>1, <2>2
<1>12. CASE ScanEnd
  <2>1. status' \in StatusType
    <3>1. CASE UNCHANGED status
      BY <3>1 DEF TypeOK, StatusType
    <3>2. CASE ~UNCHANGED status
      <4>1. last - 1 \in PE
        BY <1>12, <3>2 DEF ScanEnd, TypeOK, PE
      <4> QED
        BY <1>12, <3>2, <4>1, <1>s, SetStatusType DEF ScanEnd, Bounds
    <3> QED BY <3>1, <3>2
  <2>b. timedOut' \in BOOLEAN
    BY <1>12, Zenon DEF ScanEnd, TypeOK
  <2>2. TypeOK'
    BY <1>12, <2>1, <2>b DEF ScanEnd, TypeOK, StatusType, MainPcs, secVars, counts
  <2>3. Bounds'
    BY <1>12 DEF ScanEnd, Bounds, secVars, PE
  <2> QED BY <2>2, <2>3
<1>13. CASE CheckForError
  <2>1. verdict' \in [Tests -> Results \cup {"NONE"}]
    BY <1>13 DEF CheckForError, Conclude, Verdict, TypeOK, Results
  <2>2. TypeOK'
    <3>1. /\ cur' \in 1 .. NumTests + 1
          /\ idx' \in 0 .. NumPe
          /\ pc' \in MainPcs
      BY <1>13 DEF CheckForError, Conclude, Bounds, TypeOK, MainPcs, Tests, PE
    <3>2. pass' \in Nat /\ fail' \in Nat
      BY <1>13 DEF CheckForError, Conclude, TypeOK
    <3> QED
      BY <1>13, <2>1, <3>1, <3>2 DEF CheckForError, TypeOK, shared, secVars
  <2>3. Bounds'
    BY <1>13 DEF CheckForError, Conclude, Bounds, secVars, PE, Tests
  <2> QED BY <2>2, <2>3
<1>14. ASSUME NEW t \in Tests, Isr(t) PROVE TypeOK' /\ Bounds'
  <2>1. status' \in StatusType
    BY <1>14, <1>s, SetStatusType DEF IrqKinds, Isr
  <2>r. ran' \subseteq Tests \X PE \X (Results \cup {"STRAY"})
    BY <1>14 DEF Isr, TypeOK, Bounds, Results
  <2>2. TypeOK'
    BY <1>14, <2>1, <2>r DEF IrqKinds, Isr, TypeOK, StatusType, secVars, loop, counts
  <2>3. Bounds'
    BY <1>14 DEF IrqKinds, Isr, Bounds, secVars, loop
  <2> QED BY <2>2, <2>3
<1>15. ASSUME NEW p \in PE, Secondary(p) PROVE TypeOK' /\ Bounds'
  <2>1. CASE Boot(p)
    BY <2>1 DEF Boot, TypeOK, Bounds, Powers, shared, loop, counts, history
  <2>2. CASE GetTestData(p)
    BY <2>2 DEF GetTestData, TypeOK, Bounds, Powers, shared, loop, counts, history
  <2>3. CASE RunPayload(p)
    <3>0. p # MainPe /\ vector[p] \in Tests
      BY <2>3 DEF RunPayload, Bounds
    <3>1. status' \in StatusType
      <4>1. CASE UNCHANGED status
        BY <4>1 DEF TypeOK, StatusType
      <4>2. CASE ~UNCHANGED status
        BY <2>3, <3>0, <4>2, <1>s, SetStatusType DEF RunPayload, Results
      <4> QED BY <4>1, <4>2
    <3>2. ran' \subseteq Tests \X PE \X (Results \cup {"STRAY"})
      BY <2>3, <3>0 DEF RunPayload, TypeOK, Results
    <3>3. power' \in [PE -> Powers] /\ data' \in [PE -> Tests \cup {NoTest, Debug}]
      BY <2>3 DEF RunPayload, TypeOK, Powers
    <3>4. TypeOK'
      BY <2>3, <3>1, <3>2, <3>3 DEF RunPayload, TypeOK, StatusType, loop, counts
    <3>5. Bounds'
      BY <2>3, <3>0 DEF RunPayload, TypeOK, Bounds, loop
    <3> QED BY <3>4, <3>5
  <2>4. CASE ReportFailure(p)
    <3>0. p # MainPe /\ vector[p] \in Tests
      BY <2>4 DEF ReportFailure, Bounds
    <3>1. status' \in StatusType
      BY <2>4, <3>0, <1>s, SetStatusType DEF ReportFailure
    <3>r. ran' \subseteq Tests \X PE \X (Results \cup {"STRAY"})
      BY <2>4, <3>0 DEF ReportFailure, TypeOK, Results
    <3>2. TypeOK'
      BY <2>4, <3>1, <3>r DEF ReportFailure, TypeOK, StatusType, loop, counts, Powers
    <3>3. Bounds'
      BY <2>4, <3>0 DEF ReportFailure, TypeOK, Bounds, loop
    <3> QED BY <3>2, <3>3
  <2>5. CASE Hang(p)
    BY <2>5 DEF Hang, TypeOK, Bounds, Powers, shared, loop, counts, history
  <2>6. CASE CpuOff(p)
    BY <2>6 DEF CpuOff, TypeOK, Bounds, Powers, shared, loop, counts, history
  <2> QED BY <1>15, <2>1, <2>2, <2>3, <2>4, <2>5, <2>6 DEF Secondary
<1>16. CASE UNCHANGED vars
  BY <1>16 DEF vars, shared, secVars, loop, counts, history, TypeOK, Bounds
<1> QED
  BY <1>1, <1>2, <1>3, <1>4, <1>5, <1>6, <1>7, <1>8, <1>9, <1>10, <1>11, <1>12,
     <1>13, <1>14, <1>15, <1>16 DEF Next, Main

(* The state of the harness stays within its types: the loop indices stay  *)
(* within the shared memory, whatever the PEs, firmware and devices do.    *)
THEOREM TypeCorrect == Spec => []TypeOK
<1>1. TypeInv => TypeOK
  BY DEF TypeInv
<1> QED
  BY <1>1, InitTypeInv, TypeInvStep, PTL DEF Spec

----------------------------------------------------------------------------
(* The inductive step: as long as no polling loop expires, every action    *)
(* leaves no trace of an earlier test behind.  One lemma per action.       *)
Hyp == TypeOK /\ Bounds /\ Clean /\ TypeOK' /\ Bounds' /\ ~timedOut' /\ NoLooseIrq

(* The PEs a test is about are PEs of the system.                          *)
LEMMA ParticipantsPE == \A t \in Tests : Participants(t) \subseteq PE
  BY HarnessAssumption DEF Participants, PE

(* val_initialize_test starts from a harness without traces and sets the   *)
(* slots of its test.                                                      *)
LEMMA CleanInitializeTest ==
  ASSUME Hyp, InitializeTest PROVE Clean'
<1> USE HarnessAssumption, ParticipantsPE DEF Hyp, Clean
<1>1. ActiveIsCurrent'
  BY DEF InitializeTest, ActiveIsCurrent, Active, secVars
<1>2. NotStarted'
  <2>1. pc' = "payload" /\ Kind[cur] \in {"all", "remote", "irq"} => cur \notin Skip
    BY DEF InitializeTest, Bounds, PE
  <2>2. cur \notin Skip => \A p \in Slots(cur) \cap PE : status'[p] = Status("PENDING", cur)
    BY DEF InitializeTest
  <2>3. Kind[cur] \in {"all", "remote"} => Slots(cur) = PE
    BY DEF Slots, NumPeOf, PE
  <2>4. Kind[cur] = "irq" => MainPe \in Slots(cur)
    BY DEF Slots
  <2> QED
    BY <2>1, <2>2, <2>3, <2>4 DEF InitializeTest, NotStarted
<1>3. ArmedIsCurrent'
  BY DEF InitializeTest, ArmedIsCurrent
<1>4. ResultIsStatus'
  <2> SUFFICES ASSUME NEW t \in Tests, NEW p \in PE, NEW r \in Results, <<t, p, r>> \in ran
               PROVE  /\ t <= cur
                      /\ t < cur
                      /\ t = cur => status'[p] = Status(r, cur)
    BY DEF InitializeTest, ResultIsStatus, history
  <2>1. t < cur
    BY DEF InitializeTest, ResultIsStatus
  <2>2. t \in Int /\ cur \in Int
    BY DEF Tests, TypeOK
  <2> HIDE HarnessAssumption, ParticipantsPE DEF Hyp, Clean
  <2> QED
    BY <2>1, <2>2
<1>5. PassIsResult'
  <2> SUFFICES ASSUME pc' = "check", NEW p \in Participants(cur)
               PROVE  status'[p].state # "PASS"
    BY DEF InitializeTest, PassIsResult
  <2>1. p = MainPe \/ p \in Slots(cur)
    BY DEF Participants, Slots, NumPeOf, PE, InitializeTest, Bounds
  <2>2. p \in PE /\ cur \in Skip
    BY DEF InitializeTest, Bounds
  <2> QED
    BY <2>1, <2>2 DEF InitializeTest, Status
<1>6. Initialised'
  BY DEF InitializeTest, Initialised, NumPeOf, Status, Slots, PE
<1>7. ScanProgress'
  BY DEF InitializeTest, ScanProgress, Status, PE
<1>8. VerdictEvidence'
  BY DEF InitializeTest, VerdictEvidence, history
<1> QED BY <1>1, <1>2, <1>3, <1>4, <1>5, <1>6, <1>7, <1>8

(* The payload on the main PE changes only the main PE's slot and result.  *)
LEMMA CleanRunPayloadOnMain ==
  ASSUME Hyp, RunPayloadOnMain PROVE Clean'
<1> USE HarnessAssumption, ParticipantsPE DEF Hyp, Clean
<1>1. ActiveIsCurrent'
  BY DEF RunPayloadOnMain, ActiveIsCurrent, Active, secVars
<1>2. NotStarted'
  BY DEF RunPayloadOnMain, NotStarted, SetStatus, NumPeOf
<1>3. ArmedIsCurrent'
  BY DEF RunPayloadOnMain, ArmedIsCurrent
<1>4. ResultIsStatus'
  <2> SUFFICES ASSUME NEW t \in Tests, NEW p \in PE, NEW r \in Results, <<t, p, r>> \in ran'
               PROVE  t <= cur /\ (t = cur => status'[p] = Status(r, cur))
    BY DEF RunPayloadOnMain, ResultIsStatus
  <2>1. CASE <<t, p, r>> \in ran
    BY <2>1 DEF RunPayloadOnMain, ResultIsStatus, TypeOK, Tests
  <2>2. CASE <<t, p, r>> \notin ran
    BY <2>2 DEF RunPayloadOnMain, SetStatus, TypeOK, Tests
  <2> QED BY <2>1, <2>2
<1>5. PassIsResult'
  <2> SUFFICES ASSUME NEW p \in Participants(cur), status'[p].state = "PASS"
               PROVE  <<cur, p, "PASS">> \in ran'
    BY DEF RunPayloadOnMain, PassIsResult
  <2>1. p \in PE /\ cur \in Tests
    BY DEF RunPayloadOnMain, Bounds
  <2>2. p = MainPe
    BY <2>1 DEF RunPayloadOnMain, SetStatus, NotStarted, Participants, Status, TypeOK
  <2> QED
    BY <2>1, <2>2 DEF RunPayloadOnMain, SetStatus, Status, TypeOK
<1>6. Initialised'
  BY DEF RunPayloadOnMain, Initialised, NotStarted, NumPeOf, Status, SetStatus, Results
<1>7. ScanProgress'
  BY DEF RunPayloadOnMain, ScanProgress, IsPending, TypeOK, Status, SetStatus, Results
<1>8. VerdictEvidence'
  BY DEF RunPayloadOnMain, VerdictEvidence, TypeOK
<1> QED BY <1>1, <1>2, <1>3, <1>4, <1>5, <1>6, <1>7, <1>8

(* The payload of os_c001 starts nothing yet, or skips on a single PE.     *)
LEMMA CleanRemotePayload ==
  ASSUME Hyp, RemotePayload PROVE Clean'
<1> USE HarnessAssumption, ParticipantsPE DEF Hyp, Clean
<1>1. ActiveIsCurrent'
  BY DEF RemotePayload, ActiveIsCurrent, Active, secVars
<1>2. NotStarted'
  BY DEF RemotePayload, NotStarted
<1>3. ArmedIsCurrent'
  BY DEF RemotePayload, ArmedIsCurrent
<1>4. ResultIsStatus'
  <2> SUFFICES ASSUME NEW t \in Tests, NEW p \in PE, NEW r \in Results, <<t, p, r>> \in ran'
               PROVE  t <= cur /\ (t = cur => status'[p] = Status(r, cur))
    BY DEF RemotePayload, ResultIsStatus
  <2>1. CASE <<t, p, r>> \in ran
    BY <2>1 DEF RemotePayload, ResultIsStatus, TypeOK, Tests
  <2>2. CASE <<t, p, r>> \notin ran
    BY <2>2 DEF RemotePayload, SetStatus, TypeOK, Tests
  <2> QED BY <2>1, <2>2
<1>5. PassIsResult'
  BY DEF RemotePayload, PassIsResult, NotStarted, Bounds, TypeOK, Status, SetStatus
<1>6. Initialised'
  BY DEF RemotePayload, Initialised, NotStarted, NumPeOf, Status
<1>7. ScanProgress'
  BY DEF RemotePayload, ScanProgress, NumPeOf, Bounds, PE
<1>8. VerdictEvidence'
  BY DEF RemotePayload, VerdictEvidence
<1> QED BY <1>1, <1>2, <1>3, <1>4, <1>5, <1>6, <1>7, <1>8

(* Arming the device: the status the payload will poll is the PENDING of   *)
(* this test.                                                              *)
LEMMA CleanArmInterrupt ==
  ASSUME Hyp, ArmInterrupt PROVE Clean'
<1> USE HarnessAssumption, ParticipantsPE DEF Hyp, Clean, IrqKinds
<1>1. ActiveIsCurrent'
  BY DEF ArmInterrupt, ActiveIsCurrent, Active, secVars
<1>2. NotStarted'
  BY DEF ArmInterrupt, NotStarted
<1>3. ArmedIsCurrent'
  BY DEF ArmInterrupt, ArmedIsCurrent, NotStarted, TypeOK, SetStatus, NoLooseIrq, V2mKinds, Bounds
<1>4. ResultIsStatus'
  <2> SUFFICES ASSUME NEW t \in Tests, NEW p \in PE, NEW r \in Results, <<t, p, r>> \in ran'
               PROVE  t <= cur /\ (t = cur => status'[p] = Status(r, cur))
    BY DEF ArmInterrupt, ResultIsStatus
  <2>1. CASE <<t, p, r>> \in ran
    BY <2>1 DEF ArmInterrupt, ResultIsStatus, TypeOK, Tests
  <2>2. CASE <<t, p, r>> \notin ran
    BY <2>2 DEF ArmInterrupt, SetStatus, TypeOK, Tests
  <2> QED BY <2>1, <2>2
<1>5. PassIsResult'
  <2>1. Participants(cur) = {MainPe}
    BY DEF ArmInterrupt, Participants
  <2>2. status'[MainPe].state # "PASS"
    BY DEF ArmInterrupt, SetStatus, Status, TypeOK, NotStarted, NoLooseIrq, V2mKinds, Bounds
  <2> QED
    BY <2>1, <2>2 DEF ArmInterrupt, PassIsResult
<1>6. Initialised'
  BY DEF ArmInterrupt, Initialised, NumPeOf
<1>7. ScanProgress'
  BY DEF ArmInterrupt, ScanProgress, NumPeOf
<1>8. VerdictEvidence'
  BY DEF ArmInterrupt, VerdictEvidence, TypeOK
<1> QED BY <1>1, <1>2, <1>3, <1>4, <1>5, <1>6, <1>7, <1>8

(* The polling loop of an interrupt test ends only when its ISR has        *)
(* reported.                                                               *)
LEMMA CleanWaitForInterrupt ==
  ASSUME Hyp, WaitForInterrupt PROVE Clean'
<1> USE HarnessAssumption, ParticipantsPE DEF Hyp, Clean, IrqKinds
<1>0. UNCHANGED <<status, ran, cur, irq>> /\ pc = "irqwait" /\ pc' \in {"irqwait", "check"}
  <2>1. cur \in Tests /\ Kind[cur] \notin {"irqv2m", "irqpend"}
    BY DEF WaitForInterrupt, Bounds, NoLooseIrq, V2mKinds
  <2> QED BY <2>1 DEF WaitForInterrupt
<1>1. ActiveIsCurrent'
  BY <1>0 DEF WaitForInterrupt, ActiveIsCurrent, Active, secVars
<1>2. NotStarted'
  BY <1>0 DEF WaitForInterrupt, NotStarted
<1>3. ArmedIsCurrent'
  BY <1>0 DEF WaitForInterrupt, ArmedIsCurrent, IsPending, Status, NoLooseIrq, V2mKinds, Bounds
<1>4. ResultIsStatus'
  BY <1>0 DEF ResultIsStatus
<1>5. PassIsResult'
  BY <1>0 DEF WaitForInterrupt, PassIsResult
<1>6. Initialised'
  BY <1>0 DEF WaitForInterrupt, Initialised
<1>7. ScanProgress'
  BY <1>0 DEF WaitForInterrupt, ScanProgress, NumPeOf, Bounds
<1>8. VerdictEvidence'
  BY <1>0 DEF WaitForInterrupt, VerdictEvidence
<1> QED BY <1>1, <1>2, <1>3, <1>4, <1>5, <1>6, <1>7, <1>8

(* An unexpected exception ends the suite and leaves no PE active.         *)
LEMMA CleanUnexpectedException ==
  ASSUME Hyp, UnexpectedException PROVE Clean'
<1> USE HarnessAssumption, ParticipantsPE DEF Hyp, Clean
<1>1. ActiveIsCurrent'
  BY DEF UnexpectedException, ActiveIsCurrent, Active, secVars
<1>2. NotStarted'
  BY DEF UnexpectedException, NotStarted
<1>3. ArmedIsCurrent'
  BY DEF UnexpectedException, ArmedIsCurrent
<1>4. ResultIsStatus'
  <2> SUFFICES ASSUME NEW t \in Tests, NEW p \in PE, NEW r \in Results, <<t, p, r>> \in ran
               PROVE  t <= cur /\ (t = cur => status'[p] = Status(r, cur))
    BY DEF UnexpectedException, ResultIsStatus, loop, history
  <2>1. t < cur
    BY DEF UnexpectedException, ResultIsStatus
  <2>2. t \in Int /\ cur \in Int
    BY DEF Tests, TypeOK
  <2> HIDE HarnessAssumption, ParticipantsPE DEF Hyp, Clean
  <2> QED
    BY <2>1, <2>2
<1>5. PassIsResult'
  BY DEF UnexpectedException, PassIsResult
<1>6. Initialised'
  BY DEF UnexpectedException, Initialised
<1>7. ScanProgress'
  BY DEF UnexpectedException, ScanProgress
<1>8. VerdictEvidence'
  BY DEF UnexpectedException, VerdictEvidence, loop, history
<1> QED BY <1>1, <1>2, <1>3, <1>4, <1>5, <1>6, <1>7, <1>8

(* val_set_test_data stores the current payload for a PE that has not been *)
(* started.                                                                *)
LEMMA CleanSetTestData ==
  ASSUME Hyp, SetTestData PROVE Clean'
<1> USE HarnessAssumption, ParticipantsPE DEF Hyp, Clean
<1>1. ActiveIsCurrent'
  BY DEF SetTestData, ActiveIsCurrent, Active, ScanProgress, TypeOK, AfterLaunch, secVars, PE
<1>2. NotStarted'
  BY DEF SetTestData, NotStarted, TypeOK, AfterLaunch, PE, Tests
<1>3. ArmedIsCurrent'
  BY DEF SetTestData, ArmedIsCurrent
<1>4. ResultIsStatus'
  BY DEF SetTestData, ResultIsStatus, AfterLaunch, history
<1>5. PassIsResult'
  BY DEF SetTestData, PassIsResult, history
<1>6. Initialised'
  BY DEF SetTestData, Initialised
<1>7. ScanProgress'
  <2>1. CASE idx = NumPe /\ Kind[cur] = "remote"
    <3>1. pc' = "check" /\ idx' = 0 /\ UNCHANGED status
      BY <2>1 DEF SetTestData, AfterLaunch, PE
    <3>2. \A p \in Participants(cur) : ~IsPending(p)
      BY <2>1 DEF SetTestData, ScanProgress, Participants, Bounds, PE
    <3> QED
      BY <2>1, <3>1, <3>2 DEF SetTestData, ScanProgress, IsPending, PE
  <2>2. CASE idx = NumPe /\ Kind[cur] # "remote"
    BY <2>2 DEF SetTestData, AfterLaunch, ScanProgress, IsPending, PE, Bounds
  <2>3. CASE idx # NumPe
    <3>1. pc = "launch" /\ pc' \in {"launch", "smc"} /\ UNCHANGED <<status, cur>>
      BY <2>3 DEF SetTestData, PE
    <3>2. idx' = idx \/ (idx = MainPe /\ idx' = idx + 1)
      BY <2>3 DEF SetTestData
    <3>3. idx \in Int /\ MainPe \in Int
      BY DEF TypeOK, PE
    <3> QED BY <2>3, <3>1, <3>2, <3>3 DEF ScanProgress, IsPending, PE
  <2> QED BY <2>1, <2>2, <2>3
<1>8. VerdictEvidence'
  BY DEF SetTestData, VerdictEvidence, history
<1> QED BY <1>1, <1>2, <1>3, <1>4, <1>5, <1>6, <1>7, <1>8

(* PSCI_CPU_ON: the PE that starts has the current payload in data0 and a  *)
(* pending status; one that does not start is marked as failed.            *)
LEMMA CleanExecuteOnPe ==
  ASSUME Hyp, ExecuteOnPe PROVE Clean'
<1> USE HarnessAssumption, ParticipantsPE DEF Hyp, Clean
<1>1. /\ pc = "smc" /\ idx \in PE /\ idx # MainPe
      /\ Kind[cur] \in {"all", "remote"} /\ NumPe # 1
      /\ UNCHANGED <<data, vector, cur, irq, ran, verdict>>
  BY DEF ExecuteOnPe, Bounds, history
<1>2. status[idx] = Status("PENDING", cur) /\ data[idx] = cur
  BY <1>1 DEF NotStarted, PE
<1>3. ~Active(idx)
  BY <1>1 DEF ActiveIsCurrent, PE
<1>4. power[idx] \in {"off", "exit"}
  BY <1>1, <1>3 DEF Active, TypeOK, Powers
<1>5. irq = {}
  BY <1>1 DEF ArmedIsCurrent
(* ALREADY_ON and another attempt. *)
<1>6. CASE pc' = "launch" /\ UNCHANGED <<status, power, idx, last, polls>>
  <2>1. ActiveIsCurrent'
    BY <1>1, <1>6 DEF ActiveIsCurrent, Active
  <2>2. NotStarted'
    BY <1>1, <1>6 DEF NotStarted
  <2>3. ArmedIsCurrent'
    BY <1>1, <1>5 DEF ArmedIsCurrent
  <2>4. ResultIsStatus'
    BY <1>1, <1>6 DEF ResultIsStatus
  <2>5. PassIsResult'
    BY <1>1, <1>6 DEF PassIsResult
  <2>6. Initialised'
    BY <1>1, <1>6 DEF Initialised
  <2>7. ScanProgress'
    BY <1>1, <1>6 DEF ScanProgress, IsPending
  <2>8. VerdictEvidence'
    BY <1>1, <1>6 DEF VerdictEvidence
  <2> QED BY <2>1, <2>2, <2>3, <2>4, <2>5, <2>6, <2>7, <2>8
(* The PE was started, or it is marked as failed. *)
<1>7. CASE ~(pc' = "launch" /\ UNCHANGED <<status, power, idx, last, polls>>)
  <2>1. /\ Kind[cur] = "remote" => pc' = "rwait" /\ idx' = idx
        /\ Kind[cur] # "remote" => pc' = "launch" /\ idx' = idx + 1
        /\ last' = last
    BY <1>7 DEF ExecuteOnPe, AfterExecute
  <2>2. \/ /\ status' = status
           /\ power' = [power EXCEPT ![idx] = "booting"]
        \/ /\ status' = [status EXCEPT ![idx] = Status("FAIL", NoTest)]
           /\ power' = power
    BY <1>7 DEF ExecuteOnPe, SetStatus
  <2>3. /\ \A p \in PE \ {idx} : status'[p] = status[p] /\ power'[p] = power[p]
        /\ status'[idx] \in {Status("PENDING", cur), Status("FAIL", NoTest)}
        /\ power'[idx] \in {"off", "exit", "booting"}
        /\ power'[idx] = "booting" => status'[idx] = Status("PENDING", cur)
    BY <1>1, <1>2, <1>4, <2>2 DEF TypeOK
  <2>4. ActiveIsCurrent'
    <3> SUFFICES ASSUME NEW p \in PE, Active(p)'
                 PROVE  /\ status'[p] = Status("PENDING", cur)
                        /\ power'[p] \in {"booting", "entry"} => data[p] = cur
                        /\ power'[p] \in {"run", "report", "lost"} => vector[p] = cur
                        /\ Kind[cur] = "remote" => p = idx
                        /\ Kind[cur] # "remote" => p < idx + 1
      BY <1>1, <2>1 DEF ActiveIsCurrent
    <3>1. CASE p = idx
      BY <1>1, <1>2, <2>3, <3>1 DEF Active, PE
    <3>2. CASE p # idx
      BY <1>1, <2>3, <3>2 DEF Active, ActiveIsCurrent, PE
    <3> QED BY <3>1, <3>2
  <2>5. NotStarted'
    BY <1>1, <2>1, <2>3 DEF NotStarted, PE
  <2>6. ArmedIsCurrent'
    BY <1>1, <1>5 DEF ArmedIsCurrent
  <2>7. ResultIsStatus'
    <3> SUFFICES ASSUME NEW t \in Tests, NEW p \in PE, NEW r \in Results, <<t, p, r>> \in ran
                 PROVE  t <= cur /\ (t = cur => status'[p] = Status(r, cur))
      BY <1>1, <2>1 DEF ResultIsStatus
    <3>1. t <= cur /\ (t = cur => status[p] = Status(r, cur))
      BY DEF ResultIsStatus
    <3>2. Status("PENDING", cur) # Status(r, cur)
      BY DEF Status, Results
    <3> QED
      BY <1>2, <2>3, <3>1, <3>2
  <2>8. PassIsResult'
    <3> SUFFICES ASSUME NEW p \in Participants(cur), status'[p].state = "PASS"
                 PROVE  <<cur, p, "PASS">> \in ran
      BY <1>1 DEF PassIsResult
    <3>1. p \in PE
      BY <1>1 DEF Bounds
    <3>2. p # idx
      BY <2>3 DEF Status
    <3> QED
      BY <1>1, <2>3, <3>1, <3>2 DEF PassIsResult
  <2>9. Initialised'
    BY <1>1, <2>3 DEF Initialised, Status
  <2>10. ScanProgress'
    <3>1. \A p \in PE \ {idx} : IsPending(p)' = IsPending(p)
      BY <2>3 DEF IsPending
    <3> QED
      BY <1>1, <2>1, <3>1 DEF ScanProgress, PE
  <2>11. VerdictEvidence'
    BY <1>1 DEF VerdictEvidence
  <2> QED BY <2>4, <2>5, <2>6, <2>7, <2>8, <2>9, <2>10, <2>11
<1> QED BY <1>6, <1>7

(* os_c001 goes on only when the PE it waits for has reported.             *)
LEMMA CleanRemoteWait ==
  ASSUME Hyp, RemoteWait PROVE Clean'
<1> USE HarnessAssumption, ParticipantsPE DEF Hyp, Clean
<1>1. ActiveIsCurrent'
  <2>1. UNCHANGED <<status, power, data, vector, cur, idx>>
    BY DEF RemoteWait, secVars
  <2>2. pc' # "rwait" => ~IsPending(idx)
    BY DEF RemoteWait
  <2> QED
    BY <2>1, <2>2 DEF RemoteWait, ActiveIsCurrent, Active, IsPending, Status, Bounds
<1>2. NotStarted'
  BY DEF RemoteWait, NotStarted
<1>3. ArmedIsCurrent'
  BY DEF RemoteWait, ArmedIsCurrent
<1>4. ResultIsStatus'
  <2>1. UNCHANGED <<status, ran, cur>> /\ pc = "rwait" /\ pc' # "payload" /\ pc' # "init"
    BY DEF RemoteWait
  <2> QED
    BY <2>1 DEF ResultIsStatus
<1>5. PassIsResult'
  BY DEF RemoteWait, PassIsResult
<1>6. Initialised'
  BY DEF RemoteWait, Initialised
<1>7. ScanProgress'
  BY DEF RemoteWait, ScanProgress, IsPending
<1>8. VerdictEvidence'
  BY DEF RemoteWait, VerdictEvidence
<1> QED BY <1>1, <1>2, <1>3, <1>4, <1>5, <1>6, <1>7, <1>8

(* os_c001 moves to the next PE with nothing left of the previous one.     *)
LEMMA CleanRemoteCheck ==
  ASSUME Hyp, RemoteCheck PROVE Clean'
<1> USE HarnessAssumption, ParticipantsPE DEF Hyp, Clean
<1>1. ActiveIsCurrent'
  BY DEF RemoteCheck, ActiveIsCurrent, Active, shared, secVars
<1>2. NotStarted'
  BY DEF RemoteCheck, NotStarted, Bounds, shared, PE
<1>3. ArmedIsCurrent'
  BY DEF RemoteCheck, ArmedIsCurrent, shared
<1>4. ResultIsStatus'
  BY DEF RemoteCheck, ResultIsStatus, shared, history
<1>5. PassIsResult'
  BY DEF RemoteCheck, PassIsResult, shared, history
<1>6. Initialised'
  BY DEF RemoteCheck, Initialised, shared
<1>7. ScanProgress'
  BY DEF RemoteCheck, ScanProgress, IsPending, Bounds, shared, PE
<1>8. VerdictEvidence'
  BY DEF RemoteCheck, VerdictEvidence, shared, history
<1> QED BY <1>1, <1>2, <1>3, <1>4, <1>5, <1>6, <1>7, <1>8

(* The scan remembers a pending PE, so an empty last means none before idx *)
(* is pending.                                                             *)
LEMMA CleanScanStatus ==
  ASSUME Hyp, ScanStatus PROVE Clean'
<1> USE HarnessAssumption, ParticipantsPE DEF Hyp, Clean
<1>1. ActiveIsCurrent'
  BY DEF ScanStatus, ActiveIsCurrent, Active, shared, secVars
<1>2. NotStarted'
  BY DEF ScanStatus, NotStarted, shared
<1>3. ArmedIsCurrent'
  BY DEF ScanStatus, ArmedIsCurrent, shared
<1>4. ResultIsStatus'
  BY DEF ScanStatus, ResultIsStatus, shared, history
<1>5. PassIsResult'
  BY DEF ScanStatus, PassIsResult, shared, history
<1>6. Initialised'
  BY DEF ScanStatus, Initialised, shared
<1>7. ScanProgress'
  BY DEF ScanStatus, ScanProgress, IsPending, TypeOK, shared, PE
<1>8. VerdictEvidence'
  BY DEF ScanStatus, VerdictEvidence, shared, history
<1> QED BY <1>1, <1>2, <1>3, <1>4, <1>5, <1>6, <1>7, <1>8

(* val_wait_for_test_completion ends without expiring only when nobody was *)
(* pending.                                                                *)
LEMMA CleanScanEnd ==
  ASSUME Hyp, ScanEnd PROVE Clean'
<1> USE HarnessAssumption, ParticipantsPE DEF Hyp, Clean
<1>1. ActiveIsCurrent'
  <2>1. UNCHANGED <<status, power, data, vector, cur>>
    BY DEF ScanEnd, secVars
  <2>2. pc' # "scan" => \A p \in PE : ~IsPending(p)
    BY DEF ScanEnd, ScanProgress, PE
  <2> QED
    BY <2>1, <2>2 DEF ScanEnd, ActiveIsCurrent, Active, IsPending, Status, Bounds
<1>2. NotStarted'
  BY DEF ScanEnd, NotStarted
<1>3. ArmedIsCurrent'
  BY DEF ScanEnd, ArmedIsCurrent
<1>4. ResultIsStatus'
  <2>1. UNCHANGED <<status, ran, cur>> /\ pc = "scan" /\ pc' # "payload" /\ pc' # "init"
    BY DEF ScanEnd
  <2> QED
    BY <2>1 DEF ResultIsStatus
<1>5. PassIsResult'
  BY DEF ScanEnd, PassIsResult
<1>6. Initialised'
  BY DEF ScanEnd, Initialised
<1>7. ScanProgress'
  BY DEF ScanEnd, ScanProgress, IsPending, Bounds, PE
<1>8. VerdictEvidence'
  BY DEF ScanEnd, VerdictEvidence
<1> QED BY <1>1, <1>2, <1>3, <1>4, <1>5, <1>6, <1>7, <1>8

(* val_check_for_error counts a pass only when every participant has       *)
(* passed.                                                                 *)
LEMMA CleanCheckForError ==
  ASSUME Hyp, CheckForError PROVE Clean'
<1> USE HarnessAssumption, ParticipantsPE DEF Hyp, Clean
<1>1. ActiveIsCurrent'
  BY DEF CheckForError, ActiveIsCurrent, Active, Conclude, Verdict, shared, secVars
<1>2. NotStarted'
  BY DEF CheckForError, NotStarted, Conclude, Verdict, shared
<1>3. ArmedIsCurrent'
  BY DEF CheckForError, ArmedIsCurrent, Conclude, Verdict, shared
<1>4. ResultIsStatus'
  <2> SUFFICES ASSUME NEW t \in Tests, NEW p \in PE, NEW r \in Results, <<t, p, r>> \in ran
               PROVE  /\ t <= cur'
                      /\ pc' \in {"init", "payload"} => t < cur'
                      /\ t = cur' => status[p] = Status(r, cur')
    BY DEF CheckForError, ResultIsStatus, shared
  <2>1. t <= cur /\ (t = cur => status[p] = Status(r, cur))
    BY DEF ResultIsStatus
  <2>2. \/ cur' = cur + 1
        \/ cur' = cur /\ pc' = "check"
    BY DEF CheckForError, Conclude
  <2>3. t \in Int /\ cur \in Int
    BY DEF TypeOK, Tests
  <2>4. CASE cur' = cur + 1
    BY <2>1, <2>3, <2>4
  <2>5. CASE cur' = cur /\ pc' = "check"
    BY <2>1, <2>5
  <2> QED
    BY <2>2, <2>4, <2>5
<1>5. PassIsResult'
  BY DEF CheckForError, PassIsResult, Conclude, Verdict, shared
<1>6. Initialised'
  BY DEF CheckForError, Initialised, Conclude, Verdict, shared
<1>7. ScanProgress'
  BY DEF CheckForError, ScanProgress, IsPending, Bounds, Conclude, Verdict, shared, PE
<1>8. VerdictEvidence'
  <2>1. CASE UNCHANGED <<verdict, cur>>
    BY <2>1 DEF CheckForError, VerdictEvidence
  <2>2. ASSUME NEW s, Conclude(s), UNCHANGED ran,
               s.state = "PASS" => \A p \in Participants(cur) : <<cur, p, "PASS">> \in ran
        PROVE  VerdictEvidence'
    <3>1. cur' = cur + 1 /\ verdict' = [verdict EXCEPT ![cur] = Verdict(s)] /\ cur \in Tests
      BY <2>2 DEF Conclude, CheckForError, Bounds
    <3>2. \A t \in Tests : t # cur => verdict'[t] = verdict[t]
      BY <3>1 DEF TypeOK
    <3>3. verdict'[cur] = "PASS" => s.state = "PASS"
      BY <3>1 DEF TypeOK, Verdict
    <3>4. \A p \in PE : <<cur, p, "PASS">> \in ran => <<cur, p, "FAIL">> \notin ran
      <4>1. \A p \in PE, r \in Results : <<cur, p, r>> \in ran => status[p] = Status(r, cur)
        BY <3>1 DEF ResultIsStatus
      <4>2. "PASS" \in Results /\ "FAIL" \in Results /\ Status("PASS", cur) # Status("FAIL",
             cur)
        BY DEF Results, Status
      <4> QED BY <4>1, <4>2
    <3> QED
      BY <2>2, <3>1, <3>2, <3>3, <3>4 DEF VerdictEvidence, Tests
  <2>3. CASE NumPeOf(cur) = 1 /\ Conclude(status[MainPe])
    <3>1. Participants(cur) = {MainPe}
      BY <2>3 DEF Participants, NumPeOf, CheckForError, Bounds, PE
    <3> QED
      BY <2>2, <2>3, <3>1 DEF CheckForError, PassIsResult
  <2>4. CASE NumPeOf(cur) # 1 /\ Conclude(status[idx])
    <3>1. ASSUME status[idx].state = "PASS", NEW p \in Participants(cur)
          PROVE  <<cur, p, "PASS">> \in ran
      <4>1. pc = "check" /\ cur \in Tests /\ idx = NumPe - 1 /\ p \in PE
        BY <2>4, <3>1 DEF CheckForError, Bounds, Conclude
      <4>2. \A q \in PE : status[q].state \notin {"FAIL", "SKIP"}
        BY <2>4, <3>1, <4>1 DEF ScanProgress, PE
      <4>3. ~IsPending(p)
        BY <2>4, <4>1, <4>2 DEF ScanProgress
      <4>4. status[p].state = "PASS"
        BY <2>4, <4>1, <4>2, <4>3 DEF Initialised, IsPending, TypeOK, States, Results
      <4> QED
        BY <4>1, <4>4 DEF PassIsResult
    <3> QED
      BY <2>2, <2>4, <3>1 DEF CheckForError
  <2> QED
    BY <2>1, <2>3, <2>4 DEF CheckForError
<1> QED BY <1>1, <1>2, <1>3, <1>4, <1>5, <1>6, <1>7, <1>8

(* The ISR reports for the test that is waiting for it.                    *)
LEMMA CleanIsr ==
  ASSUME NEW t0 \in Tests, Hyp, Isr(t0) PROVE Clean'
<1> USE HarnessAssumption, ParticipantsPE DEF Hyp, Clean, IrqKinds
<1>1. t0 = cur /\ pc = "irqwait" /\ status[MainPe] = Status("PENDING", cur)
  BY DEF Isr, ArmedIsCurrent
<1>2. /\ UNCHANGED <<data, power, vector, pc, cur, idx, last, verdict>>
      /\ status' = [status EXCEPT ![MainPe] = Status("PASS", cur)]
      /\ ran' = ran \cup {<<cur, MainPe, "PASS">>}
      /\ irq' = irq \ {cur}
  BY <1>1 DEF Isr, SetStatus, secVars, loop
<1>3. /\ status'[MainPe] = Status("PASS", cur)
      /\ \A p \in PE \ {MainPe} : status'[p] = status[p]
  BY <1>2 DEF TypeOK
<1>4. ActiveIsCurrent'
  BY <1>1, <1>2 DEF ActiveIsCurrent, Active
<1>5. NotStarted' /\ ScanProgress'
  BY <1>1, <1>2 DEF NotStarted, ScanProgress
<1>6. ArmedIsCurrent'
  BY <1>1, <1>2 DEF ArmedIsCurrent
<1>7. ResultIsStatus'
  <2> SUFFICES ASSUME NEW t \in Tests, NEW p \in PE, NEW r \in Results, <<t, p, r>> \in ran'
               PROVE  t <= cur /\ (t = cur => status'[p] = Status(r, cur))
    BY <1>1, <1>2 DEF ResultIsStatus
  <2>1. CASE <<t, p, r>> \in ran
    <3>1. t <= cur /\ (t = cur => status[p] = Status(r, cur))
      BY <2>1 DEF ResultIsStatus
    <3>2. Status("PENDING", cur) # Status(r, cur)
      BY DEF Status, Results
    <3> QED BY <1>1, <1>3, <3>1, <3>2
  <2>2. CASE <<t, p, r>> \notin ran
    BY <1>1, <1>2, <1>3, <2>2 DEF Tests
  <2> QED BY <2>1, <2>2
<1>8. Participants(cur) = {MainPe} /\ NumPeOf(cur) = 1
  BY <1>1 DEF Bounds, Participants, NumPeOf
<1>9. PassIsResult' /\ Initialised'
  BY <1>2, <1>8 DEF PassIsResult, Initialised
<1>10. VerdictEvidence'
  <2> SUFFICES ASSUME NEW t \in Tests, verdict[t] # "NONE"
               PROVE  /\ t < cur
                      /\ verdict[t] = "PASS" => \A p \in Participants(t) :
                           <<t, p, "PASS">> \in ran' /\ <<t, p, "FAIL">> \notin ran'
    BY <1>2 DEF VerdictEvidence
  <2>1. t < cur
    BY DEF VerdictEvidence
  <2> QED
    BY <1>2, <2>1 DEF VerdictEvidence, Tests
<1> QED BY <1>4, <1>5, <1>6, <1>7, <1>9, <1>10

(* A secondary PE writes the result of its payload. *)
LEMMA CleanReport ==
  ASSUME NEW q \in PE, NEW r0 \in Results, Hyp, q # MainPe, power[q] \in {"run", "report"},
         status' = [status EXCEPT ![q] = Status(r0, vector[q])],
         ran' = ran \cup {<<vector[q], q, r0>>},
         power' = [power EXCEPT ![q] = "exit"],
         UNCHANGED <<data, vector, pc, cur, idx, last, irq, verdict>>
  PROVE  Clean'
<1> USE HarnessAssumption, ParticipantsPE DEF Hyp, Clean
<1>1. Active(q)
  BY DEF Active
<1>2. /\ pc \in {"launch", "smc", "rwait", "scan"}
      /\ status[q] = Status("PENDING", cur) /\ vector[q] = cur
      /\ Kind[cur] = "remote" => pc = "rwait" /\ q = idx
      /\ pc \in {"launch", "smc"} => q < idx
  BY <1>1 DEF ActiveIsCurrent
<1>c. cur \in Tests /\ irq = {}
  BY <1>2 DEF Bounds, ArmedIsCurrent
<1>3. ran' = ran \cup {<<cur, q, r0>>}
  BY <1>2
<1>4. /\ \A p \in PE \ {q} : status'[p] = status[p] /\ power'[p] = power[p]
      /\ status'[q] = Status(r0, cur) /\ power'[q] = "exit"
  BY <1>2 DEF TypeOK
<1>5. ~Active(q)' /\ \A p \in PE \ {q} : Active(p)' = Active(p)
  BY <1>3, <1>4 DEF Active
<1>6. ~IsPending(q)' /\ \A p \in PE \ {q} : IsPending(p)' = IsPending(p)
  BY <1>4 DEF IsPending, Status, Results
<1>7. ActiveIsCurrent'
  BY <1>1, <1>3, <1>4, <1>5 DEF ActiveIsCurrent
<1>8. NotStarted'
  <2>1. /\ pc \in {"launch", "smc"} => \A p \in PE : p >= idx => p # q
        /\ pc = "rwait" => q = idx
        /\ pc \notin {"payload", "rcheck"}
    BY <1>2 DEF Bounds, PE, TypeOK
  <2>2. pc = "rwait" => \A p \in PE : p > idx => p # q
    BY <2>1 DEF PE
  <2> QED
    BY <1>4, <2>1, <2>2 DEF NotStarted
<1>9. ArmedIsCurrent'
  BY <1>1, <1>c DEF ArmedIsCurrent
<1>10. ResultIsStatus'
  <2> SUFFICES ASSUME NEW t \in Tests, NEW p \in PE, NEW r \in Results, <<t, p, r>> \in ran'
               PROVE  t <= cur /\ (t = cur => status'[p] = Status(r, cur))
    BY <1>1, <1>2 DEF ResultIsStatus
  <2>1. CASE <<t, p, r>> \in ran
    <3>1. t <= cur /\ (t = cur => status[p] = Status(r, cur))
      BY <2>1 DEF ResultIsStatus
    <3>2. Status("PENDING", cur) # Status(r, cur)
      BY DEF Status, Results
    <3> QED BY <1>2, <1>4, <3>1, <3>2
  <2>2. CASE <<t, p, r>> \notin ran
    BY <1>3, <1>4, <1>c, <2>2 DEF Tests
  <2> QED BY <2>1, <2>2
<1>11. PassIsResult'
  <2> SUFFICES ASSUME NEW p \in Participants(cur), status'[p].state = "PASS"
               PROVE  <<cur, p, "PASS">> \in ran'
    BY <1>1 DEF PassIsResult
  <2>1. CASE p = q
    BY <1>3, <1>4, <2>1 DEF Status
  <2>2. CASE p # q
    BY <1>2, <1>3, <1>4, <1>c, <2>2 DEF PassIsResult
  <2> QED BY <2>1, <2>2
<1>12. Initialised'
  BY <1>1, <1>2, <1>4 DEF Initialised, Status, Results
<1>13. ScanProgress'
  BY <1>1, <1>2, <1>6 DEF ScanProgress, PE
<1>14. VerdictEvidence'
  <2> SUFFICES ASSUME NEW t \in Tests, verdict[t] # "NONE", NEW p \in Participants(t)
               PROVE  t < cur /\ (verdict[t] = "PASS" => <<t, p, "PASS">> \in ran' /\ <<t, p,
                      "FAIL">> \notin ran')
    BY <1>1, <1>3 DEF VerdictEvidence, Participants
  <2>1. t < cur /\ (verdict[t] = "PASS" => <<t, p, "PASS">> \in ran /\ <<t, p,
         "FAIL">> \notin ran)
    BY DEF VerdictEvidence
  <2> QED
    BY <1>3, <1>c, <2>1 DEF Tests
<1> QED BY <1>7, <1>8, <1>9, <1>10, <1>11, <1>12, <1>13, <1>14

(* Firmware brings up a PE that already belongs to the current test.       *)
LEMMA CleanBoot ==
  ASSUME NEW q \in PE, Hyp, Boot(q) PROVE Clean'
<1> USE HarnessAssumption, ParticipantsPE DEF Hyp, Clean
<1>1. ActiveIsCurrent'
  BY DEF Boot, ActiveIsCurrent, Active, shared, loop
<1>2. NotStarted'
  BY DEF Boot, NotStarted, shared, loop
<1>3. ArmedIsCurrent'
  BY DEF Boot, ArmedIsCurrent, shared, loop
<1>4. ResultIsStatus'
  BY DEF Boot, ResultIsStatus, shared, loop, history
<1>5. PassIsResult'
  BY DEF Boot, PassIsResult, shared, loop, history
<1>6. Initialised'
  BY DEF Boot, Initialised, shared, loop
<1>7. ScanProgress'
  BY DEF Boot, ScanProgress, IsPending, shared, loop
<1>8. VerdictEvidence'
  BY DEF Boot, VerdictEvidence, shared, loop, history
<1> QED BY <1>1, <1>2, <1>3, <1>4, <1>5, <1>6, <1>7, <1>8

(* val_test_entry finds the current payload in data0.                      *)
LEMMA CleanGetTestData ==
  ASSUME NEW q \in PE, Hyp, GetTestData(q) PROVE Clean'
<1> USE HarnessAssumption, ParticipantsPE DEF Hyp, Clean
<1>1. ActiveIsCurrent'
  BY DEF GetTestData, ActiveIsCurrent, Active, TypeOK, shared, loop
<1>2. NotStarted'
  BY DEF GetTestData, NotStarted, shared, loop
<1>3. ArmedIsCurrent'
  BY DEF GetTestData, ArmedIsCurrent, shared, loop
<1>4. ResultIsStatus'
  BY DEF GetTestData, ResultIsStatus, shared, loop, history
<1>5. PassIsResult'
  BY DEF GetTestData, PassIsResult, shared, loop, history
<1>6. Initialised'
  BY DEF GetTestData, Initialised, shared, loop
<1>7. ScanProgress'
  BY DEF GetTestData, ScanProgress, IsPending, shared, loop
<1>8. VerdictEvidence'
  BY DEF GetTestData, VerdictEvidence, shared, loop, history
<1> QED BY <1>1, <1>2, <1>3, <1>4, <1>5, <1>6, <1>7, <1>8

(* The payload on a secondary PE reports, or leaves the debug value in its *)
(* own data0.                                                              *)
LEMMA CleanRunPayload ==
  ASSUME NEW q \in PE, Hyp, RunPayload(q) PROVE Clean'
<1> USE HarnessAssumption, ParticipantsPE DEF Hyp, Clean
<1>1. UNCHANGED <<vector, pc, cur, idx, last, irq, verdict>> /\ q # MainPe /\ power[q] = "run"
  BY DEF RunPayload, loop
(* id_regs_check has found a difference and is about to report it. *)
<1>2. CASE power' = [power EXCEPT ![q] = "report"] /\ UNCHANGED <<status, ran>>
  <2>1. /\ Active(q) /\ pc \in {"launch", "smc", "rwait", "scan"}
        /\ pc \in {"launch", "smc"} => q < idx
    BY <1>1 DEF Active, ActiveIsCurrent
  <2>2. /\ \A p \in PE : power'[p] = IF p = q THEN "report" ELSE power[p]
        /\ \A p \in PE \ {q} : data'[p] = data[p]
    BY <1>2 DEF RunPayload, TypeOK
  <2>3. ActiveIsCurrent'
    BY <1>1, <1>2, <2>1, <2>2 DEF ActiveIsCurrent, Active
  <2>4. NotStarted'
    BY <1>1, <1>2, <2>1, <2>2 DEF NotStarted, PE, Bounds
  <2>5. ArmedIsCurrent' /\ ResultIsStatus' /\ PassIsResult' /\ Initialised'
    BY <1>1, <1>2 DEF ArmedIsCurrent, ResultIsStatus, PassIsResult, Initialised
  <2>6. ScanProgress' /\ VerdictEvidence'
    BY <1>1, <1>2 DEF ScanProgress, IsPending, VerdictEvidence
  <2> QED BY <2>3, <2>4, <2>5, <2>6
<1>3. CASE ~(power' = [power EXCEPT ![q] = "report"] /\ UNCHANGED <<status, ran>>)
  <2>1. PICK r0 \in Results :
          /\ status' = [status EXCEPT ![q] = Status(r0, vector[q])]
          /\ ran' = ran \cup {<<vector[q], q, r0>>}
          /\ power' = [power EXCEPT ![q] = "exit"]
          /\ data' = data
    BY <1>3 DEF RunPayload, SetStatus, Results
  <2> QED
    BY <1>1, <2>1, CleanReport
<1> QED BY <1>2, <1>3

(* os_c001's report of a difference on a secondary PE.                     *)
LEMMA CleanReportFailure ==
  ASSUME NEW q \in PE, Hyp, ReportFailure(q) PROVE Clean'
<1>1. q # MainPe
  BY DEF ReportFailure, Hyp, Bounds
<1> QED
  BY <1>1, CleanReport DEF ReportFailure, SetStatus, loop, Results

(* A PE that hangs stays pending, and active.                              *)
LEMMA CleanHang ==
  ASSUME NEW q \in PE, Hyp, Hang(q) PROVE Clean'
<1> USE HarnessAssumption, ParticipantsPE DEF Hyp, Clean
<1>1. ActiveIsCurrent'
  BY DEF Hang, ActiveIsCurrent, Active, shared, loop
<1>2. NotStarted'
  BY DEF Hang, NotStarted, shared, loop
<1>3. ArmedIsCurrent'
  BY DEF Hang, ArmedIsCurrent, shared, loop
<1>4. ResultIsStatus'
  BY DEF Hang, ResultIsStatus, shared, loop, history
<1>5. PassIsResult'
  BY DEF Hang, PassIsResult, shared, loop, history
<1>6. Initialised'
  BY DEF Hang, Initialised, shared, loop
<1>7. ScanProgress'
  BY DEF Hang, ScanProgress, IsPending, shared, loop
<1>8. VerdictEvidence'
  BY DEF Hang, VerdictEvidence, shared, loop, history
<1> QED BY <1>1, <1>2, <1>3, <1>4, <1>5, <1>6, <1>7, <1>8

(* A PE that switches itself off has reported before.                      *)
LEMMA CleanCpuOff ==
  ASSUME NEW q \in PE, Hyp, CpuOff(q) PROVE Clean'
<1> USE HarnessAssumption, ParticipantsPE DEF Hyp, Clean
<1>1. ActiveIsCurrent'
  BY DEF CpuOff, ActiveIsCurrent, Active, shared, loop
<1>2. NotStarted'
  BY DEF CpuOff, NotStarted, shared, loop
<1>3. ArmedIsCurrent'
  BY DEF CpuOff, ArmedIsCurrent, shared, loop
<1>4. ResultIsStatus'
  BY DEF CpuOff, ResultIsStatus, shared, loop, history
<1>5. PassIsResult'
  BY DEF CpuOff, PassIsResult, shared, loop, history
<1>6. Initialised'
  BY DEF CpuOff, Initialised, shared, loop
<1>7. ScanProgress'
  BY DEF CpuOff, ScanProgress, IsPending, shared, loop
<1>8. VerdictEvidence'
  BY DEF CpuOff, VerdictEvidence, shared, loop, history
<1> QED BY <1>1, <1>2, <1>3, <1>4, <1>5, <1>6, <1>7, <1>8

(* The inductive step, by cases on the actions of Next.                    *)
LEMMA CleanStep == HarnessInv /\ NoLooseIrq /\ [Next]_vars => HarnessInv'
<1> SUFFICES ASSUME TypeOK, Bounds, ~timedOut => Clean, NoLooseIrq, [Next]_vars
             PROVE  TypeOK' /\ Bounds' /\ (~timedOut' => Clean')
  BY DEF HarnessInv
<1>1. TypeOK' /\ Bounds'
  BY TypeInvStep DEF TypeInv
<1>2. timedOut => timedOut'
  BY Zenon DEF Next, Main, Secondary, InitializeTest, RunPayloadOnMain, RemotePayload,
         ArmInterrupt,
     WaitForInterrupt, UnexpectedException, SetTestData, ExecuteOnPe, RemoteWait, RemoteCheck,
     ScanStatus, ScanEnd, CheckForError, Isr, Boot, GetTestData, RunPayload, ReportFailure,
     Hang, CpuOff, history, vars
<1>3. ASSUME ~timedOut' PROVE Clean'
  <2>1. Hyp
    BY <1>1, <1>2, <1>3 DEF Hyp
  <2>2. ASSUME Main PROVE Clean'
    BY <2>1, <2>2, CleanInitializeTest, CleanRunPayloadOnMain, CleanRemotePayload,
       CleanArmInterrupt, CleanWaitForInterrupt, CleanUnexpectedException, CleanSetTestData,
       CleanExecuteOnPe, CleanRemoteWait, CleanRemoteCheck, CleanScanStatus, CleanScanEnd,
       CleanCheckForError DEF Main
  <2>3. ASSUME NEW p \in PE, Secondary(p) PROVE Clean'
    BY <2>1, <2>3, CleanBoot, CleanGetTestData, CleanRunPayload, CleanReportFailure, CleanHang,
       CleanCpuOff DEF Secondary
  <2>4. ASSUME NEW t \in Tests, Isr(t) PROVE Clean'
    BY <2>1, <2>4, CleanIsr
  <2>5. CASE UNCHANGED vars
    <3>1. Clean
      BY <2>1 DEF Hyp
    <3> QED
      BY <2>5, <3>1 DEF vars, shared, secVars, loop, counts, history, Clean, ActiveIsCurrent,
             Active,
         NotStarted, ArmedIsCurrent, ResultIsStatus, PassIsResult, Initialised, ScanProgress,
         IsPending, VerdictEvidence
  <2> QED BY <2>2, <2>3, <2>4, <2>5 DEF Next
<1> QED BY <1>1, <1>3

(* Nothing has run, nothing is armed and no PE is active initially.        *)
LEMMA InitClean == Init => HarnessInv
<1> SUFFICES ASSUME Init PROVE HarnessInv
  OBVIOUS
<1>1. TypeOK /\ Bounds
  BY InitTypeInv DEF TypeInv
<1>2. pc \in {"init", "done"} /\ irq = {} /\ ran = {} /\ \A p \in PE : ~Active(p)
  BY DEF Init, Active
<1>3. \A t \in Tests : verdict[t] = "NONE"
  BY DEF Init
<1>4. Clean
  BY <1>2, <1>3 DEF Clean, ActiveIsCurrent, NotStarted, ArmedIsCurrent, ResultIsStatus,
     PassIsResult, Initialised, ScanProgress, VerdictEvidence
<1> QED BY <1>1, <1>4 DEF HarnessInv

(* Until a polling loop expires nothing of an earlier test is left in the  *)
(* shared memory, on a secondary PE or in a device.                        *)
THEOREM HarnessInvariant == NoLooseIrq => (Spec => []HarnessInv)
<1> SUFFICES ASSUME NoLooseIrq PROVE Spec => []HarnessInv
  OBVIOUS
<1>1. HarnessInv /\ [Next]_vars => HarnessInv'
  BY CleanStep
<1> QED
  BY <1>1, InitClean, PTL DEF Spec

(* Until a polling loop expires, val_check_for_error counts a test as      *)
(* passed only if its payload ran and passed on every PE it is about.      *)
THEOREM PassEarned == NoLooseIrq => (Spec => []PassIsEarned)
<1>1. HarnessInv => PassIsEarned
  BY Zenon DEF HarnessInv, Clean, VerdictEvidence, PassIsEarned
<1> QED
  BY <1>1, HarnessInvariant, PTL

(* Until a polling loop expires, a secondary PE only ever executes the     *)
(* payload of the test the main PE is running.                             *)
THEOREM CurrentPayload == NoLooseIrq => (Spec => []OnlyCurrentPayload)
<1>1. HarnessInv => OnlyCurrentPayload
  <2> SUFFICES ASSUME HarnessInv, ~timedOut, NEW p \in PE \ {MainPe},
                      power[p] \in {"run", "report", "lost"}
               PROVE  vector[p] = cur /\ pc # "init"
    BY DEF OnlyCurrentPayload
  <2> QED
    BY DEF HarnessInv, Clean, ActiveIsCurrent, Active
<1> QED
  BY <1>1, HarnessInvariant, PTL

(* Until a polling loop expires, the status words do not change while      *)
(* val_check_for_error reads them.                                         *)
THEOREM ResultsStableThm == NoLooseIrq => (Spec => ResultsStable)
<1> SUFFICES ASSUME NoLooseIrq PROVE Spec => ResultsStable
  OBVIOUS
<1>1. HarnessInv /\ [Next]_vars => [pc = "check" /\ ~timedOut => status' = status]_vars
  <2> SUFFICES ASSUME HarnessInv, Next, pc = "check", ~timedOut PROVE status' = status
    BY DEF vars
  <2>1. irq = {} /\ \A p \in PE : ~Active(p)
    BY DEF HarnessInv, Clean, ArmedIsCurrent, ActiveIsCurrent
  <2>2. CASE Main
    BY <2>2 DEF Main, InitializeTest, RunPayloadOnMain, RemotePayload, ArmInterrupt,
       WaitForInterrupt, UnexpectedException, SetTestData, ExecuteOnPe, RemoteWait, RemoteCheck,
       ScanStatus, ScanEnd, CheckForError, shared
  <2>3. ASSUME NEW t \in Tests, Isr(t) PROVE FALSE
    BY <2>1, <2>3 DEF Isr
  <2>4. ASSUME NEW p \in PE, Secondary(p) PROVE status' = status
    BY <2>1, <2>4 DEF Secondary, Boot, GetTestData, RunPayload, ReportFailure, Hang, CpuOff,
       Active, shared, HarnessInv, Bounds
  <2> QED BY <2>2, <2>3, <2>4 DEF Next
<1> QED
  BY <1>1, HarnessInvariant, PTL DEF Spec, ResultsStable

----------------------------------------------------------------------------
(* Skipped tests *)

(* The actions of the main PE start, arm or store nothing of a skipped     *)
(* test.                                                                   *)
LEMMA SkipMain ==
  ASSUME TypeOK, Bounds, SkipInv, SkipChecked, Main
  PROVE  SkipInv'
<1> USE HarnessAssumption DEF SkipInv
<1>1. CASE InitializeTest
  BY <1>1 DEF InitializeTest, SkipChecked, SkipHonoured, secVars, history
<1>2. CASE RunPayloadOnMain
  BY <1>2 DEF RunPayloadOnMain, SkipHonoured, secVars
<1>3. CASE RemotePayload
  BY <1>3 DEF RemotePayload, SkipHonoured, secVars
<1>4. CASE ArmInterrupt
  BY <1>4 DEF ArmInterrupt, SkipHonoured, secVars
<1>5. CASE WaitForInterrupt
  BY <1>5 DEF WaitForInterrupt, SkipHonoured, secVars
<1>6. CASE UnexpectedException
  BY <1>6 DEF UnexpectedException, SkipHonoured, secVars, loop, history
<1>7. CASE SetTestData
  BY <1>7 DEF SetTestData, AfterLaunch, SkipHonoured, TypeOK, secVars, history
<1>8. CASE ExecuteOnPe
  BY <1>8 DEF ExecuteOnPe, AfterExecute, SkipHonoured, history
<1>9. CASE RemoteWait
  BY <1>9 DEF RemoteWait, SkipHonoured, secVars
<1>10. CASE RemoteCheck
  BY <1>10 DEF RemoteCheck, SkipHonoured, shared, secVars, history
<1>11. CASE ScanStatus
  BY <1>11 DEF ScanStatus, SkipHonoured, shared, secVars, history
<1>12. CASE ScanEnd
  BY <1>12 DEF ScanEnd, SkipHonoured, secVars
<1>13. CASE CheckForError
  BY <1>13 DEF CheckForError, Conclude, SkipHonoured, shared, secVars
<1> QED
  BY <1>1, <1>2, <1>3, <1>4, <1>5, <1>6, <1>7, <1>8, <1>9, <1>10, <1>11, <1>12, <1>13 DEF Main

(* A secondary PE loads only what it finds in data0, even when it is left  *)
(* over from an earlier test.                                              *)
LEMMA SkipSecondary ==
  ASSUME TypeOK, Bounds, SkipInv, NEW p \in PE, Secondary(p)
  PROVE  SkipInv'
<1> USE HarnessAssumption DEF SkipInv
<1>d. Debug \notin Skip
  BY DEF Debug, Tests
<1>1. CASE Boot(p)
  BY <1>1 DEF Boot, SkipHonoured, shared, loop, history
<1>2. CASE GetTestData(p)
  BY <1>2 DEF GetTestData, SkipHonoured, TypeOK, shared, loop, history
<1>3. CASE RunPayload(p)
  BY <1>3, <1>d DEF RunPayload, SkipHonoured, TypeOK, loop
<1>4. CASE ReportFailure(p)
  BY <1>4 DEF ReportFailure, SkipHonoured, loop
<1>5. CASE Hang(p)
  BY <1>5 DEF Hang, SkipHonoured, shared, loop, history
<1>6. CASE CpuOff(p)
  BY <1>6 DEF CpuOff, SkipHonoured, shared, loop, history
<1> QED BY <1>1, <1>2, <1>3, <1>4, <1>5, <1>6 DEF Secondary

(* The payload of a test given with -skip is executed on no PE, with or    *)
(* without expired polling loops, if its entry looks at ACS_STATUS_SKIP.   *)
THEOREM SkippedNeverRun == SkipChecked => (Spec => []SkipHonoured)
<1> SUFFICES ASSUME SkipChecked PROVE Spec => []SkipHonoured
  OBVIOUS
<1>1. Init => TypeInv /\ SkipInv
  <2> SUFFICES ASSUME Init PROVE SkipInv
    BY InitTypeInv
  <2> QED
    BY HarnessAssumption DEF Init, SkipInv, SkipHonoured, NoTest, Tests
<1>2. TypeInv /\ SkipInv /\ [Next]_vars => TypeInv' /\ SkipInv'
  <2> SUFFICES ASSUME TypeOK, Bounds, SkipInv, [Next]_vars PROVE SkipInv'
    BY TypeInvStep DEF TypeInv
  <2>1. CASE Main
    BY <2>1, SkipMain
  <2>2. ASSUME NEW t \in Tests, Isr(t) PROVE SkipInv'
    BY <2>2 DEF Isr, SkipInv, SkipHonoured, secVars, loop, Results
  <2>3. ASSUME NEW p \in PE, Secondary(p) PROVE SkipInv'
    BY <2>3, SkipSecondary
  <2>4. CASE UNCHANGED vars
    BY <2>4 DEF vars, shared, secVars, loop, counts, history, SkipInv, SkipHonoured
  <2> QED BY <2>1, <2>2, <2>3, <2>4 DEF Next
<1>3. SkipInv => SkipHonoured
  BY DEF SkipInv
<1> QED
  BY <1>1, <1>2, <1>3, PTL DEF Spec

----------------------------------------------------------------------------
(* The counters *)

(* The tests with verdict r.                                               *)
Got(v, r) == {t \in Tests : v[t] = r}

(* A verdict for one more test adds it to its own count and to no other.   *)
LEMMA OneMoreVerdict ==
  ASSUME NEW v \in [Tests -> Results \cup {"NONE"}], NEW c \in Tests, v[c] = "NONE",
         NEW r \in Results, NEW x \in Results
  PROVE  /\ Cardinality(Got(v, x)) \in Nat
         /\ Cardinality(Got([v EXCEPT ![c] = r], x)) =
              Cardinality(Got(v, x)) + (IF x = r THEN 1 ELSE 0)
<1>1. IsFiniteSet(Tests)
  BY FS_Interval, HarnessAssumption DEF Tests
<1>2. IsFiniteSet(Got(v, x))
  <2>1. Got(v, x) \in SUBSET Tests
    BY DEF Got
  <2> QED BY <1>1, <2>1, FS_Subset
<1>3. Cardinality(Got(v, x)) \in Nat
  BY <1>2, FS_CardinalityType
<1>4. CASE x = r
  <2>1. Got([v EXCEPT ![c] = r], x) = Got(v, x) \cup {c}
    BY <1>4 DEF Got
  <2>2. c \notin Got(v, x)
    BY DEF Got, Results
  <2> QED BY <1>2, <1>3, <1>4, <2>1, <2>2, FS_AddElement
<1>5. CASE x # r
  <2>1. Got([v EXCEPT ![c] = r], x) = Got(v, x)
    BY <1>5 DEF Got, Results
  <2> QED BY <1>3, <1>5, <2>1
<1> QED BY <1>4, <1>5

(* Only val_initialize_test and the end of val_check_for_error touch the   *)
(* counters, the verdicts or the number of the test.                       *)
LEMMA CountsFrame ==
  ASSUME Next, ~InitializeTest, ~CheckForError
  PROVE  UNCHANGED <<total, pass, fail, verdict, cur>> /\ (pc' = "init" <=> pc = "init")
<1>1. CASE Main
  BY <1>1 DEF Main, RunPayloadOnMain, RemotePayload, ArmInterrupt, WaitForInterrupt,
     UnexpectedException, SetTestData, AfterLaunch, ExecuteOnPe, AfterExecute, RemoteWait,
     RemoteCheck, ScanStatus, ScanEnd, loop, counts, history
<1>2. ASSUME NEW t \in Tests, Isr(t)
      PROVE  UNCHANGED <<total, pass, fail, verdict, cur, pc>>
  BY <1>2 DEF Isr, loop, counts
<1>3. ASSUME NEW p \in PE, Secondary(p)
      PROVE  UNCHANGED <<total, pass, fail, verdict, cur, pc>>
  BY <1>3 DEF Secondary, Boot, GetTestData, RunPayload, ReportFailure, Hang, CpuOff, loop,
     counts, history
<1> QED BY <1>1, <1>2, <1>3 DEF Next

(* The end of val_check_for_error counts the verdict of the current test.  *)
LEMMA AccountingConclude ==
  ASSUME TypeOK, Bounds, AccountingInv, pc = "check", NEW s, Conclude(s), UNCHANGED total
  PROVE  AccountingInv'
<1> USE HarnessAssumption
<1>c. cur \in Tests /\ cur' = cur + 1 /\ verdict[cur] = "NONE"
  BY DEF Bounds, Conclude, AccountingInv, Tests
<1>v. /\ verdict \in [Tests -> Results \cup {"NONE"}]
      /\ Verdict(s) \in Results
      /\ verdict' = [verdict EXCEPT ![cur] = Verdict(s)]
  BY DEF TypeOK, Conclude, Verdict, Results
<1>1. \A x \in Results :
        /\ Cardinality(Got(verdict, x)) \in Nat
        /\ Cardinality(Got(verdict', x)) =
             Cardinality(Got(verdict, x)) + (IF x = Verdict(s) THEN 1 ELSE 0)
  BY <1>c, <1>v, OneMoreVerdict
<1>2. /\ pass = Cardinality(Got(verdict, "PASS"))
      /\ fail = Cardinality(Got(verdict, "FAIL"))
      /\ total = pass + fail + Cardinality(Got(verdict, "SKIP")) + 1
  BY <1>c DEF AccountingInv, Accounting, Got, Tests
<1>3. /\ pass' = Cardinality(Got(verdict', "PASS"))
      /\ fail' = Cardinality(Got(verdict', "FAIL"))
      /\ total' = pass' + fail' + Cardinality(Got(verdict', "SKIP"))
  BY <1>1, <1>2, <1>v DEF Conclude, Results
<1>4. pc' = "init" \/ cur' > NumTests
  BY <1>c DEF Conclude, Tests
<1>5. Accounting'
  BY <1>3, <1>4 DEF Accounting, Got
<1>6. \A t \in Tests : t >= cur' => verdict'[t] = "NONE"
  BY <1>c, <1>v DEF AccountingInv, Tests
<1> QED BY <1>5, <1>6 DEF AccountingInv

(* The three counters printed at the end account for every test started,   *)
(* also after expired polling loops and unexpected exceptions.             *)
THEOREM EveryTestCounted == Spec => []Accounting
<1> USE HarnessAssumption
<1>1. Init => TypeInv /\ AccountingInv
  <2> SUFFICES ASSUME Init PROVE AccountingInv
    BY InitTypeInv
  <2>1. \A r \in Results : {t \in Tests : verdict[t] = r} = {}
    BY DEF Init, Results
  <2>2. pc = "init" \/ cur > NumTests
    BY DEF Init
  <2>3. Accounting
    BY <2>1, <2>2, FS_EmptySet DEF Init, Accounting, Results
  <2> QED BY <2>3 DEF Init, AccountingInv
<1>2. TypeInv /\ AccountingInv /\ [Next]_vars => TypeInv' /\ AccountingInv'
  <2> SUFFICES ASSUME TypeOK, Bounds, AccountingInv, [Next]_vars PROVE AccountingInv'
    BY TypeInvStep DEF TypeInv
  <2>1. CASE InitializeTest
    <3>1. cur \in Tests /\ UNCHANGED <<pass, fail, verdict, cur>> /\ total' = total + 1
          /\ pc = "init" /\ pc' # "init"
      BY <2>1 DEF InitializeTest, Bounds, history
    <3>2. Cardinality({t \in Tests : verdict[t] = "SKIP"}) \in Nat
      <4>1. Got(verdict, "SKIP") \in SUBSET Tests /\ IsFiniteSet(Tests)
        BY FS_Interval DEF Got, Tests
      <4> QED BY <4>1, FS_Subset, FS_CardinalityType DEF Got
    <3>3. total = pass + fail + Cardinality({t \in Tests : verdict[t] = "SKIP"})
      BY <3>1, <3>2 DEF AccountingInv, Accounting, Tests, TypeOK
    <3>4. total' = pass' + fail' + Cardinality({t \in Tests : verdict'[t] = "SKIP"}) + 1
      BY <3>1, <3>2, <3>3 DEF TypeOK
    <3>5. Accounting'
      BY <3>1, <3>4 DEF AccountingInv, Accounting, Tests
    <3> QED BY <3>1, <3>5 DEF AccountingInv
  <2>2. CASE CheckForError
    <3>1. CASE \E s : Conclude(s)
      BY <2>2, <3>1, AccountingConclude DEF CheckForError
    <3>2. CASE UNCHANGED <<verdict, pass, fail, cur, pc>>
      BY <2>2, <3>2 DEF CheckForError, AccountingInv, Accounting
    <3> QED BY <2>2, <3>1, <3>2 DEF CheckForError
  <2>3. CASE Next /\ ~InitializeTest /\ ~CheckForError
    BY <2>3, CountsFrame DEF AccountingInv, Accounting
  <2>4. CASE UNCHANGED vars
    BY <2>4 DEF vars, loop, counts, history, AccountingInv, Accounting
  <2> QED BY <2>1, <2>2, <2>3, <2>4
<1>3. AccountingInv => Accounting
  BY DEF AccountingInv
<1> QED
  BY <1>1, <1>2, <1>3, PTL DEF Spec
----------------------------------------------------------------------------
(* Failures *)

(* Until a polling loop expires, every new result belongs to the current   *)
(* test: no late interrupt or secondary PE reports for an earlier one.     *)
LEMMA ResultsAreCurrent ==
  ASSUME Hyp, Next, NEW t \in Tests, NEW p \in PE, NEW r \in Results,
         <<t, p, r>> \in ran', <<t, p, r>> \notin ran
  PROVE  t = cur /\ pc # "check"
<1> USE HarnessAssumption DEF Hyp
<1>1. CASE Main
  BY <1>1 DEF Main, InitializeTest, RunPayloadOnMain, RemotePayload, ArmInterrupt,
     WaitForInterrupt, UnexpectedException, SetTestData, ExecuteOnPe, RemoteWait, RemoteCheck,
     ScanStatus, ScanEnd, CheckForError, history
<1>2. ASSUME NEW u \in Tests, Isr(u) PROVE t = cur /\ pc # "check"
  BY <1>2 DEF Isr, Clean, ArmedIsCurrent
<1>3. ASSUME NEW q \in PE, Secondary(q) PROVE t = cur /\ pc # "check"
  <2>1. CASE RunPayload(q)
    <3>1. Active(q) /\ vector[q] = cur /\ pc # "check"
      BY <2>1 DEF RunPayload, Active, Clean, ActiveIsCurrent
    <3> QED BY <2>1, <3>1 DEF RunPayload
  <2>2. CASE ReportFailure(q)
    <3>1. Active(q) /\ vector[q] = cur /\ pc # "check"
      BY <2>2 DEF ReportFailure, Active, Clean, ActiveIsCurrent, Bounds
    <3> QED BY <2>2, <3>1 DEF ReportFailure
  <2>3. CASE ~RunPayload(q) /\ ~ReportFailure(q)
    BY <1>3, <2>3 DEF Secondary, Boot, GetTestData, Hang, CpuOff, history
  <2> QED BY <2>1, <2>2, <2>3
<1> QED BY <1>1, <1>2, <1>3 DEF Next

(* While os_c001 runs, no action stores a failure in the main PE's slot.   *)
LEMMA MainSilentStep ==
  ASSUME Hyp, MainSilent, Next
  PROVE  MainSilent'
<1> USE HarnessAssumption DEF Hyp
<1>1. CASE InitializeTest
  <2>1. Kind[cur] = "remote" => MainPe \in Slots(cur)
    BY DEF Slots, NumPeOf, PE
  <2> QED
    BY <1>1, <2>1 DEF InitializeTest, MainSilent, Status
<1>2. CASE CheckForError
  BY <1>2 DEF CheckForError, Conclude, MainSilent, shared
<1>3. CASE ExecuteOnPe
  <2>1. idx \in PE \ {MainPe} /\ pc # "init" /\ pc # "done" /\ cur' = cur
    BY <1>3 DEF ExecuteOnPe, Bounds
  <2>2. status'[MainPe] = status[MainPe]
    BY <1>3, <2>1 DEF ExecuteOnPe, SetStatus, TypeOK
  <2> QED BY <2>1, <2>2 DEF MainSilent
<1>4. CASE RunPayloadOnMain \/ ArmInterrupt \/ WaitForInterrupt \/ UnexpectedException
  BY <1>4 DEF RunPayloadOnMain, ArmInterrupt, WaitForInterrupt, UnexpectedException, MainSilent,
     IrqKinds, Bounds, loop
<1>5. CASE RemotePayload
  BY <1>5 DEF RemotePayload, MainSilent
<1>6. CASE SetTestData \/ RemoteCheck \/ ScanStatus
  BY <1>6 DEF SetTestData, AfterLaunch, RemoteCheck, ScanStatus, MainSilent, shared
<1>7. CASE RemoteWait \/ ScanEnd
  <2>1. cur' = cur /\ pc # "init" /\ pc # "done"
    BY <1>7 DEF RemoteWait, ScanEnd
  <2>2. status' = status
    BY <1>7 DEF RemoteWait, ScanEnd
  <2> QED BY <2>1, <2>2 DEF MainSilent
<1>8. ASSUME NEW t \in Tests, Isr(t) PROVE MainSilent'
  BY <1>8 DEF Isr, Clean, ArmedIsCurrent, Bounds, IrqKinds, MainSilent, loop
<1>9. ASSUME NEW p \in PE, Secondary(p) PROVE MainSilent'
  <2>1. UNCHANGED <<cur, pc>>
    BY <1>9 DEF Secondary, Boot, GetTestData, RunPayload, ReportFailure, Hang, CpuOff, loop
  <2>2. status'[MainPe] = status[MainPe]
    BY <1>9 DEF Secondary, Boot, GetTestData, RunPayload, ReportFailure, Hang, CpuOff, shared,
       Bounds, SetStatus, TypeOK
  <2> QED BY <2>1, <2>2 DEF MainSilent
<1> QED
  BY <1>1, <1>2, <1>3, <1>4, <1>5, <1>6, <1>7, <1>8, <1>9 DEF Next, Main

(* val_check_for_error settles on the status of a participating PE when it *)
(* reports a failure.                                                      *)
LEMMA FailureIsAbout ==
  ASSUME Hyp, MainSilent, MainNotLast, CheckForError, NEW s,
         \/ NumPeOf(cur) = 1 /\ s = status[MainPe]
         \/ /\ NumPeOf(cur) # 1
            /\ status[idx].state \in {"FAIL", "SKIP"} \/ idx = NumPe - 1
            /\ s = status[idx],
         Verdict(s) = "FAIL"
  PROVE  \E p \in Participants(cur) : <<cur, p, "PASS">> \notin ran
<1> USE HarnessAssumption DEF Hyp
<1>1. cur \in Tests /\ idx \in PE /\ pc = "check"
  BY DEF CheckForError, Bounds
<1>2. s.state \notin {"PASS", "SKIP"}
  BY DEF Verdict
<1>3. \A p \in PE : s = status[p] => <<cur, p, "PASS">> \notin ran
  <2> SUFFICES ASSUME NEW p \in PE, s = status[p], <<cur, p, "PASS">> \in ran PROVE FALSE
    OBVIOUS
  <2>1. status[p] = Status("PASS", cur)
    BY <1>1 DEF Clean, ResultIsStatus, Results
  <2> QED BY <1>2, <2>1 DEF Status
<1>4. CASE NumPeOf(cur) = 1
  <2>1. MainPe \in Participants(cur)
    BY <1>1, <1>4 DEF Participants, NumPeOf, Kinds, PE
  <2> QED BY <1>3, <1>4, <2>1
<1>5. CASE NumPeOf(cur) # 1
  <2>1. NumPe # 1 /\ Kind[cur] \in {"all", "remote"}
    BY <1>5 DEF NumPeOf
  <2>2. idx \in Participants(cur)
    <3>1. CASE Kind[cur] = "all"
      BY <1>1, <3>1 DEF Participants
    <3>2. CASE Kind[cur] = "remote"
      <4>1. idx # MainPe
        BY <1>1, <1>2, <1>5, <2>1, <3>2 DEF MainSilent, MainNotLast
      <4> QED BY <1>1, <2>1, <3>2, <4>1 DEF Participants
    <3> QED BY <2>1, <3>1, <3>2
  <2> QED BY <1>1, <1>3, <1>5, <2>2
<1> QED BY <1>4, <1>5

(* No step takes the evidence of a failure away, and val_check_for_error   *)
(* reports none without.                                                   *)
LEMMA FailEvidenceStep ==
  ASSUME Hyp, MainSilent, FailEvidence, MainNotLast, Next
  PROVE  FailEvidence'
<1> USE HarnessAssumption DEF Hyp
<1> SUFFICES ASSUME NEW t \in Tests, verdict'[t] = "FAIL"
             PROVE  \E p \in Participants(t) : <<t, p, "PASS">> \notin ran'
  BY DEF FailEvidence
<1>1. CASE verdict[t] = "FAIL"
  <2>1. PICK p \in Participants(t) : <<t, p, "PASS">> \notin ran
    BY <1>1 DEF FailEvidence
  <2>2. t < cur
    BY <1>1 DEF Clean, VerdictEvidence
  <2>3. p \in PE /\ "PASS" \in Results /\ t # cur
    BY <2>2, ParticipantsPE DEF Results, Tests, TypeOK
  <2> QED BY <2>1, <2>3, ResultsAreCurrent
<1>2. CASE verdict[t] # "FAIL"
  <2>1. CheckForError
    BY <1>2, CountsFrame DEF InitializeTest, history
  <2>2. PICK s :
          /\ \/ NumPeOf(cur) = 1 /\ s = status[MainPe]
             \/ /\ NumPeOf(cur) # 1
                /\ status[idx].state \in {"FAIL", "SKIP"} \/ idx = NumPe - 1
                /\ s = status[idx]
          /\ Conclude(s)
    BY <1>2, <2>1 DEF CheckForError
  <2>3. t = cur /\ Verdict(s) = "FAIL"
    BY <1>2, <2>2 DEF Conclude, TypeOK
  <2>4. ran' = ran
    BY <2>1 DEF CheckForError
  <2> QED BY <2>1, <2>2, <2>3, <2>4, FailureIsAbout
<1> QED BY <1>1, <1>2

(* Until a polling loop expires, a test is counted as failed only if some  *)
(* PE it is about did not pass it: neither a status word of another test   *)
(* nor the main PE's own slot of os_c001 is read as a failure.             *)
THEOREM FailEarned == NoLooseIrq /\ MainNotLast => (Spec => []FailIsEarned)
<1> SUFFICES ASSUME NoLooseIrq, MainNotLast PROVE Spec => []FailIsEarned
  OBVIOUS
<1> DEFINE Inv == HarnessInv /\ (~timedOut => MainSilent /\ FailEvidence)
<1>1. Init => Inv
  <2> SUFFICES ASSUME Init PROVE MainSilent /\ FailEvidence
    BY InitClean
  <2> QED
    BY DEF Init, MainSilent, FailEvidence
<1>2. Inv /\ [Next]_vars => Inv'
  <2> SUFFICES ASSUME HarnessInv, ~timedOut => MainSilent /\ FailEvidence, [Next]_vars,
                      ~timedOut'
               PROVE  MainSilent' /\ FailEvidence'
    BY CleanStep
  <2>1. HarnessInv'
    BY CleanStep
  <2>2. ~timedOut
    BY Zenon DEF Next, Main, Secondary, InitializeTest, RunPayloadOnMain, RemotePayload,
       ArmInterrupt, WaitForInterrupt, UnexpectedException, SetTestData, ExecuteOnPe,
       RemoteWait, RemoteCheck, ScanStatus, ScanEnd, CheckForError, Isr, Boot, GetTestData,
       RunPayload, ReportFailure, Hang, CpuOff, history, vars
  <2>3. Hyp
    BY <2>1, <2>2 DEF Hyp, HarnessInv
  <2>4. CASE Next
    BY <2>2, <2>3, <2>4, MainSilentStep, FailEvidenceStep
  <2>5. CASE UNCHANGED vars
    BY <2>2, <2>5 DEF vars, shared, loop, history, MainSilent, FailEvidence
  <2> QED BY <2>4, <2>5
<1>3. Inv => FailIsEarned
  BY DEF FailEvidence, FailIsEarned
<1> QED
  BY <1>1, <1>2, <1>3, PTL DEF Spec
=============================================================================
