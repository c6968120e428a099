-------------------------- MODULE AdmissionProofs --------------------------
(***************************************************************************)
(* Admission, for any set of tasks and any limits: that the limits hold,   *)
(* what strands a slot, and that the slots of acknowledged tasks return.   *)
(*                                                                         *)
(* The inductive invariant has three parts: the types, what the program    *)
(* counters of one task say of each other, and that every set of holders   *)
(* has a member whose limit covers the set. The last one, unlike           *)
(* HeldWithinLimit itself, survives the release of any slot.               *)
(***************************************************************************)
EXTENDS Admission, FiniteSetTheorems, TLAPS

WorkIsOver(t) == run[t] \in {"write", "release", "finalize", "closed"}

TaskInv(t) ==
  /\ api[t] = "idle" => slot[t] = "none"
  /\ api[t] \in {"idle", "create", "start"} => run[t] = "none"
  /\ api[t] \in {"record", "activate"} => run[t] # "none"
  /\ attached[t] => run[t] # "none"
  /\ pass[t].attached => run[t] # "none"
  /\ Terminal(taskRun[t]) => WorkIsOver(t)
  /\ pass[t].pc = "decide" /\ pass[t].terminal => WorkIsOver(t)
  /\ pass[t].pc = "mark" => WorkIsOver(t)
  /\ slot[t] = "reconciled" => WorkIsOver(t)
  /\ api[t] = "refused" => run[t] = "none" /\ slot[t] = "rejected"
  /\ api[t] \notin {"idle", "refused"} => slot[t] \notin {"none", "rejected"}
  /\ slot[t] = "released" => WorkIsOver(t) \/ api[t] \in {"mark", "failed"}
  /\ slot[t] = "active" => attached[t]
  /\ api[t] = "answered" => run[t] # "none" /\ slot[t] # "reserved"
  /\ api[t] = "mark" \/ run[t] = "finalize" => ~Held(slot[t])

Covered(S) == S # {} => \E t \in S : Cardinality(S) <= Limit[t]

LimitInv ==
  /\ IsFiniteSet(Holding)
  /\ \A S \in SUBSET Holding : Covered(S)

Lost == {t \in Holding : api[t] = "failed"}

LostInv == IsFiniteSet(Lost) /\ Cardinality(Lost) <= faults

Inv ==
  /\ TypeOK
  /\ \A t \in Tasks : TaskInv(t)
  /\ LimitInv
  /\ LostInv

Act(t) ==
  \/ Reserve(t) \/ ApiStep(t) \/ ApiError(t)
  \/ WorkflowStep(t) \/ Resume(t) \/ Abort(t)
  \/ Reconcile(t) \/ DescribeFails(t)

LEMMA InitInv == Init => Inv
<1> SUFFICES ASSUME Init PROVE Inv
  OBVIOUS
<1>1. TypeOK
  BY AdmissionAssumption
  DEF Init, TypeOK, SlotStatus, ApiPcs, RunPcs, TaskStatus, Outcomes, NoPass
<1>2. \A t \in Tasks : TaskInv(t)
  BY DEF Init, TaskInv, NoPass, Terminal, Held
<1>3. Holding = {}
  BY DEF Init, Holding, Held
<1>4. LimitInv
  BY <1>3, FS_EmptySet DEF LimitInv, Covered
<1>5. LostInv
  BY <1>3, FS_EmptySet DEF LostInv, Lost, Init
<1> QED
  BY <1>1, <1>2, <1>4, <1>5 DEF Inv

-----------------------------------------------------------------------------
LEMMA TypeStep == ASSUME TypeOK, NEW t \in Tasks, Act(t) PROVE TypeOK'
<1> USE AdmissionAssumption DEF TypeOK, SlotStatus, ApiPcs, RunPcs, Fault
<1>1. CASE Reserve(t)
  BY <1>1 DEF Reserve, ApiGoto
<1>2. CASE CreateTaskRun(t)
  BY <1>2 DEF CreateTaskRun, ApiGoto, TaskStatus
<1>3. CASE StartWorkflow(t)
  BY <1>3 DEF StartWorkflow, ApiGoto
<1>4. CASE RecordStart(t)
  BY <1>4 DEF RecordStart, ApiGoto
<1>5. CASE Activate(t)
  BY <1>5 DEF Activate, ApiGoto
<1>6. CASE ReleaseAfterError(t)
  BY <1>6 DEF ReleaseAfterError, Release, ApiGoto
<1>7. CASE MarkFailedToStart(t)
  BY <1>7 DEF MarkFailedToStart, ApiGoto, TaskStatus
<1>8. CASE ApiError(t)
  BY <1>8 DEF ApiError, ApiGoto
<1>9. CASE Begin(t)
  BY <1>9 DEF Begin, RunGoto, TaskStatus
<1>10. CASE Work(t)
  BY <1>10 DEF Work, RunGoto, Outcomes
<1>11. CASE WriteStatus(t)
  BY <1>11 DEF WriteStatus, RunGoto, TaskStatus
<1>12. CASE ReleaseSlot(t)
  BY <1>12 DEF ReleaseSlot, Release, RunGoto
<1>13. CASE Finalize(t)
  BY <1>13 DEF Finalize, RunGoto, Outcomes
<1>14. CASE Abort(t)
  BY <1>14 DEF Abort, RunGoto
<1>15. CASE PickCandidate(t)
  BY <1>15 DEF PickCandidate
<1>16. CASE ReadTask(t)
  <2>1. Terminal(taskRun[t]) \in BOOLEAN
    BY DEF Terminal
  <2> QED
    BY <1>16, <2>1 DEF ReadTask
<1>17. CASE Decide(t)
  BY <1>17 DEF Decide, PassGoto, NoPass
<1>18. CASE MarkReconciled(t)
  BY <1>18 DEF MarkReconciled, PassGoto, NoPass
<1>19. CASE DescribeFails(t)
  <2>1. PICK pc \in {"mark", "idle"} : PassGoto(t, pc)
    BY <1>19 DEF DescribeFails
  <2>2. pass' \in [Tasks -> [pc : {"idle", "task", "decide", "mark"},
                            attached : BOOLEAN, terminal : BOOLEAN]]
    BY <2>1 DEF PassGoto, NoPass
  <2> QED
    BY <1>19, <2>2 DEF DescribeFails
<1>20. CASE Stall(t) \/ Resume(t)
  BY <1>20 DEF Stall, Resume, RunGoto
<1> QED
  BY <1>1, <1>2, <1>3, <1>4, <1>5, <1>6, <1>7, <1>8, <1>9, <1>10, <1>11, <1>12,
     <1>13, <1>14, <1>15, <1>16, <1>17, <1>18, <1>19, <1>20
  DEF Act, ApiStep, WorkflowStep, Reconcile

-----------------------------------------------------------------------------
\* A step of one task leaves the others alone.
Same(u) ==
  /\ slot'[u] = slot[u] /\ attached'[u] = attached[u] /\ taskRun'[u] = taskRun[u]
  /\ api'[u] = api[u] /\ run'[u] = run[u] /\ pass'[u] = pass[u]

LEMMA OthersSame ==
  ASSUME TypeOK, NEW t \in Tasks, Act(t), NEW u \in Tasks, u # t
  PROVE  Same(u)
<1> USE DEF TypeOK, Same
<1>1. CASE Reserve(t) \/ ApiStep(t) \/ ApiError(t)
  BY <1>1 DEF Reserve, ApiStep, ApiError, CreateTaskRun, StartWorkflow, RecordStart,
              Activate, ReleaseAfterError, MarkFailedToStart, Release, ApiGoto
<1>2. CASE WorkflowStep(t) \/ Resume(t) \/ Abort(t)
  BY <1>2 DEF WorkflowStep, Begin, Stall, Work, WriteStatus, ReleaseSlot, Finalize, Resume, Abort,
              Release, RunGoto
<1>3. CASE Reconcile(t) \/ DescribeFails(t)
  BY <1>3 DEF Reconcile, DescribeFails, PickCandidate, ReadTask, Decide,
              MarkReconciled, PassGoto
<1> QED
  BY <1>1, <1>2, <1>3 DEF Act

LEMMA TaskStep ==
  ASSUME TypeOK, NEW t \in Tasks, TaskInv(t), Act(t)
  PROVE  TaskInv(t)'
<1> USE DEF TypeOK, TaskInv, WorkIsOver, Terminal, Held
<1>1. CASE Reserve(t)
  BY <1>1 DEF Reserve, ApiGoto
<1>2. CASE CreateTaskRun(t)
  BY <1>2 DEF CreateTaskRun, ApiGoto
<1>3. CASE StartWorkflow(t)
  BY <1>3 DEF StartWorkflow, ApiGoto
<1>4. CASE RecordStart(t)
  BY <1>4 DEF RecordStart, ApiGoto
<1>5. CASE Activate(t)
  BY <1>5 DEF Activate, ApiGoto
<1>6. CASE ReleaseAfterError(t)
  BY <1>6 DEF ReleaseAfterError, Release, ApiGoto
<1>7. CASE MarkFailedToStart(t)
  BY <1>7 DEF MarkFailedToStart, ApiGoto
<1>8. CASE ApiError(t)
  BY <1>8 DEF ApiError, ApiGoto
<1>9. CASE Begin(t)
  BY <1>9 DEF Begin, RunGoto
<1>10. CASE Work(t)
  BY <1>10 DEF Work, RunGoto
<1>11. CASE WriteStatus(t)
  BY <1>11 DEF WriteStatus, RunGoto
<1>12. CASE ReleaseSlot(t)
  BY <1>12 DEF ReleaseSlot, Release, RunGoto
<1>13. CASE Finalize(t)
  BY <1>13 DEF Finalize, RunGoto
<1>14. CASE Abort(t)
  BY <1>14 DEF Abort, Open, Started, RunGoto
<1>15. CASE PickCandidate(t)
  BY <1>15 DEF PickCandidate
<1>16. CASE ReadTask(t)
  BY <1>16 DEF ReadTask
<1>17. CASE Decide(t)
  BY <1>17 DEF Decide, PassGoto, NoPass, Open, Started
<1>18. CASE MarkReconciled(t)
  BY <1>18 DEF MarkReconciled, PassGoto, NoPass
<1>19. CASE DescribeFails(t)
  BY <1>19 DEF DescribeFails, PassGoto, NoPass
<1>20. CASE Stall(t) \/ Resume(t)
  BY <1>20 DEF Stall, Resume, RunGoto
<1> QED
  BY <1>1, <1>2, <1>3, <1>4, <1>5, <1>6, <1>7, <1>8, <1>9, <1>10, <1>11, <1>12,
     <1>13, <1>14, <1>15, <1>16, <1>17, <1>18, <1>19, <1>20
  DEF Act, ApiStep, WorkflowStep, Reconcile

-----------------------------------------------------------------------------
\* Only a reservation makes a task a holder, and only one that never was.
LEMMA HoldersShrink ==
  ASSUME TypeOK, NEW t \in Tasks, Act(t), ~Reserve(t)
  PROVE  \A u \in Tasks : Held(slot'[u]) => Held(slot[u])
<1> USE DEF TypeOK, Held
<1>1. CASE ApiStep(t) \/ ApiError(t)
  BY <1>1 DEF ApiStep, ApiError, CreateTaskRun, StartWorkflow, RecordStart,
              Activate, ReleaseAfterError, MarkFailedToStart, Release
<1>2. CASE WorkflowStep(t) \/ Resume(t) \/ Abort(t)
  BY <1>2 DEF WorkflowStep, Begin, Stall, Work, WriteStatus, ReleaseSlot, Finalize, Resume, Abort,
              Release
<1>3. CASE Reconcile(t) \/ DescribeFails(t)
  BY <1>3 DEF Reconcile, DescribeFails, PickCandidate, ReadTask, Decide,
              MarkReconciled
<1> QED
  BY <1>1, <1>2, <1>3 DEF Act

LEMMA LimitShrinks ==
  ASSUME LimitInv, \A u \in Tasks : Held(slot'[u]) => Held(slot[u])
  PROVE  LimitInv'
<1>1. Holding' \subseteq Holding
  BY DEF Holding
<1>2. IsFiniteSet(Holding')
  BY <1>1, FS_Subset DEF LimitInv
<1>3. \A S \in SUBSET Holding' : Covered(S)
  BY <1>1 DEF LimitInv
<1> QED
  BY <1>2, <1>3 DEF LimitInv, Covered

LEMMA LimitReserve ==
  ASSUME TypeOK, LimitInv, NEW t \in Tasks, TaskInv(t), Reserve(t)
  PROVE  LimitInv'
<1>1. CASE Cardinality(Counted) >= Limit[t]
  <2>1. \A u \in Tasks : Held(slot'[u]) => Held(slot[u])
    BY <1>1 DEF Reserve, TypeOK, Held
  <2> QED
    BY <2>1, LimitShrinks
<1>2. CASE ~(Cardinality(Counted) >= Limit[t])
  <2>1. Counted = Holding
    BY DEF Counted, Holding, Held
  <2>2. t \notin Holding /\ IsFiniteSet(Holding)
    BY DEF TaskInv, Reserve, Holding, Held, LimitInv
  <2>3. Holding' = Holding \cup {t}
    BY <1>2 DEF Reserve, TypeOK, Holding, Held
  <2>4. /\ IsFiniteSet(Holding')
        /\ Cardinality(Holding') = Cardinality(Holding) + 1
        /\ Cardinality(Holding) \in Nat
    BY <2>2, <2>3, FS_AddElement, FS_CardinalityType
  <2>5. Limit[t] \in Nat
    BY AdmissionAssumption
  <2>6. Cardinality(Holding') <= Limit[t]
    BY <1>2, <2>1, <2>4, <2>5
  <2>7. ASSUME NEW S \in SUBSET Holding' PROVE Covered(S)
    <3>1. CASE t \in S
      <4>1. Cardinality(S) <= Cardinality(Holding') /\ IsFiniteSet(S)
        BY <2>4, FS_Subset
      <4>2. Cardinality(S) \in Nat /\ Cardinality(Holding') \in Nat
        BY <4>1, <2>4, FS_CardinalityType
      <4>3. Cardinality(S) <= Limit[t]
        BY <4>1, <4>2, <2>5, <2>6
      <4> QED
        BY <3>1, <4>3 DEF Covered
    <3>2. CASE t \notin S
      BY <3>2, <2>3 DEF LimitInv
    <3> QED
      BY <3>1, <3>2
  <2> QED
    BY <2>4, <2>7 DEF LimitInv, Covered
<1> QED
  BY <1>1, <1>2

\* A slot joins the lost ones only when its request meets a fault.
LEMMA LostStep ==
  ASSUME TypeOK, LostInv, NEW t \in Tasks, TaskInv(t), Act(t)
  PROVE  LostInv'
<1> USE DEF TypeOK
<1>1. /\ Cardinality(Lost) \in Nat /\ faults \in Nat /\ faults' \in Nat
      /\ faults' >= faults
  <2>1. Cardinality(Lost) \in Nat
    BY FS_CardinalityType DEF LostInv
  <2>2. faults' = faults \/ Fault
    BY DEF Act, Reserve, ApiStep, ApiError, CreateTaskRun, StartWorkflow,
           RecordStart, Activate, ReleaseAfterError, MarkFailedToStart,
           WorkflowStep, Begin, Stall, Work, WriteStatus, ReleaseSlot, Finalize, Resume, Abort,
           Reconcile, DescribeFails, PickCandidate, ReadTask, Decide,
           MarkReconciled
  <2> QED
    BY <2>1, <2>2, AdmissionAssumption DEF Fault
<1>2. CASE ApiError(t)
  <2>1. Lost' \subseteq Lost \cup {t}
    BY <1>2 DEF ApiError, ApiGoto, Lost, Holding
  <2>2. /\ IsFiniteSet(Lost \cup {t})
        /\ Cardinality(Lost \cup {t}) <= Cardinality(Lost) + 1
    <3>1. IsFiniteSet(Lost)
      BY DEF LostInv
    <3>2. /\ IsFiniteSet(Lost \cup {t})
          /\ \/ Cardinality(Lost \cup {t}) = Cardinality(Lost)
             \/ Cardinality(Lost \cup {t}) = Cardinality(Lost) + 1
      BY <3>1, FS_AddElement
    <3> QED
      BY <1>1, <3>2
  <2>3. /\ IsFiniteSet(Lost')
        /\ Cardinality(Lost') <= Cardinality(Lost \cup {t})
    BY <2>1, <2>2, FS_Subset
  <2>4. faults' = faults + 1
    BY <1>2 DEF ApiError, Fault
  <2>5. /\ Cardinality(Lost') \in Nat
        /\ Cardinality(Lost \cup {t}) \in Nat
    BY <2>2, <2>3, FS_CardinalityType
  <2> QED
    BY <1>1, <2>2, <2>3, <2>4, <2>5 DEF LostInv
<1>3. CASE ~ApiError(t)
  <2>1. \A u \in Tasks : u \in Lost' => u \in Lost
    <3> SUFFICES ASSUME NEW u \in Tasks, Held(slot'[u]), api'[u] = "failed"
                 PROVE  Held(slot[u]) /\ api[u] = "failed"
      BY DEF Lost, Holding
    <3>1. CASE u # t
      BY <3>1, OthersSame DEF Same
    <3>2. CASE u = t /\ Reserve(t)
      BY <3>2 DEF Reserve, ApiGoto
    <3>3. CASE u = t /\ ~Reserve(t)
      <4>1. Held(slot[t])
        BY <3>3, HoldersShrink
      <4>2. api[t] # "mark"
        BY <4>1 DEF TaskInv
      <4>3. api'[t] = "failed" => api[t] = "failed" \/ MarkFailedToStart(t)
        BY <1>3, <3>3
        DEF Act, ApiStep, CreateTaskRun, StartWorkflow, RecordStart, Activate,
            ReleaseAfterError, WorkflowStep, Begin, Stall, Work, WriteStatus,
            ReleaseSlot, Finalize, Resume, Abort, Reconcile, DescribeFails,
            PickCandidate, ReadTask, Decide, MarkReconciled, ApiGoto
      <4> QED
        BY <3>3, <4>1, <4>2, <4>3 DEF MarkFailedToStart
    <3> QED
      BY <3>1, <3>2, <3>3
  <2>2. Lost' \subseteq Lost
    BY <2>1 DEF Lost, Holding
  <2>3. IsFiniteSet(Lost') /\ Cardinality(Lost') <= Cardinality(Lost)
    BY <2>2, FS_Subset DEF LostInv
  <2>4. Cardinality(Lost') \in Nat
    BY <2>3, FS_CardinalityType
  <2> QED
    BY <1>1, <2>3, <2>4 DEF LostInv
<1> QED
  BY <1>2, <1>3

-----------------------------------------------------------------------------
LEMMA NextInv == Inv /\ [Next]_vars => Inv'
<1> SUFFICES ASSUME Inv, [Next]_vars PROVE Inv'
  OBVIOUS
<1>1. ASSUME NEW t \in Tasks, Act(t) PROVE Inv'
  <2>1. TypeOK /\ LimitInv /\ LostInv /\ TaskInv(t)
    BY DEF Inv
  <2>2. TypeOK'
    BY <1>1, <2>1, TypeStep
  <2>3. ASSUME NEW u \in Tasks PROVE TaskInv(u)'
    <3>1. CASE u = t
      BY <1>1, <2>1, <3>1, TaskStep
    <3>2. CASE u # t
      <4>1. Same(u)
        BY <1>1, <2>1, <3>2, OthersSame
      <4>2. TaskInv(u)
        BY DEF Inv
      <4> QED
        BY <4>1, <4>2 DEF Same, TaskInv, WorkIsOver, Terminal
    <3> QED
      BY <3>1, <3>2
  <2>4. LimitInv'
    <3>1. CASE Reserve(t)
      BY <2>1, <3>1, LimitReserve
    <3>2. CASE ~Reserve(t)
      BY <1>1, <2>1, <3>2, HoldersShrink, LimitShrinks
    <3> QED
      BY <3>1, <3>2
  <2>5. LostInv'
    BY <1>1, <2>1, LostStep
  <2> QED
    BY <2>2, <2>3, <2>4, <2>5 DEF Inv
<1>2. CASE UNCHANGED vars
  <2>1. UNCHANGED <<slot, attached, taskRun, api, run, outcome, pass, faults>>
    BY <1>2 DEF vars
  <2>2. TypeOK'
    BY <2>1 DEF Inv, TypeOK
  <2>3. \A u \in Tasks : TaskInv(u)'
    BY <2>1 DEF Inv, TaskInv, WorkIsOver
  <2>4. LimitInv'
    BY <2>1, LimitShrinks DEF Inv
  <2>5. LostInv'
    BY <2>1 DEF Inv, LostInv, Lost, Holding
  <2> QED
    BY <2>2, <2>3, <2>4, <2>5 DEF Inv
<1> QED
  BY <1>1, <1>2 DEF Next, Act

LEMMA InvHolds == Spec => []Inv
BY InitInv, NextInv, PTL DEF Spec

-----------------------------------------------------------------------------
\* Every variable of the admission keeps its type.
THEOREM TypeCorrect == Spec => []TypeOK
<1>1. Inv => TypeOK
  BY DEF Inv
<1> QED
  BY <1>1, InvHolds, PTL

\* Concurrency control: the slots held are never more than the limit of some task
\* that holds one, for any number of tasks and any change of the limits.
THEOREM SlotsWithinLimit == Spec => []HeldWithinLimit
<1>1. Inv => HeldWithinLimit
  BY DEF Inv, LimitInv, Covered, HeldWithinLimit
<1> QED
  BY <1>1, InvHolds, PTL

\* Reconcile passes never take the slot of a workflow that still works.
THEOREM ReconcileIsSafe == Spec => []ReconciledWorkIsOver
<1>1. Inv => ReconciledWorkIsOver
  BY DEF Inv, TaskInv, WorkIsOver, ReconciledWorkIsOver
<1> QED
  BY <1>1, InvHolds, PTL

\* A workflow without a slot belongs to a request that was answered with an error.
THEOREM RunnersHoldSlots == Spec => []RunningHoldsSlot
<1>1. Inv => RunningHoldsSlot
  <2> SUFFICES ASSUME Inv, NEW t \in Tasks, run[t] \in {"begin", "work", "stalled"},
                      api[t] \notin {"mark", "failed"}
               PROVE  Held(slot[t])
    BY DEF RunningHoldsSlot
  <2>1. TaskInv(t) /\ slot[t] \in SlotStatus
    BY DEF Inv, TypeOK
  <2>2. slot[t] \notin {"none", "rejected", "released", "reconciled"}
    BY <2>1 DEF TaskInv, WorkIsOver
  <2> QED
    BY <2>1, <2>2 DEF Held, SlotStatus
<1> QED
  BY <1>1, InvHolds, PTL

\* No step holds a slot again that was given back, reconciled or refused.
THEOREM SlotsStayReturned == Spec => SlotNeverRevived
<1> DEFINE Revives == \A t \in Tasks :
             slot[t] \in {"released", "rejected", "reconciled"} => ~Held(slot'[t])
<1>1. Inv /\ [Next]_vars => [Revives]_vars
  <2> SUFFICES ASSUME Inv, NEW t \in Tasks, Act(t) PROVE Revives
    BY DEF Next, Act
  <2>1. TypeOK /\ TaskInv(t)
    BY DEF Inv
  <2>2. CASE Reserve(t)
    <3>1. slot[t] = "none" /\ \A u \in Tasks \ {t} : slot'[u] = slot[u]
      BY <2>1, <2>2 DEF Reserve, TaskInv, TypeOK
    <3> QED
      BY <3>1 DEF Held
  <2>3. CASE ~Reserve(t)
    BY <2>1, <2>3, HoldersShrink DEF Held
  <2> QED
    BY <2>2, <2>3
<1> QED
  BY <1>1, InvHolds, PTL DEF Spec, SlotNeverRevived

\* A slot nobody can give back belongs to a request that met a fault of its own:
\* there are never more of them than faults, for any number of tasks.
THEOREM StrandedSlotsAreFaults == Spec => []StrandedSlotsCostFaults
<1>1. Inv => StrandedSlotsCostFaults
  <2> SUFFICES ASSUME Inv PROVE Cardinality(Stranded) <= faults
    BY DEF StrandedSlotsCostFaults
  <2>1. Stranded \subseteq Lost
    BY DEF Inv, TaskInv, Held, Stranded, Lost, Holding
  <2>2. IsFiniteSet(Lost) /\ Cardinality(Lost) <= faults /\ faults \in Nat
    BY AdmissionAssumption DEF Inv, LostInv, TypeOK
  <2>3. IsFiniteSet(Stranded) /\ Cardinality(Stranded) <= Cardinality(Lost)
    BY <2>1, <2>2, FS_Subset
  <2>4. Cardinality(Stranded) \in Nat /\ Cardinality(Lost) \in Nat
    BY <2>2, <2>3, FS_CardinalityType
  <2> QED
    BY <2>2, <2>3, <2>4
<1> QED
  BY <1>1, InvHolds, PTL

-----------------------------------------------------------------------------
(***************************************************************************)
(* Liveness. An acknowledged slot goes through two hands: the workflow's,  *)
(* until it gives the slot back, closes without having done so or stalls,  *)
(* and once it is closed the reconcile command's. The command may be in    *)
(* the middle of a pass over an older version of the row, which ends first.*)
(***************************************************************************)
Free(t)      == ~Held(slot[t])
Waits(t)     == api[t] = "answered" /\ Held(slot[t])
Works(t, pc) == Waits(t) /\ run[t] = pc
Closed(t)    == Works(t, "closed")
Stalled(t)   == run[t] = "stalled"

Between(t)     == Closed(t) /\ pass[t].pc = "idle"
Stale(t, pc)   == Closed(t) /\ pass[t].pc = pc /\ ~pass[t].attached
Current(t, pc) == Closed(t) /\ pass[t].pc = pc /\ pass[t].attached
Marks(t)       == Closed(t) /\ pass[t].pc = "mark"

\* What can still move the slot of an answered request, and its workflow.
LEMMA AnsweredMoves ==
  ASSUME Inv, [Next]_vars, NEW t \in Tasks, Waits(t)
  PROVE  /\ Waits(t)' \/ Free(t)'
         /\ \/ Same(t)
            \/ WorkflowStep(t)
            \/ Resume(t)
            \/ Abort(t)
            \/ Reconcile(t) /\ run'[t] = run[t]
            \/ DescribeFails(t) /\ run'[t] = run[t]
<1>1. CASE UNCHANGED vars
  BY <1>1 DEF vars, Same, Waits, Free
<1>2. ASSUME NEW u \in Tasks, Act(u), u # t PROVE Same(t)
  BY <1>2, OthersSame DEF Inv
<1>3. ASSUME Act(t)
      PROVE  /\ api'[t] = "answered"
             /\ \/ WorkflowStep(t) \/ Resume(t) \/ Abort(t)
                \/ Reconcile(t) /\ run'[t] = run[t]
                \/ DescribeFails(t) /\ run'[t] = run[t]
  <2>1. ~Reserve(t) /\ ~ApiStep(t) /\ ~ApiError(t)
    BY DEF Waits, Reserve, ApiStep, ApiError, CreateTaskRun, StartWorkflow,
           RecordStart, Activate, ReleaseAfterError, MarkFailedToStart
  <2> QED
    BY <1>3, <2>1
    DEF Act, Waits, WorkflowStep, Begin, Stall, Work, WriteStatus, ReleaseSlot, Finalize,
        Resume, Abort, Reconcile, DescribeFails, PickCandidate, ReadTask, Decide,
        MarkReconciled
<1> QED
  BY <1>1, <1>2, <1>3 DEF Next, Act, Same, Waits, Free

\* The workflow moves on to the release, to an early close, or until it stalls.
LEMMA WorkflowMoves ==
  ASSUME Inv, [Next]_vars, NEW t \in Tasks, Waits(t)
  PROVE  /\ \/ \E pc \in {"begin", "work", "write", "release", "closed"} : Works(t, pc)
            \/ Stalled(t)
         /\ Works(t, "begin")
              => \/ Works(t, "work")' \/ Closed(t)' \/ Free(t)'
                 \/ Works(t, "begin")' /\ ~WorkflowStep(t)
         /\ Works(t, "work")
              => \/ Works(t, "write")' \/ Stalled(t)' \/ Closed(t)' \/ Free(t)'
                 \/ Works(t, "work")' /\ ~WorkflowStep(t)
         /\ Works(t, "write")
              => \/ Works(t, "release")' \/ Closed(t)' \/ Free(t)'
                 \/ Works(t, "write")' /\ ~WorkflowStep(t)
         /\ Works(t, "release")
              => \/ Closed(t)' \/ Free(t)'
                 \/ Works(t, "release")' /\ ~WorkflowStep(t)
         /\ Closed(t) => Closed(t)' \/ Free(t)'
<1>1. TypeOK /\ TaskInv(t)
  BY DEF Inv
<1>2. Waits(t)' \/ Free(t)'
  BY AnsweredMoves
<1>3. CASE WorkflowStep(t)
  <2>1. /\ run[t] = "begin" => run'[t] = "work"
        /\ run[t] = "work" => run'[t] \in {"write", "stalled"}
        /\ run[t] = "write" => run'[t] = "release"
        /\ run[t] = "release" => ~Held(slot'[t])
        /\ run[t] # "closed"
    BY <1>1, <1>3 DEF WorkflowStep, Begin, Stall, Work, WriteStatus, ReleaseSlot, Finalize,
       RunGoto, Release, Held, TypeOK
  <2> QED
    BY <1>1, <1>2, <2>1 DEF TypeOK, RunPcs, TaskInv, Works, Closed, Stalled, Waits, Free
<1>4. CASE ~WorkflowStep(t)
  <2>1. run'[t] = run[t] \/ run'[t] = "closed" \/ Stalled(t)
    BY <1>1, <1>4, AnsweredMoves DEF Abort, Resume, Stalled, RunGoto, Same, TypeOK
  <2> QED
    BY <1>1, <1>2, <1>4, <2>1 DEF TypeOK, RunPcs, TaskInv, Works, Closed, Stalled, Waits, Free
<1> QED
  BY <1>3, <1>4

\* The command moves on through its pass; describe may fail instead.
LEMMA PassMoves ==
  ASSUME Inv, [Next]_vars, NEW t \in Tasks, Closed(t)
  PROVE  /\ \/ Between(t) \/ Marks(t)
            \/ \E pc \in {"task", "decide"} : Stale(t, pc) \/ Current(t, pc)
         /\ Between(t) => \/ Current(t, "task")' \/ Free(t)'
                          \/ Between(t)' /\ ~Reconcile(t)
         /\ Stale(t, "task") => \/ Stale(t, "decide")' \/ Free(t)'
                                \/ Stale(t, "task")' /\ ~Reconcile(t)
         /\ Stale(t, "decide") => \/ Between(t)' \/ Marks(t)' \/ Free(t)'
                                  \/ Stale(t, "decide")' /\ ~Reconcile(t)
         /\ Current(t, "task") => \/ Current(t, "decide")' \/ Free(t)'
                                  \/ Current(t, "task")' /\ ~Reconcile(t)
         /\ Current(t, "decide") => \/ Marks(t)' \/ Free(t)'
                                    \/ Between(t)' /\ DescribeFails(t)
                                    \/ Current(t, "decide")' /\ ~Reconcile(t)
         /\ Marks(t) => \/ Free(t)'
                        \/ Marks(t)' /\ ~Reconcile(t)
<1>1. TypeOK /\ TaskInv(t) /\ Waits(t) /\ attached[t]
  BY DEF Inv, Closed, Works, Waits, TaskInv, Held
<1>2. Closed(t)' \/ Free(t)'
  BY <1>1, WorkflowMoves
<1>3. CASE Reconcile(t)
  <2>1. /\ pass[t].pc = "idle" => pass'[t].pc = "task" /\ pass'[t].attached
        /\ pass[t].pc = "task" => /\ pass'[t].pc = "decide"
                                  /\ pass'[t].attached = pass[t].attached
        /\ pass[t].pc = "decide" => \/ pass'[t].pc = "mark"
                                    \/ pass'[t].pc = "idle" /\ ~pass[t].attached
        /\ pass[t].pc = "mark" => ~Held(slot'[t])
    BY <1>1, <1>3 DEF Reconcile, PickCandidate, ReadTask, Decide, MarkReconciled,
       PassGoto, NoPass, Open, Started, Held, TypeOK, Closed, Works
  <2> QED
    BY <1>1, <1>2, <2>1
    DEF TypeOK, Between, Stale, Current, Marks, Closed, Works, Free
<1>4. CASE ~Reconcile(t)
  <2>1. \/ pass'[t] = pass[t]
        \/ /\ DescribeFails(t) /\ pass[t].pc = "decide" /\ pass[t].attached
           /\ pass'[t].pc \in {"mark", "idle"}
    <3>1. ~WorkflowStep(t) /\ ~Resume(t) /\ ~Abort(t)
      BY DEF Closed, Works, WorkflowStep, Resume, Abort, Open, Begin, Stall, Work, WriteStatus,
             ReleaseSlot, Finalize
    <3> QED
      BY <1>1, <1>4, <3>1, AnsweredMoves DEF DescribeFails, PassGoto, NoPass, Same, TypeOK
  <2> QED
    BY <1>1, <1>2, <1>4, <2>1
    DEF TypeOK, Between, Stale, Current, Marks, Closed, Works, Free
<1> QED
  BY <1>3, <1>4

\* From some moment on, the workflow service answers what the command asks it.
Describable(t) == <>[][~DescribeFails(t)]_vars

LEMMA WorkflowEnds ==
  ASSUME NEW t \in Tasks
  PROVE  /\ []Inv /\ [][Next]_vars /\ []SlotKeepersGoOn /\ FairWorkflow(t)
         => (Waits(t) ~> (Closed(t) \/ Free(t) \/ Stalled(t)))
<1>1. Inv /\ Waits(t) => \/ Stalled(t) \/ Works(t, "begin") \/ Works(t, "work")
                         \/ Works(t, "write") \/ Works(t, "release") \/ Closed(t)
  BY DEF Inv, TypeOK, RunPcs, TaskInv, Waits, Works, Closed, Stalled
<1>2. Inv /\ [Next]_vars /\ Works(t, "begin")
        => \/ Works(t, "work")' \/ Closed(t)' \/ Free(t)'
           \/ Works(t, "begin")' /\ ~WorkflowStep(t)
  BY WorkflowMoves DEF Works
<1>3. Inv /\ [Next]_vars /\ Works(t, "work")
        => \/ Works(t, "write")' \/ Stalled(t)' \/ Closed(t)' \/ Free(t)'
           \/ Works(t, "work")' /\ ~WorkflowStep(t)
  BY WorkflowMoves DEF Works
<1>4. Inv /\ [Next]_vars /\ Works(t, "write")
        => \/ Works(t, "release")' \/ Closed(t)' \/ Free(t)'
           \/ Works(t, "write")' /\ ~WorkflowStep(t)
  BY WorkflowMoves DEF Works
<1>5. Inv /\ [Next]_vars /\ Works(t, "release")
        => \/ Closed(t)' \/ Free(t)'
           \/ Works(t, "release")' /\ ~WorkflowStep(t)
  BY WorkflowMoves DEF Works
<1>6. ASSUME NEW pc \in {"begin", "work", "write", "release"}
      PROVE  SlotKeepersGoOn /\ Works(t, pc) => ENABLED <<WorkflowStep(t)>>_vars
  BY DEF SlotKeepersGoOn, Works, Open, Started
<1>7. SlotKeepersGoOn /\ \/ Works(t, "begin") \/ Works(t, "work")
                         \/ Works(t, "write") \/ Works(t, "release")
        => ENABLED <<WorkflowStep(t)>>_vars
  BY <1>6
<1> QED
  BY <1>1, <1>2, <1>3, <1>4, <1>5, <1>7, PTL DEF FairWorkflow

LEMMA CommandEnds ==
  ASSUME NEW t \in Tasks
  PROVE  /\ []Inv /\ [][Next]_vars /\ []SlotKeepersGoOn /\ FairPasses(t)
         /\ Describable(t)
         => (Closed(t) ~> Free(t))
<1>1. Inv /\ Closed(t) => \/ Between(t) \/ Marks(t)
                          \/ Stale(t, "task") \/ Stale(t, "decide")
                          \/ Current(t, "task") \/ Current(t, "decide")
  BY DEF Inv, TypeOK, Between, Stale, Current, Marks
<1>2. Inv /\ [Next]_vars /\ Between(t)
        => \/ Current(t, "task")' \/ Free(t)'
           \/ Between(t)' /\ ~Reconcile(t)
  BY PassMoves DEF Between
<1>3. Inv /\ [Next]_vars /\ Stale(t, "task")
        => \/ Stale(t, "decide")' \/ Free(t)'
           \/ Stale(t, "task")' /\ ~Reconcile(t)
  BY PassMoves DEF Stale
<1>4. Inv /\ [Next]_vars /\ Stale(t, "decide")
        => \/ Between(t)' \/ Marks(t)' \/ Free(t)'
           \/ Stale(t, "decide")' /\ ~Reconcile(t)
  BY PassMoves DEF Stale
<1>5. Inv /\ [Next]_vars /\ Current(t, "task")
        => \/ Current(t, "decide")' \/ Free(t)'
           \/ Current(t, "task")' /\ ~Reconcile(t)
  BY PassMoves DEF Current
<1>6. Inv /\ [Next]_vars /\ Current(t, "decide")
        => \/ Marks(t)' \/ Free(t)'
           \/ Between(t)' /\ <<DescribeFails(t)>>_vars
           \/ Current(t, "decide")' /\ ~Reconcile(t)
  <2>1. DescribeFails(t) /\ Inv => vars' # vars
    BY AdmissionAssumption DEF DescribeFails, Fault, vars, Inv, TypeOK
  <2> QED
    BY <2>1, PassMoves DEF Current
<1>7. Inv /\ [Next]_vars /\ Marks(t)
        => Free(t)' \/ (Marks(t)' /\ ~Reconcile(t))
  BY PassMoves DEF Marks
<1>8. SlotKeepersGoOn /\ Closed(t) => ENABLED <<Reconcile(t)>>_vars
  BY DEF SlotKeepersGoOn, Closed, Works, Waits
<1>9. /\ Between(t) \/ Marks(t) => Closed(t)
      /\ Stale(t, "task") \/ Stale(t, "decide") => Closed(t)
      /\ Current(t, "task") \/ Current(t, "decide") => Closed(t)
  BY DEF Between, Marks, Stale, Current
<1> QED
  BY <1>1, <1>2, <1>3, <1>4, <1>5, <1>6, <1>7, <1>8, <1>9, PTL
  DEF FairPasses, Describable

\* An acknowledged slot is known to a workflow and, through the row, to the command.
THEOREM AcknowledgedSlotsAttended ==
  Spec /\ []SlotKeepersGoOn => []AcknowledgedSlotIsAttended
<1>1. Inv /\ SlotKeepersGoOn => AcknowledgedSlotIsAttended
  BY DEF Inv, TaskInv, Held, Started, AcknowledgedSlotIsAttended
<1> QED
  BY <1>1, InvHolds, PTL

\* Every acknowledged slot is given back or is with a workflow that stalled in its
\* work, if workflows take their own steps, passes go on (SlotKeepersGoOn, about
\* ENABLED, is left to TLC) and describe does not fail for ever, which MaxFaults sees
\* to in the runs. That a wait or a retry ends is not assumed; whenever a stalled
\* workflow goes on, the same holds again.
THEOREM AcknowledgedSlotsReturn ==
  /\ Spec /\ Fairness /\ []SlotKeepersGoOn
  /\ \A t \in Tasks : Describable(t)
  => AcknowledgedSlotReturns
<1>1. ASSUME NEW t \in Tasks
      PROVE  /\ Spec /\ FairWorkflow(t) /\ FairPasses(t) /\ []SlotKeepersGoOn
             /\ Describable(t)
             => ((api[t] = "answered") ~> (~Held(slot[t]) \/ run[t] = "stalled"))
  <2>1. api[t] = "answered" => Waits(t) \/ Free(t)
    BY DEF Waits, Free
  <2>2. (Free(t) => ~Held(slot[t])) /\ (Stalled(t) => run[t] = "stalled")
    BY DEF Free, Stalled
  <2> QED
    BY <2>1, <2>2, WorkflowEnds, CommandEnds, InvHolds, PTL DEF Spec
<1> QED
  BY <1>1 DEF Fairness, AcknowledgedSlotReturns
=============================================================================
