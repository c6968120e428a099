------------------------ MODULE AgentWorkflowProofs ------------------------
(***************************************************************************)
(* AgentWorkflow, for any budget and threshold: its types, that the ledger *)
(* is exact over all workflow runs, that the agent implements AgentBudget, *)
(* and that it reports its end.                                            *)
(*                                                                         *)
(* The ledger alone does not bound what was done: a tool that waits for an *)
(* approval runs when the ledger may have moved on. WorkInv keeps, for     *)
(* that moment, what was checked when the proposal was charged.            *)
(***************************************************************************)
EXTENDS AgentWorkflow, TLAPS

WorkInv ==
  /\ work.effects <= work.proposals
  /\ work.children <= work.handoffs
  /\ pc = "approve" => work.effects < work.proposals /\ work.proposals <= Max.tools

\* What the two rows say when the workflow has written them.
Reported ==
  /\ pc \in {"reportTask", "closed"} => agentRun = outcome
  /\ pc = "reportTask" => Owner
  /\ pc = "closed" /\ Owner =>
       taskRun = IF outcome = "completed" THEN "completed" ELSE "failed"

Inv == TypeOK /\ LedgerIsExact /\ WorkInv /\ Reported

LEMMA InitInv == Init => Inv
BY AgentAssumption
DEF Init, Inv, Works, AgentStatuses, TypeOK, LedgerIsExact, WorkInv, Reported, Pcs, Ledgers, NoLedger, NoWork, Outcomes

\* What each step adds to what was done, and to the ledger.
LEMMA SegmentDone ==
  ASSUME NEW w \in Works, NEW t \in Nat, NEW v, v = [w EXCEPT !.segments = @ + 1, !.turns = @ + t]
  PROVE  /\ v \in Works
         /\ v.segments = w.segments + 1 /\ v.turns = w.turns + t
         /\ v.proposals = w.proposals /\ v.effects = w.effects
         /\ v.handoffs = w.handoffs /\ v.children = w.children
<1>1. w.segments + 1 \in Nat /\ w.turns + t \in Nat
  BY DEF Works
<1>2. ASSUME NEW a \in Nat, NEW b \in Nat, v = [w EXCEPT !.segments = a, !.turns = b]
      PROVE  /\ v \in Works
             /\ v.segments = a /\ v.turns = b /\ v.proposals = w.proposals
             /\ v.effects = w.effects /\ v.handoffs = w.handoffs /\ v.children = w.children
  BY <1>2 DEF Works
<1> QED
  BY <1>1, <1>2

LEMMA Proposed ==
  ASSUME NEW w \in Works, NEW v, v = [w EXCEPT !.proposals = @ + 1]
  PROVE  /\ v \in Works
         /\ v.segments = w.segments /\ v.turns = w.turns
         /\ v.proposals = w.proposals + 1 /\ v.effects = w.effects
         /\ v.handoffs = w.handoffs /\ v.children = w.children
<1>1. w.proposals + 1 \in Nat
  BY DEF Works
<1>2. ASSUME NEW a \in Nat, v = [w EXCEPT !.proposals = a]
      PROVE  /\ v \in Works
             /\ v.segments = w.segments /\ v.turns = w.turns /\ v.proposals = a
             /\ v.effects = w.effects /\ v.handoffs = w.handoffs /\ v.children = w.children
  BY <1>2 DEF Works
<1> QED
  BY <1>1, <1>2

LEMMA Performed ==
  ASSUME NEW w \in Works, NEW v, v = [w EXCEPT !.proposals = @ + 1, !.effects = @ + 1]
  PROVE  /\ v \in Works
         /\ v.segments = w.segments /\ v.turns = w.turns
         /\ v.proposals = w.proposals + 1 /\ v.effects = w.effects + 1
         /\ v.handoffs = w.handoffs /\ v.children = w.children
<1>1. w.proposals + 1 \in Nat /\ w.effects + 1 \in Nat
  BY DEF Works
<1>2. ASSUME NEW a \in Nat, NEW b \in Nat, v = [w EXCEPT !.proposals = a, !.effects = b]
      PROVE  /\ v \in Works
             /\ v.segments = w.segments /\ v.turns = w.turns /\ v.proposals = a
             /\ v.effects = b /\ v.handoffs = w.handoffs /\ v.children = w.children
  BY <1>2 DEF Works
<1> QED
  BY <1>1, <1>2

LEMMA Approved ==
  ASSUME NEW w \in Works, NEW v, v = [w EXCEPT !.effects = @ + 1]
  PROVE  /\ v \in Works
         /\ v.segments = w.segments /\ v.turns = w.turns
         /\ v.proposals = w.proposals /\ v.effects = w.effects + 1
         /\ v.handoffs = w.handoffs /\ v.children = w.children
<1>1. w.effects + 1 \in Nat
  BY DEF Works
<1>2. ASSUME NEW a \in Nat, v = [w EXCEPT !.effects = a]
      PROVE  /\ v \in Works
             /\ v.segments = w.segments /\ v.turns = w.turns /\ v.proposals = w.proposals
             /\ v.effects = a /\ v.handoffs = w.handoffs /\ v.children = w.children
  BY <1>2 DEF Works
<1> QED
  BY <1>1, <1>2

LEMMA HandedOff ==
  ASSUME NEW w \in Works, NEW v, v = [w EXCEPT !.handoffs = @ + 1]
  PROVE  /\ v \in Works
         /\ v.segments = w.segments /\ v.turns = w.turns
         /\ v.proposals = w.proposals /\ v.effects = w.effects
         /\ v.handoffs = w.handoffs + 1 /\ v.children = w.children
<1>1. w.handoffs + 1 \in Nat
  BY DEF Works
<1>2. ASSUME NEW a \in Nat, v = [w EXCEPT !.handoffs = a]
      PROVE  /\ v \in Works
             /\ v.segments = w.segments /\ v.turns = w.turns /\ v.proposals = w.proposals
             /\ v.effects = w.effects /\ v.handoffs = a /\ v.children = w.children
  BY <1>2 DEF Works
<1> QED
  BY <1>1, <1>2

LEMMA ChildStarted ==
  ASSUME NEW w \in Works, NEW v, v = [w EXCEPT !.handoffs = @ + 1, !.children = @ + 1]
  PROVE  /\ v \in Works
         /\ v.segments = w.segments /\ v.turns = w.turns
         /\ v.proposals = w.proposals /\ v.effects = w.effects
         /\ v.handoffs = w.handoffs + 1 /\ v.children = w.children + 1
<1>1. w.handoffs + 1 \in Nat /\ w.children + 1 \in Nat
  BY DEF Works
<1>2. ASSUME NEW a \in Nat, NEW b \in Nat, v = [w EXCEPT !.handoffs = a, !.children = b]
      PROVE  /\ v \in Works
             /\ v.segments = w.segments /\ v.turns = w.turns /\ v.proposals = w.proposals
             /\ v.effects = w.effects /\ v.handoffs = a /\ v.children = b
  BY <1>2 DEF Works
<1> QED
  BY <1>1, <1>2

LEMMA SegmentCharged ==
  ASSUME NEW w \in Ledgers, NEW t \in Nat, NEW v, v = [w EXCEPT !.segments = @ + 1, !.turns = @ + t]
  PROVE  /\ v \in Ledgers
         /\ v.segments = w.segments + 1 /\ v.turns = w.turns + t
         /\ v.tools = w.tools /\ v.handoffs = w.handoffs
<1>1. w.segments + 1 \in Nat /\ w.turns + t \in Nat
  BY DEF Ledgers
<1>2. ASSUME NEW a \in Nat, NEW b \in Nat, v = [w EXCEPT !.segments = a, !.turns = b]
      PROVE  /\ v \in Ledgers
             /\ v.segments = a /\ v.turns = b /\ v.tools = w.tools
             /\ v.handoffs = w.handoffs
  BY <1>2 DEF Ledgers
<1> QED
  BY <1>1, <1>2

LEMMA ToolsCharged ==
  ASSUME NEW w \in Ledgers, NEW t \in Nat, NEW v, v = [w EXCEPT !.tools = @ + t]
  PROVE  /\ v \in Ledgers
         /\ v.segments = w.segments /\ v.turns = w.turns
         /\ v.tools = w.tools + t /\ v.handoffs = w.handoffs
<1>1. w.tools + t \in Nat
  BY DEF Ledgers
<1>2. ASSUME NEW a \in Nat, v = [w EXCEPT !.tools = a]
      PROVE  /\ v \in Ledgers
             /\ v.segments = w.segments /\ v.turns = w.turns /\ v.tools = a
             /\ v.handoffs = w.handoffs
  BY <1>2 DEF Ledgers
<1> QED
  BY <1>1, <1>2

LEMMA HandoffCharged ==
  ASSUME NEW w \in Ledgers, NEW v, v = [w EXCEPT !.handoffs = @ + 1]
  PROVE  /\ v \in Ledgers
         /\ v.segments = w.segments /\ v.turns = w.turns
         /\ v.tools = w.tools /\ v.handoffs = w.handoffs + 1
<1>1. w.handoffs + 1 \in Nat
  BY DEF Ledgers
<1>2. ASSUME NEW a \in Nat, v = [w EXCEPT !.handoffs = a]
      PROVE  /\ v \in Ledgers
             /\ v.segments = w.segments /\ v.turns = w.turns /\ v.tools = w.tools
             /\ v.handoffs = a
  BY <1>2 DEF Ledgers
<1> QED
  BY <1>1, <1>2

LEMMA Counters ==
  /\ \A w \in Works : /\ w.segments \in Nat /\ w.turns \in Nat /\ w.proposals \in Nat
                      /\ w.effects \in Nat /\ w.handoffs \in Nat /\ w.children \in Nat
  /\ \A l \in Ledgers : /\ l.segments \in Nat /\ l.turns \in Nat
                        /\ l.tools \in Nat /\ l.handoffs \in Nat
BY DEF Works, Ledgers

LEMMA TypeStep == ASSUME TypeOK, Next PROVE TypeOK'
<1> USE AgentAssumption DEF TypeOK, Pcs, Outcomes, AgentStatuses, Goto, GoOn, Finish
<1>1. CASE Begin
  <2>1. input.ledger \in Ledgers /\ input.index \in Nat
    OBVIOUS
  <2> QED
    BY <1>1, <2>1 DEF Begin
<1>2. CASE StopOnBudget
  BY <1>2 DEF StopOnBudget, memory
<1>3. CASE RunSegment
  <2>1. ledger' \in Ledgers /\ work' \in Works
    <3>1. PICK t \in 0..MaxTurns :
            /\ ledger' = [ledger EXCEPT !.segments = @ + 1, !.turns = @ + t]
            /\ work' = [work EXCEPT !.segments = @ + 1, !.turns = @ + t]
      BY <1>3 DEF RunSegment
    <3>2. t \in Nat
      OBVIOUS
    <3> QED
      BY <3>1, <3>2, SegmentDone, SegmentCharged
  <2>2. agentRun' \in AgentStatuses
    <3>1. PICK kind \in Kinds : agentRun' = StatusForSegment[kind]
      BY <1>3 DEF RunSegment
    <3> QED
      BY <3>1 DEF StatusForSegment, Kinds
  <2>3. todo' \in Nat /\ target' \in Targets \cup {NoTarget}
    <3>1. UNCHANGED todo \/ todo' \in 1..MaxProposals
      BY <1>3 DEF RunSegment
    <3>2. UNCHANGED target \/ target' \in Targets
      BY <1>3 DEF RunSegment
    <3> QED
      BY <3>1, <3>2
  <2>4. /\ pc' \in Pcs /\ outcome' \in Outcomes \cup {"none"}
        /\ pc' \in {"report", "reportTask", "closed"} => outcome' \in Outcomes
    BY <1>3 DEF RunSegment
  <2>5. UNCHANGED <<input, index, charged, taskRun, faults>>
    BY <1>3 DEF RunSegment
  <2> QED
    BY <2>1, <2>2, <2>3, <2>4, <2>5
<1>4. CASE ProposeTool
  <2>1. \/ work' = [work EXCEPT !.proposals = @ + 1]
        \/ work' = [work EXCEPT !.proposals = @ + 1, !.effects = @ + 1]
    BY <1>4 DEF ProposeTool
  <2>2. work' \in Works
    BY <2>1, Proposed, Performed
  <2>3. /\ todo' = todo - 1 /\ todo > 0 /\ charged' = charged + 1
        /\ UNCHANGED <<input, ledger, index, target, faults, outcome>>
        /\ pc' \in {"tools", "approve"} /\ agentRun' \in {agentRun, "waiting_human"}
        /\ taskRun' \in {taskRun, "waiting_human"}
    BY <1>4 DEF ProposeTool
  <2> QED
    BY <2>2, <2>3
<1>5. CASE Decide
  <2>1. UNCHANGED work \/ work' = [work EXCEPT !.effects = @ + 1]
    BY <1>5 DEF Decide
  <2>2. work' \in Works
    BY <2>1, Approved
  <2> QED
    BY <1>5, <2>2 DEF Decide, memory
<1>6. CASE PersistTools
  <2>1. ledger' \in Ledgers
    BY <1>6, ToolsCharged DEF PersistTools
  <2> QED
    BY <1>6, <2>1 DEF PersistTools
<1>7. CASE AskUser
  BY <1>7 DEF AskUser, memory
<1>8. CASE AnswerUser
  BY <1>8 DEF AnswerUser
<1>9. CASE Handoff
  <2>1. \/ work' = [work EXCEPT !.handoffs = @ + 1]
        \/ work' = [work EXCEPT !.handoffs = @ + 1, !.children = @ + 1]
    BY <1>9 DEF Handoff
  <2>2. work' \in Works
    BY <2>1, HandedOff, ChildStarted
  <2>3. ledger' \in Ledgers
    BY <1>9, HandoffCharged DEF Handoff
  <2>4. /\ \/ pc' = "child" /\ UNCHANGED outcome
           \/ pc' = "report" /\ outcome' \in {"failed", "budget_exceeded"}
        /\ UNCHANGED <<input, index, todo, charged, target, agentRun, taskRun, faults>>
    BY <1>9 DEF Handoff
  <2> QED
    BY <2>2, <2>3, <2>4
<1>10. CASE ChildEnds
  BY <1>10 DEF ChildEnds
<1>11. CASE ContinueAsNew
  <2>1. input' \in [ledger : Ledgers, index : Nat, chain : SUBSET Targets,
                    evaluation : BOOLEAN]
    BY <1>11 DEF ContinueAsNew
  <2>2. NoLedger \in Ledgers
    BY DEF NoLedger, Ledgers
  <2> QED
    BY <1>11, <2>1, <2>2 DEF ContinueAsNew
<1>12. CASE Loop
  BY <1>12 DEF Loop
<1>13. CASE Report
  BY <1>13 DEF Report, memory
<1>14. CASE ReportTask
  BY <1>14 DEF ReportTask, memory
<1>15. CASE Abort
  BY <1>15 DEF Abort, memory
<1> QED
  BY <1>1, <1>2, <1>3, <1>4, <1>5, <1>6, <1>7, <1>8, <1>9, <1>10, <1>11, <1>12, <1>13,
     <1>14, <1>15 DEF Next, Step

LEMMA LedgerStep == ASSUME TypeOK, LedgerIsExact, Next PROVE LedgerIsExact'
<1> USE AgentAssumption DEF LedgerIsExact, Goto, GoOn, Finish
<1>1. /\ work \in Works /\ ledger \in Ledgers /\ charged \in Nat
      /\ work.proposals \in Nat /\ ledger.tools \in Nat
  BY Counters DEF TypeOK
<1>2. CASE RunSegment
  <2>1. PICK t \in 0..MaxTurns :
          /\ ledger' = [ledger EXCEPT !.segments = @ + 1, !.turns = @ + t]
          /\ work' = [work EXCEPT !.segments = @ + 1, !.turns = @ + t]
    BY <1>2 DEF RunSegment
  <2>2. pc = "loop" /\ pc' # "begin" /\ UNCHANGED charged
    BY <1>2 DEF RunSegment
  <2>3. t \in Nat
    OBVIOUS
  <2>4. /\ work'.segments = work.segments + 1 /\ work'.turns = work.turns + t
        /\ work'.proposals = work.proposals /\ work'.handoffs = work.handoffs
    BY <1>1, <2>1, <2>3 DEF Works
  <2>5. /\ ledger'.segments = ledger.segments + 1 /\ ledger'.turns = ledger.turns + t
        /\ ledger'.tools = ledger.tools /\ ledger'.handoffs = ledger.handoffs
    BY <1>1, <2>1, <2>3 DEF Ledgers
  <2> QED
    BY <2>2, <2>4, <2>5
<1>3. CASE ProposeTool
  <2>1. \/ work' = [work EXCEPT !.proposals = @ + 1]
        \/ work' = [work EXCEPT !.proposals = @ + 1, !.effects = @ + 1]
    BY <1>3 DEF ProposeTool
  <2>2. pc = "tools" /\ pc' # "begin" /\ charged' = charged + 1 /\ UNCHANGED ledger
    BY <1>3 DEF ProposeTool
  <2>3. /\ work'.proposals = work.proposals + 1 /\ work'.segments = work.segments
        /\ work'.turns = work.turns /\ work'.handoffs = work.handoffs
    BY <1>1, <2>1, Proposed, Performed
  <2> QED
    BY <1>1, <2>2, <2>3
<1>4. CASE Decide
  <2>1. UNCHANGED work \/ work' = [work EXCEPT !.effects = @ + 1]
    BY <1>4 DEF Decide
  <2> QED
    BY <1>1, <1>4, <2>1, Approved DEF Decide, memory
<1>5. CASE PersistTools
  BY <1>1, <1>5, ToolsCharged DEF PersistTools
<1>6. CASE Handoff
  <2>1. \/ work' = [work EXCEPT !.handoffs = @ + 1]
        \/ work' = [work EXCEPT !.handoffs = @ + 1, !.children = @ + 1]
    BY <1>6 DEF Handoff
  <2>2. /\ ledger' = [ledger EXCEPT !.handoffs = @ + 1]
        /\ pc = "handoff" /\ pc' # "begin" /\ UNCHANGED charged
    BY <1>6 DEF Handoff
  <2>3. /\ work'.handoffs = work.handoffs + 1 /\ work'.segments = work.segments
        /\ work'.turns = work.turns /\ work'.proposals = work.proposals
    BY <1>1, <2>1, HandedOff, ChildStarted
  <2>4. /\ ledger'.handoffs = ledger.handoffs + 1 /\ ledger'.segments = ledger.segments
        /\ ledger'.turns = ledger.turns /\ ledger'.tools = ledger.tools
    BY <1>1, <2>2, HandoffCharged
  <2> QED
    BY <2>2, <2>3, <2>4
<1>7. CASE Begin
  BY <1>7 DEF Begin
<1>8. CASE ContinueAsNew
  BY <1>8 DEF ContinueAsNew
<1>9. CASE Abort
  BY <1>9 DEF Abort
<1>10. ASSUME UNCHANGED <<ledger, charged, work>>, pc \notin Over \cup {"begin"},
              pc' # "begin"
       PROVE  LedgerIsExact'
  BY <1>10 DEF Over
<1>11. CASE StopOnBudget
  BY <1>11, <1>10 DEF StopOnBudget, Over, memory
<1>12. CASE AskUser
  BY <1>12, <1>10 DEF AskUser, Over, memory
<1>13. CASE AnswerUser \/ ChildEnds \/ Loop
  BY <1>13, <1>10 DEF AnswerUser, ChildEnds, Loop, Over
<1>14. CASE Report \/ ReportTask
  BY <1>14, <1>10 DEF Report, ReportTask, Over, memory
<1> QED
  BY <1>2, <1>3, <1>4, <1>5, <1>6, <1>7, <1>8, <1>9, <1>11, <1>12, <1>13, <1>14
  DEF Next, Step

LEMMA WorkStep == ASSUME Inv, Next PROVE WorkInv'
<1> USE AgentAssumption DEF Inv, WorkInv, Goto, GoOn, Finish
<1>1. /\ work \in Works /\ ledger \in Ledgers /\ charged \in Nat
      /\ work.proposals \in Nat /\ work.effects \in Nat
      /\ work.handoffs \in Nat /\ work.children \in Nat
  BY Counters DEF TypeOK
<1>2. CASE RunSegment
  <2>1. PICK t \in 0..MaxTurns :
          work' = [work EXCEPT !.segments = @ + 1, !.turns = @ + t]
    BY <1>2 DEF RunSegment
  <2>2. pc' # "approve"
    BY <1>2 DEF RunSegment
  <2>3. t \in Nat
    OBVIOUS
  <2>4. /\ work'.effects = work.effects /\ work'.proposals = work.proposals
        /\ work'.children = work.children /\ work'.handoffs = work.handoffs
    BY <1>1, <2>1, <2>3 DEF Works
  <2> QED
    BY <2>2, <2>4
<1>3. CASE ProposeTool
  <2>1. work.proposals = ledger.tools + charged
    BY <1>3, <1>1, Counters DEF ProposeTool, LedgerIsExact
  <2>2. \/ work' = [work EXCEPT !.proposals = @ + 1] /\ pc' = "tools"
        \/ work' = [work EXCEPT !.proposals = @ + 1, !.effects = @ + 1] /\ pc' = "tools"
        \/ WithinTools /\ work' = [work EXCEPT !.proposals = @ + 1]
    BY <1>3 DEF ProposeTool
  <2>3. CASE work' = [work EXCEPT !.proposals = @ + 1, !.effects = @ + 1] /\ pc' = "tools"
    <3>1. /\ work'.effects = work.effects + 1 /\ work'.proposals = work.proposals + 1
          /\ work'.children = work.children /\ work'.handoffs = work.handoffs
      BY <1>1, <2>3, Performed
    <3> QED
      BY <1>1, <2>3, <3>1
  <2>4. CASE /\ work' = [work EXCEPT !.proposals = @ + 1]
             /\ WithinTools \/ pc' = "tools"
    <3>1. /\ work'.effects = work.effects /\ work'.proposals = work.proposals + 1
          /\ work'.children = work.children /\ work'.handoffs = work.handoffs
      BY <1>1, <2>4, Proposed
    <3>2. pc' = "approve" => work.proposals + 1 <= Max.tools
      BY <2>1, <2>4 DEF WithinTools
    <3> QED
      BY <1>1, <3>1, <3>2
  <2> QED
    BY <2>2, <2>3, <2>4
<1>4. CASE Decide
  <2>1. pc = "approve" /\ pc' = "tools"
    BY <1>4 DEF Decide
  <2>2. UNCHANGED work \/ work' = [work EXCEPT !.effects = @ + 1]
    BY <1>4 DEF Decide
  <2> QED
    BY <1>1, <2>1, <2>2, Approved
<1>5. CASE Handoff
  <2>1. \/ work' = [work EXCEPT !.handoffs = @ + 1]
        \/ work' = [work EXCEPT !.handoffs = @ + 1, !.children = @ + 1]
    BY <1>5 DEF Handoff
  <2>2. pc' # "approve"
    BY <1>5 DEF Handoff
  <2>3. /\ work'.effects = work.effects /\ work'.proposals = work.proposals
        /\ work'.handoffs = work.handoffs + 1
        /\ work'.children \in {work.children, work.children + 1}
    BY <1>1, <2>1, HandedOff, ChildStarted
  <2> QED
    BY <1>1, <2>2, <2>3
<1>6. ASSUME UNCHANGED work, pc' # "approve" PROVE WorkInv'
  BY <1>6
<1> QED
  BY <1>2, <1>3, <1>4, <1>5, <1>6
  DEF Next, Step, Begin, StopOnBudget, PersistTools, AskUser, AnswerUser, ChildEnds,
      ContinueAsNew, Loop, Report, ReportTask, Abort

\* The rows are written on the way to the end, and by nobody after it.
LEMMA ReportStep == ASSUME Inv, Next PROVE Reported'
<1>1. ASSUME pc' \notin {"reportTask", "closed"} PROVE Reported'
  BY <1>1 DEF Reported
<1>2. CASE Report \/ ReportTask
  BY <1>2, AgentAssumption DEF Inv, Reported, Report, ReportTask, GoOn, Goto
<1>3. CASE RunSegment
  BY <1>1, <1>3 DEF RunSegment, GoOn, Goto, Finish
<1>4. CASE Next /\ ~RunSegment /\ ~Report /\ ~ReportTask
  BY <1>1, <1>4
  DEF Next, Step, Begin, StopOnBudget, ProposeTool, PersistTools, AskUser, AnswerUser, Handoff,
      ChildEnds, ContinueAsNew, Loop, Decide, Abort, Goto, GoOn, Finish, Over
<1> QED
  BY <1>2, <1>3, <1>4

LEMMA InvStutter == ASSUME Inv, UNCHANGED vars PROVE Inv'
BY DEF Inv, TypeOK, LedgerIsExact, WorkInv, Reported, vars, memory

LEMMA InvInvariant == Spec => []Inv
<1>1. Inv /\ [Next]_vars => Inv'
  BY TypeStep, LedgerStep, WorkStep, ReportStep, InvStutter DEF Inv
<1> QED
  BY InitInv, <1>1, PTL DEF Spec

-----------------------------------------------------------------------------
\* The variables keep their types, whatever the budget and the threshold.
THEOREM AgentTypes == Spec => []TypeOK
<1>1. Inv => TypeOK
  BY DEF Inv
<1> QED
  BY InvInvariant, <1>1, PTL

\* The ledger is what was done over all workflow runs: denied proposals and refused
\* handoffs count, and continuing as new loses nothing (maybeContinueAsNew).
THEOREM LedgerExact == Spec => []LedgerIsExact
<1>1. Inv => LedgerIsExact
  BY DEF Inv
<1> QED
  BY InvInvariant, <1>1, PTL

-----------------------------------------------------------------------------
LEMMA BudgetInit == Init => Budget!Init
BY DEF Init, Budget!Init, NoWork, Over

\* Every step of the agent is a step of its budget, or none.
LEMMA BudgetStep ==
  ASSUME Inv, Next
  PROVE  Budget!Work \/ Budget!Close \/ UNCHANGED Budget!vars
<1> USE AgentAssumption DEF Inv, Goto, GoOn, Finish, Over
<1>1. /\ work \in Works /\ ledger \in Ledgers /\ charged \in Nat
      /\ work.proposals \in Nat /\ work.effects \in Nat
      /\ work.handoffs \in Nat /\ work.children \in Nat
  BY Counters DEF TypeOK
<1>2. CASE RunSegment
  <2>1. PICK t \in 0..MaxTurns :
          work' = [work EXCEPT !.segments = @ + 1, !.turns = @ + t]
    BY <1>2 DEF RunSegment
  <2>2. work.segments < Max.segments /\ work.turns < Max.turns
    <3>1. work.segments = ledger.segments /\ work.turns = ledger.turns
      BY <1>2 DEF RunSegment, LedgerIsExact
    <3>2. ledger.segments \in Nat /\ ledger.turns \in Nat
      BY <1>1, Counters
    <3>3. Max.segments \in Nat /\ Max.turns \in Nat
      OBVIOUS
    <3> QED
      BY <1>2, <3>1, <3>2, <3>3 DEF RunSegment, Exhausted
  <2>3. t \in Nat
    OBVIOUS
  <2>4. Budget!Segment
    <3>1. /\ work'.segments = work.segments + 1 /\ work'.turns = work.turns + t
          /\ work'.proposals = work.proposals /\ work'.effects = work.effects
          /\ work'.children = work.children
      BY <1>1, <2>1, <2>3 DEF Works
    <3>2. work.turns + t \in work.turns..(work.turns + MaxTurns)
      BY <1>1, Counters
    <3> QED
      BY <2>2, <3>1, <3>2 DEF Budget!Segment
  <2>5. pc \notin Over /\ pc' \notin Over
    BY <1>2 DEF RunSegment
  <2> QED
    BY <2>4, <2>5 DEF Budget!Work
<1>3. CASE ProposeTool
  <2>1. pc \notin Over /\ pc' \notin Over
    BY <1>3 DEF ProposeTool
  <2>2. CASE work' = [work EXCEPT !.proposals = @ + 1]
    <3>1. Budget!Propose
      <4>1. /\ work'.segments = work.segments /\ work'.turns = work.turns
            /\ work'.proposals = work.proposals + 1 /\ work'.effects = work.effects
            /\ work'.children = work.children
        BY <1>1, <2>2, Proposed
      <4> QED
        BY <4>1 DEF Budget!Propose
    <3> QED
      BY <2>1, <3>1 DEF Budget!Work
  <2>3. CASE WithinTools /\ work' = [work EXCEPT !.proposals = @ + 1, !.effects = @ + 1]
    <3>1. work.proposals = ledger.tools + charged
      BY <1>3, <1>1, Counters DEF ProposeTool, LedgerIsExact
    <3>2. work.effects < work.proposals + 1 /\ work.proposals + 1 <= Max.tools
      BY <1>1, <2>3, <3>1 DEF WithinTools, WorkInv
    <3>3. Budget!Effect
      <4>1. /\ work'.segments = work.segments /\ work'.turns = work.turns
            /\ work'.proposals = work.proposals + 1 /\ work'.effects = work.effects + 1
            /\ work'.children = work.children
        BY <1>1, <2>3, Performed
      <4> QED
        BY <3>2, <4>1 DEF Budget!Effect
    <3> QED
      BY <2>1, <3>3 DEF Budget!Work
  <2> QED
    BY <1>3, <2>2, <2>3 DEF ProposeTool
<1>4. CASE Decide
  <2>1. pc \notin Over /\ pc' \notin Over
    BY <1>4 DEF Decide
  <2>2. CASE work' = [work EXCEPT !.effects = @ + 1]
    <3>1. work.effects < work.proposals /\ work.proposals <= Max.tools
      BY <1>4 DEF Decide, WorkInv
    <3>2. Budget!Effect
      <4>1. /\ work'.segments = work.segments /\ work'.turns = work.turns
            /\ work'.proposals = work.proposals /\ work'.effects = work.effects + 1
            /\ work'.children = work.children
        BY <1>1, <2>2, Approved
      <4> QED
        BY <3>1, <4>1 DEF Budget!Effect
    <3> QED
      BY <2>1, <3>2 DEF Budget!Work
  <2>3. CASE UNCHANGED work
    BY <2>1, <2>3 DEF Budget!vars, Budget!work
  <2> QED
    BY <1>4, <2>2, <2>3 DEF Decide
<1>5. CASE Handoff
  <2>1. pc \notin Over /\ pc' \notin Over
    BY <1>5 DEF Handoff
  <2>2. CASE work' = [work EXCEPT !.handoffs = @ + 1]
    <3>1. UNCHANGED <<work.segments, work.turns, work.proposals, work.effects, work.children>>
      BY <1>1, <2>2, HandedOff
    <3> QED
      BY <2>1, <3>1 DEF Budget!vars, Budget!work
  <2>3. CASE /\ ledger.handoffs < Max.handoffs
             /\ work' = [work EXCEPT !.handoffs = @ + 1, !.children = @ + 1]
    <3>1. work.handoffs = ledger.handoffs
      BY <1>5 DEF Handoff, LedgerIsExact
    <3>2. Max.handoffs \in Nat
      OBVIOUS
    <3>3. work.children < Max.handoffs
      BY <1>1, <2>3, <3>1, <3>2 DEF WorkInv
    <3>4. Budget!StartChild
      <4>1. /\ work'.segments = work.segments /\ work'.turns = work.turns
            /\ work'.proposals = work.proposals /\ work'.effects = work.effects
            /\ work'.children = work.children + 1
        BY <1>1, <2>3, ChildStarted
      <4> QED
        BY <3>3, <4>1 DEF Budget!StartChild
    <3> QED
      BY <2>1, <3>4 DEF Budget!Work
  <2> QED
    BY <1>5, <2>2, <2>3 DEF Handoff
<1>6. ASSUME UNCHANGED work, pc \notin Over
      PROVE  Budget!Close \/ UNCHANGED Budget!vars
  BY <1>6 DEF Budget!Close, Budget!vars, Budget!work
<1> QED
  BY <1>2, <1>3, <1>4, <1>5, <1>6
  DEF Next, Step, Begin, StopOnBudget, PersistTools, AskUser, AnswerUser, ChildEnds,
      ContinueAsNew, Loop, Report, ReportTask, Abort

\* The agent implements its budget: nothing is done beyond it, whatever happens and
\* over however many workflow runs (budgetExceededForLedger, executeProposedTools).
THEOREM AgentKeepsToBudget == Spec => KeepsToBudget
<1>1. Inv /\ [Next]_vars => [Budget!Work \/ Budget!Close]_(Budget!vars)
  BY BudgetStep DEF vars, Budget!vars, Budget!work
<1> QED
  BY BudgetInit, InvInvariant, <1>1, PTL DEF Spec, KeepsToBudget, Budget!Spec

-----------------------------------------------------------------------------
(***************************************************************************)
(* Liveness. Segments and proposals are the only loops of the workflow.    *)
(* Once there are no more of them, its stages follow one another to the    *)
(* end, or to a human or a child that does not answer. That there are      *)
(* finitely many is by counting: each is added to work, which              *)
(* KeepsToBudget and MaxProposals bound. The count itself is an induction, *)
(* and left to TLC.                                                        *)
(***************************************************************************)
Quiet   == ~RunSegment /\ ~ProposeTool
Settles == <>[][Quiet]_vars

Waiting == {"approve", "user", "child"}

\* Whenever the turn is the workflow's, it has a next step.
StepGoesOn == pc \notin Over \cup Waiting => ENABLED <<Step>>_vars

Rest ==
  \/ /\ pc = "closed" /\ agentRun = outcome
     /\ Owner => taskRun = IF outcome = "completed" THEN "completed" ELSE "failed"
  \/ pc \in {"aborted", "approve", "user", "child"}

At(S)    == pc \in S
Going    == []Inv /\ [][Next]_vars /\ []StepGoesOn /\ Fairness /\ [][Quiet]_vars
Rests(S) == At(S) ~> []Rest

Succ(p) ==
  CASE p = "approve"    -> {"tools"}
    [] p = "ask"        -> {"user"}
    [] p \in {"tools", "user"} -> {"boundary"}
    [] p = "handoff"    -> {"report", "child"}
    [] p = "child"      -> {"report", "boundary"}
    [] p = "boundary"   -> {"begin", "loop"}
    [] p = "begin"      -> {"loop", "report"}
    [] p = "loop"       -> {"report"}
    [] p = "report"     -> {"reportTask", "closed"}
    [] p = "reportTask" -> {"closed"}
    [] OTHER -> {}

LEMMA QuietMoves ==
  ASSUME Inv, [Next]_vars, [Quiet]_vars
  PROVE  /\ \/ pc' = pc /\ (pc \notin Waiting => ~Step)
            \/ pc' \in Succ(pc) \cup {"aborted"}
         /\ pc \in Over => pc' = pc
<1>1. ASSUME Step, pc' = pc PROVE ProposeTool /\ vars' # vars
  <2>1. ~RunSegment
    BY <1>1 DEF RunSegment, Goto, GoOn, Finish
  <2>2. ProposeTool
    BY <1>1, <2>1
    DEF Step, Begin, StopOnBudget, PersistTools, AskUser, Handoff, ChildEnds, ContinueAsNew,
        Loop, Report, ReportTask, Goto, GoOn, Finish
  <2>3. todo' # todo
    BY <2>2 DEF ProposeTool, Inv, TypeOK
  <2> QED
    BY <2>2, <2>3 DEF vars, memory
<1>2. pc' = pc => ~Step
  BY <1>1 DEF Quiet
<1>3. CASE UNCHANGED vars
  BY <1>2, <1>3 DEF vars
<1>4. CASE Next /\ Quiet
  <2>1. Report => Succ(pc) = {"reportTask", "closed"} /\ pc' \in {"reportTask", "closed"}
    BY DEF Succ, Report, GoOn, Goto
  <2>2. Next /\ Quiet /\ ~Report => pc' \in Succ(pc) \cup {"aborted"}
    BY DEF Next, Step, Quiet, Begin, StopOnBudget, PersistTools, AskUser, AnswerUser, Handoff,
       ChildEnds, ContinueAsNew, Loop, ReportTask, Decide, Abort, Goto, GoOn, Finish, Succ
  <2>3. pc \notin Over
    BY <1>4 DEF Next, Step, Quiet, Begin, StopOnBudget, PersistTools, AskUser, AnswerUser,
       Handoff, ChildEnds, ContinueAsNew, Loop, Report, ReportTask, Decide, Abort, Over
  <2> QED
    BY <1>4, <2>1, <2>2, <2>3
<1> QED
  BY <1>3, <1>4

\* Who is at the end stays there, with the rows written.
LEMMA EndRests == Going => Rests(Over)
<1>1. Inv /\ At(Over) => Rest
  BY DEF Inv, Reported, At, Over, Rest
<1>2. Inv /\ [Next]_vars /\ [Quiet]_vars /\ At(Over) => At(Over)'
  BY QuietMoves DEF At
<1> QED
  BY <1>1, <1>2, PTL DEF Going, Rests

\* A stage is left for one that comes after it; but one may wait for ever.
LEMMA StageRests ==
  ASSUME NEW p \in Pcs \ (Over \cup Waiting), NEW S, Over \cup Succ(p) \subseteq S
  PROVE  Going /\ Rests(S) => Rests(S \cup {p})
<1>1. At(S \cup {p}) => At(S) \/ At({p})
  BY DEF At
<1>2. Inv /\ [Next]_vars /\ [Quiet]_vars /\ At({p})
        => At(S)' \/ (At({p})' /\ ~Step)
  BY QuietMoves DEF At, Over
<1>3. StepGoesOn /\ At({p}) => ENABLED <<Step>>_vars
  BY DEF StepGoesOn, At
<1> QED
  BY <1>1, <1>2, <1>3, PTL DEF Going, Rests, Fairness

LEMMA WaitRests ==
  ASSUME NEW p \in Waiting, NEW S, Over \cup Succ(p) \subseteq S
  PROVE  Going /\ Rests(S) => Rests(S \cup {p})
<1>1. At(S \cup {p}) => At(S) \/ At({p})
  BY DEF At
<1>2. Inv /\ [Next]_vars /\ [Quiet]_vars /\ At({p}) => At(S)' \/ At({p})'
  BY QuietMoves DEF At, Over
<1>3. At({p}) => Rest
  BY DEF At, Waiting, Rest
<1> QED
  BY <1>1, <1>2, <1>3, PTL DEF Going, Rests

\* From the end backwards: each stage and all that come after it.
Reporting  == Over \cup {"reportTask"}
Reports    == Reporting \cup {"report"}
Loops      == Reports \cup {"loop"}
Begins     == Loops \cup {"begin"}
Boundaries == Begins \cup {"boundary"}
Tools      == Boundaries \cup {"tools"}
Children   == Tools \cup {"child"}
Handoffs   == Children \cup {"handoff"}
Users      == Handoffs \cup {"user"}
Asks       == Users \cup {"ask"}
Approvals  == Asks \cup {"approve"}

LEMMA AllRest == Going => Rests(Approvals)
<1>1. Going => Rests(Over)
  BY EndRests
<1>2. Going => Rests(Reporting)
  <2>1. "reportTask" \in Pcs \ (Over \cup Waiting) /\ Over \cup Succ("reportTask") \subseteq Over
    BY DEF Pcs, Waiting, Over, Succ
  <2> QED
    BY <1>1, <2>1, StageRests DEF Reporting
<1>3. Going => Rests(Reports)
  <2>1. "report" \in Pcs \ (Over \cup Waiting) /\ Over \cup Succ("report") \subseteq Reporting
    BY DEF Pcs, Waiting, Reporting, Over, Succ
  <2> QED
    BY <1>2, <2>1, StageRests DEF Reports
<1>4. Going => Rests(Loops)
  <2>1. "loop" \in Pcs \ (Over \cup Waiting) /\ Over \cup Succ("loop") \subseteq Reports
    BY DEF Pcs, Waiting, Reports, Reporting, Over, Succ
  <2> QED
    BY <1>3, <2>1, StageRests DEF Loops
<1>5. Going => Rests(Begins)
  <2>1. "begin" \in Pcs \ (Over \cup Waiting) /\ Over \cup Succ("begin") \subseteq Loops
    BY DEF Pcs, Waiting, Loops, Reports, Reporting, Over, Succ
  <2> QED
    BY <1>4, <2>1, StageRests DEF Begins
<1>6. Going => Rests(Boundaries)
  <2>1. "boundary" \in Pcs \ (Over \cup Waiting) /\ Over \cup Succ("boundary") \subseteq Begins
    BY DEF Pcs, Waiting, Begins, Loops, Reports, Reporting, Over, Succ
  <2> QED
    BY <1>5, <2>1, StageRests DEF Boundaries
<1>7. Going => Rests(Tools)
  <2>1. "tools" \in Pcs \ (Over \cup Waiting) /\ Over \cup Succ("tools") \subseteq Boundaries
    BY DEF Pcs, Waiting, Boundaries, Begins, Loops, Reports, Reporting, Over, Succ
  <2> QED
    BY <1>6, <2>1, StageRests DEF Tools
<1>8. Going => Rests(Children)
  <2>1. "child" \in Waiting /\ Over \cup Succ("child") \subseteq Tools
    BY DEF Waiting, Tools, Boundaries, Begins, Loops, Reports, Reporting, Over, Succ
  <2> QED
    BY <1>7, <2>1, WaitRests DEF Children
<1>9. Going => Rests(Handoffs)
  <2>1. "handoff" \in Pcs \ (Over \cup Waiting) /\ Over \cup Succ("handoff") \subseteq Children
    BY DEF Pcs, Waiting, Children, Tools, Boundaries, Begins, Loops, Reports, Reporting, Over, Succ
  <2> QED
    BY <1>8, <2>1, StageRests DEF Handoffs
<1>10. Going => Rests(Users)
  <2>1. "user" \in Waiting /\ Over \cup Succ("user") \subseteq Handoffs
    BY DEF Waiting, Handoffs, Children, Tools, Boundaries, Begins, Loops, Reports, Reporting, Over, Succ
  <2> QED
    BY <1>9, <2>1, WaitRests DEF Users
<1>11. Going => Rests(Asks)
  <2>1. "ask" \in Pcs \ (Over \cup Waiting) /\ Over \cup Succ("ask") \subseteq Users
    BY DEF Pcs, Waiting, Users, Handoffs, Children, Tools, Boundaries, Begins, Loops, Reports, Reporting, Over, Succ
  <2> QED
    BY <1>10, <2>1, StageRests DEF Asks
<1>12. Going => Rests(Approvals)
  <2>1. "approve" \in Waiting /\ Over \cup Succ("approve") \subseteq Asks
    BY DEF Waiting, Asks, Users, Handoffs, Children, Tools, Boundaries, Begins, Loops, Reports, Reporting, Over, Succ
  <2> QED
    BY <1>11, <2>1, WaitRests DEF Approvals
<1> QED
  BY <1>12

\* An agent with no more segments and proposals to come ends, and its rows say how, or
\* it waits for a human or its child (AgentReports); that Step can be taken (StepGoesOn,
\* about ENABLED) TLC checks with AgentReports, which a workflow that is stuck violates.
THEOREM AgentsReport ==
  Spec /\ Fairness /\ []StepGoesOn /\ Settles => AgentReports
<1>1. Inv => At(Approvals)
  BY DEF Inv, TypeOK, Pcs, At, Approvals, Asks, Users, Handoffs, Children, Tools, Boundaries,
         Begins, Loops, Reports, Reporting, Over
<1>2. Going => <>[]Rest
  BY <1>1, AllRest, PTL DEF Going, Rests
<1>3. Spec /\ Fairness /\ []StepGoesOn /\ Settles => <>[]Rest
  BY <1>2, InvInvariant, PTL DEF Spec, Going, Settles, Fairness
<1> QED
  BY <1>3 DEF AgentReports, Rest
=============================================================================
