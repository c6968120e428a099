------------------------- MODULE ConversationProofs -------------------------
(***************************************************************************)
(* Conversation, for any messages, requests and number of faults: its      *)
(* safety properties, and that every turn ends.                            *)
(*                                                                         *)
(* That a turn has one owner at a time - its request until the workflow is *)
(* started, then the workflow - is what makes the rest true: Own and Alone *)
(* say so in any run, Unhurt says, of a run in which no call was lost,     *)
(* that an owner finds the reply as it left it.                            *)
(***************************************************************************)
EXTENDS Conversation, FiniteSetTheorems, TLAPS

\* Whoever acts on a turn, the turn is there.
Own ==
  /\ \A q \in Reqs : req[q].pc \in Creators => order[req[q].msg] # 0
  /\ \A m \in Msgs : wf[m] # "none" => order[m] # 0
  /\ \A f \in late : order[f.msg] # 0

Alone ==
  /\ \A q, r \in Reqs :
       req[q].pc \in Creators /\ req[r].pc \in Creators /\ req[q].msg = req[r].msg => q = r
  /\ \A m, n \in Msgs : reply[m] = "queued" /\ reply[n] = "queued" => m = n

\* Turns are numbered as they are created, and only turns that are there are read.
Ordered ==
  /\ \A m \in Msgs : order[m] <= Cardinality(Turns)
  /\ \A m, n \in Turns : order[m] = order[n] => m = n
  /\ \A q \in Reqs : At(q, "create") => req[q].context \subseteq Turns
  /\ \A m \in Msgs : \A c \in context[m] : c \in Turns /\ order[c] < order[m]

Live == {"run", "stalled", "reportDone", "complete", "reportFailed", "failReply", "catchReply", "generic"}

UnhurtReqs ==
  \A q \in Reqs : req[q].pc \in Creators =>
    /\ req[q].pc \in {"route", "start", "clarify", "reject"}
    /\ reply[req[q].msg] = "queued" /\ wf[req[q].msg] = "none"

UnhurtContext ==
  /\ \A q \in Reqs : At(q, "create") => \A c \in req[q].context : reply[c] = "completed"
  /\ \A m \in Msgs : \A c \in context[m] : reply[c] = "completed"

UnhurtFlow ==
  \A m \in Msgs :
    /\ wf[m] \in Live => reply[m] = "queued"
    /\ wf[m] = "complete" => task[m] = "completed"
    /\ wf[m] = "failReply" => task[m] = "failed"
    /\ wf[m] = "catchTask" => reply[m] = "failed"
    /\ wf[m] = "closed" => reply[m] = task[m] /\ reply[m] \in Final

Unhurt == faults = 0 => late = {} /\ UnhurtReqs /\ UnhurtContext /\ UnhurtFlow

Inv == TypeOK /\ Own /\ Alone /\ Ordered /\ Unhurt

-----------------------------------------------------------------------------
LEMMA AtMostOne ==
  ASSUME NEW S, \A x, y \in S : x = y
  PROVE  Cardinality(S) <= 1
<1>1. CASE S = {}
  BY <1>1, FS_EmptySet
<1>2. CASE S # {}
  <2>1. PICK x \in S : TRUE
    BY <1>2
  <2>2. S = {x}
    BY <2>1
  <2> QED
    BY <2>2, FS_Singleton
<1> QED
  BY <1>1, <1>2

LEMMA TurnsGrow ==
  ASSUME TypeOK, NEW m \in Msgs, NEW k \in Nat, k > 0, order[m] = 0,
         order' = [order EXCEPT ![m] = k]
  PROVE  Turns' = Turns \cup {m} /\ m \notin Turns
BY DEF Turns, TypeOK

\* A new turn takes the next place.
LEMMA NewTurn ==
  ASSUME TypeOK, NEW m \in Msgs, order[m] = 0,
         order' = [order EXCEPT ![m] = Cardinality(Turns) + 1]
  PROVE  /\ Turns' = Turns \cup {m} /\ m \notin Turns
         /\ Cardinality(Turns) \in Nat
         /\ Cardinality(Turns') = Cardinality(Turns) + 1
<1>1. IsFiniteSet(Turns)
  BY ConversationAssumption, FS_Subset DEF Turns
<1>2. Cardinality(Turns) \in Nat
  BY <1>1, FS_CardinalityType
<1>3. Cardinality(Turns) + 1 \in Nat /\ Cardinality(Turns) + 1 > 0
  BY <1>2
<1>4. Turns' = Turns \cup {m} /\ m \notin Turns
  BY <1>3, TurnsGrow
<1> QED
  BY <1>1, <1>2, <1>4, FS_AddElement

LEMMA InitInv == Init => Inv
<1> SUFFICES ASSUME Init PROVE Inv
  OBVIOUS
<1>1. TypeOK
  BY DEF Init, TypeOK, Waiting, ReqPcs, WfPcs, Final
<1>2. Turns = {}
  BY DEF Init, Turns
<1>3. Own /\ Alone /\ Unhurt
  BY DEF Init, Own, Alone, Unhurt, UnhurtReqs, UnhurtContext, UnhurtFlow, Live, At, Waiting,
         Creators
<1>4. Ordered
  BY <1>2, FS_EmptySet DEF Init, Ordered, At, Waiting
<1> QED
  BY <1>1, <1>3, <1>4 DEF Inv

LEMMA TypeStep == ASSUME TypeOK, Own, Next PROVE TypeOK'
<1> USE ConversationAssumption
    DEF TypeOK, Own, ReqPcs, Creators, WfPcs, Final, At, ReqGoto, Answer, WfGoto, SetReply,
        SetTask, Fault
<1>1. ASSUME NEW q \in Reqs, ReadContext(q) PROVE TypeOK'
  BY <1>1 DEF ReadContext, ContextNow, Turns
<1>2. ASSUME NEW q \in Reqs, CreateTurn(q) PROVE TypeOK'
  <2> DEFINE K == Cardinality(Turns) + 1
  <2>1. K \in Nat /\ K # 0
    BY FS_Subset, FS_CardinalityType DEF Turns
  <2>2. /\ \/ UNCHANGED <<order, reply, context>> /\ Answer(q)
           \/ /\ order' = [order EXCEPT ![req[q].msg] = K]
              /\ SetReply(req[q].msg, "queued")
              /\ context' = [context EXCEPT ![req[q].msg] = req[q].context]
              /\ ReqGoto(q, "route")
        /\ req[q].msg \in Msgs
        /\ UNCHANGED <<status, task, wf, late, faults>>
    BY <1>2 DEF CreateTurn
  <2> HIDE DEF K
  <2>3. CASE UNCHANGED <<order, reply, context>> /\ Answer(q)
    BY <2>2, <2>3
  <2>4. CASE /\ order' = [order EXCEPT ![req[q].msg] = K]
             /\ SetReply(req[q].msg, "queued")
             /\ context' = [context EXCEPT ![req[q].msg] = req[q].context]
             /\ ReqGoto(q, "route")
    <3>1. order' \in [Msgs -> Nat] /\ reply' \in [Msgs -> Final \cup {"none", "queued"}]
      BY <2>1, <2>2, <2>4
    <3>2. context' \in [Msgs -> SUBSET Msgs]
      BY <2>2, <2>4
    <3>3. req' \in [Reqs -> [pc : ReqPcs, msg : Msgs \cup {NoMsg}, context : SUBSET Msgs]]
      BY <2>2, <2>4
    <3>4. \A r \in Reqs : req'[r].pc \notin {"idle", "over"} => req'[r].msg \in Msgs
      BY <2>2, <2>4
    <3>5. \A m \in Msgs : order'[m] = 0 <=> reply'[m] = "none"
      BY <2>1, <2>2, <2>4
    <3> QED
      BY <2>2, <3>1, <3>2, <3>3, <3>4, <3>5
  <2> QED
    BY <2>2, <2>3, <2>4
<1>3. ASSUME NEW q \in Reqs, RouteTask(q) PROVE TypeOK'
  BY <1>3 DEF RouteTask
<1>4. ASSUME NEW q \in Reqs, StartWorkflow(q) PROVE TypeOK'
  BY <1>4 DEF StartWorkflow
<1>5. ASSUME NEW q \in Reqs, FailStart(q) PROVE TypeOK'
  BY <1>5 DEF FailStart
<1>6. ASSUME NEW q \in Reqs, FinalizeNow(q) PROVE TypeOK'
  BY <1>6 DEF FinalizeNow
<1>7. ASSUME NEW q \in Reqs, RequestDies(q) PROVE TypeOK'
  BY <1>7 DEF RequestDies
<1>8. ASSUME NEW m \in Msgs, RunFlow(m) PROVE TypeOK'
  BY <1>8 DEF RunFlow
<1>9. ASSUME NEW m \in Msgs, ReportTask(m) PROVE TypeOK'
  BY <1>9 DEF ReportTask
<1>10. ASSUME NEW m \in Msgs, Finalize(m) PROVE TypeOK'
  BY <1>10 DEF Finalize
<1>11. ASSUME NEW m \in Msgs, Catch(m) PROVE TypeOK'
  BY <1>11 DEF Catch
<1>12. ASSUME NEW m \in Msgs, Resume(m) \/ GenericEnds(m) PROVE TypeOK'
  BY <1>12 DEF Resume, GenericEnds
<1>13. ASSUME NEW m \in Msgs, ActivityFails(m) PROVE TypeOK'
  BY <1>13 DEF ActivityFails
<1>14. CASE LateFinalize
  BY <1>14 DEF LateFinalize
<1>15. CASE ToggleArchive
  BY <1>15 DEF ToggleArchive
<1> QED
  BY <1>1, <1>2, <1>3, <1>4, <1>5, <1>6, <1>7, <1>8, <1>9, <1>10, <1>11, <1>12, <1>13,
     <1>14, <1>15 DEF Next, ReqStep, WfStep

\* A request goes on; only CreateTurn lets it own a turn.
LEMMA OwnStep == ASSUME TypeOK, Own, Alone, Next PROVE Own' /\ Alone'
<1> USE ConversationAssumption
    DEF Own, Alone, Creators, ReqPcs, At, ReqGoto, Answer, WfGoto, SetReply, SetTask, Final
<1>1. ASSUME NEW q \in Reqs, ReadContext(q) PROVE Own' /\ Alone'
  BY <1>1 DEF ReadContext, TypeOK
<1>2. ASSUME NEW q \in Reqs, CreateTurn(q) PROVE Own' /\ Alone'
  <2> DEFINE K == Cardinality(Turns) + 1
  <2>1. K \in Nat /\ K # 0
    BY FS_Subset, FS_CardinalityType DEF Turns
  <2>2. ~InFlight => \A m \in Msgs : reply[m] # "queued"
    BY DEF InFlight, Turns, TypeOK
  <2>3. /\ \/ UNCHANGED <<order, reply, context>> /\ Answer(q)
           \/ /\ order[req[q].msg] = 0 /\ ~InFlight
              /\ order' = [order EXCEPT ![req[q].msg] = K]
              /\ SetReply(req[q].msg, "queued")
              /\ ReqGoto(q, "route")
        /\ req[q].msg \in Msgs /\ req[q].pc = "create"
        /\ UNCHANGED <<status, task, wf, late, faults>>
    BY <1>2 DEF CreateTurn, TypeOK
  <2> HIDE DEF K
  <2>4. CASE UNCHANGED <<order, reply, context>> /\ Answer(q)
    BY <2>3, <2>4 DEF TypeOK
  <2>5. CASE /\ order[req[q].msg] = 0 /\ ~InFlight
             /\ order' = [order EXCEPT ![req[q].msg] = K]
             /\ SetReply(req[q].msg, "queued")
             /\ ReqGoto(q, "route")
    <3>1. Own'
      BY <2>1, <2>3, <2>5 DEF TypeOK
    <3>2. Alone'
      BY <2>2, <2>3, <2>5 DEF TypeOK
    <3> QED
      BY <3>1, <3>2
  <2> QED
    BY <2>3, <2>4, <2>5
<1>3. ASSUME NEW q \in Reqs, RouteTask(q) PROVE Own' /\ Alone'
  BY <1>3 DEF RouteTask, TypeOK
<1>4. ASSUME NEW q \in Reqs, StartWorkflow(q) PROVE Own' /\ Alone'
  BY <1>4 DEF StartWorkflow, TypeOK
<1>5. ASSUME NEW q \in Reqs, FailStart(q) PROVE Own' /\ Alone'
  BY <1>5 DEF FailStart, TypeOK
<1>6. ASSUME NEW q \in Reqs, FinalizeNow(q) PROVE Own' /\ Alone'
  BY <1>6 DEF FinalizeNow, TypeOK
<1>7. ASSUME NEW q \in Reqs, RequestDies(q) PROVE Own' /\ Alone'
  BY <1>7 DEF RequestDies, TypeOK
<1>8. ASSUME NEW m \in Msgs, RunFlow(m) PROVE Own' /\ Alone'
  BY <1>8 DEF RunFlow, TypeOK
<1>9. ASSUME NEW m \in Msgs, ReportTask(m) PROVE Own' /\ Alone'
  BY <1>9 DEF ReportTask, TypeOK
<1>10. ASSUME NEW m \in Msgs, Finalize(m) PROVE Own' /\ Alone'
  BY <1>10 DEF Finalize, TypeOK
<1>11. ASSUME NEW m \in Msgs, Catch(m) PROVE Own' /\ Alone'
  BY <1>11 DEF Catch, TypeOK
<1>12. ASSUME NEW m \in Msgs, Resume(m) \/ GenericEnds(m) PROVE Own' /\ Alone'
  BY <1>12 DEF Resume, GenericEnds, TypeOK
<1>13. ASSUME NEW m \in Msgs, ActivityFails(m) PROVE Own' /\ Alone'
  BY <1>13 DEF ActivityFails, TypeOK
<1>14. CASE LateFinalize
  BY <1>14 DEF LateFinalize, TypeOK
<1>15. CASE ToggleArchive
  BY <1>15 DEF ToggleArchive, TypeOK
<1> QED
  BY <1>1, <1>2, <1>3, <1>4, <1>5, <1>6, <1>7, <1>8, <1>9, <1>10, <1>11, <1>12, <1>13,
     <1>14, <1>15 DEF Next, ReqStep, WfStep

LEMMA OrderedStep == ASSUME TypeOK, Ordered, Next PROVE Ordered'
<1> USE ConversationAssumption DEF At
<1>1. ASSUME UNCHANGED <<order, context>>,
             \A q \in Reqs : req'[q].pc = "create" =>
                               req'[q].context \subseteq Turns
      PROVE  Ordered'
  BY <1>1 DEF Ordered, Turns
<1>2. ASSUME NEW q \in Reqs, ReadContext(q) PROVE Ordered'
  BY <1>1, <1>2 DEF ReadContext, ContextNow, Ordered, TypeOK
<1>3. ASSUME NEW q \in Reqs, CreateTurn(q) PROVE Ordered'
  <2>1. CASE UNCHANGED <<order, context>>
    BY <1>1, <1>3, <2>1 DEF CreateTurn, Answer, ReqGoto, Ordered, TypeOK
  <2>2. CASE /\ order[req[q].msg] = 0
             /\ order' = [order EXCEPT ![req[q].msg] = Cardinality(Turns) + 1]
             /\ context' = [context EXCEPT ![req[q].msg] = req[q].context]
             /\ ReqGoto(q, "route")
    <3> DEFINE m == req[q].msg
    <3>1. m \in Msgs /\ req[q].context \subseteq Turns
      BY <1>3 DEF CreateTurn, TypeOK, Ordered
    <3>2. /\ Turns' = Turns \cup {m} /\ m \notin Turns
          /\ Cardinality(Turns) \in Nat
          /\ Cardinality(Turns') = Cardinality(Turns) + 1
      BY <2>2, <3>1, NewTurn
    <3>3. /\ order'[m] = Cardinality(Turns) + 1
          /\ \A n \in Msgs \ {m} : order'[n] = order[n]
          /\ \A n \in Msgs : order[n] \in Nat /\ order[n] <= Cardinality(Turns)
      BY <2>2, <3>1, <3>2 DEF TypeOK, Ordered
    <3>4. \A n \in Msgs : order'[n] <= Cardinality(Turns')
      BY <3>2, <3>3
    <3>5. \A n, k \in Turns' : order'[n] = order'[k] => n = k
      BY <3>1, <3>2, <3>3 DEF Ordered, Turns
    <3>6. \A r \in Reqs : req'[r].pc = "create" => req'[r].context \subseteq Turns'
      BY <2>2, <3>2 DEF Ordered, ReqGoto, TypeOK
    <3>7. \A n \in Msgs : \A c \in context'[n] : c \in Turns' /\ order'[c] < order'[n]
      <4> SUFFICES ASSUME NEW n \in Msgs, NEW c \in context'[n]
                   PROVE  c \in Turns' /\ order'[c] < order'[n]
        OBVIOUS
      <4>1. CASE n = m
        <5>1. c \in Turns /\ c # m
          BY <2>2, <3>1, <3>2, <4>1 DEF TypeOK
        <5>2. c \in Msgs
          BY <5>1 DEF Turns
        <5> QED
          BY <3>2, <3>3, <4>1, <5>1, <5>2
      <4>2. CASE n # m
        <5>1. c \in Turns /\ order[c] < order[n] /\ c # m
          BY <2>2, <3>1, <3>2, <4>2 DEF TypeOK, Ordered
        <5>2. c \in Msgs
          BY <5>1 DEF Turns
        <5> QED
          BY <3>2, <3>3, <4>2, <5>1, <5>2
      <4> QED
        BY <4>1, <4>2
    <3> QED
      BY <3>4, <3>5, <3>6, <3>7 DEF Ordered
  <2> QED
    BY <1>3, <2>1, <2>2 DEF CreateTurn
<1>4. ASSUME NEW q \in Reqs,
             RouteTask(q) \/ StartWorkflow(q) \/ FailStart(q) \/ FinalizeNow(q) \/ RequestDies(q)
      PROVE  Ordered'
  BY <1>1, <1>4 DEF RouteTask, StartWorkflow, FailStart, FinalizeNow, RequestDies, ReqGoto,
                    Answer, Ordered, TypeOK
<1>5. CASE UNCHANGED <<order, context, req>>
  BY <1>1, <1>5 DEF Ordered
<1> QED
  BY <1>2, <1>3, <1>4, <1>5
  DEF Next, ReqStep, WfStep, RunFlow, Resume, ReportTask, Finalize, Catch, GenericEnds, ActivityFails,
      LateFinalize, ToggleArchive

\* Without a fault, only the owner of a turn writes its reply, once.
LEMMA UnhurtStep == ASSUME TypeOK, Own, Alone, Ordered, Unhurt, Next PROVE Unhurt'
<1> SUFFICES ASSUME faults' = 0 PROVE Unhurt'
  BY DEF Unhurt
<1>1. faults = 0 /\ ~Fault
  BY DEF Next, ReqStep, WfStep, ReadContext, CreateTurn, RouteTask, StartWorkflow, FailStart,
         FinalizeNow, RequestDies, RunFlow, Resume, ReportTask, Finalize, Catch, GenericEnds,
         ActivityFails, LateFinalize, ToggleArchive, Fault, TypeOK
<1>2. late = {} /\ UnhurtReqs /\ UnhurtContext /\ UnhurtFlow
  BY <1>1 DEF Unhurt
<1>3. SUFFICES late' = {} /\ UnhurtReqs' /\ UnhurtContext' /\ UnhurtFlow'
  BY DEF Unhurt
<1> USE <1>1, <1>2 DEF Creators, ReqPcs, Live, At, ReqGoto, Answer, WfGoto, SetReply, SetTask, Final,
          TypeOK, UnhurtReqs, UnhurtContext, UnhurtFlow
<1>4. ASSUME NEW q \in Reqs, ReadContext(q)
      PROVE  late' = {} /\ UnhurtReqs' /\ UnhurtContext' /\ UnhurtFlow'
  BY <1>4 DEF ReadContext, ContextNow
<1>5. ASSUME NEW q \in Reqs, CreateTurn(q)
      PROVE  late' = {} /\ UnhurtReqs' /\ UnhurtContext' /\ UnhurtFlow'
  <2>1. CASE UNCHANGED <<order, reply, context>> /\ Answer(q)
    BY <1>5, <2>1 DEF CreateTurn
  <2>2. CASE /\ order[req[q].msg] = 0 /\ At(q, "create")
             /\ SetReply(req[q].msg, "queued")
             /\ context' = [context EXCEPT ![req[q].msg] = req[q].context]
             /\ ReqGoto(q, "route") /\ UNCHANGED <<status, task, wf, late, faults>>
    <3> DEFINE m == req[q].msg
    <3>1. m \in Msgs /\ reply[m] = "none" /\ wf[m] = "none"
      BY <2>2 DEF Own
    <3>2. UnhurtReqs'
      BY <2>2, <3>1
    <3>3. UnhurtContext'
      BY <2>2, <3>1
    <3>4. UnhurtFlow'
      BY <2>2, <3>1
    <3> QED
      BY <2>2, <3>2, <3>3, <3>4
  <2> QED
    BY <1>5, <2>1, <2>2 DEF CreateTurn
<1>6. ASSUME NEW q \in Reqs, RouteTask(q)
      PROVE  late' = {} /\ UnhurtReqs' /\ UnhurtContext' /\ UnhurtFlow'
  BY <1>6 DEF RouteTask, Alone
<1>7. ASSUME NEW q \in Reqs, StartWorkflow(q)
      PROVE  late' = {} /\ UnhurtReqs' /\ UnhurtContext' /\ UnhurtFlow'
  <2> DEFINE m == req[q].msg
  <2>1. PICK first \in {"run", "generic"} : wf' = [wf EXCEPT ![m] = first]
    BY <1>7 DEF StartWorkflow, Fault
  <2>2. /\ req[q].pc = "start" /\ m \in Msgs /\ reply[m] = "queued" /\ Answer(q)
        /\ UNCHANGED <<reply, context, task, late>>
    BY <1>7 DEF StartWorkflow, Fault
  <2>3. UnhurtReqs'
    BY <2>1, <2>2 DEF Alone
  <2>4. UnhurtContext' /\ UnhurtFlow'
    BY <2>1, <2>2
  <2> QED
    BY <2>2, <2>3, <2>4
<1>8. ASSUME NEW q \in Reqs, FailStart(q) \/ RequestDies(q)
      PROVE  late' = {} /\ UnhurtReqs' /\ UnhurtContext' /\ UnhurtFlow'
  BY <1>8 DEF FailStart, RequestDies
<1>9. ASSUME NEW q \in Reqs, FinalizeNow(q)
      PROVE  late' = {} /\ UnhurtReqs' /\ UnhurtContext' /\ UnhurtFlow'
  BY <1>9 DEF FinalizeNow, Alone
<1>10. ASSUME NEW m \in Msgs, RunFlow(m) \/ Resume(m) \/ ReportTask(m)
      PROVE  late' = {} /\ UnhurtReqs' /\ UnhurtContext' /\ UnhurtFlow'
  BY <1>10 DEF RunFlow, Resume, ReportTask
<1>11. ASSUME NEW m \in Msgs, Finalize(m) \/ Catch(m) \/ GenericEnds(m)
      PROVE  late' = {} /\ UnhurtReqs' /\ UnhurtContext' /\ UnhurtFlow'
  BY <1>11 DEF Finalize, Catch, GenericEnds
<1>12. ASSUME NEW m \in Msgs, ActivityFails(m)
      PROVE  late' = {} /\ UnhurtReqs' /\ UnhurtContext' /\ UnhurtFlow'
  BY <1>12 DEF ActivityFails
<1>13. CASE LateFinalize \/ ToggleArchive
  BY <1>13 DEF LateFinalize, ToggleArchive
<1> QED
  BY <1>4, <1>5, <1>6, <1>7, <1>8, <1>9, <1>10, <1>11, <1>12, <1>13 DEF Next, ReqStep, WfStep

LEMMA InvStutter == ASSUME Inv, UNCHANGED vars PROVE Inv'
BY DEF Inv, TypeOK, Own, Alone, Ordered, Unhurt, UnhurtReqs, UnhurtContext, UnhurtFlow, At,
       Turns, vars

LEMMA InvInvariant == Spec => []Inv
<1>1. Inv /\ [Next]_vars => Inv'
  BY TypeStep, OwnStep, OrderedStep, UnhurtStep, InvStutter DEF Inv
<1> QED
  BY InitInv, <1>1, PTL DEF Spec

-----------------------------------------------------------------------------
\* The variables keep their types, and a message has a reply exactly when it has a turn.
THEOREM ConversationTypes == Spec => []TypeOK
<1>1. Inv => TypeOK
  BY DEF Inv
<1> QED
  BY InvInvariant, <1>1, PTL

\* One request creates the turn of a message and runs its task, and one turn is answered
\* at a time, whatever fails (createUserAndAssistantTurn).
THEOREM TurnsOneAtATime == Spec => []OneTurnAtATime
<1>1. Inv => OneTurnAtATime
  BY AtMostOne DEF Inv, Alone, Ordered, OneTurnAtATime
<1> QED
  BY InvInvariant, <1>1, PTL

\* The context of a turn lies before it and, unless a call was lost, is still completed
\* when its agent is seeded (loadConversationContextActivity).
THEOREM ContextStands == Spec => []ContextHolds
<1>1. Inv => ContextHolds
  BY DEF Inv, Ordered, Unhurt, UnhurtContext, ContextHolds, Seedable, Turns
<1> QED
  BY InvInvariant, <1>1, PTL

\* Unless a call was lost, the reply says what the task_run says (configDrivenWorkflow).
THEOREM ReplyFollowsTask == Spec => []ReplyMatchesTask
<1>1. Inv => ReplyMatchesTask
  BY DEF Inv, Unhurt, UnhurtFlow, ReplyMatchesTask
<1> QED
  BY InvInvariant, <1>1, PTL

-----------------------------------------------------------------------------
(***************************************************************************)
(* Liveness. A queued reply is in the hands of the request that created    *)
(* its turn or of the workflow that request started; each of them goes     *)
(* through a few steps, in an order without cycles. Fresh is why: a        *)
(* workflow is never started a second time for a turn.                     *)
(***************************************************************************)
Fresh == \A q \in Reqs : req[q].pc \in {"route", "start"} => wf[req[q].msg] = "none"

Ended(m) == reply[m] \in Final \/ GivenUp(m)

OnIt(q, m, pc) == req[q].msg = m /\ req[q].pc = pc
Runs(m, pc)    == wf[m] = pc

Handled ==
  \A m \in Msgs : reply[m] = "queued" =>
    Ended(m) \/ Stalled(m) \/ WorkflowOnIt(m) \/ \E q \in Reqs : RequestOnIt(q, m)

LiveInv == Inv /\ Fresh /\ Handled

LEMMA FreshStep == ASSUME Inv, Fresh, [Next]_vars PROVE Fresh'
<1> USE DEF Fresh, Inv, TypeOK, Own, Alone, Creators, ReqPcs, At, ReqGoto, Answer, WfGoto
<1>1. ASSUME NEW q \in Reqs, ReadContext(q) \/ RequestDies(q) PROVE Fresh'
  BY <1>1 DEF ReadContext, RequestDies
<1>2. ASSUME NEW q \in Reqs, CreateTurn(q) PROVE Fresh'
  BY <1>2 DEF CreateTurn
<1>3. ASSUME NEW q \in Reqs, RouteTask(q) \/ FailStart(q) \/ FinalizeNow(q) PROVE Fresh'
  BY <1>3 DEF RouteTask, FailStart, FinalizeNow
<1>4. ASSUME NEW q \in Reqs, StartWorkflow(q) PROVE Fresh'
  BY <1>4 DEF StartWorkflow
<1>5. ASSUME NEW m \in Msgs,
             WfStep(m) \/ Resume(m) \/ GenericEnds(m) \/ ActivityFails(m)
      PROVE  Fresh'
  BY <1>5 DEF WfStep, RunFlow, Resume, ReportTask, Finalize, Catch, GenericEnds, ActivityFails
<1>6. CASE LateFinalize \/ ToggleArchive \/ UNCHANGED vars
  BY <1>6 DEF LateFinalize, ToggleArchive, vars
<1> QED
  BY <1>1, <1>2, <1>3, <1>4, <1>5, <1>6 DEF Next, ReqStep

\* What a step does to the request of a turn: nothing, its next step, or its end.
LEMMA RequestMoves ==
  ASSUME Inv, Fresh, [Next]_vars, NEW q \in Reqs, NEW m \in Msgs, RequestOnIt(q, m)
  PROVE  \/ Ended(m)'
         \/ req'[q] = req[q] /\ ~ReqStep(q)
         \/ OnIt(q, m, "route") /\ \E pc \in {"start", "clarify", "reject", "failReply"} :
                                     OnIt(q, m, pc)'
         \/ OnIt(q, m, "start") /\ (OnIt(q, m, "failStart")' \/ WorkflowOnIt(m)')
         \/ OnIt(q, m, "failStart") /\ OnIt(q, m, "failReply")'
<1> USE DEF Inv, TypeOK, Creators, ReqPcs, RequestOnIt
<1>1. ASSUME NEW r \in Reqs, r # q,
             ReadContext(r) \/ ReqStep(r) \/ RequestDies(r)
      PROVE  req'[q] = req[q]
  BY <1>1 DEF ReadContext, ReqStep, CreateTurn, RouteTask, StartWorkflow, FailStart,
              FinalizeNow, RequestDies, ReqGoto, Answer
<1>2. ~ReadContext(q) /\ ~CreateTurn(q)
  BY DEF ReadContext, CreateTurn, At
<1>3. CASE RouteTask(q)
  BY <1>3 DEF RouteTask, At, ReqGoto, OnIt
<1>4. CASE StartWorkflow(q)
  BY <1>4 DEF StartWorkflow, At, ReqGoto, OnIt, WorkflowOnIt, WfGoto, Ended, GivenUp
<1>5. CASE FailStart(q)
  BY <1>5 DEF FailStart, At, ReqGoto, OnIt
<1>6. CASE FinalizeNow(q)
  BY <1>6 DEF FinalizeNow, SetReply, Ended, GivenUp, Final
<1>7. CASE RequestDies(q)
  <2>1. req'[q].msg = m /\ req'[q].pc = "dead"
    BY <1>7 DEF RequestDies, ReqGoto
  <2> QED
    BY <2>1 DEF Ended, GivenUp
<1>8. ASSUME ~ReqStep(q), ~RequestDies(q) PROVE req'[q] = req[q]
  BY <1>1, <1>2, <1>8 DEF Next, WfStep, RunFlow, Resume, ReportTask, Finalize, Catch,
     GenericEnds, ActivityFails, LateFinalize, ToggleArchive, vars
<1> QED
  BY <1>2, <1>3, <1>4, <1>5, <1>6, <1>7, <1>8 DEF ReqStep

\* What a step does to the workflow of a turn.
LEMMA WorkflowMoves ==
  ASSUME Inv, Fresh, [Next]_vars, NEW m \in Msgs, WorkflowOnIt(m)
  PROVE  \/ Ended(m)'
         \/ wf'[m] = wf[m] /\ ~WfStep(m)
         \/ wf[m] = "run" /\ wf'[m] \in {"stalled", "reportDone", "reportFailed", "catchReply"}
         \/ wf[m] = "reportDone" /\ wf'[m] \in {"complete", "catchReply"}
         \/ wf[m] = "reportFailed" /\ wf'[m] \in {"failReply", "catchReply"}
         \/ wf[m] \in {"complete", "failReply"} /\ wf'[m] = "catchReply"
<1> USE DEF Inv, TypeOK, WorkflowOnIt
<1>1. ASSUME NEW q \in Reqs, StartWorkflow(q) PROVE wf'[m] = wf[m]
  BY <1>1 DEF StartWorkflow, Fresh, At, WfGoto
<1>2. ASSUME NEW n \in Msgs, n # m,
             WfStep(n) \/ Resume(n) \/ GenericEnds(n) \/ ActivityFails(n)
      PROVE  wf'[m] = wf[m]
  BY <1>2 DEF WfStep, RunFlow, Resume, ReportTask, Finalize, Catch, GenericEnds, ActivityFails,
              WfGoto
<1>3. CASE RunFlow(m)
  BY <1>3 DEF RunFlow, WfGoto
<1>4. CASE ReportTask(m)
  BY <1>4 DEF ReportTask, WfGoto
<1>5. CASE Finalize(m) \/ Catch(m)
  BY <1>5 DEF Finalize, Catch, SetReply, Ended, GivenUp, Final
<1>6. ~Resume(m) /\ ~GenericEnds(m)
  BY DEF Resume, GenericEnds
<1>7. CASE ActivityFails(m)
  BY <1>7 DEF ActivityFails, WfGoto, Ended, GivenUp, WfStep, RunFlow, ReportTask, Finalize, Catch,
              GenericEnds
<1>8. ASSUME ~WfStep(m), ~ActivityFails(m) PROVE wf'[m] = wf[m]
  BY <1>1, <1>2, <1>6, <1>8 DEF Next, ReadContext, ReqStep, CreateTurn, RouteTask, FailStart,
     FinalizeNow, RequestDies, LateFinalize, ToggleArchive, vars
<1> QED
  BY <1>3, <1>4, <1>5, <1>6, <1>7, <1>8 DEF WfStep

\* Who writes a reply, who ends and who dies is not revived by any step.
LEMMA ReplyMoves ==
  ASSUME Inv, [Next]_vars, NEW m \in Msgs
  PROVE  \/ reply'[m] = reply[m]
         \/ reply'[m] \in Final
         \/ reply[m] = "none" /\ \E q \in Reqs : RequestOnIt(q, m)'
<1> USE DEF Inv, TypeOK, SetReply, Final
<1>1. ASSUME NEW q \in Reqs, CreateTurn(q)
      PROVE  reply'[m] = reply[m] \/ (reply[m] = "none" /\ RequestOnIt(q, m)')
  BY <1>1 DEF CreateTurn, Answer, ReqGoto, At, RequestOnIt, Creators, ReqPcs
<1>2. ASSUME NEW q \in Reqs, ReqStep(q), ~CreateTurn(q)
      PROVE  reply'[m] = reply[m] \/ reply'[m] \in Final
  BY <1>2 DEF ReqStep, RouteTask, StartWorkflow, FailStart, FinalizeNow
<1>3. ASSUME NEW n \in Msgs, WfStep(n) \/ Resume(n) \/ GenericEnds(n) \/ ActivityFails(n)
      PROVE  reply'[m] = reply[m] \/ reply'[m] \in Final
  BY <1>3 DEF WfStep, RunFlow, Resume, ReportTask, Finalize, Catch, GenericEnds, ActivityFails
<1>4. CASE LateFinalize
  BY <1>4 DEF LateFinalize
<1>5. ASSUME NEW q \in Reqs, ReadContext(q) \/ RequestDies(q) PROVE reply' = reply
  BY <1>5 DEF ReadContext, RequestDies
<1>6. CASE ToggleArchive \/ UNCHANGED vars
  BY <1>6 DEF ToggleArchive, vars
<1> QED
  BY <1>1, <1>2, <1>3, <1>4, <1>5, <1>6 DEF Next

LEMMA EndedStays == ASSUME Inv, Fresh, [Next]_vars, NEW m \in Msgs, Ended(m) PROVE Ended(m)'
<1> USE DEF Inv, TypeOK
<1>1. CASE reply[m] \in Final
  BY <1>1, ReplyMoves DEF Ended, GivenUp, Final
<1>2. CASE wf[m] \in {"lost", "generic", "fellBack"}
  <2>1. ASSUME NEW q \in Reqs, StartWorkflow(q) PROVE wf'[m] = wf[m]
    BY <1>2, <2>1 DEF StartWorkflow, Fresh, At, WfGoto
  <2>2. ASSUME NEW n \in Msgs, WfStep(n) \/ Resume(n) \/ GenericEnds(n) \/ ActivityFails(n)
        PROVE  wf'[m] = wf[m] \/ wf'[m] = "fellBack"
    BY <1>2, <2>2 DEF WfStep, RunFlow, Resume, ReportTask, Finalize, Catch, GenericEnds,
       ActivityFails, WfGoto
  <2>3. wf'[m] = wf[m] \/ wf'[m] = "fellBack"
    BY <2>1, <2>2 DEF Next, ReadContext, ReqStep, CreateTurn, RouteTask, FailStart,
       FinalizeNow, RequestDies, LateFinalize, ToggleArchive, vars
  <2> QED
    BY <1>2, <2>3 DEF Ended, GivenUp
<1>3. ASSUME NEW q \in Reqs, req[q].msg = m, req[q].pc = "dead" PROVE Ended(m)'
  <2>1. ASSUME NEW r \in Reqs, ReadContext(r) \/ ReqStep(r) \/ RequestDies(r)
        PROVE  req'[q] = req[q]
    BY <1>3, <2>1 DEF ReadContext, ReqStep, CreateTurn, RouteTask, StartWorkflow,
       FailStart, FinalizeNow, RequestDies, ReqGoto, Answer, At
  <2>2. req'[q] = req[q]
    BY <2>1 DEF Next, WfStep, RunFlow, Resume, ReportTask, Finalize, Catch, GenericEnds,
       ActivityFails, LateFinalize, ToggleArchive, vars
  <2> QED
    BY <1>3, <2>2 DEF Ended, GivenUp
<1> QED
  BY <1>1, <1>2, <1>3 DEF Ended, GivenUp

\* A stalled flow stays so, or goes on.
LEMMA StalledMoves ==
  ASSUME Inv, Fresh, [Next]_vars, NEW m \in Msgs, Stalled(m)
  PROVE  Stalled(m)' \/ WorkflowOnIt(m)'
<1> USE DEF Inv, TypeOK, Stalled, WorkflowOnIt
<1>1. ASSUME NEW q \in Reqs, StartWorkflow(q) PROVE wf'[m] = wf[m]
  BY <1>1 DEF StartWorkflow, Fresh, At, WfGoto
<1>2. ASSUME NEW n \in Msgs, WfStep(n) \/ Resume(n) \/ GenericEnds(n) \/ ActivityFails(n)
      PROVE  wf'[m] = wf[m] \/ wf'[m] = "run"
  BY <1>2 DEF WfStep, RunFlow, Resume, ReportTask, Finalize, Catch, GenericEnds,
              ActivityFails, WfGoto
<1>3. wf'[m] = wf[m] \/ wf'[m] = "run"
  BY <1>1, <1>2 DEF Next, ReadContext, ReqStep, CreateTurn, RouteTask, FailStart,
     FinalizeNow, RequestDies, LateFinalize, ToggleArchive, vars
<1> QED
  BY <1>3

\* A turn that is created belongs to its request, and goes from hand to hand.
LEMMA HandledStep == ASSUME Inv, Fresh, Handled, [Next]_vars PROVE Handled'
<1> SUFFICES ASSUME NEW m \in Msgs, reply'[m] = "queued"
             PROVE  \/ Ended(m)' \/ Stalled(m)' \/ WorkflowOnIt(m)'
                    \/ \E q \in Reqs : RequestOnIt(q, m)'
  BY DEF Handled
<1>1. CASE Ended(m)
  BY <1>1, EndedStays
<1>2. CASE WorkflowOnIt(m)
  BY <1>2, WorkflowMoves DEF WorkflowOnIt, Stalled
<1>3. ASSUME NEW q \in Reqs, RequestOnIt(q, m)
      PROVE  Ended(m)' \/ WorkflowOnIt(m)' \/ RequestOnIt(q, m)'
  BY <1>3, RequestMoves DEF RequestOnIt, OnIt, Creators, ReqPcs
<1>4. CASE reply[m] # "queued"
  BY <1>4, ReplyMoves DEF Final
<1>5. CASE Stalled(m)
  BY <1>5, StalledMoves
<1> QED
  BY <1>1, <1>2, <1>3, <1>4, <1>5 DEF Handled

LEMMA LiveInvHolds == Spec => []LiveInv
<1>1. Init => Fresh /\ Handled
  BY DEF Init, Fresh, Handled, Waiting
<1>2. LiveInv /\ [Next]_vars => LiveInv'
  <2>1. Inv /\ [Next]_vars => Inv'
    BY TypeStep, OwnStep, OrderedStep, UnhurtStep, InvStutter DEF Inv
  <2> QED
    BY <2>1, FreshStep, HandledStep DEF LiveInv
<1> QED
  BY InitInv, <1>1, <1>2, PTL DEF Spec, LiveInv

\* A queued reply has a request or a workflow on it, or was given up. That the two can
\* go on is about ENABLED, and assumed.
THEOREM QueuedRepliesAttended == Spec /\ []TurnKeepersGoOn => []QueuedReplyIsAttended
<1>1. LiveInv /\ TurnKeepersGoOn => QueuedReplyIsAttended
  BY DEF LiveInv, Handled, Ended, Final, QueuedReplyIsAttended
<1> QED
  BY <1>1, LiveInvHolds, PTL

-----------------------------------------------------------------------------
\* What one workflow and one request achieve from any moment on. WillEnd keeps the
\* temporal formula closed while the messages and requests are quantified over.
Running    == []LiveInv /\ [][Next]_vars /\ []TurnKeepersGoOn
WillEnd(m) == <>(Ended(m) \/ Stalled(m))

LEMMA WorkflowEnds ==
  ASSUME NEW m \in Msgs
  PROVE  Running /\ FairWorkflow(m) /\ WorkflowOnIt(m) => WillEnd(m)
<1>1. ASSUME LiveInv, [Next]_vars, WorkflowOnIt(m)
      PROVE  \/ Ended(m)'
             \/ wf'[m] = wf[m] /\ ~WfStep(m)
             \/ wf[m] = "run" /\ wf'[m] \in {"stalled", "reportDone", "reportFailed", "catchReply"}
             \/ wf[m] = "reportDone" /\ wf'[m] \in {"complete", "catchReply"}
             \/ wf[m] = "reportFailed" /\ wf'[m] \in {"failReply", "catchReply"}
             \/ wf[m] \in {"complete", "failReply"} /\ wf'[m] = "catchReply"
  BY <1>1, WorkflowMoves DEF LiveInv
<1> USE DEF WorkflowOnIt
<1>2. LiveInv /\ [Next]_vars /\ Runs(m, "run")
        => \/ Ended(m)' \/ Stalled(m)'
           \/ Runs(m, "reportDone")' \/ Runs(m, "reportFailed")' \/ Runs(m, "catchReply")'
           \/ Runs(m, "run")' /\ ~WfStep(m)
  BY <1>1 DEF Runs, Stalled
<1>3. LiveInv /\ [Next]_vars /\ Runs(m, "reportDone")
        => \/ Ended(m)' \/ Runs(m, "complete")' \/ Runs(m, "catchReply")'
           \/ Runs(m, "reportDone")' /\ ~WfStep(m)
  BY <1>1 DEF Runs
<1>4. LiveInv /\ [Next]_vars /\ Runs(m, "reportFailed")
        => \/ Ended(m)' \/ Runs(m, "failReply")' \/ Runs(m, "catchReply")'
           \/ Runs(m, "reportFailed")' /\ ~WfStep(m)
  BY <1>1 DEF Runs
<1>5. LiveInv /\ [Next]_vars /\ Runs(m, "complete")
        => \/ Ended(m)' \/ Runs(m, "catchReply")'
           \/ Runs(m, "complete")' /\ ~WfStep(m)
  BY <1>1 DEF Runs
<1>6. LiveInv /\ [Next]_vars /\ Runs(m, "failReply")
        => \/ Ended(m)' \/ Runs(m, "catchReply")'
           \/ Runs(m, "failReply")' /\ ~WfStep(m)
  BY <1>1 DEF Runs
<1>7. LiveInv /\ [Next]_vars /\ Runs(m, "catchReply")
        => Ended(m)' \/ (Runs(m, "catchReply")' /\ ~WfStep(m))
  BY <1>1 DEF Runs
<1>8. WorkflowOnIt(m)
        => \/ Runs(m, "run") \/ Runs(m, "reportDone") \/ Runs(m, "reportFailed")
           \/ Runs(m, "complete") \/ Runs(m, "failReply") \/ Runs(m, "catchReply")
  BY DEF Runs
<1>9. /\ TurnKeepersGoOn
       /\ \/ Runs(m, "run") \/ Runs(m, "reportDone") \/ Runs(m, "reportFailed")
          \/ Runs(m, "complete") \/ Runs(m, "failReply") \/ Runs(m, "catchReply")
       => ENABLED <<WfStep(m)>>_vars
  BY DEF Runs, TurnKeepersGoOn
<1> QED
  BY <1>2, <1>3, <1>4, <1>5, <1>6, <1>7, <1>8, <1>9, PTL
  DEF Running, FairWorkflow, WillEnd

LEMMA RequestEnds ==
  ASSUME NEW q \in Reqs, NEW m \in Msgs
  PROVE  Running /\ FairRequest(q) /\ []FairWorkflow(m) /\ RequestOnIt(q, m) => WillEnd(m)
<1>1. ASSUME LiveInv, [Next]_vars, RequestOnIt(q, m)
      PROVE  \/ Ended(m)'
             \/ req'[q] = req[q] /\ ~ReqStep(q)
             \/ OnIt(q, m, "route") /\ \E pc \in {"start", "clarify", "reject", "failReply"} :
                                         OnIt(q, m, pc)'
             \/ OnIt(q, m, "start") /\ (OnIt(q, m, "failStart")' \/ WorkflowOnIt(m)')
             \/ OnIt(q, m, "failStart") /\ OnIt(q, m, "failReply")'
  BY <1>1, RequestMoves DEF LiveInv
<1> USE DEF OnIt, RequestOnIt, Creators, ReqPcs
<1>2. LiveInv /\ [Next]_vars /\ OnIt(q, m, "route")
        => \/ Ended(m)' \/ OnIt(q, m, "start")' \/ OnIt(q, m, "clarify")'
           \/ OnIt(q, m, "reject")' \/ OnIt(q, m, "failReply")'
           \/ OnIt(q, m, "route")' /\ ~ReqStep(q)
  BY <1>1
<1>3. LiveInv /\ [Next]_vars /\ OnIt(q, m, "start")
        => \/ Ended(m)' \/ OnIt(q, m, "failStart")' \/ WorkflowOnIt(m)'
           \/ OnIt(q, m, "start")' /\ ~ReqStep(q)
  BY <1>1
<1>4. LiveInv /\ [Next]_vars /\ OnIt(q, m, "failStart")
        => \/ Ended(m)' \/ OnIt(q, m, "failReply")'
           \/ OnIt(q, m, "failStart")' /\ ~ReqStep(q)
  BY <1>1
<1>5. LiveInv /\ [Next]_vars /\ OnIt(q, m, "failReply")
        => Ended(m)' \/ (OnIt(q, m, "failReply")' /\ ~ReqStep(q))
  BY <1>1
<1>6. LiveInv /\ [Next]_vars /\ OnIt(q, m, "clarify")
        => Ended(m)' \/ (OnIt(q, m, "clarify")' /\ ~ReqStep(q))
  BY <1>1
<1>7. LiveInv /\ [Next]_vars /\ OnIt(q, m, "reject")
        => Ended(m)' \/ (OnIt(q, m, "reject")' /\ ~ReqStep(q))
  BY <1>1
<1>8. RequestOnIt(q, m)
        => \/ OnIt(q, m, "route") \/ OnIt(q, m, "start") \/ OnIt(q, m, "failStart")
           \/ OnIt(q, m, "failReply") \/ OnIt(q, m, "clarify") \/ OnIt(q, m, "reject")
  OBVIOUS
<1>9. /\ TurnKeepersGoOn
      /\ \/ OnIt(q, m, "route") \/ OnIt(q, m, "start") \/ OnIt(q, m, "failStart")
         \/ OnIt(q, m, "failReply") \/ OnIt(q, m, "clarify") \/ OnIt(q, m, "reject")
      => ENABLED <<ReqStep(q)>>_vars
  BY DEF TurnKeepersGoOn
<1> HIDE DEF OnIt, RequestOnIt
<1> QED
  BY <1>2, <1>3, <1>4, <1>5, <1>6, <1>7, <1>8, <1>9, WorkflowEnds, PTL
  DEF Running, FairRequest, WillEnd

\* Every turn is answered, unless its request died, its workflow was lost in its catch
\* block or stalled, or its task fell back on an agent: live requests and workflows that
\* go on see to it, however many there are and whatever fails. That a flow does not wait
\* or retry for ever is not assumed; whenever it goes on, the same holds again.
THEOREM TurnsEnd == Spec /\ []Fairness /\ []TurnKeepersGoOn => TurnEnds
<1>1. ASSUME NEW m \in Msgs
      PROVE  Running /\ []Fairness
               /\ (\E q \in Reqs : RequestOnIt(q, m))
             => WillEnd(m)
  <2>1. []Fairness => Fairness /\ []FairWorkflow(m)
    <3>1. Fairness => FairWorkflow(m)
      BY DEF Fairness
    <3> QED
      BY <3>1, PTL
  <2> QED
    BY <2>1, RequestEnds DEF Fairness
<1>2. ASSUME NEW m \in Msgs
      PROVE  Running /\ Fairness /\ WorkflowOnIt(m) => WillEnd(m)
  BY WorkflowEnds DEF Fairness
<1>3. ASSUME NEW m \in Msgs
      PROVE  Spec /\ []Fairness /\ []TurnKeepersGoOn
             => ((reply[m] = "queued") ~> (reply[m] \in Final \/ GivenUp(m) \/ Stalled(m)))
  <2>1. LiveInv /\ reply[m] = "queued"
          => Ended(m) \/ Stalled(m) \/ WorkflowOnIt(m) \/ \E q \in Reqs : RequestOnIt(q, m)
    BY DEF LiveInv, Handled
  <2> QED
    BY <1>1, <1>2, <2>1, LiveInvHolds, PTL DEF Spec, Running, WillEnd, Ended
<1> QED
  BY <1>3 DEF TurnEnds
=============================================================================
