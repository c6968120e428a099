------------------------- MODULE ToolGatewayProofs -------------------------
(***************************************************************************)
(* Proofs about ToolGateway, for any set of requests, contents, tools,     *)
(* evaluation cases and limits.                                            *)
(*                                                                         *)
(* Inv says what a request knows at each of its awaits. Three facts carry  *)
(* the results: a request of an L3 tool passes the lookup only with an     *)
(* approval and tool calls stay granted; an idempotency record, once       *)
(* inserted, never changes; and a request reaches the adapter in an        *)
(* evaluation only with a reservation of its own tool call.                *)
(***************************************************************************)
EXTENDS ToolGateway, FiniteSetTheorems, TLAPS

Pc(r) == handler[r].pc

\* What a request has checked when it stands at an await.
Knows(r) ==
  /\ Pc(r) = "idle" => handler[r] = Idle
  /\ Pc(r) # "answered" => handler[r].answer = "none"
  /\ Pc(r) = "replay" => Op(r) # "preview"
  /\ Pc(r) \in {"lookup", "approval", "update"} => Op(r) = "commit"
  /\ Pc(r) \in {"adapter", "createFailed", "save"} => Op(r) # "preview"
  /\ Pc(r) \in {"create", "createFailed"} => Op(r) # "commit"
  /\ Pc(r) # "idle" /\ Op(r) = "commit" => Call(r) \in ToolCalls
  /\ Pc(r) \in {"adapter", "update", "create", "createFailed", "save"}
       => Call(r) \in ToolCalls
  /\ Pc(r) \in {"lookup", "approval", "reserve", "adapter"} => EvaluationAllows(r)

Approved(r) == RiskOf(r) = "L3" => Op(r) = "commit" /\ Call(r) \in granted
Booked(r)   == Case(r) # None /\ Tool(r) \notin Unlimited =>
                 [case |-> Case(r), tool |-> Tool(r), call |-> Call(r)] \in reserved

GateInv(r) ==
  /\ Pc(r) = "reserve" => Op(r) = "preview" \/ Approved(r)
  /\ Pc(r) = "adapter" => Approved(r) /\ Booked(r)

\* What holds of a request whose adapter ran.
EffectInv(r) ==
  /\ r \in effects =>
       /\ Pc(r) \in {"update", "create", "createFailed", "save", "answered"}
       /\ Op(r) # "preview" /\ Call(r) \in ToolCalls
       /\ Approved(r) /\ Booked(r) /\ EvaluationAllows(r)
       /\ ~handler[r].late
  /\ Pc(r) \in {"update", "save"} => r \in effects
  /\ Pc(r) = "create" /\ Op(r) # "preview" => r \in effects

\* A late request stops at the idempotency record.
LateInv(r) ==
  handler[r].late =>
    /\ Pc(r) \in {"replay", "answered"} /\ Recorded(StoreKey(r))
    /\ handler[r].answer \in {"none", "replayed", "conflict", "error"}

\* A result a client got is the one of the record.
AnswerInv(r) ==
  handler[r].answer \in {"committed", "succeeded", "replayed"} =>
    /\ Op(r) # "preview"
    /\ Recorded(StoreKey(r))
    /\ idem[StoreKey(r)].result = handler[r].result
    /\ idem[StoreKey(r)].fingerprint = FingerprintOf(Content(r))

RequestInv(r) ==
  Knows(r) /\ GateInv(r) /\ EffectInv(r) /\ LateInv(r) /\ AnswerInv(r)

WithinLimit ==
  /\ IsFiniteSet(reserved)
  /\ \A case \in Cases, tool \in Tools \ Unlimited :
       Cardinality(Reservations(case, tool)) <= EvalLimit[tool]

Inv ==
  /\ TypeOK
  /\ approvals \subseteq granted
  /\ \A r \in Requests : RequestInv(r)
  /\ WithinLimit
  /\ CommittedMeansExecuted

-----------------------------------------------------------------------------
\* A move of one request: a new program counter, answer and result.
Moved(r, pc, a, q) ==
  /\ handler' \in [Requests -> Handler]
  /\ Pc(r)' = pc /\ handler'[r].answer = a /\ handler'[r].result = q
  /\ Content(r)' = Content(r) /\ Call(r)' = Call(r)
  /\ handler'[r].late = handler[r].late
  /\ \A p \in Requests \ {r} : handler'[p] = handler[p]

LEMMA GotoMoves ==
  ASSUME TypeOK, NEW r \in Requests, NEW pc \in Pcs, Goto(r, pc)
  PROVE  Moved(r, pc, handler[r].answer, handler[r].result)
BY DEF TypeOK, Goto, Moved, Handler, Pc, Content, Call

LEMMA AnswerMoves ==
  ASSUME TypeOK, NEW r \in Requests, NEW a \in Answers, Answer(r, a)
  PROVE  Moved(r, "answered", a, handler[r].result)
<1>1. "answered" \in Pcs
  BY DEF Pcs
<1> QED
  BY <1>1 DEF TypeOK, Answer, Moved, Handler, Pc, Content, Call

LEMMA ReplyMoves ==
  ASSUME TypeOK, NEW r \in Requests, NEW a \in Answers,
         NEW q \in Requests \cup {None}, Reply(r, a, q)
  PROVE  Moved(r, "answered", a, q)
<1>1. "answered" \in Pcs
  BY DEF Pcs
<1> QED
  BY <1>1 DEF TypeOK, Reply, Moved, Handler, Pc, Content, Call

\* What the steps of r leave to the other requests: their own state, everything
\* granted, every reservation and every record.
Frame(r) ==
  /\ \A q \in Requests \ {r} : /\ handler'[q] = handler[q]
                               /\ q \in effects' <=> q \in effects
  /\ granted \subseteq granted' /\ reserved \subseteq reserved'
  /\ \A s \in StoreKeys : Recorded(s) => idem'[s] = idem[s]

LEMMA StoreKeyInDomain ==
  ASSUME TypeOK, NEW r \in Requests, Pc(r) # "idle"
  PROVE  Content(r) \in Contents /\ StoreKey(r) \in StoreKeys
BY DEF TypeOK, Pc, Content, StoreKey, StoreKeys

LEMMA OthersKeep ==
  ASSUME Inv, NEW r, Frame(r), NEW q \in Requests, q # r
  PROVE  RequestInv(q)'
<1>1. RequestInv(q) /\ handler'[q] = handler[q] /\ (q \in effects' <=> q \in effects)
  BY DEF Inv, Frame
<1>2. CASE Pc(q) = "idle"
  BY <1>1, <1>2 DEF RequestInv, Knows, GateInv, EffectInv, LateInv, AnswerInv, Pc, Idle
<1>3. CASE Pc(q) # "idle"
  <2>1. StoreKey(q) \in StoreKeys
    BY <1>3, StoreKeyInDomain DEF Inv
  <2>2. /\ Pc(q)' = Pc(q) /\ Content(q)' = Content(q) /\ Op(q)' = Op(q)
        /\ Tool(q)' = Tool(q) /\ Case(q)' = Case(q) /\ Call(q)' = Call(q)
        /\ RiskOf(q)' = RiskOf(q) /\ StoreKey(q)' = StoreKey(q)
        /\ EvaluationAllows(q)' <=> EvaluationAllows(q)
    BY <1>1 DEF Pc, Content, Op, Tool, Case, Call, RiskOf, StoreKey, EvaluationAllows
  <2>3. /\ Approved(q) => Approved(q)'
        /\ Booked(q) => Booked(q)'
    BY <2>2 DEF Approved, Booked, Frame
  <2>4. Knows(q)'
    BY <1>1, <1>3, <2>2 DEF RequestInv, Knows
  <2>5. GateInv(q)' /\ EffectInv(q)'
    BY <1>1, <2>2, <2>3 DEF RequestInv, GateInv, EffectInv
  <2>6. LateInv(q)' /\ AnswerInv(q)'
    BY <1>1, <2>1, <2>2 DEF RequestInv, LateInv, AnswerInv, Frame, Recorded
  <2> QED
    BY <2>4, <2>5, <2>6 DEF RequestInv
<1> QED
  BY <1>2, <1>3

-----------------------------------------------------------------------------
LEMMA InitInv == Init => Inv
<1> SUFFICES ASSUME Init PROVE Inv
  OBVIOUS
<1> USE GatewayAssumption
<1>1. TypeOK
  <2>1. Idle \in Handler
    BY DEF Idle, Handler, Pcs, Answers
  <2>2. NoRecord \in Record
    BY DEF NoRecord, Record
  <2> QED
    BY <2>1, <2>2 DEF Init, TypeOK, LogStatus, Idle
<1>2. ASSUME NEW r \in Requests PROVE RequestInv(r)
  BY DEF Init, Idle, RequestInv, Knows, GateInv, EffectInv, LateInv, AnswerInv, Pc
<1>3. WithinLimit
  <2>1. \A case \in Cases, tool \in Tools : Reservations(case, tool) = {}
    BY DEF Init, Reservations
  <2>2. IsFiniteSet({}) /\ Cardinality({}) = 0
    BY FS_EmptySet
  <2>3. \A tool \in Tools : 0 <= EvalLimit[tool]
    OBVIOUS
  <2> QED
    BY <2>1, <2>2, <2>3 DEF Init, WithinLimit
<1>4. CommittedMeansExecuted
  BY DEF Init, CommittedMeansExecuted
<1> QED
  BY <1>1, <1>2, <1>3, <1>4 DEF Init, Inv

LEMMA ArriveInv ==
  ASSUME Inv, NEW r \in Requests, NEW c \in Contents, Arrive(r, c)
  PROVE  Inv'
<1> USE GatewayAssumption
<1>0. TypeOK /\ RequestInv(r) /\ Pc(r) = "idle" /\ r \notin effects
      /\ UNCHANGED <<log, logTool, idem, reserved, approvals, effects, granted, faults>>
  BY DEF Inv, Arrive, At, Pc, RequestInv, EffectInv
<1> DEFINE late == \E q \in Requests : Succeeded(q) /\ StoreKey(q) = StoreKeyOf(c)
           new  == [pc |-> IF c.op = "preview" THEN "policy" ELSE "replay",
                    content |-> c, call |-> c.call, answer |-> "none",
                    result |-> None, late |-> late]
<1>1. handler' = [handler EXCEPT ![r] = new]
  BY DEF Arrive
<1>2. new \in Handler
  BY DEF Handler, Pcs, Answers
<1>3. TypeOK'
  BY <1>0, <1>1, <1>2 DEF TypeOK
<1>4. /\ Content(r)' = c /\ Op(r)' = c.op /\ Call(r)' = c.call
      /\ Pc(r)' \in {"policy", "replay"}
      /\ Pc(r)' = "replay" => c.op # "preview"
      /\ c.op # "preview" => Pc(r)' = "replay"
      /\ handler'[r].answer = "none" /\ handler'[r].late = late
      /\ StoreKey(r)' = StoreKeyOf(c)
  BY <1>0, <1>1 DEF TypeOK, Content, Op, Call, Pc, StoreKey
<1>5. Frame(r)
  BY <1>0, <1>1 DEF Frame, TypeOK
<1>6. RequestInv(r)'
  <2>1. Knows(r)'
    BY <1>4 DEF Knows
  <2>2. GateInv(r)' /\ EffectInv(r)' /\ AnswerInv(r)'
    BY <1>0, <1>4 DEF GateInv, EffectInv, AnswerInv
  <2>3. LateInv(r)'
    <3> SUFFICES ASSUME late PROVE Pc(r)' = "replay" /\ Recorded(StoreKeyOf(c))
      BY <1>0, <1>4 DEF LateInv, Recorded
    <3>1. PICK q \in Requests : Succeeded(q) /\ StoreKey(q) = StoreKeyOf(c)
      OBVIOUS
    <3>2. Op(q) # "preview" /\ Recorded(StoreKey(q))
      BY <3>1 DEF Inv, RequestInv, AnswerInv, Succeeded
    <3>3. c.op # "preview"
      BY <3>1, <3>2 DEF StoreKey, StoreKeyOf, Op
    <3> QED
      BY <3>1, <3>2, <3>3, <1>4
  <2> QED
    BY <2>1, <2>2, <2>3 DEF RequestInv
<1>7. CommittedMeansExecuted'
  <2>1. \A q \in effects : Call(q)' = Call(q)
    BY <1>0, <1>5 DEF Frame, Call, TypeOK
  <2> QED
    BY <1>0, <2>1 DEF Inv, CommittedMeansExecuted
<1> QED
  BY <1>0, <1>3, <1>5, <1>6, <1>7, OthersKeep
  DEF Inv, WithinLimit, Reservations

-----------------------------------------------------------------------------
\* A move keeps what the request asked for and what it has checked.
LEMMA MovedKeeps ==
  ASSUME NEW r \in Requests, NEW pc, NEW a, NEW q, Moved(r, pc, a, q),
         UNCHANGED <<reserved, granted>>
  PROVE  /\ Content(r)' = Content(r) /\ Op(r)' = Op(r) /\ Tool(r)' = Tool(r)
         /\ Case(r)' = Case(r) /\ Call(r)' = Call(r) /\ RiskOf(r)' = RiskOf(r)
         /\ StoreKey(r)' = StoreKey(r)
         /\ EvaluationAllows(r)' <=> EvaluationAllows(r)
         /\ Approved(r)' <=> Approved(r)
         /\ Booked(r)' <=> Booked(r)
<1>1. /\ Content(r)' = Content(r) /\ Op(r)' = Op(r) /\ Tool(r)' = Tool(r)
      /\ Case(r)' = Case(r) /\ Call(r)' = Call(r) /\ RiskOf(r)' = RiskOf(r)
      /\ StoreKey(r)' = StoreKey(r)
  BY DEF Moved, Content, Op, Tool, Case, RiskOf, StoreKey
<1>2. EvaluationAllows(r)' <=> EvaluationAllows(r)
  BY <1>1 DEF EvaluationAllows
<1>3. (Approved(r)' <=> Approved(r)) /\ (Booked(r)' <=> Booked(r))
  BY <1>1 DEF Approved, Booked
<1> QED
  BY <1>1, <1>2, <1>3

\* What is left to show of a step that moves r: its own invariant.
LEMMA MovedInv ==
  ASSUME Inv, NEW r \in Requests, Pc(r) # "idle",
         NEW pc, NEW a, NEW q, Moved(r, pc, a, q),
         UNCHANGED <<reserved, approvals, granted>>,
         effects' \in {effects, effects \cup {r}},
         log' \in [ToolCalls -> LogStatus],
         logTool' \in [ToolCalls -> Tools \cup {None}],
         idem' \in [StoreKeys -> Record],
         \A s \in StoreKeys : Recorded(s) => idem'[s] = idem[s],
         faults' \in 0 .. MaxFaults,
         \A k \in ToolCalls : log'[k] = "committed" =>
           log[k] = "committed" \/ (k = Call(r) /\ r \in effects'),
         RequestInv(r)'
  PROVE  Inv'
<1>1. Frame(r)
  BY DEF Frame, Moved
<1>2. TypeOK'
  <2>1. \A p \in Requests : handler'[p].pc # "idle" => handler'[p].content \in Contents
    BY DEF Inv, TypeOK, Moved, Content, Pc
  <2>2. effects' \subseteq Requests
    BY DEF Inv, TypeOK
  <2> QED
    BY <2>1, <2>2 DEF Inv, TypeOK, Moved
<1>3. \A p \in Requests : RequestInv(p)'
  BY <1>1, OthersKeep
<1>4. CommittedMeansExecuted'
  <2>1. \A p \in Requests : Call(p)' = Call(p)
    BY DEF Moved, Call
  <2>2. effects \subseteq effects' /\ effects \subseteq Requests
    BY DEF Inv, TypeOK
  <2> SUFFICES ASSUME NEW k \in ToolCalls, log'[k] = "committed"
               PROVE  \E p \in effects' : Call(p)' = k
    BY DEF CommittedMeansExecuted
  <2>3. CASE log[k] = "committed"
    BY <2>1, <2>2, <2>3 DEF Inv, CommittedMeansExecuted
  <2>4. CASE k = Call(r) /\ r \in effects'
    BY <2>1, <2>4
  <2> QED
    BY <2>3, <2>4
<1> QED
  BY <1>2, <1>3, <1>4 DEF Inv, WithinLimit, Reservations

\* A request that ends without a result, or is lost, keeps what it knew.
LEMMA EndKeeps ==
  ASSUME Inv, NEW r \in Requests, Pc(r) # "idle", NEW a, NEW q,
         Moved(r, "answered", a, q), UNCHANGED <<reserved, granted, idem>>,
         r \in effects' => r \in effects \/ Pc(r) = "adapter",
         a \notin {"committed", "succeeded", "replayed"},
         handler[r].late => a \in {"conflict", "error"}
  PROVE  RequestInv(r)'
<1>1. RequestInv(r)
  BY DEF Inv
<1>2. /\ Pc(r)' = "answered" /\ handler'[r].answer = a
      /\ handler'[r].late = handler[r].late
  BY DEF Moved
<1>3. /\ Op(r)' = Op(r) /\ Call(r)' = Call(r) /\ StoreKey(r)' = StoreKey(r)
      /\ EvaluationAllows(r)' <=> EvaluationAllows(r)
      /\ Approved(r)' <=> Approved(r)
      /\ Booked(r)' <=> Booked(r)
  BY MovedKeeps
<1>4. Pc(r) = "adapter" =>
        /\ Op(r) # "preview" /\ Call(r) \in ToolCalls
        /\ Approved(r) /\ Booked(r) /\ EvaluationAllows(r) /\ ~handler[r].late
  BY <1>1 DEF RequestInv, Knows, GateInv, LateInv
<1>5. Knows(r)' /\ GateInv(r)' /\ AnswerInv(r)'
  BY <1>1, <1>2, <1>3 DEF RequestInv, Knows, GateInv, AnswerInv
<1>6. EffectInv(r)'
  BY <1>1, <1>2, <1>3, <1>4 DEF RequestInv, EffectInv
<1>7. LateInv(r)'
  BY <1>1, <1>2, <1>3 DEF RequestInv, LateInv, Recorded
<1> QED
  BY <1>5, <1>6, <1>7 DEF RequestInv

-----------------------------------------------------------------------------
LEMMA ReadIdempotencyInv ==
  ASSUME Inv, NEW r \in Requests, ReadIdempotency(r)
  PROVE  Inv'
<1> USE GatewayAssumption
<1>0. /\ TypeOK /\ RequestInv(r) /\ Pc(r) = "replay" /\ r \notin effects
      /\ UNCHANGED <<log, logTool, idem, reserved, approvals, effects, granted, faults>>
      /\ StoreKey(r) \in StoreKeys /\ idem[StoreKey(r)].result \in Requests \cup {None}
      /\ Op(r) # "preview" /\ handler[r].answer = "none"
  BY StoreKeyInDomain
  DEF Inv, ReadIdempotency, At, Pc, RequestInv, EffectInv, Knows, TypeOK, Record
<1>1. CASE ~Recorded(StoreKey(r)) /\ Goto(r, "policy")
  <2>1. Moved(r, "policy", handler[r].answer, handler[r].result)
    BY <1>0, <1>1, GotoMoves DEF Pcs
  <2>2. ~handler[r].late
    BY <1>0, <1>1 DEF RequestInv, LateInv
  <2>3. RequestInv(r)'
    BY <1>0, <2>1, <2>2, MovedKeeps
    DEF RequestInv, Knows, GateInv, EffectInv, LateInv, AnswerInv, Moved
  <2> QED
    BY <1>0, <2>1, <2>3, MovedInv DEF TypeOK
<1>2. CASE /\ Recorded(StoreKey(r))
           /\ idem[StoreKey(r)].fingerprint = FingerprintOf(Content(r))
           /\ Reply(r, "replayed", idem[StoreKey(r)].result)
  <2>1. Moved(r, "answered", "replayed", idem[StoreKey(r)].result)
    BY <1>0, <1>2, ReplyMoves DEF Answers
  <2>2. Content(r)' = Content(r) /\ StoreKey(r)' = StoreKey(r) /\ Op(r)' = Op(r)
        /\ Call(r)' = Call(r)
    BY <1>0, <2>1, MovedKeeps
  <2>3. Knows(r)' /\ GateInv(r)' /\ EffectInv(r)'
    BY <1>0, <2>1, <2>2 DEF RequestInv, Knows, GateInv, EffectInv, Moved
  <2>4. LateInv(r)' /\ AnswerInv(r)'
    BY <1>0, <1>2, <2>1, <2>2 DEF LateInv, AnswerInv, Moved, Recorded
  <2> QED
    BY <1>0, <2>1, <2>3, <2>4, MovedInv DEF RequestInv, TypeOK
<1>3. CASE Recorded(StoreKey(r)) /\ Answer(r, "conflict")
  <2>1. Moved(r, "answered", "conflict", handler[r].result)
    BY <1>0, <1>3, AnswerMoves DEF Answers
  <2>2. RequestInv(r)'
    BY <1>0, <2>1, EndKeeps
  <2> QED
    BY <1>0, <2>1, <2>2, MovedInv DEF TypeOK
<1> QED
  BY <1>1, <1>2, <1>3 DEF ReadIdempotency

\* A handler that denies, fails or is lost between two awaits.
LEMMA DenyInv ==
  ASSUME Inv, NEW r \in Requests, Pc(r) # "idle", NEW a \in Answers,
         Answer(r, a), a \notin {"committed", "succeeded", "replayed"},
         handler[r].late => a = "error",
         UNCHANGED <<logTool, idem, reserved, approvals, granted>>,
         log' \in [ToolCalls -> LogStatus],
         \A k \in ToolCalls : log'[k] = "committed" => log[k] = "committed",
         effects' \in {effects, effects \cup {r}},
         r \in effects' => r \in effects \/ Pc(r) = "adapter",
         faults' \in 0 .. MaxFaults
  PROVE  Inv'
<1>1. Moved(r, "answered", a, handler[r].result)
  BY AnswerMoves DEF Inv
<1>2. RequestInv(r)'
  BY <1>1, EndKeeps
<1> QED
  BY <1>1, <1>2, MovedInv DEF Inv, TypeOK

\* Only a request at its first read can be late.
LEMMA NotLate ==
  ASSUME NEW r, RequestInv(r), Pc(r) \notin {"replay", "answered"}
  PROVE  ~handler[r].late
BY DEF RequestInv, LateInv

LEMMA CheckPolicyInv ==
  ASSUME Inv, NEW r \in Requests, CheckPolicy(r)
  PROVE  Inv'
<1>0. /\ TypeOK /\ RequestInv(r) /\ Pc(r) = "policy" /\ r \notin effects
      /\ UNCHANGED <<log, logTool, idem, reserved, approvals, effects, granted, faults>>
      /\ ~handler[r].late /\ handler[r].answer = "none"
  BY NotLate DEF Inv, CheckPolicy, At, Pc, RequestInv, EffectInv, Knows
<1>1. CASE \E a \in {"denied", "needs_confirmation"} : Answer(r, a)
  BY <1>0, <1>1, DenyInv DEF TypeOK, Answers
<1>2. CASE \/ Op(r) = "commit" /\ EvaluationAllows(r) /\ Goto(r, "lookup")
           \/ /\ Op(r) # "commit" /\ EvaluationAllows(r)
              /\ ~(Op(r) = "invoke" /\ RiskOf(r) = "L3") /\ Goto(r, "reserve")
  <2>1. PICK pc \in {"lookup", "reserve"} :
          /\ Goto(r, pc) /\ EvaluationAllows(r)
          /\ pc = "lookup" => Op(r) = "commit"
          /\ pc = "reserve" => ~(Op(r) = "invoke" /\ RiskOf(r) = "L3")
                              /\ Op(r) # "commit"
    BY <1>2
  <2>2. Moved(r, pc, handler[r].answer, handler[r].result)
    BY <1>0, <2>1, GotoMoves DEF Pcs
  <2>3. Op(r) \in Ops
    BY <1>0, StoreKeyInDomain, GatewayAssumption DEF Op
  <2>4. RequestInv(r)'
    BY <1>0, <2>1, <2>2, <2>3, MovedKeeps
    DEF RequestInv, Knows, GateInv, EffectInv, LateInv, AnswerInv, Moved, Ops, Approved
  <2> QED
    BY <1>0, <2>2, <2>4, MovedInv DEF TypeOK
<1> QED
  BY <1>1, <1>2 DEF CheckPolicy

LEMMA LookupToolCallInv ==
  ASSUME Inv, NEW r \in Requests, LookupToolCall(r)
  PROVE  Inv'
<1>0. /\ TypeOK /\ RequestInv(r) /\ Pc(r) = "lookup" /\ r \notin effects
      /\ UNCHANGED <<log, logTool, idem, reserved, approvals, effects, granted, faults>>
      /\ ~handler[r].late /\ handler[r].answer = "none"
  BY NotLate DEF Inv, LookupToolCall, At, Pc, RequestInv, EffectInv, Knows
<1>1. CASE Answer(r, "denied")
  BY <1>0, <1>1, DenyInv DEF TypeOK, Answers
<1>2. CASE Goto(r, IF RiskOf(r) = "L3" THEN "approval" ELSE "reserve")
  <2>1. PICK pc \in {"approval", "reserve"} :
          Goto(r, pc) /\ (pc = "reserve" => RiskOf(r) # "L3")
    BY <1>2
  <2>2. Moved(r, pc, handler[r].answer, handler[r].result)
    BY <1>0, <2>1, GotoMoves DEF Pcs
  <2>3. RequestInv(r)'
    BY <1>0, <2>1, <2>2, MovedKeeps
    DEF RequestInv, Knows, GateInv, EffectInv, LateInv, AnswerInv, Moved, Approved
  <2> QED
    BY <1>0, <2>2, <2>3, MovedInv DEF TypeOK
<1> QED
  BY <1>1, <1>2 DEF LookupToolCall

LEMMA CheckApprovalInv ==
  ASSUME Inv, NEW r \in Requests, CheckApproval(r)
  PROVE  Inv'
<1>0. /\ TypeOK /\ RequestInv(r) /\ Pc(r) = "approval" /\ r \notin effects
      /\ UNCHANGED <<logTool, idem, reserved, approvals, effects, granted, faults>>
      /\ ~handler[r].late /\ handler[r].answer = "none" /\ Op(r) = "commit"
      /\ Call(r) \in ToolCalls
  BY NotLate DEF Inv, CheckApproval, At, Pc, RequestInv, EffectInv, Knows
<1>1. CASE Call(r) \notin approvals /\ log' = [log EXCEPT ![Call(r)] = "denied"]
           /\ Answer(r, "denied")
  <2>1. /\ log' \in [ToolCalls -> LogStatus]
        /\ \A k \in ToolCalls : log'[k] = "committed" => log[k] = "committed"
    BY <1>0, <1>1 DEF TypeOK, LogStatus
  <2> QED
    BY <1>0, <1>1, <2>1, DenyInv DEF TypeOK, Answers
<1>2. CASE Call(r) \in approvals /\ Goto(r, "reserve") /\ UNCHANGED log
  <2>1. Moved(r, "reserve", handler[r].answer, handler[r].result)
    BY <1>0, <1>2, GotoMoves DEF Pcs
  <2>2. Approved(r)
    BY <1>0, <1>2 DEF Inv, Approved
  <2>3. RequestInv(r)'
    BY <1>0, <2>1, <2>2, MovedKeeps
    DEF RequestInv, Knows, GateInv, EffectInv, LateInv, AnswerInv, Moved
  <2> QED
    BY <1>0, <1>2, <2>1, <2>3, MovedInv DEF TypeOK
<1> QED
  BY <1>1, <1>2 DEF CheckApproval

LEMMA RefuseCommitInv ==
  ASSUME Inv, NEW r \in Requests, RefuseCommit(r)
  PROVE  Inv'
<1>0. /\ TypeOK /\ RequestInv(r) /\ Pc(r) = "adapter"
      /\ UNCHANGED <<logTool, idem, reserved, approvals, effects, granted, faults>>
      /\ ~handler[r].late /\ Call(r) \in ToolCalls
      /\ log' = [log EXCEPT ![Call(r)] = "denied"] /\ Answer(r, "unsupported")
  BY NotLate DEF Inv, RefuseCommit, At, Pc, RequestInv, Knows
<1>1. /\ log' \in [ToolCalls -> LogStatus]
      /\ \A k \in ToolCalls : log'[k] = "committed" => log[k] = "committed"
  BY <1>0 DEF TypeOK, LogStatus
<1> QED
  BY <1>0, <1>1, DenyInv DEF TypeOK, Answers

LEMMA LoseInv ==
  ASSUME Inv, NEW r \in Requests, Lose(r)
  PROVE  Inv'
<1>0. /\ TypeOK /\ Pc(r) # "idle" /\ Answer(r, "error")
      /\ UNCHANGED <<log, logTool, idem, reserved, approvals, effects, granted>>
  BY DEF Inv, Lose, Pc
<1>1. faults' \in 0 .. MaxFaults
  BY <1>0, GatewayAssumption DEF Lose, TypeOK
<1> QED
  BY <1>0, <1>1, DenyInv DEF TypeOK, Answers

\* The adapter runs: everything that had to be checked before was.
LEMMA RunAdapterInv ==
  ASSUME Inv, NEW r \in Requests, RunAdapter(r)
  PROVE  Inv'
<1>0. /\ TypeOK /\ RequestInv(r) /\ Pc(r) = "adapter" /\ r \notin effects
      /\ UNCHANGED <<log, logTool, idem, reserved, approvals, granted, faults>>
      /\ ~handler[r].late /\ handler[r].answer = "none"
      /\ Op(r) # "preview" /\ Call(r) \in ToolCalls
      /\ Approved(r) /\ Booked(r) /\ EvaluationAllows(r)
      /\ effects' \in {effects, effects \cup {r}}
  BY NotLate DEF Inv, RunAdapter, At, Pc, RequestInv, EffectInv, Knows, GateInv
<1>1. CASE Answer(r, "error")
  BY <1>0, <1>1, DenyInv DEF TypeOK, Answers
<1>2. CASE \E pc \in {"update", "create", "createFailed"} :
             /\ Goto(r, pc)
             /\ pc = "update" <=> Op(r) = "commit"
             /\ pc # "createFailed" => r \in effects'
  <2>1. PICK pc \in {"update", "create", "createFailed"} :
             /\ Goto(r, pc)
             /\ pc = "update" <=> Op(r) = "commit"
             /\ pc # "createFailed" => r \in effects'
    BY <1>2
  <2>2. Moved(r, pc, handler[r].answer, handler[r].result)
    BY <1>0, <2>1, GotoMoves DEF Pcs
  <2>3. Knows(r)' /\ GateInv(r)' /\ LateInv(r)' /\ AnswerInv(r)'
    BY <1>0, <2>1, <2>2, MovedKeeps
    DEF RequestInv, Knows, GateInv, LateInv, AnswerInv, Moved
  <2>4. EffectInv(r)'
    BY <1>0, <2>1, <2>2, MovedKeeps DEF EffectInv, Moved
  <2> QED
    BY <1>0, <2>2, <2>3, <2>4, MovedInv DEF RequestInv, TypeOK
<1> QED
  BY <1>0, <1>1, <1>2 DEF RunAdapter

\* The writes to the log after the adapter ran.
LEMMA UpdateLogInv ==
  ASSUME Inv, NEW r \in Requests, UpdateLog(r)
  PROVE  Inv'
<1>0. /\ TypeOK /\ RequestInv(r) /\ Pc(r) = "update" /\ r \in effects
      /\ UNCHANGED <<logTool, idem, reserved, approvals, effects, granted, faults>>
      /\ ~handler[r].late /\ handler[r].answer = "none"
      /\ Op(r) = "commit" /\ Call(r) \in ToolCalls
      /\ log' = [log EXCEPT ![Call(r)] = "committed"] /\ Goto(r, "save")
  BY NotLate DEF Inv, UpdateLog, At, Pc, RequestInv, EffectInv, Knows
<1>1. Moved(r, "save", handler[r].answer, handler[r].result)
  BY <1>0, GotoMoves DEF Pcs
<1>2. Knows(r)' /\ GateInv(r)' /\ LateInv(r)' /\ AnswerInv(r)'
  BY <1>0, <1>1, MovedKeeps DEF RequestInv, Knows, GateInv, LateInv, AnswerInv, Moved
<1>3. EffectInv(r)'
  BY <1>0, <1>1, MovedKeeps DEF RequestInv, EffectInv, Moved
<1>4. /\ log' \in [ToolCalls -> LogStatus]
      /\ \A k \in ToolCalls : log'[k] = "committed" => log[k] = "committed" \/ k = Call(r)
  BY <1>0 DEF TypeOK, LogStatus
<1> QED
  BY <1>0, <1>1, <1>2, <1>3, <1>4, MovedInv DEF RequestInv, TypeOK

LEMMA CreateLogInv ==
  ASSUME Inv, NEW r \in Requests, CreateLog(r)
  PROVE  Inv'
<1>0. /\ TypeOK /\ RequestInv(r) /\ Pc(r) = "create"
      /\ UNCHANGED <<idem, reserved, approvals, effects, granted, faults>>
      /\ ~handler[r].late /\ handler[r].answer = "none"
      /\ Call(r) \in ToolCalls /\ Op(r) # "commit"
      /\ logTool' = [logTool EXCEPT ![Call(r)] = Tool(r)]
  BY NotLate DEF Inv, CreateLog, At, Pc, RequestInv, Knows
<1>1. logTool' \in [ToolCalls -> Tools \cup {None}]
  <2>1. Tool(r) \in Tools
    BY <1>0, StoreKeyInDomain, GatewayAssumption DEF Tool
  <2> QED
    BY <1>0, <2>1 DEF TypeOK
<1>2. CASE /\ Op(r) = "preview" /\ log' = [log EXCEPT ![Call(r)] = PreviewStatus(r)]
           /\ Answer(r, PreviewStatus(r))
  <2>1. PreviewStatus(r) \in {"denied", "pending_confirmation", "previewed"}
    BY DEF PreviewStatus
  <2>2. /\ log' \in [ToolCalls -> LogStatus]
        /\ \A k \in ToolCalls : log'[k] = "committed" => log[k] = "committed"
    BY <1>0, <1>2, <2>1 DEF TypeOK, LogStatus
  <2>3. PreviewStatus(r) \in Answers
        /\ PreviewStatus(r) \notin {"committed", "succeeded", "replayed"}
    BY <2>1 DEF Answers
  <2>4. Moved(r, "answered", PreviewStatus(r), handler[r].result)
    BY <1>0, <1>2, <2>3, AnswerMoves
  <2>5. RequestInv(r)'
    BY <1>0, <2>3, <2>4, EndKeeps
  <2> QED
    BY <1>0, <1>1, <2>2, <2>4, <2>5, MovedInv DEF TypeOK
<1>3. CASE /\ Op(r) # "preview" /\ log' = [log EXCEPT ![Call(r)] = "committed"]
           /\ Goto(r, "save")
  <2>1. r \in effects
    BY <1>0, <1>3 DEF RequestInv, EffectInv
  <2>2. Moved(r, "save", handler[r].answer, handler[r].result)
    BY <1>0, <1>3, GotoMoves DEF Pcs
  <2>3. Knows(r)' /\ GateInv(r)' /\ LateInv(r)' /\ AnswerInv(r)'
    BY <1>0, <1>3, <2>2, MovedKeeps
    DEF RequestInv, Knows, GateInv, LateInv, AnswerInv, Moved
  <2>4. EffectInv(r)'
    BY <1>0, <2>1, <2>2, MovedKeeps DEF RequestInv, EffectInv, Moved
  <2>5. /\ log' \in [ToolCalls -> LogStatus]
        /\ \A k \in ToolCalls : log'[k] = "committed" => log[k] = "committed" \/ k = Call(r)
    BY <1>0, <1>3 DEF TypeOK, LogStatus
  <2> QED
    BY <1>0, <1>1, <2>1, <2>2, <2>3, <2>4, <2>5, MovedInv DEF RequestInv, TypeOK
<1> QED
  BY <1>2, <1>3 DEF CreateLog

LEMMA CreateFailedLogInv ==
  ASSUME Inv, NEW r \in Requests, CreateFailedLog(r)
  PROVE  Inv'
<1>0. /\ TypeOK /\ RequestInv(r) /\ Pc(r) = "createFailed"
      /\ UNCHANGED <<idem, reserved, approvals, effects, granted, faults>>
      /\ ~handler[r].late /\ Call(r) \in ToolCalls
      /\ logTool' = [logTool EXCEPT ![Call(r)] = Tool(r)]
  BY NotLate DEF Inv, CreateFailedLog, At, Pc, RequestInv, Knows
<1>1. PICK a \in {"denied", "failed"} : log' = [log EXCEPT ![Call(r)] = a] /\ Answer(r, a)
  BY DEF CreateFailedLog
<1>2. Tool(r) \in Tools
  BY <1>0, StoreKeyInDomain, GatewayAssumption DEF Tool
<1>3. /\ logTool' \in [ToolCalls -> Tools \cup {None}]
      /\ log' \in [ToolCalls -> LogStatus]
      /\ \A k \in ToolCalls : log'[k] = "committed" => log[k] = "committed"
  BY <1>0, <1>1, <1>2 DEF TypeOK, LogStatus
<1>4. Moved(r, "answered", a, handler[r].result)
  BY <1>0, <1>1, AnswerMoves DEF Answers
<1>5. RequestInv(r)'
  BY <1>0, <1>4, EndKeeps
<1> QED
  BY <1>0, <1>3, <1>4, <1>5, MovedInv DEF TypeOK

LEMMA SaveRecordInv ==
  ASSUME Inv, NEW r \in Requests, SaveRecord(r)
  PROVE  Inv'
<1>0. /\ TypeOK /\ RequestInv(r) /\ Pc(r) = "save" /\ r \in effects
      /\ UNCHANGED <<log, logTool, reserved, approvals, effects, granted, faults>>
      /\ ~handler[r].late /\ handler[r].answer = "none" /\ Op(r) # "preview"
      /\ Content(r) \in Contents /\ StoreKey(r) \in StoreKeys
  BY NotLate, StoreKeyInDomain DEF Inv, SaveRecord, At, Pc, RequestInv, EffectInv, Knows
<1>1. CASE Recorded(StoreKey(r)) /\ Answer(r, "error") /\ UNCHANGED idem
  BY <1>0, <1>1, DenyInv DEF TypeOK, Answers
<1>2. CASE ~Recorded(StoreKey(r))
  <2> DEFINE row == [fingerprint |-> FingerprintOf(Content(r)), result |-> r]
  <2>1. /\ ~Recorded(StoreKey(r)) /\ idem' = [idem EXCEPT ![StoreKey(r)] = row]
        /\ Reply(r, IF Op(r) = "commit" THEN "committed" ELSE "succeeded", r)
    BY <1>2 DEF SaveRecord
  <2>2. PICK a \in {"committed", "succeeded"} : Reply(r, a, r)
    BY <2>1
  <2>3. Moved(r, "answered", a, r)
    BY <1>0, <2>2, ReplyMoves DEF Answers
  <2>4. row \in Record
    BY <1>0 DEF Record
  <2>5. /\ idem' \in [StoreKeys -> Record] /\ idem'[StoreKey(r)] = row
        /\ \A s \in StoreKeys : s # StoreKey(r) => idem'[s] = idem[s]
    BY <1>0, <2>1, <2>4 DEF TypeOK
  <2>6. r # None
    BY GatewayAssumption
  <2>7. Knows(r)' /\ GateInv(r)' /\ LateInv(r)'
    BY <1>0, <2>3, MovedKeeps DEF RequestInv, Knows, GateInv, LateInv, Moved
  <2>8. EffectInv(r)'
    BY <1>0, <2>3, MovedKeeps DEF RequestInv, EffectInv, Moved
  <2>9. AnswerInv(r)'
    <3>1. /\ Content(r)' = Content(r) /\ StoreKey(r)' = StoreKey(r) /\ Op(r)' = Op(r)
          /\ handler'[r].result = r
      BY <1>0, <2>3, MovedKeeps DEF Moved
    <3> QED
      BY <1>0, <2>5, <2>6, <3>1 DEF AnswerInv, Recorded
  <2>10. \A s \in StoreKeys : Recorded(s) => idem'[s] = idem[s]
    BY <2>1, <2>5
  <2> QED
    BY <1>0, <2>3, <2>5, <2>7, <2>8, <2>9, <2>10, MovedInv DEF RequestInv, TypeOK
<1> QED
  BY <1>1, <1>2 DEF SaveRecord

-----------------------------------------------------------------------------
\* The reservation: the transaction keeps the number of rows within the limit.
LEMMA RoomKeepsLimit ==
  ASSUME Inv, NEW c \in Cases, NEW t \in Tools \ Unlimited, NEW k \in ToolCalls,
         LET row == [case |-> c, tool |-> t, call |-> k]
         IN (row \in reserved \/ HasRoom(c, t)) /\ reserved' = reserved \cup {row}
  PROVE  WithinLimit'
<1> DEFINE row == [case |-> c, tool |-> t, call |-> k]
<1>1. CASE row \in reserved
  <2>1. reserved' = reserved
    BY <1>1
  <2> QED
    BY <2>1 DEF Inv, WithinLimit, Reservations
<1>2. CASE row \notin reserved /\ HasRoom(c, t)
  <2>1. IsFiniteSet(reserved')
    BY FS_AddElement DEF Inv, WithinLimit
  <2> SUFFICES ASSUME NEW case \in Cases, NEW tool \in Tools \ Unlimited
               PROVE  Cardinality(Reservations(case, tool)') <= EvalLimit[tool]
    BY <2>1 DEF WithinLimit
  <2>2. CASE case = c /\ tool = t
    <3>1. Reservations(case, tool)' = Reservations(c, t) \cup {row}
      BY <2>2 DEF Reservations
    <3>2. IsFiniteSet(Reservations(c, t)) /\ row \notin Reservations(c, t)
      BY <1>2, FS_Subset DEF Inv, WithinLimit, Reservations
    <3>3. Cardinality(Reservations(case, tool)') = Cardinality(Reservations(c, t)) + 1
      BY <3>1, <3>2, FS_AddElement
    <3>4. Cardinality(Reservations(c, t)) \in Nat
      BY <3>2, FS_CardinalityType
    <3>5. EvalLimit[t] \in Nat
      BY GatewayAssumption
    <3> QED
      BY <1>2, <2>2, <3>3, <3>4, <3>5 DEF HasRoom
  <2>3. CASE ~(case = c /\ tool = t)
    <3>1. Reservations(case, tool)' = Reservations(case, tool)
      BY <2>3 DEF Reservations
    <3> QED
      BY <3>1 DEF Inv, WithinLimit
  <2> QED
    BY <2>2, <2>3
<1> QED
  BY <1>1, <1>2

LEMMA ReserveInv ==
  ASSUME Inv, NEW r \in Requests, Reserve(r)
  PROVE  Inv'
<1>0. /\ TypeOK /\ RequestInv(r) /\ Pc(r) = "reserve" /\ r \notin effects
      /\ UNCHANGED <<log, logTool, idem, approvals, effects, granted, faults>>
      /\ ~handler[r].late /\ handler[r].answer = "none"
      /\ Content(r) \in Contents /\ Tool(r) \in Tools /\ Case(r) \in Cases \cup {None}
      /\ EvaluationAllows(r)
  BY NotLate, StoreKeyInDomain, GatewayAssumption
  DEF Inv, Reserve, At, Pc, RequestInv, EffectInv, Knows, Tool, Case
<1>1. PICK k \in NamedCalls(r) :
        LET row  == [case |-> Case(r), tool |-> Tool(r), call |-> k]
            next == IF Op(r) = "preview" THEN "create" ELSE "adapter"
        IN \/ /\ Case(r) = None \/ Tool(r) \in Unlimited
              /\ handler' = [handler EXCEPT ![r].pc = next, ![r].call = k]
              /\ UNCHANGED reserved
           \/ /\ Case(r) # None /\ Tool(r) \notin Unlimited
              /\ row \in reserved \/ HasRoom(Case(r), Tool(r))
              /\ reserved' = reserved \cup {row}
              /\ handler' = [handler EXCEPT ![r].pc = next, ![r].call = k]
           \/ /\ Case(r) # None /\ Tool(r) \notin Unlimited
              /\ Answer(r, "denied")
              /\ UNCHANGED reserved
  BY <1>0 DEF Reserve
<1> DEFINE row  == [case |-> Case(r), tool |-> Tool(r), call |-> k]
           next == IF Op(r) = "preview" THEN "create" ELSE "adapter"
<1>2. k \in ToolCalls /\ (Op(r) = "commit" => k = Call(r))
  BY <1>0 DEF NamedCalls, RequestInv, Knows
<1>3. CASE Answer(r, "denied") /\ UNCHANGED reserved
  BY <1>0, <1>3, DenyInv DEF TypeOK, Answers
<1>4. CASE /\ handler' = [handler EXCEPT ![r].pc = next, ![r].call = k]
           /\ Case(r) # None /\ Tool(r) \notin Unlimited => row \in reserved'
           /\ \/ UNCHANGED reserved
              \/ /\ reserved' = reserved \cup {row}
                 /\ Case(r) \in Cases /\ Tool(r) \notin Unlimited
                 /\ row \in reserved \/ HasRoom(Case(r), Tool(r))
  <2>1. /\ handler' \in [Requests -> Handler] /\ Pc(r)' = next /\ Call(r)' = k
        /\ Content(r)' = Content(r) /\ handler'[r].answer = "none"
        /\ handler'[r].late = handler[r].late
        /\ \A p \in Requests \ {r} : handler'[p] = handler[p]
    <3>1. next \in Pcs
      BY DEF Pcs
    <3>2. next \in Pcs /\ handler[r] \in Handler
      BY <1>0, <3>1 DEF TypeOK
    <3> HIDE DEF next
    <3>3. [handler[r] EXCEPT !.pc = next, !.call = k] \in Handler
      BY <1>2, <3>2 DEF Handler
    <3>4. handler' = [handler EXCEPT ![r] = [handler[r] EXCEPT !.pc = next, !.call = k]]
      BY <1>0, <1>4 DEF TypeOK
    <3> QED
      BY <1>0, <3>2, <3>3, <3>4 DEF TypeOK, Handler, Pc, Call, Content
  <2>2. /\ Op(r)' = Op(r) /\ Tool(r)' = Tool(r) /\ Case(r)' = Case(r)
        /\ RiskOf(r)' = RiskOf(r) /\ StoreKey(r)' = StoreKey(r)
        /\ EvaluationAllows(r)' <=> EvaluationAllows(r)
    BY <2>1 DEF Op, Tool, Case, RiskOf, StoreKey, EvaluationAllows
  <2>3. next \in {"create", "adapter"} /\ (next = "create" <=> Op(r) = "preview")
    OBVIOUS
  <2> HIDE DEF next
  <2>4. TypeOK'
    <3>1. \A p \in Requests : handler'[p].pc # "idle" => handler'[p].content \in Contents
      BY <1>0, <2>1 DEF TypeOK, Content
    <3>2. reserved' \subseteq [case : Cases, tool : Tools, call : ToolCalls]
      BY <1>0, <1>2, <1>4 DEF TypeOK
    <3> QED
      BY <1>0, <2>1, <3>1, <3>2 DEF TypeOK
  <2>5. Frame(r)
    BY <1>0, <1>4, <2>1 DEF Frame
  <2>6. RequestInv(r)'
    <3>1. Knows(r)'
      BY <1>0, <1>2, <2>1, <2>2, <2>3 DEF Knows
    <3>2. GateInv(r)'
      <4>1. Op(r) # "preview" => Approved(r)
        BY <1>0 DEF RequestInv, GateInv
      <4>2. Op(r) # "preview" => Approved(r)'
        BY <1>0, <1>2, <2>1, <2>2, <4>1 DEF Approved
      <4>3. Booked(r)'
        BY <1>4, <2>1, <2>2 DEF Booked
      <4> QED
        BY <2>1, <2>2, <2>3, <4>2, <4>3 DEF GateInv
    <3>3. EffectInv(r)' /\ LateInv(r)' /\ AnswerInv(r)'
      BY <1>0, <2>1, <2>2, <2>3 DEF EffectInv, LateInv, AnswerInv
    <3> QED
      BY <3>1, <3>2, <3>3 DEF RequestInv
  <2>7. WithinLimit'
    <3>1. CASE UNCHANGED reserved
      BY <3>1 DEF Inv, WithinLimit, Reservations
    <3>2. CASE /\ reserved' = reserved \cup {row}
               /\ Case(r) \in Cases /\ Tool(r) \notin Unlimited
               /\ row \in reserved \/ HasRoom(Case(r), Tool(r))
      BY <1>0, <1>2, <3>2, RoomKeepsLimit
    <3> QED
      BY <1>4, <3>1, <3>2
  <2>8. CommittedMeansExecuted'
    <3>1. \A p \in effects : Call(p)' = Call(p)
      BY <1>0, <2>1 DEF Call, TypeOK
    <3> QED
      BY <1>0, <3>1 DEF Inv, CommittedMeansExecuted
  <2> QED
    BY <1>0, <2>4, <2>5, <2>6, <2>7, <2>8, OthersKeep DEF Inv
<1> QED
  BY <1>0, <1>1, <1>3, <1>4

\* Decisions of runtime-api: the requests stand still and granted only grows.
LEMMA DecisionInv ==
  ASSUME Inv, NEW k \in ToolCalls, Decide(k)
  PROVE  Inv'
<1>1. UNCHANGED <<handler, logTool, idem, reserved, effects, faults>>
  BY DEF Decide, Approve, Overrule, LogDecision
<1>2. /\ granted \subseteq granted' /\ approvals' \subseteq granted'
      /\ granted' \subseteq ToolCalls
  BY DEF Decide, Approve, Overrule, LogDecision, Inv, TypeOK
<1>3. /\ log' \in [ToolCalls -> LogStatus]
      /\ \A j \in ToolCalls : log'[j] = "committed" => log[j] = "committed"
  BY DEF Decide, Approve, Overrule, LogDecision, Inv, TypeOK, LogStatus
<1>4. TypeOK'
  BY <1>1, <1>2, <1>3 DEF Inv, TypeOK
<1>5. ASSUME NEW q \in Requests PROVE RequestInv(q)'
  <2>1. Frame(None)
    BY <1>1, <1>2 DEF Frame
  <2>2. q # None
    BY GatewayAssumption
  <2> QED
    BY <2>1, <2>2, OthersKeep
<1>6. CommittedMeansExecuted'
  BY <1>1, <1>3 DEF Inv, CommittedMeansExecuted, Call
<1> QED
  BY <1>1, <1>2, <1>4, <1>5, <1>6 DEF Inv, WithinLimit, Reservations

LEMMA NextInv == Inv /\ [Next]_vars => Inv'
<1> SUFFICES ASSUME Inv, [Next]_vars PROVE Inv'
  OBVIOUS
<1>1. CASE \E r \in Requests, c \in Contents : Arrive(r, c)
  BY <1>1, ArriveInv
<1>2. ASSUME NEW r \in Requests, Step(r) PROVE Inv'
  BY <1>2, ReadIdempotencyInv, CheckPolicyInv, LookupToolCallInv, CheckApprovalInv,
     ReserveInv, RefuseCommitInv, RunAdapterInv, UpdateLogInv, CreateLogInv,
     CreateFailedLogInv, SaveRecordInv
  DEF Step
<1>3. CASE \E r \in Requests : Lose(r)
  BY <1>3, LoseInv
<1>4. CASE \E k \in ToolCalls : Decide(k)
  BY <1>4, DecisionInv
<1>5. CASE UNCHANGED vars
  <2>1. UNCHANGED <<handler, log, logTool, idem, reserved, approvals, effects,
                    granted, faults>>
    BY <1>5 DEF vars
  <2>2. Frame(None)
    BY <2>1 DEF Frame
  <2>3. \A q \in Requests : RequestInv(q)'
    BY <2>2, OthersKeep, GatewayAssumption
  <2> QED
    BY <2>1, <2>3
    DEF Inv, TypeOK, WithinLimit, Reservations, CommittedMeansExecuted, Call
<1> QED
  BY <1>1, <1>2, <1>3, <1>4, <1>5 DEF Next

LEMMA InvHolds == Spec => []Inv
BY InitInv, NextInv, PTL DEF Spec

-----------------------------------------------------------------------------
\* Every variable of the gateway keeps its type.
THEOREM TypeCorrect == Spec => []TypeOK
<1>1. Inv => TypeOK
  BY DEF Inv
<1> QED
  BY <1>1, InvHolds, PTL

\* The approval gate: whatever requests interleave, are repeated or are lost, the
\* adapter of an L3 tool runs only in a commit of a tool call that a human
\* approved before.
THEOREM ApprovalGate == Spec => []EffectOnlyAfterApproval
<1>1. Inv => EffectOnlyAfterApproval
  BY DEF Inv, TypeOK, RequestInv, EffectInv, Approved, EffectOnlyAfterApproval
<1> QED
  BY <1>1, InvHolds, PTL

\* A request that arrives after its key was answered with success has no effect.
THEOREM KeyIsFinal == Spec => []AnsweredKeyIsFinal
<1>1. Inv => AnsweredKeyIsFinal
  BY DEF Inv, RequestInv, LateInv, EffectInv, AnsweredKeyIsFinal
<1> QED
  BY <1>1, InvHolds, PTL

\* One result per store key: the insert of the record decides which.
THEOREM KeyHasOneResult == Spec => []OneResultPerKey
<1>1. Inv => OneResultPerKey
  BY DEF Inv, RequestInv, AnswerInv, OneResultPerKey
<1> QED
  BY <1>1, InvHolds, PTL

\* Logs that say committed tell of an adapter that ran.
THEOREM CommittedIsTrue == Spec => []CommittedMeansExecuted
<1>1. Inv => CommittedMeansExecuted
  BY DEF Inv
<1> QED
  BY <1>1, InvHolds, PTL

\* The tool calls executed for a case are among those reserved for it, so there
\* are at most maximum_calls_per_case of them.
THEOREM LimitOfCase == Spec => []EvaluationWithinLimit
<1> SUFFICES ASSUME Inv PROVE EvaluationWithinLimit
  BY InvHolds, PTL
<1> SUFFICES ASSUME NEW case \in Cases, NEW tool \in Tools
             PROVE  /\ EvaluationCalls(case, tool) # {} => EvalMode[tool] = "sandbox_commit"
                    /\ tool \notin Unlimited =>
                         Cardinality(EvaluationCalls(case, tool)) <= EvalLimit[tool]
  BY DEF EvaluationWithinLimit
<1> DEFINE rows == Reservations(case, tool)
           calls == {x.call : x \in rows}
<1>1. \A r \in effects : RequestInv(r) /\ Op(r) # "preview"
  BY DEF Inv, TypeOK, RequestInv, EffectInv
<1>2. case # None
  BY GatewayAssumption
<1>3. EvaluationCalls(case, tool) # {} => EvalMode[tool] = "sandbox_commit"
  BY <1>1, <1>2 DEF EvaluationCalls, RequestInv, EffectInv, EvaluationAllows
<1>4. ASSUME tool \notin Unlimited
      PROVE  Cardinality(EvaluationCalls(case, tool)) <= EvalLimit[tool]
  <2>1. EvaluationCalls(case, tool) \subseteq calls
    <3> SUFFICES ASSUME NEW r \in effects, Case(r) = case, Tool(r) = tool
                 PROVE  Call(r) \in calls
      BY DEF EvaluationCalls
    <3>1. [case |-> case, tool |-> tool, call |-> Call(r)] \in reserved
      BY <1>1, <1>2, <1>4 DEF RequestInv, EffectInv, Booked
    <3> QED
      BY <3>1 DEF Reservations
  <2>2. IsFiniteSet(rows)
    BY FS_Subset DEF Inv, WithinLimit, Reservations
  <2>3. IsFiniteSet(calls) /\ Cardinality(calls) <= Cardinality(rows)
    <3>1. [x \in rows |-> x.call] \in Surjection(rows, calls)
      BY DEF Surjection
    <3> HIDE DEF rows, calls
    <3> QED
      BY <2>2, <3>1, FS_Surjection
  <2>4. Cardinality(EvaluationCalls(case, tool)) <= Cardinality(calls)
    BY <2>1, <2>3, FS_Subset
  <2>5. Cardinality(rows) <= EvalLimit[tool]
    BY <1>4 DEF Inv, WithinLimit
  <2>6. /\ IsFiniteSet(EvaluationCalls(case, tool))
        /\ EvalLimit[tool] \in Nat
    BY <2>1, <2>3, FS_Subset, GatewayAssumption
  <2> QED
    BY <2>2, <2>3, <2>4, <2>5, <2>6, FS_CardinalityType
<1> QED
  BY <1>3, <1>4

-----------------------------------------------------------------------------
\* What a client of the gateway may rely on: a preview that was not denied has left a
\* tool_call_log row, a commit is about the tool call its client named, and a result,
\* even a replayed one, stands for an adapter that ran for the very same question.

\* A tool call with a row in the tool_call_log.
Logged(k) == k \in ToolCalls /\ log[k] # "none" /\ logTool[k] \in Tools

\* A record holds the result of a request that ran the adapter, and its question.
Genuine(s) ==
  Recorded(s) => /\ idem[s].result \in effects
                 /\ idem[s].fingerprint = FingerprintOf(Content(idem[s].result))

Serves(r) ==
  /\ Pc(r) # "idle" /\ Op(r) = "commit" => Call(r) = Content(r).call
  /\ Pc(r) = "answered" /\ Op(r) = "preview" =>
       handler[r].answer \in {"denied", "error"} \/ Logged(Call(r))
  /\ handler[r].answer \in {"committed", "succeeded"} => r \in effects

ClientInv ==
  /\ \A r \in Requests : Serves(r)
  /\ \A s \in StoreKeys : Genuine(s)

\* What a step never takes back.
Lasting ==
  /\ \A k \in ToolCalls : Logged(k) => Logged(k)'
  /\ \A r \in Requests :
       Pc(r) # "idle" => Pc(r)' # "idle" /\ Content(r)' = Content(r)
  /\ effects \subseteq effects'

\* What is left to show of a step of r: its own part, and that it writes no
\* record but its own.
Kept(r) ==
  /\ \A q \in Requests \ {r} : handler'[q] = handler[q]
  /\ Pc(r)' # "idle"
  /\ Pc(r) # "idle" => Content(r)' = Content(r)
  /\ effects' \in {effects, effects \cup {r}}
  /\ \A k \in ToolCalls : Logged(k) => Logged(k)'
  /\ \A s \in StoreKeys :
       \/ idem'[s] = idem[s]
       \/ /\ Pc(r) # "idle" /\ r \in effects'
          /\ idem'[s] = [fingerprint |-> FingerprintOf(Content(r)), result |-> r]

LEMMA KeptIsEnough ==
  ASSUME Inv, ClientInv, NEW r \in Requests, Kept(r), Serves(r)'
  PROVE  ClientInv' /\ Lasting
<1>1. Lasting
  BY DEF Kept, Lasting, Pc, Content
<1>2. ASSUME NEW q \in Requests PROVE Serves(q)'
  <2>1. CASE q = r
    BY <2>1
  <2>2. CASE q # r
    <3>1. /\ handler'[q] = handler[q] /\ Pc(q)' = Pc(q) /\ Content(q)' = Content(q)
          /\ Op(q)' = Op(q) /\ Call(q)' = Call(q)
      BY <2>2 DEF Kept, Pc, Content, Op, Call
    <3>2. Logged(Call(q)) => Logged(Call(q))'
      BY <3>1 DEF Kept, Logged
    <3> QED
      BY <1>1, <3>1, <3>2 DEF ClientInv, Serves, Lasting
  <2> QED
    BY <2>1, <2>2
<1>3. ASSUME NEW s \in StoreKeys, Recorded(s)' PROVE Genuine(s)'
  <2>1. \A q \in effects : q \in Requests /\ Pc(q) # "idle"
    BY DEF Inv, TypeOK, RequestInv, EffectInv
  <2>2. CASE idem'[s] = idem[s]
    BY <1>1, <1>3, <2>1, <2>2 DEF ClientInv, Genuine, Recorded, Lasting
  <2>3. CASE /\ Pc(r) # "idle" /\ r \in effects'
             /\ idem'[s] = [fingerprint |-> FingerprintOf(Content(r)), result |-> r]
    <3>1. Content(r)' = Content(r)
      BY <2>3 DEF Kept
    <3> QED
      BY <2>3, <3>1 DEF Genuine
  <2> QED
    BY <2>2, <2>3 DEF Kept
<1> QED
  BY <1>1, <1>2, <1>3 DEF ClientInv, Genuine

-----------------------------------------------------------------------------
\* A step that moves r on; what it knew of its tool call stays.
LEMMA MoveServes ==
  ASSUME Inv, ClientInv, NEW r \in Requests, Pc(r) # "idle",
         NEW pc, NEW a, NEW res, Moved(r, pc, a, res), pc # "idle",
         effects' \in {effects, effects \cup {r}},
         \A k \in ToolCalls : Logged(k) => Logged(k)',
         \A s \in StoreKeys :
           \/ idem'[s] = idem[s]
           \/ /\ r \in effects'
              /\ idem'[s] = [fingerprint |-> FingerprintOf(Content(r)), result |-> r],
         pc = "answered" /\ Op(r) = "preview"
           => a \in {"denied", "error"} \/ Logged(Call(r))',
         a \in {"committed", "succeeded"} => r \in effects'
  PROVE  ClientInv' /\ Lasting
<1>1. /\ Pc(r)' = pc /\ handler'[r].answer = a
      /\ Content(r)' = Content(r) /\ Call(r)' = Call(r) /\ Op(r)' = Op(r)
  BY DEF Moved, Op
<1>2. Kept(r)
  BY <1>1 DEF Kept, Moved
<1>3. Logged(Call(r))' \/ ~(pc = "answered" /\ Op(r) = "preview") \/ a \in {"denied", "error"}
  OBVIOUS
<1>4. Serves(r)'
  BY <1>1, <1>3 DEF ClientInv, Serves
<1> QED
  BY <1>2, <1>4, KeptIsEnough

LEMMA WriteKeepsLogged ==
  ASSUME TypeOK, NEW k \in ToolCalls, NEW v, v # "none", NEW tool \in Tools,
         log' \in {log, [log EXCEPT ![k] = v]},
         logTool' \in {logTool, [logTool EXCEPT ![k] = tool]}
  PROVE  \A j \in ToolCalls : Logged(j) => Logged(j)'
BY DEF TypeOK, Logged

LEMMA ArriveServes ==
  ASSUME Inv, ClientInv, NEW r \in Requests, NEW c \in Contents, Arrive(r, c)
  PROVE  ClientInv' /\ Lasting
<1>0. /\ TypeOK /\ Pc(r) = "idle"
      /\ UNCHANGED <<log, logTool, idem, effects>>
  BY DEF Inv, Arrive, At, Pc
<1>1. /\ Content(r)' = c /\ Call(r)' = c.call /\ Op(r)' = c.op
      /\ Pc(r)' \in {"policy", "replay"} /\ handler'[r].answer = "none"
      /\ \A q \in Requests \ {r} : handler'[q] = handler[q]
  BY <1>0 DEF Arrive, TypeOK, Content, Call, Op, Pc
<1>2. Kept(r)
  BY <1>0, <1>1 DEF Kept, Logged
<1>3. Serves(r)'
  BY <1>1 DEF Serves
<1> QED
  BY <1>2, <1>3, KeptIsEnough

\* Steps that read only, or that end the request without a result.
LEMMA ReadServes ==
  ASSUME Inv, ClientInv, NEW r \in Requests, Pc(r) \notin {"idle", "answered"},
         UNCHANGED <<log, logTool, idem, effects>>,
         \/ \E pc \in Pcs \ {"idle", "answered"} : Goto(r, pc)
         \/ \E a \in Answers \ {"committed", "succeeded"} :
              Answer(r, a) /\ (Op(r) = "preview" => a \in {"denied", "error"})
         \/ Op(r) # "preview" /\ \E q \in Requests : Reply(r, "replayed", q)
  PROVE  ClientInv' /\ Lasting
<1>0. TypeOK /\ handler[r].answer = "none"
  BY DEF Inv, RequestInv, Knows
<1>1. \A k \in ToolCalls : Logged(k) => Logged(k)'
  BY DEF Logged
<1>2. CASE \E pc \in Pcs \ {"idle", "answered"} : Goto(r, pc)
  BY <1>0, <1>1, <1>2, GotoMoves, MoveServes
<1>3. CASE \E a \in Answers \ {"committed", "succeeded"} :
             Answer(r, a) /\ (Op(r) = "preview" => a \in {"denied", "error"})
  <2>1. PICK a \in Answers \ {"committed", "succeeded"} :
          Answer(r, a) /\ (Op(r) = "preview" => a \in {"denied", "error"})
    BY <1>3
  <2>2. Moved(r, "answered", a, handler[r].result)
    BY <1>0, <2>1, AnswerMoves
  <2> QED
    BY <1>0, <1>1, <2>1, <2>2, MoveServes
<1>4. CASE Op(r) # "preview" /\ \E q \in Requests : Reply(r, "replayed", q)
  <2>1. "replayed" \in Answers
    BY DEF Answers
  <2> QED
    BY <1>0, <1>1, <1>4, <2>1, ReplyMoves, MoveServes
<1> QED
  BY <1>2, <1>3, <1>4

LEMMA ReadIdempotencyServes ==
  ASSUME Inv, ClientInv, NEW r \in Requests, ReadIdempotency(r)
  PROVE  ClientInv' /\ Lasting
<1>0. /\ Pc(r) = "replay" /\ Op(r) # "preview"
      /\ UNCHANGED <<log, logTool, idem, effects>>
      /\ idem[StoreKey(r)].result \in Requests \cup {None}
  BY StoreKeyInDomain
  DEF Inv, RequestInv, Knows, ReadIdempotency, At, Pc, TypeOK, Record
<1>1. \/ Goto(r, "policy")
      \/ Answer(r, "conflict")
      \/ \E q \in Requests : Reply(r, "replayed", q)
  BY <1>0 DEF ReadIdempotency, Recorded
<1> QED
  BY <1>0, <1>1, ReadServes DEF Pcs, Answers

LEMMA CheckPolicyServes ==
  ASSUME Inv, ClientInv, NEW r \in Requests, CheckPolicy(r)
  PROVE  ClientInv' /\ Lasting
<1>1. /\ Pc(r) = "policy" /\ UNCHANGED <<log, logTool, idem, effects>>
      /\ \/ Answer(r, "denied")
         \/ Op(r) = "invoke" /\ Answer(r, "needs_confirmation")
         \/ \E pc \in {"lookup", "reserve"} : Goto(r, pc)
  BY DEF CheckPolicy, At, Pc
<1> QED
  BY <1>1, ReadServes DEF Pcs, Answers

LEMMA LookupToolCallServes ==
  ASSUME Inv, ClientInv, NEW r \in Requests, LookupToolCall(r)
  PROVE  ClientInv' /\ Lasting
<1>1. /\ Pc(r) = "lookup" /\ UNCHANGED <<log, logTool, idem, effects>>
      /\ \/ Answer(r, "denied")
         \/ \E pc \in {"approval", "reserve"} : Goto(r, pc)
  BY DEF LookupToolCall, At, Pc
<1> QED
  BY <1>1, ReadServes DEF Pcs, Answers

LEMMA CheckApprovalServes ==
  ASSUME Inv, ClientInv, NEW r \in Requests, CheckApproval(r)
  PROVE  ClientInv' /\ Lasting
<1>0. /\ TypeOK /\ Pc(r) = "approval" /\ Call(r) \in ToolCalls /\ Tool(r) \in Tools
      /\ UNCHANGED <<logTool, idem, effects>> /\ Op(r) = "commit"
  BY StoreKeyInDomain, GatewayAssumption
  DEF Inv, RequestInv, Knows, CheckApproval, At, Pc, Tool
<1>1. CASE Goto(r, "reserve") /\ UNCHANGED log
  BY <1>0, <1>1, ReadServes DEF Pcs
<1>2. CASE Answer(r, "denied") /\ log' = [log EXCEPT ![Call(r)] = "denied"]
  <2>1. Moved(r, "answered", "denied", handler[r].result)
    BY <1>0, <1>2, AnswerMoves DEF Answers
  <2>2. \A k \in ToolCalls : Logged(k) => Logged(k)'
    BY <1>0, <1>2, WriteKeepsLogged
  <2> QED
    BY <1>0, <2>1, <2>2, MoveServes
<1> QED
  BY <1>1, <1>2 DEF CheckApproval

LEMMA RefuseCommitServes ==
  ASSUME Inv, ClientInv, NEW r \in Requests, RefuseCommit(r)
  PROVE  ClientInv' /\ Lasting
<1>0. /\ TypeOK /\ Pc(r) = "adapter" /\ Call(r) \in ToolCalls /\ Tool(r) \in Tools
      /\ Op(r) # "preview" /\ UNCHANGED <<logTool, idem, effects>>
      /\ log' = [log EXCEPT ![Call(r)] = "denied"] /\ Answer(r, "unsupported")
  BY StoreKeyInDomain, GatewayAssumption
  DEF Inv, RequestInv, Knows, RefuseCommit, At, Pc, Tool
<1>1. Moved(r, "answered", "unsupported", handler[r].result)
  BY <1>0, AnswerMoves DEF Answers
<1>2. \A k \in ToolCalls : Logged(k) => Logged(k)'
  BY <1>0, WriteKeepsLogged
<1> QED
  BY <1>0, <1>1, <1>2, MoveServes

\* A commit keeps its tool call, another operation draws one.
LEMMA ReserveServes ==
  ASSUME Inv, ClientInv, NEW r \in Requests, Reserve(r)
  PROVE  ClientInv' /\ Lasting
<1>0. /\ TypeOK /\ Pc(r) = "reserve" /\ handler[r].answer = "none"
      /\ UNCHANGED <<log, logTool, idem, effects>>
  BY DEF Inv, RequestInv, Knows, Reserve, At, Pc
<1>1. CASE Answer(r, "denied")
  BY <1>0, <1>1, ReadServes DEF Answers
<1>2. CASE \E k \in NamedCalls(r), pc \in {"create", "adapter"} :
             handler' = [handler EXCEPT ![r].pc = pc, ![r].call = k]
  <2>1. PICK k \in NamedCalls(r), pc \in {"create", "adapter"} :
          handler' = [handler EXCEPT ![r].pc = pc, ![r].call = k]
    BY <1>2
  <2>2. /\ Pc(r)' = pc /\ Call(r)' = k /\ Content(r)' = Content(r) /\ Op(r)' = Op(r)
        /\ handler'[r].answer = "none"
        /\ \A q \in Requests \ {r} : handler'[q] = handler[q]
    BY <1>0, <2>1 DEF TypeOK, Handler, Pc, Call, Content, Op
  <2>3. Op(r) = "commit" => k = Call(r)
    BY <2>1 DEF NamedCalls
  <2>4. Serves(r)'
    BY <1>0, <2>2, <2>3 DEF ClientInv, Serves
  <2>5. Kept(r)
    BY <1>0, <2>2 DEF Kept, Logged
  <2> QED
    BY <2>4, <2>5, KeptIsEnough
<1> QED
  BY <1>0, <1>1, <1>2 DEF Reserve

LEMMA RunAdapterServes ==
  ASSUME Inv, ClientInv, NEW r \in Requests, RunAdapter(r)
  PROVE  ClientInv' /\ Lasting
<1>0. /\ TypeOK /\ Pc(r) = "adapter" /\ Op(r) # "preview" /\ handler[r].answer = "none"
      /\ UNCHANGED <<log, logTool, idem>> /\ effects' \in {effects, effects \cup {r}}
  BY DEF Inv, RequestInv, Knows, RunAdapter, At, Pc
<1>1. \A k \in ToolCalls : Logged(k) => Logged(k)'
  BY <1>0 DEF Logged
<1>2. CASE Answer(r, "error")
  <2>1. Moved(r, "answered", "error", handler[r].result)
    BY <1>0, <1>2, AnswerMoves DEF Answers
  <2> QED
    BY <1>0, <1>1, <2>1, MoveServes
<1>3. CASE \E pc \in {"update", "create", "createFailed"} : Goto(r, pc)
  <2>1. PICK pc \in {"update", "create", "createFailed"} : Goto(r, pc)
    BY <1>3
  <2>2. Moved(r, pc, "none", handler[r].result)
    BY <1>0, <2>1, GotoMoves DEF Pcs
  <2> QED
    BY <1>0, <1>1, <2>2, MoveServes
<1> QED
  BY <1>0, <1>2, <1>3 DEF RunAdapter

LEMMA UpdateLogServes ==
  ASSUME Inv, ClientInv, NEW r \in Requests, UpdateLog(r)
  PROVE  ClientInv' /\ Lasting
<1>0. /\ TypeOK /\ Pc(r) = "update" /\ Call(r) \in ToolCalls /\ Tool(r) \in Tools
      /\ UNCHANGED <<logTool, idem, effects>> /\ handler[r].answer = "none"
      /\ log' = [log EXCEPT ![Call(r)] = "committed"] /\ Goto(r, "save")
  BY StoreKeyInDomain, GatewayAssumption
  DEF Inv, RequestInv, Knows, UpdateLog, At, Pc, Tool
<1>1. Moved(r, "save", "none", handler[r].result)
  BY <1>0, GotoMoves DEF Pcs
<1>2. \A k \in ToolCalls : Logged(k) => Logged(k)'
  BY <1>0, WriteKeepsLogged
<1> QED
  BY <1>0, <1>1, <1>2, MoveServes

\* The row a client of the preview relies on.
LEMMA CreateLogServes ==
  ASSUME Inv, ClientInv, NEW r \in Requests, CreateLog(r)
  PROVE  ClientInv' /\ Lasting
<1>0. /\ TypeOK /\ Pc(r) = "create" /\ Call(r) \in ToolCalls /\ Tool(r) \in Tools
      /\ UNCHANGED <<idem, effects>> /\ handler[r].answer = "none"
      /\ logTool' = [logTool EXCEPT ![Call(r)] = Tool(r)]
  BY StoreKeyInDomain, GatewayAssumption
  DEF Inv, RequestInv, Knows, CreateLog, At, Pc, Tool
<1>1. PICK v \in {"denied", "pending_confirmation", "previewed", "committed"} :
        /\ log' = [log EXCEPT ![Call(r)] = v]
        /\ \/ v # "committed" /\ Answer(r, v)
           \/ Op(r) # "preview" /\ Goto(r, "save")
  BY DEF CreateLog, PreviewStatus
<1>2. \A k \in ToolCalls : Logged(k) => Logged(k)'
  BY <1>0, <1>1, WriteKeepsLogged
<1>3. CASE v # "committed" /\ Answer(r, v)
  <2>1. Moved(r, "answered", v, handler[r].result)
    BY <1>0, <1>3, AnswerMoves DEF Answers
  <2>2. log'[Call(r)] = v /\ logTool'[Call(r)] = Tool(r) /\ Call(r)' = Call(r)
    BY <1>0, <1>1, <2>1 DEF TypeOK, Moved
  <2>3. Logged(Call(r))'
    BY <1>0, <2>2 DEF Logged
  <2> QED
    BY <1>0, <1>2, <1>3, <2>1, <2>3, MoveServes
<1>4. CASE Op(r) # "preview" /\ Goto(r, "save")
  <2>1. Moved(r, "save", "none", handler[r].result)
    BY <1>0, <1>4, GotoMoves DEF Pcs
  <2> QED
    BY <1>0, <1>2, <2>1, MoveServes
<1> QED
  BY <1>1, <1>3, <1>4

LEMMA CreateFailedLogServes ==
  ASSUME Inv, ClientInv, NEW r \in Requests, CreateFailedLog(r)
  PROVE  ClientInv' /\ Lasting
<1>0. /\ TypeOK /\ Pc(r) = "createFailed" /\ Call(r) \in ToolCalls /\ Tool(r) \in Tools
      /\ UNCHANGED <<idem, effects>> /\ Op(r) # "preview"
      /\ logTool' = [logTool EXCEPT ![Call(r)] = Tool(r)]
  BY StoreKeyInDomain, GatewayAssumption
  DEF Inv, RequestInv, Knows, CreateFailedLog, At, Pc, Tool
<1>1. PICK v \in {"denied", "failed"} :
        log' = [log EXCEPT ![Call(r)] = v] /\ Answer(r, v)
  BY DEF CreateFailedLog
<1>2. Moved(r, "answered", v, handler[r].result)
  BY <1>0, <1>1, AnswerMoves DEF Answers
<1>3. \A k \in ToolCalls : Logged(k) => Logged(k)'
  BY <1>0, <1>1, WriteKeepsLogged
<1> QED
  BY <1>0, <1>2, <1>3, MoveServes

LEMMA SaveRecordServes ==
  ASSUME Inv, ClientInv, NEW r \in Requests, SaveRecord(r)
  PROVE  ClientInv' /\ Lasting
<1>0. /\ TypeOK /\ Pc(r) = "save" /\ r \in effects /\ Op(r) # "preview"
      /\ UNCHANGED <<log, logTool, effects>>
  BY DEF Inv, RequestInv, Knows, EffectInv, SaveRecord, At, Pc
<1>1. CASE Answer(r, "error") /\ UNCHANGED idem
  BY <1>0, <1>1, ReadServes DEF Answers
<1>2. CASE \E a \in {"committed", "succeeded"} :
             /\ Reply(r, a, r)
             /\ idem' = [idem EXCEPT ![StoreKey(r)] =
                  [fingerprint |-> FingerprintOf(Content(r)), result |-> r]]
  <2>1. PICK a \in {"committed", "succeeded"} :
             /\ Reply(r, a, r)
             /\ idem' = [idem EXCEPT ![StoreKey(r)] =
                  [fingerprint |-> FingerprintOf(Content(r)), result |-> r]]
    BY <1>2
  <2>2. Moved(r, "answered", a, r)
    BY <1>0, <2>1, ReplyMoves DEF Answers
  <2>3. \A k \in ToolCalls : Logged(k) => Logged(k)'
    BY <1>0 DEF Logged
  <2>4. \A s \in StoreKeys :
          \/ idem'[s] = idem[s]
          \/ idem'[s] = [fingerprint |-> FingerprintOf(Content(r)), result |-> r]
    BY <1>0, <2>1 DEF TypeOK
  <2> QED
    BY <1>0, <2>2, <2>3, <2>4, MoveServes
<1> QED
  BY <1>1, <1>2 DEF SaveRecord

LEMMA LoseServes ==
  ASSUME Inv, ClientInv, NEW r \in Requests, Lose(r)
  PROVE  ClientInv' /\ Lasting
<1>1. /\ Pc(r) \notin {"idle", "answered"} /\ Answer(r, "error")
      /\ UNCHANGED <<log, logTool, idem, effects>>
  BY DEF Lose, Pc
<1> QED
  BY <1>1, ReadServes DEF Answers

LEMMA DecideServes ==
  ASSUME Inv, ClientInv, NEW k \in ToolCalls, Decide(k)
  PROVE  ClientInv' /\ Lasting
<1>1. /\ UNCHANGED <<handler, logTool, idem, effects>>
      /\ log' \in {log, [log EXCEPT ![k] = "approved"], [log EXCEPT ![k] = "rejected"]}
  BY DEF Decide, Approve, Overrule, LogDecision
<1>2. \A j \in ToolCalls : Logged(j) => Logged(j)'
  BY <1>1 DEF Inv, TypeOK, Logged
<1> QED
  BY <1>1, <1>2 DEF ClientInv, Serves, Genuine, Lasting, Pc, Op, Content, Call, Recorded, Logged

-----------------------------------------------------------------------------
LEMMA ClientInit == Init => ClientInv
BY DEF Init, Idle, ClientInv, Serves, Genuine, Recorded, NoRecord, Pc

LEMMA ClientNext == Inv /\ ClientInv /\ [Next]_vars => ClientInv' /\ Lasting
<1> SUFFICES ASSUME Inv, ClientInv, [Next]_vars PROVE ClientInv' /\ Lasting
  OBVIOUS
<1>1. CASE \E r \in Requests, c \in Contents : Arrive(r, c)
  BY <1>1, ArriveServes
<1>2. ASSUME NEW r \in Requests, Step(r) PROVE ClientInv' /\ Lasting
  BY <1>2, ReadIdempotencyServes, CheckPolicyServes, LookupToolCallServes,
     CheckApprovalServes, ReserveServes, RefuseCommitServes, RunAdapterServes,
     UpdateLogServes, CreateLogServes, CreateFailedLogServes, SaveRecordServes
  DEF Step
<1>3. CASE \E r \in Requests : Lose(r)
  BY <1>3, LoseServes
<1>4. CASE \E k \in ToolCalls : Decide(k)
  BY <1>4, DecideServes
<1>5. CASE UNCHANGED vars
  <2>1. UNCHANGED <<handler, log, logTool, idem, effects>>
    BY <1>5 DEF vars
  <2> QED
    BY <2>1 DEF ClientInv, Serves, Genuine, Lasting, Pc, Op, Content, Call, Recorded, Logged
<1> QED
  BY <1>1, <1>2, <1>3, <1>4, <1>5 DEF Next

LEMMA ClientHolds == Spec => [](Inv /\ ClientInv)
<1>1. Init => Inv /\ ClientInv
  BY InitInv, ClientInit
<1>2. Inv /\ ClientInv /\ [Next]_vars => (Inv /\ ClientInv)'
  BY NextInv, ClientNext
<1> QED
  BY <1>1, <1>2, PTL DEF Spec

LEMMA ResultOfEffect ==
  ASSUME Inv, ClientInv, NEW r \in Requests,
         handler[r].answer \in {"committed", "succeeded", "replayed"}
  PROVE  \E q \in effects : /\ FingerprintOf(Content(q)) = FingerprintOf(Content(r))
                            /\ Op(q) = "commit" => Call(q) = Content(q).call
<1>1. CASE handler[r].answer # "replayed"
  <2>1. r \in effects /\ Pc(r) # "idle"
    BY <1>1 DEF Inv, RequestInv, Knows, Idle, ClientInv, Serves
  <2> QED
    BY <2>1 DEF ClientInv, Serves
<1>2. CASE handler[r].answer = "replayed"
  <2> DEFINE q == idem[StoreKey(r)].result
  <2>1. Pc(r) # "idle"
    BY <1>2 DEF Inv, RequestInv, Knows, Idle
  <2>2. StoreKey(r) \in StoreKeys
    BY <2>1, StoreKeyInDomain DEF Inv
  <2>3. /\ q \in effects
        /\ FingerprintOf(Content(q)) = FingerprintOf(Content(r))
    BY <1>2, <2>2 DEF Inv, RequestInv, AnswerInv, ClientInv, Genuine
  <2>4. q \in Requests /\ Pc(q) # "idle"
    BY <2>3 DEF Inv, TypeOK, RequestInv, EffectInv
  <2> QED
    BY <2>3, <2>4 DEF ClientInv, Serves
<1> QED
  BY <1>1, <1>2

\* Success is never reported for nothing: the client of a commit or an invoke
\* that gets a result, its own or a replayed one, asked what a request asked
\* whose adapter ran, with the same tool, body, evaluation case and tool call.
THEOREM ResultMeansEffect ==
  Spec => [](\A r \in Requests :
               handler[r].answer \in {"committed", "succeeded", "replayed"} =>
                 \E q \in effects : FingerprintOf(Content(q)) = FingerprintOf(Content(r)))
<1>1. Inv /\ ClientInv =>
        \A r \in Requests :
          handler[r].answer \in {"committed", "succeeded", "replayed"} =>
            \E q \in effects : FingerprintOf(Content(q)) = FingerprintOf(Content(r))
  BY ResultOfEffect
<1> QED
  BY <1>1, ClientHolds, PTL

\* A step of the gateway other than an arrival brings no request and changes none.
LEMMA StepKeepsRequests ==
  ASSUME TypeOK, NEW r \in Requests, Step(r) \/ Lose(r)
  PROVE  \A q \in Requests :
           Content(q)' = Content(q) /\ (Pc(q) = "idle" <=> Pc(q)' = "idle")
<1>1. CASE \E pc \in Pcs \ {"idle"} : Goto(r, pc) /\ Pc(r) # "idle"
  BY <1>1 DEF Goto, TypeOK, Handler, Content, Pc
<1>2. CASE \E a : Answer(r, a) /\ Pc(r) # "idle"
  BY <1>2 DEF Answer, TypeOK, Handler, Content, Pc
<1>3. CASE \E a, q : Reply(r, a, q) /\ Pc(r) # "idle"
  BY <1>3 DEF Reply, TypeOK, Handler, Content, Pc
<1>4. CASE ReadIdempotency(r)
  BY <1>1, <1>2, <1>3, <1>4 DEF ReadIdempotency, At, Pc, Pcs
<1>5. CASE CheckPolicy(r) \/ LookupToolCall(r) \/ CheckApproval(r)
  BY <1>1, <1>2, <1>5 DEF CheckPolicy, LookupToolCall, CheckApproval, At, Pc, Pcs
<1>6. CASE Reserve(r)
  <2>1. Pc(r) # "idle"
    BY <1>6 DEF Reserve, At, Pc
  <2>2. \/ Answer(r, "denied")
        \/ \E k \in NamedCalls(r), pc \in {"create", "adapter"} :
             handler' = [handler EXCEPT ![r].pc = pc, ![r].call = k]
    BY <1>6 DEF Reserve
  <2>3. CASE Answer(r, "denied")
    BY <1>2, <2>1, <2>3
  <2>4. CASE \E k \in NamedCalls(r), pc \in {"create", "adapter"} :
               handler' = [handler EXCEPT ![r].pc = pc, ![r].call = k]
    BY <2>1, <2>4 DEF TypeOK, Handler, Content, Pc
  <2> QED
    BY <2>2, <2>3, <2>4
<1>7. CASE RefuseCommit(r) \/ RunAdapter(r) \/ UpdateLog(r)
  BY <1>1, <1>2, <1>7 DEF RefuseCommit, RunAdapter, UpdateLog, At, Pc, Pcs
<1>8. CASE CreateLog(r) \/ CreateFailedLog(r)
  BY <1>1, <1>2, <1>8 DEF CreateLog, CreateFailedLog, At, Pc, Pcs
<1>9. CASE SaveRecord(r)
  BY <1>2, <1>3, <1>9 DEF SaveRecord, At, Pc
<1>10. CASE Lose(r)
  BY <1>2, <1>10 DEF Lose, Pc
<1> QED
  BY <1>4, <1>5, <1>6, <1>7, <1>8, <1>9, <1>10 DEF Step
=============================================================================
