---------------------------- MODULE ToolGateway ----------------------------
(***************************************************************************)
(* ToolService of the tool gateway: preview, commit and invoke.            *)
(*                                                                         *)
(* A handler reads the idempotency record, checks manifest and policies,   *)
(* looks up the tool call and its approval, reserves an evaluation call,   *)
(* runs the adapter, writes the tool_call_log and at last inserts the      *)
(* idempotency record. Each database call is one action: handlers of       *)
(* several requests interleave and any of them may be lost half way.       *)
(*                                                                         *)
(* A request stands for one HTTP call; a client that retries sends another *)
(* request with the same content. An effect is a run of an adapter.        *)
(***************************************************************************)
EXTENDS Naturals, FiniteSets

CONSTANTS
  Requests,    \* HTTP calls
  Contents,    \* what clients ask for: [op, tool, key, body, case, call]
  ToolCalls,   \* tool_call_id values
  Tools,       \* tool manifests
  Cases,       \* evaluation cases; a request without one has context runtime
  None,
  Risk,        \* [Tools -> risk_level]
  EvalMode,    \* [Tools -> evaluation_policy.mode]
  EvalLimit,   \* [Tools -> maximum_calls_per_case]
  Unlimited,   \* tools with no maximum_calls_per_case
  Mock,        \* tools with the mock adapter: the only one that commits
  Refused,     \* tools no manifest or tenant policy admits (not registered,
               \*   version, hash, risk or arguments mismatch, tenant policy)
  MaxFaults    \* bound: requests lost half way

Ops        == {"preview", "commit", "invoke"}
RiskLevels == {"L0", "L1", "L2", "L3", "L4"}
Modes      == {"deny", "preview_only", "sandbox_commit"}

ASSUME GatewayAssumption ==
  /\ None \notin Requests \cup ToolCalls \cup Cases
  /\ Risk \in [Tools -> RiskLevels]
  /\ EvalMode \in [Tools -> Modes]
  /\ EvalLimit \in [Tools -> Nat]
  /\ Unlimited \subseteq Tools /\ Mock \subseteq Tools /\ Refused \subseteq Tools
  /\ \A c \in Contents : /\ c.op \in Ops /\ c.tool \in Tools
                         /\ c.case \in Cases \cup {None}
                         /\ c.op = "commit" <=> c.call # None
                         /\ c.call \in ToolCalls \cup {None}
  /\ MaxFaults \in Nat

VARIABLES
  handler,    \* each request: content, program counter, tool call, answer
  log,        \* tool_call_log.status of each tool call
  logTool,    \* tool_call_log.tool_name of each tool call
  idem,       \* idempotency_record rows: one per store key
  reserved,   \* evaluation_tool_call_reservation rows
  approvals,  \* tool calls with an approved human task, as the lookup finds it
  effects,    \* requests whose adapter ran
  granted,    \* history: tool calls that were approved at some time
  faults

vars == <<handler, log, logTool, idem, reserved, approvals, effects, granted, faults>>

Pcs == {"idle", "replay", "policy", "lookup", "approval", "reserve", "adapter",
        "update", "create", "createFailed", "save", "answered"}
Answers == {"none", "previewed", "pending_confirmation", "needs_confirmation",
            "committed", "succeeded", "replayed", "conflict", "denied",
            "unsupported", "failed", "error"}
LogStatus == {"none", "previewed", "pending_confirmation", "approved", "rejected",
              "committed", "denied", "failed"}

Idle == [pc |-> "idle", content |-> None, call |-> None,
         answer |-> "none", result |-> None, late |-> FALSE]

Content(r) == handler[r].content
Op(r)      == Content(r).op
Tool(r)    == Content(r).tool
Case(r)    == Content(r).case
Call(r)    == handler[r].call
RiskOf(r)  == Risk[Tool(r)]

\* buildIdempotencyStoreKey and hashInvokeRequest / hashCommitRequest.
StoreKeyOf(c)    == <<c.tool, c.op, c.key>>
FingerprintOf(c) == <<c.op, c.tool, c.body, c.case, c.call>>
StoreKeys   == {StoreKeyOf(c) : c \in Contents}
StoreKey(r) == StoreKeyOf(Content(r))

NoRecord    == [fingerprint |-> None, result |-> None]
Recorded(s) == idem[s].result # None

Succeeded(r) == handler[r].answer \in {"committed", "succeeded"}

Init ==
  /\ handler   = [r \in Requests |-> Idle]
  /\ log       = [k \in ToolCalls |-> "none"]
  /\ logTool   = [k \in ToolCalls |-> None]
  /\ idem      = [s \in StoreKeys |-> NoRecord]
  /\ reserved  = {}
  /\ approvals = {}
  /\ effects   = {}
  /\ granted   = {}
  /\ faults    = 0

-----------------------------------------------------------------------------
Goto(r, pc)   == handler' = [handler EXCEPT ![r].pc = pc]
Answer(r, a)  == handler' = [handler EXCEPT ![r].pc = "answered", ![r].answer = a]
Reply(r, a, q) == handler' = [handler EXCEPT ![r].pc = "answered", ![r].answer = a,
                                             ![r].result = q]
At(r, pc) == handler[r].pc = pc

\* A request arrives. late remembers, for the properties, whether a request with
\* the same store key had been answered with success by then.
Arrive(r, c) ==
  /\ At(r, "idle")
  /\ handler' = [handler EXCEPT ![r] =
       [pc |-> IF c.op = "preview" THEN "policy" ELSE "replay",
        content |-> c, call |-> c.call, answer |-> "none", result |-> None,
        late |-> \E q \in Requests : Succeeded(q) /\ StoreKey(q) = StoreKeyOf(c)]]
  /\ UNCHANGED <<log, logTool, idem, reserved, approvals, effects, granted, faults>>

\* getIdempotencyReplay: a request with the key of a record is a replay or a
\* conflict; without a record it goes on.
ReadIdempotency(r) ==
  /\ At(r, "replay")
  /\ \/ ~Recorded(StoreKey(r)) /\ Goto(r, "policy")
     \/ /\ Recorded(StoreKey(r))
        /\ IF idem[StoreKey(r)].fingerprint = FingerprintOf(Content(r))
             THEN Reply(r, "replayed", idem[StoreKey(r)].result)
             ELSE Answer(r, "conflict")
  /\ UNCHANGED <<log, logTool, idem, reserved, approvals, effects, granted, faults>>

\* enforceEvaluationPolicy.
EvaluationAllows(r) ==
  Case(r) # None =>
    \/ EvalMode[Tool(r)] = "sandbox_commit" /\ Tool(r) \in Mock
    \/ EvalMode[Tool(r)] = "preview_only" /\ Op(r) = "preview"

\* loadAndValidateManifest, enforceEvaluationPolicy, enforceTenantPolicy and
\* evaluatePolicy: reads of immutable manifests and snapshots, so one action.
CheckPolicy(r) ==
  /\ At(r, "policy")
  /\ IF \/ Tool(r) \in Refused
        \/ ~EvaluationAllows(r)
        \/ RiskOf(r) = "L4" /\ Op(r) # "preview"
       THEN Answer(r, "denied")
       ELSE CASE Op(r) = "commit"                      -> Goto(r, "lookup")
              [] Op(r) = "invoke" /\ RiskOf(r) = "L3"  -> Answer(r, "needs_confirmation")
              [] OTHER                                 -> Goto(r, "reserve")
  /\ UNCHANGED <<log, logTool, idem, reserved, approvals, effects, granted, faults>>

\* Variant: evaluations need no approval.
LookupToolCallTrustingCases(r) ==
  /\ At(r, "lookup")
  /\ IF log[Call(r)] = "none" \/ logTool[Call(r)] # Tool(r)
       THEN Answer(r, "denied")
       ELSE Goto(r, IF RiskOf(r) = "L3" /\ Case(r) = None THEN "approval" ELSE "reserve")
  /\ UNCHANGED <<log, logTool, idem, reserved, approvals, effects, granted, faults>>

\* commit: toolCallLogStore.get and the checks on the row.
LookupToolCall(r) ==
  /\ At(r, "lookup")
  /\ IF log[Call(r)] = "none" \/ logTool[Call(r)] # Tool(r)
       THEN Answer(r, "denied")
       ELSE Goto(r, IF RiskOf(r) = "L3" THEN "approval" ELSE "reserve")
  /\ UNCHANGED <<log, logTool, idem, reserved, approvals, effects, granted, faults>>

\* commit of an L3 tool: findApprovedForToolCall, at this moment.
CheckApproval(r) ==
  /\ At(r, "approval")
  /\ \/ /\ Call(r) \in approvals
        /\ Goto(r, "reserve")
        /\ UNCHANGED log
     \/ /\ Call(r) \notin approvals
        /\ log' = [log EXCEPT ![Call(r)] = "denied"]
        /\ Answer(r, "denied")
  /\ UNCHANGED <<logTool, idem, reserved, approvals, effects, granted, faults>>

\* reserveEvaluationLogicalCall, one transaction under an advisory lock. preview
\* and invoke draw their fresh tool_call_id just before.
Reservations(case, tool) == {x \in reserved : x.case = case /\ x.tool = tool}

\* Variant, for testing the properties: an off-by-one in the limit.
HasRoomOffByOne(case, tool) ==
  Cardinality(Reservations(case, tool)) <= EvalLimit[tool]

HasRoom(case, tool) == Cardinality(Reservations(case, tool)) < EvalLimit[tool]

Fresh(k) == log[k] = "none" /\ \A q \in Requests : Call(q) # k

NamedCalls(r) == IF Op(r) = "commit" THEN {Call(r)} ELSE {k \in ToolCalls : Fresh(k)}

Reserve(r) ==
  /\ At(r, "reserve")
  /\ \E k \in NamedCalls(r) :
       LET row  == [case |-> Case(r), tool |-> Tool(r), call |-> k]
           next == IF Op(r) = "preview" THEN "create" ELSE "adapter"
       IN \/ /\ Case(r) = None \/ Tool(r) \in Unlimited
             /\ handler' = [handler EXCEPT ![r].pc = next, ![r].call = k]
             /\ UNCHANGED reserved
          \/ /\ Case(r) # None /\ Tool(r) \notin Unlimited
             /\ row \in reserved \/ HasRoom(Case(r), Tool(r))
             /\ reserved' = reserved \cup {row}
             /\ handler' = [handler EXCEPT ![r].pc = next, ![r].call = k]
          \/ /\ Case(r) # None /\ Tool(r) \notin Unlimited
             /\ row \notin reserved /\ ~HasRoom(Case(r), Tool(r))
             /\ Answer(r, "denied")
             /\ UNCHANGED reserved
  /\ UNCHANGED <<log, logTool, idem, approvals, effects, granted, faults>>

\* commit: assertCommitSupported throws. The log row says denied, but the code
\* TOOL_ADAPTER_NOT_SUPPORTED is not one that tool-client takes for a denial.
RefuseCommit(r) ==
  /\ At(r, "adapter") /\ Op(r) = "commit" /\ Tool(r) \notin Mock
  /\ log' = [log EXCEPT ![Call(r)] = "denied"]
  /\ Answer(r, "unsupported")
  /\ UNCHANGED <<logTool, idem, reserved, approvals, effects, granted, faults>>

\* adapterDispatcher.invoke. If it throws, the effect may have happened or not;
\* invoke catches the error, commit does not.
RunAdapter(r) ==
  /\ At(r, "adapter") /\ (Op(r) = "commit" => Tool(r) \in Mock)
  /\ \/ /\ effects' = effects \cup {r}
        /\ Goto(r, IF Op(r) = "commit" THEN "update" ELSE "create")
     \/ /\ effects' \in {effects, effects \cup {r}}
        /\ IF Op(r) = "commit" THEN Answer(r, "error") ELSE Goto(r, "createFailed")
  /\ UNCHANGED <<log, logTool, idem, reserved, approvals, granted, faults>>

\* commit: toolCallLogStore.update to committed, whatever the row says by now.
UpdateLog(r) ==
  /\ At(r, "update")
  /\ log' = [log EXCEPT ![Call(r)] = "committed"]
  /\ Goto(r, "save")
  /\ UNCHANGED <<logTool, idem, reserved, approvals, effects, granted, faults>>

\* preview and invoke: toolCallLogStore.create.
PreviewStatus(r) == CASE RiskOf(r) = "L4" -> "denied"
                      [] RiskOf(r) = "L3" -> "pending_confirmation"
                      [] OTHER            -> "previewed"

CreateLog(r) ==
  /\ At(r, "create")
  /\ logTool' = [logTool EXCEPT ![Call(r)] = Tool(r)]
  /\ IF Op(r) = "preview"
       THEN /\ log' = [log EXCEPT ![Call(r)] = PreviewStatus(r)]
            /\ Answer(r, PreviewStatus(r))
       ELSE /\ log' = [log EXCEPT ![Call(r)] = "committed"]
            /\ Goto(r, "save")
  /\ UNCHANGED <<idem, reserved, approvals, effects, granted, faults>>

\* Variant: the catch block writes the same status as the normal path.
CreateFailedLogCommitted(r) ==
  /\ At(r, "createFailed")
  /\ logTool' = [logTool EXCEPT ![Call(r)] = Tool(r)]
  /\ log' = [log EXCEPT ![Call(r)] = "committed"]
  /\ Answer(r, "failed")
  /\ UNCHANGED <<idem, reserved, approvals, effects, granted, faults>>

CreateFailedLog(r) ==
  /\ At(r, "createFailed")
  /\ logTool' = [logTool EXCEPT ![Call(r)] = Tool(r)]
  /\ \E status \in {"denied", "failed"} :
       /\ log' = [log EXCEPT ![Call(r)] = status]
       /\ Answer(r, status)
  /\ UNCHANGED <<idem, reserved, approvals, effects, granted, faults>>

\* Variants: a second record replaces the first; only commits are recorded.
SaveRecordReplacing(r) ==
  /\ At(r, "save")
  /\ idem' = [idem EXCEPT ![StoreKey(r)] =
       [fingerprint |-> FingerprintOf(Content(r)), result |-> r]]
  /\ Reply(r, IF Op(r) = "commit" THEN "committed" ELSE "succeeded", r)
  /\ UNCHANGED <<log, logTool, reserved, approvals, effects, granted, faults>>

SaveRecordOfCommits(r) ==
  /\ At(r, "save")
  /\ idem' = IF Op(r) # "commit" THEN idem
             ELSE [idem EXCEPT ![StoreKey(r)] =
                    [fingerprint |-> FingerprintOf(Content(r)), result |-> r]]
  /\ Reply(r, IF Op(r) = "commit" THEN "committed" ELSE "succeeded", r)
  /\ UNCHANGED <<log, logTool, reserved, approvals, effects, granted, faults>>

\* saveIdempotencyRecord: idempotency_key is the primary key, so the insert of a
\* second record throws and the client gets an error.
SaveRecord(r) ==
  /\ At(r, "save")
  /\ \/ /\ ~Recorded(StoreKey(r))
        /\ idem' = [idem EXCEPT ![StoreKey(r)] =
             [fingerprint |-> FingerprintOf(Content(r)), result |-> r]]
        /\ Reply(r, IF Op(r) = "commit" THEN "committed" ELSE "succeeded", r)
     \/ /\ Recorded(StoreKey(r))
        /\ Answer(r, "error")
        /\ UNCHANGED idem
  /\ UNCHANGED <<log, logTool, reserved, approvals, effects, granted, faults>>

\* The process dies or a database call throws: the client gets no success.
Lose(r) ==
  /\ handler[r].pc \notin {"idle", "answered"}
  /\ faults < MaxFaults
  /\ faults' = faults + 1
  /\ Answer(r, "error")
  /\ UNCHANGED <<log, logTool, idem, reserved, approvals, effects, granted>>

\* runtime-api decides human tasks of a tool call, maybe several times and with
\* opposite verdicts (HumanTask models how): the rows the lookup reads change in
\* one step, the tool_call_log in another.
AwaitsDecision(k) == log[k] # "none" /\ Risk[logTool[k]] = "L3"

Approve(k) ==
  /\ AwaitsDecision(k)
  /\ approvals' = approvals \cup {k}
  /\ granted' = granted \cup {k}
  /\ UNCHANGED <<handler, log, logTool, idem, reserved, effects, faults>>

Overrule(k) ==
  /\ approvals' = approvals \ {k}
  /\ UNCHANGED <<handler, log, logTool, idem, reserved, effects, granted, faults>>

LogDecision(k, verdict) ==
  /\ AwaitsDecision(k)
  /\ log' = [log EXCEPT ![k] = verdict]
  /\ UNCHANGED <<handler, logTool, idem, reserved, approvals, effects, granted, faults>>

Decide(k) ==
  \/ Approve(k)
  \/ Overrule(k)
  \/ \E verdict \in {"approved", "rejected"} : LogDecision(k, verdict)

Step(r) ==
  \/ ReadIdempotency(r) \/ CheckPolicy(r) \/ LookupToolCall(r) \/ CheckApproval(r)
  \/ Reserve(r) \/ RefuseCommit(r) \/ RunAdapter(r) \/ UpdateLog(r)
  \/ CreateLog(r) \/ CreateFailedLog(r) \/ SaveRecord(r)

Next ==
  \/ \E r \in Requests, c \in Contents : Arrive(r, c)
  \/ \E r \in Requests : Step(r)
  \/ \E r \in Requests : Lose(r)
  \/ \E k \in ToolCalls : Decide(k)

Spec == Init /\ [][Next]_vars

-----------------------------------------------------------------------------
Handler == [pc      : Pcs,
            content : Contents \cup {None},
            call    : ToolCalls \cup {None},
            answer  : Answers,
            result  : Requests \cup {None},
            late    : BOOLEAN]

Record == [fingerprint : {FingerprintOf(c) : c \in Contents} \cup {None},
           result      : Requests \cup {None}]

\* Every variable has its type; only a request that arrived has a content.
TypeOK ==
  /\ handler   \in [Requests -> Handler]
  /\ \A r \in Requests : handler[r].pc # "idle" => handler[r].content \in Contents
  /\ log       \in [ToolCalls -> LogStatus]
  /\ logTool   \in [ToolCalls -> Tools \cup {None}]
  /\ idem      \in [StoreKeys -> Record]
  /\ reserved  \subseteq [case : Cases, tool : Tools, call : ToolCalls]
  /\ approvals \subseteq ToolCalls
  /\ effects   \subseteq Requests
  /\ granted   \subseteq ToolCalls
  /\ faults    \in 0 .. MaxFaults

\* No adapter runs for an L3 tool unless a human approved that very tool call
\* before: not by invoke, not in an evaluation, not after a retry.
EffectOnlyAfterApproval ==
  \A r \in effects :
    RiskOf(r) = "L3" => Op(r) = "commit" /\ Call(r) \in granted

\* Once a request has been answered with success, a later one with its store key
\* runs no adapter again: it is a replay or a conflict, or fails half way.
AnsweredKeyIsFinal ==
  \A r \in Requests :
    handler[r].late =>
      /\ r \notin effects
      /\ handler[r].answer \in {"none", "replayed", "conflict", "error"}

\* All clients that get a result under one store key get the same one, and only
\* for the request it belongs to, however their handlers overlapped.
OneResultPerKey ==
  \A r, q \in Requests :
    /\ handler[r].answer \in {"committed", "succeeded", "replayed"}
    /\ handler[q].answer \in {"committed", "succeeded", "replayed"}
    /\ StoreKey(r) = StoreKey(q)
    => /\ handler[r].result = handler[q].result
       /\ FingerprintOf(Content(r)) = FingerprintOf(Content(q))

\* In an evaluation the adapter runs for at most maximum_calls_per_case logical
\* tool calls of a case, and only for tools whose policy is sandbox_commit,
\* although handlers of the same case reserve concurrently.
EvaluationCalls(case, tool) ==
  {Call(r) : r \in {q \in effects : Case(q) = case /\ Tool(q) = tool}}

EvaluationWithinLimit ==
  \A case \in Cases, tool \in Tools :
    /\ EvaluationCalls(case, tool) # {} => EvalMode[tool] = "sandbox_commit"
    /\ tool \notin Unlimited
         => Cardinality(EvaluationCalls(case, tool)) <= EvalLimit[tool]

\* A tool_call_log row that says committed belongs to an adapter that ran.
CommittedMeansExecuted ==
  \A k \in ToolCalls :
    log[k] = "committed" => \E r \in effects : Call(r) = k

-----------------------------------------------------------------------------
\* What the documents say and the code does not keep.

\* tool-gateway DEV_SPEC.md: a repeated request returns the first result or a
\* definite duplicate status, and never submits the side effect again.
NoRepeatedEffect ==
  \A r, q \in effects :
    r # q /\ RiskOf(r) = "L3" => FingerprintOf(Content(r)) # FingerprintOf(Content(q))
                              \/ StoreKey(r) # StoreKey(q)
=============================================================================
