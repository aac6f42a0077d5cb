--------------------------- MODULE OfficialAnswer ---------------------------
(***************************************************************************)
(* GET /answer, the official evaluation route (official_answer in          *)
(* src/src/disclosure_db/api.py): validation, the readiness check, the     *)
(* function-calling pipeline of AnswerFlow, and the fallback to the        *)
(* deterministic agent (agent.py).                                         *)
(*                                                                         *)
(* A request has the fields                                                *)
(*   valid    the question and as_of pass validation                       *)
(*   ready    what runtime_health answers: computed once at startup, so    *)
(*            the same for the two checks a request meets                  *)
(*   service  whether the server has a function-calling service            *)
(*   asOf     the last filing date the caller wants used                   *)
(***************************************************************************)
EXTENDS Integers, Sequences, FiniteSets

CONSTANTS
    Settings, Routes, ToolResponses, AnalysisResponses, Generations,
    AllowedConclusions, MaxCited,       \* see AnswerFlow
    Queries,      \* the requests
    Filed         \* evidence -> filing date

\* Evidence with a receipt is of a filing, which has its date.
ASSUME OfficialAssumption ==
    \A r \in ToolResponses \cup AnalysisResponses : r.receipted \subseteq DOMAIN Filed

VARIABLES
    pc, setting, path, route, resp, gen, calls, broken, conclusion, result,
    query,        \* the request
    stage,        \* where official_answer is
    reply         \* [code, by, context]: HTTP status, who answered, retrieved_context

flowVars == <<pc, setting, path, route, resp, gen, calls, broken, conclusion, result>>
vars == <<flowVars, query, stage, reply>>

Flow == INSTANCE AnswerFlow

NoReply == [code |-> 0, by |-> "none", context |-> {}]

Reply(code, by, context) ==
    stage' = "replied" /\ reply' = [code |-> code, by |-> by, context |-> context]

-----------------------------------------------------------------------------
Init ==
    /\ Flow!Init
    /\ query \in Queries
    /\ stage = "received"
    /\ reply = NoReply

RefuseRequest ==
    /\ stage = "received"
    /\ \/ ~query.valid /\ Reply(422, "none", {})
       \/ query.valid /\ ~query.ready /\ Reply(503, "none", {})
    /\ UNCHANGED <<flowVars, query>>

\* The question that is echoed is planned outside the handler's try: what the planner
\* or the company index raises is the server's 500.
PlanFails ==
    /\ stage = "received" /\ query.valid /\ query.ready
    /\ Reply(500, "none", {})
    /\ UNCHANGED <<flowVars, query>>

\* The pipeline gets the question and nothing else of the request.
CallPipeline ==
    /\ stage = "received" /\ query.valid /\ query.ready
    /\ stage' = IF query.service THEN "pipeline" ELSE "agent"
    /\ UNCHANGED <<flowVars, query, reply>>

PipelineStep ==
    /\ stage = "pipeline"
    /\ Flow!Next
    /\ UNCHANGED <<query, stage, reply>>

\* Faulty variant of ProviderFailure: abstentions are retried.
RetriedStatuses == {"error", "abstained"}

\* The statuses of _PROVIDER_FAILURE_STATUSES that a result can have.
ProviderFailure == {"error"}

\* Faulty variant of ReplyFromPipeline: shows all the evidence of the response.
ReplyWithBundle ==
    /\ stage = "pipeline" /\ pc = "done"
    /\ result.status \notin ProviderFailure
    /\ Reply(200, "pipeline",
             IF result.status = "answered" THEN Flow!EvidenceIds(resp) ELSE {})
    /\ UNCHANGED <<flowVars, query>>

\* A result that is no failure is the reply; the context is shown when it is an
\* answer.
ReplyFromPipeline ==
    /\ stage = "pipeline" /\ pc = "done"
    /\ result.status \notin ProviderFailure
    /\ Reply(200, "pipeline", IF result.status = "answered" THEN result.cites ELSE {})
    /\ UNCHANGED <<flowVars, query>>

\* Faulty variants of FallBack: an exception is not caught; the agent starts
\* before the pipeline has finished.
FallBackOnErrorOnly ==
    /\ stage = "pipeline"
    /\ pc = "done" /\ result.status \in ProviderFailure
    /\ stage' = "agent"
    /\ UNCHANGED <<flowVars, query, reply>>

FallBackWithoutAnswer ==
    /\ stage = "pipeline"
    /\ pc \notin {"received", "done"} \/ result.status \in ProviderFailure
    /\ stage' = "agent"
    /\ UNCHANGED <<flowVars, query, reply>>

FallBack ==
    /\ stage = "pipeline"
    /\ pc = "raised" \/ (pc = "done" /\ result.status \in ProviderFailure)
    /\ stage' = "agent"
    /\ UNCHANGED <<flowVars, query, reply>>

\* The evidence filed by the reference date.
FiledBy(asOf) == {id \in DOMAIN Filed : Filed[id] <= asOf}

\* verified_answer: the readiness it checks again is the cached value that let
\* the request in; the agent plans the query with as_of and cites evidence filed
\* by then, or nothing; an exception of it is the server's 500.
AgentReplies ==
    /\ stage = "agent"
    /\ \/ \E ids \in SUBSET FiledBy(query.asOf) : Reply(200, "agent", ids)
       \/ Reply(500, "none", {})
    /\ UNCHANGED <<flowVars, query>>

Next ==
    \/ RefuseRequest \/ PlanFails \/ CallPipeline \/ PipelineStep
    \/ ReplyFromPipeline \/ FallBack \/ AgentReplies

\* The handler runs on a worker thread until it returns.
Spec == Init /\ [][Next]_vars /\ WF_vars(Next)

-----------------------------------------------------------------------------
(* Properties                                                              *)

Replied == stage = "replied"

\* A reply has one of the documented codes, and the pipeline has run to its end
\* before anyone answers for it.
TypeOK ==
    /\ query \in Queries
    /\ stage \in {"received", "pipeline", "agent", "replied"}
    /\ reply.code \in {0, 200, 422, 500, 503}
    /\ reply.by \in {"none", "pipeline", "agent"}
    /\ reply.context \subseteq DOMAIN Filed
    /\ reply.code # 0 <=> Replied
    /\ stage \in {"agent", "replied"} => pc \in {"received", "done", "raised"}

\* What the pipeline withheld on purpose (a policy refusal, a rejected claim, a
\* missing receipt, an injection, an invalid question) is never answered by the
\* weaker path, and is shown without evidence.
RefusalsStand ==
    Replied /\ query.service /\ pc = "done"
        /\ result.status \in {"abstained", "invalid_request", "provider_unavailable"} =>
            reply = [code |-> 200, by |-> "pipeline", context |-> {}]

\* GET /answer never disagrees with the pipeline behind the public UI: it shows
\* an answer of the pipeline with the evidence the pipeline displays, and the
\* agent speaks only where the pipeline has nothing to say.
AnswersAgree ==
    Replied =>
        /\ reply.by = "pipeline" /\ reply.context # {} => reply.context = result.cites
        /\ reply.by = "pipeline" /\ result.status = "answered" => reply.context # {}
        /\ reply.by = "agent" /\ query.service => result.status \in {"pending", "error"}

\* A disclosure filed after as_of is not used in an answer for that date, as
\* docs/submission/technical-proposal.md:142 says.
AsOfRespected == reply.context \subseteq FiledBy(query.asOf)

\* Every request is replied to.
Replies == <>Replied
=============================================================================
