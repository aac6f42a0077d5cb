----------------------------- MODULE AnswerFlow -----------------------------
(***************************************************************************)
(* One question through HcxFunctionCallingService.answer                   *)
(* (src/src/disclosure_db/hcx_function_calling.py): the refusals before    *)
(* any provider call, the bounded analysis, the deterministic route, the   *)
(* provider's choice of one tool, the evidence gate, the generation and    *)
(* its claim-level verification, and the answers the server writes itself. *)
(*                                                                         *)
(* A tool response has the fields of ClaimVerification and                 *)
(*   tool, status, allowed, action   the gate's inputs                     *)
(*   receipted   the evidence items with a valid 14-digit receipt          *)
(*   roles       evidence -> "original", "corrected" or "none"             *)
(*   corrections whether data.corrected_filings is a non-empty list        *)
(*   rendering   the part of data a deterministic answer would show        *)
(*   counts      the numbers of a disclosure trend                         *)
(*   premise     whether data.premise ends in _not_confirmed               *)
(*   conclusion  data.conclusion                                           *)
(* and every calculation also                                              *)
(*   shown       the number a sentence writes for it: its value, or for a  *)
(*               rate the value rounded to two decimals                    *)
(* and a generated answer those of ClaimVerification and                   *)
(*   clean       its answer text passes the policy checks; every claim has *)
(*               the same field for its own text                           *)
(*   conclusion  the conclusion it declares                                *)
(***************************************************************************)
EXTENDS ClaimVerification

LOCAL INSTANCE SequencesExt

CONSTANTS
    Settings,            \* set of [configured, executor, router], see Init
    Routes,              \* deterministic routes: [workflow, reason, tool, asksAmount]
    ToolResponses,       \* what the registry and the workflows may return
    AnalysisResponses,   \* to_tool_response of complete bounded analyses
    Generations,         \* well-formed final answers of the provider
    AllowedConclusions,  \* plan.allowed_conclusions of a bounded analysis
    MaxCited             \* the five citations of a deterministic answer

VARIABLES
    pc,          \* where answer() is
    setting,     \* what the service was built with
    path,        \* who chose the tool: "analysis", "route" or "provider"
    route,       \* the route, or NoRoute
    resp,        \* the tool response, or NoResponse
    gen,         \* the generated answer, or NoGeneration
    calls,       \* history: the provider calls made
    broken,      \* history: the round trips that failed
    conclusion,  \* [meta, data]: metadata.conclusion and data.conclusion
    result       \* the FunctionCallingResult

vars == <<pc, setting, path, route, resp, gen, calls, broken, conclusion, result>>

NoRoute == [workflow |-> "none", reason |-> "none", tool |-> "none", asksAmount |-> FALSE]
NoResponse == [status |-> "none"]
NoGeneration == [claims |-> {}]
NoConclusion == [meta |-> "none", data |-> "none"]
Pending == [status |-> "pending"]

-----------------------------------------------------------------------------
(* Results                                                                 *)

Withheld(status, why) ==
    [status |-> status, why |-> why, by |-> "none", cites |-> {}, nums |-> {},
     support |-> {}, clean |-> TRUE]

\* by: whose sentences are shown; cites: the displayed evidence, each with its
\* receipt; support: the evidence the shown sentences rest on.
Shown(by, why, cites, nums, support, clean) ==
    [status |-> "answered", why |-> why, by |-> by, cites |-> cites, nums |-> nums,
     support |-> support, clean |-> clean]

\* Faulty variant of Return: the result is built and the code goes on.
BuildWithoutReturn(r) == pc' = pc /\ result' = r

\* answer() returns.
Return(r) == pc' = "done" /\ result' = r

-----------------------------------------------------------------------------
(* The gate and the citations                                              *)

\* answer_allowed.
Answerable(r) ==
    /\ r.status \in {"success", "partial"}
    /\ r.allowed
    /\ r.action \in {"answer", "answer_with_warning"}

\* _available_citations: the evidence whose item carries a valid receipt.
Available(r) == r.receipted

LineageTool == "get_correction_lineage"

\* Faulty variant of PairMissing: a role counts without a receipt.
PairMissingInBundle(r) ==
    /\ r.tool = LineageTool /\ r.corrections
    /\ ~ {"original", "corrected"} \subseteq {r.roles[id] : id \in EvidenceIds(r)}

\* _requires_correction_pair and _has_correction_pair.
PairMissing(r) ==
    /\ r.tool = LineageTool /\ r.corrections
    /\ ~ {"original", "corrected"} \subseteq {r.roles[id] : id \in Available(r)}

\* Faulty variant of Selected: the cited evidence of a correction only.
SelectedAsCited(r, ids) == ids \cap Available(r)

\* _selected_citations.
Selected(r, ids) == IF r.tool = LineageTool THEN Available(r) ELSE ids \cap Available(r)

-----------------------------------------------------------------------------
(* Answers the server writes                                               *)

Nums(items) == UNION {x.nums : x \in items}
ShownNums(items) == UNION {c.shown : c \in items}

FirstCited(ids) == ToSet(SubSeq(ids, 1, IF Len(ids) < MaxCited THEN Len(ids) ELSE MaxCited))

\* safe_ids: the available evidence behind an admitted fact, or all of it.
SafeIds(available, adm) ==
    LET backed == SelectSeq(available, LAMBDA id : \E f \in adm.facts : id \in f.ids)
    IN  IF backed = <<>> THEN available ELSE backed

\* _deterministic_claim_fallback: the numbers the renderer of r shows.
\* Comparison and statement rows and trend counts are shown as they are; fact
\* rows only when admitted, for a premise two of them.
Renderings(r, adm, rt) ==
    IF adm.facts = {} THEN {}
    ELSE IF rt.workflow = "financial_change_reason" /\ r.premise
         THEN {Nums(pair) : pair \in {p \in SUBSET adm.facts : Cardinality(p) = 2}}
    ELSE IF r.rendering = "comparison" /\ Cardinality(r.facts) >= 2
         THEN {Nums(r.facts) \cup IF adm.rejectedCalcs = {} THEN ShownNums(r.calcs) ELSE {}}
    ELSE CASE r.rendering \in {"comparison", "facts"} -> {Nums(adm.facts)}
           [] r.rendering = "trend" -> {r.counts}
           [] r.rendering = "statement" /\ rt.workflow = "financial_statement_metric" ->
                {Nums(r.facts)}
           [] OTHER -> {}

Fallbacks(r, adm, available, rt) ==
    {[nums |-> ns, cites |-> FirstCited(SafeIds(available, adm))] :
        ns \in Renderings(r, adm, rt)}

\* _deterministic_amount_verification_answer: the single validated fact.
AmountAnswers(r) ==
    {[nums |-> f.nums, cites |-> f.ids \cap EvidenceIds(r)] :
        f \in {g \in r.facts : /\ r.facts = {g}
                               /\ r.rendering = "facts"
                               /\ g.ids \cap EvidenceIds(r) # {}}}

\* The claim _verified_deterministic_fallback_result builds for its answer.
FallbackClaim(fb, cited, adm) ==
    LET facts == {f \in adm.facts : f.ids \subseteq cited}
        calcs == {c \in adm.calcs : c.ids \subseteq cited}
    IN  [id |-> "deterministic-fallback-1", cites |-> cited,
         facts |-> {f.ref : f \in facts}, calcs |-> {c.ref : c \in calcs},
         slots |-> UNION {OwnedSlots(x.ids, adm.slots) : x \in facts \cup calcs},
         nums |-> Nums(facts \cup calcs), prose |-> fb.nums, finite |-> TRUE]

\* _verified_deterministic_fallback_result: the answer, when its own claim
\* verifies and a citation has a receipt.
VerifiedFallback(fb, r, adm, why) ==
    LET cited == fb.cites \cap Available(r)
        claim == FallbackClaim(fb, cited, adm)
        answer == [cites |-> cited, nums |-> fb.nums, finite |-> TRUE, claims |-> {claim}]
    IN  IF Verified(answer, adm, TRUE, TRUE) /\ Selected(r, fb.cites) # {}
        THEN Shown("server", why, Selected(r, fb.cites), fb.nums, cited, TRUE)
        ELSE Withheld("abstained", "deterministic_fallback_verification_failed")

\* The same with the renderer of the response, or without an answer.
FallbackResults(r, adm, rt, why) ==
    LET available == SelectSeq(r.bundle, LAMBDA id : id \in Available(r))
        choices == Fallbacks(r, adm, available, rt)
    IN  IF choices = {} THEN {Withheld("abstained", "deterministic_fallback_not_available")}
        ELSE {VerifiedFallback(fb, r, adm, why) : fb \in choices}

\* _allows_deterministic_fallback.
AllowsFallback(rt, tool) ==
    \/ rt.workflow = "financial_statement_metric"
    \/ /\ tool = "get_financial_facts"
       /\ rt.workflow \in {"single", "financial_derived", "financial_comparison"}

-----------------------------------------------------------------------------
(* Before any tool                                                         *)

Init ==
    /\ pc = "received"
    /\ setting \in Settings
    /\ path = "none" /\ route = NoRoute /\ resp = NoResponse /\ gen = NoGeneration
    /\ calls = <<>> /\ broken = {}
    /\ conclusion = NoConclusion
    /\ result = Pending

\* preflight_public_question and the length limit.
RejectQuestion ==
    /\ pc = "received"
    /\ \E r \in {Withheld("invalid_request", "question_invalid"),
                 Withheld("abstained", "question_conditions")} : Return(r)
    /\ UNCHANGED <<setting, path, route, resp, gen, calls, broken, conclusion>>

RefuseInjection ==
    /\ pc = "received"
    /\ Return(Withheld("abstained", "prompt_injection_detected"))
    /\ UNCHANGED <<setting, path, route, resp, gen, calls, broken, conclusion>>

AcceptQuestion ==
    /\ pc = "received"
    /\ pc' = IF setting.executor THEN "analysing" ELSE "routing"
    /\ UNCHANGED <<setting, path, route, resp, gen, calls, broken, conclusion, result>>

\* Any exception of the executor is answered, not raised.
AnalysisRaises ==
    /\ pc = "analysing"
    /\ broken' = broken \cup {"analysis"}
    /\ Return(Withheld("error", "bounded_analysis_failed_closed"))
    /\ UNCHANGED <<setting, path, route, resp, gen, calls, conclusion>>

AnalysisProhibits ==
    /\ pc = "analysing"
    /\ Return(Withheld("abstained", "policy_refusal"))
    /\ UNCHANGED <<setting, path, route, resp, gen, calls, broken, conclusion>>

AnalysisIncomplete ==
    /\ pc = "analysing"
    /\ conclusion' = [meta |-> "insufficient_evidence", data |-> "insufficient_evidence"]
    /\ Return(Withheld("abstained", "mandatory_analysis_evidence_missing"))
    /\ UNCHANGED <<setting, path, route, resp, gen, calls, broken>>

\* A complete analysis has no conclusion of its own yet.
AnalysisCompletes ==
    /\ pc = "analysing"
    /\ path' = "analysis"
    /\ \E r \in AnalysisResponses :
        IF setting.configured
        THEN pc' = "gating" /\ resp' = r /\ UNCHANGED result
        ELSE resp' = r /\ Return(Withheld("provider_unavailable", "hcx_api_key_not_configured"))
    /\ UNCHANGED <<setting, route, gen, calls, broken, conclusion>>

AnalysisDeclines ==
    /\ pc = "analysing"
    /\ pc' = "routing"
    /\ UNCHANGED <<setting, path, route, resp, gen, calls, broken, conclusion, result>>

\* The router is called outside any try block.
RouterRaises ==
    /\ pc = "routing" /\ setting.router
    /\ pc' = "raised"
    /\ UNCHANGED <<setting, path, route, resp, gen, calls, broken, conclusion, result>>

RouteClarifies ==
    /\ pc = "routing" /\ setting.router
    /\ Return(Withheld("abstained", "deterministic_clarification"))
    /\ UNCHANGED <<setting, path, route, resp, gen, calls, broken, conclusion>>

RouteFound ==
    /\ pc = "routing" /\ setting.router
    /\ route' \in Routes
    /\ path' = "route"
    /\ pc' = "executing"
    /\ UNCHANGED <<setting, resp, gen, calls, broken, conclusion, result>>

NoRouteFound ==
    /\ pc = "routing"
    /\ IF setting.configured
       THEN path' = "provider" /\ pc' = "selecting" /\ UNCHANGED result
       ELSE UNCHANGED path
            /\ Return(Withheld("provider_unavailable", "hcx_api_key_not_configured"))
    /\ UNCHANGED <<setting, route, resp, gen, calls, broken, conclusion>>

SelectTool ==
    /\ pc = "selecting"
    /\ calls' = Append(calls, "select")
    /\ \/ pc' = "executing" /\ UNCHANGED <<broken, result>>
       \/ /\ broken' = broken \cup {"provider"}
          /\ Return(Withheld("error", "hcx_tool_selection_failed"))
    /\ UNCHANGED <<setting, path, route, resp, gen, conclusion>>

-----------------------------------------------------------------------------
(* The tool and the evidence gate                                          *)

\* The tool a response belongs to: a correction search ends in the lineage
\* tool, any other route in its own; the provider may name any tool.
Answers(r) ==
    \/ path = "provider"
    \/ r.tool = route.tool
    \/ route.workflow = "correction_search_then_lineage" /\ r.tool = LineageTool

ExecuteTool ==
    /\ pc = "executing"
    /\ \E r \in ToolResponses :
        /\ Answers(r)
        /\ resp' = r
        /\ conclusion' = [conclusion EXCEPT !.data = r.conclusion]
        /\ broken' = IF r.status = "error" THEN broken \cup {"tool"} ELSE broken
    /\ pc' = "gating"
    /\ UNCHANGED <<setting, path, route, gen, calls, result>>

GateCloses ==
    /\ pc = "gating"
    /\ \/ resp.status = "invalid_request"
            /\ Return(Withheld("invalid_request", "tool_request_rejected"))
       \/ resp.status = "error"
            /\ Return(Withheld("error", "tool_execution_failed"))
       \/ /\ resp.status \notin {"invalid_request", "error"} /\ ~Answerable(resp)
          /\ Return(Withheld("abstained", "answer_generation_blocked_by_sufficiency"))
       \/ /\ Answerable(resp) /\ Available(resp) = {}
          /\ Return(Withheld("abstained", "answer_generation_blocked_by_missing_rcept_no"))
       \/ /\ Answerable(resp) /\ Available(resp) # {} /\ PairMissing(resp)
          /\ Return(Withheld("abstained", "incomplete_correction_receipts"))
    /\ UNCHANGED <<setting, path, route, resp, gen, calls, broken, conclusion>>

GateOpen == Answerable(resp) /\ Available(resp) # {} /\ ~PairMissing(resp)

VerifiesAmount ==
    /\ route.reason = "structured_financial_lookup" /\ route.asksAmount
    /\ AmountAnswers(resp) # {}

CorrectsPremise == route.workflow = "financial_change_reason" /\ resp.premise

\* The server answers without the provider: an amount to verify, a premise the
\* facts do not confirm, or no provider at all.
AnswerDeterministically ==
    /\ pc = "gating" /\ GateOpen
    /\ \/ /\ VerifiesAmount
          /\ \E fb \in AmountAnswers(resp) :
                Return(VerifiedFallback(fb, resp, Admission(resp), "amount_verification"))
       \/ /\ ~VerifiesAmount /\ CorrectsPremise
          /\ \E r \in FallbackResults(resp, Admission(resp), route, "premise_not_confirmed") :
                Return(r)
       \/ /\ ~VerifiesAmount /\ ~CorrectsPremise /\ ~setting.configured
          /\ IF AllowsFallback(route, resp.tool)
             THEN \E r \in FallbackResults(resp, Admission(resp), route, "provider_unavailable") :
                    Return(r)
             ELSE Return(Withheld("provider_unavailable", "hcx_api_key_not_configured"))
    /\ UNCHANGED <<setting, path, route, resp, gen, calls, broken, conclusion>>

-----------------------------------------------------------------------------
(* The provider's answer                                                   *)

Generates ==
    pc = "gating" /\ GateOpen /\ setting.configured /\ ~VerifiesAmount /\ ~CorrectsPremise

\* generate_answer asks for a conclusion, generate_routed_answer for none.
Generate ==
    /\ Generates
    /\ calls' = Append(calls, "generate")
    /\ gen' \in {g \in Generations : path = "analysis" <=> g.conclusion # "none"}
    /\ pc' = "verifying"
    /\ UNCHANGED <<setting, path, route, resp, broken, conclusion, result>>

\* A transport or protocol failure may still be answered by the server; any
\* other exception may not.
GenerationFails ==
    /\ Generates
    /\ calls' = Append(calls, "generate")
    /\ broken' = broken \cup {"provider"}
    /\ \E typed \in BOOLEAN :
        IF typed /\ path # "analysis" /\ AllowsFallback(route, resp.tool)
        THEN \E r \in FallbackResults(resp, Admission(resp), route, "provider_failure") :
                Return(r)
        ELSE Return(Withheld("error", "hcx_final_generation_failed"))
    /\ UNCHANGED <<setting, path, route, resp, gen, conclusion>>

\* Faulty variant of ConclusionOk: any conclusion but insufficient evidence.
AnyConclusionOk ==
    IF path = "analysis"
    THEN gen.conclusion # "insufficient_evidence" /\ resp.conclusion \in {"none", gen.conclusion}
    ELSE gen.conclusion \in {"none", resp.conclusion}

\* conclusion_ok.
ConclusionOk ==
    IF path = "analysis"
    THEN /\ gen.conclusion \notin {"none", "insufficient_evidence"}
         /\ gen.conclusion \in AllowedConclusions
         /\ resp.conclusion \in {"none", gen.conclusion}
    ELSE gen.conclusion \in {"none", resp.conclusion}

Passes == Verified(gen, Admission(resp), gen.clean, ConclusionOk)

\* What the shown claims rest on, and whether their own texts are clean.
ShownClaims ==
    Shown("provider", "verified", Selected(resp, gen.cites),
          UNION {c.prose : c \in gen.claims}, UNION {c.cites : c \in gen.claims},
          \A c \in gen.claims : c.clean)

\* Faulty variant of AcceptClaims: nothing is returned without a receipt.
AcceptReceiptedClaims ==
    /\ pc = "verifying" /\ Passes /\ Selected(resp, gen.cites) # {}
    /\ Return(ShownClaims)
    /\ UNCHANGED <<setting, path, route, resp, gen, calls, broken, conclusion>>

\* The verified claims, joined, become the answer.
AcceptClaims ==
    /\ pc = "verifying" /\ Passes
    /\ IF Selected(resp, gen.cites) = {}
       THEN Return(Withheld("abstained", "citation_receipt_missing")) /\ UNCHANGED conclusion
       ELSE /\ Return(ShownClaims)
            /\ conclusion' = IF path = "analysis"
                             THEN [meta |-> gen.conclusion, data |-> gen.conclusion]
                             ELSE conclusion
    /\ UNCHANGED <<setting, path, route, resp, gen, calls, broken>>

\* The provider's sentences are dropped.  A judgment is withheld; elsewhere the
\* server writes an answer from the admitted facts, if it has one and one of
\* its citations has a receipt.
RejectClaims ==
    /\ pc = "verifying" /\ ~Passes
    /\ IF path = "analysis"
       THEN /\ Return(Withheld("abstained", "claim_verification_failed"))
            /\ conclusion' = [meta |-> "insufficient_evidence", data |-> "insufficient_evidence"]
       ELSE /\ LET choices == Fallbacks(resp, Admission(resp), resp.bundle, route)
                   usable == {fb \in choices : Selected(resp, fb.cites) # {}}
               IN  IF usable = {}
                   THEN Return(Withheld("abstained", "claim_verification_failed"))
                   ELSE \E fb \in usable :
                        Return(Shown("server", "claims_rejected", Selected(resp, fb.cites),
                                     fb.nums, Selected(resp, fb.cites), TRUE))
            /\ UNCHANGED conclusion
    /\ UNCHANGED <<setting, path, route, resp, gen, calls, broken>>

Next ==
    \/ RejectQuestion \/ RefuseInjection \/ AcceptQuestion
    \/ AnalysisRaises \/ AnalysisProhibits \/ AnalysisIncomplete
    \/ AnalysisCompletes \/ AnalysisDeclines
    \/ RouterRaises \/ RouteClarifies \/ RouteFound \/ NoRouteFound
    \/ SelectTool \/ ExecuteTool \/ GateCloses \/ AnswerDeterministically
    \/ Generate \/ GenerationFails \/ AcceptClaims \/ RejectClaims

\* Every step is code the worker thread goes on to run; the provider call ends
\* by its timeout at the latest.
Spec == Init /\ [][Next]_vars /\ WF_vars(Next)

-----------------------------------------------------------------------------
(* Properties                                                              *)

Statuses == {"answered", "abstained", "invalid_request", "provider_unavailable", "error"}

Answered == result.status = "answered"

\* answer() is at one of its stages, and a returned result has one of the
\* documented statuses.
TypeOK ==
    /\ pc \in {"received", "analysing", "routing", "selecting", "executing",
               "gating", "verifying", "done", "raised"}
    /\ setting \in Settings
    /\ path \in {"none", "analysis", "route", "provider"}
    /\ route \in Routes \cup {NoRoute}
    /\ resp \in ToolResponses \cup AnalysisResponses \cup {NoResponse}
    /\ gen \in Generations \cup {NoGeneration}
    /\ broken \subseteq {"analysis", "tool", "provider"}
    /\ pc = "done" <=> result.status \in Statuses

\* A number rests on support when a fact holds it, or a calculation that is
\* right and whose operands are such facts, with all its evidence in support.
RestsOn(n, support) ==
    LET backing == {f \in resp.facts : f.ids # {} /\ f.ids \subseteq support}
    IN  \/ \E f \in backing : n \in f.nums
        \/ \E c \in resp.calcs :
            /\ n \in c.nums \cup c.shown /\ c.right
            /\ \A operand \in c.operands : \E f \in backing : operand \in f.nums

NumbersGroundedIn(r) ==
    /\ r.support \subseteq EvidenceIds(resp)
    /\ \A n \in r.nums : RestsOn(n, r.support)

\* Every number in a provider answer, and in a server answer given without one,
\* rests on a validated fact or a recomputed calculation whose whole evidence
\* the answer cites: a claim cannot borrow the evidence of another claim, of
\* another slot or of a rejected fact.
AnswersGrounded ==
    Answered /\ result.why # "claims_rejected" => NumbersGroundedIn(result)

\* The same of every answer the server writes, the one that replaces rejected
\* claims included, as README.md:84 says.
ServerAnswersGrounded ==
    Answered /\ result.by = "server" => NumbersGroundedIn(result)

\* An answer displays a receipt, and a corrected disclosure is answered with the
\* receipts of both the original and the correction.
ReceiptsShown ==
    Answered =>
        /\ result.cites # {}
        /\ resp.tool = LineageTool /\ resp.corrections =>
              {"original", "corrected"} \subseteq {resp.roles[id] : id \in result.cites}

\* The provider is asked at most to choose one tool and then to write once: it
\* chooses only when neither the analysis nor the router did, and writes only
\* about evidence that is sufficient, has a receipt and shows both sides of a
\* correction.  Without a key it is never asked.
ProviderCallsGated ==
    /\ calls \in {<<>>, <<"select">>, <<"generate">>, <<"select", "generate">>}
    /\ calls # <<>> => setting.configured
    /\ "select" \in ToSet(calls) => path \in {"none", "provider"}
    /\ path = "provider" => calls # <<"generate">>
    /\ "generate" \in ToSet(calls) =>
          /\ resp.status \in {"success", "partial"} /\ resp.allowed
          /\ resp.receipted # {}
          /\ resp.tool = LineageTool /\ resp.corrections =>
                {"original", "corrected"} \subseteq {resp.roles[id] : id \in resp.receipted}

\* A judgment is never written by the server: it is shown with a conclusion its
\* plan allows or withheld, and the metadata and the tool data of the returned
\* result name the same conclusion.
JudgmentsBounded ==
    path = "analysis" /\ pc = "done" =>
        /\ conclusion.meta = conclusion.data
        /\ Answered => result.by = "provider" /\ conclusion.meta \in AllowedConclusions

\* Every question is answered, withheld or raises: no stage waits for ever.
Returns == <>(pc \in {"done", "raised"})
=============================================================================
