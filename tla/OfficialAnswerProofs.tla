------------------------ MODULE OfficialAnswerProofs ------------------------
(***************************************************************************)
(* Proofs about GET /answer, for every request, tool response and          *)
(* generation: the reply never contradicts the pipeline behind it, and     *)
(* what the pipeline withheld stays withheld.                              *)
(***************************************************************************)
EXTENDS OfficialAnswer, TLAPS

Responses == ToolResponses \cup AnalysisResponses

-----------------------------------------------------------------------------
(* The inductive invariant                                                 *)

\* A result of the pipeline: an answer shows receipts, all of them of the
\* response it was made from.
Returned(r, rs) ==
    /\ r.status \in Flow!Statuses
    /\ r.status = "answered" =>
        rs \in Responses /\ r.cites # {} /\ r.cites \subseteq rs.receipted

FlowInv ==
    /\ pc # "done" => result = Flow!Pending
    /\ pc \in {"gating", "verifying"} => resp \in Responses
    /\ pc = "done" => Returned(result, resp)

\* Where the pipeline is when the handler waits for it, or does not.
HandlerInv ==
    /\ stage = "received" => pc = "received"
    /\ stage = "agent" =>
        /\ pc \in {"received", "raised"} \/ (pc = "done" /\ result.status \in ProviderFailure)
        /\ query.service => pc # "received"

IInv ==
    /\ TypeOK
    /\ FlowInv
    /\ HandlerInv
    /\ RefusalsStand
    /\ AnswersAgree

-----------------------------------------------------------------------------
(* The pipeline                                                            *)

LEMMA WithheldReturned ==
    ASSUME NEW rs, NEW status \in Flow!Statuses \ {"answered"}, NEW why
    PROVE  Returned(Flow!Withheld(status, why), rs)
  BY DEF Returned, Flow!Withheld

\* An answer shows only receipts of the response.
LEMMA SelectedReceipted ==
    ASSUME NEW rs, NEW ids
    PROVE  Flow!Selected(rs, ids) \subseteq rs.receipted
  BY DEF Flow!Selected, Flow!Available

LEMMA ShownReturned ==
    ASSUME NEW rs \in Responses, NEW ids, Flow!Selected(rs, ids) # {},
           NEW by, NEW why, NEW nums, NEW support, NEW clean
    PROVE  Returned(Flow!Shown(by, why, Flow!Selected(rs, ids), nums, support, clean), rs)
<1> DEFINE r == Flow!Shown(by, why, Flow!Selected(rs, ids), nums, support, clean)
<1>1. r.status = "answered" /\ r.cites = Flow!Selected(rs, ids)
  BY DEF Flow!Shown
<1> HIDE DEF r
<1>2. Returned(r, rs)
  BY <1>1, SelectedReceipted DEF Returned, Flow!Statuses
<1> QED
  BY <1>2 DEF r

LEMMA FallbackReturned ==
    ASSUME NEW rs \in Responses, NEW fb, NEW adm, NEW why
    PROVE  Returned(Flow!VerifiedFallback(fb, rs, adm, why), rs)
<1> DEFINE cited == fb.cites \cap Flow!Available(rs)
           claim == Flow!FallbackClaim(fb, cited, adm)
           answer == [cites |-> cited, nums |-> fb.nums, finite |-> TRUE, claims |-> {claim}]
           passes == Flow!Verified(answer, adm, TRUE, TRUE) /\ Flow!Selected(rs, fb.cites) # {}
           shown == Flow!Shown("server", why, Flow!Selected(rs, fb.cites), fb.nums, cited, TRUE)
           withheld == Flow!Withheld("abstained", "deterministic_fallback_verification_failed")
<1>1. Flow!VerifiedFallback(fb, rs, adm, why) = IF passes THEN shown ELSE withheld
  BY DEF Flow!VerifiedFallback
<1>2. Returned(withheld, rs)
  BY WithheldReturned DEF Flow!Statuses
<1>3. passes => Returned(shown, rs)
  BY ShownReturned
<1> HIDE DEF passes, shown, withheld
<1> QED
  BY <1>1, <1>2, <1>3

LEMMA FallbacksReturned ==
    ASSUME NEW rs \in Responses, NEW adm, NEW rt, NEW why,
           NEW r \in Flow!FallbackResults(rs, adm, rt, why)
    PROVE  Returned(r, rs)
<1>1. Returned(Flow!Withheld("abstained", "deterministic_fallback_not_available"), rs)
  BY WithheldReturned DEF Flow!Statuses
<1> QED
  BY <1>1, FallbackReturned DEF Flow!FallbackResults

\* The steps that return nothing.
LEMMA AdvancingSteps ==
    ASSUME FlowInv,
           \/ Flow!AcceptQuestion \/ Flow!AnalysisDeclines \/ Flow!RouterRaises
           \/ Flow!RouteFound \/ Flow!ExecuteTool \/ Flow!Generate
    PROVE  FlowInv'
<1>1. /\ pc # "done" /\ pc' # "done" /\ UNCHANGED result
      /\ pc' = "gating" => resp' \in Responses
      /\ pc' = "verifying" => pc = "gating" /\ UNCHANGED resp
  BY DEF Flow!AcceptQuestion, Flow!AnalysisDeclines, Flow!RouterRaises, Flow!RouteFound,
         Flow!ExecuteTool, Flow!Generate, Flow!Generates, Responses
<1> QED
  BY <1>1 DEF FlowInv

LEMMA ReturningStep ==
    ASSUME FlowInv, NEW r, Flow!Return(r), Returned(r, resp')
    PROVE  FlowInv'
  BY DEF FlowInv, Flow!Return

\* The steps that refuse, and those that either refuse or go on.
LEMMA RefusingSteps ==
    ASSUME FlowInv,
           \/ Flow!RejectQuestion \/ Flow!RefuseInjection \/ Flow!AnalysisRaises
           \/ Flow!AnalysisProhibits \/ Flow!AnalysisIncomplete \/ Flow!AnalysisCompletes
           \/ Flow!RouteClarifies \/ Flow!NoRouteFound \/ Flow!SelectTool \/ Flow!GateCloses
    PROVE  FlowInv'
<1>1. ASSUME NEW status \in Flow!Statuses \ {"answered"}, NEW why,
             Flow!Return(Flow!Withheld(status, why))
      PROVE  FlowInv'
  <2>1. Returned(Flow!Withheld(status, why), resp')
    BY WithheldReturned
  <2> QED
    BY <1>1, <2>1, ReturningStep
<1>2. /\ "abstained" \in Flow!Statuses \ {"answered"} /\ "error" \in Flow!Statuses \ {"answered"}
      /\ "invalid_request" \in Flow!Statuses \ {"answered"}
      /\ "provider_unavailable" \in Flow!Statuses \ {"answered"}
  BY DEF Flow!Statuses
<1>3. CASE Flow!RejectQuestion
  BY <1>1, <1>2, <1>3 DEF Flow!RejectQuestion
<1>4. CASE Flow!RefuseInjection
  BY <1>1, <1>2, <1>4 DEF Flow!RefuseInjection
<1>5. CASE Flow!AnalysisRaises
  BY <1>1, <1>2, <1>5 DEF Flow!AnalysisRaises
<1>6. CASE Flow!AnalysisProhibits
  BY <1>1, <1>2, <1>6 DEF Flow!AnalysisProhibits
<1>7. CASE Flow!AnalysisIncomplete
  BY <1>1, <1>2, <1>7 DEF Flow!AnalysisIncomplete
<1>8. CASE Flow!RouteClarifies
  BY <1>1, <1>2, <1>8 DEF Flow!RouteClarifies
<1>9. CASE Flow!GateCloses
  BY <1>1, <1>2, <1>9 DEF Flow!GateCloses
<1>10. CASE Flow!AnalysisCompletes
  <2>1. CASE setting.configured
    BY <1>10, <2>1 DEF Flow!AnalysisCompletes, FlowInv, Responses
  <2>2. CASE ~setting.configured
    BY <1>1, <1>2, <1>10, <2>2 DEF Flow!AnalysisCompletes
  <2> QED
    BY <2>1, <2>2
<1>11. CASE Flow!NoRouteFound
  <2>1. CASE setting.configured
    BY <1>11, <2>1 DEF Flow!NoRouteFound, FlowInv
  <2>2. CASE ~setting.configured
    BY <1>1, <1>2, <1>11, <2>2 DEF Flow!NoRouteFound
  <2> QED
    BY <2>1, <2>2
<1>12. CASE Flow!SelectTool
  <2>1. CASE pc' = "executing" /\ UNCHANGED result
    BY <1>12, <2>1 DEF Flow!SelectTool, FlowInv
  <2>2. CASE Flow!Return(Flow!Withheld("error", "hcx_tool_selection_failed"))
    BY <1>1, <1>2, <2>2
  <2> QED
    BY <1>12, <2>1, <2>2 DEF Flow!SelectTool
<1> QED
  BY <1>3, <1>4, <1>5, <1>6, <1>7, <1>8, <1>9, <1>10, <1>11, <1>12

\* The steps that may answer.
LEMMA AnsweringSteps ==
    ASSUME FlowInv,
           \/ Flow!AnswerDeterministically \/ Flow!GenerationFails
           \/ Flow!AcceptClaims \/ Flow!RejectClaims
    PROVE  FlowInv'
<1>1. resp \in Responses /\ resp' = resp
  BY DEF FlowInv, Flow!AnswerDeterministically, Flow!GenerationFails, Flow!Generates,
         Flow!AcceptClaims, Flow!RejectClaims
<1>2. /\ Returned(Flow!Withheld("provider_unavailable", "hcx_api_key_not_configured"), resp)
      /\ Returned(Flow!Withheld("error", "hcx_final_generation_failed"), resp)
      /\ Returned(Flow!Withheld("abstained", "citation_receipt_missing"), resp)
      /\ Returned(Flow!Withheld("abstained", "claim_verification_failed"), resp)
  BY WithheldReturned DEF Flow!Statuses
<1>3. \E r : Flow!Return(r) /\ Returned(r, resp)
  <2>1. CASE Flow!AnswerDeterministically
    BY <1>1, <1>2, <2>1, FallbackReturned, FallbacksReturned DEF Flow!AnswerDeterministically
  <2>2. CASE Flow!GenerationFails
    BY <1>1, <1>2, <2>2, FallbacksReturned DEF Flow!GenerationFails
  <2>3. CASE Flow!AcceptClaims
    <3>1. Flow!Selected(resp, gen.cites) # {} => Returned(Flow!ShownClaims, resp)
      BY <1>1, ShownReturned DEF Flow!ShownClaims
    <3> QED
      BY <1>2, <2>3, <3>1 DEF Flow!AcceptClaims
  <2>4. CASE Flow!RejectClaims
    <3>1. ASSUME NEW fb, Flow!Selected(resp, fb.cites) # {}
          PROVE  Returned(Flow!Shown("server", "claims_rejected", Flow!Selected(resp, fb.cites),
                                     fb.nums, Flow!Selected(resp, fb.cites), TRUE), resp)
      BY <1>1, <3>1, ShownReturned
    <3> QED
      BY <1>2, <2>4, <3>1 DEF Flow!RejectClaims
  <2> QED
    BY <2>1, <2>2, <2>3, <2>4
<1> QED
  BY <1>1, <1>3, ReturningStep

LEMMA FlowPreserved ==
    ASSUME FlowInv, Flow!Next
    PROVE  FlowInv'
  BY AdvancingSteps, RefusingSteps, AnsweringSteps DEF Flow!Next

-----------------------------------------------------------------------------
(* The handler                                                             *)

LEMMA Initially == Init => IInv
  BY DEF Init, Flow!Init, IInv, TypeOK, FlowInv, HandlerInv, RefusalsStand, AnswersAgree,
         Replied, NoReply

\* While nothing is replied, there is nothing to agree with.
LEMMA Unreplied ==
    ASSUME stage' # "replied"
    PROVE  RefusalsStand' /\ AnswersAgree'
  BY DEF RefusalsStand, AnswersAgree, Replied

LEMMA Preserved == IInv /\ [Next]_vars => IInv'
<1> SUFFICES ASSUME IInv, [Next]_vars
             PROVE  IInv'
  OBVIOUS
<1> USE DEF IInv
<1>1. CASE RefuseRequest \/ PlanFails
  <2>1. /\ stage = "received" /\ stage' = "replied" /\ UNCHANGED <<flowVars, query>>
        /\ \/ reply' = [code |-> 422, by |-> "none", context |-> {}]
           \/ reply' = [code |-> 503, by |-> "none", context |-> {}]
           \/ reply' = [code |-> 500, by |-> "none", context |-> {}]
    BY <1>1 DEF RefuseRequest, PlanFails, Reply
  <2>2. pc = "received" /\ pc' = "received"
    BY <2>1 DEF HandlerInv, flowVars
  <2>3. TypeOK' /\ HandlerInv'
    BY <2>1, <2>2 DEF TypeOK, HandlerInv, Replied
  <2>4. FlowInv'
    BY <2>1 DEF FlowInv, flowVars, Returned
  <2>5. RefusalsStand' /\ AnswersAgree'
    BY <2>1, <2>2 DEF RefusalsStand, AnswersAgree
  <2> QED
    BY <2>3, <2>4, <2>5
<1>2. CASE CallPipeline
  <2>1. /\ stage = "received" /\ stage' = (IF query.service THEN "pipeline" ELSE "agent")
        /\ UNCHANGED <<flowVars, query, reply>>
    BY <1>2 DEF CallPipeline
  <2>2. pc = "received" /\ pc' = "received"
    BY <2>1 DEF HandlerInv, flowVars
  <2>3. TypeOK' /\ HandlerInv'
    BY <2>1, <2>2 DEF TypeOK, HandlerInv, Replied
  <2>4. FlowInv'
    BY <2>1 DEF FlowInv, flowVars, Returned
  <2> QED
    BY <2>1, <2>3, <2>4, Unreplied
<1>3. CASE PipelineStep
  <2>1. stage = "pipeline" /\ stage' = "pipeline" /\ UNCHANGED <<query, reply>> /\ Flow!Next
    BY <1>3 DEF PipelineStep
  <2>2. TypeOK' /\ HandlerInv'
    BY <2>1 DEF TypeOK, HandlerInv, Replied
  <2>3. FlowInv'
    BY <2>1, FlowPreserved
  <2> QED
    BY <2>1, <2>2, <2>3, Unreplied
<1>4. CASE ReplyFromPipeline
  <2>1. /\ pc = "done" /\ result.status \notin ProviderFailure /\ stage' = "replied"
        /\ reply' = [code |-> 200, by |-> "pipeline",
                     context |-> IF result.status = "answered" THEN result.cites ELSE {}]
        /\ UNCHANGED <<flowVars, query>>
    BY <1>4 DEF ReplyFromPipeline, Reply
  <2>2. Returned(result, resp)
    BY <2>1 DEF FlowInv
  <2>3. reply'.context \subseteq DOMAIN Filed
    BY <2>1, <2>2, OfficialAssumption DEF Returned, Responses
  <2>4. TypeOK' /\ HandlerInv'
    BY <2>1, <2>3 DEF TypeOK, HandlerInv, Replied, flowVars
  <2>5. FlowInv'
    BY <2>1 DEF FlowInv, flowVars, Returned
  <2>6. RefusalsStand' /\ AnswersAgree'
    BY <2>1, <2>2 DEF RefusalsStand, AnswersAgree, Returned, flowVars
  <2> QED
    BY <2>4, <2>5, <2>6
<1>5. CASE FallBack
  <2>1. /\ pc = "raised" \/ (pc = "done" /\ result.status \in ProviderFailure)
        /\ stage = "pipeline" /\ stage' = "agent" /\ UNCHANGED <<flowVars, query, reply>>
    BY <1>5 DEF FallBack
  <2>2. TypeOK' /\ HandlerInv'
    BY <2>1 DEF TypeOK, HandlerInv, Replied, flowVars
  <2>3. FlowInv'
    BY <2>1 DEF FlowInv, flowVars, Returned
  <2> QED
    BY <2>1, <2>2, <2>3, Unreplied
<1>6. CASE AgentReplies
  <2>1. /\ stage = "agent" /\ stage' = "replied" /\ UNCHANGED <<flowVars, query>>
        /\ \/ \E ids \in SUBSET FiledBy(query.asOf) :
                reply' = [code |-> 200, by |-> "agent", context |-> ids]
           \/ reply' = [code |-> 500, by |-> "none", context |-> {}]
    BY <1>6 DEF AgentReplies, Reply
  <2>2. /\ pc \in {"received", "raised"} \/ (pc = "done" /\ result.status \in ProviderFailure)
        /\ query.service => pc # "received"
    BY <2>1 DEF HandlerInv
  <2>3. TypeOK' /\ HandlerInv'
    BY <2>1, <2>2 DEF TypeOK, HandlerInv, Replied, FiledBy, flowVars
  <2>4. FlowInv'
    BY <2>1 DEF FlowInv, flowVars, Returned
  <2>5. query.service => result.status \in {"pending", "error"} /\ pc # "received"
    BY <2>2 DEF FlowInv, Flow!Pending, ProviderFailure
  <2>6. RefusalsStand' /\ AnswersAgree'
    BY <2>1, <2>2, <2>5 DEF RefusalsStand, AnswersAgree, ProviderFailure, flowVars
  <2> QED
    BY <2>3, <2>4, <2>6
<1>7. CASE UNCHANGED vars
  BY <1>7 DEF vars, flowVars, TypeOK, FlowInv, HandlerInv, RefusalsStand, AnswersAgree,
              Replied, Returned
<1> QED
  BY <1>1, <1>2, <1>3, <1>4, <1>5, <1>6, <1>7 DEF Next

LEMMA Invariance == Spec => []IInv
  BY Initially, Preserved, PTL DEF Spec

-----------------------------------------------------------------------------
(* Theorems                                                                *)

\* A reply has one of the documented codes and shows only evidence with a filing
\* date, and nobody answers for the pipeline before it has run to its end.
THEOREM TypeCorrect == Spec => []TypeOK
<1>1. IInv => TypeOK
  BY DEF IInv
<1> QED
  BY <1>1, Invariance, PTL

\* Whatever the request, what the pipeline withheld on purpose is not answered
\* by the agent, and is shown without evidence.
THEOREM RefusalsAreFinal == Spec => []RefusalsStand
<1>1. IInv => RefusalsStand
  BY DEF IInv
<1> QED
  BY <1>1, Invariance, PTL

\* A reply that speaks for the pipeline shows the evidence the pipeline shows,
\* and the agent speaks only where the pipeline raised or failed.
THEOREM RoutesAgree == Spec => []AnswersAgree
<1>1. IInv => AnswersAgree
  BY DEF IInv
<1> QED
  BY <1>1, Invariance, PTL
=============================================================================
