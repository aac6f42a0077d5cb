-------------------------- MODULE AnswerFlowProofs --------------------------
(***************************************************************************)
(* Proofs about one question through the pipeline, for every tool          *)
(* response, bounded analysis and generated answer: no assumption is made  *)
(* on what the registry, the workflows or the provider return.             *)
(***************************************************************************)
EXTENDS AnswerFlow, TLAPS

LOCAL INSTANCE SequencesExt

-----------------------------------------------------------------------------
(* Claims and admission                                                    *)

\* An admitted fact names evidence, all of it in the bundle.
LEMMA AdmittedFactsNameEvidence ==
    ASSUME NEW r, NEW f \in AdmittedFacts(r)
    PROVE  f \in r.facts /\ f.ids # {} /\ f.ids \subseteq EvidenceIds(r)
  BY DEF AdmittedFacts, OwnedSlots

\* RestsOn for a response that need not be the current one.
GroundedIn(r, n, support) ==
    LET backing == {f \in r.facts : f.ids # {} /\ f.ids \subseteq support}
    IN  \/ \E f \in backing : n \in f.nums
        \/ \E c \in r.calcs :
            /\ n \in c.nums \cup c.shown /\ c.right
            /\ \A operand \in c.operands : \E f \in backing : operand \in f.nums

\* Every number a verified claim writes rests on the evidence the claim itself
\* cites, and that evidence is in the bundle.
LEMMA ClaimGrounded ==
    ASSUME NEW r, NEW claim, ClaimHolds(claim, Admission(r))
    PROVE  /\ claim.cites \subseteq EvidenceIds(r)
           /\ \A n \in claim.prose : GroundedIn(r, n, claim.cites)
<1> DEFINE adm == Admission(r)
           backing == {f \in r.facts : f.ids # {} /\ f.ids \subseteq claim.cites}
<1>1. claim.cites \subseteq EvidenceIds(r)
  BY DEF ClaimHolds, CitationsAdmitted, Admission
<1>2. \A x \in Referenced(claim, adm) : x.ids \subseteq claim.cites
  BY DEF ClaimHolds, SupportCited
<1>3. adm.facts = AdmittedFacts(r) /\ adm.calcs = AdmittedCalculations(r)
  BY DEF Admission
<1>4. ASSUME NEW n \in claim.prose
      PROVE  GroundedIn(r, n, claim.cites)
  <2>1. PICK x \in Referenced(claim, adm) : n \in x.nums
    BY DEF ClaimHolds, NumbersGrounded
  <2>2. CASE x \in AdmittedFacts(r)
    BY <1>2, <2>1, <2>2, AdmittedFactsNameEvidence DEF GroundedIn
  <2>3. CASE x \in AdmittedCalculations(r)
    <3>1. x \in r.calcs /\ x.right
      BY <2>3 DEF AdmittedCalculations
    <3>2. ASSUME NEW operand \in x.operands
          PROVE  \E f \in backing : operand \in f.nums
      <4>1. PICK f \in AdmittedFacts(r) : operand \in f.nums /\ f.ids \subseteq x.ids
        BY <2>3 DEF AdmittedCalculations, OperandSupported
      <4> QED
        BY <4>1, <1>2, AdmittedFactsNameEvidence
    <3> QED
      BY <2>1, <3>1, <3>2 DEF GroundedIn
  <2> QED
    BY <1>3, <2>2, <2>3 DEF Referenced
<1> QED
  BY <1>1, <1>4

\* More support never takes a number's ground away.
LEMMA GroundedMonotone ==
    ASSUME NEW r, NEW n, NEW small, NEW large, small \subseteq large,
           GroundedIn(r, n, small)
    PROVE  GroundedIn(r, n, large)
<1>1. CASE \E f \in r.facts : f.ids # {} /\ f.ids \subseteq small /\ n \in f.nums
  BY <1>1 DEF GroundedIn
<1>2. CASE \E c \in r.calcs :
            /\ n \in c.nums \cup c.shown /\ c.right
            /\ \A operand \in c.operands :
                \E f \in {g \in r.facts : g.ids # {} /\ g.ids \subseteq small} : operand \in f.nums
  BY <1>2 DEF GroundedIn
<1> QED
  BY <1>1, <1>2 DEF GroundedIn

\* A generated answer that verifies.
LEMMA GenerationGrounded ==
    ASSUME NEW r, NEW g, NEW policyOk, NEW conclusionOk,
           Verified(g, Admission(r), policyOk, conclusionOk)
    PROVE  LET support == UNION {c.cites : c \in g.claims}
           IN  /\ support \subseteq EvidenceIds(r)
               /\ \A n \in UNION {c.prose : c \in g.claims} : GroundedIn(r, n, support)
<1> DEFINE support == UNION {c.cites : c \in g.claims}
<1>1. \A c \in g.claims : ClaimHolds(c, Admission(r))
  BY DEF Verified
<1>2. \A c \in g.claims : c.cites \subseteq support
  OBVIOUS
<1> HIDE DEF support
<1>3. \A c \in g.claims : \A n \in c.prose : GroundedIn(r, n, support)
  BY <1>1, <1>2, ClaimGrounded, GroundedMonotone
<1>4. support \subseteq EvidenceIds(r)
  BY <1>1, ClaimGrounded DEF support
<1> QED
  BY <1>3, <1>4 DEF support

-----------------------------------------------------------------------------
(* The answers the server writes                                           *)

\* What answer() may return about a tool response that passed the gate: a
\* refusal, or an answer with a receipt, both receipts of a correction, and
\* numbers that rest on the evidence it cites.
Sound(r, answer) ==
    /\ answer.status \in Statuses
    /\ answer.status = "answered" =>
        /\ answer.cites # {}
        /\ r.tool = LineageTool => answer.cites = Available(r)
        /\ answer.why # "claims_rejected" =>
            /\ answer.support \subseteq EvidenceIds(r)
            /\ \A n \in answer.nums : GroundedIn(r, n, answer.support)

LEMMA WithheldSound ==
    ASSUME NEW r, NEW status \in Statuses \ {"answered"}, NEW why
    PROVE  Sound(r, Withheld(status, why))
  BY DEF Sound, Withheld

\* An answer of _verified_deterministic_fallback_result, whatever was rendered
\* and cited: it is shown only when the claim built from it verifies.
LEMMA VerifiedFallbackSound ==
    ASSUME NEW fb, NEW r, NEW why, why # "claims_rejected"
    PROVE  Sound(r, VerifiedFallback(fb, r, Admission(r), why))
<1> DEFINE cited == fb.cites \cap Available(r)
           claim == FallbackClaim(fb, cited, Admission(r))
           answer == [cites |-> cited, nums |-> fb.nums, finite |-> TRUE, claims |-> {claim}]
           shown == Shown("server", why, Selected(r, fb.cites), fb.nums, cited, TRUE)
<1>1. CASE Verified(answer, Admission(r), TRUE, TRUE) /\ Selected(r, fb.cites) # {}
  <2>1. ClaimHolds(claim, Admission(r))
    BY <1>1 DEF Verified
  <2>2. claim.cites = cited /\ claim.prose = fb.nums
    BY DEF FallbackClaim
  <2> HIDE DEF claim, cited
  <2>3. cited \subseteq EvidenceIds(r) /\ \A n \in fb.nums : GroundedIn(r, n, cited)
    BY <2>1, <2>2, ClaimGrounded
  <2>4. /\ shown.status = "answered" /\ shown.cites = Selected(r, fb.cites)
        /\ shown.support = cited /\ shown.nums = fb.nums
    BY DEF Shown
  <2>5. r.tool = LineageTool => Selected(r, fb.cites) = Available(r)
    BY DEF Selected
  <2>6. Sound(r, shown)
    BY <1>1, <2>3, <2>4, <2>5 DEF Sound, Statuses
  <2> QED
    BY <1>1, <2>6 DEF VerifiedFallback, answer, cited, claim
<1>2. CASE ~(Verified(answer, Admission(r), TRUE, TRUE) /\ Selected(r, fb.cites) # {})
  BY <1>2, WithheldSound DEF VerifiedFallback, Statuses
<1> QED
  BY <1>1, <1>2

LEMMA FallbackResultsSound ==
    ASSUME NEW r, NEW rt, NEW why, why # "claims_rejected",
           NEW answer \in FallbackResults(r, Admission(r), rt, why)
    PROVE  Sound(r, answer)
<1>1. Sound(r, Withheld("abstained", "deterministic_fallback_not_available"))
  BY WithheldSound DEF Statuses
<1> QED
  BY <1>1, VerifiedFallbackSound DEF FallbackResults

-----------------------------------------------------------------------------
(* The inductive invariant                                                 *)

\* What the provider was asked when a tool was named.
ChoiceCalls == IF path = "provider" THEN <<"select">> ELSE <<>>

\* What answer() knows at each of its stages: the calls made so far, who chose
\* the tool, that nothing is returned yet, and at the last one that the gate
\* let the response through.
StageInv ==
    /\ pc \notin {"done"} => result = Pending
    /\ pc \in {"received", "analysing", "routing"} => path = "none" /\ calls = <<>>
    /\ pc = "selecting" => path = "provider" /\ calls = <<>>
    /\ pc = "executing" => path \in {"route", "provider"} /\ calls = ChoiceCalls
    /\ pc = "gating" => path \in {"analysis", "route", "provider"} /\ calls = ChoiceCalls
    /\ pc = "verifying" =>
        /\ path \in {"analysis", "route", "provider"}
        /\ calls = Append(ChoiceCalls, "generate")
        /\ GateOpen

\* Who needs a key has one before it is asked for.
KeyInv ==
    /\ calls # <<>> => setting.configured
    /\ pc \notin {"done", "raised"} /\ path \in {"analysis", "provider"} => setting.configured

\* An analysis has no route, and no conclusion until its answer is accepted or
\* rejected.
AnalysisInv ==
    path \in {"none", "analysis"} =>
        /\ pc # "done" => conclusion = NoConclusion
        /\ pc \in {"received", "analysing", "routing", "gating", "verifying"} => route = NoRoute

\* A returned result is sound for the response it was made from, and an answer
\* about a correction was made from a response that had both receipts.
ResultInv ==
    pc = "done" =>
        /\ Sound(resp, result)
        /\ Answered => ~PairMissing(resp)

IInv ==
    /\ TypeOK
    /\ StageInv
    /\ KeyInv
    /\ AnalysisInv
    /\ ResultInv
    /\ ProviderCallsGated
    /\ JudgmentsBounded

LEMMA Initially == Init => IInv
<1> SUFFICES ASSUME Init
             PROVE  IInv
  OBVIOUS
<1> USE DEF Init, Pending, NoConclusion
<1>1. TypeOK
  BY DEF TypeOK, Statuses
<1>2. StageInv /\ KeyInv /\ AnalysisInv /\ ResultInv /\ JudgmentsBounded
  BY DEF StageInv, KeyInv, AnalysisInv, ResultInv, JudgmentsBounded
<1>3. ProviderCallsGated
  BY DEF ProviderCallsGated, ToSet
<1> QED
  BY <1>1, <1>2, <1>3 DEF IInv

-----------------------------------------------------------------------------
(* Returning                                                               *)

\* TypeOK without the stage and the result.
Typed ==
    /\ setting \in Settings
    /\ path \in {"none", "analysis", "route", "provider"}
    /\ route \in Routes \cup {NoRoute}
    /\ resp \in ToolResponses \cup AnalysisResponses \cup {NoResponse}
    /\ gen \in Generations \cup {NoGeneration}
    /\ broken \subseteq {"analysis", "tool", "provider"}

\* A step that returns a sound result keeps the invariant when it respects the
\* types, the gate of the provider and the bound on judgments.
LEMMA ReturnPreserves ==
    ASSUME NEW r, Return(r), Sound(resp', r), r.status = "answered" => ~PairMissing(resp)',
           Typed', ProviderCallsGated', JudgmentsBounded'
    PROVE  IInv'
<1>1. pc' = "done" /\ result' = r
  BY DEF Return
<1>2. r.status \in Statuses
  BY DEF Sound
<1>3. TypeOK'
  BY <1>1, <1>2 DEF TypeOK, Typed
<1>4. StageInv' /\ AnalysisInv'
  BY <1>1 DEF StageInv, AnalysisInv
<1>5. KeyInv'
  BY <1>1 DEF KeyInv, ProviderCallsGated
<1>6. ResultInv'
  BY <1>1 DEF ResultInv, Answered
<1> QED
  BY <1>3, <1>4, <1>5, <1>6 DEF IInv

\* A refusal before anything was asked or read.
LEMMA RefusalPreserves ==
    ASSUME IInv, NEW status \in Statuses \ {"answered"}, NEW why,
           Return(Withheld(status, why)),
           Typed', ProviderCallsGated',
           path' = "analysis" => conclusion'.meta = conclusion'.data
    PROVE  IInv'
<1> DEFINE r == Withheld(status, why)
<1>1. r.status # "answered"
  BY DEF Withheld
<1>2. Sound(resp', r)
  BY WithheldSound
<1>3. JudgmentsBounded'
  BY <1>1 DEF JudgmentsBounded, Answered, Return
<1> HIDE DEF r
<1> QED
  BY <1>1, <1>2, <1>3, ReturnPreserves DEF r

-----------------------------------------------------------------------------
(* The steps                                                               *)

LEMMA CallSets ==
    /\ ToSet(<<>>) = {}
    /\ ToSet(<<"select">>) = {"select"}
    /\ ToSet(<<"generate">>) = {"generate"}
    /\ ToSet(<<"select", "generate">>) = {"select", "generate"}
  BY DEF ToSet

\* The gate, once open, licenses a generation.
LEMMA GenerationGated ==
    ASSUME calls' = Append(ChoiceCalls, "generate")', setting'.configured, GateOpen'
    PROVE  ProviderCallsGated'
<1>1. calls' = IF path' = "provider" THEN <<"select", "generate">> ELSE <<"generate">>
  BY DEF ChoiceCalls
<1>2. (/\ resp.status \in {"success", "partial"} /\ resp.allowed
       /\ resp.receipted # {}
       /\ resp.tool = LineageTool /\ resp.corrections =>
             {"original", "corrected"} \subseteq {resp.roles[id] : id \in resp.receipted})'
  BY DEF GateOpen, Answerable, Available, PairMissing
<1> QED
  BY <1>1, <1>2, CallSets DEF ProviderCallsGated

\* The refusals before any provider call, the analysis and the router.
LEMMA FirstStages ==
    ASSUME IInv,
           \/ RejectQuestion \/ RefuseInjection \/ AcceptQuestion
           \/ AnalysisRaises \/ AnalysisProhibits \/ AnalysisIncomplete
           \/ AnalysisCompletes \/ AnalysisDeclines
           \/ RouterRaises \/ RouteClarifies \/ RouteFound \/ NoRouteFound
    PROVE  IInv'
<1> USE DEF IInv
<1>1. pc \in {"received", "analysing", "routing"}
  BY DEF RejectQuestion, RefuseInjection, AcceptQuestion, AnalysisRaises, AnalysisProhibits,
         AnalysisIncomplete, AnalysisCompletes, AnalysisDeclines, RouterRaises,
         RouteClarifies, RouteFound, NoRouteFound
<1>2. /\ path = "none" /\ calls = <<>> /\ result = Pending
      /\ conclusion = NoConclusion /\ route = NoRoute
  BY <1>1 DEF StageInv, AnalysisInv
<1>3. Typed
  BY DEF TypeOK, Typed
<1>4. calls' = <<>> => ProviderCallsGated'
  BY CallSets DEF ProviderCallsGated
<1>5. CASE RejectQuestion
  BY <1>2, <1>3, <1>4, <1>5, RefusalPreserves DEF RejectQuestion, Typed, Statuses
<1>6. CASE RefuseInjection
  BY <1>2, <1>3, <1>4, <1>6, RefusalPreserves DEF RefuseInjection, Typed, Statuses
<1>7. CASE AnalysisRaises
  BY <1>2, <1>3, <1>4, <1>7, RefusalPreserves DEF AnalysisRaises, Typed, Statuses
<1>8. CASE AnalysisProhibits
  BY <1>2, <1>3, <1>4, <1>8, RefusalPreserves DEF AnalysisProhibits, Typed, Statuses
<1>9. CASE AnalysisIncomplete
  BY <1>2, <1>3, <1>4, <1>9, RefusalPreserves DEF AnalysisIncomplete, Typed, Statuses
<1>10. CASE RouteClarifies
  BY <1>2, <1>3, <1>4, <1>10, RefusalPreserves DEF RouteClarifies, Typed, Statuses
<1> DEFINE Advances ==
        /\ pc' \in {"analysing", "routing", "selecting", "executing", "gating", "raised"}
        /\ calls' = <<>> /\ result' = Pending /\ conclusion' = NoConclusion
        /\ Typed'
<1>11. ASSUME Advances, StageInv', KeyInv', path' \in {"none", "analysis"} => route' = NoRoute
       PROVE  IInv'
  <2>1. TypeOK'
    BY <1>11 DEF TypeOK, Typed, Pending, Statuses
  <2>2. AnalysisInv' /\ ResultInv' /\ JudgmentsBounded'
    BY <1>11 DEF AnalysisInv, ResultInv, JudgmentsBounded
  <2> QED
    BY <1>4, <1>11, <2>1, <2>2
<1>12. CASE AcceptQuestion
  BY <1>2, <1>3, <1>11, <1>12 DEF AcceptQuestion, Typed, StageInv, KeyInv
<1>13. CASE AnalysisDeclines
  BY <1>2, <1>3, <1>11, <1>13 DEF AnalysisDeclines, Typed, StageInv, KeyInv
<1>14. CASE RouterRaises
  BY <1>2, <1>3, <1>11, <1>14 DEF RouterRaises, Typed, StageInv, KeyInv
<1>15. CASE RouteFound
  BY <1>2, <1>3, <1>11, <1>15 DEF RouteFound, Typed, StageInv, KeyInv, ChoiceCalls
<1>16. CASE AnalysisCompletes
  <2>1. Typed' /\ calls' = <<>> /\ conclusion' = NoConclusion /\ path' = "analysis"
    BY <1>2, <1>3, <1>16 DEF AnalysisCompletes, Typed
  <2>2. CASE setting.configured
    BY <1>2, <1>11, <1>16, <2>1, <2>2 DEF AnalysisCompletes, StageInv, KeyInv, ChoiceCalls
  <2>3. CASE ~setting.configured
    BY <1>2, <1>4, <1>16, <2>1, <2>3, RefusalPreserves DEF AnalysisCompletes, Statuses, NoConclusion
  <2> QED
    BY <2>2, <2>3
<1>17. CASE NoRouteFound
  <2>1. CASE setting.configured
    BY <1>2, <1>3, <1>11, <1>17, <2>1 DEF NoRouteFound, Typed, StageInv, KeyInv
  <2>2. CASE ~setting.configured
    BY <1>2, <1>3, <1>4, <1>17, <2>2, RefusalPreserves DEF NoRouteFound, Typed, Statuses
  <2> QED
    BY <2>1, <2>2
<1> QED
  BY <1>5, <1>6, <1>7, <1>8, <1>9, <1>10, <1>12, <1>13, <1>14, <1>15, <1>16, <1>17

\* The provider's choice and the execution of the tool.
LEMMA ToolStages ==
    ASSUME IInv, SelectTool \/ ExecuteTool
    PROVE  IInv'
<1> USE DEF IInv
<1>1. Typed
  BY DEF TypeOK, Typed
<1>2. CASE SelectTool
  <2>1. /\ path = "provider" /\ path' = "provider" /\ calls' = <<"select">>
        /\ setting' = setting /\ setting.configured /\ Typed'
    <3>1. path = "provider" /\ calls = <<>> /\ setting.configured
      BY <1>2 DEF SelectTool, StageInv, KeyInv
    <3>2. calls' = <<"select">>
      BY <1>2, <3>1 DEF SelectTool
    <3> QED
      BY <1>1, <1>2, <3>1, <3>2 DEF SelectTool, Typed
  <2>2. ProviderCallsGated'
    BY <2>1, CallSets DEF ProviderCallsGated
  <2>3. CASE pc' = "executing" /\ UNCHANGED result
    <3>1. result' = Pending
      BY <1>2, <2>3 DEF SelectTool, StageInv
    <3>2. TypeOK'
      BY <2>1, <2>3, <3>1 DEF TypeOK, Typed, Pending, Statuses
    <3>3. StageInv' /\ KeyInv' /\ AnalysisInv' /\ ResultInv' /\ JudgmentsBounded'
      BY <2>1, <2>3, <3>1
      DEF StageInv, KeyInv, AnalysisInv, ResultInv, JudgmentsBounded, ChoiceCalls
    <3> QED
      BY <2>2, <3>2, <3>3
  <2>4. CASE Return(Withheld("error", "hcx_tool_selection_failed"))
    BY <2>1, <2>2, <2>4, RefusalPreserves DEF Statuses
  <2> QED
    BY <1>2, <2>3, <2>4 DEF SelectTool
<1>3. CASE ExecuteTool
  <2>1. /\ path \in {"route", "provider"} /\ path' = path /\ calls' = calls
        /\ calls = ChoiceCalls /\ setting' = setting
        /\ path = "provider" => setting.configured
        /\ pc' = "gating" /\ result' = Pending
    BY <1>3 DEF ExecuteTool, StageInv, KeyInv
  <2>2. Typed'
    BY <1>1, <1>3 DEF ExecuteTool, Typed
  <2>3. ProviderCallsGated'
    BY <2>1, CallSets DEF ChoiceCalls, ProviderCallsGated
  <2>4. TypeOK'
    BY <2>1, <2>2 DEF TypeOK, Typed, Pending, Statuses
  <2>5. StageInv' /\ KeyInv' /\ AnalysisInv' /\ ResultInv' /\ JudgmentsBounded'
    BY <2>1
    DEF StageInv, KeyInv, AnalysisInv, ResultInv, JudgmentsBounded, ChoiceCalls
  <2> QED
    BY <2>3, <2>4, <2>5
<1> QED
  BY <1>2, <1>3

\* The gate and the answers the server gives without a generation.
LEMMA GateStages ==
    ASSUME IInv, GateCloses \/ AnswerDeterministically
    PROVE  IInv'
<1> USE DEF IInv
<1>1. /\ pc = "gating" /\ path \in {"analysis", "route", "provider"} /\ calls = ChoiceCalls
      /\ path \in {"analysis", "provider"} => setting.configured
      /\ path = "analysis" => conclusion = NoConclusion /\ route = NoRoute
  BY DEF GateCloses, AnswerDeterministically, StageInv, KeyInv, AnalysisInv
<1>2. UNCHANGED <<setting, path, route, resp, gen, calls, broken, conclusion>>
  BY DEF GateCloses, AnswerDeterministically
<1>3. Typed'
  BY <1>2 DEF TypeOK, Typed
<1>4. ProviderCallsGated'
  BY <1>1, <1>2, CallSets DEF ChoiceCalls, ProviderCallsGated
<1>5. path' = "analysis" => conclusion'.meta = conclusion'.data
  BY <1>1, <1>2 DEF NoConclusion
<1>6. CASE GateCloses
  BY <1>3, <1>4, <1>5, <1>6, RefusalPreserves DEF GateCloses, Statuses
<1>7. CASE AnswerDeterministically
  <2>1. PICK answer : Return(answer) /\ Sound(resp, answer)
    <3>1. ASSUME NEW fb PROVE Sound(resp, VerifiedFallback(fb, resp, Admission(resp), "amount_verification"))
      BY VerifiedFallbackSound
    <3>2. ASSUME NEW why \in {"premise_not_confirmed", "provider_unavailable"},
                 NEW r \in FallbackResults(resp, Admission(resp), route, why)
          PROVE  Sound(resp, r)
      BY FallbackResultsSound
    <3>3. Sound(resp, Withheld("provider_unavailable", "hcx_api_key_not_configured"))
      BY WithheldSound DEF Statuses
    <3> QED
      BY <1>7, <3>1, <3>2, <3>3 DEF AnswerDeterministically
  <2>2. ~PairMissing(resp)
    BY <1>7 DEF AnswerDeterministically, GateOpen
  <2>3. path # "analysis"
    <3>1. route = NoRoute => ~VerifiesAmount /\ ~CorrectsPremise
      BY DEF VerifiesAmount, CorrectsPremise, NoRoute
    <3> QED
      BY <1>1, <1>7, <3>1 DEF AnswerDeterministically
  <2>4. JudgmentsBounded'
    BY <1>2, <2>3 DEF JudgmentsBounded
  <2>5. resp' = resp /\ PairMissing(resp)' = PairMissing(resp)
    BY <1>2 DEF PairMissing, Available
  <2> QED
    BY <1>3, <1>4, <2>1, <2>2, <2>4, <2>5, ReturnPreserves
<1> QED
  BY <1>6, <1>7

\* The provider's answer and its verification.
LEMMA GenerationStages ==
    ASSUME IInv, Generate \/ GenerationFails \/ AcceptClaims \/ RejectClaims
    PROVE  IInv'
<1> USE DEF IInv
<1>1. CASE Generate
  <2>1. /\ path \in {"analysis", "route", "provider"} /\ path' = path
        /\ setting' = setting /\ setting.configured
        /\ calls' = Append(ChoiceCalls, "generate") /\ ChoiceCalls' = ChoiceCalls
        /\ pc' = "verifying" /\ result' = Pending /\ GateOpen'
    BY <1>1 DEF Generate, Generates, StageInv, ChoiceCalls, GateOpen, Answerable,
                Available, PairMissing
  <2>2. path' \in {"none", "analysis"} => conclusion' = NoConclusion /\ route' = NoRoute
    BY <1>1, <2>1 DEF Generate, Generates, AnalysisInv
  <2>3. Typed'
    BY <1>1 DEF Generate, Typed, TypeOK
  <2>4. ProviderCallsGated'
    BY <2>1, GenerationGated
  <2>5. TypeOK'
    BY <2>1, <2>3 DEF TypeOK, Typed, Pending, Statuses
  <2>6. StageInv' /\ KeyInv' /\ AnalysisInv' /\ ResultInv' /\ JudgmentsBounded'
    BY <2>1, <2>2 DEF StageInv, KeyInv, AnalysisInv, ResultInv, JudgmentsBounded
  <2> QED
    BY <2>4, <2>5, <2>6
<1>2. CASE GenerationFails
  <2>1. /\ path' = path /\ setting' = setting /\ setting.configured /\ resp' = resp
        /\ calls' = Append(ChoiceCalls, "generate") /\ ChoiceCalls' = ChoiceCalls
        /\ conclusion' = conclusion /\ GateOpen /\ GateOpen'
    BY <1>2 DEF GenerationFails, Generates, StageInv, ChoiceCalls, GateOpen, Answerable,
                Available, PairMissing
  <2>2. Typed'
    BY <1>2 DEF GenerationFails, Typed, TypeOK
  <2>3. ProviderCallsGated'
    BY <2>1, GenerationGated
  <2>4. path' = "analysis" => conclusion'.meta = conclusion'.data
    BY <1>2, <2>1 DEF GenerationFails, Generates, AnalysisInv, NoConclusion
  <2>5. CASE Return(Withheld("error", "hcx_final_generation_failed"))
    BY <2>2, <2>3, <2>4, <2>5, RefusalPreserves DEF Statuses
  <2>6. CASE /\ path # "analysis"
             /\ \E r \in FallbackResults(resp, Admission(resp), route, "provider_failure") :
                    Return(r)
    <3>1. PICK r : Return(r) /\ Sound(resp, r)
      BY <2>6, FallbackResultsSound
    <3>2. JudgmentsBounded'
      BY <2>1, <2>6 DEF JudgmentsBounded
    <3>3. ~PairMissing(resp)'
      BY <2>1 DEF GateOpen
    <3> QED
      BY <2>1, <2>2, <2>3, <3>1, <3>2, <3>3, ReturnPreserves
  <2> QED
    BY <1>2, <2>5, <2>6 DEF GenerationFails
<1>3. ASSUME AcceptClaims \/ RejectClaims
      PROVE  /\ path' = path /\ setting' = setting /\ setting.configured /\ resp' = resp
             /\ gen' = gen /\ ~PairMissing(resp)'
             /\ path = "analysis" => conclusion = NoConclusion
             /\ Typed' /\ ProviderCallsGated'
  <2>1. /\ pc = "verifying"
        /\ UNCHANGED <<setting, path, route, resp, gen, calls, broken>>
    BY <1>3 DEF AcceptClaims, RejectClaims
  <2>2. GateOpen /\ calls = Append(ChoiceCalls, "generate") /\ setting.configured
    BY <2>1 DEF StageInv, KeyInv, ChoiceCalls
  <2>3. ProviderCallsGated'
    BY <2>1 DEF ProviderCallsGated
  <2>4. Typed'
    BY <2>1 DEF TypeOK, Typed
  <2>5. ~PairMissing(resp)'
    BY <2>1, <2>2 DEF GateOpen, PairMissing, Available
  <2> QED
    BY <2>1, <2>2, <2>3, <2>4, <2>5 DEF AnalysisInv
<1>4. CASE AcceptClaims
  <2>1. CASE Selected(resp, gen.cites) = {}
    BY <1>3, <1>4, <2>1, RefusalPreserves DEF AcceptClaims, Statuses, NoConclusion
  <2>2. CASE Selected(resp, gen.cites) # {}
    <3>1. Verified(gen, Admission(resp), gen.clean, ConclusionOk)
      BY <1>4 DEF AcceptClaims, Passes
    <3>2. /\ ShownClaims.status = "answered"
          /\ ShownClaims.by = "provider"
          /\ ShownClaims.cites = Selected(resp, gen.cites)
          /\ ShownClaims.support = UNION {c.cites : c \in gen.claims}
          /\ ShownClaims.nums = UNION {c.prose : c \in gen.claims}
      BY DEF ShownClaims, Shown
    <3>3. Sound(resp, ShownClaims)
      BY <2>2, <3>1, <3>2, GenerationGrounded DEF Sound, Statuses, Selected
    <3>4. Return(ShownClaims)
      BY <1>4, <2>2 DEF AcceptClaims
    <3>5. JudgmentsBounded'
      <4>1. CASE path = "analysis"
        <5>1. gen.conclusion \in AllowedConclusions
          BY <3>1, <4>1 DEF Verified, ConclusionOk
        <5>2. conclusion' = [meta |-> gen.conclusion, data |-> gen.conclusion]
          BY <1>4, <2>2, <4>1 DEF AcceptClaims
        <5> QED
          BY <3>2, <3>4, <5>1, <5>2 DEF JudgmentsBounded, Answered, Return
      <4>2. CASE path # "analysis"
        BY <1>3, <1>4, <4>2 DEF JudgmentsBounded
      <4> QED
        BY <4>1, <4>2
    <3> QED
      BY <1>3, <1>4, <3>3, <3>4, <3>5, ReturnPreserves
  <2> QED
    BY <2>1, <2>2
<1>5. CASE RejectClaims
  <2>1. CASE path = "analysis"
    BY <1>3, <1>5, <2>1, RefusalPreserves DEF RejectClaims, Statuses
  <2>2. CASE path # "analysis"
    <3>1. JudgmentsBounded'
      BY <1>3, <1>5, <2>2 DEF JudgmentsBounded
    <3>2. CASE Return(Withheld("abstained", "claim_verification_failed"))
      BY <1>3, <1>5, <2>2, <3>2, RefusalPreserves DEF Statuses
    <3>3. ASSUME NEW fb, Selected(resp, fb.cites) # {},
                 Return(Shown("server", "claims_rejected", Selected(resp, fb.cites),
                              fb.nums, Selected(resp, fb.cites), TRUE))
          PROVE  IInv'
      <4> DEFINE answer == Shown("server", "claims_rejected", Selected(resp, fb.cites),
                                 fb.nums, Selected(resp, fb.cites), TRUE)
      <4>1. Sound(resp, answer)
        BY <3>3 DEF Sound, Shown, Selected, Statuses
      <4> HIDE DEF answer
      <4>2. Return(answer)
        BY <3>3 DEF answer
      <4> QED
        BY <1>3, <1>5, <3>1, <4>1, <4>2, ReturnPreserves
    <3> QED
      BY <1>5, <2>2, <3>2, <3>3 DEF RejectClaims
  <2> QED
    BY <2>1, <2>2
<1> QED
  BY <1>1, <1>2, <1>4, <1>5

LEMMA Preserved == IInv /\ [Next]_vars => IInv'
<1> SUFFICES ASSUME IInv, [Next]_vars
             PROVE  IInv'
  OBVIOUS
<1>1. CASE Next
  BY <1>1, FirstStages, ToolStages, GateStages, GenerationStages DEF Next
<1>2. CASE UNCHANGED vars
  BY <1>2 DEF vars, IInv, TypeOK, StageInv, KeyInv, AnalysisInv, ResultInv, ProviderCallsGated,
              JudgmentsBounded, ChoiceCalls, GateOpen, Answerable, Available, PairMissing,
              Answered, Sound, EvidenceIds, GroundedIn
<1> QED
  BY <1>1, <1>2

LEMMA Invariance == Spec => []IInv
  BY Initially, Preserved, PTL DEF Spec

-----------------------------------------------------------------------------
(* The theorems                                                            *)

\* The service is always at one of its stages, and it has a result exactly when
\* it has returned, one with a documented status.
THEOREM TypeCorrect == Spec => []TypeOK
<1>1. IInv => TypeOK
  BY DEF IInv
<1> QED
  BY <1>1, Invariance, PTL

\* Whatever the tools compute and the provider writes, every number of a
\* provider answer, and of a server answer given without one, rests on a fact
\* or a right calculation all of whose evidence the shown sentences cite.
THEOREM NumbersRestOnCitedEvidence == Spec => []AnswersGrounded
<1>1. IInv => AnswersGrounded
  <2> SUFFICES ASSUME IInv, Answered, result.why # "claims_rejected"
               PROVE  NumbersGroundedIn(result)
    BY DEF AnswersGrounded
  <2>1. result.status = "answered" /\ pc = "done"
    BY DEF IInv, StageInv, Answered, Pending
  <2>2. Sound(resp, result)
    BY <2>1 DEF IInv, ResultInv
  <2>3. /\ result.support \subseteq EvidenceIds(resp)
        /\ \A n \in result.nums : GroundedIn(resp, n, result.support)
    BY <2>1, <2>2 DEF Sound
  <2> QED
    BY <2>3 DEF NumbersGroundedIn, RestsOn, GroundedIn
<1> QED
  BY <1>1, Invariance, PTL

\* Whatever the tools return, an answer displays a receipt, and an answer about
\* a corrected disclosure those of the original and of the correction.
THEOREM AnswersShowReceipts == Spec => []ReceiptsShown
<1>1. IInv => ReceiptsShown
  <2> SUFFICES ASSUME IInv, Answered
               PROVE  /\ result.cites # {}
                      /\ resp.tool = LineageTool /\ resp.corrections =>
                           {"original", "corrected"} \subseteq {resp.roles[id] : id \in result.cites}
    BY DEF ReceiptsShown
  <2>1. result.status = "answered" /\ pc = "done"
    BY DEF IInv, StageInv, Answered, Pending
  <2>2. Sound(resp, result) /\ ~PairMissing(resp)
    BY <2>1 DEF IInv, ResultInv
  <2> QED
    BY <2>1, <2>2 DEF Sound, PairMissing
<1> QED
  BY <1>1, Invariance, PTL

\* The provider is asked at most to choose and then to write, never without a
\* key, never to choose a tool that was chosen, and never to write about
\* evidence the gate would stop.
THEOREM ProviderAskedAsGated == Spec => []ProviderCallsGated
<1>1. IInv => ProviderCallsGated
  BY DEF IInv
<1> QED
  BY <1>1, Invariance, PTL

\* A judgment is the provider's, with a conclusion its plan allows, or it is
\* withheld; both places that name the conclusion agree.
THEOREM JudgmentsAllowed == Spec => []JudgmentsBounded
<1>1. IInv => JudgmentsBounded
  BY DEF IInv
<1> QED
  BY <1>1, Invariance, PTL
=============================================================================
