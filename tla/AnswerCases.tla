----------------------------- MODULE AnswerCases -----------------------------
(***************************************************************************)
(* Values for the model checker: evidence e1 and e2, one fact for each, a  *)
(* calculation over both, a fact only part of whose evidence is in the     *)
(* bundle, and provider answers that cite, declare or write the wrong      *)
(* thing in every way a claim can.                                         *)
(***************************************************************************)
EXTENDS Integers, Sequences, FiniteSets

LOCAL INSTANCE SequencesExt

MCSettings ==
    [configured : BOOLEAN, executor : {TRUE}, router : {TRUE}]
        \cup [configured : BOOLEAN, executor : {FALSE}, router : {FALSE}]

MCRoutes ==
    {[workflow |-> "single", reason |-> "structured_financial_lookup",
      tool |-> "get_financial_facts", asksAmount |-> b] : b \in BOOLEAN}
    \cup
    {[workflow |-> w, reason |-> "routed", tool |-> t, asksAmount |-> FALSE] :
        <<w, t>> \in {<<"financial_comparison", "get_financial_facts">>,
                      <<"financial_change_reason", "get_financial_facts">>,
                      <<"financial_statement_metric", "build_summary_context">>,
                      <<"trend_with_content", "analyze_disclosure_trend">>,
                      <<"correction_search_then_lineage", "search_disclosures">>}}

Fact1 == [ref |-> "f1", ids |-> {"e1"}, nums |-> {1}]
Fact2 == [ref |-> "f2", ids |-> {"e2"}, nums |-> {2}]
Wide == [ref |-> "f1", ids |-> {"e1", "e2"}, nums |-> {1}]
\* An analysis keeps a fact when the bundle holds some of its evidence.
Partial == [ref |-> "f3", ids |-> {"e1", "e3"}, nums |-> {3}]

\* What the tools compute, and the calculations whose value, operand or
\* evidence does not hold.
Sum(right) == [ref |-> "c1", ids |-> {"e1", "e2"}, operands |-> {1, 2},
               right |-> right, nums |-> {4}, shown |-> {4}]
StraySum == [ref |-> "c1", ids |-> {"e1", "e2"}, operands |-> {1, 3},
             right |-> TRUE, nums |-> {4}, shown |-> {4}]
Rate == [ref |-> "c1", ids |-> {"e1", "e2"}, operands |-> {1, 2},
         right |-> TRUE, nums |-> {4}, shown |-> {5}]
Narrow == [Rate EXCEPT !.ids = {"e1"}, !.shown = {4}]

Open == [status |-> "success", allowed |-> TRUE, action |-> "answer"]

Response(gate, tool, bundle, receipted, facts, calcs, slots, explicit, rendering) ==
    [tool |-> tool, status |-> gate.status, allowed |-> gate.allowed,
     action |-> gate.action, bundle |-> bundle, receipted |-> receipted,
     facts |-> facts, calcs |-> calcs, slots |-> slots, explicit |-> explicit,
     rendering |-> rendering, counts |-> {6}, premise |-> FALSE, corrections |-> FALSE,
     roles |-> [id \in {"e1", "e2", "e3"} |-> "none"], conclusion |-> "none"]

Both == <<"e1", "e2">>

Financial(receipted, facts, calcs, rendering) ==
    Response(Open, "get_financial_facts", SetToSeq(UNION {f.ids : f \in facts}),
             receipted, facts, calcs, {}, FALSE, rendering)

\* The tool names all the evidence of its facts in the bundle; an item whose
\* text is not admitted is left out, and with it the receipt.
FinancialResponses ==
    {Financial({"e1", "e2"}, {Fact1, Fact2}, cs, k) :
        cs \in {{}, {Sum(TRUE)}, {Sum(FALSE)}, {StraySum}, {Narrow}, {Rate}},
        k \in {"facts", "comparison"}}
    \cup {Financial({"e2"}, {Fact1, Fact2}, cs, "facts") : cs \in {{}, {Sum(TRUE)}}}
    \cup {Financial(rs, {Wide}, {}, "facts") : rs \in {{"e1", "e2"}, {"e2"}, {}}}

ClosedResponses ==
    {Response(g, "get_financial_facts", <<"e1">>, {"e1"}, {Fact1}, {}, {}, FALSE, "facts") :
        g \in {[status |-> "invalid_request", allowed |-> FALSE, action |-> "abstain"],
               [status |-> "error", allowed |-> FALSE, action |-> "abstain"],
               [status |-> "insufficient", allowed |-> FALSE, action |-> "ask_clarification"],
               [status |-> "partial", allowed |-> TRUE, action |-> "answer_with_warning"]}}

PremiseResponses ==
    {[Financial(rs, fs, {}, "comparison") EXCEPT !.premise = TRUE] :
        rs \in {{"e1", "e2"}, {"e2"}}, fs \in {{Wide}, {Fact1, Fact2}}}

StatementResponses ==
    {Response(Open, "build_summary_context", Both, {"e1", "e2"}, fs, {}, {}, FALSE, "statement") :
        fs \in {{Fact1}, {Fact1, Fact2}}}

LineageResponses ==
    {[Response(Open, "get_correction_lineage", Both, rs, {}, {}, {}, FALSE, "none")
        EXCEPT !.corrections = c,
               !.roles = [id \in {"e1", "e2", "e3"} |->
                            IF id = "e1" THEN "original" ELSE "corrected"]] :
        rs \in {{"e1", "e2"}, {"e1"}, {"e2"}}, c \in BOOLEAN}

TrendResponses ==
    {Response(Open, "analyze_disclosure_trend", Both, {"e1", "e2"}, fs, {}, {}, FALSE, "trend") :
        fs \in {{}, {Fact1}}}

SearchResponses ==
    {Response(Open, "search_disclosures", Both, {"e1", "e2"}, {}, {}, {}, FALSE, "none")}

MCToolResponses ==
    FinancialResponses \cup ClosedResponses \cup PremiseResponses
        \cup StatementResponses \cup TrendResponses \cup LineageResponses \cup SearchResponses

Slot(id, ids, complete) == [id |-> id, ids |-> ids, complete |-> complete]

MCAnalysisResponses ==
    {Response(Open, "build_summary_context", Both, rs, {Fact1, Fact2, Partial}, {}, slots, TRUE, "none") :
        rs \in {{"e1", "e2"}, {"e1"}, {}},
        slots \in {{Slot("s1", {"e1"}, TRUE), Slot("s2", {"e2"}, TRUE)},
                   {Slot("s1", {"e1"}, TRUE), Slot("s2", {"e2"}, FALSE)},
                   {Slot("s1", {"e1", "e2"}, TRUE)}}}

Claim(id, cites, facts, calcs, slots, nums, prose, clean) ==
    [id |-> id, cites |-> cites, facts |-> facts, calcs |-> calcs, slots |-> slots,
     nums |-> nums, prose |-> prose, finite |-> TRUE, clean |-> clean]

\* A claim that verifies, and the same claim with one thing wrong.
Good(slot) == Claim("k1", {"e1"}, {"f1"}, {}, {slot}, {1}, {1}, TRUE)

Faulty(slot) ==
    {[Good(slot) EXCEPT !.cites = ids] : ids \in {{"e2"}, {"e3"}}}
    \cup {[Good(slot) EXCEPT !.facts = fs] : fs \in {{}, {"f2"}, {"f3"}, {"f1", "f2"}}}
    \cup {[Good(slot) EXCEPT !.slots = sl] : sl \in {{"s2"}, {"s9"}, {slot, "s2"}}}
    \cup {[Good(slot) EXCEPT !.nums = ns] : ns \in {{2}, {1, 3}}}
    \cup {[Good(slot) EXCEPT !.prose = {1, 2}], [Good(slot) EXCEPT !.clean = FALSE],
           [Good(slot) EXCEPT !.finite = FALSE]}

Calculated ==
    {Claim("k1", ids, {}, {"c1"}, {"tool_evidence"}, {n}, {n}, TRUE) :
        ids \in {{"e1"}, {"e1", "e2"}}, n \in {1, 4}}

\* A sentence without a number.
Plain == Claim("k1", {"e1"}, {}, {}, {"tool_evidence"}, {}, {}, TRUE)

StrayClaim == Claim("k1", {"e3"}, {"f3"}, {}, {"tool_evidence"}, {3}, {3}, TRUE)

RoutedClaims ==
    {Good("tool_evidence"), Plain, StrayClaim} \cup Faulty("tool_evidence") \cup Calculated

JudgedClaims ==
    {Good("s1"), [Good("s1") EXCEPT !.cites = {"e1", "e2"}, !.slots = {"s1", "s2"}],
     Claim("k1", {"e1"}, {"f3"}, {}, {"s1"}, {3}, {3}, TRUE)} \cup Faulty("s1")

Second(id) == Claim(id, {"e2"}, {"f2"}, {}, {"tool_evidence"}, {2}, {2}, TRUE)

Answer(claims, nums, clean, c) ==
    [claims |-> claims, cites |-> UNION {k.cites : k \in claims}, nums |-> nums,
     finite |-> TRUE, clean |-> clean, conclusion |-> c]

MCGenerations ==
    {Answer({k}, {}, TRUE, "none") : k \in RoutedClaims}
    \cup
    {Answer({Good("tool_evidence"), Second(id)}, {1, 2}, TRUE, "none") : id \in {"k1", "k2"}}
    \cup
    {Answer({Good("tool_evidence")}, ns, clean, "none") : ns \in {{1}, {4}}, clean \in BOOLEAN}
    \cup {[Answer({Good("tool_evidence")}, {1}, TRUE, "none") EXCEPT !.cites = ids] :
                ids \in {{}, {"e1", "e2"}}}
    \cup {Answer({}, {1}, TRUE, "none")}
    \cup
    {Answer({k}, {}, TRUE, "improved") : k \in JudgedClaims}
    \cup
    {Answer({Good("s1")}, {1}, clean, c) :
        clean \in BOOLEAN, c \in {"improved", "insufficient_evidence", "worsened"}}
=============================================================================
