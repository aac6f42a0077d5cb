----------------------------- MODULE EvalVerdict -----------------------------
(***************************************************************************)
(* How one answer of the pipeline is judged against a QA case              *)
(* (src/src/disclosure_db/qa_evaluation.py).                               *)
(*                                                                         *)
(* A result, what the service returns, has the fields                      *)
(*   status, allowed, blank, phrases   of the answer                       *)
(*   executors, tool     the tools its metadata lists, the tool it names   *)
(*   selected, generated         which provider calls were made            *)
(*   comparison                  status of the comparison                  *)
(*   facts, values               rows, each displayed or not               *)
(*   citations                   [receipt |-> BOOLEAN] of each             *)
(* A route has kind, workflow, context and arguments, functions from the   *)
(* keys they have.  What a case expects is a function from the keys it     *)
(* states; forbidden are the phrases the answer must not contain.          *)
(***************************************************************************)
EXTENDS Naturals, Sequences, FiniteSets

CONSTANT None   \* Python's None: no route, no such field, an exception instead of a result

FAILURE_LAYERS == {"INFRA", "RESOLVER", "RETRIEVAL", "EXECUTOR", "FINANCIAL_DATA", "CALCULATION",
                   "EVIDENCE", "HCX_FINAL"}

Get(f, key, otherwise) == IF key \in DOMAIN f THEN f[key] ELSE otherwise

\* _route_trace: the company of the context wins over that of the arguments.
RouteTrace(route) ==
    IF route = None
    THEN [companies |-> <<>>, period |-> None, metric |-> None,
          workflow |-> "function_calling_fallback"]
    ELSE LET company == Get(route.arguments, "company", None)
         IN  [companies |-> Get(route.context, "companies",
                                IF company = None THEN <<>> ELSE <<company>>),
              period |-> Get(route.context, "period", Get(route.arguments, "year", None)),
              metric |-> Get(route.context, "metric", Get(route.arguments, "account", None)),
              workflow |-> route.workflow]

ToolsRun(result) ==
    CASE result.executors # None -> result.executors
      [] result.executors = None /\ result.tool # None -> <<result.tool>>
      [] OTHER -> <<>>

Dense == {"search_disclosures", "build_summary_context"}

\* build_eval_trace
Trace(route, result) ==
    LET tools == ToolsRun(result)
    IN  [resolver |-> RouteTrace(route),
         tools |-> tools,
         allowed |-> result.allowed,
         citations |-> Len(result.citations),
         receipts |-> result.citations # <<>> /\ \A i \in DOMAIN result.citations : result.citations[i].receipt,
         calls |-> [dense |-> Cardinality({i \in DOMAIN tools : tools[i] \in Dense}),
                    function_calling |-> IF result.selected THEN 1 ELSE 0,
                    hcx_final |-> IF result.generated THEN 1 ELSE 0]]

\* The rows a number is displayed from: facts, or else validated values.
DisplayRows(result) ==
    CASE result.facts # None -> result.facts
      [] result.facts = None /\ result.values # None -> result.values
      [] OTHER -> <<>>

-----------------------------------------------------------------------------
(* _first_failure: the layers in the order they are looked at              *)

Infra(expected, result, trace) == result.status \in {"error", "provider_unavailable"}

Resolver(expected, result, trace) ==
    \E key \in {"companies", "period", "metric", "workflow"} \cap DOMAIN expected :
        expected[key] # trace.resolver[key]

ExecutorSequence(expected, result, trace) ==
    \/ "executor_tools" \in DOMAIN expected /\ expected.executor_tools # trace.tools
    \/ "executor_count" \in DOMAIN expected /\ expected.executor_count # Len(trace.tools)

OverLimit(expected, trace, call) == trace.calls[call] > Get(expected, call, trace.calls[call])

FinancialData(expected, result, trace) ==
    Get(expected, "comparison_complete", FALSE) /\ result.comparison # "complete"

\* Faulty variant of Calculation: one displayed value is enough.
SomethingDisplayed(expected, result, trace) ==
    /\ Get(expected, "display_required", FALSE)
    /\ LET rows == DisplayRows(result) IN \A i \in DOMAIN rows : ~rows[i].displayed

Calculation(expected, result, trace) ==
    /\ Get(expected, "display_required", FALSE)
    /\ LET rows == DisplayRows(result)
       IN  rows = <<>> \/ \E i \in DOMAIN rows : ~rows[i].displayed

EvidenceGate(expected, result, trace) ==
    \/ Get(expected, "citation_required", FALSE) /\ trace.citations = 0
    \/ Get(expected, "answer_allowed", trace.allowed) # trace.allowed

HcxFinal(forbidden, result) ==
    (result.allowed /\ result.blank) \/ forbidden \cap result.phrases # {}

FirstFailure(expected, forbidden, result, trace) ==
    LET layers == <<
            [layer |-> "INFRA", fails |-> Infra(expected, result, trace)],
            [layer |-> "RESOLVER", fails |-> Resolver(expected, result, trace)],
            [layer |-> "EXECUTOR", fails |-> ExecutorSequence(expected, result, trace)],
            [layer |-> "RETRIEVAL", fails |-> OverLimit(expected, trace, "dense")],
            [layer |-> "EXECUTOR", fails |-> OverLimit(expected, trace, "function_calling")],
            [layer |-> "EXECUTOR", fails |-> OverLimit(expected, trace, "hcx_final")],
            [layer |-> "FINANCIAL_DATA", fails |-> FinancialData(expected, result, trace)],
            [layer |-> "CALCULATION", fails |-> Calculation(expected, result, trace)],
            [layer |-> "EVIDENCE", fails |-> EvidenceGate(expected, result, trace)],
            [layer |-> "HCX_FINAL", fails |-> HcxFinal(forbidden, result)]>>
        failing == {i \in DOMAIN layers : layers[i].fails}
    IN  IF failing = {} THEN None
        ELSE layers[CHOOSE i \in failing : \A j \in failing : i <= j].layer

\* QaEvaluator._execute and run: an exception of the service is INFRA.
Verdict(case, route, result) ==
    IF result = None THEN "INFRA"
    ELSE FirstFailure(case.expected, case.forbidden, result, Trace(route, result))
==============================================================================
