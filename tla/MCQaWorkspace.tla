--------------------------- MODULE MCQaWorkspace ---------------------------
(***************************************************************************)
(* The two ledgers of the QA lab for TLC.  They share no state, so a       *)
(* behaviour is one of either: part says which.                            *)
(***************************************************************************)
EXTENDS GoldWorkflow, EvalCases

Symmetry == Permutations(Workers) \cup Permutations(People)

-----------------------------------------------------------------------------
(* Gold: a filing with a paragraph and a table cell, and its correction.    *)

Evidence(filing, source, cell, ok) ==
    [filing |-> filing, source |-> source, cell |-> cell, tableParsed |-> ok]

Before == [evidence |-> [e1 |-> Evidence("f1", "s1", FALSE, TRUE),
                         e2 |-> Evidence("f1", "s1", TRUE, TRUE)],
           source |-> [s1 |-> [filing |-> "f1", parsed |-> TRUE, pdf |-> FALSE]],
           filing |-> [f1 |-> [lineage |-> "root", current |-> TRUE]]]

After == [evidence |-> [e1 |-> Evidence("f1", "s1", FALSE, TRUE),
                        e3 |-> Evidence("f2", "s2", FALSE, TRUE)],
          source |-> [s1 |-> [filing |-> "f1", parsed |-> TRUE, pdf |-> FALSE],
                      s2 |-> [filing |-> "f2", parsed |-> TRUE, pdf |-> TRUE]],
          filing |-> [f1 |-> [lineage |-> "root", current |-> FALSE],
                      f2 |-> [lineage |-> "resolved", current |-> TRUE]]]

TwoCorpora == <<Before, After>>

OneReview == [r1 |-> [filings |-> {"f1"}, evidence |-> {"e1"}, declined |-> FALSE]]

Text(filings, evidence, basis) ==
    [questionId |-> "r1", type |-> "single_filing_fact", answerability |-> "answerable",
     kind |-> "text", filings |-> filings, evidence |-> evidence, numbers |-> TRUE,
     operands |-> {}, basis |-> basis, asOf |-> FALSE, tableValidated |-> FALSE,
     shape |-> TRUE]

\* Correct on both corpora, correct on the first only, and never correct.
ThreeAnnotations == {
    Text({"f1"}, {"e1"}, "not_applicable"),
    [Text({"f1"}, {"e1", "e2"}, "latest_effective") EXCEPT
        !.type = "table_cell", !.tableValidated = TRUE, !.kind = "multi_numeric",
        !.operands = {"e2"}],
    [Text({"f1", "f2"}, {"e3"}, "as_of") EXCEPT !.type = "correction_aware"]}

-----------------------------------------------------------------------------
(* Cases: a figure that must be displayed, and a search within a limit.     *)

TwoCases == [direct |-> {[expected |-> [display_required |-> TRUE, citation_required |-> TRUE,
                                        comparison_complete |-> TRUE, metric |-> "sales"],
                          forbidden |-> {}]},
             search |-> {[expected |-> [dense |-> 1, executor_tools |-> <<"search_disclosures">>,
                                        answer_allowed |-> TRUE],
                          forbidden |-> {"maybe"}],
                         [expected |-> [executor_count |-> 1, hcx_final |-> 0], forbidden |-> {}]}]

Result == [status |-> "answered", allowed |-> TRUE, blank |-> FALSE, phrases |-> {},
           executors |-> None, tool |-> "search_disclosures", selected |-> FALSE,
           generated |-> FALSE, comparison |-> "complete", facts |-> None, values |-> None,
           citations |-> <<[receipt |-> TRUE]>>]

Route == [workflow |-> "single", context |-> [metric |-> "sales"], arguments |-> [company |-> "A"]]

SixAnswers == [direct |-> {
                <<Route, [Result EXCEPT !.values = <<[displayed |-> TRUE]>>]>>,
                <<Route, [Result EXCEPT !.facts = <<[displayed |-> TRUE], [displayed |-> FALSE]>>]>>,
                <<Route, None>>},
            search |-> {
                <<Route, Result>>,
                <<None, [Result EXCEPT !.phrases = {"maybe"}, !.generated = TRUE]>>,
                <<Route, [Result EXCEPT !.executors = <<"search_disclosures", "search_disclosures">>]>>}]

-----------------------------------------------------------------------------

VARIABLE part

vars == <<part, goldVars, evalVars>>

ASSUME CorporaForeignKeys == ForeignKeys
ASSUME CasesWellFormed == WellFormed

WorkspaceInit == part \in {"gold", "cases"} /\ Init /\ EvalInit

WorkspaceNext ==
    \/ part = "gold" /\ Next /\ UNCHANGED <<part, evalVars>>
    \/ part = "cases" /\ EvalNext /\ UNCHANGED <<part, goldVars>>

WorkspaceSpec == WorkspaceInit /\ [][WorkspaceNext]_vars
=============================================================================
