----------------------------- MODULE MCAgentAnswer -----------------------------
(***************************************************************************)
(* The agent and its retrieval for TLC.                                    *)
(***************************************************************************)
EXTENDS AgentAnswer, AnalysisRetrieval, DisclosureTools, AccountQuestions, TLC

-----------------------------------------------------------------------------
(* A report and its correction, a contract with a correction, a loan whose  *)
(* original is not found, a first-quarter report, and the report of another *)
(* company.                                                                 *)

Filing(id, issuer, group, key, filed, correction, original) ==
    [id |-> id, issuer |-> issuer, group |-> group, key |-> key,
     filed |-> filed, correction |-> correction, original |-> original]

Corpus == {Filing(1, "A", "periodic", "annual", 51, FALSE, 0),
            Filing(2, "A", "periodic", "annual", 53, TRUE, 51),
            Filing(3, "A", "event", "contract", 52, FALSE, 0),
            Filing(4, "A", "event", "contract", 54, TRUE, 52),
            Filing(5, "A", "event", "loan", 54, TRUE, 0),
            Filing(6, "B", "periodic", "annual", 51, FALSE, 0),
            Filing(7, "A", "periodic", "first_quarter", 52, FALSE, 0)}

\* The statements of the reports: one of comprehensive income that disagrees with the
\* income statement, separate statements that disagree, three months beside a sum.
Column(term, year, quarter, months) ==
    [term |-> term, year |-> year, quarter |-> quarter, months |-> months]
Row(labels, numbers) == [labels |-> labels, values |-> numbers]
Table(statement, scope, scale, columns, lines) ==
    [statement |-> statement, scope |-> scope, scale |-> scale, columns |-> columns, rows |-> lines]

Years == <<Column(2, 0, 0, "none"), Column(1, 0, 0, "none")>>
Quarters == <<Column(0, 4, 1, "cumulative"), Column(0, 4, 1, "three"), Column(0, 3, 1, "three"),
              Column(0, 4, 0, "none")>>

Statements ==
    (2 :> {Table("IS", "consolidated", 10, Years, <<Row(1, <<{12}, {10}>>), Row(0, <<{7}, {7}>>)>>),
           Table("CIS", "consolidated", 10, Years, <<Row(1, <<{13}, {10}>>)>>),
           Table("IS", "separate", 10, Years, <<Row(1, <<{9}, {8}>>)>>),
           Table("IS", "separate", 1, Years, <<Row(1, <<{9}, {8}>>)>>),
           Table("BS", "consolidated", 10, Years, <<Row(1, <<{99}, {98}>>)>>)})
    @@ (7 :> {Table("IS", "separate", 10, Quarters, <<Row(1, <<{3}, {2}, {1}, {9}>>), Row(2, <<{4}, {4}, {4}, {4}>>)>>),
              Table("CIS", "separate", 10, Quarters, <<Row(1, <<{5}, {}, {1}, {}>>)>>)})

Lineages == INSTANCE Lineage
KnownFilings == LET versions == Lineages!Versions(Corpus)
           IN  [n \in 1 .. 7 |-> LET f == CHOOSE g \in Corpus : g.id = n
                                 IN  [issuer |-> f.issuer, names |-> {f.issuer}, filed |-> f.filed,
                                      correction |-> f.correction, year |-> 4, kind |-> f.key,
                                      tables |-> IF n \in DOMAIN Statements THEN Statements[n] ELSE {},
                                      version |-> CHOOSE v \in versions : v.filing = n]]

Item(filing) ==
    [filing |-> filing, format |-> "xml", ok |-> TRUE, images |-> 0, injected |-> FALSE,
     cell |-> FALSE, title |-> FALSE, reporter |-> FALSE, terms |-> {}]
Cell(filing) == [Item(filing) EXCEPT !.cell = TRUE]

KnownEvidence ==
    [t1 |-> [Item(1) EXCEPT !.terms = {"approved"}],
     c2 |-> Cell(2), c3 |-> Cell(2), c4 |-> Cell(2), c5 |-> Cell(2), c9 |-> [Cell(2) EXCEPT !.injected = TRUE],
     t3 |-> [Item(3) EXCEPT !.terms = {"approved"}],
     c6 |-> [Cell(3) EXCEPT !.title = TRUE],
     t4 |-> [Item(4) EXCEPT !.injected = TRUE],
     c7 |-> [Cell(4) EXCEPT !.reporter = TRUE],
     t5 |-> Item(5), t6 |-> [Item(6) EXCEPT !.images = 1], c8 |-> Cell(6), c10 |-> [Cell(7) EXCEPT !.images = 1]]

Fact(id, filing, account, statement, end, instant, value, scale, evidence) ==
    [id |-> id, filing |-> filing, account |-> account, label |-> account, statement |-> statement,
     unit |-> "KRW", scope |-> "consolidated", kind |-> IF end # 0 THEN "duration" ELSE "instant",
     start |-> IF end = 0 THEN 0 ELSE (end \div 10) * 10, end |-> end, instant |-> instant,
     value |-> value, scale |-> scale, evidence |-> evidence]

OverlayRows == {Fact(1, 2, "revenue", "IS", 49, 0, 120, 1, {"c2"}),
                  Fact(2, 2, "revenue", "IS", 39, 0, 100, 1, {"c3"}),
                  Fact(3, 2, "revenue", "IS", 29, 0, 50, 1, {"c4", "c9"}),
                  Fact(4, 2, "assets", "BS", 0, 49, 70, 1, {"c5"}),
                  Fact(5, 6, "revenue", "IS", 49, 0, 30, 10, {"c8"}),
                  [Fact(6, 6, "revenue", "IS", 49, 0, 8, 10, {"c8"}) EXCEPT !.scope = "separate", !.unit = None],
                  [Fact(7, 2, "orders", "IS", 39, 0, 5, 1, {"c3"}) EXCEPT !.label = "backlog"],
                  [Fact(8, 7, "orders", "IS", 42, 0, 6, 1, {"c10"}) EXCEPT !.label = "backlog"]}

EventRow(id, filing, day, value, evidence) ==
    [id |-> id, filing |-> filing, account |-> "amount", label |-> "amount", statement |-> "none",
     unit |-> "KRW", scope |-> "none", kind |-> "event", start |-> day, end |-> day, instant |-> day, value |-> value,
     scale |-> 1, evidence |-> evidence]
DisclosedEvents == {EventRow(11, 3, 52, 7, {"c6"}), EventRow(12, 4, 52, 9, {"c7"})}

\* DenseHits of the right filing, of a wrong one, of one not asked for, of nothing.
DenseHits == {[filing |-> 2, ids |-> {"c2"}], [filing |-> 2, ids |-> {"t3", "c8"}],
         [filing |-> 6, ids |-> {"c8", "gone"}], [filing |-> 3, ids |-> {"t3"}]}

Setting(overlay, index, dense, reranker, eligible) ==
    [overlay |-> overlay, index |-> index, dense |-> dense, reranker |-> reranker, eligible |-> eligible]
ServingSettings == {Setting("attested", "valid", TRUE, TRUE, TRUE),
             Setting("attested", "broken", FALSE, FALSE, FALSE),
             Setting("mismatch", "valid", FALSE, FALSE, TRUE)}

Account(status, support, id, statement) ==
    [status |-> status, support |-> support, id |-> id, statement |-> statement,
     required |-> {}, operation |-> "none"]
Revenue == Account("resolved", "structured", "revenue", "IS")
Assets == Account("resolved", "structured", "assets", "BS")
Growth == [Account("resolved", "derived", "none", "IS") EXCEPT !.required = {"revenue"}, !.operation = "growth_rate"]
Margin == [Growth EXCEPT !.required = {"revenue", "assets"}, !.operation = "ratio"]
NoAccount == Account("unknown", "none", "none", "none")

Question(company, years, date, account, words) ==
    [company |-> company, asOf |-> 0, years |-> years, date |-> date, more |-> <<>>,
     account |-> account, words |-> words, threshold |-> 0, top |-> 1]
AsOf(q, date) == [q EXCEPT !.asOf = date]

AskedQuestions ==
    {Question("A", {4}, 0, Revenue, {"amount"}),
     Question("A", {3, 4}, 0, Revenue, {"growth", "amount"}),
     Question("A", {}, 0, Growth, {"growth", "amount"}),
     Question("A", {}, 0, Revenue, {"three_years"}),
     Question("A", {4}, 0, Revenue, {"sum", "three_years"}),
     Question("B", {}, 0, Revenue, {"sum", "three_years"}),
     Question("A", {4}, 0, Assets, {"amount"}),
     Question("A", {3}, 39, Revenue, {"difference", "consolidated"}),
     AsOf(Question("A", {}, 0, Revenue, {}), 52),
     Question("B", {}, 0, Revenue, {"first"}),
     Question("A", {}, 0, Margin, {}), Question("A", {}, 0, NoAccount, {"account"}),
     Question("none", {}, 0, NoAccount, {}),
     Question("A", {}, 0, NoAccount, {"event", "amount"}),
     AsOf(Question("A", {}, 0, NoAccount, {"event", "amount", "first", "corrected", "each"}), 54),
     Question("A", {5}, 52, NoAccount, {"title"}),
     Question("A", {5}, 54, NoAccount, {"reporter", "corrected"}),
     Question("A", {}, 0, NoAccount, {"approved"}), Question("A", {}, 0, NoAccount, {"injection"}),
     Question("A", {}, 0, NoAccount, {"forecast"}), Question("A", {}, 0, NoAccount, {"only_the_company"}),
     AsOf(Question("A", {}, 0, NoAccount, {"corrected"}), 53),
     Question("A", {}, 0, NoAccount, {"first", "corrected", "each"}),
     Question("A", {}, 0, NoAccount, {"first"}),
     [Question("none", {}, 0, Revenue, {"universe", "count"}) EXCEPT !.threshold = 120],
     [Question("none", {}, 0, Revenue, {"universe", "count", "at_least"}) EXCEPT !.threshold = 120],
     [Question("none", {}, 0, Revenue, {"universe", "list"}) EXCEPT !.threshold = 10],
     Question("none", {}, 0, Revenue, {"universe", "rank"})}

-----------------------------------------------------------------------------
(* JudgedQuestions: on periods of one company, on two companies, on an event and  *)
(* on a correction.  A question is searched, judged, or only resolved.      *)

DimensionSlot(id, domain, accounts, periods, least, mandatory) ==
    [id |-> id, domain |-> domain, concepts |-> accounts, periods |-> periods, least |-> least,
     most |-> 2, mandatory |-> mandatory, reports |-> {}]

AnalysisRules ==
    <<[id |-> "profitability", all |-> {}, any |-> {"profit"}, most |-> 4,
       slots |-> <<DimensionSlot("results", "financial", <<"revenue", "assets">>, 2, 2, TRUE)>>],
      [id |-> "peers", all |-> {}, any |-> {"peers"}, most |-> 2,
       slots |-> <<DimensionSlot("peer_metric", "financial", <<"revenue">>, 1, 1, TRUE),
                   DimensionSlot("peer_context", "text", <<>>, 1, 0, FALSE)>>],
      [id |-> "contract", all |-> {"contract", "terms"}, any |-> {}, most |-> 2,
       slots |-> <<DimensionSlot("contract_current", "event", <<>>, 1, 1, TRUE)>>],
      [id |-> "correction_materiality", all |-> {}, any |-> {"corrected"}, most |-> 3,
       slots |-> <<DimensionSlot("original_disclosure", "text", <<>>, 1, 1, TRUE),
                   DimensionSlot("effective_correction", "text", <<>>, 1, 1, TRUE)>>],
      [id |-> "orders", all |-> {}, any |-> {"orders"}, most |-> 2,
       slots |-> <<[DimensionSlot("order_metric", "financial", <<"backlog">>, 1, 1, TRUE)
                        EXCEPT !.reports = {"annual"}]>>]>>

\* No account is called backlog: it is a label of facts.
CatalogAccounts == [revenue |-> Revenue, assets |-> Assets, backlog |-> NoAccount, none |-> NoAccount]

Judgment(issuers, years, date, words) ==
    [Question(IF issuers = <<>> THEN "none" ELSE issuers[1], years, date, NoAccount, words \cup {"analysis"})
        EXCEPT !.account = NoAccount] @@ [issuers |-> issuers]

JudgedQuestions ==
    {Judgment(<<"A">>, {}, 0, {"profit"}), Judgment(<<"A">>, {3, 4}, 0, {"profit"}),
     Judgment(<<"A", "B">>, {4}, 0, {"peers"}), Judgment(<<>>, {}, 0, {"peers"}),
     Judgment(<<"A">>, {}, 0, {"contract", "terms"}), Judgment(<<"A">>, {5}, 0, {"contract", "terms"}),
     Judgment(<<"A">>, {}, 0, {"corrected", "profit"}), Judgment(<<"A">>, {}, 0, {"corrected", "transaction"}),
     Judgment(<<"A">>, {}, 0, {"corrected", "transaction", "quoted"}),
     Judgment(<<"A">>, {}, 0, {"orders", "three_years"}),
     [Judgment(<<"A">>, {}, 49, {"peers"}) EXCEPT !.more = <<[date |-> 39, month |-> FALSE]>>],
     Judgment(<<"A">>, {}, 0, {"profit", "forecast"}), Judgment(<<"A">>, {}, 0, {"injection"})}

-----------------------------------------------------------------------------
(* Calls of the tools: of each, one that can be answered and those that fail *)
(* in one of the ways its answer can.                                       *)

Call(tool, company, policy) ==
    [tool |-> tool, valid |-> TRUE, company |-> company, filing |-> 0, since |-> 0, until |-> 0,
     policy |-> policy, account |-> NoAccount, scope |-> "none", year |-> 0, kind |-> "none",
     limit |-> 2, words |-> {}]
Between(r, since, until) == [r EXCEPT !.since = since, !.until = until]
OfFiling(r, n) == [r EXCEPT !.filing = n]
OfAccount(r, account) == [r EXCEPT !.account = account]
OfStatement(r, year, kind, scope) == [OfAccount(r, Revenue) EXCEPT !.year = year, !.kind = kind, !.scope = scope]

ToolCalls ==
    LET search == Call("search_disclosures", "A", "current")
        figures == OfAccount(Call("get_financial_facts", "A", "current"), Revenue)
        trend == Call("analyze_disclosure_trend", "A", "current")
        lineage == Call("get_correction_lineage", "none", "current")
        summary == Call("build_summary_context", "A", "current")
    IN  {[search EXCEPT !.valid = FALSE], search, Between(search, 53, 53),
         OfFiling(Call("search_disclosures", "A", "original"), 1),
         OfFiling(Call("search_disclosures", "A", "both"), 4),
         OfFiling(Call("search_disclosures", "B", "corrected"), 6),
         figures, Between(figures, 40, 49), Between(figures, 0, 39), [figures EXCEPT !.scope = "separate"],
         OfAccount(figures, Growth), Between(OfAccount(figures, Assets), 40, 49),
         [figures EXCEPT !.policy = "original"], [figures EXCEPT !.company = "B"],
         Between(trend, 51, 53), Between(trend, 40, 60), Between(trend, 60, 61),
         OfFiling(lineage, 1), OfFiling(lineage, 4), OfFiling(lineage, 5), OfFiling(lineage, 9),
         summary, OfAccount(summary, Revenue), OfFiling(summary, 2),
         OfStatement(summary, 4, "annual", "none"), OfStatement(summary, 4, "annual", "separate"),
         OfStatement(summary, 3, "annual", "none"),
         OfStatement(summary, 4, "first_quarter", "none"), OfStatement(summary, 4, "first_quarter", "consolidated"),
         [OfStatement(summary, 4, "annual", "none") EXCEPT !.policy = "original"]}

\* A catalog whose surfaces overlap, and every short text.
KnownEndings == {<<"e">>}

CatalogAccount(id, surfaces, words, support) ==
    [id |-> id, surfaces |-> surfaces, concepts |-> words, support |-> support, statement |-> "IS",
     ambiguousWith |-> {}, required |-> {}, operation |-> "none"]
Surface(kind, words, english) == [kind |-> kind, text |-> words, english |-> english]
SmallCatalog ==
    [accounts |->
        {CatalogAccount("revenue", {Surface("exact_label", <<"a", "b">>, FALSE)}, {<<"z", "z">>}, "structured"),
         CatalogAccount("profit", {Surface("exact_label", <<"b">>, FALSE), Surface("exact_alias", <<"z">>, TRUE)},
                        {}, "derived"),
         CatalogAccount("backlog", {Surface("exact_label", <<"c">>, FALSE)}, {}, "unsupported"),
         [CatalogAccount("debt", {Surface("typo_alias", <<"c", "a">>, FALSE)}, {}, "ambiguous")
            EXCEPT !.ambiguousWith = {"backlog"}]},
     expressions |-> {[text |-> <<"a">>, candidates |-> {"revenue", "profit"}]},
     legacy |-> {[text |-> <<"1">>, id |-> "revenue"]}]
ShortTexts == UNION {[1 .. n -> Characters] : n \in 0 .. 4}

-----------------------------------------------------------------------------

VARIABLE
    part        \* what the behaviour exercises

ASSUME InputsSound == CorpusSound /\ OverlaySound /\ QuestionsSound /\ JudgmentsSound /\ ToolsSound

\* On the corpus, no reader delivers versions that the hydration of evidence refuses.
ASSUME ReadersSound ==
    ReadersAgree({Filings[n].version : n \in DOMAIN Filings},
                 {n \in DOMAIN Filings : Filings[n].correction}, 50 .. 55)

Init ==
    /\ AgentInit /\ JudgeInit /\ ToolInit
    /\ ResolveInit
    /\ \/ part \in {"agent", "analysis", "tools"} /\ text = <<>>
       \/ part = "resolution" /\ setting = Setting("attested", "valid", TRUE, TRUE, TRUE)

Next ==
    \/ /\ part = "agent" /\ AgentNext
       /\ UNCHANGED <<analysis, results, concepts, found, rows, verdict, request, response, part, text>>
    \/ /\ part = "analysis" /\ JudgeNext
       /\ UNCHANGED <<question, draft, answer, asked, request, response, part, text>>
    \/ /\ part = "tools" /\ ToolNext
       /\ UNCHANGED <<question, draft, answer, asked, analysis, results, concepts, found, rows, verdict,
                      part, text>>

vars == <<agentVars, analysisVars, toolVars, part, text>>
Spec == Init /\ [][Next]_vars
=============================================================================
