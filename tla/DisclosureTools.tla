----------------------------- MODULE DisclosureTools -----------------------------
(***************************************************************************)
(* The five tools a language model may call                                *)
(* (src/src/disclosure_db/disclosure_tools.py), the registry that          *)
(* validates a call and dispatches it (tool_registry.py), the hybrid       *)
(* search two of them use (hybrid_retrieval.py, dense_client.py), and the  *)
(* checker that says whether the evidence of a response is enough          *)
(* (evidence_sufficiency.py).                                              *)
(*                                                                         *)
(* A request is [tool, valid, company, filing, since, until, policy,       *)
(* account, scope, year, kind, limit, words]; valid says that it passes the *)
(* schema of the tool.  A filing of Filings has a year, a kind and the     *)
(* statement tables of its report, [statement, scope, scale, columns,      *)
(* rows]: a column has the term, year, quarter and months of its header, a *)
(* row how often it names the account, and the number, if any, in each of  *)
(* its columns.  That a header is true of its numbers nobody checks.       *)
(***************************************************************************)
EXTENDS EvidenceRetrieval

CONSTANT Requests

VARIABLES
    request,    \* the call in hand
    response    \* what the model is given for it

toolVars == <<retrievalVars, request, response>>

NoData == [facts |-> <<>>, total |-> 0, complete |-> FALSE, original |-> 0, current |-> 0,
           versions |-> <<>>, confidence |-> "none", cell |-> {}]

\* A response before the check: what it covers and what may be cited from it.
Evidenced(items, ids, filings) ==
    [items |-> items, ids |-> ids, filings |-> filings, companies |-> {}, accounts |-> {},
     start |-> NoDate, end |-> NoDate, correction |-> "policy_applied", context |-> TRUE]
Empty == [Evidenced({}, {}, {}) EXCEPT !.correction = "not_evaluated"]

NoRequest == [tool |-> None]
NoResponse == [status |-> "none", bundle |-> Empty, data |-> NoData]

Days(filings) == {FilingOf(n).filed : n \in filings}
EarliestOf(days) == IF days = {} THEN NoDate ELSE Min(days)
LatestOf(days) == IF days = {} THEN NoDate ELSE Max(days)

FilingsOf(ids) == {Evidence[id].filing : id \in ids}

-----------------------------------------------------------------------------
(* EvidenceSufficiencyChecker                                               *)

\* The bounds are checked only where something is covered.
ScopeCovered(r, b) ==
    /\ r.company # None => r.company \in b.companies
    /\ r.filing # AnyFiling => r.filing \in b.filings
    /\ r.account.id # None => r.account.id \in b.accounts
    /\ (r.since # NoDate /\ b.start # NoDate) => b.start >= r.since
    /\ (r.until # NoDate /\ b.end # NoDate) => b.end <= r.until

Citable(b) == b.ids # {} /\ b.items # {}

\* Every reader of the tools sets the quality of an item, and every validated fact
\* has a value and a period: those checks cannot fail.

Sufficiency(r, b, d) ==
    LET met == ScopeCovered(r, b) /\ (r.tool = "get_financial_facts" \/ b.filings # {})
        certain == b.correction \notin {"unknown", "uncertain"}
    IN  CASE r.tool = "get_financial_facts" ->
                IF met /\ Citable(b) /\ d.facts # <<>>
                    /\ \A i \in DOMAIN d.facts :
                        d.facts[i].evidence # {} /\ d.facts[i].scope # None /\ d.facts[i].unit # None
                THEN "sufficient" ELSE "insufficient"
          [] r.tool \in {"search_disclosures", "build_summary_context"} ->
                IF ~met \/ ~Citable(b) \/ ~b.context THEN "insufficient"
                ELSE IF certain THEN "sufficient" ELSE "partial"
          [] r.tool = "analyze_disclosure_trend" ->
                IF ~met \/ d.total = 0 \/ b.ids = {} THEN "insufficient"
                ELSE IF d.complete THEN "sufficient" ELSE "partial"
          [] r.tool = "get_correction_lineage" ->
                IF d.confidence # "high" \/ b.correction # "resolved"
                THEN (IF b.filings # {} /\ b.ids # {} THEN "partial" ELSE "insufficient")
                ELSE IF met /\ d.original # 0 /\ d.current # 0 /\ b.ids # {}
                     THEN "sufficient" ELSE "insufficient"

\* dispatch: a handler's success is lowered to what its evidence allows.
Reply(b, d) ==
    /\ response' = [status |-> Sufficiency(request, b, d), bundle |-> b, data |-> d]
    /\ pc' = "replied"

-----------------------------------------------------------------------------
(* search_disclosures and the hybrid search                                 *)

SearchOf(r) ==
    [company |-> r.company, policy |-> r.policy, asOf |-> NoDate, filing |-> r.filing,
     filed |-> NoDate, since |-> r.since, until |-> r.until]

\* HybridRetriever.search: what the index finds, and what the dense service adds;
\* nothing it does can take a sparse hit away but the limit.  Rows are fused by
\* the one evidence id they have.
HybridHits(r) ==
    LET dense == IF setting.dense THEN {DenseRefs(hits, SearchOf(r)) : hits \in SUBSET Hits} ELSE {{}}
    IN  UNION {{kept \in SUBSET (IndexRows(SearchOf(r)) \cup d) : Cardinality(kept) <= r.limit} : d \in dense}

\* The rows of the dense service carry the company of the request, those of the
\* index the names of the filing; _retrieval_bundle.
Retrieved(r, ids) ==
    LET filings == FilingsOf(ids)
    IN  [Evidenced(ids, ids, filings) EXCEPT
            !.companies = (UNION {FilingOf(n).names : n \in filings}) \cup
                            (IF setting.dense /\ ids # {} THEN {r.company} ELSE {}),
            !.start = EarliestOf(Days(filings)), !.end = LatestOf(Days(filings)),
            !.context = ids # {},
            !.correction = CASE ids = {} -> "unknown"
                             [] ids # {} /\ \A n \in filings : Safe(VersionOf(n)) -> "policy_applied"
                             [] OTHER -> "uncertain"]

\* Text that looks like an instruction is no row.
SearchDisclosures ==
    /\ pc = "tool" /\ request.tool = "search_disclosures" /\ setting.index = "valid"
    /\ \E hits \in HybridHits(request) :
        Reply(Retrieved(request, {id \in hits : TextAdmitted(id)}), NoData)
    /\ cache' = IF setting.dense THEN Remembered(SearchOf(request)) ELSE cache
    /\ UNCHANGED <<setting, plan, refs, facts, bundle, request>>

-----------------------------------------------------------------------------
(* get_financial_facts                                                      *)

StructuredAccount(r) == r.account.status = "resolved" /\ Structured(r)

\* The lookup of "<company> <account>", with the period, scope, policy and number of
\* periods of the request in place of those of the text.
FactPlan(r) ==
    [PlanOf([company |-> r.company, asOf |-> NoDate, years |-> {}, date |-> NoDate, more |-> <<>>,
             account |-> r.account, words |-> r.words, threshold |-> 0, top |-> 1])
        EXCEPT !.period = [start |-> r.since, end |-> r.until, instant |-> NoTime, filing |-> NoTime],
               !.scope = r.scope, !.policy = r.policy, !.latest = r.limit,
               !.limit = Min({r.limit, MaxEvidence})]

\* _fact_matches_request
FactMatches(f, r) ==
    /\ f.account = r.account.id /\ f.label # "forecast" /\ f.evidence # {}
    /\ OfCompany(f.filing, r.company)
    /\ r.scope # None => f.scope = r.scope
    /\ IF f.kind = "instant"
       THEN /\ r.since # NoDate => f.instant >= r.since
            /\ r.until # NoDate => f.instant # NoDate /\ f.instant <= r.until
       ELSE /\ r.since # NoDate => f.start = r.since
            /\ r.until # NoDate => f.end = r.until

GetFinancialFacts ==
    /\ pc = "bundle" /\ request.tool = "get_financial_facts"
    /\ LET matching == Kept(bundle.facts, LAMBDA f : FactMatches(f, request))
           shown == {matching[i] : i \in DOMAIN matching}
           days == UNION {{f.start, f.end, f.instant} : f \in shown} \ {NoDate}
           ids == EvidenceOf(matching)
           b == Evidenced({id \in bundle.evidence \cap ids : TextAdmitted(id)}, ids,
                          {f.filing : f \in shown})
       IN  Reply(IF shown = {} THEN Empty
                 ELSE [b EXCEPT !.companies = {request.company}, !.accounts = {request.account.id},
                                !.start = EarliestOf(days), !.end = LatestOf(days)],
                 [NoData EXCEPT !.facts = matching])
    /\ UNCHANGED <<setting, plan, refs, facts, cache, bundle, request>>

SearchStructured ==
    /\ request.tool = "get_financial_facts" /\ Search
    /\ UNCHANGED <<request, response>>

-----------------------------------------------------------------------------
(* analyze_disclosure_trend and get_correction_lineage                      *)

\* The first fragment of a filing, read or not: cells are no fragments.
FirstFragments(filings) ==
    LET own(n) == {id \in DOMAIN Evidence : Evidence[id].filing = n /\ ~Evidence[id].cell}
    IN  {CHOOSE id \in own(n) : TRUE : n \in {m \in filings : own(m) # {}}}

\* _filing_filters; every version of a disclosure counts.
Available(r) == {n \in DOMAIN Filings : OfCompany(n, r.company)}
Counted(r) == {n \in Available(r) : FilingOf(n).filed \in r.since .. r.until}

Representatives(r) ==
    {n \in Counted(r) :
        Cardinality({m \in Counted(r) : \/ FilingOf(m).filed > FilingOf(n).filed
                                        \/ FilingOf(m).filed = FilingOf(n).filed /\ m < n}) < r.limit}

AnalyzeDisclosureTrend ==
    /\ pc = "tool" /\ request.tool = "analyze_disclosure_trend"
    /\ LET shown == Representatives(request)
           bounds == Days(Available(request))
           b == [Evidenced(shown, FirstFragments(shown), shown) EXCEPT
                    !.companies = UNION {FilingOf(n).names : n \in shown},
                    !.start = IF shown = {} THEN NoDate ELSE request.since,
                    !.end = IF shown = {} THEN NoDate ELSE request.until]
       IN  Reply(b, [NoData EXCEPT
                        !.total = Cardinality(Counted(request)),
                        !.complete = /\ bounds # {} /\ Min(bounds) <= request.since
                                     /\ Max(bounds) >= request.until])
    /\ UNCHANGED <<setting, plan, refs, facts, cache, bundle, request>>

EventOf(n) == {m \in DOMAIN Filings : VersionOf(m).event = VersionOf(n).event}

\* lineage_confidence of build_lineage, at its lowest; _lowest_confidence
Confidence(versions) ==
    IF versions # {} /\ \A n \in versions : Safe(VersionOf(n)) THEN "high" ELSE "none"

Only(s) == IF Cardinality(s) = 1 THEN CHOOSE n \in s : TRUE ELSE 0

GetCorrectionLineage ==
    /\ pc = "tool" /\ request.tool = "get_correction_lineage"
    /\ LET versions == IF request.filing \in DOMAIN Filings THEN EventOf(request.filing) ELSE {}
           d == [NoData EXCEPT
                    !.original = Only({n \in versions : VersionOf(n).status = "root"}),
                    !.current = Only({n \in versions : VersionOf(n).current}),
                    !.versions = Ordered(versions, LAMBDA m, n : VersionOf(m).no < VersionOf(n).no),
                    !.confidence = Confidence(versions)]
           resolved == d.original # 0 /\ d.current # 0 /\ d.confidence = "high"
       IN  Reply([Evidenced(versions, FirstFragments(versions), versions) EXCEPT
                    !.correction = CASE resolved -> "resolved"
                                     [] ~resolved /\ versions # {} -> "uncertain"
                                     [] OTHER -> "not_found"], d)
    /\ UNCHANGED <<setting, plan, refs, facts, cache, bundle, request>>

-----------------------------------------------------------------------------
(* build_summary_context                                                    *)

\* A metric of an income statement of a year, or of its first quarter, is read from
\* the statement itself.
FromStatement(r) ==
    /\ r.account.statement = "IS" /\ r.policy = "current" /\ r.year # NoTime
    /\ r.kind \in {"annual", "first_quarter"}

\* The newest report of the year that is in force.
Report(r) ==
    LET reports == {n \in Available(r) : /\ FilingOf(n).year = r.year /\ FilingOf(n).kind = r.kind
                                         /\ Effective(VersionOf(n), NoDate)}
    IN  {n \in reports : \A m \in reports : FilingOf(m).filed < FilingOf(n).filed
                            \/ (FilingOf(m).filed = FilingOf(n).filed /\ m <= n)}

\* _statement_column_candidates: a column of the latest term of the table, whatever
\* year it is, or of the year; of a quarter the three months before the sum.
ColumnFits(t, c, r) ==
    LET column == t.columns[c]
    IN  /\ \/ column.term # 0 /\ \A k \in DOMAIN t.columns : t.columns[k].term <= column.term
           \/ column.year = r.year
        /\ IF r.kind = "annual" THEN column.quarter = 0
           ELSE column.quarter = 1 /\ column.months \in {"three", "cumulative"}

ColumnBefore(t, r, c, k) ==
    LET rank(x) == IF r.kind # "annual" /\ t.columns[x].months # "three" THEN 1 ELSE 0
    IN  rank(c) < rank(k) \/ (rank(c) = rank(k) /\ c < k)

\* The first column that fits and holds a number, in a row that names the account
\* once, of a statement of income.
StatementCells(r) ==
    LET cells(t) == {[table |-> t, row |-> w, column |-> c] : w \in DOMAIN t.rows, c \in DOMAIN t.columns}
        fits(x, c) == ColumnFits(x.table, c, r) /\ x.table.rows[x.row].values[c] # {}
    IN  {x \in UNION {cells(t) : t \in UNION {FilingOf(n).tables : n \in Report(r)}} :
            /\ x.table.statement \in {"IS", "CIS"} /\ x.table.rows[x.row].labels = 1
            /\ fits(x, x.column)
            /\ \A c \in DOMAIN x.table.columns \ {x.column} :
                    fits(x, c) => ColumnBefore(x.table, r, x.column, c)}

StatementPriority(t) == IF t.statement = "IS" THEN 0 ELSE 1

\* Faulty variant of Unanimous: the first of several values is as good as another.
AnyValue(cells) == cells # {}

Unanimous(cells) == Cardinality({<<x.table.rows[x.row].values[x.column], x.table.scale>> : x \in cells}) = 1

\* _statement_metric_rows: consolidated before separate when no scope is asked, the
\* income statement before the comprehensive one, and nothing when they disagree.
StatementMetric(r) ==
    LET all == StatementCells(r)
        scope == IF r.scope # None THEN r.scope
                 ELSE IF \E x \in all : x.table.scope = "consolidated" THEN "consolidated"
                      ELSE "separate"
        scoped == {x \in all : x.table.scope = scope}
        preferred == {x \in scoped : \A y \in scoped : StatementPriority(x.table) <= StatementPriority(y.table)}
    IN  IF preferred # {} /\ Unanimous(preferred) THEN {CHOOSE x \in preferred : TRUE} ELSE {}

SummariseStatement ==
    /\ pc = "tool" /\ request.tool = "build_summary_context" /\ FromStatement(request)
    /\ LET cell == StatementMetric(request)
           filings == IF cell = {} THEN {} ELSE Report(request)
           b == [Evidenced(cell, cell, filings) EXCEPT
                    !.companies = UNION {FilingOf(n).names : n \in filings},
                    !.accounts = IF cell = {} THEN {} ELSE {request.account.id},
                    !.start = EarliestOf(Days(filings)), !.end = LatestOf(Days(filings)),
                    !.context = cell # {}]
       IN  Reply(b, [NoData EXCEPT !.cell = cell])
    /\ UNCHANGED <<setting, plan, refs, facts, cache, bundle, request>>

\* Anything else is searched; an account asked for is then never covered.
SummariseSearch ==
    /\ pc = "tool" /\ request.tool = "build_summary_context" /\ ~FromStatement(request)
    /\ setting.index = "valid"
    /\ \E hits \in HybridHits(request) :
        Reply(Retrieved(request, {id \in hits : TextAdmitted(id)}), NoData)
    /\ cache' = IF setting.dense THEN Remembered(SearchOf(request)) ELSE cache
    /\ UNCHANGED <<setting, plan, refs, facts, bundle, request>>

-----------------------------------------------------------------------------
(* ToolRegistry.dispatch                                                    *)

Dispatch(r) ==
    /\ pc = "idle"
    /\ request' = r
    /\ \/ /\ ~r.valid
          /\ response' = [NoResponse EXCEPT !.status = "invalid_request"] /\ pc' = "replied"
          /\ plan' = plan
       \/ /\ r.valid /\ r.tool = "get_financial_facts" /\ ~StructuredAccount(r)
          /\ response' = [NoResponse EXCEPT !.status = "insufficient"] /\ pc' = "replied"
          /\ plan' = plan
       \/ /\ r.valid /\ r.tool = "get_financial_facts" /\ StructuredAccount(r)
          /\ plan' = FactPlan(r) /\ pc' = "search" /\ response' = response
       \/ /\ r.valid /\ r.tool # "get_financial_facts"
          /\ pc' = "tool" /\ UNCHANGED <<plan, response>>
    /\ UNCHANGED <<setting, refs, facts, cache, bundle>>

\* Whatever a handler raises is an error response.
HandlerFails ==
    /\ pc = "tool"
    /\ response' = [NoResponse EXCEPT !.status = "error"] /\ pc' = "replied"
    /\ UNCHANGED <<setting, plan, refs, facts, cache, bundle, request>>

ToolNext ==
    \/ \E r \in Requests : Dispatch(r)
    \/ SearchDisclosures \/ SearchStructured \/ GetFinancialFacts
    \/ AnalyzeDisclosureTrend \/ GetCorrectionLineage
    \/ SummariseStatement \/ SummariseSearch \/ HandlerFails

ToolInit ==
    /\ setting \in Settings
    /\ pc = "idle" /\ refs = {} /\ facts = <<>> /\ cache = <<>> /\ bundle = NoBundle
    /\ request = NoRequest /\ response = NoResponse

ToolSpec == ToolInit /\ [][ToolNext]_toolVars

-----------------------------------------------------------------------------
(* What the tools take for granted                                          *)

\* A request that passed the schema of its tool.
RequestsSound ==
    \A r \in Requests :
        /\ r.tool \in {"search_disclosures", "get_financial_facts", "analyze_disclosure_trend",
                       "get_correction_lineage", "build_summary_context"}
        /\ r.policy \in Policies /\ r.limit \in Nat /\ r.since \in Nat /\ r.until \in Nat
        /\ r.tool = "get_financial_facts" => r.company # None

\* The versions of the filings, as build_lineage writes them.
ChainsSound ==
    /\ \A n \in DOMAIN Filings : VersionOf(n).filing = n /\ VersionOf(n).from = FilingOf(n).filed
    /\ Numbered({VersionOf(n) : n \in DOMAIN Filings})

\* A filing has a day and finitely many tables; the import takes a fact of an instant
\* only without a period.
FilingsSound ==
    \A n \in DOMAIN Filings :
        /\ FilingOf(n).filed \in Nat /\ IsFiniteSet(FilingOf(n).tables)
        /\ \A t \in FilingOf(n).tables : IsFiniteSet(DOMAIN t.rows) /\ IsFiniteSet(DOMAIN t.columns)

InstantsSound == \A f \in FinancialRows : f.kind = "instant" => f.end = NoDate

ToolsSound == RequestsSound /\ ChainsSound /\ FilingsSound /\ InstantsSound

-----------------------------------------------------------------------------
(* Properties                                                               *)

TextOf(id, r) ==
    LET e == Evidence[id]
    IN  /\ e.ok /\ TextAdmitted(id) /\ OfCompany(e.filing, r.company)
        /\ r.filing # AnyFiling => e.filing = r.filing
        /\ r.since # NoDate => FilingOf(e.filing).filed >= r.since
        /\ r.until # NoDate => FilingOf(e.filing).filed <= r.until
        /\ AdmitsAs("hydrate", e.filing, r.policy, NoDate)

FactOf(f, r, b) ==
    /\ f.evidence \subseteq b.items
    /\ \E g \in FinancialRows : g.id = f.id /\ f.evidence \subseteq g.evidence
    /\ \A id \in f.evidence : /\ Evidence[id].ok /\ Evidence[id].filing = f.filing
                              /\ AdmitsAs("hydrate", f.filing, r.policy, NoDate)
    /\ OfCompany(f.filing, r.company) /\ f.account = r.account.id
    /\ r.scope # None => f.scope = r.scope
    /\ r.until # NoDate => DateOf(f) <= r.until
    /\ (r.until # NoDate /\ f.kind = "duration") => DateOf(f) = r.until

\* The whole chain of the filing asked about.
Unbroken(d, r) ==
    /\ d.versions # <<>> /\ d.versions[1] = d.original
    /\ d.versions[Len(d.versions)] = d.current
    /\ Effective(VersionOf(d.current), NoDate)
    /\ {d.versions[i] : i \in DOMAIN d.versions} = EventOf(r.filing)
    /\ \A i, j \in DOMAIN d.versions :
        /\ i < j => FilingOf(d.versions[i]).filed <= FilingOf(d.versions[j]).filed
        /\ i + 1 = j => VersionOf(d.versions[j]).parent = d.versions[i]

\* The filings shown are counted, and none that is counted and not shown is newer.
NewestShown(r, b) ==
    /\ FilingsOf(b.ids) \subseteq Counted(r)
    /\ \A n \in Counted(r) \ b.filings : \A m \in b.filings : FilingOf(n).filed <= FilingOf(m).filed

\* A statement of income of the newest report in force, in a row that names the
\* account once, under a header that fits.
ReadFrom(x, r, n) ==
    /\ OfCompany(n, r.company) /\ FilingOf(n).year = r.year /\ FilingOf(n).kind = r.kind
    /\ Effective(VersionOf(n), NoDate)
    /\ \A m \in Available(r) :
        (FilingOf(m).year = r.year /\ FilingOf(m).kind = r.kind /\ Effective(VersionOf(m), NoDate))
            => FilingOf(m).filed <= FilingOf(n).filed
    /\ x.table \in FilingOf(n).tables /\ x.table.statement \in {"IS", "CIS"}
    /\ x.table.rows[x.row].labels = 1 /\ x.table.rows[x.row].values[x.column] # {}
    /\ ColumnFits(x.table, x.column, r)

\* Of the scope asked for, or consolidated if there is that, and with no number of
\* the report that its rank leaves beside it saying otherwise.
Uncontested(x, r) ==
    /\ IF r.scope # None THEN x.table.scope = r.scope
       ELSE (\E y \in StatementCells(r) : y.table.scope = "consolidated")
                => x.table.scope = "consolidated"
    /\ \A y \in {z \in StatementCells(r) : z.table.scope = x.table.scope} :
        /\ y.table.statement = "IS" => x.table.statement = "IS"
        /\ y.table.statement = x.table.statement =>
                /\ y.table.rows[y.row].values[y.column] = x.table.rows[x.row].values[x.column]
                /\ y.table.scale = x.table.scale

\* A response that the checker calls sufficient is an answer to the request and to
\* nothing else, whatever the index, the dense service and the planner of the lookup
\* found: searched text is of the company, filing, days and version asked for; a fact
\* is of the account, company, scope and period asked for and read from text of its
\* own filing in an admitted version; a lineage is the whole chain of the filing, in
\* the order of filing, from its one original to the version in force; and the number
\* of a statement is the account's, of the newest report in force, with no statement
\* of its rank saying otherwise.  (What a header says of its column is believed.)
ToolEvidenceSufficient ==
    response.status = "sufficient" =>
        LET b == response.bundle
            d == response.data
            tool == request.tool
            stated == tool = "build_summary_context" /\ FromStatement(request)
        IN  /\ b.ids # {}
            /\ (tool = "search_disclosures" \/ (tool = "build_summary_context" /\ ~stated))
                    => \A id \in b.items : TextOf(id, request)
            /\ tool = "get_financial_facts" => \A i \in DOMAIN d.facts : FactOf(d.facts[i], request, b)
            /\ tool = "get_correction_lineage" => Unbroken(d, request)
            /\ tool = "analyze_disclosure_trend" => NewestShown(request, b)
            /\ stated => \A x \in d.cell :
                    Uncontested(x, request) /\ \E n \in b.filings : ReadFrom(x, request, n)
=============================================================================
