---------------------------- MODULE EvidenceRetrieval ----------------------------
(***************************************************************************)
(* EvidenceService.search (src/src/disclosure_db/evidence_service.py): the *)
(* evidence of one planned question, out of an immutable corpus, an overlay *)
(* of facts, a sparse index, a remote dense service and a remote reranker. *)
(*                                                                         *)
(* An evidence id stands for its fragment or cell, item(id): [filing,      *)
(* format, ok, images, injected, cell, title, reporter, terms].  The order *)
(* of a ranking is left out: a search returns any of the rows it may       *)
(* return, and a provider any ids.  The corpus does not change while the   *)
(* service runs; what a replaced corpus would do is the identity check.    *)
(***************************************************************************)
EXTENDS EvidencePolicy, QueryPlanning, Sequences, SequencesExt

CONSTANTS
    Filings,        \* by filing id: its names, issuer, date, correction and version
    Evidence,       \* the items, by evidence id
    FinancialRows,  \* the validated facts of the overlay
    EventRows,      \* its event facts
    Hits,           \* what a dense service may return: [filing, ids]
    Settings,       \* [overlay, index, dense, reranker, eligible]
    MaxDense        \* 20000 in the code

VARIABLES
    setting,        \* how the service is configured, and what it finds
    plan,           \* the plan of the question in hand
    pc,             \* what search does next
    refs,           \* the evidence found so far
    facts,          \* the facts found so far, in order
    cache,          \* _dense_filing_cache
    bundle          \* what search returns

retrievalVars == <<setting, plan, pc, refs, facts, cache, bundle>>

FactRows ==
    [id : Nat, filing : DOMAIN Filings, account : STRING, label : STRING, statement : STRING,
     unit : STRING, scope : STRING, kind : STRING, start : Nat, end : Nat, instant : Nat, value : Int, scale : Nat,
     evidence : SUBSET DOMAIN Evidence]

\* Of a corpus and its overlay: an item is of a filing, the import gives each fact an
\* id of its own, and takes evidence of the fact's own filing only.
CorpusSound ==
    /\ IsFiniteSet(DOMAIN Filings)
    /\ \A n \in DOMAIN Filings : n \in Nat /\ Filings[n].correction \in BOOLEAN
                                         /\ Filings[n].version.from \in Nat
    /\ \A id \in DOMAIN Evidence : Evidence[id].filing \in DOMAIN Filings
    /\ \A table \in {FinancialRows, EventRows} :
        /\ IsFiniteSet(table) /\ table \subseteq FactRows
        /\ \A f, g \in table : f.id = g.id => f = g
        /\ \A f \in table : \A id \in f.evidence : Evidence[id].filing = f.filing

FilingOf(n) == Filings[n]
VersionOf(n) == Filings[n].version
OfCompany(n, company) == company = None \/ company \in FilingOf(n).names

AdmitsAs(reader, n, policy, asOf) ==
    AdmittedBy(reader, VersionOf(n), FilingOf(n).correction, policy, asOf)

Admits(reader, n) == AdmitsAs(reader, n, plan.policy, plan.asOf)

NoCalculation == [value |-> 0, evidence |-> {}, operands |-> {}]
NoBundle == [evidence |-> {}, answerable |-> FALSE, facts |-> <<>>, calculation |-> NoCalculation,
             listed |-> {}]
Computed(b) == b.calculation.operands # {}

StructuredDomain == plan.domain \in {"financial", "event"}

\* evidence_text_is_admitted
TextAdmitted(id) == ~Evidence[id].injected

-----------------------------------------------------------------------------
(* The readers                                                              *)

\* _hydrate_ids
HydrateAs(ids, policy, asOf) ==
    {id \in ids \cap DOMAIN Evidence :
        /\ Evidence[id].ok
        /\ AdmitsAs("hydrate", Evidence[id].filing, policy, asOf)
        /\ Evidence[id].format # "pdf"
        /\ TextAdmitted(id)}

Hydrate(ids) == HydrateAs(ids, plan.policy, plan.asOf)

\* _fragment_refs
FragmentRefs(ids) ==
    {id \in ids : Evidence[id].format # "pdf" /\ Evidence[id].images = 0 /\ TextAdmitted(id)}

FiledAsAsked(n) == plan.period.filing # NoDate => FilingOf(n).filed = plan.period.filing

AnyFiling == 0

\* A text search: the company, the versions, the filing and the days of filing.
TextQuery == [company |-> plan.company, policy |-> plan.policy, asOf |-> plan.asOf,
              filing |-> AnyFiling, filed |-> plan.period.filing, since |-> NoDate, until |-> NoDate]

Filed(n, t) ==
    LET day == FilingOf(n).filed
    IN  /\ t.filing # AnyFiling => n = t.filing
        /\ t.filed # NoDate => day = t.filed
        /\ t.since # NoDate => day >= t.since
        /\ t.until # NoDate => day <= t.until

Asked(n, t, reader) ==
    OfCompany(n, t.company) /\ Filed(n, t) /\ AdmitsAs(reader, n, t.policy, t.asOf)

\* SafeSearchIndex.search: the rows of the index that the filters leave.
IndexRows(t) ==
    {id \in DOMAIN Evidence :
        /\ Evidence[id].ok /\ Evidence[id].format # "pdf" /\ Evidence[id].images = 0
        /\ Asked(Evidence[id].filing, t, "index")}

\* Faulty variant of CorpusRows: the fall-back search forgets the policy.
CorpusRowsOfAnyPolicy ==
    {id \in DOMAIN Evidence :
        /\ Evidence[id].ok /\ ~Evidence[id].cell
        /\ OfCompany(Evidence[id].filing, plan.company)
        /\ FiledAsAsked(Evidence[id].filing)
        /\ Safe(VersionOf(Evidence[id].filing))}

\* query_database on the corpus itself: cells are not fragments.
CorpusRows ==
    {id \in DOMAIN Evidence :
        /\ Evidence[id].ok /\ ~Evidence[id].cell
        /\ OfCompany(Evidence[id].filing, plan.company)
        /\ FiledAsAsked(Evidence[id].filing)
        /\ Admits("serving", Evidence[id].filing)}

\* _dense_filings: cached for the life of the service; too many count as none.
DenseFilings(t) ==
    IF t \in DOMAIN cache THEN cache[t]
    ELSE LET allowed == {n \in DOMAIN Filings : Asked(n, t, "dense")}
         IN  IF Cardinality(allowed) > MaxDense THEN {} ELSE allowed

Remembered(t) == [k \in DOMAIN cache \cup {t} |-> IF k = t THEN DenseFilings(t) ELSE cache[k]]

\* _search_dense: hits of filings that were not allowed are dropped, and so is
\* evidence that a hit of another filing claims.
DenseRefs(hits, t) ==
    LET allowed == {h \in hits : h.filing \in DenseFilings(t)}
        claims(id) == {h.filing : h \in {g \in allowed : id \in g.ids}}
    IN  {id \in HydrateAs(UNION {h.ids : h \in allowed}, t.policy, t.asOf) :
            /\ Evidence[id].filing \in DenseFilings(t)
            /\ claims(id) = {Evidence[id].filing}
            /\ t.filed # NoDate => FilingOf(Evidence[id].filing).filed = t.filed}

\* The rows of a list that pass a test, in their order.
Kept(rows, Test(_)) ==
    LET places == Ordered({i \in DOMAIN rows : Test(rows[i])}, <)
    IN  [k \in DOMAIN places |-> rows[places[k]]]

\* _hydrate_facts: a fact stays with the part of its evidence that hydrates.
HydrateFacts(rows, policy, asOf) ==
    Kept([i \in DOMAIN rows |-> [rows[i] EXCEPT !.evidence = HydrateAs(@, policy, asOf)]],
         LAMBDA f : f.evidence # {})

EvidenceOf(rows) == UNION {rows[i].evidence : i \in DOMAIN rows}

\* _facts_with_final_evidence
WithFinalEvidence(rows, ids) ==
    Kept([i \in DOMAIN rows |-> [rows[i] EXCEPT !.evidence = @ \cap ids]],
         LAMBDA f : f.evidence # {})

-----------------------------------------------------------------------------
(* The overlay                                                              *)

DateOf(fact) == IF fact.end # NoDate THEN fact.end ELSE fact.instant

\* ORDER BY: the latest period first, consolidated before separate.
ScopeRank(fact) ==
    CASE fact.scope = "consolidated" -> 0 [] fact.scope = "separate" -> 1 [] OTHER -> 2

FactOrder(a, b) ==
    \/ DateOf(a) > DateOf(b)
    \/ DateOf(a) = DateOf(b) /\ ScopeRank(a) < ScopeRank(b)
    \/ DateOf(a) = DateOf(b) /\ ScopeRank(a) = ScopeRank(b) /\ a.id < b.id

Take(s, n) == SubSeq(s, 1, IF Len(s) < n THEN Len(s) ELSE n)

AccountRows(account) == {f \in FinancialRows : f.account = account}

\* fetch_overlay_facts, of the rows whose account fits; a bound on the period end
\* leaves out instants.
OverlayFacts(named, company, policy, asOf, scope, period, upTo, limit) ==
    Take(Ordered({f \in named :
            /\ AdmitsAs("overlay", f.filing, policy, asOf)
            /\ OfCompany(f.filing, company)
            /\ scope # None => f.scope = scope
            /\ period.start # NoDate => f.start = period.start
            /\ period.end # NoDate => f.end = period.end
            /\ period.instant # NoDate => f.instant = period.instant
            /\ upTo # NoDate => f.end # NoDate /\ f.end <= upTo
            /\ \E id \in f.evidence : Evidence[id].ok /\ Evidence[id].format # "pdf"}, FactOrder), limit)

\* What search asks of it: the account a derived one is computed from, the rows of a
\* label when no account was resolved, and for a calculation everything up to the end
\* of the period.
PlannedFacts ==
    LET account == IF plan.account.support = "derived" /\ Cardinality(plan.account.required) = 1
                   THEN CHOOSE a \in plan.account.required : TRUE ELSE plan.account.id
        named == IF account = None /\ plan.label # None
                 THEN {f \in FinancialRows : f.label = plan.label} ELSE AccountRows(account)
        upTo == IF plan.operation \in Arithmetic THEN plan.period.end ELSE NoDate
        instant == CASE plan.period.instant # NoDate -> plan.period.instant
                     [] plan.period.instant = NoDate /\ plan.statement = "BS" /\ upTo = NoDate
                            -> plan.period.end
                     [] OTHER -> NoDate
        exact == upTo = NoDate /\ instant = NoDate
        pair == IF plan.operation \in {"growth_rate", "difference", "ratio"} THEN 2 ELSE 1
    IN  OverlayFacts(named, plan.company, plan.policy, plan.asOf, plan.scope,
                     [start |-> IF exact THEN plan.period.start ELSE NoDate,
                      end |-> IF exact THEN plan.period.end ELSE NoDate,
                      instant |-> instant],
                     upTo, Max({plan.latest, pair}))

\* fetch_event_facts; asked for both versions, the longest chain of one event.
EventFacts ==
    LET rows == {f \in EventRows : /\ Admits("event", f.filing)
                                   /\ OfCompany(f.filing, plan.company)}
        chain(f) == {g \in rows : VersionOf(g.filing).event = VersionOf(f.filing).event}
        longest == {f \in rows : \A g \in rows : Cardinality(chain(g)) <= Cardinality(chain(f))}
        selected == CHOOSE f \in longest : \A g \in longest : g.id >= f.id
    IN  IF plan.policy = "both" /\ \E f \in rows : Cardinality(chain(f)) > 1
        THEN Ordered(chain(selected), LAMBDA a, b :
                VersionOf(a.filing).from < VersionOf(b.filing).from
                    \/ (VersionOf(a.filing).from = VersionOf(b.filing).from /\ a.filing < b.filing)
                    \/ (a.filing = b.filing /\ a.id < b.id))
        ELSE Ordered(rows, LAMBDA a, b : a.id < b.id)

-----------------------------------------------------------------------------
(* search                                                                   *)

Return(b) == bundle' = b /\ pc' = "bundle" /\ refs' = {} /\ facts' = <<>>

Nothing == Return(NoBundle)

Refused ==
    \/ plan.account.status \in {"ambiguous", "unsupported"}
    \/ "financial_account_unknown" \in plan.reasons
    \/ plan.domain = "financial_derived"
    \/ /\ plan.account.support = "derived"
       /\ ~(plan.operation = "growth_rate" /\ Cardinality(plan.account.required) = 1)

\* _base_identity_valid fails when the file is not the attested one any more, and
\* without an attestation for the overlay or the index.
IdentityLost ==
    /\ pc = "search" /\ Nothing
    /\ UNCHANGED <<setting, plan, cache>>

Refuse ==
    /\ pc = "search" /\ plan.operation \notin CorpusWide /\ Refused /\ Nothing
    /\ UNCHANGED <<setting, plan, cache>>

OverlayServes == setting.overlay = "attested"

\* Structured facts come first, with the cells they were read from.
SearchFacts ==
    /\ pc = "search" /\ plan.operation \notin CorpusWide /\ ~Refused
    /\ facts' = HydrateFacts(CASE ~OverlayServes -> <<>>
                               [] OverlayServes /\ plan.domain = "financial" -> PlannedFacts
                               [] OverlayServes /\ plan.domain = "event" -> EventFacts
                               [] OTHER -> <<>>, plan.policy, plan.asOf)
    /\ refs' = EvidenceOf(facts')
    /\ pc' = IF StructuredDomain /\ refs' # {} THEN "titles" ELSE "texts"
    /\ UNCHANGED <<setting, plan, cache, bundle>>

\* A valid index is authoritative, even when it finds nothing.  Text questions are
\* searched densely too: with every failure of the service an empty ranking.
SearchIndexed ==
    /\ pc = "texts" /\ setting.index = "valid"
    /\ IF plan.empty THEN refs' = refs /\ cache' = cache
       ELSE \E sparse \in SUBSET FragmentRefs(IndexRows(TextQuery)) :
                IF StructuredDomain \/ ~setting.dense
                THEN refs' = refs \cup sparse /\ cache' = cache
                ELSE /\ \E dense \in {DenseRefs(hits, TextQuery) : hits \in SUBSET Hits} :
                            refs' = refs \cup sparse \cup dense
                     /\ cache' = Remembered(TextQuery)
    /\ pc' = "titles"
    /\ UNCHANGED <<setting, plan, facts, bundle>>

\* No index, an index of another corpus or an unreadable one: the corpus itself.
SearchCorpus ==
    /\ pc = "texts" /\ setting.index # "valid"
    /\ IF plan.empty THEN refs' = refs
       ELSE \E sparse \in SUBSET FragmentRefs(CorpusRows) : refs' = refs \cup sparse
    /\ pc' = "titles"
    /\ UNCHANGED <<setting, plan, facts, cache, bundle>>

\* The cells of a column in the filings of the company on the day asked for.
OfDate(column) ==
    IF plan.company = None \/ plan.period.filing = NoDate THEN {}
    ELSE {id \in DOMAIN Evidence :
            /\ Evidence[id][column] /\ OfCompany(Evidence[id].filing, plan.company)
            /\ FiledAsAsked(Evidence[id].filing)}

\* _title_value_refs
TitleRefs == IF plan.title THEN Hydrate(OfDate("title")) ELSE {}

\* _reporter_value_refs: one cell only.
ReporterRefs(one) == IF plan.reporter /\ one \in Hydrate(OfDate("reporter")) THEN {one} ELSE {}

AddTitles ==
    /\ pc = "titles"
    /\ \E one \in DOMAIN Evidence :
        /\ plan.reporter => \/ ReporterRefs(one) # {}
                            \/ Hydrate(OfDate("reporter")) = {}
        /\ refs' = {id \in refs \cup TitleRefs \cup ReporterRefs(one) :
                        Safe(VersionOf(Evidence[id].filing)) /\ TextAdmitted(id)}
    /\ pc' = "cut"
    /\ UNCHANGED <<setting, plan, facts, cache, bundle>>

\* The reranker puts any known ids first; what it leaves out of a text question is
\* lost.  Structured evidence stays in the order of the facts.  Facts keep the
\* evidence that is left; the rest decides answerable.
Cut ==
    /\ pc = "cut"
    /\ \E final \in SUBSET refs :
        LET rows == WithFinalEvidence(facts, final)
        IN  /\ Cardinality(final) <= plan.limit
            /\ IF setting.reranker /\ ~StructuredDomain
               THEN refs # {} => final # {}
               ELSE /\ Cardinality(final) = Min({plan.limit, Cardinality(refs)})
                    /\ \A i, j \in DOMAIN facts :
                        (i < j /\ facts[j].evidence \cap final # {}) => facts[i].evidence \subseteq final
            /\ Return([evidence |-> final, facts |-> rows, calculation |-> NoCalculation, listed |-> {},
                       answerable |->
                            /\ final # {}
                            /\ plan.type \notin {"adversarial", "out_of_scope"}
                            /\ StructuredDomain => rows # <<>>
                            /\ plan.company # None
                            /\ \A t \in plan.terms : \E id \in final : t \in Evidence[id].terms])
    /\ UNCHANGED <<setting, plan, cache>>

-----------------------------------------------------------------------------
(* _search_corpus_financial                                                 *)

Companies == {Filings[n].issuer : n \in DOMAIN Filings}

Amount(fact) == fact.value * fact.scale

\* The newest fact of each company in the current version, whatever policy and date
\* the question has.
LatestFacts ==
    LET rows == OverlayFacts(AccountRows(plan.account.id), None, "current", NoDate, None,
                             [start |-> NoDate, end |-> NoDate, instant |-> NoDate], NoDate,
                             3 * Cardinality(Companies))
    IN  Kept(rows, LAMBDA f : \A i \in DOMAIN rows :
            (FilingOf(rows[i].filing).issuer = FilingOf(f.filing).issuer /\ rows[i] # f)
                => FactOrder(f, rows[i]))

Above(fact) ==
    \/ plan.threshold = NoTime
    \/ Amount(fact) > plan.threshold
    \/ plan.inclusive /\ Amount(fact) = plan.threshold

\* In descending order, whatever end of the ranking was asked for.
Listed(rows) ==
    LET matches == Ordered({rows[i] : i \in {j \in DOMAIN rows : Above(rows[j])}},
                                LAMBDA a, b : Amount(a) > Amount(b)
                                    \/ (Amount(a) = Amount(b) /\ a.id < b.id))
    IN  IF plan.operation = "rank" THEN Take(matches, plan.top) ELSE matches

SearchCorpusFinancial ==
    /\ pc = "search" /\ plan.operation \in CorpusWide
    /\ LET rows == HydrateFacts(LatestFacts, "current", NoDate)
           served == /\ OverlayServes /\ plan.account.id # None
                     /\ plan.operation # "rank" => plan.threshold # NoTime
                     /\ setting.eligible
                     /\ Len(rows) = Cardinality(Companies)
       IN  IF served
           THEN Return([evidence |-> EvidenceOf(rows), answerable |-> TRUE, facts |-> rows,
                        listed |-> {[company |-> FilingOf(f.filing).issuer, value |-> f.value] :
                                        f \in {Listed(rows)[i] : i \in DOMAIN Listed(rows)}},
                        calculation |->
                            IF plan.operation # "count_above" THEN NoCalculation
                            ELSE [value |-> Len(Listed(rows)), evidence |-> EvidenceOf(rows),
                                  operands |-> {Amount(rows[i]) : i \in DOMAIN rows}]])
           ELSE Nothing
    /\ UNCHANGED <<setting, plan, cache>>

Search ==
    \/ IdentityLost \/ Refuse \/ SearchFacts \/ SearchIndexed \/ SearchCorpus
    \/ AddTitles \/ Cut \/ SearchCorpusFinancial

-----------------------------------------------------------------------------
(* Properties                                                               *)

\* Every fact of a bundle is shown with evidence of the bundle.
FactsShown ==
    pc = "bundle" => \A i \in DOMAIN bundle.facts :
        bundle.facts[i].evidence # {} /\ bundle.facts[i].evidence \subseteq bundle.evidence

\* Whatever the index, the dense service and the reranker return, and through
\* whichever reader it came: the evidence of a bundle is text of the company, of a
\* version that the policy and the date of the question admit, without text that
\* looks like an instruction; of a text question, filed on the day it names; and the
\* facts of the bundle are shown with it.  (A question about all companies is
\* answered from the current versions.)
EvidenceAdmissible ==
    /\ FactsShown
    /\ (pc = "bundle" /\ plan.operation \notin CorpusWide) =>
        \A id \in bundle.evidence :
            /\ id \in DOMAIN Evidence /\ Evidence[id].ok /\ ~Evidence[id].injected
            /\ Evidence[id].format # "pdf"
            /\ OfCompany(Evidence[id].filing, plan.company)
            /\ Admits("hydrate", Evidence[id].filing)
            /\ ~StructuredDomain => FiledAsAsked(Evidence[id].filing)
=============================================================================
