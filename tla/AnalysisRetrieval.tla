---------------------------- MODULE AnalysisRetrieval ----------------------------
(***************************************************************************)
(* A judgment of the bounded analysis: search_analysis of                  *)
(* src/src/disclosure_db/evidence_service.py fills the slots of a plan one *)
(* after the other, through the text search or through search itself, and  *)
(* BoundedAnalysisExecutor (bounded_analysis.py) decides whether that is   *)
(* enough.  A retrieved item is stamped with the issuer it was asked for,  *)
(* so the code's own check of the issuer compares the stamp.               *)
(***************************************************************************)
EXTENDS EvidenceRetrieval, AnalysisPlanning

CONSTANTS
    Judgments,          \* the questions
    Accounts,           \* the resolution of a slot's concept
    MaxSlotEvidence,    \* 8 in the code
    MaxTotalEvidence    \* 20 in the code

VARIABLES
    analysis,   \* the plan of the analysis
    results,    \* the slots filled so far: [refs, facts, complete]
    concepts,   \* what is left to search for in the slot in hand
    found,      \* what the slot's searches found
    rows,       \* and their facts
    verdict     \* what the executor returns

analysisVars == <<retrievalVars, analysis, results, concepts, found, rows, verdict>>

SlotRows ==
    [id : STRING, domain : {"financial", "event", "text"}, concepts : Seq(STRING), least : Nat,
     most : Nat, mandatory : BOOLEAN, issuer : STRING, start : Nat, end : Nat, instant : Nat,
     periods : Nat, reports : SUBSET STRING]

\* Of the catalog and the questions: slots have numbers of items and periods, and a
\* question names finitely many periods.
JudgmentsSound ==
    /\ MaxTotalEvidence \in Nat /\ IsFiniteSet(DOMAIN Evidence)
    /\ \A q \in Judgments : /\ PeriodsSound(q)
                            /\ AnalysisOf(q).slots \in Seq(SlotRows) /\ AnalysisOf(q).most \in Nat

NoAnalysis == AnalysisOf(CHOOSE q \in Judgments : TRUE)
NoVerdict == [complete |-> FALSE, evidence |-> {}, slots |-> <<>>]

-----------------------------------------------------------------------------
(* The slots                                                                *)

Slot == analysis.slots[Len(results) + 1]

Least2(a, b) == IF a < b THEN a ELSE b

SlotLimit == Least2(Slot.most, MaxSlotEvidence)
TotalLimit == Least2(IF analysis.most = 0 THEN MaxTotalEvidence ELSE analysis.most, MaxTotalEvidence)

IssuerOf(slot) == IF slot.issuer = None THEN analysis.base.company ELSE slot.issuer

ConceptsOf(slot) == IF slot.domain = "financial" THEN slot.concepts ELSE <<None>>

Admitted == UNION {results[i].refs : i \in DOMAIN results}

\* The limit of one search: the slot's evidence shared among its concepts.
QueryLimit ==
    LET n == Len(ConceptsOf(Slot))
    IN  Least2(Max({Slot.periods, (SlotLimit + n - 1) \div n}), MaxSlotEvidence)

\* The lookup of one concept in _search_structured_slot; one that names no account is
\* looked for in the labels of the facts.
SlotPlan(concept) ==
    LET account == IF Slot.domain = "financial" THEN Accounts[concept] ELSE Accounts[None]
    IN  [analysis.base EXCEPT
            !.company = IssuerOf(Slot), !.operation = "lookup", !.type = "unknown", !.reasons = {},
            !.period = [start |-> Slot.start, end |-> Slot.end, instant |-> Slot.instant,
                        filing |-> analysis.base.period.filing],
            !.statement = IF Slot.domain = "financial" THEN None ELSE @,
            !.domain = IF Slot.domain = "event" THEN "event"
                       ELSE IF account.support = "retrieval_only" THEN "text"
                       ELSE IF account.support = "derived" THEN "financial_derived"
                       ELSE IF account.status \in {"ambiguous", "unsupported"} THEN "none"
                       ELSE "financial",
            !.account = account, !.label = concept, !.latest = Max({@, Slot.periods}), !.targets = {}, !.terms = {},
            !.title = FALSE, !.reporter = FALSE, !.empty = FALSE, !.limit = QueryLimit]

\* _search_text_slot: the period of the slot bounds the days of the filings.
SlotQuery ==
    [company |-> IssuerOf(Slot), policy |-> analysis.base.policy, asOf |-> analysis.base.asOf,
     filing |-> AnyFiling, filed |-> analysis.base.period.filing, since |-> Slot.start, until |-> Slot.end]

\* _matches_slot_report
OfReport(id) == Slot.reports = {} \/ FilingOf(Evidence[id].filing).kind \in Slot.reports

\* What a slot admits, and of that, by fuse_slot_results, any of the best, as many as
\* the limit lets in.
Fused(ids, limit) ==
    LET fit == {id \in ids : /\ TextAdmitted(id) /\ Safe(VersionOf(Evidence[id].filing))
                             /\ OfReport(id)}
    IN  {kept \in SUBSET fit : Cardinality(kept) = Least2(limit, Cardinality(fit))}

\* Faulty variant of Bounded: the limit of the analysis is left to the end.
BoundedAtTheEnd(kept) == {kept}

\* What of it fits into the evidence of the whole analysis; what an earlier slot
\* admitted already costs nothing.
Bounded(kept) ==
    {ids \in SUBSET kept :
        /\ kept \cap Admitted \subseteq ids
        /\ Cardinality(Admitted \cup ids) <= TotalLimit
        /\ ids # kept => Cardinality(Admitted \cup ids) = TotalLimit}

FactsWith(all, ids) ==
    {f \in {[g EXCEPT !.evidence = @ \cap ids] : g \in all} : f.evidence # {}}

PeriodOf(f) == <<f.start, f.end, f.instant>>

\* Enough periods of one account.
PeriodsComplete(slot, all) ==
    (slot.domain = "financial" /\ slot.periods > 1) =>
        \E f \in all : f.account # None /\ Cardinality({PeriodOf(g) : g \in {h \in all : h.account = f.account}}) >= slot.periods

CloseSlot(candidates, all) ==
    \E kept \in Fused(candidates, SlotLimit) : \E ids \in Bounded(kept) :
        LET shown == FactsWith(all, ids)
        IN  results' = Append(results,
                [refs |-> ids, facts |-> shown,
                 complete |-> Cardinality(ids) >= Slot.least /\ PeriodsComplete(Slot, shown)])

-----------------------------------------------------------------------------
(* search_analysis                                                          *)

\* A request begins without a plan of a search.
JudgeInit ==
    /\ setting \in Settings
    /\ pc = "idle" /\ refs = {} /\ facts = <<>> /\ cache = <<>> /\ bundle = NoBundle
    /\ analysis = NoAnalysis /\ results = <<>> /\ concepts = <<>> /\ found = {} /\ rows = {}
    /\ verdict = NoVerdict

\* execute: a lookup is for the tools, a prohibited question has no evidence, and
\* every mandatory slot needs an issuer.
Judge(q) ==
    LET a == AnalysisOf(q)
        refused == \/ a.mode # "judgment"
                   \/ \E i \in DOMAIN a.slots : a.slots[i].mandatory /\ a.slots[i].issuer = None
                   \/ a.transaction
    IN  /\ pc = "idle" /\ DimensionsValid
        /\ analysis' = a
        /\ pc' = IF refused THEN "judged" ELSE "slots"
        /\ verdict' = NoVerdict
        /\ UNCHANGED <<setting, plan, refs, facts, cache, bundle, results, concepts, found, rows>>

\* The corpus is not the attested one any more.
AnalysisIdentityLost ==
    /\ pc = "slots" /\ results = <<>>
    /\ pc' = "judged"
    /\ UNCHANGED <<setting, plan, refs, facts, cache, bundle, analysis, results, concepts, found, rows, verdict>>

\* An unreadable index, or one of another corpus, leaves the slot empty.
FillTextSlot ==
    /\ pc = "slots" /\ Len(results) < Len(analysis.slots) /\ Slot.domain = "text"
    /\ IF setting.index # "valid" \/ IssuerOf(Slot) = None
       THEN CloseSlot({}, {}) /\ cache' = cache
       ELSE /\ \E sparse \in SUBSET HydrateAs(IndexRows(SlotQuery), SlotQuery.policy, SlotQuery.asOf) :
                \E dense \in IF setting.dense THEN {DenseRefs(hits, SlotQuery) : hits \in SUBSET Hits}
                                              ELSE {{}} :
                    CloseSlot(sparse \cup dense, {})
            /\ cache' = IF setting.dense THEN Remembered(SlotQuery) ELSE cache
    /\ UNCHANGED <<setting, plan, pc, refs, facts, bundle, analysis, concepts, found, rows, verdict>>

BeginStructuredSlot ==
    /\ pc = "slots" /\ Len(results) < Len(analysis.slots) /\ Slot.domain # "text"
    /\ concepts' = ConceptsOf(Slot)
    /\ pc' = "concept" /\ found' = {} /\ rows' = {}
    /\ UNCHANGED <<setting, plan, refs, facts, cache, bundle, analysis, results, verdict>>

BeginConcept ==
    /\ pc = "concept" /\ concepts # <<>>
    /\ plan' = SlotPlan(Head(concepts))
    /\ pc' = "search" /\ refs' = {} /\ facts' = <<>> /\ bundle' = NoBundle
    /\ UNCHANGED <<setting, cache, analysis, results, concepts, found, rows, verdict>>

SearchConcept ==
    /\ concepts # <<>> /\ Search
    /\ UNCHANGED <<analysis, results, concepts, found, rows, verdict>>

\* Whatever search found is taken, answerable or not; of a fact its first copy.
TakeConcept ==
    /\ pc = "bundle"
    /\ found' = found \cup bundle.evidence
    /\ rows' = rows \cup {f \in {bundle.facts[i] : i \in DOMAIN bundle.facts} :
                            \A g \in rows : g.id # f.id}
    /\ concepts' = Tail(concepts)
    /\ pc' = "concept"
    /\ UNCHANGED <<setting, plan, refs, facts, cache, bundle, analysis, results, verdict>>

FillStructuredSlot ==
    /\ pc = "concept" /\ concepts = <<>>
    /\ CloseSlot(found, rows)
    /\ pc' = "slots" /\ found' = {} /\ rows' = {}
    /\ UNCHANGED <<setting, plan, refs, facts, cache, bundle, analysis, concepts, verdict>>

-----------------------------------------------------------------------------
(* The executor                                                             *)

AllFacts == UNION {results[i].facts : i \in DOMAIN results}

\* _fact_in_slot; the date of an event is its start, end and instant.
FactInSlot(f, slot) ==
    IF slot.instant # NoDate THEN f.instant = slot.instant
    ELSE /\ slot.start # NoDate => f.start # NoDate /\ f.start >= slot.start
         /\ slot.end # NoDate => DateOf(f) # NoDate /\ DateOf(f) <= slot.end
         /\ DateOf(f) # NoDate

DayInSlot(day, slot) ==
    IF slot.instant # NoDate THEN day = slot.instant
    ELSE /\ slot.start # NoDate => day >= slot.start
         /\ slot.end # NoDate => day <= slot.end

\* _period_owned: by the facts read from it, or else by the day of its filing.
PeriodOwned(id, slot, all) ==
    LET related == {f \in all : id \in f.evidence}
    IN  \/ slot.start = NoDate /\ slot.end = NoDate /\ slot.instant = NoDate
        \/ related # {} /\ \A f \in related : FactInSlot(f, slot)
        \/ related = {} /\ DayInSlot(FilingOf(Evidence[id].filing).filed, slot)

\* An item of the wrong issuer or period is dropped and its slot incomplete.
Owned(i, all) ==
    {id \in results[i].refs :
        analysis.slots[i].issuer # None /\ PeriodOwned(id, analysis.slots[i], all)}

Executed(kept) ==
    LET all == FactsWith(AllFacts, kept)
        slot(i) == [refs |-> Owned(i, all),
                    complete |-> /\ results[i].complete /\ Owned(i, all) = results[i].refs
                                 /\ Cardinality(Owned(i, all)) >= analysis.slots[i].least]
        slots == [i \in DOMAIN results |-> slot(i)]
    IN  [complete |-> \A i \in DOMAIN results : analysis.slots[i].mandatory => slots[i].complete,
         evidence |-> UNION {slots[i].refs : i \in DOMAIN slots},
         slots |-> slots]

Execute ==
    /\ pc = "slots" /\ Len(results) = Len(analysis.slots)
    /\ \E kept \in SUBSET Admitted :
        /\ Cardinality(kept) = Least2(TotalLimit, Cardinality(Admitted))
        /\ verdict' = Executed(kept)
    /\ pc' = "judged"
    /\ UNCHANGED <<setting, plan, refs, facts, cache, bundle, analysis, results, concepts, found, rows>>

JudgeNext ==
    \/ \E q \in Judgments : Judge(q)
    \/ AnalysisIdentityLost \/ FillTextSlot \/ BeginStructuredSlot
    \/ BeginConcept \/ SearchConcept \/ TakeConcept \/ FillStructuredSlot \/ Execute

JudgeSpec == JudgeInit /\ [][JudgeNext]_analysisVars

-----------------------------------------------------------------------------
(* Properties                                                               *)

\* A judgment is given only on enough evidence, and the evidence it shows is that:
\* every mandatory slot has the items it needs among the evidence returned, within
\* the limit of the whole analysis; each is text of the issuer the slot is about,
\* of a version the policy admits and without text that looks like an instruction;
\* and a slot that compares periods has that many periods of one account, read from
\* evidence that is shown.
AnalysisComplete ==
    verdict.complete =>
        /\ Cardinality(verdict.evidence) <= TotalLimit
        /\ \A i \in DOMAIN analysis.slots :
            LET slot == analysis.slots[i]
                shown == verdict.slots[i].refs \cap verdict.evidence
            IN  slot.mandatory =>
                /\ Cardinality(shown) >= slot.least
                /\ \A id \in shown :
                    /\ Evidence[id].ok /\ TextAdmitted(id)
                    /\ OfCompany(Evidence[id].filing, slot.issuer)
                    /\ AdmitsAs("hydrate", Evidence[id].filing, analysis.base.policy, analysis.base.asOf)
                /\ (slot.domain = "financial" /\ slot.periods > 1) =>
                    \E account \in {f.account : f \in AllFacts} :
                        Cardinality({PeriodOf(f) : f \in {g \in FinancialRows :
                            g.account = account /\ g.evidence \cap shown # {}}}) >= slot.periods

\* The slot for the original disclosure is filled with originals that were corrected.
OriginalsAreOriginal ==
    verdict.complete =>
        \A i \in DOMAIN analysis.slots : analysis.slots[i].id = "original_disclosure" =>
            \A id \in verdict.slots[i].refs :
                LET v == VersionOf(Evidence[id].filing) IN v.status = "root" /\ ~v.current
=============================================================================
