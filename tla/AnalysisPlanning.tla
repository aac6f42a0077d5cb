----------------------------- MODULE AnalysisPlanning -----------------------------
(***************************************************************************)
(* plan_analysis (src/src/disclosure_db/analysis_planner.py): whether a    *)
(* question may be judged at all, on which dimension, and which evidence   *)
(* each issuer and each period it names must have.                         *)
(*                                                                         *)
(* The question is that of QueryPlanning with its issuers, in the order of *)
(* the text.  A dimension of the catalog is [id, all, any, slots, most]; a *)
(* slot is [id, domain, concepts, periods, least, most, mandatory,         *)
(* reports]: the last are the kinds of report it takes, {} for any.        *)
(***************************************************************************)
EXTENDS QueryPlanning

CONSTANT Dimensions     \* config/analysis_dimensions.json, in its order

Distinct(s) == \A i, j \in DOMAIN s : s[i] = s[j] => i = j

\* load_dimension_catalog
DimensionsValid ==
    LET slots == FlattenSeq([i \in DOMAIN Dimensions |-> Dimensions[i].slots])
    IN  /\ Distinct([i \in DOMAIN Dimensions |-> Dimensions[i].id])
        /\ \A i \in DOMAIN Dimensions :
            Dimensions[i].all \cup Dimensions[i].any # {} /\ Dimensions[i].slots # <<>>
        /\ Distinct([i \in DOMAIN slots |-> slots[i].id])
        /\ \A i \in DOMAIN slots :
            /\ slots[i].domain \in {"financial", "event", "text"}
            /\ 0 <= slots[i].least /\ slots[i].least <= slots[i].most /\ slots[i].periods > 0

\* A transaction that the question only mentions, as the text of a disclosure.
AsksTransaction(q) == Has(q, "transaction") /\ ~Has(q, "quoted")

\* classify_policy, in order of precedence.
PolicyAction(q) ==
    CASE AsksTransaction(q) \/ Has(q, "recommendation") -> "refuse_recommendation"
      [] ~AsksTransaction(q) /\ ~Has(q, "recommendation") /\ Has(q, "injection")
            -> "refuse_prompt_injection"
      [] ~AsksTransaction(q) /\ q.words \cap {"recommendation", "injection"} = {}
            /\ Has(q, "forecast") /\ ~Has(q, "historical") -> "refuse_forecast"
      [] OTHER -> IF Has(q, "analysis") THEN "allow_analysis" ELSE "allow_lookup"

\* _matches_dimension
Matches(d, q) == (d.all # {} /\ d.all \subseteq q.words) \/ d.any \cap q.words # {}

\* What the question is judged on: corrections before anything else.
MatchingDimensions(q) ==
    LET fitting == SelectSeq(Dimensions, LAMBDA d : Matches(d, q))
    IN  SelectSeq(fitting, LAMBDA d : d.id = "correction_materiality") \o fitting

Mode(q) ==
    CASE PolicyAction(q) \in {"refuse_recommendation", "refuse_prompt_injection", "refuse_forecast"}
            -> "prohibited"
      [] PolicyAction(q) = "allow_analysis" /\ MatchingDimensions(q) # <<>> -> "judgment"
      [] OTHER -> "lookup"

\* _explicit_issuers
Issuers(q) == IF q.issuers = <<>> THEN <<q.company>> ELSE q.issuers

\* Several target periods are so many periods; otherwise there is the plan's.
Periods(q) ==
    LET targets == TargetPeriods(q)
        period(p, own) == [start |-> p.start, end |-> p.end, instant |-> p.instant, own |-> own]
    IN  IF Len(targets) > 1 THEN [i \in DOMAIN targets |-> period(targets[i], TRUE)]
        ELSE <<period(Period(q), FALSE)>>

\* _make_slot: a slot of one of several periods needs that period only.
MakeSlot(s, issuer, period) ==
    [id |-> s.id, domain |-> s.domain, concepts |-> s.concepts, least |-> s.least, most |-> s.most,
     mandatory |-> s.mandatory, reports |-> s.reports, issuer |-> issuer, start |-> period.start, end |-> period.end,
     instant |-> period.instant, periods |-> IF period.own THEN 1 ELSE s.periods]

SlotsOf(d, q) ==
    FlattenSeq([i \in DOMAIN Issuers(q) |-> FlattenSeq([p \in DOMAIN Periods(q) |->
        [k \in DOMAIN d.slots |-> MakeSlot(d.slots[k], Issuers(q)[i], Periods(q)[p])]])])

\* plan_analysis
AnalysisOf(q) ==
    LET d == MatchingDimensions(q)[1]
    IN  IF Mode(q) = "judgment"
        THEN [mode |-> "judgment", dimension |-> d.id, slots |-> SlotsOf(d, q), most |-> d.most,
              base |-> PlanOf(q), transaction |-> Has(q, "transaction")]
        ELSE [mode |-> Mode(q), dimension |-> None, slots |-> <<>>, most |-> 0,
              base |-> PlanOf(q), transaction |-> Has(q, "transaction")]
=============================================================================
