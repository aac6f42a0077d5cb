------------------------------- MODULE AgentAnswer -------------------------------
(***************************************************************************)
(* DisclosureAgent.answer (src/src/disclosure_db/agent.py): a question is  *)
(* planned, its evidence retrieved, a calculation attached, an answer      *)
(* drafted by HyperCLOVA X or the deterministic generator, and verified    *)
(* before it is shown (answer_verifier.py).                                *)
(*                                                                         *)
(* The provider may draft anything of the right shape.  Numbers are        *)
(* integers; the accounts of the model make every quotient exact.          *)
(***************************************************************************)
EXTENDS EvidenceRetrieval

CONSTANTS Questions, MaxQuestions

VARIABLES
    question,       \* the question in hand
    draft,          \* the generator's answer
    answer,         \* the verified answer, or Pending
    asked           \* how many questions the service has had

agentVars == <<retrievalVars, question, draft, answer, asked>>

\* A question names finitely many years and dates.
QuestionsSound ==
    \A q \in Questions : PeriodsSound(q)

\* What the import of the overlay checks: the evidence of a fact was read, its scope
\* is one of three, and of an issuer, an account, a period and a scope there is one
\* fact.  And of the filings with facts: no two issuers have a name in common.
OverlaySound ==
    /\ \A f \in FinancialRows :
        /\ f.scope \in {"consolidated", "separate", "unknown"}
        /\ f.evidence # {} /\ \A id \in f.evidence : Evidence[id].ok /\ Evidence[id].format # "pdf"
    /\ \A f, g \in FinancialRows :
        LET issuer(h) == FilingOf(h.filing).issuer
        IN  /\ FilingOf(f.filing).names \cap FilingOf(g.filing).names # {} => issuer(f) = issuer(g)
            /\ (/\ issuer(f) = issuer(g) /\ f.account = g.account
                /\ f.scope = g.scope /\ DateOf(f) = DateOf(g)) => f = g

Pending == [verified |-> FALSE, citations |-> {}, numbers |-> {}, reason |-> "pending"]
Abstained(why) == [Pending EXCEPT !.reason = why]

Abstention == [citations |-> {}, numbers |-> {}, answerable |-> FALSE, clean |-> TRUE]

-----------------------------------------------------------------------------
(* calculate                                                                *)

\* Operands are the older and the newer value; a sum takes them all.
Calculable(operation, values) ==
    CASE operation = "sum" -> values # <<>>
      [] operation = "difference" -> Len(values) = 2
      [] operation \in {"ratio", "growth_rate"} -> Len(values) = 2 /\ values[1] # 0
      [] OTHER -> FALSE

Calculated(operation, values) ==
    CASE operation = "sum" -> SumFunction(values)
      [] operation = "difference" -> values[2] - values[1]
      [] operation = "ratio" -> values[2] \div values[1]
      [] operation = "growth_rate" -> ((values[2] - values[1]) * 100) \div values[1]

\* _attach_calculation: the facts of the grain of the first one, the last two of
\* them unless it is a sum.  The scale of a value is no part of the grain.
Grain(fact) == <<fact.label, fact.statement, fact.scope, fact.kind>>

Operands(rows, operation) ==
    LET places == Ordered({i \in DOMAIN rows : Grain(rows[i]) = Grain(rows[1])},
                          LAMBDA i, j : \/ DateOf(rows[i]) < DateOf(rows[j])
                                        \/ DateOf(rows[i]) = DateOf(rows[j]) /\ i < j)
        same == [k \in DOMAIN places |-> rows[places[k]]]
    IN  IF operation = "sum" \/ Len(same) < 2 THEN same
        ELSE SubSeq(same, Len(same) - 1, Len(same))

Attached(b, operation) ==
    LET operands == Operands(b.facts, operation)
        values == [i \in DOMAIN operands |-> operands[i].value]
    IN  IF \/ Computed(b) \/ operation \notin Arithmetic
           \/ Len(b.facts) < 2 \/ plan.domain # "financial" \/ ~Calculable(operation, values)
        THEN b
        ELSE [b EXCEPT !.calculation = [value |-> Calculated(operation, values),
                                        evidence |-> EvidenceOf(operands),
                                        operands |-> {operands[i] : i \in DOMAIN operands}]]

-----------------------------------------------------------------------------
(* The generators                                                           *)

Values(rows) == {rows[i].value : i \in DOMAIN rows}

\* _claim_citation_ids and DeterministicGenerator.generate
Deterministic(b) ==
    LET cited == CASE Computed(b) -> {b.calculation.evidence}
                   [] ~Computed(b) /\ b.facts # <<>> -> {EvidenceOf(b.facts)}
                   [] OTHER -> {{id} : id \in b.evidence}
        numbers == CASE plan.operation \in {"list_above", "rank"} -> {l.value : l \in b.listed}
                     [] plan.operation \notin {"list_above", "rank"} /\ Computed(b)
                            -> {b.calculation.value}
                     [] OTHER -> Values(b.facts)
    IN  IF ~b.answerable \/ b.evidence = {} THEN {Abstention}
        ELSE {IF StructuredDomain /\ c \cap b.evidence = {} THEN Abstention
              ELSE [citations |-> c \cap b.evidence, numbers |-> numbers, answerable |-> TRUE,
                    clean |-> TRUE] : c \in cited}

\* Numbers the provider may write: those of the bundle and one of its own.
Known(b) == Values(b.facts) \cup (IF ~Computed(b) THEN {} ELSE {b.calculation.value})
Invented == 999

\* HyperClovaGenerator.generate: a JSON object of the schema, whatever it says; or
\* no usable answer, and then facts have a deterministic answer and text has none.
Generated(b) ==
    IF ~b.answerable \/ b.evidence = {} THEN Deterministic(b)
    ELSE [citations : SUBSET (b.evidence \cup {"unknown"}), answerable : {TRUE}, clean : {TRUE},
          numbers : {n \in SUBSET (Known(b) \cup {Invented}) : Cardinality(n) <= 2}]
         \cup {Abstention, [Abstention EXCEPT !.citations = b.evidence],
               [citations |-> b.evidence, numbers |-> Known(b), answerable |-> TRUE, clean |-> FALSE]}
         \cup (IF b.facts # <<>> \/ Computed(b) THEN Deterministic(b) ELSE {})

-----------------------------------------------------------------------------
(* verify_answer                                                            *)

Trusted(b) == Known(b)

\* Faulty variant of Required: one cited fact is enough.
RequiredOfFirst(b) == IF b.facts # <<>> THEN b.facts[1].evidence ELSE {}

\* The evidence a structured answer must cite: that of the calculation, or of
\* every fact.
Required(b) == IF Computed(b) THEN b.calculation.evidence ELSE EvidenceOf(b.facts)

Verified(b, d) ==
    /\ d.answerable /\ b.answerable /\ d.clean
    /\ d.citations # {} /\ d.citations \subseteq b.evidence
    /\ b.facts # <<>> => /\ \A i \in DOMAIN b.facts : /\ b.facts[i].evidence # {}
                                                      /\ b.facts[i].evidence \subseteq b.evidence
                         /\ Required(b) \subseteq d.citations
    /\ Computed(b) => /\ b.calculation.evidence \subseteq d.citations
                               /\ \A n \in d.numbers : n = b.calculation.value
    /\ d.numbers \subseteq Trusted(b)
    /\ \A t \in plan.terms : \E id \in b.evidence : t \in Evidence[id].terms
    /\ plan.asksNumber => d.numbers # {}

-----------------------------------------------------------------------------
(* answer                                                                   *)

NoPlan == PlanOf(CHOOSE q \in Questions : TRUE)

AgentInit ==
    /\ setting \in Settings
    /\ plan = NoPlan /\ question = NoPlan
    /\ pc = "idle" /\ refs = {} /\ facts = <<>> /\ cache = <<>>
    /\ bundle = NoBundle /\ draft = Abstention /\ answer = Pending /\ asked = 0

\* A question that looks like an instruction, that is asked of a replaced corpus,
\* or whose account is not certain is not searched for.
Ask(q) ==
    /\ pc = "idle" /\ asked < MaxQuestions
    /\ question' = q /\ plan' = PlanOf(q) /\ asked' = asked + 1
    /\ IF \/ Has(q, "injection")
          \/ q.account.status \in {"ambiguous", "unsupported"} \/ UnknownAccount(q)
          \/ Domain(q) = "financial_derived"
       THEN pc' = "done" /\ answer' = Abstained("not_searched")
       ELSE pc' = "search" /\ answer' = Pending
    /\ refs' = {} /\ facts' = <<>> /\ bundle' = NoBundle /\ draft' = Abstention
    /\ UNCHANGED <<setting, cache>>

Retrieve == Search /\ UNCHANGED <<question, draft, answer, asked>>

\* A question that asks for a calculation needs one.
AttachCalculation ==
    /\ pc = "bundle"
    /\ LET b == Attached(bundle, plan.operation)
       IN  bundle' = IF plan.operation \in Arithmetic /\ ~Computed(b)
                     THEN [b EXCEPT !.answerable = FALSE] ELSE b
    /\ pc' = "generate"
    /\ UNCHANGED <<setting, plan, refs, facts, cache, question, draft, answer, asked>>

Generate ==
    /\ pc = "generate"
    /\ draft' \in IF plan.operation \in CorpusWide THEN Deterministic(bundle) ELSE Generated(bundle)
    /\ pc' = "verify"
    /\ UNCHANGED <<setting, plan, refs, facts, cache, bundle, question, answer, asked>>

Verify ==
    /\ pc = "verify"
    /\ answer' = IF Verified(bundle, draft)
                 THEN [verified |-> TRUE, citations |-> draft.citations,
                       numbers |-> draft.numbers, reason |-> "verified"]
                 ELSE Abstained("not_verified")
    /\ pc' = "done"
    /\ UNCHANGED <<setting, plan, refs, facts, cache, bundle, question, draft, asked>>

\* The service lives on; of the question only the cached filings stay.
NextQuestion ==
    /\ pc = "done"
    /\ pc' = "idle" /\ answer' = Pending /\ bundle' = NoBundle /\ draft' = Abstention
    /\ refs' = {} /\ facts' = <<>> /\ plan' = NoPlan /\ question' = NoPlan
    /\ UNCHANGED <<setting, cache, asked>>

AgentNext ==
    \/ \E q \in Questions : Ask(q)
    \/ Retrieve \/ AttachCalculation \/ Generate \/ Verify \/ NextQuestion

AgentSpec == AgentInit /\ [][AgentNext]_agentVars

-----------------------------------------------------------------------------
(* Properties                                                               *)

\* The number of companies whose newest fact of the account, in the version in force,
\* is above the threshold in one unit; and no company has none.
CountIsExact(count) ==
    LET rows(c) == {f \in FinancialRows : /\ f.account = plan.account.id
                                          /\ FilingOf(f.filing).issuer = c
                                          /\ Effective(VersionOf(f.filing), NoDate)}
        newest(c) == {f \in rows(c) : \A g \in rows(c) : DateOf(g) <= DateOf(f)}
        best(c) == {f \in newest(c) : \A g \in newest(c) : ScopeRank(f) <= ScopeRank(g)}
    IN  /\ \A c \in Companies : newest(c) # {}
        /\ count = Cardinality({c \in Companies : \E f \in best(c) : Above(f)})

\* A count that is shown is exact.
CountsExact ==
    (answer.verified /\ plan.operation = "count_above") => CountIsExact(bundle.calculation.value)

\* Whatever the provider writes: a number of a verified answer is the value of a
\* fact all the evidence of which is cited, or the result of a calculation from two
\* or more facts of one account, statement and scope of the company asked about,
\* each of another period and each cited; a count misses no company.
NumbersCited ==
    /\ CountsExact
    /\ answer.verified =>
        \A n \in answer.numbers :
            \/ \E i \in DOMAIN bundle.facts :
                    bundle.facts[i].value = n /\ bundle.facts[i].evidence \subseteq answer.citations
            \/ /\ plan.operation \in Arithmetic /\ bundle.calculation.value = n
               /\ LET operands == bundle.calculation.operands
                  IN  /\ Cardinality(operands) >= 2
                      /\ \A f, g \in operands :
                            /\ f.evidence \subseteq answer.citations
                            /\ OfCompany(f.filing, plan.company)
                            /\ f.account = g.account /\ f.scope = g.scope
                            /\ f # g => DateOf(f) # DateOf(g)
            \/ plan.operation = "count_above" /\ bundle.calculation.value = n

\* Every year a question names takes part in the answer.
AskedPeriodsUsed ==
    (answer.verified /\ plan.operation \in Arithmetic \cup {"lookup"} /\ plan.domain = "financial") =>
        plan.targets \subseteq {YearOf(DateOf(f)) : f \in
            IF plan.operation \in Arithmetic THEN bundle.calculation.operands
            ELSE {bundle.facts[i] : i \in DOMAIN bundle.facts}}
=============================================================================
