------------------------------ MODULE QueryPlanning ------------------------------
(***************************************************************************)
(* plan_query (src/src/disclosure_db/query_planner.py): what the agent     *)
(* looks up for a question, decided before any model is called.            *)
(*                                                                         *)
(* A question is [company, asOf, years, date, more, account, words,        *)
(* threshold, top]: the company found in it or given, the cut-off of the   *)
(* request, the years it names, its first date and the further ones, each  *)
(* [date, month], the resolution of its account and the marker words it    *)
(* holds.  A date is a number: year y runs from 10 * y to 10 * y + 9, and  *)
(* a date without a day is its month, the three days up to it.             *)
(***************************************************************************)
EXTENDS Lineage, Integers, FiniteSetsExt, SequencesExt

CONSTANT MaxEvidence    \* of one search, 8 in the code

None == "none"
NoTime == 0

YearStart(y) == 10 * y
YearEnd(y) == 10 * y + 9
YearOf(d) == d \div 10

Arithmetic == {"growth_rate", "difference", "ratio", "sum"}
CorpusWide == {"count_above", "list_above", "rank"}

Has(q, word) == word \in q.words

\* A question names finitely many years and dates.
PeriodsSound(q) == IsFiniteSet(q.years) /\ q.more \in Seq([date : Nat, month : BOOLEAN])

Structured(q) == q.account.support = "structured"

\* Corpus-wide questions need a structured account; the first word that fits wins.
Operation(q) ==
    LET above == Structured(q) /\ q.threshold # NoTime /\ Has(q, "universe")
    IN  IF Structured(q) /\ q.company = None /\ Has(q, "universe") /\ Has(q, "rank") THEN "rank"
        ELSE IF above /\ Has(q, "count") THEN "count_above"
        ELSE IF above /\ Has(q, "list") THEN "list_above"
        ELSE IF q.account.support = "derived" /\ q.account.operation # None THEN q.account.operation
        ELSE IF Has(q, "growth") THEN "growth_rate"
        ELSE IF Has(q, "difference") THEN "difference"
        ELSE IF Has(q, "ratio") THEN "ratio"
        ELSE IF Has(q, "sum") THEN "sum"
        ELSE "lookup"

Policy(q) ==
    IF Has(q, "first") /\ Has(q, "corrected") /\ Has(q, "each") THEN "both"
    ELSE IF Has(q, "corrected") THEN "corrected"
    ELSE IF Has(q, "first") THEN "original"
    ELSE "current"

Numeric(q) == Operation(q) # "lookup" \/ q.account.status # "unknown"

QuestionType(q) ==
    IF Has(q, "injection") THEN "adversarial"
    ELSE IF Has(q, "forecast") THEN "out_of_scope"
    ELSE IF ~Numeric(q) /\ ~Has(q, "amount") THEN "text"
    ELSE IF Has(q, "event") THEN "event_numeric"
    ELSE "numeric"

UnknownAccount(q) == q.account.status = "unknown" /\ Has(q, "account")

\* A derived account can be answered only as the growth of its one source.
Domain(q) ==
    IF \/ QuestionType(q) \in {"adversarial", "out_of_scope"} \/ UnknownAccount(q)
       \/ q.account.status \in {"ambiguous", "unsupported"}
    THEN "none"
    ELSE IF Structured(q) THEN "financial"
    ELSE IF q.account.support = "retrieval_only" THEN "text"
    ELSE IF q.account.support = "derived"
    THEN (IF Operation(q) = "growth_rate" /\ Cardinality(q.account.required) = 1
          THEN "financial" ELSE "financial_derived")
    ELSE IF Has(q, "event") THEN "event"
    ELSE "text"

\* The one period of the search.  A date closes a duration of an income statement
\* and is the instant of a balance sheet; without an account it is a filing date.
\* Several years leave the first.
Period(q) ==
    LET s == q.account.statement
        period == [start |-> NoTime, end |-> NoTime, instant |-> NoTime, filing |-> NoTime]
    IN  CASE q.date # NoTime /\ Has(q, "month") ->
                [period EXCEPT !.start = q.date - 2, !.end = q.date]
          [] q.date # NoTime /\ ~Has(q, "month") /\ s \in {"IS", "CF"} ->
                [period EXCEPT !.start = YearStart(YearOf(q.date)), !.end = q.date]
          [] q.date # NoTime /\ ~Has(q, "month") /\ s = "BS" -> [period EXCEPT !.instant = q.date]
          [] q.date # NoTime /\ ~Has(q, "month") /\ s = None -> [period EXCEPT !.filing = q.date]
          [] q.date # NoTime /\ ~Has(q, "month") /\ s \notin {None, "IS", "CF", "BS"} ->
                [period EXCEPT !.instant = q.date]
          [] q.date = NoTime /\ q.years # {} ->
                [period EXCEPT !.start = YearStart(Min(q.years)), !.end = YearEnd(Min(q.years))]
          [] OTHER -> period

\* The period that one of several dates stands for.
DatePeriod(q, d) ==
    CASE d.month -> [start |-> d.date - 2, end |-> d.date, instant |-> NoTime]
      [] ~d.month /\ q.account.statement = "BS" -> [start |-> NoTime, end |-> NoTime, instant |-> d.date]
      [] OTHER -> [start |-> YearStart(YearOf(d.date)), end |-> d.date, instant |-> NoTime]

YearPeriod(y) == [start |-> YearStart(y), end |-> YearEnd(y), instant |-> NoTime]

\* Every period asked for: the dates, when there are several, the years, or the one
\* period of the search.
TargetPeriods(q) ==
    LET dates == <<[date |-> q.date, month |-> Has(q, "month")]>> \o q.more
        years == Ordered(q.years, <)
        p == Period(q)
        one == [start |-> p.start, end |-> p.end, instant |-> p.instant]
    IN  IF q.more # <<>> THEN [i \in DOMAIN dates |-> DatePeriod(q, dates[i])]
        ELSE IF Cardinality(q.years) > 1 /\ q.date = NoTime
        THEN [i \in DOMAIN years |-> YearPeriod(years[i])]
        ELSE IF one.start = NoTime /\ one.end = NoTime /\ one.instant = NoTime THEN <<>> ELSE <<one>>

\* The years of them, which no search reads.
TargetYears(q) ==
    {YearOf(IF p.instant # NoTime THEN p.instant ELSE p.end) :
        p \in {TargetPeriods(q)[i] : i \in DOMAIN TargetPeriods(q)}}

LatestPeriodCount(q) ==
    Max({IF Has(q, "three_years") THEN 3 ELSE 1, Len(TargetPeriods(q)),
         IF Operation(q) = "growth_rate" THEN 2 ELSE 1})

Reasons(q) ==
    (IF UnknownAccount(q) THEN {"financial_account_unknown"} ELSE {})
        \cup (IF q.company = None /\ Operation(q) \notin CorpusWide
              THEN {"company_unresolved"} ELSE {})

Scope(q) == IF Has(q, "consolidated") THEN "consolidated"
            ELSE IF Has(q, "separate") THEN "separate" ELSE None

PlanOf(q) ==
    [company |-> q.company, asOf |-> q.asOf, period |-> Period(q), targets |-> TargetYears(q),
     operation |-> Operation(q), scope |-> Scope(q), statement |-> q.account.statement,
     policy |-> Policy(q), type |-> QuestionType(q), domain |-> Domain(q),
     account |-> q.account, label |-> None, reasons |-> Reasons(q), latest |-> LatestPeriodCount(q),
     threshold |-> q.threshold, inclusive |-> Has(q, "at_least"), top |-> q.top,
     terms |-> q.words \cap {"approved", "completed"}, title |-> Has(q, "title"),
     reporter |-> Has(q, "reporter"), asksNumber |-> q.words \cap {"amount", "growth", "ratio"} # {},
     empty |-> Has(q, "only_the_company"), limit |-> MaxEvidence]
=============================================================================
