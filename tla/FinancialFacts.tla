---------------------------- MODULE FinancialFacts ----------------------------
(***************************************************************************)
(* How annual statement tables become the financial facts of the overlay   *)
(* (src/src/disclosure_db/financial_universe.py, financial_extraction.py,  *)
(* financial_validation.py and the admission in financial_overlay.py).     *)
(*                                                                         *)
(* A table is [id, filing, ok, pdf, section, unit, caption, headers, rows] *)
(* with headers a Seq of [kind, n], one per value column ("term" 53,       *)
(* "year" 2025 or "none"), and rows a Seq of [labels, raw, values]: what   *)
(* its label cells name and a value or Blank for each column.              *)
(* A report is [filing, company, year, filed, no, status, current]: a      *)
(* current annual report.  A database is [reports, companies, tables].     *)
(***************************************************************************)
EXTENDS Integers, FiniteSets, FiniteSetsExt, SequencesExt

Blank == 999
Accounts == {"revenue", "net_income"}
Periods(year) == {year, year - 1, year - 2}

-----------------------------------------------------------------------------
(* build_financial_universe                                                 *)

Newer(a, b) == a.year > b.year \/ (a.year = b.year /\ a.filed > b.filed)
                \/ (a.year = b.year /\ a.filed = b.filed /\ a.no > b.no)

\* The newest current report decides: an unsafe one is not replaced by an older.
Selected(db) ==
    {r \in db.reports : /\ \A q \in db.reports : q.company = r.company => q = r \/ Newer(r, q)
                        /\ r.status \in {"root", "resolved"} /\ r.year # 0}

-----------------------------------------------------------------------------
(* extract_table_candidates                                                 *)

ScopeOf == [consolidated_statements |-> "consolidated", statements |-> "separate"]
PriorityOf == [BS |-> 0, IS |-> 0, CIS |-> 1]

\* classify_statement_table
Statement(t) ==
    t.ok /\ t.section \in DOMAIN ScopeOf /\ t.unit # 0 /\ t.caption \in DOMAIN PriorityOf

\* _header_years: terms count from the latest term of the table, years are read.
HeaderYears(t, year) ==
    LET terms == {c \in DOMAIN t.headers : t.headers[c].kind = "term"}
        latest == Max({t.headers[c].n : c \in terms})
    IN  IF terms # {} THEN [c \in terms |-> year - (latest - t.headers[c].n)]
        ELSE [c \in {c \in DOMAIN t.headers : t.headers[c].kind = "year"} |-> t.headers[c].n]

\* _net_income_attribution_values: a row left blank is the sum of the owners' and
\* the minority's row below it.
Attributed(t, r, c) ==
    LET below(k) == t.rows[r + k]
    IN  IF /\ \A d \in DOMAIN HeaderYears(t, 0) : t.rows[r].values[d] = Blank
           /\ r + 2 <= Len(t.rows) /\ below(1).labels = <<"owners">> /\ below(2).labels = <<"minority">>
           /\ below(1).values[c] # Blank /\ below(2).values[c] # Blank
        THEN below(1).values[c] + below(2).values[c] ELSE Blank

Value(t, r, account, c) ==
    IF t.rows[r].values[c] = Blank /\ account = "net_income"
    THEN Attributed(t, r, c) ELSE t.rows[r].values[c]

\* A value of a row as a fact; years says which year a column is of.
FactIn(t, years, r, c, account) ==
    [table |-> t.id, filing |-> t.filing, row |-> r, column |-> c, account |-> account,
     raw |-> t.rows[r].raw, year |-> years[c], value |-> Value(t, r, account, c),
     unit |-> t.unit, scope |-> ScopeOf[t.section], priority |-> PriorityOf[t.caption]]

\* The facts of a table; a row with two account labels is ambiguous.
Extract(t, year) ==
    IF ~Statement(t) THEN {}
    ELSE LET years == HeaderYears(t, year)
         IN  {FactIn(t, years, x[1], x[2], x[3]) :
                 x \in {y \in (DOMAIN t.rows) \X (DOMAIN years) \X Accounts :
                         /\ SelectSeq(t.rows[y[1]].labels, LAMBDA l : l \in Accounts) = <<y[3]>>
                         /\ years[y[2]] \in Periods(year)
                         /\ Value(t, y[1], y[3], y[2]) # Blank}}

-----------------------------------------------------------------------------
(* resolve_filing_candidates and apply_review_decisions                      *)

\* Consolidated statements when the filing has any, and of the statements of a
\* grain those of the best kind.
Preferred(tables, facts) ==
    LET scopes == {ScopeOf[t.section] : t \in {x \in tables : Statement(x)}}
        scope == IF "consolidated" \in scopes THEN "consolidated" ELSE "separate"
        Rivals(f) == {g \in facts : g.scope = scope /\ g.account = f.account /\ g.year = f.year}
    IN  {f \in facts : f.scope = scope /\ \A g \in Rivals(f) : f.priority <= g.priority}

SameGrain(f, facts) ==
    {g \in facts : g.filing = f.filing /\ g.account = f.account /\ g.year = f.year}

\* Facts alone in their grain are admitted; of duplicates with one value the
\* reviewed label is, when it names exactly one.
Admitted(facts, decisions) ==
    {f \in facts :
        LET group == SameGrain(f, facts)
            named == {g \in group : [filing |-> g.filing, account |-> g.account, raw |-> g.raw] \in decisions}
        IN  \/ group = {f}
            \/ Cardinality({g.value : g \in group}) = 1 /\ named = {f}}

\* extract_financial_candidate_corpus and the decisions on its rejects.
Candidates(db, decisions) ==
    UNION {LET tables == {t \in db.tables : t.filing = r.filing}
           IN  Admitted(Preferred(tables, UNION {Extract(t, r.year) : t \in tables}), decisions) :
               r \in Selected(db)}

-----------------------------------------------------------------------------
(* validate_financial_candidates                                            *)

\* Faulty variant of SameCore: the candidate is trusted.
CandidateTrusted(db, candidate) == \E t \in db.tables : t.id = candidate.table

\* The candidate is what the extraction finds in the table of today's database.
SameCore(db, candidate) ==
    \E t \in db.tables, r \in Selected(db) :
        t.id = candidate.table /\ r.filing = t.filing /\ candidate \in Extract(t, r.year)

\* _seed_row, for the candidates that pass and are alone in their grain.
Seed(db, candidates) ==
    LET valid == {c \in candidates :
                    /\ \E r \in Selected(db) : r.filing = c.filing /\ r.current
                    /\ SameCore(db, c)
                    /\ \A t \in db.tables : t.id = c.table => t.ok /\ ~t.pdf}
        Company(c) == (CHOOSE r \in Selected(db) : r.filing = c.filing).company
        Grain(c) == <<Company(c), c.account, c.year, c.scope>>
    IN  {[company |-> Company(c), fact |-> c] :
            c \in {x \in valid : \A y \in valid : Grain(x) = Grain(y) => x = y}}

\* _coverage: per account, the companies with the latest year and with all three,
\* and the names of those that miss one.
Coverage(db, seed) ==
    [a \in Accounts |->
        LET Years(r) == {s.fact.year : s \in {x \in seed : x.company = r.company /\ x.fact.account = a}}
            three == {r \in Selected(db) : Periods(r.year) \subseteq Years(r)}
        IN  [expected |-> Cardinality(db.companies),
             latest |-> Cardinality({r \in Selected(db) : r.year \in Years(r)}),
             three |-> Cardinality(three),
             missing |-> db.companies \ {r.company : r \in three}]]

-----------------------------------------------------------------------------
(* _load_financial_seed and _load_financial_coverage                         *)

\* The recount of the import: any year of a company counts as its latest.
Recount(db, seed) ==
    [a \in Accounts |->
        LET Years(company) == {s.fact.year : s \in {x \in seed : x.company = company /\ x.fact.account = a}}
            some == {c \in db.companies : Years(c) # {}}
        IN  [latest |-> Cardinality(some),
             three |-> Cardinality({c \in db.companies : Cardinality(Years(c)) >= 3})]]

Importable(db, seed, coverage) ==
    \A a \in Accounts :
        LET recount == Recount(db, seed)[a]
        IN  /\ coverage[a].latest = recount.latest
            /\ coverage[a].three = recount.three
            /\ Cardinality(coverage[a].missing) = Cardinality(db.companies) - recount.latest

-----------------------------------------------------------------------------
(* Event facts: _validate_event_candidate and build_agent_overlay            *)

\* A candidate is [id, filing, predicate, kind, form, value, unit, linked, cells]:
\* form says whether the value is one number or several joined, linked are the
\* cells it cites and cells those of their tables.  A cell is [id, table, row, data,
\* label, headed, number, value]: label says that its text names the predicate,
\* headed that a heading of it does; a table is [id, filing, ok, pdf, unit], and a
\* unit may be missing ("") or unclear.
Composite(candidate) == candidate.kind = "numeric" /\ candidate.form = "joined"

\* _resolve_numeric_event_cell: the one number in the rows of the cells it cites,
\* under the predicate's name or in tables that have it somewhere.
CellFor(candidate) ==
    LET rows == {<<c.table, c.row>> : c \in candidate.linked}
        numbers == {c \in candidate.cells :
                       /\ c.data /\ c.number /\ <<c.table, c.row>> \in rows
                       /\ c.headed \/ \E x \in candidate.cells : x.label}
    IN  IF Cardinality(numbers) = 1 THEN numbers ELSE {}

\* Of a joined value without a unit, the only one that its tables state.
EventUnit(candidate) ==
    LET units == {c.table.unit : c \in candidate.cells} \ {""}
    IN  IF ~Composite(candidate) \/ candidate.unit # "" THEN candidate.unit
        ELSE IF Cardinality(units) = 1 THEN CHOOSE u \in units : TRUE ELSE "unclear"

EventAdmitted(candidate, safe) ==
    /\ candidate.linked # {}
    /\ \A c \in candidate.linked : c.table.filing = candidate.filing /\ c.table.ok /\ ~c.table.pdf
    /\ candidate.filing \in safe
    /\ candidate.kind = "numeric" =>
        /\ candidate.form = "number" \/ (Composite(candidate) /\ CellFor(candidate) # {})
        /\ EventUnit(candidate) \notin {"", "unclear"}

\* The cells a value is read from: the one number; the cited cells with the very
\* text, or else the only one that is no label.  There may be none.
EventCells(candidate) ==
    LET data == {c \in candidate.linked : c.data}
        exact == {c \in data : c.value = candidate.value}
        values == {c \in data : ~c.label}
    IN  CASE Composite(candidate) -> CellFor(candidate)
          [] candidate.kind = "text" /\ exact # {} -> exact
          [] candidate.kind = "text" /\ exact = {} /\ Cardinality(values) = 1 -> values
          [] OTHER -> {}

EventEvidence(candidate) ==
    IF EventCells(candidate) # {} THEN EventCells(candidate) ELSE candidate.linked

EventValue(candidate) ==
    IF EventCells(candidate) # {} THEN (CHOOSE c \in EventCells(candidate) : TRUE).value
    ELSE candidate.value

\* Two values, or units, of one predicate in one filing are a conflict: none is kept.
EventFacts(candidates, safe) ==
    LET good == {c \in candidates : EventAdmitted(c, safe)}
        Rivals(c) == {d \in good : d.filing = c.filing /\ d.predicate = c.predicate}
        Says(c) == <<EventValue(c), EventUnit(c)>>
    IN  {[id |-> c.id, filing |-> c.filing, predicate |-> c.predicate, says |-> Says(c),
          evidence |-> EventEvidence(c)] :
            c \in {x \in good : Cardinality({Says(d) : d \in Rivals(x)}) = 1}}

-----------------------------------------------------------------------------
(* Properties                                                               *)

\* What the schema and the parsers give: a filing has one report, with an integer
\* for its year (0 when unknown), and tables have finitely many rows and columns.
DatabaseValid(db) ==
    /\ IsFiniteSet(db.companies) /\ IsFiniteSet(db.tables)
    /\ \A r \in db.reports : r.year \in Int
    /\ \A q, r \in db.reports : q.filing = r.filing => q = r
    /\ \A t \in db.tables : IsFiniteSet(DOMAIN t.headers) /\ IsFiniteSet(DOMAIN t.rows)

\* A fact of the seed stands in the database it was validated against, whichever
\* database its candidate came from: in the newest annual report of its company,
\* which is safe; and when it is the same database, no cell of the filing's best
\* statement disagrees with it.
ImportSound(db, older, decisions) ==
    \A s \in Seed(db, Candidates(older, decisions)) :
        \E r \in db.reports :
            /\ r.company = s.company /\ r.filing = s.fact.filing
            /\ r.status \in {"root", "resolved"}
            /\ \A q \in db.reports : q.company = r.company => q.year <= r.year
            /\ s.fact.year \in Periods(r.year)
            /\ LET tables == {t \in db.tables : t.filing = r.filing}
                   facts == UNION {Extract(t, r.year) : t \in tables}
               IN  /\ s.fact \in facts
                   /\ (older = db) => \A f \in SameGrain(s.fact, Preferred(tables, facts)) :
                        f.value = s.fact.value

\* A coverage table that the import accepts names as missing exactly the companies
\* of which the seed has nothing for the account.
CoverageSound(db, seed) ==
    Importable(db, seed, Coverage(db, seed)) =>
        \A a \in Accounts :
            Coverage(db, seed)[a].missing =
                {c \in db.companies : \A s \in seed : s.company = c => s.fact.account # a}

\* An event fact is supported by parsed cells of its own safe filing, also when its
\* number is read from a cell that was not cited, and a filing says one value in one
\* unit of a predicate.
EventsSound(candidates, safe) ==
    LET facts == EventFacts(candidates, safe)
    IN  \A e \in facts :
            /\ e.filing \in safe /\ e.evidence # {}
            /\ \A c \in e.evidence : c.table.filing = e.filing /\ c.table.ok /\ ~c.table.pdf
            /\ \A f \in facts :
                f.filing = e.filing /\ f.predicate = e.predicate => f.says = e.says
=============================================================================
