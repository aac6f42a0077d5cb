--------------------------- MODULE MCCorpusBuild ---------------------------
(***************************************************************************)
(* The corpus and what is derived from it, for TLC.  part says which       *)
(* behaviour is followed: the database with its migrated copy, the search  *)
(* index and the overlay; the chunk files; the files of the dense service; *)
(* or one sample, an input of the pure algorithms.                         *)
(***************************************************************************)
EXTENDS SearchIndex, CorpusSamples, ChunkBuild, DenseArtifacts

-----------------------------------------------------------------------------
(* Corpora: a report and its correction, an event with two corrections of   *)
(* the same day, a correction of two candidates, a wrong number of files.   *)

File(format, role) == [format |-> format, role |-> role, text |-> "long", images |-> 0,
                       opens |-> TRUE, strict |-> TRUE]
Main == File("dart_xml", "main")

Filing(id, group, key, filed, correction, original, raw) ==
    [id |-> id, issuer |-> "A", group |-> group, key |-> key, filed |-> filed,
     correction |-> correction, original |-> original, files |-> raw,
     declared |-> Cardinality(raw)]

Report == Filing(1, "periodic", "annual", 1, FALSE, 0, {Main})
ReportFixed == Filing(2, "periodic", "annual", 4, TRUE, 1, {[Main EXCEPT !.strict = FALSE]})
Event == Filing(3, "event", "merger", 2, FALSE, 0, {Main, [File("html", "viewer_toc") EXCEPT !.text = "short"]})
EventFixed == Filing(4, "event", "merger", 5, TRUE, 2, {Main})
EventFixedAgain == Filing(5, "event", "merger", 5, TRUE, 2, {File("pdf", "attachment")})
EventTwin == Filing(6, "event", "merger", 2, FALSE, 0, {[Main EXCEPT !.images = 1]})
Broken == Filing(7, "event", "contract", 3, TRUE, 0, {[Main EXCEPT !.opens = FALSE]})
OnlyFixed == Filing(8, "periodic", "half", 3, TRUE, 2, {File("unknown", "main")})
Early == Filing(9, "event", "merger", 1, TRUE, 2, {Main})
Undeclared == [Filing(10, "event", "loan", 3, FALSE, 0, {Main}) EXCEPT !.declared = 2]

Pool == {Report, ReportFixed, Event, EventFixed, EventFixedAgain, EventTwin, Broken, OnlyFixed, Early}

MCCorpora == {{Report, Event, EventFixed, EventFixedAgain},
              {Report, ReportFixed, Event, EventFixed},
              {OnlyFixed, Broken}, {Report, Undeclared}}

-----------------------------------------------------------------------------
(* Chunks: a section of two fragments, one that breaks half-way, a table    *)
(* without room for its header, and one that is empty.                      *)

Unit(tokens, evidence) == [tokens |-> tokens, evidence |-> evidence]
Group(id, prefix, units, breaksAfter) ==
    [id |-> id, prefix |-> prefix, headerEvidence |-> {}, units |-> units, breaksAfter |-> breaksAfter]

ManyGroups == [narrative |-> <<Group(<<"narrative", 1>>, 1, <<Unit(2, {"e1"}), Unit(5, {"e2"})>>, 9),
                           Group(<<"narrative", 2>>, 1, <<Unit(6, {"e3"})>>, 1),
                           Group(<<"narrative", 3>>, 0, <<Unit(1, {"e4"})>>, 9)>>,
           table |-> <<Group(<<"table", 1>>, 4, <<Unit(3, {"e5"})>>, 9),
                       [Group(<<"table", 2>>, 2, <<Unit(1, {"e6"}), Unit(1, {"e7"})>>, 9)
                            EXCEPT !.headerEvidence = {"h"}]>>]
SmallChunks == [target |-> 3, max |-> 4, overlap |-> 1, every |-> 2]

-----------------------------------------------------------------------------
(* Dense releases: the second moves the filings of the vectors and the      *)
(* lines, with the stamp of the first; the third is shorter.                *)

ThreeReleases == <<[filings |-> <<1, 2, 3>>, starts |-> <<0, 4, 8>>, stamp |-> 1],
              [filings |-> <<2, 1, 3>>, starts |-> <<0, 8, 12>>, stamp |-> 1],
              [filings |-> <<1, 3>>, starts |-> <<0, 4>>, stamp |-> 2]>>

-----------------------------------------------------------------------------
(* Samples: sets of filings, cuts, tables and financial databases.          *)

Lineages == [kind : {"lineage"}, filings : {s \in SUBSET Pool : Cardinality(s) <= 4}]

Cuts == [kind : {"cut"},
         config : [target : 1 .. 4, max : {4}, overlap : 0 .. 3],
         prefix : {0, 1, 3, 4}, sizes : {<<>>, <<1>>, <<7>>, <<2, 0, 3>>, <<4, 4>>, <<1, 2, 5>>}]

CellKinds == [rowspan : 1 .. 2, colspan : 1 .. 2]
Single == [rowspan |-> 1, colspan |-> 1]
Rows == {<<c>> : c \in CellKinds} \cup (CellKinds \X CellKinds)
Tables == [kind : {"table"},
           rows : Rows \X Rows \X {<<Single, Single>>, <<Single, [Single EXCEPT !.colspan = 3], Single>>}]

Term(n) == [kind |-> "term", n |-> n]
Year(n) == [kind |-> "year", n |-> n]
Line(labels, raw, values) == [labels |-> labels, raw |-> raw, values |-> values]
StatementOf(id, filing, section, caption, headers, rows) ==
    [id |-> id, filing |-> filing, ok |-> TRUE, pdf |-> FALSE, section |-> section, unit |-> 1,
     caption |-> caption, headers |-> headers, rows |-> rows]
Headers == {<<Term(7), Term(6), Term(5)>>, <<Term(6), Term(7)>>, <<Year(2024), [kind |-> "none", n |-> 0], Year(2023)>>}
Lines(n) == {<<Line(<<"revenue">>, "sales", [c \in 1 .. n |-> 10 + c])>>,
             <<Line(<<"revenue">>, "sales", [c \in 1 .. n |-> 10]), Line(<<"revenue">>, "revenue", [c \in 1 .. n |-> 10 * c])>>,
             <<Line(<<"net_income">>, "net income", [c \in 1 .. n |-> Blank]),
               Line(<<"owners">>, "owners", [c \in 1 .. n |-> 4]), Line(<<"minority">>, "minority", [c \in 1 .. n |-> 1])>>,
             <<Line(<<"revenue", "net_income">>, "both", [c \in 1 .. n |-> 3])>>}
StatementsOf(filing) ==
    UNION {{StatementOf(id, filing, "consolidated_statements", "IS", h, l) :
                l \in Lines(Len(h)), id \in {filing}} : h \in Headers}
Second(filing) == {StatementOf(filing + 10, filing, "consolidated_statements", "CIS",
                             <<Term(7)>>, <<Line(<<"revenue">>, "sales", <<10>>)>>),
                   StatementOf(filing + 10, filing, "statements", "IS",
                             <<Term(7)>>, <<Line(<<"net_income">>, "net income", <<9>>)>>)}
Annual(filing, company, year, filed, status) ==
    [filing |-> filing, company |-> company, year |-> year, filed |-> filed, no |-> filing,
     status |-> status, current |-> TRUE]
Database(tables, status) ==
    [companies |-> {"A", "B"}, tables |-> tables,
     reports |-> {Annual(1, "A", 2024, 3, status), Annual(2, "A", 2023, 2, "root"), Annual(3, "B", 2024, 3, "root")}]

\* The database the facts are validated against, and the one they were extracted
\* from: the same, one whose table has since changed, or one before a correction.
Facts ==
    {[kind |-> "facts", db |-> db, older |-> older, decisions |-> decisions] :
        <<db, older, decisions>> \in
            UNION {LET now == Database({t, u}, status)
                   IN  {now, Database({v, u}, "root")} \X {now} \X {{}, {[filing |-> 1, account |-> "revenue", raw |-> "sales"]}} :
                        t \in StatementsOf(1), u \in Second(1) \cup StatementsOf(3),
                        v \in {StatementOf(1, 1, "consolidated_statements", "IS", <<Term(7), Term(6)>>,
                                         <<Line(<<"revenue">>, "sales", <<5, 11>>)>>)},
                        status \in {"root", "unresolved"}}}

EventTable(id, filing, unit) == [id |-> id, filing |-> filing, ok |-> TRUE, pdf |-> FALSE, unit |-> unit]
Own == EventTable(1, 1, "won")
Other == EventTable(2, 2, "shares")
EventCell(id, table, row, number, value) ==
    [id |-> id, table |-> table, row |-> row, data |-> TRUE, label |-> FALSE,
     headed |-> FALSE, number |-> number, value |-> value]
Named == [EventCell("l", Own, 1, FALSE, 0) EXCEPT !.label = TRUE]
First == EventCell("c", Own, 1, TRUE, 5)
Another == EventCell("d", Own, 2, TRUE, 6)
Words == EventCell("e", Own, 2, FALSE, 8)
Foreign == EventCell("g", Other, 1, TRUE, 7)
Candidate(id, kind, form, linked, value, unit) ==
    [id |-> id, filing |-> 1, predicate |-> "amount", kind |-> kind, form |-> form, value |-> value,
     unit |-> unit, linked |-> linked,
     cells |-> {c \in {Named, First, Another, Words, Foreign} : \E x \in linked : x.table = c.table}]
EventSamples == [kind : {"events"},
           safe : {{1}, {2}},
           candidates : SUBSET {Candidate(1, "numeric", "joined", {Named}, 9, ""),
                                Candidate(2, "numeric", "number", {First, Another}, 5, "won"),
                                Candidate(3, "text", "other", {Named, Words}, 5, "won"),
                                Candidate(4, "text", "other", {Foreign}, 7, ""),
                                Candidate(5, "numeric", "joined", {First, Another}, 5, "won"),
                                Candidate(6, "numeric", "number", {First}, 5, "shares")}]

KnownSamples == {NoSample} \cup Lineages \cup Cuts \cup Tables \cup Facts \cup EventSamples

-----------------------------------------------------------------------------

VARIABLE
    part        \* what the behaviour follows

vars == <<part, sample, databaseVars, indexVars, overlayVars, chunkVars, denseVars>>

MCInit ==
    /\ SampleInit
    /\ IF sample = NoSample THEN part \in {"database", "chunks", "dense"} ELSE part = "sample"
    /\ Init /\ IndexInit /\ OverlayInit /\ ChunkInit /\ DenseInit

DatabaseNext ==
    \/ IndexedNext /\ UNCHANGED overlayVars
    \/ OverlayNext /\ UNCHANGED <<databaseVars, indexVars>>

MCNext ==
    /\ UNCHANGED <<part, sample>>
    /\ \/ part = "database" /\ DatabaseNext /\ UNCHANGED <<chunkVars, denseVars>>
       \/ part = "chunks" /\ ChunkNext
            /\ UNCHANGED <<databaseVars, indexVars, overlayVars, denseVars>>
       \/ part = "dense" /\ DenseNext
            /\ UNCHANGED <<databaseVars, indexVars, overlayVars, chunkVars>>

MCSpec == MCInit /\ [][MCNext]_vars
=============================================================================
