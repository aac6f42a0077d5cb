---------------------------- MODULE CorpusSamples ----------------------------
(***************************************************************************)
(* The inputs of the algorithms that make the corpus and its overlay: sets *)
(* of filings, units of text to be cut, tables, financial databases and    *)
(* candidates of event facts.  A sample is one of them; kind says which.   *)
(***************************************************************************)
EXTENDS FinancialOverlay, Chunker, TableGrid, FinancialFacts

CONSTANT
    Samples         \* the inputs the algorithms are given

VARIABLE
    sample          \* one of them

NoSample == [kind |-> "none"]

UnitsOf(s) == [i \in DOMAIN s.sizes |-> [tokens |-> s.sizes[i], evidence |-> {i}]]

\* What the schema, the parsers and the command line give of each.
SampleValid(s) ==
    /\ s.kind = "lineage" => Identified(s.filings)
    /\ s.kind = "cut" =>
        /\ s.config.target \in Nat /\ s.config.max \in Nat /\ s.config.overlap \in Nat
        /\ s.prefix \in Nat /\ s.sizes \in Seq(Nat)
    /\ s.kind = "table" => s.rows \in Seq(Seq(TableCells))
    /\ s.kind = "facts" => DatabaseValid(s.db)
    /\ s.kind = "events" => IsFiniteSet(s.candidates)

ASSUME SamplesAssumption == \A s \in Samples : SampleValid(s)

SampleInit == sample \in Samples

SampleSpec == SampleInit /\ [][UNCHANGED sample]_sample

-----------------------------------------------------------------------------
(* Properties                                                               *)

\* A candidate that is imported stands in the database it was validated against,
\* a coverage table that is accepted is true, and event facts are supported.
FactsSound ==
    /\ sample.kind = "facts" =>
        /\ ImportSound(sample.db, sample.older, sample.decisions)
        /\ CoverageSound(sample.db, Seed(sample.db, Candidates(sample.older, sample.decisions)))
    /\ sample.kind = "events" => EventsSound(sample.candidates, sample.safe)

\* No fact is served that its database does not support: an imported fact stands in
\* the database and nothing contradicts it (financial_validation.py), and facts are
\* served only beside the database they stand in (overlay_matches_base).
SeedSound == OverlayOfBase /\ FactsSound

\* No piece is lost and none gets another's identity: of a text that is cut every
\* token is in a chunk (_chunk_body_tokens), of a table no cell starts where
\* another one reaches (parse_markup), and of a set of filings the versions are in force one at
\* a time (build_lineage), on the days of the filings and the days after.
PiecesSound ==
    /\ (sample.kind = "cut" /\ ConfigValid(sample.config)) =>
        BodiesSound(sample.config, sample.prefix, UnitsOf(sample))
    /\ sample.kind = "table" => GridSound(sample.rows)
    /\ sample.kind = "lineage" =>
        LineageSound(sample.filings, Versions(sample.filings),
                     {f.filed + later : f \in sample.filings, later \in {0, 1}})
==============================================================================
