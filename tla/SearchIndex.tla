----------------------------- MODULE SearchIndex -----------------------------
(***************************************************************************)
(* The sparse search index (src/src/disclosure_db/search_index.py): its    *)
(* build next to a corpus that may be rebuilt meanwhile, what a start of   *)
(* the service accepts, and the filters of a search.                       *)
(*                                                                         *)
(* A row is [evidence, filing, filed, version, correction, type]; of the   *)
(* fragments of a file only their types matter.                            *)
(***************************************************************************)
EXTENDS CorpusDatabase

VARIABLES
    index,          \* the promoted index
    made,           \* the temporary index of the running build
    job             \* where that build is

indexVars == <<index, made, job>>

NoIndex == [base |-> 0, rows |-> {}, trigrams |-> {}]

\* The fragments of a filing: one of each type for each of its files.
FragmentTypes == {"paragraph", "table_row", "table_cell"}

SafeSource(s) == s.status = "success" /\ s.format # "pdf" /\ s.images = 0

IndexRow(db, s, type) ==
    LET filing == CHOOSE f \in db.filings : f.id = s.filing
        version == CHOOSE v \in db.versions : v.filing = s.filing
    IN  [evidence |-> <<s.filing, s.role, type>>, filing |-> s.filing, filed |-> filing.filed,
         correction |-> filing.correction, version |-> version, type |-> type]

\* The query of the projection.
Projection(db) ==
    {IndexRow(db, s, type) : type \in FragmentTypes,
        s \in {x \in db.sources :
            /\ SafeSource(x)
            /\ \E v \in db.versions : v.filing = x.filing /\ Safe(v)}}

-----------------------------------------------------------------------------
(* build_search_index                                                       *)

\* A left-over temporary file is removed; the base is compared with the
\* attestation, the only check before the work.
BeginIndex ==
    /\ job = "down"
    /\ Exists(served)
    /\ made' = [NoIndex EXCEPT !.base = served.digest]
    /\ job' = "project"
    /\ UNCHANGED index

\* The base is opened by name a second time: it may be another file by now.
Project ==
    /\ job = "project"
    /\ Exists(served)
    /\ LET rows == Projection(served)
       IN  made' = [made EXCEPT !.rows = rows,
                                !.trigrams = {r.evidence : r \in {x \in rows : x.type = "table_row"}}]
    /\ job' = "verify"
    /\ UNCHANGED index

\* Faulty variant of PromoteIndex: the base is not compared again.
PromoteUnverified ==
    /\ job = "verify"
    /\ index' = made /\ made' = NoIndex /\ job' = "down"

\* It is compared with the attestation again, before the rename.
PromoteIndex ==
    /\ job = "verify"
    /\ served.digest = made.base
    /\ index' = made /\ made' = NoIndex /\ job' = "down"

\* A mismatch, a missing base or a kill: no new index.
IndexFails ==
    /\ job # "down"
    /\ made' = NoIndex /\ job' = "down"
    /\ UNCHANGED index

IndexInit == index = NoIndex /\ made = NoIndex /\ job = "down"

IndexNext == BeginIndex \/ Project \/ PromoteIndex \/ IndexFails

\* Builds of the index beside those of the corpus.
IndexedNext ==
    \/ Next /\ UNCHANGED indexVars
    \/ IndexNext /\ UNCHANGED databaseVars

IndexedSpec == Init /\ IndexInit /\ [][IndexedNext]_<<databaseVars, indexVars>>

-----------------------------------------------------------------------------
(* SafeSearchIndex                                                          *)

\* What the constructor accepts for the attested base.
Accepted(base) == index.base # 0 /\ index.base = base

\* Faulty variant of Filtered: a search on a date takes every version that was in
\* force by then.
FilteredByStart(rows, policy, asOf, from, to) ==
    {r \in rows :
        /\ r.filed >= from /\ r.filed <= to
        /\ policy = "original" => r.version.status = "root"
        /\ policy # "original" => Safe(r.version)
        /\ policy = "corrected" => r.correction
        /\ (policy \in {"current", "corrected"} /\ asOf = NoDate) => r.version.current
        /\ asOf # NoDate => r.version.from <= asOf}

\* _filters: the rows a search may return under a policy, on a date.
Filtered(rows, policy, asOf, from, to) ==
    {r \in rows :
        /\ r.filed >= from /\ r.filed <= to
        /\ policy = "original" => r.version.status = "root"
        /\ policy # "original" => Safe(r.version)
        /\ policy = "corrected" => r.correction
        /\ (policy \in {"current", "corrected"} /\ asOf = NoDate) => r.version.current
        /\ asOf # NoDate => InForce(r.version, asOf)}

Policies == {"current", "original", "corrected", "both"}

-----------------------------------------------------------------------------
(* Properties                                                               *)

\* An accepted index is the projection of the very database it is accepted for,
\* although that file may be replaced at any time while the index is built.
IndexOfBase ==
    \A db \in {served, previous} : Accepted(db.digest) => index.rows = Projection(db)

\* Of the versions of one event a search of a policy and date answers from one
\* only (from the original and the correction only when asked for both).
OneVersionPerEvent ==
    \A policy \in Policies, asOf \in {r.filed : r \in index.rows} \cup {NoDate} :
        (policy # "both" \/ asOf # NoDate) =>
            \A r, q \in Filtered(index.rows, policy, asOf, 0, 99) :
                r.version.event = q.version.event => r.filing = q.filing
=============================================================================
