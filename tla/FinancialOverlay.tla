--------------------------- MODULE FinancialOverlay ---------------------------
(***************************************************************************)
(* The overlay file of validated facts (build_agent_overlay, import_seed   *)
(* and the fetch functions of src/src/disclosure_db/financial_overlay.py,  *)
(* and serving.py), beside a corpus that is rebuilt.                       *)
(*                                                                         *)
(* An overlay is [source, facts]: the digest of the database it was built  *)
(* for, and the filings its facts come from (what a fact says is in        *)
(* FinancialFacts).                                                        *)
(***************************************************************************)
EXTENDS CorpusDatabase

VARIABLES
    overlay,        \* the overlay file
    hashed,         \* digest the running import has computed
    import          \* where the import is

overlayVars == <<overlay, hashed, import>>

NoOverlay == [source |-> 0, facts |-> {}]

\* _validate_seed_row and _event_candidates: the filings that can have a fact, the
\* safe ones with cells in a source that was parsed and is no PDF.
FactFilings(db) ==
    {f.id : f \in {x \in db.filings :
        /\ \E v \in db.versions : v.filing = x.id /\ Safe(v)
        /\ \E s \in db.sources : s.filing = x.id /\ s.status = "success" /\ s.format # "pdf"}}

\* An overlay of another database is never written over.
BeginImport ==
    /\ import = "down"
    /\ Exists(served)
    /\ overlay.source \in {0, served.digest}
    /\ hashed' = served.digest
    /\ import' = "read"
    /\ UNCHANGED overlay

\* The database is opened by name after its digest was computed, and the finished
\* file is renamed into place.
FinishImport ==
    /\ import = "read"
    /\ Exists(served)
    /\ overlay' = [source |-> hashed, facts |-> FactFilings(served)]
    /\ import' = "down" /\ hashed' = 0

ImportFails ==
    /\ import = "read"
    /\ import' = "down" /\ hashed' = 0
    /\ UNCHANGED overlay

\* An operator removes the overlay of an old database.
RemoveOverlay ==
    /\ overlay # NoOverlay
    /\ overlay' = NoOverlay
    /\ UNCHANGED <<hashed, import>>

\* overlay_matches_base; its cache, keyed by sizes and times, is left out.
Matches == overlay # NoOverlay /\ Exists(served) /\ overlay.source = served.digest

OverlayInit == overlay = NoOverlay /\ hashed = 0 /\ import = "down"

OverlayNext == BeginImport \/ FinishImport \/ ImportFails \/ RemoveOverlay

\* fetch_overlay_facts and fetch_event_facts: none unless the overlay matches, and
\* then the facts of the versions that a policy takes on a date.
Fetched(db, policy, asOf) ==
    {v \in db.versions :
        /\ v.filing \in overlay.facts
        /\ CASE policy = "original" -> v.status = "root" /\ (asOf = NoDate \/ InForce(v, asOf))
             [] policy = "both" -> Safe(v) /\ (asOf = NoDate \/ v.from <= asOf)
             [] OTHER -> Effective(v, asOf)
        /\ policy = "corrected" => \E f \in db.filings : f.id = v.filing /\ f.correction}

-----------------------------------------------------------------------------
(* Properties                                                               *)

\* An overlay that matches the served database has facts of its safe filings only.
OverlayOfBase ==
    Matches => /\ overlay.facts = FactFilings(served)
               /\ \A policy \in {"current", "original", "corrected", "both"},
                     asOf \in {f.filed : f \in served.filings} :
                    \A v \in Fetched(served, policy, asOf) : v.from <= asOf /\ Safe(v)
=============================================================================
