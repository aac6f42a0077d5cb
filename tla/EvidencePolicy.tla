----------------------------- MODULE EvidencePolicy -----------------------------
(***************************************************************************)
(* The version rule of the evidence readers.  A question asks for a policy *)
(* ("current", "original", "corrected" or "both") and perhaps a date; each *)
(* reader of the corpus writes the rule in SQL of its own: the sparse      *)
(* index, the allowed filings of the dense search, the dense pilot, the    *)
(* full-text search of the corpus, the two fact tables of the overlay, and *)
(* the hydration that every evidence id of a fact or of a dense hit passes. *)
(*                                                                         *)
(* v is a version of Lineage, c says that its filing is a correction.      *)
(***************************************************************************)
EXTENDS Lineage

Policies == {"current", "original", "corrected", "both"}

InForceIf(v, asOf) == asOf # NoDate => InForce(v, asOf)

OriginalOnly(v, asOf) == v.status = "root" /\ InForceIf(v, asOf)

StartedBy(v, asOf) == Safe(v) /\ (asOf # NoDate => v.from <= asOf)

CurrentOnly(v, c, policy, asOf) == Effective(v, asOf) /\ (policy = "corrected" => c)

-----------------------------------------------------------------------------

\* _hydrate_ids
HydrateAdmits(v, c, policy, asOf) ==
    CASE policy = "original" -> OriginalOnly(v, asOf)
      [] policy = "both" -> StartedBy(v, asOf)
      [] OTHER -> CurrentOnly(v, c, policy, asOf)

\* SafeSearchIndex._filters: "both" on a date means both versions in force then.
IndexAdmits(v, c, policy, asOf) ==
    CASE policy = "original" -> OriginalOnly(v, asOf)
      [] policy = "both" -> Safe(v) /\ InForceIf(v, asOf)
      [] OTHER -> CurrentOnly(v, c, policy, asOf)

\* _dense_filings
DenseAdmits(v, c, policy, asOf) ==
    CASE policy = "original" -> OriginalOnly(v, asOf)
      [] policy = "both" -> StartedBy(v, asOf)
      [] OTHER -> CurrentOnly(v, c, policy, asOf)

\* _version_matches of the local dense pilot, on the version its metadata copies.
MetadataAdmits(v, c, policy, asOf) ==
    /\ IF policy = "original" THEN v.status = "root" ELSE Safe(v)
    /\ policy = "corrected" => c
    /\ (asOf = NoDate /\ policy \notin {"original", "both"}) => v.current
    /\ asOf # NoDate => v.from <= asOf /\ (policy # "both" => InForce(v, asOf))

\* query_database without include_unsafe: "both" is the current version.
ServingAdmits(v, c, policy, asOf) ==
    IF policy = "original" THEN OriginalOnly(v, asOf) ELSE CurrentOnly(v, c, policy, asOf)

\* fetch_overlay_facts
OverlayAdmits(v, c, policy, asOf) ==
    IF policy = "original" THEN OriginalOnly(v, asOf) ELSE CurrentOnly(v, c, policy, asOf)

\* fetch_event_facts
EventAdmits(v, c, policy, asOf) ==
    CASE policy = "original" -> OriginalOnly(v, asOf)
      [] policy = "both" -> StartedBy(v, asOf)
      [] OTHER -> CurrentOnly(v, c, policy, asOf)

AdmittedBy(reader, v, c, policy, asOf) ==
    CASE reader = "hydrate" -> HydrateAdmits(v, c, policy, asOf)
      [] reader = "index" -> IndexAdmits(v, c, policy, asOf)
      [] reader = "dense" -> DenseAdmits(v, c, policy, asOf)
      [] reader = "serving" -> ServingAdmits(v, c, policy, asOf)
      [] reader = "overlay" -> OverlayAdmits(v, c, policy, asOf)
      [] reader = "event" -> EventAdmits(v, c, policy, asOf)

-----------------------------------------------------------------------------

\* What the readers owe each other: none delivers evidence that hydration, the
\* reader all facts and dense hits go through, would refuse for the same question.
ReadersAgree(versions, corrections, dates) ==
    \A v \in versions, policy \in Policies, asOf \in dates \cup {NoDate} :
        LET c == v.filing \in corrections
            refused == ~HydrateAdmits(v, c, policy, asOf)
        IN  refused => /\ ~IndexAdmits(v, c, policy, asOf)
                       /\ ~DenseAdmits(v, c, policy, asOf)
                       /\ ~MetadataAdmits(v, c, policy, asOf)
                       /\ ~ServingAdmits(v, c, policy, asOf)
                       /\ ~OverlayAdmits(v, c, policy, asOf)
                       /\ ~EventAdmits(v, c, policy, asOf)
=============================================================================
