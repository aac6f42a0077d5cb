----------------------------- MODULE GoldRecord -----------------------------
(***************************************************************************)
(* The canonical gold record and the rules it is checked against           *)
(* (src/src/disclosure_db/gold_workbench.py and gold_validation.py).       *)
(*                                                                         *)
(* A corpus has the fields                                                 *)
(*   evidence   id -> [filing, source, cell, tableParsed]                  *)
(*   source     id -> [filing, parsed, pdf]                                *)
(*   filing     id -> [lineage, current]                                   *)
(* An annotation, what a person enters, has                                *)
(*   questionId, type, answerability, kind     kind of the answer          *)
(*   filings, evidence     what it rests on                                *)
(*   numbers               whether its numbers are plain decimals          *)
(*   operands              the evidence the values of the answer name      *)
(*   basis, asOf           version basis, and whether as_of is given       *)
(*   tableValidated        the annotator checked the table structure       *)
(*   shape                 it satisfies the JSON schema                    *)
(***************************************************************************)
EXTENDS Naturals, FiniteSets

\* The rules of a function from rule names to whether the rule is broken.
Broken(rules) == {name \in DOMAIN rules : rules[name]}

-----------------------------------------------------------------------------
(* hydrate_packet                                                          *)

KnownEvidence(corpus, ids) == ids \cap DOMAIN corpus.evidence

\* The filings asked for and those of the evidence that was found.
PacketFilings(corpus, annotation) ==
    annotation.filings
        \cup {corpus.evidence[id].filing : id \in KnownEvidence(corpus, annotation.evidence)}

SourcesOf(corpus, filing) == {s \in DOMAIN corpus.source : corpus.source[s].filing = filing}

\* Parsed sources come first in the packet's order.
FirstSource(corpus, filing) ==
    LET sources == SourcesOf(corpus, filing)
        parsed == {s \in sources : corpus.source[s].parsed}
    IN  CHOOSE s \in sources : parsed # {} => s \in parsed

\* The sources of the evidence, and one of every filing that has any.
PacketSources(corpus, annotation) ==
    {corpus.evidence[id].source : id \in KnownEvidence(corpus, annotation.evidence)}
        \cup {FirstSource(corpus, f) :
                f \in {g \in PacketFilings(corpus, annotation) : SourcesOf(corpus, g) # {}}}

HydrationIssues(corpus, annotation) ==
    LET found == KnownEvidence(corpus, annotation.evidence)
    IN  Broken(
        [evidence_not_found |-> annotation.evidence # found,
         source_parse_not_success |->
            \E id \in found : ~corpus.source[corpus.evidence[id].source].parsed,
         table_parse_not_success |->
            \E id \in found : corpus.evidence[id].cell /\ ~corpus.evidence[id].tableParsed,
         unresolved_lineage |->
            \E id \in found :
                corpus.filing[corpus.evidence[id].filing].lineage \notin {"root", "resolved"},
         filing_not_found |->
            ~ PacketFilings(corpus, annotation) \subseteq DOMAIN corpus.filing])

-----------------------------------------------------------------------------
(* build_record                                                            *)

\* The copy of the corpus rows that a record carries: its evidence, and the
\* sources and versions of the candidate filings.
Record(corpus, annotation, annotator, status, reviewer) ==
    [annotation |-> annotation,
     evidence |-> [id \in KnownEvidence(corpus, annotation.evidence) |->
        [row |-> corpus.evidence[id],
         version |-> corpus.filing[corpus.evidence[id].filing],
         humanValidated |-> corpus.evidence[id].cell /\ annotation.tableValidated]],
     sources |-> [s \in {x \in PacketSources(corpus, annotation) :
                            corpus.source[x].filing \in annotation.filings} |-> corpus.source[s]],
     versions |-> [f \in annotation.filings \cap DOMAIN corpus.filing |-> corpus.filing[f]],
     origin |-> IF status = "approved" THEN "human_verified" ELSE "model_generated",
     status |-> status,
     annotator |-> annotator,
     reviewer |-> reviewer]

-----------------------------------------------------------------------------
(* validate_record_contract                                                *)

ReviewIssues(record) == Broken(
    [model_answer_not_candidate |->
        record.origin = "model_generated" /\ record.status \notin {"candidate", "agent_audited"},
     agent_audited_not_model_origin |->
        record.status = "agent_audited" /\ record.origin # "model_generated",
     approved_answer_not_human |-> record.status = "approved" /\ record.origin # "human_verified",
     approved_without_reviewer |-> record.status = "approved" /\ record.reviewer = "none",
     self_approved |-> record.status = "approved" /\ record.annotator = record.reviewer,
     approved_table_not_human_validated |->
        /\ record.status = "approved"
        /\ \E id \in DOMAIN record.evidence :
            record.evidence[id].row.cell /\ ~record.evidence[id].humanValidated])

AnswerIssues(record) ==
    LET a == record.annotation
        answerable == a.answerability = "answerable"
    IN  Broken(
        [canonical_schema |-> ~a.shape,
         answerability_kind_mismatch |-> answerable <=> a.kind = "unanswerable",
         answerable_without_evidence |->
            answerable /\ DOMAIN record.evidence = {} /\ DOMAIN record.versions = {},
         correction_without_version_evidence |->
            a.type = "correction_aware" /\ DOMAIN record.versions = {},
         invalid_numeric_answer |-> a.kind \in {"numeric", "multi_numeric"} /\ ~a.numbers,
         multi_numeric_evidence_missing |->
            a.kind = "multi_numeric" /\ ~ a.operands \subseteq DOMAIN record.evidence,
         as_of_missing |-> a.basis = "as_of" /\ ~a.asOf,
         as_of_basis_mismatch |-> a.asOf /\ a.basis # "as_of",
         candidate_filing_missing |-> a.filings = {},
         candidate_without_source_evidence |->
            ~ a.filings \subseteq {record.sources[s].filing : s \in DOMAIN record.sources},
         unvalidated_pdf_table_answered |->
            answerable /\ a.type = "table_cell"
                /\ \E s \in DOMAIN record.sources : record.sources[s].pdf])

ContractIssues(record) == ReviewIssues(record) \cup AnswerIssues(record)

-----------------------------------------------------------------------------
(* automatic_checks                                                        *)

AutomaticIssues(record, hydration) ==
    hydration \cup ContractIssues(record) \cup Broken(
        [evidence_outside_candidate_filings |->
            \E id \in DOMAIN record.evidence :
                record.evidence[id].row.filing \notin record.annotation.filings,
         source_parse_not_success |->
            \E s \in DOMAIN record.sources : ~record.sources[s].parsed,
         latest_basis_requires_current_filings |->
            record.annotation.basis = "latest_effective"
                /\ \E f \in DOMAIN record.versions : ~record.versions[f].current])

-----------------------------------------------------------------------------
(* validate_gold_dataset                                                   *)

\* A record of the dataset against the corpus it is released with.
DatasetRules(corpus, record) ==
    [evidence_not_found |-> ~ DOMAIN record.evidence \subseteq DOMAIN corpus.evidence,
     evidence_metadata_mismatch |->
        \E id \in KnownEvidence(corpus, DOMAIN record.evidence) :
            \/ record.evidence[id].row # corpus.evidence[id]
            \/ record.evidence[id].version # corpus.filing[corpus.evidence[id].filing],
     version_evidence_not_found |-> ~ DOMAIN record.versions \subseteq DOMAIN corpus.filing,
     version_metadata_mismatch |->
        \E f \in DOMAIN record.versions \cap DOMAIN corpus.filing :
            record.versions[f] # corpus.filing[f],
     source_evidence_not_found |-> ~ DOMAIN record.sources \subseteq DOMAIN corpus.source,
     source_metadata_mismatch |->
        \E s \in DOMAIN record.sources \cap DOMAIN corpus.source :
            record.sources[s] # corpus.source[s]]

DatasetIssues(corpus, record) == ContractIssues(record) \cup Broken(DatasetRules(corpus, record))
=============================================================================
