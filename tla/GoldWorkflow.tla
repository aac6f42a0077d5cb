---------------------------- MODULE GoldWorkflow ----------------------------
(***************************************************************************)
(* The gold part of the QA lab (src/src/disclosure_db/qa_lab.py, its        *)
(* handlers in api.py, and gold_workbench.py): reviews of answers, gold    *)
(* candidates made from them, edits and decisions.                         *)
(*                                                                         *)
(* The handlers run on a pool of threads.  Each of them reads the ledger   *)
(* on one connection, reads the corpus and computes a record, and writes   *)
(* on another connection in one transaction: Begin... is everything up to  *)
(* the write, Commit... the write, and other calls come in between.  A     *)
(* call that is refused leaves no trace and is not an action.              *)
(***************************************************************************)
EXTENDS GoldRecord, Sequences

CONSTANTS
    Workers,        \* threads of the server
    People,         \* names entered as annotator and reviewer
    Reviews,        \* id -> [filings, evidence, declined]: reviews that may be saved
    Annotations,    \* what an editor may enter
    Corpora,        \* Seq: the corpus databases deployed one after another
    MaxRevision,    \* bound: revisions of a candidate
    MaxDecisions    \* bound: decisions written

VARIABLES
    reviews,        \* table qa_review: ids of the saved reviews
    candidates,     \* table gold_candidate: review id -> row
    decisions,      \* table gold_review, with the record and the corpus decided on
    deployed,       \* which of them is the corpus file now
    calls           \* worker -> the call it is in the middle of

goldVars == <<reviews, candidates, decisions, deployed, calls>>

NoCall == [op |-> "none"]
corpus == Corpora[deployed]

\* The foreign key from evidence to its source document.
SourcesKnown(db) == \A id \in DOMAIN db.evidence : db.evidence[id].source \in DOMAIN db.source

ForeignKeys ==
    /\ Len(Corpora) \in Nat \ {0}
    /\ \A i \in 1 .. Len(Corpora) : SourcesKnown(Corpora[i])

-----------------------------------------------------------------------------

\* default_annotation: the answer is left blank for the annotator.
DefaultAnnotation(id) ==
    LET review == Reviews[id]
    IN  [questionId |-> id,
         type |-> IF review.declined THEN "unanswerable" ELSE "single_filing_fact",
         answerability |-> IF review.declined THEN "unanswerable" ELSE "answerable",
         kind |-> IF review.declined THEN "unanswerable" ELSE "text",
         filings |-> review.filings,
         evidence |-> review.evidence,
         numbers |-> TRUE,
         operands |-> {},
         basis |-> IF review.filings = {} THEN "not_applicable" ELSE "latest_effective",
         asOf |-> FALSE,
         tableValidated |-> FALSE,
         shape |-> FALSE]

\* The record of an annotation on today's corpus, and what the checks say of it.
Prepared(annotation, annotator, status, reviewer) ==
    LET record == Record(corpus, annotation, annotator, status, reviewer)
    IN  [record |-> record,
         issues |-> AutomaticIssues(record, HydrationIssues(corpus, annotation))]

Row(revision, annotator, status, annotation, prepared, reviewer) ==
    [revision |-> revision, annotator |-> annotator, status |-> status,
     annotation |-> annotation, record |-> prepared.record, issues |-> prepared.issues,
     reviewer |-> reviewer]

-----------------------------------------------------------------------------

Init ==
    /\ reviews = {}
    /\ candidates = <<>>
    /\ decisions = {}
    /\ deployed = 1
    /\ calls = [w \in Workers |-> NoCall]

AddReview(id) ==
    /\ id \notin reviews
    /\ reviews' = reviews \cup {id}
    /\ UNCHANGED <<candidates, decisions, deployed, calls>>

Enter(w, call) ==
    /\ calls[w] = NoCall
    /\ calls' = [calls EXCEPT ![w] = call]
    /\ UNCHANGED <<reviews, candidates, decisions, deployed>>

Leave(w) == calls' = [calls EXCEPT ![w] = NoCall]

BeginCreate(w, id, annotator) ==
    /\ id \in reviews \ DOMAIN candidates
    /\ LET annotation == DefaultAnnotation(id)
           prepared == Prepared(annotation, annotator, "candidate", "none")
       IN  Enter(w, [op |-> "create", id |-> id,
                     row |-> Row(1, annotator, "candidate", annotation, prepared, "none")])

\* UNIQUE(review_id): the second of two creations gets gold_candidate_exists.
CommitCreate(w) ==
    /\ calls[w].op = "create"
    /\ candidates' = [id \in DOMAIN candidates \cup {calls[w].id} |->
                        IF id \in DOMAIN candidates THEN candidates[id] ELSE calls[w].row]
    /\ Leave(w)
    /\ UNCHANGED <<reviews, decisions, deployed>>

Open(id) == candidates[id].status # "approved"

BeginEdit(w, id, annotation) ==
    /\ id \in DOMAIN candidates
    /\ Open(id)
    /\ candidates[id].revision < MaxRevision
    /\ Enter(w, [op |-> "edit", id |-> id, annotation |-> annotation,
                 prepared |-> Prepared(annotation, candidates[id].annotator, "candidate", "none")])

\* Faulty variant of CommitEdit: the status is left as it is.
EditKeepsStatus(w) ==
    /\ calls[w].op = "edit"
    /\ LET call == calls[w]
           row == candidates[call.id]
       IN  candidates' = [candidates EXCEPT ![call.id] =
                Row(row.revision + 1, row.annotator, row.status,
                    call.annotation, call.prepared, "none")]
    /\ Leave(w)
    /\ UNCHANGED <<reviews, decisions, deployed>>

\* The status read earlier is not looked at again.
CommitEdit(w) ==
    /\ calls[w].op = "edit"
    /\ LET call == calls[w]
           row == candidates[call.id]
       IN  candidates' = [candidates EXCEPT ![call.id] =
                Row(row.revision + 1, row.annotator, "candidate",
                    call.annotation, call.prepared, "none")]
    /\ Leave(w)
    /\ UNCHANGED <<reviews, decisions, deployed>>

\* Faulty variant of Decision: rests on the packet saved with the candidate.
DecisionOnSavedPacket(row, reviewer, verdict) ==
    [record |-> [row.record EXCEPT !.status = IF verdict = "approve" THEN "approved" ELSE "rejected",
                                   !.origin = "human_verified",
                                   !.reviewer = reviewer],
     issues |-> row.issues]

\* The corpus is read again: an approval does not rest on the saved packet.
Decision(row, reviewer, verdict) ==
    Prepared(row.annotation, row.annotator,
             IF verdict = "approve" THEN "approved" ELSE "rejected", reviewer)

BeginDecide(w, id, reviewer, verdict) ==
    /\ id \in DOMAIN candidates
    /\ Cardinality(decisions) < MaxDecisions
    /\ Open(id)
    /\ LET row == candidates[id]
           prepared == Decision(row, reviewer, verdict)
       IN  /\ verdict = "approve" => reviewer # row.annotator /\ prepared.issues = {}
           /\ Enter(w, [op |-> "decide", id |-> id, revision |-> row.revision,
                        reviewer |-> reviewer, verdict |-> verdict,
                        prepared |-> prepared, corpus |-> corpus])

\* One transaction: the row, whatever it holds now, and the log of decisions.
\* Annotation and revision of the row stay.
CommitDecide(w) ==
    /\ calls[w].op = "decide"
    /\ LET call == calls[w]
       IN  /\ candidates' = [candidates EXCEPT ![call.id] =
                [@ EXCEPT !.status = call.prepared.record.status,
                          !.record = call.prepared.record,
                          !.issues = call.prepared.issues,
                          !.reviewer = call.reviewer]]
           /\ decisions' = decisions \cup
                {[id |-> call.id, revision |-> call.revision, reviewer |-> call.reviewer,
                  verdict |-> call.verdict, record |-> call.prepared.record,
                  corpus |-> call.corpus]}
    /\ Leave(w)
    /\ UNCHANGED <<reviews, deployed>>

\* A new corpus database is put in place of the old one.
Redeploy ==
    /\ deployed < Len(Corpora)
    /\ deployed' = deployed + 1
    /\ UNCHANGED <<reviews, candidates, decisions, calls>>

Next ==
    \/ \E id \in DOMAIN Reviews : AddReview(id)
    \/ \E w \in Workers :
        \/ \E id \in DOMAIN Reviews, person \in People : BeginCreate(w, id, person)
        \/ \E id \in DOMAIN Reviews, annotation \in Annotations : BeginEdit(w, id, annotation)
        \/ \E id \in DOMAIN Reviews, person \in People, verdict \in {"approve", "reject"} :
            BeginDecide(w, id, person, verdict)
        \/ CommitCreate(w) \/ CommitEdit(w) \/ CommitDecide(w)
    \/ Redeploy

Spec == Init /\ [][Next]_goldVars

\* export_gold_jsonl
Exported == {candidates[id].record : id \in {c \in DOMAIN candidates : ~Open(c)}}

-----------------------------------------------------------------------------
(* Properties                                                              *)

\* Whatever edits and decisions overlap, a record in gold_qa.approved.jsonl is
\* exactly the one that somebody other than its annotator approved, and the
\* decision is in the log.
ExportedWasReviewed ==
    \A record \in Exported :
        /\ record.reviewer # record.annotator
        /\ \E d \in decisions :
            d.verdict = "approve" /\ d.reviewer = record.reviewer /\ d.record = record

\* The checks at the decision boundary are as strict as the release gate: an
\* approved record has none of the issues validate_gold_dataset would find
\* against the corpus the reviewer decided on.
ApprovalsValidate ==
    \A d \in decisions :
        d.verdict = "approve" => DatasetIssues(d.corpus, d.record) = {}

\* docs/operations/qa-lab.md: an approved candidate cannot be changed.
ApprovedImmutable ==
    [][\A id \in DOMAIN candidates : ~Open(id) => candidates'[id] = candidates[id]]_goldVars
=============================================================================
