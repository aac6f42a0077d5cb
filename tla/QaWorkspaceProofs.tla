-------------------------- MODULE QaWorkspaceProofs --------------------------
(***************************************************************************)
(* The two ledgers of the QA lab: the gold workflow, for every number of   *)
(* threads, people, reviews, annotations and replaced corpora; and the     *)
(* cases and evaluation runs of the dashboard, for every set of editing    *)
(* threads, cases and answers of the pipeline.                             *)
(***************************************************************************)
EXTENDS GoldWorkflow, EvalCases, SequenceTheorems, FiniteSetTheorems, WellFoundedInduction, TLAPS


-----------------------------------------------------------------------------
(* The record and its checks                                               *)

\* A record is copied from the corpus it is computed on, so that corpus has
\* everything the record names; what is left of the gate are the rules of the
\* record itself, and the automatic checks contain them.
LEMMA AutomaticChecksImplyGate ==
    ASSUME NEW db, SourcesKnown(db),
           NEW annotation, NEW annotator, NEW status, NEW reviewer,
           AutomaticIssues(Record(db, annotation, annotator, status, reviewer),
                           HydrationIssues(db, annotation)) = {}
    PROVE  DatasetIssues(db, Record(db, annotation, annotator, status, reviewer)) = {}
<1> DEFINE record == Record(db, annotation, annotator, status, reviewer)
           known == KnownEvidence(db, annotation.evidence)
<1>1. ContractIssues(record) = {}
  BY DEF AutomaticIssues
<1>2. /\ DOMAIN record.evidence = known
      /\ \A id \in known : /\ record.evidence[id].row = db.evidence[id]
                           /\ record.evidence[id].version = db.filing[db.evidence[id].filing]
  BY DEF Record
<1>3. /\ DOMAIN record.versions = annotation.filings \cap DOMAIN db.filing
      /\ \A f \in DOMAIN record.versions : record.versions[f] = db.filing[f]
  BY DEF Record
<1>4. /\ DOMAIN record.sources \subseteq PacketSources(db, annotation)
      /\ \A s \in DOMAIN record.sources : record.sources[s] = db.source[s]
  BY DEF Record
<1>5. PacketSources(db, annotation) \subseteq DOMAIN db.source
  <2>1. \A id \in known : db.evidence[id].source \in DOMAIN db.source
    BY DEF SourcesKnown, KnownEvidence
  <2>2. \A f : SourcesOf(db, f) # {} => FirstSource(db, f) \in DOMAIN db.source
    <3> SUFFICES ASSUME NEW f, SourcesOf(db, f) # {}
                 PROVE  FirstSource(db, f) \in DOMAIN db.source
      OBVIOUS
    <3> DEFINE sources == SourcesOf(db, f)
               parsed == {s \in sources : db.source[s].parsed}
    <3>1. \E s \in sources : parsed # {} => s \in parsed
      OBVIOUS
    <3>2. FirstSource(db, f) \in sources
      BY <3>1 DEF FirstSource
    <3> QED
      BY <3>2 DEF SourcesOf
  <2> QED
    BY <2>1, <2>2 DEF PacketSources
<1>6. known \subseteq DOMAIN db.evidence
  BY DEF KnownEvidence
<1>7. KnownEvidence(db, DOMAIN record.evidence) = known
  BY <1>2, <1>6 DEF KnownEvidence
<1> HIDE DEF record, known
<1>8. Broken(DatasetRules(db, record)) = {}
  <2> DEFINE rules == DatasetRules(db, record)
  <2>1. ~rules.evidence_not_found
    BY <1>2, <1>6 DEF DatasetRules
  <2>2. ~rules.evidence_metadata_mismatch
    BY <1>2, <1>7 DEF DatasetRules
  <2>3. ~rules.version_evidence_not_found
    BY <1>3 DEF DatasetRules
  <2>4. ~rules.version_metadata_mismatch
    BY <1>3 DEF DatasetRules
  <2>5. ~rules.source_evidence_not_found
    BY <1>4, <1>5 DEF DatasetRules
  <2>6. ~rules.source_metadata_mismatch
    BY <1>4 DEF DatasetRules
  <2>7. DOMAIN rules = {"evidence_not_found", "evidence_metadata_mismatch",
                        "version_evidence_not_found", "version_metadata_mismatch",
                        "source_evidence_not_found", "source_metadata_mismatch"}
    BY DEF DatasetRules
  <2> HIDE DEF rules
  <2>8. \A name \in DOMAIN rules : ~rules[name]
    BY <2>1, <2>2, <2>3, <2>4, <2>5, <2>6, <2>7
  <2> QED
    BY <2>8 DEF Broken, rules
<1> QED
  BY <1>1, <1>8 DEF record, DatasetIssues

-----------------------------------------------------------------------------
(* The invariant                                                           *)

RowFields == {"revision", "annotator", "status", "annotation", "record", "issues", "reviewer"}

IsRow(row) == DOMAIN row = RowFields /\ row.status \in {"candidate", "approved", "rejected"}

\* Somebody other than the annotator approved exactly this record.
Vouched(record, log) ==
    /\ record.reviewer # record.annotator
    /\ \E d \in log :
        d.verdict = "approve" /\ d.reviewer = record.reviewer /\ d.record = record

\* A decision that a thread is about to write was checked when the thread read
\* the candidate; nothing that happens since makes it wrong.
DecisionChecked(call) ==
    LET record == call.prepared.record
    IN  /\ call.verdict \in {"approve", "reject"}
        /\ record.status = IF call.verdict = "approve" THEN "approved" ELSE "rejected"
        /\ call.verdict = "approve" =>
            /\ record.reviewer = call.reviewer
            /\ record.reviewer # record.annotator
            /\ DatasetIssues(call.corpus, record) = {}

CallChecked(call, ids) ==
    /\ call.op = "create" => IsRow(call.row) /\ call.row.status = "candidate"
    /\ call.op \in {"edit", "decide"} => call.id \in ids
    /\ call.op = "decide" => DecisionChecked(call)

\* Inductive: the calls in progress are part of it, since a commit writes what
\* was checked before other commits.
WorkflowInv ==
    /\ ForeignKeys
    /\ deployed \in 1 .. Len(Corpora)
    /\ \A id \in DOMAIN candidates :
        /\ IsRow(candidates[id])
        /\ ~Open(id) => Vouched(candidates[id].record, decisions)
    /\ DOMAIN calls = Workers /\ calls = [w \in Workers |-> calls[w]]
    /\ \A w \in Workers : CallChecked(calls[w], DOMAIN candidates)
    /\ ApprovalsValidate

-----------------------------------------------------------------------------
(* Steps                                                                   *)

\* What is computed on a corpus with foreign keys and has no issue passes.
LEMMA DecisionPasses ==
    ASSUME NEW row, NEW reviewer, NEW verdict \in {"approve", "reject"},
           SourcesKnown(corpus),
           verdict = "approve" =>
                reviewer # row.annotator /\ Decision(row, reviewer, verdict).issues = {}
    PROVE  LET record == Decision(row, reviewer, verdict).record
           IN  /\ record.status = IF verdict = "approve" THEN "approved" ELSE "rejected"
               /\ record.reviewer = reviewer
               /\ verdict = "approve" =>
                    record.reviewer # record.annotator /\ DatasetIssues(corpus, record) = {}
<1> DEFINE status == IF verdict = "approve" THEN "approved" ELSE "rejected"
           record == Record(corpus, row.annotation, row.annotator, status, reviewer)
           issues == AutomaticIssues(record, HydrationIssues(corpus, row.annotation))
<1>1. Decision(row, reviewer, verdict) = [record |-> record, issues |-> issues]
  BY DEF Decision, Prepared
<1>2. record.status = status /\ record.reviewer = reviewer /\ record.annotator = row.annotator
  BY DEF Record
<1>3. issues = {} => DatasetIssues(corpus, record) = {}
  BY AutomaticChecksImplyGate
<1> HIDE DEF record, issues
<1>4. Decision(row, reviewer, verdict).record = record /\ Decision(row, reviewer, verdict).issues = issues
  BY <1>1
<1>5. QED
  BY <1>2, <1>3, <1>4 DEF status

LEMMA InitWorkflow == Init /\ ForeignKeys => WorkflowInv
  BY DEF Init, ForeignKeys, WorkflowInv, CallChecked, NoCall, ApprovalsValidate

\* A call that begins is checked; nothing else changes.
LEMMA EnterWorkflow ==
    ASSUME WorkflowInv, NEW w \in Workers, NEW call, Enter(w, call),
           CallChecked(call, DOMAIN candidates)
    PROVE  WorkflowInv'
<1>1. calls' = [calls EXCEPT ![w] = call] /\ UNCHANGED <<candidates, decisions, deployed>>
  BY DEF Enter
<1>2. \A x \in Workers : calls'[x] = IF x = w THEN call ELSE calls[x]
  BY <1>1 DEF WorkflowInv
<1>3. DOMAIN calls' = Workers /\ calls' = [x \in Workers |-> calls'[x]]
  BY <1>1 DEF WorkflowInv
<1>4. \A x \in Workers : CallChecked(calls'[x], DOMAIN candidates)
  BY <1>2 DEF WorkflowInv
<1>5. (ForeignKeys /\ deployed \in 1 .. Len(Corpora) /\ ApprovalsValidate)'
  BY <1>1 DEF WorkflowInv, ForeignKeys, ApprovalsValidate
<1>6. (\A id \in DOMAIN candidates :
        IsRow(candidates[id]) /\ (~Open(id) => Vouched(candidates[id].record, decisions)))'
  BY <1>1 DEF WorkflowInv, Open
<1>7. QED
  BY <1>1, <1>3, <1>4, <1>5, <1>6 DEF WorkflowInv

\* A call that ends leaves the others as they are, if no candidate is lost.
LEMMA LeaveWorkflow ==
    ASSUME WorkflowInv, NEW w \in Workers, Leave(w), UNCHANGED deployed,
           DOMAIN candidates \subseteq DOMAIN candidates',
           (\A id \in DOMAIN candidates :
              IsRow(candidates[id]) /\ (~Open(id) => Vouched(candidates[id].record, decisions)))',
           ApprovalsValidate'
    PROVE  WorkflowInv'
<1>1. calls' = [calls EXCEPT ![w] = NoCall]
  BY DEF Leave
<1>2. \A x \in Workers : calls'[x] = IF x = w THEN NoCall ELSE calls[x]
  BY <1>1 DEF WorkflowInv
<1>3. DOMAIN calls' = Workers /\ calls' = [x \in Workers |-> calls'[x]]
  BY <1>1 DEF WorkflowInv
<1>4. \A x \in Workers : CallChecked(calls'[x], DOMAIN candidates')
  <2> TAKE x \in Workers
  <2>1. CallChecked(NoCall, DOMAIN candidates')
    BY DEF CallChecked, NoCall
  <2>2. CallChecked(calls[x], DOMAIN candidates')
    BY DEF WorkflowInv, CallChecked
  <2> QED
    BY <1>2, <2>1, <2>2
<1>5. (ForeignKeys /\ deployed \in 1 .. Len(Corpora))'
  BY DEF WorkflowInv, ForeignKeys
<1>6. QED
  BY <1>3, <1>4, <1>5 DEF WorkflowInv

\* Neither a new row nor an edited one is approved; only a decision approves, and
\* it writes the record that it was made on.
LEMMA NextWorkflow == WorkflowInv /\ [Next]_goldVars => WorkflowInv'
<1> SUFFICES ASSUME WorkflowInv, [Next]_goldVars
             PROVE  WorkflowInv'
  OBVIOUS
<1>1. ASSUME NEW id \in DOMAIN Reviews, AddReview(id)
      PROVE  WorkflowInv'
  BY <1>1 DEF AddReview, WorkflowInv, ForeignKeys, Open, ApprovalsValidate
<1>2. ASSUME NEW w \in Workers, NEW id \in DOMAIN Reviews, NEW person \in People,
             BeginCreate(w, id, person)
      PROVE  WorkflowInv'
  <2> DEFINE annotation == DefaultAnnotation(id)
             row == Row(1, person, "candidate", annotation,
                        Prepared(annotation, person, "candidate", "none"), "none")
             call == [op |-> "create", id |-> id, row |-> row]
  <2>1. Enter(w, call)
    BY <1>2 DEF BeginCreate
  <2>2. IsRow(row) /\ row.status = "candidate"
    BY DEF Row, IsRow, RowFields
  <2> HIDE DEF row
  <2>3. CallChecked(call, DOMAIN candidates)
    BY <2>2 DEF CallChecked
  <2> QED
    BY <2>1, <2>3, EnterWorkflow
<1>3. ASSUME NEW w \in Workers, NEW id \in DOMAIN Reviews, NEW annotation \in Annotations,
             BeginEdit(w, id, annotation)
      PROVE  WorkflowInv'
  <2> DEFINE prepared == Prepared(annotation, candidates[id].annotator, "candidate", "none")
             call == [op |-> "edit", id |-> id, annotation |-> annotation, prepared |-> prepared]
  <2>1. Enter(w, call) /\ id \in DOMAIN candidates
    BY <1>3 DEF BeginEdit
  <2> HIDE DEF prepared
  <2>2. CallChecked(call, DOMAIN candidates)
    BY <2>1 DEF CallChecked
  <2> QED
    BY <2>1, <2>2, EnterWorkflow
<1>4. ASSUME NEW w \in Workers, NEW id \in DOMAIN Reviews, NEW person \in People,
             NEW verdict \in {"approve", "reject"}, BeginDecide(w, id, person, verdict)
      PROVE  WorkflowInv'
  <2> DEFINE row == candidates[id]
             prepared == Decision(row, person, verdict)
             call == [op |-> "decide", id |-> id, revision |-> row.revision,
                      reviewer |-> person, verdict |-> verdict,
                      prepared |-> prepared, corpus |-> corpus]
  <2>1. /\ Enter(w, call)
        /\ id \in DOMAIN candidates
        /\ verdict = "approve" => person # row.annotator /\ prepared.issues = {}
    BY <1>4 DEF BeginDecide
  <2>2. SourcesKnown(corpus)
    BY DEF WorkflowInv, ForeignKeys, corpus
  <2>3. /\ prepared.record.status = IF verdict = "approve" THEN "approved" ELSE "rejected"
        /\ prepared.record.reviewer = person
        /\ verdict = "approve" =>
              /\ prepared.record.reviewer # prepared.record.annotator
              /\ DatasetIssues(corpus, prepared.record) = {}
    BY <2>1, <2>2, DecisionPasses
  <2> HIDE DEF prepared
  <2>4. CallChecked(call, DOMAIN candidates)
    BY <2>1, <2>3 DEF CallChecked, DecisionChecked
  <2> QED
    BY <2>1, <2>4, EnterWorkflow
<1>5. ASSUME NEW w \in Workers, CommitCreate(w)
      PROVE  WorkflowInv'
  <2> DEFINE call == calls[w]
  <2>1. /\ candidates' = [id \in DOMAIN candidates \cup {call.id} |->
                            IF id \in DOMAIN candidates THEN candidates[id] ELSE call.row]
        /\ Leave(w) /\ UNCHANGED <<decisions, deployed>>
    BY <1>5 DEF CommitCreate
  <2>2. IsRow(call.row) /\ call.row.status = "candidate"
    BY <1>5 DEF CommitCreate, WorkflowInv, CallChecked
  <2>3. DOMAIN candidates \subseteq DOMAIN candidates'
    BY <2>1
  <2>4. ASSUME NEW id \in DOMAIN candidates'
        PROVE  \/ id \in DOMAIN candidates /\ candidates'[id] = candidates[id]
               \/ candidates'[id] = call.row
    BY <2>1, <2>4
  <2>5. (\A id \in DOMAIN candidates :
            IsRow(candidates[id]) /\ (~Open(id) => Vouched(candidates[id].record, decisions)))'
    BY <2>1, <2>2, <2>4 DEF WorkflowInv, Open
  <2>6. ApprovalsValidate'
    BY <2>1 DEF WorkflowInv, ApprovalsValidate
  <2> QED
    BY <2>1, <2>3, <2>5, <2>6, LeaveWorkflow
<1>6. ASSUME NEW w \in Workers, CommitEdit(w)
      PROVE  WorkflowInv'
  <2> DEFINE call == calls[w]
             row == Row(candidates[call.id].revision + 1, candidates[call.id].annotator,
                        "candidate", call.annotation, call.prepared, "none")
  <2>1. /\ candidates' = [candidates EXCEPT ![call.id] = row]
        /\ Leave(w) /\ UNCHANGED <<decisions, deployed>>
    BY <1>6 DEF CommitEdit
  <2>2. IsRow(row) /\ row.status = "candidate"
    BY DEF Row, IsRow, RowFields
  <2> HIDE DEF row
  <2>3. DOMAIN candidates' = DOMAIN candidates
    BY <2>1
  <2>4. \A id \in DOMAIN candidates : candidates'[id] = candidates[id] \/ candidates'[id] = row
    BY <2>1
  <2>5. (\A id \in DOMAIN candidates :
            IsRow(candidates[id]) /\ (~Open(id) => Vouched(candidates[id].record, decisions)))'
    BY <2>1, <2>2, <2>3, <2>4 DEF WorkflowInv, Open
  <2>6. ApprovalsValidate'
    BY <2>1 DEF WorkflowInv, ApprovalsValidate
  <2> QED
    BY <2>1, <2>3, <2>5, <2>6, LeaveWorkflow
<1>7. ASSUME NEW w \in Workers, CommitDecide(w)
      PROVE  WorkflowInv'
  <2> DEFINE call == calls[w]
             old == candidates[call.id]
             row == [old EXCEPT !.status = call.prepared.record.status,
                                !.record = call.prepared.record,
                                !.issues = call.prepared.issues,
                                !.reviewer = call.reviewer]
             entry == [id |-> call.id, revision |-> call.revision, reviewer |-> call.reviewer,
                       verdict |-> call.verdict, record |-> call.prepared.record,
                       corpus |-> call.corpus]
  <2>1. /\ candidates' = [candidates EXCEPT ![call.id] = row]
        /\ decisions' = decisions \cup {entry}
        /\ Leave(w) /\ UNCHANGED deployed
    BY <1>7 DEF CommitDecide
  <2>2. DecisionChecked(call) /\ call.id \in DOMAIN candidates
    BY <1>7 DEF CommitDecide, WorkflowInv, CallChecked
  <2>3. IsRow(old)
    BY <2>2 DEF WorkflowInv
  <2>4. DOMAIN row = RowFields /\ row.status = call.prepared.record.status
            /\ row.record = call.prepared.record
    BY <2>3 DEF IsRow, RowFields
  <2>5. IsRow(row)
    BY <2>2, <2>4 DEF IsRow, DecisionChecked
  <2>6. entry.verdict = call.verdict /\ entry.reviewer = call.reviewer
            /\ entry.record = call.prepared.record /\ entry.corpus = call.corpus
    OBVIOUS
  <2> HIDE DEF row, entry
  <2>7. row.status = "approved" => Vouched(row.record, decisions')
    BY <2>1, <2>2, <2>4, <2>6 DEF DecisionChecked, Vouched
  <2>8. DOMAIN candidates' = DOMAIN candidates
    BY <2>1
  <2>9. \A id \in DOMAIN candidates : candidates'[id] = candidates[id] \/ candidates'[id] = row
    BY <2>1
  <2>10. (\A id \in DOMAIN candidates :
            IsRow(candidates[id]) /\ (~Open(id) => Vouched(candidates[id].record, decisions)))'
    <3> SUFFICES ASSUME NEW id \in DOMAIN candidates
                 PROVE  /\ IsRow(candidates'[id])
                        /\ candidates'[id].status = "approved" =>
                              Vouched(candidates'[id].record, decisions')
      BY <2>8 DEF Open
    <3>1. CASE candidates'[id] = row
      BY <3>1, <2>5, <2>7
    <3>2. CASE candidates'[id] = candidates[id]
      BY <3>2, <2>1 DEF WorkflowInv, Open, Vouched
    <3> QED
      BY <3>1, <3>2, <2>9
  <2>11. ApprovalsValidate'
    BY <2>1, <2>2, <2>6 DEF WorkflowInv, ApprovalsValidate, DecisionChecked
  <2> QED
    BY <2>1, <2>8, <2>10, <2>11, LeaveWorkflow
<1>8. CASE Redeploy
  BY <1>8 DEF Redeploy, WorkflowInv, ForeignKeys, Open, ApprovalsValidate
<1>9. CASE UNCHANGED goldVars
  BY <1>9 DEF goldVars, WorkflowInv, ForeignKeys, Open, ApprovalsValidate
<1>10. QED
  BY <1>1, <1>2, <1>3, <1>4, <1>5, <1>6, <1>7, <1>8, <1>9 DEF Next

-----------------------------------------------------------------------------
(* Theorems                                                                *)

LEMMA WorkflowInvariant == ForeignKeys /\ Spec => []WorkflowInv
  BY InitWorkflow, NextWorkflow, PTL DEF Spec

\* Overlapping edits and decisions of any number of threads never put a record in
\* gold_qa.approved.jsonl (QaLabStore.export_gold_jsonl) that is not exactly the
\* one somebody other than its annotator approved, with the decision in the log.
THEOREM ExportsReviewed == ForeignKeys /\ Spec => []ExportedWasReviewed
<1>1. WorkflowInv => ExportedWasReviewed
  BY DEF WorkflowInv, ExportedWasReviewed, Exported, Vouched
<1>2. QED
  BY <1>1, WorkflowInvariant, PTL

\* An approval has no issue the release gate (validate_gold_dataset) would find on
\* the corpus it was made on, however the corpus is replaced between calls.
THEOREM ApprovalsPass == ForeignKeys /\ Spec => []ApprovalsValidate
<1>1. WorkflowInv => ApprovalsValidate
  BY DEF WorkflowInv
<1>2. QED
  BY <1>1, WorkflowInvariant, PTL

-----------------------------------------------------------------------------
(* The rows of the cases and of the runs                                    *)


\* The rows a file of cases may have, and those a run may have judged.
CaseRows == UNION {{[id |-> id, case |-> content] : content \in Contents[id]} : id \in DOMAIN Contents}

JudgedRow(case, answer) ==
    [id |-> case.id, case |-> case.case, answer |-> answer,
     verdict |-> Verdict(case.case, answer[1], answer[2])]

JudgedRows == UNION {{JudgedRow(case, answer) : answer \in Answers[case.id]} : case \in CaseRows}

Runs == [rows : SUBSET JudgedRows]

-----------------------------------------------------------------------------
(* The verdict                                                              *)

\* A set of numbers has a least one.
LEMMA LeastNumber ==
    ASSUME NEW S \in SUBSET Nat, S # {}
    PROVE  \E n \in S : \A m \in S : n <= m
<1> DEFINE R == {ss \in Nat \X Nat : ss[1] < ss[2]}
<1>1. IsWellFoundedOn(R, Nat)
  BY NatLessThanWellFounded, Zenon DEF OpToRel
<1> HIDE DEF R
<1>2. PICK n \in S : \A m \in S : ~(<<m, n>> \in R)
  BY <1>1, WFMin
<1>3. \A m \in S : ~(m < n)
  BY <1>2 DEF R
<1>4. QED
  BY <1>3

LEMMA PlacesCounted ==
    ASSUME NEW n \in Nat
    PROVE  IsFiniteSet(1 .. n) /\ Cardinality(1 .. n) = n
  BY FS_Interval

\* Without a failure no layer failed: the first of the failing layers has a name.
LEMMA NoLayerFails ==
    ASSUME NEW expected, NEW forbidden, NEW result, NEW trace, None \notin FAILURE_LAYERS,
           FirstFailure(expected, forbidden, result, trace) = None
    PROVE  /\ ~Infra(expected, result, trace)
           /\ ~Resolver(expected, result, trace)
           /\ ~ExecutorSequence(expected, result, trace)
           /\ ~OverLimit(expected, trace, "dense")
           /\ ~FinancialData(expected, result, trace)
           /\ ~Calculation(expected, result, trace)
           /\ ~EvidenceGate(expected, result, trace)
           /\ ~HcxFinal(forbidden, result)
<1> DEFINE layers == <<
            [layer |-> "INFRA", fails |-> Infra(expected, result, trace)],
            [layer |-> "RESOLVER", fails |-> Resolver(expected, result, trace)],
            [layer |-> "EXECUTOR", fails |-> ExecutorSequence(expected, result, trace)],
            [layer |-> "RETRIEVAL", fails |-> OverLimit(expected, trace, "dense")],
            [layer |-> "EXECUTOR", fails |-> OverLimit(expected, trace, "function_calling")],
            [layer |-> "EXECUTOR", fails |-> OverLimit(expected, trace, "hcx_final")],
            [layer |-> "FINANCIAL_DATA", fails |-> FinancialData(expected, result, trace)],
            [layer |-> "CALCULATION", fails |-> Calculation(expected, result, trace)],
            [layer |-> "EVIDENCE", fails |-> EvidenceGate(expected, result, trace)],
            [layer |-> "HCX_FINAL", fails |-> HcxFinal(forbidden, result)]>>
           failing == {i \in DOMAIN layers : layers[i].fails}
           first == CHOOSE i \in failing : \A j \in failing : i <= j
<1>1. DOMAIN layers = 1 .. 10
  OBVIOUS
<1>2. \A i \in 1 .. 10 : layers[i].layer \in FAILURE_LAYERS
  BY DEF FAILURE_LAYERS
<1>3. failing = {} \/ layers[first].layer = None
  BY DEF FirstFailure
<1> HIDE DEF layers
<1>4. ASSUME failing # {}
      PROVE  FALSE
  <2>1. failing \in SUBSET Nat
    BY <1>1
  <2>2. \E i \in failing : \A j \in failing : i <= j
    BY <1>4, <2>1, LeastNumber
  <2>3. first \in failing
    BY <2>2
  <2>4. first \in 1 .. 10
    BY <1>1, <2>3
  <2> HIDE DEF first
  <2>5. layers[first].layer \in FAILURE_LAYERS
    BY <1>2, <2>4
  <2> HIDE DEF failing
  <2>6. QED
    BY <1>3, <1>4, <2>5
<1>5. \A i \in 1 .. 10 : ~layers[i].fails
  BY <1>1, <1>4
<1>6. /\ ~layers[1].fails /\ ~layers[2].fails /\ ~layers[3].fails /\ ~layers[4].fails
      /\ ~layers[7].fails /\ ~layers[8].fails /\ ~layers[9].fails /\ ~layers[10].fails
  BY <1>5
<1>7. QED
  BY <1>6 DEF layers

\* What PassMeansExpected says of one row that passed.
PassedAsExpected(row) ==
    LET expected == row.case.expected
        result == row.answer[2]
    IN  /\ result.status \notin {"error", "provider_unavailable"}
        /\ Get(expected, "display_required", FALSE) =>
            LET shown == IF result.facts # None THEN result.facts ELSE result.values
            IN  shown \notin {None, <<>>} /\ \A k \in DOMAIN shown : shown[k].displayed
        /\ Get(expected, "comparison_complete", FALSE) => result.comparison = "complete"
        /\ Get(expected, "citation_required", FALSE) => Len(result.citations) > 0
        /\ result.allowed = Get(expected, "answer_allowed", result.allowed)
        /\ result.allowed => ~result.blank
        /\ row.case.forbidden \cap result.phrases = {}
        /\ LET tools == ToolsRun(result)
           IN  /\ Get(expected, "executor_tools", tools) = tools
               /\ Get(expected, "dense", Len(tools))
                    >= Cardinality({k \in DOMAIN tools : tools[k] \in Dense})

\* A row that was judged without a failure has what its case expects.
LEMMA JudgedAsExpected ==
    ASSUME WellFormed, NEW row \in JudgedRows, row.verdict = None
    PROVE  PassedAsExpected(row)
<1>0. PICK case \in CaseRows : \E answer \in Answers[case.id] : row = JudgedRow(case, answer)
  BY DEF JudgedRows
<1>1. PICK answer \in Answers[case.id] : row = JudgedRow(case, answer)
  BY <1>0
<1> DEFINE expected == row.case.expected
           forbidden == row.case.forbidden
           result == row.answer[2]
           tools == ToolsRun(result)
           trace == Trace(row.answer[1], result)
           dense == Cardinality({k \in DOMAIN tools : tools[k] \in Dense})
<1>2. row.case = case.case /\ row.answer = answer /\ Verdict(row.case, answer[1], answer[2]) = None
  BY <1>1 DEF JudgedRow
<1>3. /\ None \notin FAILURE_LAYERS /\ row.case \in Contents[case.id]
      /\ case.id \in DOMAIN Contents
  BY <1>2 DEF WellFormed, CaseRows
<1>4. result # None /\ FirstFailure(expected, forbidden, result, trace) = None
  BY <1>2, <1>3 DEF Verdict, FAILURE_LAYERS
<1>5. /\ IsList(result.citations) /\ IsList(tools) /\ Get(expected, "dense", 0) \in Int
  BY <1>2, <1>3, <1>4 DEF WellFormed
<1>6. /\ ~Infra(expected, result, trace)
      /\ ~ExecutorSequence(expected, result, trace)
      /\ ~OverLimit(expected, trace, "dense")
      /\ ~FinancialData(expected, result, trace)
      /\ ~Calculation(expected, result, trace)
      /\ ~EvidenceGate(expected, result, trace)
      /\ ~HcxFinal(forbidden, result)
  BY <1>3, <1>4, NoLayerFails
<1>7. /\ trace.tools = tools /\ trace.calls["dense"] = dense
      /\ trace.citations = Len(result.citations) /\ trace.allowed = result.allowed
  BY DEF Trace
<1>8. Len(tools) \in Nat /\ DOMAIN tools = 1 .. Len(tools) /\ Len(result.citations) \in Nat
  BY <1>5 DEF IsList
<1>9. dense \in Nat /\ dense <= Len(tools)
  <2> DEFINE found == {k \in DOMAIN tools : tools[k] \in Dense}
  <2>1. IsFiniteSet(DOMAIN tools) /\ Cardinality(DOMAIN tools) = Len(tools)
    BY <1>8, PlacesCounted
  <2>2. IsFiniteSet(found) /\ Cardinality(found) <= Len(tools)
    BY <2>1, FS_Subset
  <2>3. QED
    BY <2>2, FS_CardinalityType
<1> HIDE DEF trace, tools, dense, result, expected, forbidden
<1>10. ~(dense > Get(expected, "dense", dense))
  BY <1>6, <1>7 DEF OverLimit
<1>11. Get(expected, "dense", Len(tools)) >= dense
  BY <1>5, <1>8, <1>9, <1>10 DEF Get
<1>12. Get(expected, "executor_tools", tools) = tools
  BY <1>6, <1>7 DEF ExecutorSequence, Get
<1>13. result.status \notin {"error", "provider_unavailable"}
  BY <1>6 DEF Infra
<1>14. Get(expected, "comparison_complete", FALSE) => result.comparison = "complete"
  BY <1>6 DEF FinancialData
<1>15. /\ Get(expected, "citation_required", FALSE) => Len(result.citations) > 0
       /\ result.allowed = Get(expected, "answer_allowed", result.allowed)
  <2>1. Get(expected, "citation_required", FALSE) => trace.citations # 0
    BY <1>6 DEF EvidenceGate
  <2>2. Get(expected, "answer_allowed", trace.allowed) = trace.allowed
    BY <1>6 DEF EvidenceGate
  <2>3. Get(expected, "citation_required", FALSE) => Len(result.citations) > 0
    BY <1>7, <1>8, <2>1
  <2>4. result.allowed = Get(expected, "answer_allowed", result.allowed)
    BY <1>7, <2>2, Zenon
  <2>5. QED
    BY <2>3, <2>4
<1>16. (result.allowed => ~result.blank) /\ forbidden \cap result.phrases = {}
  BY <1>6 DEF HcxFinal
<1>17. ASSUME Get(expected, "display_required", FALSE)
       PROVE  LET shown == IF result.facts # None THEN result.facts ELSE result.values
              IN  shown \notin {None, <<>>} /\ \A k \in DOMAIN shown : shown[k].displayed
  <2>1. /\ DisplayRows(result) # <<>>
        /\ \A k \in DOMAIN DisplayRows(result) : DisplayRows(result)[k].displayed
    BY <1>6, <1>17 DEF Calculation
  <2>2. CASE result.facts # None
    BY <2>1, <2>2 DEF DisplayRows
  <2>3. CASE result.facts = None /\ result.values # None
    BY <2>1, <2>3 DEF DisplayRows
  <2>4. CASE result.facts = None /\ result.values = None
    BY <2>1, <2>4 DEF DisplayRows
  <2>5. QED
    BY <2>2, <2>3, <2>4
<1>18. QED
  BY <1>11, <1>12, <1>13, <1>14, <1>15, <1>16, <1>17
     DEF PassedAsExpected, trace, tools, dense, result, expected, forbidden

-----------------------------------------------------------------------------
(* The file and the runs                                                    *)

\* The calls in progress hold rows of cases, and rows judged so far.
SaveInv(call) == call.op = "save" => call.cases \in Seq(CaseRows)

RunInv(call) ==
    call.op = "run" => /\ call.cases \in Seq(CaseRows)
                       /\ call.left \in SUBSET (DOMAIN call.cases)
                       /\ call.rows \in SUBSET JudgedRows

EvalInv ==
    /\ file \in Seq(CaseRows)
    /\ runs \in Seq(Runs)
    /\ edits = [e \in Editors |-> edits[e]]
    /\ \A e \in Editors : SaveInv(edits[e]) /\ RunInv(edits[e])

\* A call that changes nothing but its own entry keeps the invariant if its
\* new entry does.
LEMMA CallStep ==
    ASSUME EvalInv, NEW e \in Editors, NEW call, edits' = [edits EXCEPT ![e] = call],
           SaveInv(call), RunInv(call), file' \in Seq(CaseRows), runs' \in Seq(Runs)
    PROVE  EvalInv'
<1>1. edits' = [x \in Editors |-> IF x = e THEN call ELSE edits[x]]
  BY DEF EvalInv
<1>2. \A x \in Editors : edits'[x] = IF x = e THEN call ELSE edits[x]
  BY <1>1
<1>3. edits' = [x \in Editors |-> edits'[x]]
  BY <1>1
<1>4. \A x \in Editors : SaveInv(edits'[x]) /\ RunInv(edits'[x])
  BY <1>2 DEF EvalInv
<1>5. QED
  BY <1>3, <1>4 DEF EvalInv

LEMMA IdleCall == SaveInv(Idle) /\ RunInv(Idle)
  BY DEF SaveInv, RunInv, Idle

\* InsertAt and RemoveAt of SequencesExt keep the elements of a sequence.
LEMMA InsertType ==
    ASSUME NEW S, NEW s \in Seq(S), NEW i \in 1 .. Len(s) + 1, NEW x \in S
    PROVE  InsertAt(s, i, x) \in Seq(S)
<1>1. Len(s) \in Nat
  OBVIOUS
<1>2. SubSeq(s, 1, i - 1) \in Seq(S) /\ SubSeq(s, i, Len(s)) \in Seq(S)
  BY <1>1
<1>3. QED
  BY <1>2 DEF InsertAt

LEMMA RemoveType ==
    ASSUME NEW S, NEW s \in Seq(S), NEW i \in DOMAIN s
    PROVE  RemoveAt(s, i) \in Seq(S)
<1>1. Len(s) \in Nat /\ i \in 1 .. Len(s)
  OBVIOUS
<1>2. SubSeq(s, 1, i - 1) \in Seq(S) /\ SubSeq(s, i + 1, Len(s)) \in Seq(S)
  BY <1>1
<1>3. QED
  BY <1>2 DEF RemoveAt

LEMMA EvalInvStep ==
    ASSUME WellFormed, EvalInv, [EvalNext]_evalVars
    PROVE  EvalInv'
<1>1. file \in Seq(CaseRows) /\ runs \in Seq(Runs)
  BY DEF EvalInv
<1>2. ASSUME NEW e \in Editors, NEW call, Begin(e, call), SaveInv(call), RunInv(call)
      PROVE  EvalInv'
  BY <1>1, <1>2, CallStep DEF Begin
<1>3. ASSUME NEW e \in Editors, NEW id \in DOMAIN Contents, NEW content \in Contents[id],
             BeginCreateCase(e, id, content)
      PROVE  EvalInv'
  <2> DEFINE call == [op |-> "save", cases |-> Append(file, [id |-> id, case |-> content])]
  <2>1. [id |-> id, case |-> content] \in CaseRows
    BY DEF CaseRows
  <2>2. SaveInv(call) /\ RunInv(call)
    BY <1>1, <2>1 DEF SaveInv, RunInv
  <2>3. QED
    BY <1>2, <1>3, <2>2 DEF BeginCreateCase
<1>4. ASSUME NEW e \in Editors, NEW id \in DOMAIN Contents, NEW content \in Contents[id],
             BeginUpdateCase(e, id, content)
      PROVE  EvalInv'
  <2> DEFINE cases == [i \in DOMAIN file |->
                        IF file[i].id = id THEN [id |-> id, case |-> content] ELSE file[i]]
             call == [op |-> "save", cases |-> cases]
  <2>1. [id |-> id, case |-> content] \in CaseRows
    BY DEF CaseRows
  <2>2. \A i \in 1 .. Len(file) : file[i] \in CaseRows
    BY <1>1
  <2>3. cases \in Seq(CaseRows)
    BY <1>1, <2>1, <2>2
  <2>4. SaveInv(call) /\ RunInv(call)
    BY <2>3 DEF SaveInv, RunInv
  <2>5. QED
    BY <1>2, <1>4, <2>4 DEF BeginUpdateCase
<1>5. ASSUME NEW e \in Editors, NEW id \in DOMAIN Contents, BeginDeleteCase(e, id)
      PROVE  EvalInv'
  <2>1. PICK i \in DOMAIN file : Begin(e, [op |-> "save", cases |-> RemoveAt(file, i)])
    BY <1>5 DEF BeginDeleteCase
  <2>2. RemoveAt(file, i) \in Seq(CaseRows)
    BY <1>1, RemoveType
  <2> DEFINE call == [op |-> "save", cases |-> RemoveAt(file, i)]
  <2>3. SaveInv(call) /\ RunInv(call)
    BY <2>2 DEF SaveInv, RunInv
  <2>4. QED
    BY <1>2, <2>1, <2>3
<1>6. ASSUME NEW e \in Editors, NEW ids, NEW failedOnly \in BOOLEAN, BeginRun(e, ids, failedOnly)
      PROVE  EvalInv'
  <2> DEFINE call == [op |-> "run", cases |-> file, left |-> Selected(ids, failedOnly), rows |-> {}]
  <2>1. Selected(ids, failedOnly) \in SUBSET (DOMAIN file)
    BY DEF Selected
  <2>2. SaveInv(call) /\ RunInv(call)
    BY <1>1, <2>1 DEF SaveInv, RunInv
  <2>3. QED
    BY <1>2, <1>6, <2>2 DEF BeginRun
<1>7. ASSUME NEW e \in Editors, Save(e)
      PROVE  EvalInv'
  <2>1. edits[e].cases \in Seq(CaseRows)
    BY <1>7 DEF Save, EvalInv, SaveInv
  <2>2. QED
    BY <1>1, <1>7, <2>1, IdleCall, CallStep DEF Save
<1>8. ASSUME NEW e \in Editors, Ask(e)
      PROVE  EvalInv'
  <2>1. PICK i \in edits[e].left : \E answer \in Answers[edits[e].cases[i].id] :
            edits' = [edits EXCEPT
                ![e].left = @ \ {i},
                ![e].rows = @ \cup {JudgedRow(edits[e].cases[i], answer)}]
    BY <1>8 DEF Ask, JudgedRow
  <2>2. PICK answer \in Answers[edits[e].cases[i].id] :
            edits' = [edits EXCEPT
                ![e].left = @ \ {i},
                ![e].rows = @ \cup {JudgedRow(edits[e].cases[i], answer)}]
    BY <2>1
  <2> DEFINE row == JudgedRow(edits[e].cases[i], answer)
             call == [[edits[e] EXCEPT !.left = @ \ {i}] EXCEPT !.rows = @ \cup {row}]
  <2>3. /\ edits[e].op = "run" /\ edits[e].cases \in Seq(CaseRows)
        /\ edits[e].left \in SUBSET (DOMAIN edits[e].cases) /\ edits[e].rows \in SUBSET JudgedRows
    BY <1>8 DEF Ask, EvalInv, RunInv
  <2>4. edits[e].cases[i] \in CaseRows
    BY <2>3
  <2>5. row \in JudgedRows
    BY <2>4 DEF JudgedRows
  <2>6. edits' = [edits EXCEPT ![e] = call]
    BY <2>2
  <2> HIDE DEF row
  <2>7. /\ call.op = edits[e].op /\ call.cases = edits[e].cases
        /\ call.left \in SUBSET edits[e].left
        /\ call.rows \in SUBSET (edits[e].rows \cup {row})
    OBVIOUS
  <2> HIDE DEF call
  <2>8. SaveInv(call) /\ RunInv(call)
    BY <2>3, <2>5, <2>7 DEF SaveInv, RunInv
  <2>9. QED
    BY <1>1, <1>8, <2>6, <2>8, CallStep DEF Ask
<1>9. ASSUME NEW e \in Editors, SaveRun(e)
      PROVE  EvalInv'
  <2>1. [rows |-> edits[e].rows] \in Runs
    BY <1>9 DEF SaveRun, EvalInv, RunInv, Runs
  <2>2. PICK place \in {Len(runs) + 1} \cup (DOMAIN runs \cap {Len(runs)}) :
            runs' = InsertAt(runs, place, [rows |-> edits[e].rows])
    BY <1>9 DEF SaveRun
  <2>3. place \in 1 .. Len(runs) + 1
    BY <1>1
  <2>4. runs' \in Seq(Runs)
    BY <1>1, <2>1, <2>2, <2>3, InsertType
  <2>5. QED
    BY <1>1, <1>9, <2>4, IdleCall, CallStep DEF SaveRun
<1>10. CASE UNCHANGED evalVars
  BY <1>10 DEF evalVars, EvalInv
<1>11. QED
  BY <1>3, <1>4, <1>5, <1>6, <1>7, <1>8, <1>9, <1>10 DEF EvalNext

\* However many threads edit the cases at once, each from the file it read: the
\* file never holds an id twice, so that list_cases can read it again.
THEOREM NoCaseTwice == EvalSpec => []CasesUnique
<1>1. EvalInit => CasesUnique
  <2>1. Ids(<<>>) = {}
    BY DEF Ids
  <2>2. QED
    BY <2>1, FS_EmptySet DEF EvalInit, CasesUnique, Unique
<1>2. CasesUnique /\ [EvalNext]_evalVars => CasesUnique'
  <2>1. ASSUME NEW e \in Editors, Save(e)
        PROVE  CasesUnique'
    BY <2>1 DEF Save, CasesUnique
  <2>2. UNCHANGED file \/ (\E e \in Editors : Save(e)) \/ ~[EvalNext]_evalVars
    BY DEF EvalNext, evalVars, BeginCreateCase, BeginUpdateCase, BeginDeleteCase, BeginRun, Begin, Ask, SaveRun
  <2>3. QED
    BY <2>1, <2>2 DEF CasesUnique, Unique, Ids
<1>3. QED
  BY <1>1, <1>2, PTL DEF EvalSpec

\* Whatever the pipeline answers and whichever case changes while a run asks it: a
\* row that a run shows as passed has everything the case it was judged against
\* expects; no layer that is looked at first hides the failure of a later one.
THEOREM PassedRowsAreRight == WellFormed /\ EvalSpec => []PassMeansExpected
<1> SUFFICES ASSUME WellFormed
             PROVE  EvalSpec => []PassMeansExpected
  OBVIOUS
<1>1. EvalInit => EvalInv
  BY IdleCall DEF EvalInit, EvalInv
<1>2. EvalInv /\ [EvalNext]_evalVars => EvalInv'
  BY EvalInvStep
<1>3. EvalInv => PassMeansExpected
  <2> SUFFICES ASSUME EvalInv, NEW i \in DOMAIN runs, NEW row \in runs[i].rows,
                      row.verdict = None
               PROVE  PassedAsExpected(row)
    BY DEF PassMeansExpected, PassedAsExpected
  <2>1. runs[i] \in Runs
    BY DEF EvalInv
  <2>2. QED
    BY <2>1, JudgedAsExpected DEF Runs
<1>4. QED
  BY <1>1, <1>2, <1>3, PTL DEF EvalSpec
=============================================================================
