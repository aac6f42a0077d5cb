------------------------------ MODULE EvalCases ------------------------------
(***************************************************************************)
(* The QA cases and evaluation runs of the dashboard: QaCaseStore and      *)
(* QaEvaluator (src/src/disclosure_db/qa_evaluation.py) and the handlers   *)
(* of api.py.  The cases are one JSONL file.  Each change reads the whole  *)
(* file, changes it in memory and replaces it, on a thread of its own and  *)
(* without a lock, so a change made in between is lost.                    *)
(***************************************************************************)
EXTENDS EvalVerdict, Integers, SequencesExt, TLC

CONSTANTS
    Editors,        \* threads serving the dashboard
    Contents,       \* id -> the contents a case may have: [expected, forbidden]
    Answers,        \* question id -> {<<route, result>>}: what the pipeline may do
    MaxCases,       \* bound: length of the file
    MaxRuns         \* bound: saved runs

VARIABLES
    file,           \* cases_path: Seq([id, case])
    runs,           \* results_directory, in the order of the names
    edits           \* editor -> the call it is in the middle of

evalVars == <<file, runs, edits>>

Idle == [op |-> "none"]
Ids(cases) == {cases[i].id : i \in DOMAIN cases}
Unique(cases) == Cardinality(Ids(cases)) = Len(cases)

\* Of the cases and answers: a limit of calls is a number, citations and the tools
\* that ran are lists, and no layer of failures has the name of no failure.
IsList(s) == s \in Seq({s[i] : i \in DOMAIN s})

WellFormed ==
    /\ None \notin FAILURE_LAYERS
    /\ \A id \in DOMAIN Contents :
        /\ \A content \in Contents[id] : Get(content.expected, "dense", 0) \in Int
        /\ \A answer \in Answers[id] :
            answer[2] # None => IsList(answer[2].citations) /\ IsList(ToolsRun(answer[2]))

EvalInit ==
    /\ file = <<>>
    /\ runs = <<>>
    /\ edits = [e \in Editors |-> Idle]

\* list_cases refuses a file with a duplicate id, and every call begins with it.
Begin(e, call) ==
    /\ edits[e] = Idle
    /\ Unique(file)
    /\ edits' = [edits EXCEPT ![e] = call]
    /\ UNCHANGED <<file, runs>>

BeginCreateCase(e, id, content) ==
    /\ id \notin Ids(file)
    /\ Len(file) < MaxCases
    /\ Begin(e, [op |-> "save", cases |-> Append(file, [id |-> id, case |-> content])])

BeginUpdateCase(e, id, content) ==
    /\ id \in Ids(file)
    /\ Begin(e, [op |-> "save",
                 cases |-> [i \in DOMAIN file |->
                    IF file[i].id = id THEN [id |-> id, case |-> content] ELSE file[i]]])

BeginDeleteCase(e, id) ==
    \E i \in DOMAIN file :
        /\ file[i].id = id
        /\ Begin(e, [op |-> "save", cases |-> RemoveAt(file, i)])

\* Faulty variant of Save: the file is extended by the new case,
\* not replaced.
AppendLast(e) ==
    /\ edits[e].op = "save"
    /\ file' = IF Len(edits[e].cases) > Len(file) /\ Len(file) < MaxCases
               THEN Append(file, Last(edits[e].cases)) ELSE edits[e].cases
    /\ edits' = [edits EXCEPT ![e] = Idle]
    /\ UNCHANGED runs

\* save_cases: the file is replaced as a whole.
Save(e) ==
    /\ edits[e].op = "save"
    /\ Unique(edits[e].cases)
    /\ file' = edits[e].cases
    /\ edits' = [edits EXCEPT ![e] = Idle]
    /\ UNCHANGED runs

\* The failed rows of the run with the greatest name.
LastFailed ==
    IF runs = <<>> THEN {}
    ELSE {row.id : row \in {r \in Last(runs).rows : r.verdict # None}}

\* run_eval: the places of the selected cases; no id selected, and no previous
\* failure, selects every case.
Selected(ids, failedOnly) ==
    LET chosen == IF failedOnly THEN ids \cup LastFailed ELSE ids
    IN  {i \in DOMAIN file : chosen = {} \/ file[i].id \in chosen}

BeginRun(e, ids, failedOnly) ==
    /\ Len(runs) + Cardinality({x \in Editors : edits[x].op = "run"}) < MaxRuns
    /\ Selected(ids, failedOnly) # {}
    /\ Begin(e, [op |-> "run", cases |-> file, left |-> Selected(ids, failedOnly), rows |-> {}])

\* The next case of a run, in the order of the file: the service is asked, and its
\* answer judged.
Ask(e) ==
    /\ edits[e].op = "run"
    /\ \E i \in edits[e].left :
        LET case == edits[e].cases[i]
        IN  /\ \A j \in edits[e].left : i <= j
            /\ \E answer \in Answers[case.id] :
                 edits' = [edits EXCEPT
                    ![e].left = @ \ {i},
                    ![e].rows = @ \cup {[id |-> case.id, case |-> case.case, answer |-> answer,
                                         verdict |-> Verdict(case.case, answer[1], answer[2])]}]
    /\ UNCHANGED <<file, runs>>

\* The name has the second the run ended in and a random suffix: two runs that
\* end in one second are saved in either order.
SaveRun(e) ==
    /\ edits[e].op = "run"
    /\ edits[e].left = {}
    /\ \E place \in {Len(runs) + 1} \cup (DOMAIN runs \cap {Len(runs)}) :
        runs' = InsertAt(runs, place, [rows |-> edits[e].rows])
    /\ edits' = [edits EXCEPT ![e] = Idle]
    /\ UNCHANGED file

EvalNext == \E e \in Editors :
    \/ \E id \in DOMAIN Contents : \E content \in Contents[id] :
        BeginCreateCase(e, id, content) \/ BeginUpdateCase(e, id, content)
    \/ \E id \in DOMAIN Contents : BeginDeleteCase(e, id)
    \/ \E ids \in {{}} \cup {{id} : id \in DOMAIN Contents}, failedOnly \in BOOLEAN :
        BeginRun(e, ids, failedOnly)
    \/ Save(e) \/ Ask(e) \/ SaveRun(e)

EvalSpec == EvalInit /\ [][EvalNext]_evalVars

-----------------------------------------------------------------------------
(* Properties                                                              *)

\* Whatever edits overlap, the file never holds an id twice: list_cases would
\* refuse it from then on, and the dashboard could not be repaired through it.
CasesUnique == Unique(file)

\* A case that passed has everything it expects: the layers are looked at one
\* after another, and none of them hides a failure of a later one.
PassMeansExpected ==
    \A i \in DOMAIN runs : \A row \in runs[i].rows :
        (row.verdict = None) =>
            LET expected == row.case.expected
                result == row.answer[2]
                rows == DisplayRows(result)
            IN  /\ result.status \notin {"error", "provider_unavailable"}
                /\ Get(expected, "display_required", FALSE) =>
                    LET shown == IF result.facts # None THEN result.facts ELSE result.values
                    IN  shown \notin {None, <<>>} /\ \A k \in DOMAIN shown : shown[k].displayed
                /\ Get(expected, "comparison_complete", FALSE) => result.comparison = "complete"
                /\ Get(expected, "citation_required", FALSE) => Len(result.citations) > 0
                /\ result.allowed = Get(expected, "answer_allowed", result.allowed)
                /\ result.allowed => ~result.blank
                /\ row.case.forbidden \cap result.phrases = {}
                /\ LET tools == ToolsRun(result)
                   IN  /\ Get(expected, "executor_tools", tools) = tools
                       /\ Get(expected, "dense", Len(tools))
                            >= Cardinality({k \in DOMAIN tools : tools[k] \in Dense})
==============================================================================
