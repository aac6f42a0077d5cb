--------------------------- MODULE CorpusDatabase ---------------------------
(***************************************************************************)
(* The corpus database: build_database (pipeline.py, with quality.py), its *)
(* promotion to the served name, and the semantic migration of a copy      *)
(* (migration.py), in src/src/disclosure_db.                               *)
(*                                                                         *)
(* Both are commands an operator runs; either may be killed at any step,   *)
(* and may be run again.  A database is [digest, filings, sources,         *)
(* versions, issues, done]: the digest is a number, odd when build n made  *)
(* the file (2n - 1) and even once its size is recorded in it (2n); done   *)
(* says that its pipeline_run row has status success.                      *)
(***************************************************************************)
EXTENDS Lineage, TLC

CONSTANTS
    Corpora,        \* the manifests: sets of filings, each with files and n_files
    MaxBuilds       \* bound: builds started

\* filing_id is a primary key and every filing has a date.
ASSUME CorporaAssumption == \A corpus \in Corpora : Identified(corpus)

VARIABLES
    served,         \* output_db
    previous,       \* output_db.previous
    temp,           \* the temporary database of the running build
    pc, rest,       \* where the build is; the filings it has still to load
    builds,         \* number of builds started
    copy,           \* the migrated copy: its committed state
    pending,        \* what the migration has written since its last commit
    step            \* where the migration is

buildVars == <<served, previous, temp, pc, rest, builds>>
migrationVars == <<copy, pending, step>>
databaseVars == <<buildVars, migrationVars>>

NoFile == [digest |-> 0]
Exists(db) == db # NoFile

-----------------------------------------------------------------------------
(* Sources of a filing: [format, role, text, images, opens, strict]          *)

\* sniff_format decides the parser; parse_pdf, parse_markup and the test for a
\* viewer shell decide the status.
ParseStatus(file) ==
    CASE file.format = "unknown" -> "unsupported"
      [] file.format # "unknown" /\ ~file.opens -> "failed"
      [] file.format # "unknown" /\ file.opens /\
            (file.text = "none" \/ (file.role = "viewer_toc" /\ file.text = "short")) -> "partial"
      [] OTHER -> "success"

Warnings(file) ==
    (IF file.format = "dart_xml" /\ file.opens /\ ~file.strict THEN {"recovery_parser_used"} ELSE {})
        \cup (IF file.format = "pdf" /\ file.opens THEN {"pdf_table_unvalidated"} ELSE {})

SourceRow(filing, file) ==
    [filing |-> filing.id, format |-> file.format, role |-> file.role,
     status |-> ParseStatus(file), warnings |-> Warnings(file), images |-> file.images]

-----------------------------------------------------------------------------
(* evaluate_quality                                                         *)

LineageIssues(versions) ==
    {<<"warning", v.status, v.filing>> : v \in {x \in versions : ~Safe(x)}}

QualityIssues(db, expected) ==
    (IF Cardinality(db.filings) # expected THEN {<<"error", "source_missing", 0>>} ELSE {})
    \cup {<<"error", "parse_failure", s.filing>> : s \in {x \in db.sources : x.status = "failed"}}
    \cup {<<"warning", "parse_partial", s.filing>> :
            s \in {x \in db.sources : x.status \in {"partial", "unsupported"}}}
    \cup (UNION {{<<"warning", w, s.filing>> : w \in s.warnings} : s \in db.sources})
    \cup {<<"warning", "image_review", s.filing>> : s \in {x \in db.sources : x.images > 0}}
    \cup LineageIssues(db.versions)
    \cup {<<"error", "event_current_cardinality", e>> : e \in
            {x \in Events(db.versions) :
                Cardinality({v \in OfEvent(db.versions, x) : v.current}) # 1}}

-----------------------------------------------------------------------------
(* build_database                                                           *)

Unbuilt == UNCHANGED migrationVars

\* load_manifest, mkstemp, create_schema and the row of the run.
Begin(corpus) ==
    /\ pc = "down"
    /\ builds < MaxBuilds
    /\ builds' = builds + 1
    /\ temp' = [digest |-> 2 * builds + 1, filings |-> {}, sources |-> {}, versions |-> {},
                issues |-> {}, done |-> FALSE]
    /\ rest' = corpus
    /\ pc' = "load"
    /\ UNCHANGED <<served, previous>> /\ Unbuilt

\* One filing and all of its files; a wrong number of files stops the build.
LoadFiling ==
    /\ pc = "load"
    /\ \E filing \in rest :
        /\ Cardinality(filing.files) = filing.declared
        /\ temp' = [temp EXCEPT !.filings = @ \cup {filing},
                                !.sources = @ \cup {SourceRow(filing, f) : f \in filing.files}]
        /\ rest' = rest \ {filing}
    /\ UNCHANGED <<served, previous, pc, builds>> /\ Unbuilt

CheckFiles ==
    /\ pc = "load"
    /\ \E filing \in rest : Cardinality(filing.files) # filing.declared
    /\ temp' = NoFile /\ rest' = {} /\ pc' = "down"
    /\ UNCHANGED <<served, previous, builds>> /\ Unbuilt

Analyse ==
    /\ pc = "load" /\ rest = {}
    /\ LET linked == [temp EXCEPT !.versions = Versions(temp.filings)]
       IN  temp' = [linked EXCEPT !.issues = QualityIssues(linked, Cardinality(linked.filings)),
                                  !.done = TRUE]
    /\ pc' = IF Exists(served) THEN "drop" ELSE "promote"
    /\ UNCHANGED <<served, previous, rest, builds>> /\ Unbuilt

\* An older backup is deleted, the served file becomes the backup, and the new
\* one is moved to its name: three calls.
DropBackup ==
    /\ pc = "drop"
    /\ previous' = NoFile /\ pc' = "retire"
    /\ UNCHANGED <<served, temp, rest, builds>> /\ Unbuilt

\* Faulty variant of Retire: the old database is removed, not renamed.
RemoveServed ==
    /\ pc = "retire"
    /\ served' = NoFile /\ pc' = "promote"
    /\ UNCHANGED <<previous, temp, rest, builds>> /\ Unbuilt

Retire ==
    /\ pc = "retire"
    /\ previous' = served /\ served' = NoFile /\ pc' = "promote"
    /\ UNCHANGED <<temp, rest, builds>> /\ Unbuilt

Promote ==
    /\ pc = "promote"
    /\ served' = temp /\ temp' = NoFile /\ pc' = "size"
    /\ UNCHANGED <<previous, rest, builds>> /\ Unbuilt

\* The size of the served file is written into it: the same corpus, another digest.
RecordSize ==
    /\ pc = "size"
    /\ served' = [served EXCEPT !.digest = @ + 1] /\ pc' = "down"
    /\ UNCHANGED <<previous, temp, rest, builds>> /\ Unbuilt

\* Killed: the temporary file has a random name and is never looked at again.
KillBuild ==
    /\ pc # "down"
    /\ temp' = NoFile /\ rest' = {} /\ pc' = "down"
    /\ UNCHANGED <<served, previous, builds>> /\ Unbuilt

-----------------------------------------------------------------------------
(* copy_database and apply_semantic_migration                                *)

Unmigrated == UNCHANGED buildVars

\* The backup API copies page by page: killed half-way it leaves a file that the
\* next attempt refuses (FileExistsError) and an operator removes.
CopyDatabase ==
    /\ step = "none" /\ Exists(served)
    /\ copy' = [versions |-> served.versions, filings |-> served.filings, sources |-> served.sources,
                script |-> FALSE, fts |-> FALSE, refreshed |-> {"stale"}, recorded |-> FALSE]
    /\ pending' = copy' /\ step' = "script"
    /\ Unmigrated

\* executescript commits what came before it and then runs the script.
Script ==
    /\ step = "script"
    /\ pending' = [pending EXCEPT !.script = TRUE]
    /\ copy' = pending' /\ step' = "lineage"
    /\ Unmigrated

RebuildLineage ==
    /\ step = "lineage"
    /\ pending' = [pending EXCEPT !.versions = Versions(pending.filings)]
    /\ step' = "fts" /\ UNCHANGED copy
    /\ Unmigrated

\* Faulty variant of RebuildFts: the migration is recorded before the search
\* table is rebuilt, so that the script's commit makes it durable.
RecordedEarly ==
    /\ step = "fts"
    /\ pending' = [pending EXCEPT !.fts = TRUE, !.recorded = TRUE]
    /\ copy' = pending' /\ step' = "refresh"
    /\ Unmigrated

\* The second executescript: it commits the new lineage, before the integrity
\* check and everything that may still fail.
RebuildFts ==
    /\ step = "fts"
    /\ pending' = [pending EXCEPT !.fts = TRUE]
    /\ copy' = pending' /\ step' = "refresh"
    /\ Unmigrated

\* _refresh_semantic_quality_issues
RefreshIssues ==
    /\ step = "refresh"
    /\ pending' = [pending EXCEPT !.refreshed = LineageIssues(pending.versions)]
    /\ step' = "record" /\ UNCHANGED copy
    /\ Unmigrated

RecordMigration ==
    /\ step = "record"
    /\ pending' = [pending EXCEPT !.recorded = TRUE]
    /\ copy' = pending' /\ step' = "done"
    /\ Unmigrated

\* An exception rolls back to the last commit, a kill does the same; the
\* migration is run again on the same file.
Interrupted ==
    /\ step \in {"script", "lineage", "fts", "refresh", "record"}
    /\ pending' = copy /\ step' = "script" /\ UNCHANGED copy
    /\ Unmigrated

-----------------------------------------------------------------------------

Init ==
    /\ served = NoFile /\ previous = NoFile /\ temp = NoFile
    /\ pc = "down" /\ rest = {} /\ builds = 0
    /\ copy = NoFile /\ pending = NoFile /\ step = "none"

BuildNext ==
    \/ \E corpus \in Corpora : Begin(corpus)
    \/ LoadFiling \/ CheckFiles \/ Analyse \/ DropBackup \/ Retire \/ Promote
    \/ RecordSize \/ KillBuild

MigrationNext ==
    \/ CopyDatabase \/ Script \/ RebuildLineage \/ RebuildFts \/ RefreshIssues
    \/ RecordMigration \/ Interrupted

Next == BuildNext \/ MigrationNext

Spec == Init /\ [][Next]_databaseVars

-----------------------------------------------------------------------------
(* Properties                                                               *)

\* Once a build was promoted there is a finished database under the served or the
\* backup name, wherever a later build is killed.
NeverLost ==
    [][Exists(served) \/ Exists(previous) => Exists(served') \/ Exists(previous')]_databaseVars

\* What is served is a finished build, whose versions are right on every date.
ServedLineageSound ==
    Exists(served) =>
        /\ served.done
        /\ LineageSound(served.filings, served.versions, {f.filed : f \in served.filings})

\* A copy that says it was migrated has the schema, the lineage, the search table
\* and the issues of that lineage, whatever failed before it was run again.
MigrationWhole ==
    (step # "none" /\ copy.recorded) =>
        /\ copy.script /\ copy.fts
        /\ copy.versions = Versions(copy.filings)
        /\ copy.refreshed = LineageIssues(copy.versions)
=============================================================================
