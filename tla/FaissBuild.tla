----------------------------- MODULE FaissBuild -----------------------------
(***************************************************************************)
(* The resumable build of the dense index (build_bge_m3_faiss in           *)
(* src/src/disclosure_db/bge_m3_faiss.py): batches of chunk lines are      *)
(* embedded and recorded in an index, a metadata file and a failures file, *)
(* and a checkpoint says how much of each file counts.  The process may be *)
(* killed between any two file operations, and in the middle of an append. *)
(*                                                                         *)
(* A line is its number, a vector is the line it embeds, and an offset is  *)
(* a number of rows.  The index and the two JSON files are replaced        *)
(* atomically; appends reach the file in order and may be cut short.       *)
(***************************************************************************)
EXTENDS Naturals, Sequences, FiniteSets, Functions

CONSTANTS
    LineCount,    \* lines of the chunk file
    Limit,        \* --limit; 0 for none
    BatchSize,
    Malformed,    \* lines _parse_line rejects
    MaxCrashes    \* bound of the search

ASSUME FaissAssumption ==
    /\ LineCount \in Nat /\ Limit \in Nat /\ MaxCrashes \in Nat
    /\ BatchSize \in Nat \ {0}
    /\ Malformed \subseteq 1 .. LineCount

VARIABLES
    files,        \* the output files that exist
    index,        \* the vectors of the index file
    metadata,     \* its rows: [line, id]
    failures,     \* its rows: line numbers
    checkpoint,   \* [lines, rows, failed, vectors, complete]
    manifest,     \* the contents of the outputs it describes
    pc,           \* where the builder is; "down" when none runs
    mem,          \* its memory: [index, lines, rows, failed]
    crashes

stored == <<files, index, metadata, failures, checkpoint, manifest>>
vars == <<stored, pc, mem, crashes>>

Target == IF Limit = 0 \/ LineCount < Limit THEN LineCount ELSE Limit

Outputs == {"index", "metadata", "failures"}
Torn == 0
TornRow == [line |-> Torn, id |-> Torn]
NoManifest == [index |-> <<>>, metadata |-> <<>>, failures |-> <<>>]

\* rows and failed are the rows of the batch that are not written yet.
EmptyMemory == [index |-> <<>>, lines |-> 0, rows |-> <<>>, failed |-> <<>>]

\* _checkpoint_value for what is on disk and in memory.
CheckpointValue(complete) ==
    [lines |-> mem.lines, rows |-> Len(metadata), failed |-> Len(failures),
     vectors |-> Len(mem.index), complete |-> complete]

NoCheckpoint == [lines |-> 0, rows |-> 0, failed |-> 0, vectors |-> 0, complete |-> FALSE]

-----------------------------------------------------------------------------
Init ==
    /\ files = {}
    /\ index = <<>> /\ metadata = <<>> /\ failures = <<>>
    /\ checkpoint = NoCheckpoint /\ manifest = NoManifest
    /\ pc = "down" /\ mem = EmptyMemory
    /\ crashes = 0

\* A build without --resume refuses a directory that holds any output.
StartFresh ==
    /\ pc = "down" /\ files = {}
    /\ pc' = "creating"
    /\ UNCHANGED <<stored, mem, crashes>>

\* The empty outputs, in this order, then the first checkpoint.
CreateOutputs ==
    /\ pc = "creating"
    /\ \/ "metadata" \notin files /\ files' = files \cup {"metadata"} /\ UNCHANGED pc
       \/ /\ "metadata" \in files /\ "failures" \notin files
          /\ files' = files \cup {"failures"} /\ UNCHANGED pc
       \/ /\ "failures" \in files /\ "index" \notin files
          /\ files' = files \cup {"index"} /\ UNCHANGED pc
       \/ "index" \in files /\ files' = files \cup {"checkpoint"} /\ pc' = "reading"
    /\ UNCHANGED <<index, metadata, failures, checkpoint, manifest, mem, crashes>>

\* Faulty variants of Resume: the index is left as it is; the input is read from
\* its start; an index ahead of the checkpoint is refused.
ResumeWithoutRepair ==
    /\ pc = "down"
    /\ "checkpoint" \in files /\ ~checkpoint.complete
    /\ mem' = [EmptyMemory EXCEPT !.index = index, !.lines = checkpoint.lines]
    /\ pc' = "truncating"
    /\ UNCHANGED <<stored, crashes>>

ResumeFromStart ==
    /\ pc = "down"
    /\ "checkpoint" \in files /\ ~checkpoint.complete
    /\ index' = SubSeq(index, 1, checkpoint.vectors)
    /\ mem' = [EmptyMemory EXCEPT !.index = index']
    /\ pc' = "truncating"
    /\ UNCHANGED <<files, metadata, failures, checkpoint, manifest, crashes>>

ResumeExactIndex ==
    /\ pc = "down"
    /\ "checkpoint" \in files /\ ~checkpoint.complete
    /\ Len(index) = checkpoint.vectors
    /\ mem' = [EmptyMemory EXCEPT !.index = index, !.lines = checkpoint.lines]
    /\ pc' = "truncating"
    /\ UNCHANGED <<stored, crashes>>

\* --resume: the vectors beyond the checkpoint are removed from the index.
\* Without a checkpoint, an output or enough vectors it raises; a complete
\* checkpoint only returns the manifest.
Resume ==
    /\ pc = "down"
    /\ "checkpoint" \in files /\ ~checkpoint.complete
    /\ Outputs \subseteq files
    /\ Len(index) >= checkpoint.vectors
    /\ index' = SubSeq(index, 1, checkpoint.vectors)
    /\ mem' = [EmptyMemory EXCEPT !.index = index', !.lines = checkpoint.lines]
    /\ pc' = "truncating"
    /\ UNCHANGED <<files, metadata, failures, checkpoint, manifest, crashes>>

\* Faulty variant of TruncateMetadata: uncounted rows stay.
KeepMetadata ==
    /\ pc = "truncating"
    /\ pc' = "truncating_failures"
    /\ UNCHANGED <<stored, mem, crashes>>

TruncateMetadata ==
    /\ pc = "truncating"
    /\ metadata' = SubSeq(metadata, 1, checkpoint.rows)
    /\ pc' = "truncating_failures"
    /\ UNCHANGED <<files, index, failures, checkpoint, manifest, mem, crashes>>

TruncateFailures ==
    /\ pc = "truncating_failures"
    /\ failures' = SubSeq(failures, 1, checkpoint.failed)
    /\ pc' = "reading"
    /\ UNCHANGED <<files, index, metadata, checkpoint, manifest, mem, crashes>>

-----------------------------------------------------------------------------
(* One batch                                                               *)

\* Faulty variant of BatchLines: a batch may pass the limit.
BatchBeyondLimit ==
    {l \in 1 .. LineCount : mem.lines < Target /\ mem.lines < l /\ l <= mem.lines + BatchSize}

BatchLines ==
    {l \in 1 .. Target : mem.lines < l /\ l <= mem.lines + BatchSize}

\* The lines in the order of the file.
InOrder(lines) ==
    {s \in [1 .. Cardinality(lines) -> lines] : \A i, j \in DOMAIN s : i < j => s[i] < s[j]}

\* _process_batch: a line that parses is embedded or fails; its vector goes
\* into the index in memory and its row gets the vector's number.
ProcessBatch ==
    /\ pc = "reading" /\ BatchLines # {}
    /\ \E ok \in SUBSET (BatchLines \ Malformed) :
       \E embedded \in InOrder(ok), failed \in InOrder(BatchLines \ ok) :
        mem' = [index |-> mem.index \o embedded,
                lines |-> mem.lines + Cardinality(BatchLines),
                rows |-> [i \in DOMAIN embedded |->
                            [line |-> embedded[i], id |-> Len(mem.index) + i - 1]],
                failed |-> failed]
    /\ pc' = "appending"
    /\ UNCHANGED <<stored, crashes>>

AppendMetadata ==
    /\ pc = "appending"
    /\ metadata' = metadata \o mem.rows
    /\ pc' = "appending_failures"
    /\ UNCHANGED <<files, index, failures, checkpoint, manifest, mem, crashes>>

AppendFailures ==
    /\ pc = "appending_failures"
    /\ failures' = failures \o mem.failed
    /\ pc' = "storing_index"
    /\ UNCHANGED <<files, index, metadata, checkpoint, manifest, mem, crashes>>

StoreIndex ==
    /\ pc = "storing_index"
    /\ index' = mem.index
    /\ pc' = "checkpointing"
    /\ UNCHANGED <<files, metadata, failures, checkpoint, manifest, mem, crashes>>

StoreCheckpoint ==
    /\ pc = "checkpointing"
    /\ checkpoint' = CheckpointValue(FALSE)
    /\ pc' = "reading"
    /\ UNCHANGED <<files, index, metadata, failures, manifest, mem, crashes>>

\* The loop is over: the manifest describes the files as they are.
Publish ==
    /\ pc = "reading" /\ BatchLines = {}
    /\ files' = files \cup {"manifest"}
    /\ manifest' = [index |-> index, metadata |-> metadata, failures |-> failures]
    /\ pc' = "completing"
    /\ UNCHANGED <<index, metadata, failures, checkpoint, mem, crashes>>

Complete ==
    /\ pc = "completing"
    /\ checkpoint' = CheckpointValue(TRUE)
    /\ pc' = "down" /\ mem' = EmptyMemory
    /\ UNCHANGED <<files, index, metadata, failures, manifest, crashes>>

\* What a killed append leaves: some rows, perhaps with a torn one after them.
CutShort(rows, torn) ==
    {SubSeq(rows, 1, k) : k \in 0 .. Len(rows)}
        \cup {Append(SubSeq(rows, 1, k), torn) : k \in 0 .. Len(rows) - 1}

Crash ==
    /\ pc # "down" /\ crashes < MaxCrashes
    /\ crashes' = crashes + 1
    /\ pc' = "down" /\ mem' = EmptyMemory
    /\ IF pc = "appending"
       THEN \E cut \in CutShort(mem.rows, TornRow) : metadata' = metadata \o cut
       ELSE UNCHANGED metadata
    /\ IF pc = "appending_failures"
       THEN \E cut \in CutShort(mem.failed, Torn) : failures' = failures \o cut
       ELSE UNCHANGED failures
    /\ UNCHANGED <<files, index, checkpoint, manifest>>

BuilderStep ==
    \/ StartFresh \/ CreateOutputs
    \/ Resume \/ TruncateMetadata \/ TruncateFailures
    \/ ProcessBatch \/ AppendMetadata \/ AppendFailures \/ StoreIndex \/ StoreCheckpoint
    \/ Publish \/ Complete

Next == BuilderStep \/ Crash

\* A running builder goes on, and the operator runs it again with --resume.
Spec == Init /\ [][Next]_vars /\ WF_vars(BuilderStep)

-----------------------------------------------------------------------------
(* Properties                                                              *)

\* The builder is at one of its file operations, and neither its memory nor a
\* checkpoint counts a line beyond the limit or the input.
TypeOK ==
    /\ files \subseteq Outputs \cup {"checkpoint", "manifest"}
    /\ pc \in {"down", "creating", "truncating", "truncating_failures", "reading",
               "appending", "appending_failures", "storing_index", "checkpointing",
               "completing"}
    /\ mem.lines \in 0 .. Target
    /\ checkpoint \in [lines : 0 .. Target, rows : 0 .. Target, failed : 0 .. Target,
                       vectors : 0 .. Target, complete : BOOLEAN]
    /\ crashes \in 0 .. MaxCrashes

\* Vector i is described by row i, whose vector_id is i - 1.
RowsMatch(vectors, rows) ==
    /\ Len(vectors) = Len(rows)
    /\ \A i \in DOMAIN rows : rows[i] = [line |-> vectors[i], id |-> i - 1]

\* Each of the first n lines is embedded once or recorded as a failure once.
LinesOnce(vectors, failed, n) ==
    /\ Len(vectors) + Len(failed) = n
    /\ Range(vectors) \cup Range(failed) = 1 .. n

\* Whatever was written when the process died, a checkpoint is covered by the
\* three files, and the part of them it counts is a consistent build of the
\* lines it counts: --resume never finds an index behind its checkpoint.
Recoverable ==
    "checkpoint" \in files =>
        /\ Outputs \subseteq files
        /\ checkpoint.vectors <= Len(index)
        /\ checkpoint.rows <= Len(metadata)
        /\ checkpoint.failed <= Len(failures)
        /\ RowsMatch(SubSeq(index, 1, checkpoint.vectors), SubSeq(metadata, 1, checkpoint.rows))
        /\ LinesOnce(SubSeq(index, 1, checkpoint.vectors),
                     SubSeq(failures, 1, checkpoint.failed), checkpoint.lines)

\* A manifest is true from the moment it appears, also when the builder dies
\* before the last checkpoint and is resumed: it describes the files as they
\* are, so the dense runtime that compares their hashes accepts them, and they
\* hold every line of the target once, vectors and rows in the same order.
PublishedValid ==
    "manifest" \in files =>
        /\ manifest = [index |-> index, metadata |-> metadata, failures |-> failures]
        /\ RowsMatch(index, metadata)
        /\ LinesOnce(index, failures, Target)

\* The outcomes the checkpoint commits.
Ledger == INSTANCE EmbeddingLedger WITH
    outcome <- [l \in 1 .. checkpoint.lines |->
                    IF \E i \in 1 .. checkpoint.rows : metadata[i].line = l
                    THEN "embedded" ELSE "failed"],
    published <- "manifest" \in files

\* Seen through its checkpoint, the build is the crash-free ledger: a crash, a
\* torn append and a resume change no committed outcome and repeat no line.
ImplementsEmbeddingLedger == Ledger!Spec

\* A build that wrote its first checkpoint is completed, however often it dies
\* on the way, if it is resumed as often.
EventuallyComplete == "checkpoint" \in files ~> checkpoint.complete
=============================================================================
