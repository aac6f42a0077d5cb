------------------------------ MODULE ChunkBuild ------------------------------
(***************************************************************************)
(* The resumable embedding-chunk build (build_embedding_chunks in          *)
(* src/src/disclosure_db/embedding_chunks.py): three JSONL files that      *)
(* grow together, a checkpoint with their offsets and a manifest.          *)
(*                                                                         *)
(* A row stands for a line; a torn line at the end of a file is cut off    *)
(* by the next truncation like a whole one.  The database is immutable and *)
(* its digest is compared on --resume, so the groups are a constant.       *)
(***************************************************************************)
EXTENDS Chunker

CONSTANTS
    Groups,         \* "narrative" and "table" -> Seq of the groups, in paging order
    Config,         \* [target, max, overlap, every]
    MaxStarts       \* bound: how often the build is started

\* What the schema and the parsers give: groups whose units have numbers of tokens
\* and finitely many evidence ids.
GroupValid(group) ==
    /\ group.prefix \in Nat /\ group.breaksAfter \in Nat /\ IsFiniteSet(group.headerEvidence)
    /\ Units(group.units)
    /\ \A i \in 1 .. Len(group.units) : IsFiniteSet(group.units[i].evidence)

ASSUME ChunkAssumption ==
    /\ CutConfig(Config)
    /\ \A in \in {"narrative", "table"} :
        /\ Len(Groups[in]) \in Nat
        /\ \A i \in 1 .. Len(Groups[in]) : GroupValid(Groups[in][i])

VARIABLES
    files,          \* "chunks", "links", "failures" -> rows, of those that exist
    checkpoint,     \* chunk_checkpoint.json
    manifest,       \* chunk_manifest.json: the rows of the files it describes
    at,             \* what the running build does next
    phase, done,    \* its phase and the groups it has completed in it
    starts,         \* number of starts
    halfWiped       \* an --overwrite has deleted only some of the outputs

chunkVars == <<files, checkpoint, manifest, at, phase, done, starts, halfWiped>>

Outputs == <<"chunks", "links", "failures">>
Files == {Outputs[i] : i \in DOMAIN Outputs}
None_ == [status |-> "none"]
NextPhaseOf == [narrative |-> "table", table |-> "finalize"]

-----------------------------------------------------------------------------
(* Rows                                                                     *)

Failure(in, group) == [phase |-> in, group |-> group.id]

\* write_chunk and write_failure: the rows a group adds to each file.
GroupRows(in, group) ==
    LET chunks == GroupChunks(Config, group)
    IN  [chunks |-> chunks,
         links |-> FlattenSeq([n \in DOMAIN chunks |->
                        SetToSeq({<<group.id, n - 1, e>> : e \in chunks[n].evidence})]),
         failures |-> IF GroupFailed(Config, group) THEN <<Failure(in, group)>> ELSE <<>>]

Appended(to, in, group) == [f \in DOMAIN to |-> to[f] \o GroupRows(in, group)[f]]

Offsets == [f \in DOMAIN files |-> Len(files[f])]

CheckpointValue(status, in, completed) ==
    [status |-> status, phase |-> in, completed |-> completed, offsets |-> Offsets]

-----------------------------------------------------------------------------
(* _prepare_output                                                          *)

Fresh == files = <<>> /\ checkpoint = None_ /\ manifest = None_

Started == at = "down" /\ starts < MaxStarts /\ starts' = starts + 1

Start ==
    /\ Started
    /\ Fresh
    /\ at' = "create" /\ phase' = "narrative" /\ done' = 0
    /\ halfWiped' = FALSE
    /\ UNCHANGED <<files, checkpoint, manifest>>

\* --overwrite deletes what exists, one file after the other; without it (and
\* without --resume) the command refuses.
StartOver ==
    /\ Started
    /\ ~Fresh
    /\ at' = "wipe" /\ phase' = "narrative" /\ done' = 0
    /\ UNCHANGED <<files, checkpoint, manifest, halfWiped>>

WipeNext ==
    /\ at = "wipe"
    /\ ~Fresh
    /\ halfWiped' = TRUE
    /\ IF files # <<>>
       THEN /\ \E i \in DOMAIN Outputs :
                /\ Outputs[i] \in DOMAIN files
                /\ \A j \in 1 .. i - 1 : Outputs[j] \notin DOMAIN files
                /\ files' = [f \in DOMAIN files \ {Outputs[i]} |-> files[f]]
            /\ UNCHANGED <<checkpoint, manifest>>
       ELSE IF checkpoint # None_
            THEN checkpoint' = None_ /\ UNCHANGED <<files, manifest>>
            ELSE manifest' = None_ /\ UNCHANGED <<files, checkpoint>>
    /\ UNCHANGED <<at, phase, done, starts>>

Wiped ==
    /\ at = "wipe"
    /\ Fresh
    /\ at' = "create" /\ halfWiped' = FALSE
    /\ UNCHANGED <<files, checkpoint, manifest, phase, done, starts>>

\* open("xb"), file by file, and then the first checkpoint.
CreateNext ==
    /\ at = "create"
    /\ \E i \in DOMAIN Outputs :
        /\ Outputs[i] \notin DOMAIN files
        /\ \A j \in 1 .. i - 1 : Outputs[j] \in DOMAIN files
        /\ files' = [f \in DOMAIN files \cup {Outputs[i]} |->
                        IF f \in DOMAIN files THEN files[f] ELSE <<>>]
    /\ UNCHANGED <<checkpoint, manifest, at, phase, done, starts, halfWiped>>

FirstCheckpoint ==
    /\ at = "create"
    /\ DOMAIN files = Files
    /\ checkpoint' = CheckpointValue("running", "narrative", 0)
    /\ at' = "groups"
    /\ UNCHANGED <<files, manifest, phase, done, starts, halfWiped>>

\* Faulty variant of Resume: the files are opened for appending as they are.
ResumeUncut ==
    /\ Started
    /\ checkpoint # None_ /\ checkpoint.status # "complete"
    /\ DOMAIN checkpoint.offsets \subseteq DOMAIN files
    /\ phase' = checkpoint.phase /\ done' = checkpoint.completed
    /\ at' = IF checkpoint.phase = "finalize" THEN "manifest" ELSE "groups"
    /\ UNCHANGED <<files, checkpoint, manifest, halfWiped>>

\* --resume cuts the files back to the offsets of the checkpoint.  A missing file
\* or checkpoint makes it fail; a complete one only returns the manifest.
Resume ==
    /\ Started
    /\ checkpoint # None_ /\ checkpoint.status # "complete"
    /\ DOMAIN checkpoint.offsets \subseteq DOMAIN files
    /\ files' = [f \in DOMAIN files |-> SubSeq(files[f], 1, checkpoint.offsets[f])]
    /\ phase' = checkpoint.phase /\ done' = checkpoint.completed
    /\ at' = IF checkpoint.phase = "finalize" THEN "manifest" ELSE "groups"
    /\ UNCHANGED <<checkpoint, manifest, halfWiped>>

-----------------------------------------------------------------------------
(* process_work                                                             *)

\* The chunks of one group.  A checkpoint follows every config.every groups, and
\* the group at which --max-groups stops the build.
ProcessGroup ==
    /\ at = "groups"
    /\ done < Len(Groups[phase])
    /\ files' = Appended(files, phase, Groups[phase][done + 1])
    /\ done' = done + 1
    /\ at' \in IF (done + 1) % Config.every = 0 THEN {"save", "stop"} ELSE {"groups", "stop"}
    /\ UNCHANGED <<checkpoint, manifest, phase, starts, halfWiped>>

SaveCheckpoint ==
    /\ at \in {"save", "stop"}
    /\ checkpoint' = CheckpointValue("checkpointed", phase, done)
    /\ at' = IF at = "save" THEN "groups" ELSE "down"
    /\ UNCHANGED <<files, manifest, phase, done, starts, halfWiped>>

NextPhase ==
    /\ at = "groups"
    /\ done = Len(Groups[phase])
    /\ phase' = NextPhaseOf[phase] /\ done' = 0
    /\ checkpoint' = CheckpointValue("running", phase', done')
    /\ at' = IF phase' = "finalize" THEN "manifest" ELSE "groups"
    /\ UNCHANGED <<files, manifest, starts, halfWiped>>

PublishManifest ==
    /\ at = "manifest"
    /\ manifest' = [status |-> "complete", offsets |-> Offsets]
    /\ at' = "final"
    /\ UNCHANGED <<files, checkpoint, phase, done, starts, halfWiped>>

FinalCheckpoint ==
    /\ at = "final"
    /\ checkpoint' = CheckpointValue("complete", "complete", 0)
    /\ at' = "down"
    /\ UNCHANGED <<files, manifest, phase, done, starts, halfWiped>>

\* What was written after the last flush may be lost, in each file by itself.
Synced(f) ==
    IF checkpoint # None_ /\ f \in DOMAIN checkpoint.offsets
        /\ checkpoint.offsets[f] <= Len(files[f])
    THEN checkpoint.offsets[f] ELSE 0

Killed ==
    /\ at # "down"
    /\ \E kept \in [DOMAIN files -> 0 .. Max({0} \cup {Len(files[f]) : f \in DOMAIN files})] :
        /\ \A f \in DOMAIN files : kept[f] \in Synced(f) .. Len(files[f])
        /\ files' = [f \in DOMAIN files |-> SubSeq(files[f], 1, kept[f])]
    /\ at' = "down"
    /\ UNCHANGED <<checkpoint, manifest, phase, done, starts, halfWiped>>

-----------------------------------------------------------------------------

ChunkInit ==
    /\ files = <<>> /\ checkpoint = None_ /\ manifest = None_
    /\ at = "down" /\ phase = "narrative" /\ done = 0
    /\ starts = 0 /\ halfWiped = FALSE

ChunkNext ==
    \/ Start \/ StartOver \/ WipeNext \/ Wiped \/ CreateNext \/ FirstCheckpoint \/ Resume
    \/ ProcessGroup \/ SaveCheckpoint \/ NextPhase \/ PublishManifest \/ FinalCheckpoint \/ Killed

ChunkSpec == ChunkInit /\ [][ChunkNext]_chunkVars

-----------------------------------------------------------------------------
(* Properties                                                               *)

\* The groups in the order of the build, and how many are before a cursor.
Total == Len(Groups.narrative) + Len(Groups.table)

PhaseOf(i) == IF i <= Len(Groups.narrative) THEN "narrative" ELSE "table"

GroupAt(i) ==
    IF i <= Len(Groups.narrative) THEN Groups.narrative[i]
    ELSE Groups.table[i - Len(Groups.narrative)]

Position(in, completed) ==
    CASE in = "narrative" -> completed
      [] in = "table" -> Len(Groups.narrative) + completed
      [] OTHER -> Total

\* The rows of the first groups.
ExpectedRows ==
    LET rows[n \in 0 .. Total] ==
            IF n = 0 THEN [f \in Files |-> <<>>]
            ELSE [f \in Files |-> rows[n - 1][f] \o GroupRows(PhaseOf(n), GroupAt(n))[f]]
    IN  rows

\* Cut back to the checkpoint, the three files hold exactly the rows of the groups
\* before its cursor: a kill never loses, repeats or tears apart a group.
ChunksRecoverable ==
    (checkpoint # None_ /\ ~halfWiped) =>
        /\ DOMAIN checkpoint.offsets = DOMAIN files
        /\ ExpectedRows[Position(checkpoint.phase, checkpoint.completed)]
            = [f \in DOMAIN files |-> SubSeq(files[f], 1, checkpoint.offsets[f])]

\* The files of a complete build are those that its checkpoint and its manifest
\* describe, to their ends.
ChunksComplete ==
    (checkpoint # None_ /\ checkpoint.status = "complete" /\ ~halfWiped) =>
        /\ Position(checkpoint.phase, checkpoint.completed) = Total
        /\ checkpoint.offsets = Offsets
        /\ manifest # None_ /\ manifest.offsets = Offsets

\* Kills and resumes never lose, repeat or tear apart the rows of a group
\* (_OutputWriter, process_work), and a complete build has those of all groups.
ChunksDurable == ChunksRecoverable /\ ChunksComplete
=============================================================================
