---------------------------- MODULE DenseArtifacts ----------------------------
(***************************************************************************)
(* The files of the dense retrieval service and its start                  *)
(* (src/src/disclosure_db/dense_runtime.py): the released index, metadata  *)
(* and manifest, and the two derived files that a start builds when they   *)
(* are not current - byte offsets of the metadata lines, and the vectors   *)
(* of each filing.                                                         *)
(*                                                                         *)
(* A release is [filings, starts, stamp]: the filing of each vector, the   *)
(* byte at which its metadata line starts, and the size and modification   *)
(* time of the metadata file, which a copy can preserve.                   *)
(***************************************************************************)
EXTENDS Naturals, Sequences, FiniteSets

CONSTANTS
    Releases,       \* Seq of the releases
    MaxDeploys      \* bound: files copied

VARIABLES
    deployed,       \* "index", "metadata", "manifest" -> release of the file there
    offsets,        \* the offsets file: the release it was computed from
    offsetsFor,     \* its manifest: stamp and line count
    vectors,        \* the filing index: the release it was computed from
    vectorsFor,     \* its manifest
    state,          \* of the service
    loaded,         \* release of the index, and of the offsets mapped, in memory
    replaced,       \* a file was replaced since the service was started
    copies          \* number of files copied

denseVars == <<deployed, offsets, offsetsFor, vectors, vectorsFor, state, loaded, replaced, copies>>

Artifacts == {"index", "metadata", "manifest"}
Nothing == 0
Count(release) == Len(Releases[release].filings)
Identity(release) == <<Releases[release].stamp, Count(release)>>
NoIdentity == <<0, 0>>

-----------------------------------------------------------------------------
(* Files                                                                    *)

\* An operator installs a release file by file, possibly an older one, and
\* possibly under a running service.
Deploy(artifact, release) ==
    /\ copies < MaxDeploys
    /\ deployed[artifact] # release
    /\ deployed' = [deployed EXCEPT ![artifact] = release]
    /\ copies' = copies + 1
    /\ replaced' = (replaced \/ state # "down")
    /\ UNCHANGED <<offsets, offsetsFor, vectors, vectorsFor, state, loaded>>

\* DenseRuntime: the sizes and digests of the index and of the metadata are those
\* of the manifest.  (The model directory is compared in the same way.)
StartUp ==
    /\ state = "down"
    /\ deployed.index = deployed.manifest /\ deployed.metadata = deployed.manifest
    /\ state' = "offsets" /\ replaced' = FALSE
    /\ loaded' = [index |-> deployed.index, offsets |-> Nothing]
    /\ UNCHANGED <<deployed, offsets, offsetsFor, vectors, vectorsFor, copies>>

\* JsonlOffsetIndex._is_current: compares identities and the length of the file.
OffsetsCurrent ==
    /\ offsets # Nothing
    /\ offsetsFor = Identity(deployed.metadata)
    /\ Count(offsets) = Count(loaded.index)

\* _ensure_current: the offsets file is replaced first, its manifest afterwards.
WriteOffsets ==
    /\ state = "offsets"
    /\ ~OffsetsCurrent
    /\ Count(deployed.metadata) = Count(loaded.index)
    /\ offsets' = deployed.metadata
    /\ state' = "offsets_manifest"
    /\ UNCHANGED <<deployed, offsetsFor, vectors, vectorsFor, loaded, replaced, copies>>

WriteOffsetsManifest ==
    /\ state = "offsets_manifest"
    /\ offsetsFor' = Identity(deployed.metadata)
    /\ state' = "map"
    /\ UNCHANGED <<deployed, offsets, vectors, vectorsFor, loaded, replaced, copies>>

\* The file is mapped, and the filing index comes next.
MapOffsets ==
    /\ state = "map" \/ (state = "offsets" /\ OffsetsCurrent)
    /\ loaded' = [loaded EXCEPT !.offsets = offsets]
    /\ state' = "vectors"
    /\ UNCHANGED <<deployed, offsets, offsetsFor, vectors, vectorsFor, replaced, copies>>

\* FilingVectorIndex, the same protocol.
VectorsCurrent ==
    /\ vectors # Nothing
    /\ vectorsFor = Identity(deployed.metadata)
    /\ Count(vectors) = Count(loaded.index)

WriteVectors ==
    /\ state = "vectors"
    /\ ~VectorsCurrent
    /\ Count(deployed.metadata) = Count(loaded.index)
    /\ vectors' = deployed.metadata
    /\ state' = "vectors_manifest"
    /\ UNCHANGED <<deployed, offsets, offsetsFor, vectorsFor, loaded, replaced, copies>>

WriteVectorsManifest ==
    /\ state = "vectors_manifest"
    /\ vectorsFor' = Identity(deployed.metadata)
    /\ state' = "ready"
    /\ UNCHANGED <<deployed, offsets, offsetsFor, vectors, loaded, replaced, copies>>

Serve ==
    /\ state = "ready" \/ (state = "vectors" /\ VectorsCurrent)
    /\ state' = "up"
    /\ UNCHANGED <<deployed, offsets, offsetsFor, vectors, vectorsFor, loaded, replaced, copies>>

\* An exception at the start, a kill, a restart.
Stop ==
    /\ state # "down"
    /\ state' = "down"
    /\ UNCHANGED <<deployed, offsets, offsetsFor, vectors, vectorsFor, loaded, replaced, copies>>

-----------------------------------------------------------------------------
(* DenseRuntime.search: any vector of the index may be hit.  A search within *)
(* filings takes its vectors from the filing index, which after a return to  *)
(* an older release may be another's, so its hits may be of filings that were *)
(* not asked for; the client checks them (EvidenceRetrieval).                *)

\* Faulty variant of LineAt: whatever line is found at the offset is returned.
AnyLineAt(vector) ==
    LET lines == Releases[deployed.metadata]
        at == {i \in DOMAIN lines.starts : lines.starts[i] = Releases[loaded.offsets].starts[vector]}
    IN  IF at = {} THEN 0 ELSE lines.filings[CHOOSE i \in at : TRUE]

\* JsonlOffsetIndex.read: the metadata file is opened by name, and the line found at
\* the offset must be that of the vector; 0 when it raises.
LineAt(vector) ==
    LET lines == Releases[deployed.metadata]
        at == {i \in DOMAIN lines.starts : lines.starts[i] = Releases[loaded.offsets].starts[vector]}
    IN  IF vector \in at THEN lines.filings[vector] ELSE 0

-----------------------------------------------------------------------------

DenseInit ==
    /\ deployed = [a \in Artifacts |-> 1]
    /\ offsets = Nothing /\ offsetsFor = NoIdentity
    /\ vectors = Nothing /\ vectorsFor = NoIdentity
    /\ state = "down" /\ replaced = FALSE /\ copies = 0
    /\ loaded = [index |-> Nothing, offsets |-> Nothing]

DenseNext ==
    \/ \E a \in Artifacts, r \in DOMAIN Releases : Deploy(a, r)
    \/ StartUp \/ WriteOffsets \/ WriteOffsetsManifest \/ MapOffsets
    \/ WriteVectors \/ WriteVectorsManifest \/ Serve \/ Stop

DenseSpec == DenseInit /\ [][DenseNext]_denseVars

-----------------------------------------------------------------------------
(* Properties                                                               *)

\* A hit is attributed to the filing of its vector, or the search raises, also when
\* a kill and a return to an older release left offsets of another release that
\* pass for current.  (A file replaced under a started service breaks this.)
HitsAttributed ==
    (state = "up" /\ ~replaced) =>
        LET filing == Releases[loaded.index].filings
        IN  \A v \in DOMAIN filing : LineAt(v) \in {0, filing[v]}
=============================================================================
