-------------------------- MODULE FaissBuildProofs --------------------------
(***************************************************************************)
(* Proofs about the resumable FAISS build, for every input, limit, batch   *)
(* size and number of crashes: a checkpoint is always recoverable, a       *)
(* published manifest is always valid, and the build implements the ledger *)
(* that knows neither files nor crashes.                                   *)
(***************************************************************************)
EXTENDS FaissBuild, SequenceTheorems, FiniteSetTheorems, TLAPS

Row == [line : Nat, id : Nat]

-----------------------------------------------------------------------------
(* Builds                                                                  *)

\* The first v vectors and rows and the first f failures are a build of the
\* first n lines: row i describes vector i, no vector is of a malformed line,
\* and each line is a vector or a failure.  RowsMatch and LinesOnce say the same
\* of whole sequences.
BuildOf(vectors, rows, failed, v, f, n) ==
    /\ v \in 0 .. Len(vectors) /\ v <= Len(rows) /\ f \in 0 .. Len(failed)
    /\ v + f = n
    /\ \A i \in 1 .. v : /\ rows[i] = [line |-> vectors[i], id |-> i - 1]
                         /\ vectors[i] \in (1 .. n) \ Malformed
    /\ \A i \in 1 .. f : failed[i] \in 1 .. n
    /\ \A l \in 1 .. n : \/ \E i \in 1 .. v : vectors[i] = l
                         \/ \E i \in 1 .. f : failed[i] = l

\* Lists that hold a build of the first n lines and nothing else.
WholeBuild(vectors, rows, failed, n) ==
    /\ vectors \in Seq(Nat) /\ rows \in Seq(Row) /\ failed \in Seq(Nat)
    /\ Len(rows) = Len(vectors)
    /\ BuildOf(vectors, rows, failed, Len(vectors), Len(failed), n)

\* A batch of the lines after n up to m, for an index of k vectors: the vectors
\* it embeds, their rows and the lines it records as failures.
BatchOf(k, n, m, embedded, added, lost) ==
    /\ embedded \in Seq(Nat) /\ added \in Seq(Row) /\ lost \in Seq(Nat)
    /\ Len(added) = Len(embedded)
    /\ n + Len(embedded) + Len(lost) = m
    /\ \A i \in 1 .. Len(embedded) :
         /\ added[i] = [line |-> embedded[i], id |-> k + i - 1]
         /\ embedded[i] \in (n + 1 .. m) \ Malformed
    /\ \A i \in 1 .. Len(lost) : lost[i] \in n + 1 .. m
    /\ \A l \in n + 1 .. m : \/ \E i \in 1 .. Len(embedded) : embedded[i] = l
                             \/ \E i \in 1 .. Len(lost) : lost[i] = l

\* What the checkpoint counts of each file.
Committed ==
    BuildOf(index, metadata, failures, checkpoint.vectors, checkpoint.failed, checkpoint.lines)

\* The builder's memory, with the rows it has yet to write.
Held(rows, failed) ==
    /\ Len(rows) = Len(mem.index)
    /\ BuildOf(mem.index, rows, failed, Len(mem.index), Len(failed), mem.lines)

\* The memory goes on from the checkpoint, by a batch of later lines at most.
Extends ==
    /\ checkpoint.vectors <= Len(mem.index)
    /\ \A i \in 1 .. checkpoint.vectors : mem.index[i] = index[i]
    /\ \A i \in 1 .. Len(mem.index) : checkpoint.vectors < i => checkpoint.lines < mem.index[i]
    /\ checkpoint.lines < mem.lines /\ mem.lines <= checkpoint.lines + BatchSize

IndexExact == Len(index) = checkpoint.vectors
MetadataExact == Len(metadata) = checkpoint.rows
FailuresExact == Len(failures) = checkpoint.failed

-----------------------------------------------------------------------------
(* The inductive invariant                                                 *)

Shapes ==
    /\ index \in Seq(Nat) /\ metadata \in Seq(Row) /\ failures \in Seq(Nat)
    /\ mem \in [index : Seq(Nat), lines : Nat, rows : Seq(Row), failed : Seq(Nat)]

\* The outputs appear in order, and nothing is in them before the checkpoint.
CreationInv ==
    /\ "index" \in files => "failures" \in files
    /\ "failures" \in files => "metadata" \in files
    /\ "checkpoint" \in files => Outputs \subseteq files
    /\ "manifest" \in files => "checkpoint" \in files
    /\ "checkpoint" \notin files =>
        /\ pc \in {"down", "creating"}
        /\ index = <<>> /\ metadata = <<>> /\ failures = <<>>
        /\ checkpoint = NoCheckpoint /\ mem = EmptyMemory
    /\ pc = "creating" => "checkpoint" \notin files

\* The committed part of the files is a build, whatever follows it.
CheckpointInv == checkpoint.rows = checkpoint.vectors /\ Committed

\* How far a resumed build has repaired the files.
RepairInv ==
    pc \in {"truncating", "truncating_failures", "reading"} =>
        /\ mem.index = index /\ mem.lines = checkpoint.lines /\ IndexExact
        /\ pc # "truncating" => MetadataExact
        /\ pc = "reading" => FailuresExact

\* How much of a batch has reached the files.
BatchInv ==
    /\ pc = "appending" =>
        /\ Held(metadata \o mem.rows, failures \o mem.failed)
        /\ Extends /\ MetadataExact /\ FailuresExact
    /\ pc = "appending_failures" =>
        Held(metadata, failures \o mem.failed) /\ Extends /\ FailuresExact
    /\ pc = "storing_index" => Held(metadata, failures) /\ Extends
    /\ pc = "checkpointing" => Held(metadata, failures) /\ Extends /\ mem.index = index

\* Once a manifest is there, nothing more is read.
ManifestInv ==
    /\ "manifest" \in files =>
        /\ pc \in {"down", "truncating", "truncating_failures", "reading", "completing"}
        /\ manifest = [index |-> index, metadata |-> metadata, failures |-> failures]
        /\ IndexExact /\ MetadataExact /\ FailuresExact
        /\ checkpoint.lines = Target
    /\ pc = "completing" =>
        /\ "manifest" \in files
        /\ mem.index = index /\ mem.lines = Target

IInv ==
    /\ TypeOK
    /\ Shapes
    /\ CreationInv
    /\ CheckpointInv
    /\ RepairInv
    /\ BatchInv
    /\ ManifestInv

-----------------------------------------------------------------------------
(* Lists of lines                                                          *)

LEMMA TargetType == Target \in Nat
  BY FaissAssumption DEF Target

LEMMA IntervalCount ==
    ASSUME NEW a \in Nat, NEW b \in Nat, a <= b
    PROVE  IsFiniteSet(a + 1 .. b) /\ Cardinality(a + 1 .. b) = b - a
<1>1. a + 1 \in Int /\ b \in Int
  OBVIOUS
<1>2. /\ IsFiniteSet(a + 1 .. b)
      /\ Cardinality(a + 1 .. b) = IF a + 1 > b THEN 0 ELSE b - (a + 1) + 1
  BY <1>1, FS_Interval
<1> QED
  BY <1>2

LEMMA SplitCount ==
    ASSUME NEW S, IsFiniteSet(S), NEW T \in SUBSET S
    PROVE  /\ IsFiniteSet(T) /\ IsFiniteSet(S \ T)
           /\ Cardinality(T) \in Nat /\ Cardinality(S \ T) \in Nat
           /\ Cardinality(T) + Cardinality(S \ T) = Cardinality(S)
<1>1. IsFiniteSet(T) /\ S \cap T = T
  BY FS_Subset
<1>2. IsFiniteSet(S \ T) /\ Cardinality(S \ T) = Cardinality(S) - Cardinality(S \cap T)
  BY FS_Difference
<1>3. Cardinality(S) \in Nat /\ Cardinality(T) \in Nat /\ Cardinality(S \ T) \in Nat
  BY <1>1, <1>2, FS_CardinalityType
<1>4. Cardinality(S \ T) = Cardinality(S) - Cardinality(T)
  BY <1>1, <1>2
<1> QED
  BY <1>1, <1>2, <1>3, <1>4

\* A list in order holds each of its lines once.
LEMMA InOrderLists ==
    ASSUME NEW lines \in SUBSET Nat, IsFiniteSet(lines), NEW s \in InOrder(lines)
    PROVE  /\ s \in Seq(Nat) /\ Len(s) = Cardinality(lines)
           /\ \A i \in 1 .. Len(s) : s[i] \in lines
           /\ \A l \in lines : \E i \in 1 .. Len(s) : s[i] = l
<1>1. PICK n \in Nat : n = Cardinality(lines)
  BY FS_CardinalityType
<1>2. s \in [1 .. n -> lines] /\ \A i, j \in 1 .. n : i < j => s[i] < s[j]
  BY <1>1 DEF InOrder
<1>3. s \in Seq(Nat) /\ Len(s) = n
  <2>1. s \in [1 .. n -> Nat]
    BY <1>2
  <2> QED
    BY <2>1
<1>4. s \in Injection(1 .. n, lines)
  <2>1. \A i, j \in 1 .. n : s[i] = s[j] => i = j
    <3> SUFFICES ASSUME NEW i \in 1 .. n, NEW j \in 1 .. n, i # j
                 PROVE  s[i] # s[j]
      OBVIOUS
    <3>1. s[i] \in Nat /\ s[j] \in Nat
      BY <1>2
    <3>2. i < j \/ j < i
      OBVIOUS
    <3> QED
      BY <1>2, <3>1, <3>2
  <2> QED
    BY <1>2, <2>1 DEF Injection, IsInjective
<1>5. 1 \in Int /\ n \in Int /\ Cardinality(1 .. n) = IF 1 > n THEN 0 ELSE n - 1 + 1
  BY FS_Interval
<1>6. Cardinality(1 .. n) = Cardinality(lines)
  BY <1>1, <1>5
<1>7. s \in Surjection(1 .. n, lines)
  BY <1>4, <1>6, FS_Injection
<1> QED
  BY <1>1, <1>2, <1>3, <1>7 DEF Surjection

\* A batch is the lines up to the next batch's first.
LEMMA BatchInterval ==
    ASSUME mem.lines \in 0 .. Target
    PROVE  \E m \in mem.lines .. Target :
             /\ m <= mem.lines + BatchSize
             /\ BatchLines = mem.lines + 1 .. m
             /\ IsFiniteSet(BatchLines) /\ Cardinality(BatchLines) = m - mem.lines
             /\ BatchLines = {} => mem.lines = Target
<1> DEFINE m == IF Target <= mem.lines + BatchSize THEN Target ELSE mem.lines + BatchSize
<1>1. /\ m \in mem.lines .. Target /\ m <= mem.lines + BatchSize /\ m \in Nat /\ mem.lines \in Nat
      /\ mem.lines < Target => mem.lines < m
  BY TargetType, FaissAssumption
<1>2. BatchLines = mem.lines + 1 .. m
  BY TargetType, FaissAssumption DEF BatchLines
<1> HIDE DEF m
<1>3. IsFiniteSet(mem.lines + 1 .. m) /\ Cardinality(mem.lines + 1 .. m) = m - mem.lines
  BY <1>1, IntervalCount
<1>4. BatchLines = {} => mem.lines = Target
  <2> SUFFICES ASSUME mem.lines # Target PROVE BatchLines # {}
    OBVIOUS
  <2>1. m \in mem.lines + 1 .. m
    BY <1>1, TargetType
  <2> QED
    BY <1>2, <2>1
<1> QED
  BY <1>1, <1>2, <1>3, <1>4

-----------------------------------------------------------------------------
(* Builds of prefixes and batches                                          *)

LEMMA RowsConcat ==
    ASSUME NEW rows \in Seq(Row), NEW added \in Seq(Row)
    PROVE  /\ rows \o added \in Seq(Row) /\ Len(rows \o added) = Len(rows) + Len(added)
           /\ \A i \in 1 .. Len(rows) + Len(added) :
                (rows \o added)[i] = IF i <= Len(rows) THEN rows[i] ELSE added[i - Len(rows)]
  BY ConcatProperties

\* A build and a batch of the lines that follow it are a build.
LEMMA BuildGrows ==
    ASSUME NEW vectors, NEW rows, NEW failed, NEW n \in Nat, NEW m \in Nat,
           NEW embedded, NEW added, NEW lost,
           WholeBuild(vectors, rows, failed, n),
           BatchOf(Len(vectors), n, m, embedded, added, lost)
    PROVE  WholeBuild(vectors \o embedded, rows \o added, failed \o lost, m)
<1> DEFINE vectors2 == vectors \o embedded
           rows2 == rows \o added
           failed2 == failed \o lost
<1>1. /\ embedded \in Seq(Nat) /\ added \in Seq(Row) /\ lost \in Seq(Nat)
      /\ n + Len(embedded) + Len(lost) = m
      /\ Len(added) = Len(embedded)
      /\ vectors \in Seq(Nat) /\ rows \in Seq(Row) /\ failed \in Seq(Nat)
      /\ Len(rows) = Len(vectors)
      /\ BuildOf(vectors, rows, failed, Len(vectors), Len(failed), n)
  BY DEF BatchOf, WholeBuild
<1>2. \A i \in 1 .. Len(embedded) :
         /\ added[i] = [line |-> embedded[i], id |-> Len(vectors) + i - 1]
         /\ embedded[i] \in (n + 1 .. m) \ Malformed
  BY DEF BatchOf
<1>3. \A i \in 1 .. Len(lost) : lost[i] \in n + 1 .. m
  BY DEF BatchOf
<1>4. \A l \in n + 1 .. m : \/ \E i \in 1 .. Len(embedded) : embedded[i] = l
                            \/ \E i \in 1 .. Len(lost) : lost[i] = l
  BY DEF BatchOf
<1>5. /\ Len(vectors) \in Nat /\ Len(failed) \in Nat /\ Len(embedded) \in Nat /\ Len(lost) \in Nat
  BY <1>1, LenProperties
<1>7. /\ vectors2 \in Seq(Nat) /\ Len(vectors2) = Len(vectors) + Len(embedded)
      /\ \A i \in 1 .. Len(vectors) + Len(embedded) :
            vectors2[i] = IF i <= Len(vectors) THEN vectors[i] ELSE embedded[i - Len(vectors)]
  BY <1>1, ConcatProperties
<1>8. /\ rows2 \in Seq(Row) /\ Len(rows2) = Len(vectors) + Len(embedded)
      /\ \A i \in 1 .. Len(vectors) + Len(embedded) :
            rows2[i] = IF i <= Len(vectors) THEN rows[i] ELSE added[i - Len(vectors)]
  <2>1. /\ rows2 \in Seq(Row) /\ Len(rows2) = Len(rows) + Len(added)
        /\ \A i \in 1 .. Len(rows) + Len(added) :
              rows2[i] = IF i <= Len(rows) THEN rows[i] ELSE added[i - Len(rows)]
    BY <1>1, RowsConcat
  <2> HIDE DEF rows2
  <2> QED
    BY <1>1, <2>1
<1>9. /\ failed2 \in Seq(Nat) /\ Len(failed2) = Len(failed) + Len(lost)
      /\ \A i \in 1 .. Len(failed) + Len(lost) :
            failed2[i] = IF i <= Len(failed) THEN failed[i] ELSE lost[i - Len(failed)]
  BY <1>1, ConcatProperties
<1> HIDE DEF vectors2, rows2, failed2
<1>10. /\ Len(vectors2) = Len(vectors) + Len(embedded) /\ Len(failed2) = Len(failed) + Len(lost)
      /\ n + Len(embedded) + Len(lost) = m
      /\ Len(vectors) + Len(failed) = n
  BY <1>1, <1>7, <1>9 DEF BuildOf
<1>11. Len(vectors2) + Len(failed2) = m
  <2>1. \A a, b, c, d \in Nat : (a + c) + (b + d) = (a + b) + c + d
    OBVIOUS
  <2>2. (Len(vectors) + Len(embedded)) + (Len(failed) + Len(lost))
            = (Len(vectors) + Len(failed)) + Len(embedded) + Len(lost)
    BY <1>5, <2>1
  <2> QED
    BY <1>10, <2>2
<1>12. \A i \in 1 .. Len(vectors2) : /\ rows2[i] = [line |-> vectors2[i], id |-> i - 1]
                                     /\ vectors2[i] \in (1 .. m) \ Malformed
  <2> SUFFICES ASSUME NEW i \in 1 .. Len(vectors2)
               PROVE  /\ rows2[i] = [line |-> vectors2[i], id |-> i - 1]
                      /\ vectors2[i] \in (1 .. m) \ Malformed
    OBVIOUS
  <2>1. CASE i <= Len(vectors)
    <3>1. i \in 1 .. Len(vectors) /\ i \in 1 .. Len(vectors) + Len(embedded)
      BY <1>1, <1>5, <1>7, <2>1
    <3>2. vectors2[i] = vectors[i] /\ rows2[i] = rows[i]
      BY <1>7, <1>8, <2>1, <3>1
    <3>3. rows[i] = [line |-> vectors[i], id |-> i - 1] /\ vectors[i] \in (1 .. n) \ Malformed
      BY <1>1, <3>1 DEF BuildOf
    <3> QED
      BY <1>1, <1>5, <3>2, <3>3
  <2>2. CASE ~(i <= Len(vectors))
    <3>1. /\ i - Len(vectors) \in 1 .. Len(embedded) /\ i \in 1 .. Len(vectors) + Len(embedded)
          /\ Len(vectors) + (i - Len(vectors)) - 1 = i - 1
      BY <1>1, <1>5, <1>7, <2>2
    <3>2. vectors2[i] = embedded[i - Len(vectors)] /\ rows2[i] = added[i - Len(vectors)]
      BY <1>7, <1>8, <2>2, <3>1
    <3>3. PICK k \in 1 .. Len(embedded) : k = i - Len(vectors) /\ Len(vectors) + k - 1 = i - 1
      BY <3>1
    <3>4. rows2[i] = [line |-> embedded[k], id |-> i - 1] /\ vectors2[i] = embedded[k]
      BY <1>2, <3>2, <3>3
    <3>5. embedded[k] \in (n + 1 .. m) \ Malformed
      BY <1>2
    <3>6. n + 1 .. m \subseteq 1 .. m
      OBVIOUS
    <3> QED
      BY <3>4, <3>5, <3>6
  <2> QED
    BY <2>1, <2>2
<1>13. \A i \in 1 .. Len(failed2) : failed2[i] \in 1 .. m
  <2> SUFFICES ASSUME NEW i \in 1 .. Len(failed2)
               PROVE  failed2[i] \in 1 .. m
    OBVIOUS
  <2>1. CASE i <= Len(failed)
    <3>1. i \in 1 .. Len(failed) /\ i \in 1 .. Len(failed) + Len(lost)
      BY <1>5, <1>10, <2>1
    <3>2. failed2[i] = failed[i]
      BY <1>9, <2>1, <3>1
    <3> QED
      BY <1>1, <1>5, <3>1, <3>2 DEF BuildOf
  <2>2. CASE ~(i <= Len(failed))
    <3>1. i - Len(failed) \in 1 .. Len(lost)
      BY <1>1, <1>5, <1>9, <2>2
    <3>2. failed2[i] \in n + 1 .. m
      BY <1>3, <1>9, <2>2, <3>1
    <3> QED
      BY <3>2
  <2> QED
    BY <2>1, <2>2
<1>14. \A l \in 1 .. m : \/ \E i \in 1 .. Len(vectors2) : vectors2[i] = l
                         \/ \E i \in 1 .. Len(failed2) : failed2[i] = l
  <2> SUFFICES ASSUME NEW l \in 1 .. m
               PROVE  \/ \E i \in 1 .. Len(vectors2) : vectors2[i] = l
                      \/ \E i \in 1 .. Len(failed2) : failed2[i] = l
    OBVIOUS
  <2>1. ASSUME NEW i \in 1 .. Len(vectors), vectors[i] = l
        PROVE  \E k \in 1 .. Len(vectors2) : vectors2[k] = l
    <3>1. i \in 1 .. Len(vectors2) /\ i <= Len(vectors)
      BY <1>1, <1>5, <1>7
    <3> QED
      BY <1>7, <2>1, <3>1
  <2>2. ASSUME NEW i \in 1 .. Len(failed), failed[i] = l
        PROVE  \E k \in 1 .. Len(failed2) : failed2[k] = l
    <3>1. i \in 1 .. Len(failed2) /\ i <= Len(failed)
      BY <1>1, <1>5, <1>9
    <3> QED
      BY <1>9, <2>2, <3>1
  <2>3. ASSUME NEW i \in 1 .. Len(embedded), embedded[i] = l
        PROVE  \E k \in 1 .. Len(vectors2) : vectors2[k] = l
    <3>1. /\ Len(vectors) + i \in 1 .. Len(vectors2) /\ ~(Len(vectors) + i <= Len(vectors))
          /\ (Len(vectors) + i) - Len(vectors) = i
      BY <1>5, <1>10, SMTT(30)
    <3>2. vectors2[Len(vectors) + i] = l
      BY <1>7, <2>3, <3>1
    <3> QED
      BY <3>1, <3>2
  <2>4. ASSUME NEW i \in 1 .. Len(lost), lost[i] = l
        PROVE  \E k \in 1 .. Len(failed2) : failed2[k] = l
    <3>1. /\ Len(failed) + i \in 1 .. Len(failed2) /\ ~(Len(failed) + i <= Len(failed))
          /\ (Len(failed) + i) - Len(failed) = i
      BY <1>5, <1>10, SMTT(30)
    <3>2. failed2[Len(failed) + i] = l
      BY <1>9, <2>4, <3>1
    <3> QED
      BY <3>1, <3>2
  <2>5. CASE l \in 1 .. n
    BY <1>1, <2>1, <2>2, <2>5 DEF BuildOf
  <2>6. CASE l \in n + 1 .. m
    BY <1>4, <2>3, <2>4, <2>6
  <2> QED
    BY <2>5, <2>6
<1>15. Len(vectors2) \in Nat /\ Len(failed2) \in Nat /\ Len(rows2) = Len(vectors2)
  BY <1>1, <1>5, <1>7, <1>8, <1>9
<1>16. BuildOf(vectors2, rows2, failed2, Len(vectors2), Len(failed2), m)
  BY <1>1, <1>11, <1>12, <1>13, <1>14, <1>15 DEF BuildOf
<1> QED
  <2>1. WholeBuild(vectors2, rows2, failed2, m)
    BY <1>7, <1>8, <1>9, <1>15, <1>16 DEF WholeBuild
  <2> QED
    BY <2>1 DEF vectors2, rows2, failed2

\* What ProcessBatch makes of the lines of a batch and those of them it embeds.
LEMMA BatchLists ==
    ASSUME NEW n \in Nat, NEW m \in Nat, n <= m, NEW k \in Nat,
           NEW ok \in SUBSET ((n + 1 .. m) \ Malformed),
           NEW embedded \in InOrder(ok), NEW lost \in InOrder((n + 1 .. m) \ ok)
    PROVE  BatchOf(k, n, m, embedded,
                   [i \in DOMAIN embedded |-> [line |-> embedded[i], id |-> k + i - 1]], lost)
<1> DEFINE added == [i \in DOMAIN embedded |-> [line |-> embedded[i], id |-> k + i - 1]]
<1>1. PICK batch \in SUBSET Nat : batch = n + 1 .. m
  OBVIOUS
<1>2. IsFiniteSet(batch) /\ Cardinality(batch) = m - n
  BY <1>1, IntervalCount
<1>3. ok \in SUBSET batch /\ ok \in SUBSET Nat /\ batch \ ok \in SUBSET Nat
  BY <1>1
<1>4. /\ IsFiniteSet(ok) /\ IsFiniteSet(batch \ ok)
      /\ Cardinality(ok) \in Nat /\ Cardinality(batch \ ok) \in Nat
      /\ Cardinality(ok) + Cardinality(batch \ ok) = m - n
  BY <1>2, <1>3, SplitCount
<1>5. /\ embedded \in Seq(Nat) /\ Len(embedded) = Cardinality(ok)
      /\ \A i \in 1 .. Len(embedded) : embedded[i] \in ok
      /\ \A l \in ok : \E i \in 1 .. Len(embedded) : embedded[i] = l
  BY <1>3, <1>4, InOrderLists
<1>6. /\ lost \in Seq(Nat) /\ Len(lost) = Cardinality(batch \ ok)
      /\ \A i \in 1 .. Len(lost) : lost[i] \in batch \ ok
      /\ \A l \in batch \ ok : \E i \in 1 .. Len(lost) : lost[i] = l
  BY <1>1, <1>3, <1>4, InOrderLists
<1>7. n + Len(embedded) + Len(lost) = m
  <2>1. PICK e \in Nat, f \in Nat : e = Len(embedded) /\ f = Len(lost) /\ e + f = m - n
    BY <1>4, <1>5, <1>6
  <2>2. n + e + f = m
    BY <2>1
  <2> QED
    BY <2>1, <2>2
<1>8. /\ added \in Seq(Row) /\ Len(added) = Len(embedded)
      /\ \A i \in 1 .. Len(embedded) : added[i] = [line |-> embedded[i], id |-> k + i - 1]
  <2>1. Len(embedded) \in Nat /\ DOMAIN embedded = 1 .. Len(embedded)
    BY <1>5, LenProperties
  <2>2. \A i \in 1 .. Len(embedded) : [line |-> embedded[i], id |-> k + i - 1] \in Row
    <3> SUFFICES ASSUME NEW i \in 1 .. Len(embedded)
                 PROVE  [line |-> embedded[i], id |-> k + i - 1] \in Row
      OBVIOUS
    <3>1. embedded[i] \in Nat /\ k + i - 1 \in Nat
      BY <1>3, <1>5
    <3> QED
      BY <3>1 DEF Row
  <2>3. added \in [1 .. Len(embedded) -> Row]
    BY <2>1, <2>2
  <2>4. \A i \in 1 .. Len(embedded) : added[i] = [line |-> embedded[i], id |-> k + i - 1]
    BY <2>1
  <2> HIDE DEF added
  <2> QED
    BY <2>1, <2>3, <2>4
<1>9. \A i \in 1 .. Len(embedded) : embedded[i] \in (n + 1 .. m) \ Malformed
  BY <1>5
<1>10. \A i \in 1 .. Len(lost) : lost[i] \in n + 1 .. m
  BY <1>1, <1>6
<1>11. \A l \in n + 1 .. m : \/ \E i \in 1 .. Len(embedded) : embedded[i] = l
                             \/ \E i \in 1 .. Len(lost) : lost[i] = l
  BY <1>1, <1>5, <1>6
<1> HIDE DEF added
<1> QED
  <2>1. BatchOf(k, n, m, embedded, added, lost)
    BY <1>5, <1>6, <1>7, <1>8, <1>9, <1>10, <1>11 DEF BatchOf
  <2> QED
    BY <2>1 DEF added

\* A prefix of a list agrees with the list, and is all of it at its length.
LEMMA Prefix ==
    ASSUME NEW S, NEW s \in Seq(S), NEW k \in 0 .. Len(s)
    PROVE  /\ SubSeq(s, 1, k) \in Seq(S) /\ Len(SubSeq(s, 1, k)) = k
           /\ \A i \in 1 .. k : SubSeq(s, 1, k)[i] = s[i]
           /\ k = Len(s) => SubSeq(s, 1, k) = s
<1>1. Len(s) \in Nat /\ k \in Int /\ \A i \in 1 .. k : s[i] \in S
  BY LenProperties, ElementOfSeq
<1>2. /\ SubSeq(s, 1, k) \in Seq(S)
      /\ Len(SubSeq(s, 1, k)) = IF 1 <= k THEN k - 1 + 1 ELSE 0
      /\ \A i \in 1 .. k - 1 + 1 : SubSeq(s, 1, k)[i] = s[1 + i - 1]
  BY <1>1, SubSeqProperties
<1>3. k = Len(s) => SubSeq(s, 1, k) = s
  BY SubSeqFull
<1>4. /\ Len(SubSeq(s, 1, k)) = k
      /\ \A i \in 1 .. k : SubSeq(s, 1, k)[i] = s[i]
  BY <1>1, <1>2
<1> QED
  BY <1>2, <1>3, <1>4

\* An append leaves what was there.
LEMMA Appended ==
    ASSUME NEW S, NEW s \in Seq(S), NEW t \in Seq(S)
    PROVE  /\ s \o t \in Seq(S) /\ Len(s) <= Len(s \o t)
           /\ Len(s) \in Nat /\ Len(s \o t) \in Nat
           /\ \A i \in 1 .. Len(s) : (s \o t)[i] = s[i]
<1>1. Len(s) \in Nat /\ Len(t) \in Nat
  BY LenProperties
<1>2. /\ s \o t \in Seq(S) /\ Len(s \o t) = Len(s) + Len(t)
      /\ \A i \in 1 .. Len(s) + Len(t) : (s \o t)[i] = IF i <= Len(s) THEN s[i] ELSE t[i - Len(s)]
  BY ConcatProperties
<1> QED
  BY <1>1, <1>2

LEMMA CutShortType ==
    ASSUME NEW S, NEW rows \in Seq(S), NEW torn \in S, NEW cut \in CutShort(rows, torn)
    PROVE  cut \in Seq(S)
<1>1. Len(rows) \in Nat
  BY LenProperties
<1>2. \A k \in 0 .. Len(rows) : SubSeq(rows, 1, k) \in Seq(S)
  BY Prefix
<1>3. \A k \in 0 .. Len(rows) - 1 : Append(SubSeq(rows, 1, k), torn) \in Seq(S)
  BY <1>1, <1>2, AppendProperties
<1> QED
  BY <1>2, <1>3 DEF CutShort

-----------------------------------------------------------------------------
(* Every step keeps the invariant                                          *)

LEMMA Initially == Init => IInv
<1> SUFFICES ASSUME Init
             PROVE  IInv
  OBVIOUS
<1>1. /\ files = {} /\ pc = "down" /\ crashes = 0
      /\ index = <<>> /\ metadata = <<>> /\ failures = <<>>
      /\ checkpoint = NoCheckpoint /\ mem = EmptyMemory
  BY DEF Init
<1>2. TypeOK
  BY <1>1, TargetType, FaissAssumption DEF TypeOK, NoCheckpoint, EmptyMemory
<1>3. Shapes
  BY <1>1 DEF Shapes, EmptyMemory
<1>4. CreationInv
  BY <1>1 DEF CreationInv
<1>5. CheckpointInv
  BY <1>1 DEF CheckpointInv, Committed, NoCheckpoint, BuildOf
<1>6. RepairInv /\ BatchInv /\ ManifestInv
  BY <1>1 DEF RepairInv, BatchInv, ManifestInv
<1> QED
  BY <1>2, <1>3, <1>4, <1>5, <1>6 DEF IInv

\* The committed part is a build of the files the builder reads and appends to.
LEMMA CommittedCounts ==
    ASSUME TypeOK, Shapes, CheckpointInv
    PROVE  /\ Len(index) \in Nat /\ Len(metadata) \in Nat /\ Len(failures) \in Nat
           /\ Len(mem.index) \in Nat
           /\ checkpoint.vectors \in 0 .. Len(index)
           /\ checkpoint.rows \in 0 .. Len(metadata)
           /\ checkpoint.failed \in 0 .. Len(failures)
           /\ checkpoint.lines \in Nat
           /\ checkpoint.vectors + checkpoint.failed = checkpoint.lines
<1>1. /\ Len(index) \in Nat /\ Len(metadata) \in Nat /\ Len(failures) \in Nat
      /\ Len(mem.index) \in Nat
  BY LenProperties DEF Shapes
<1>2. /\ checkpoint.vectors \in Nat /\ checkpoint.failed \in Nat /\ checkpoint.rows \in Nat
      /\ checkpoint.lines \in Nat
  BY TargetType DEF TypeOK
<1>3. /\ checkpoint.vectors <= Len(metadata) /\ checkpoint.rows = checkpoint.vectors
      /\ checkpoint.vectors \in 0 .. Len(index) /\ checkpoint.failed \in 0 .. Len(failures)
      /\ checkpoint.vectors + checkpoint.failed = checkpoint.lines
  BY DEF CheckpointInv, Committed, BuildOf
<1> QED
  BY <1>1, <1>2, <1>3

\* A step that leaves the committed part of the three files and the checkpoint
\* leaves what is committed a build.
LEMMA CommittedStands ==
    ASSUME IInv, Shapes', UNCHANGED checkpoint,
           checkpoint.vectors <= Len(index'), checkpoint.vectors <= Len(metadata'),
           checkpoint.failed <= Len(failures'),
           \A i \in 1 .. checkpoint.vectors :
                index'[i] = index[i] /\ metadata'[i] = metadata[i],
           \A i \in 1 .. checkpoint.failed : failures'[i] = failures[i]
    PROVE  CheckpointInv'
<1>1. checkpoint.vectors \in Nat /\ checkpoint.failed \in Nat
  BY CommittedCounts DEF IInv
<1>2. /\ index' \in Seq(Nat) /\ metadata' \in Seq(Row) /\ failures' \in Seq(Nat)
  BY DEF Shapes
<1>3. /\ checkpoint.rows = checkpoint.vectors
      /\ BuildOf(index, metadata, failures,
                 checkpoint.vectors, checkpoint.failed, checkpoint.lines)
  BY DEF IInv, CheckpointInv, Committed
<1>4. BuildOf(index', metadata', failures',
              checkpoint.vectors, checkpoint.failed, checkpoint.lines)
  <2> DEFINE v == checkpoint.vectors
             f == checkpoint.failed
             n == checkpoint.lines
  <2>1. /\ v <= Len(index') /\ v <= Len(metadata') /\ f <= Len(failures')
        /\ v \in Nat /\ f \in Nat
        /\ \A i \in 1 .. v : index'[i] = index[i] /\ metadata'[i] = metadata[i]
        /\ \A i \in 1 .. f : failures'[i] = failures[i]
        /\ BuildOf(index, metadata, failures, v, f, n)
    BY <1>1, <1>3
  <2> HIDE DEF v, f, n
  <2>2. BuildOf(index', metadata', failures', v, f, n)
    <3>1. v \in 0 .. Len(index') /\ f \in 0 .. Len(failures')
      BY <1>2, <2>1, LenProperties
    <3> QED
      BY <2>1, <3>1 DEF BuildOf
  <2> QED
    BY <2>2 DEF v, f, n
<1> QED
  BY <1>3, <1>4 DEF CheckpointInv, Committed

LEMMA CreationSteps ==
    ASSUME IInv, StartFresh \/ CreateOutputs
    PROVE  IInv'
<1> USE DEF IInv
<1>1. /\ UNCHANGED <<index, metadata, failures, checkpoint, manifest, mem, crashes>>
      /\ "checkpoint" \notin files /\ "manifest" \notin files
      /\ "manifest" \notin files'
      /\ pc' \in {"creating", "reading"}
  BY DEF StartFresh, CreateOutputs, stored, CreationInv
<1>2. TypeOK'
  BY <1>1 DEF StartFresh, CreateOutputs, stored, TypeOK, Outputs
<1>3. Shapes' /\ CheckpointInv'
  BY <1>1 DEF Shapes, CheckpointInv, Committed
<1>4. CreationInv'
  BY <1>1 DEF StartFresh, CreateOutputs, stored, CreationInv, Outputs
<1>5. RepairInv' /\ BatchInv' /\ ManifestInv'
  BY <1>1 DEF RepairInv, BatchInv, ManifestInv, CreationInv, NoCheckpoint, EmptyMemory,
              IndexExact, MetadataExact, FailuresExact
<1> QED
  BY <1>2, <1>3, <1>4, <1>5

\* A resumed build cuts each file to what the checkpoint counts; under a
\* manifest there is nothing to cut.
LEMMA RepairSteps ==
    ASSUME IInv, Resume \/ TruncateMetadata \/ TruncateFailures
    PROVE  IInv'
<1> USE DEF IInv
<1>1. /\ checkpoint.vectors \in 0 .. Len(index) /\ checkpoint.vectors \in Nat
      /\ checkpoint.rows \in 0 .. Len(metadata) /\ checkpoint.rows = checkpoint.vectors
      /\ checkpoint.failed \in 0 .. Len(failures) /\ checkpoint.failed \in Nat
      /\ checkpoint.lines \in Nat
  BY CommittedCounts DEF CheckpointInv
<1>2. /\ index \in Seq(Nat) /\ metadata \in Seq(Row) /\ failures \in Seq(Nat)
      /\ mem \in [index : Seq(Nat), lines : Nat, rows : Seq(Row), failed : Seq(Nat)]
  BY DEF Shapes
<1>3. UNCHANGED <<files, checkpoint, manifest, crashes>>
  BY DEF Resume, TruncateMetadata, TruncateFailures
<1>4. CASE Resume
  <2>1. /\ index' = SubSeq(index, 1, checkpoint.vectors)
        /\ UNCHANGED <<metadata, failures>> /\ pc' = "truncating"
        /\ mem' = [index |-> index', lines |-> checkpoint.lines, rows |-> <<>>, failed |-> <<>>]
        /\ "checkpoint" \in files
    BY <1>4 DEF Resume, EmptyMemory
  <2>2. /\ index' \in Seq(Nat) /\ Len(index') = checkpoint.vectors
        /\ \A i \in 1 .. checkpoint.vectors : index'[i] = index[i]
        /\ checkpoint.vectors = Len(index) => index' = index
    BY <1>1, <1>2, <2>1, Prefix
  <2>3. Shapes'
    BY <1>1, <1>2, <2>1, <2>2 DEF Shapes
  <2>4. CheckpointInv'
    BY <1>1, <1>3, <2>1, <2>2, <2>3, CommittedStands
  <2>5. TypeOK'
    BY <1>3, <2>1 DEF TypeOK
  <2>6. CreationInv' /\ RepairInv' /\ BatchInv'
    BY <1>3, <2>1, <2>2 DEF CreationInv, RepairInv, BatchInv, IndexExact
  <2>7. ManifestInv'
    BY <1>3, <2>1, <2>2 DEF ManifestInv, IndexExact, MetadataExact, FailuresExact
  <2> QED
    BY <2>3, <2>4, <2>5, <2>6, <2>7
<1>5. CASE TruncateMetadata
  <2>1. /\ metadata' = SubSeq(metadata, 1, checkpoint.rows)
        /\ UNCHANGED <<index, failures, mem>>
        /\ pc = "truncating" /\ pc' = "truncating_failures"
    BY <1>5 DEF TruncateMetadata
  <2>2. /\ metadata' \in Seq(Row) /\ Len(metadata') = checkpoint.rows
        /\ \A i \in 1 .. checkpoint.rows : metadata'[i] = metadata[i]
        /\ checkpoint.rows = Len(metadata) => metadata' = metadata
    BY <1>1, <1>2, <2>1, Prefix
  <2>3. Shapes'
    BY <1>2, <2>1, <2>2 DEF Shapes
  <2>4. CheckpointInv'
    BY <1>1, <1>3, <2>1, <2>2, <2>3, CommittedStands
  <2>5. TypeOK'
    BY <1>3, <2>1 DEF TypeOK
  <2>6. CreationInv' /\ RepairInv' /\ BatchInv'
    BY <1>3, <2>1, <2>2 DEF CreationInv, RepairInv, BatchInv, IndexExact, MetadataExact
  <2>7. ManifestInv'
    BY <1>3, <2>1, <2>2 DEF ManifestInv, IndexExact, MetadataExact, FailuresExact
  <2> QED
    BY <2>3, <2>4, <2>5, <2>6, <2>7
<1>6. CASE TruncateFailures
  <2>1. /\ failures' = SubSeq(failures, 1, checkpoint.failed)
        /\ UNCHANGED <<index, metadata, mem>>
        /\ pc = "truncating_failures" /\ pc' = "reading"
    BY <1>6 DEF TruncateFailures
  <2>2. /\ failures' \in Seq(Nat) /\ Len(failures') = checkpoint.failed
        /\ \A i \in 1 .. checkpoint.failed : failures'[i] = failures[i]
        /\ checkpoint.failed = Len(failures) => failures' = failures
    BY <1>1, <1>2, <2>1, Prefix
  <2>3. Shapes'
    BY <1>2, <2>1, <2>2 DEF Shapes
  <2>4. CheckpointInv'
    BY <1>1, <1>3, <2>1, <2>2, <2>3, CommittedStands
  <2>5. TypeOK'
    BY <1>3, <2>1 DEF TypeOK
  <2>6. CreationInv' /\ RepairInv' /\ BatchInv'
    BY <1>3, <2>1, <2>2
    DEF CreationInv, RepairInv, BatchInv, IndexExact, MetadataExact, FailuresExact
  <2>7. ManifestInv'
    BY <1>3, <2>1, <2>2 DEF ManifestInv, IndexExact, MetadataExact, FailuresExact
  <2> QED
    BY <2>3, <2>4, <2>5, <2>6, <2>7
<1> QED
  BY <1>4, <1>5, <1>6

\* While lines are read there is no manifest unless all of them were.
LEMMA ReadingFacts ==
    ASSUME IInv, pc = "reading"
    PROVE  /\ index \in Seq(Nat) /\ metadata \in Seq(Row) /\ failures \in Seq(Nat)
           /\ "checkpoint" \in files
           /\ mem.index = index /\ mem.lines = checkpoint.lines /\ mem.lines \in 0 .. Target
           /\ mem.lines \in Nat /\ Len(index) \in Nat
           /\ IndexExact /\ MetadataExact /\ FailuresExact
           /\ Len(metadata) = Len(index)
           /\ BuildOf(index, metadata, failures, Len(index), Len(failures), mem.lines)
           /\ "manifest" \in files => mem.lines = Target
<1>1. /\ index \in Seq(Nat) /\ metadata \in Seq(Row) /\ failures \in Seq(Nat)
      /\ mem.index = index /\ mem.lines = checkpoint.lines
      /\ IndexExact /\ MetadataExact /\ FailuresExact
  BY DEF IInv, Shapes, RepairInv
<1>2. /\ "checkpoint" \in files /\ mem.lines \in 0 .. Target
      /\ "manifest" \in files => mem.lines = Target
  BY <1>1 DEF IInv, CreationInv, TypeOK, ManifestInv
<1>3. /\ checkpoint.rows = checkpoint.vectors
      /\ BuildOf(index, metadata, failures,
                 checkpoint.vectors, checkpoint.failed, checkpoint.lines)
  BY DEF IInv, CheckpointInv, Committed
<1>4. mem.lines \in Nat /\ Len(index) \in Nat
  BY <1>1, CommittedCounts DEF IInv
<1> QED
  BY <1>1, <1>2, <1>3, <1>4 DEF IndexExact, MetadataExact, FailuresExact

LEMMA ProcessBatchStep ==
    ASSUME IInv, ProcessBatch
    PROVE  IInv'
<1>1. /\ pc = "reading" /\ BatchLines # {} /\ pc' = "appending"
      /\ UNCHANGED <<stored, crashes>>
  BY DEF ProcessBatch
<1>2. /\ index \in Seq(Nat) /\ metadata \in Seq(Row) /\ failures \in Seq(Nat)
      /\ "checkpoint" \in files
      /\ mem.index = index /\ mem.lines = checkpoint.lines /\ mem.lines \in 0 .. Target
      /\ mem.lines \in Nat /\ Len(index) \in Nat
      /\ IndexExact /\ MetadataExact /\ FailuresExact
      /\ Len(metadata) = Len(index)
      /\ BuildOf(index, metadata, failures, Len(index), Len(failures), mem.lines)
      /\ "manifest" \in files => mem.lines = Target
  BY <1>1, ReadingFacts
<1>3. PICK m \in mem.lines .. Target :
             /\ m <= mem.lines + BatchSize
             /\ BatchLines = mem.lines + 1 .. m
             /\ IsFiniteSet(BatchLines) /\ Cardinality(BatchLines) = m - mem.lines
  BY <1>2, BatchInterval
<1>4. m \in Nat /\ m \in 0 .. Target /\ mem.lines < m
  BY <1>1, <1>2, <1>3, TargetType
<1>5. PICK ok \in SUBSET (BatchLines \ Malformed) :
        \E embedded \in InOrder(ok), failed \in InOrder(BatchLines \ ok) :
            mem' = [index |-> mem.index \o embedded,
                    lines |-> mem.lines + Cardinality(BatchLines),
                    rows |-> [i \in DOMAIN embedded |->
                                [line |-> embedded[i], id |-> Len(mem.index) + i - 1]],
                    failed |-> failed]
  BY DEF ProcessBatch
<1>6. PICK embedded \in InOrder(ok), lost \in InOrder(BatchLines \ ok) :
        mem' = [index |-> mem.index \o embedded,
                lines |-> mem.lines + Cardinality(BatchLines),
                rows |-> [i \in DOMAIN embedded |->
                            [line |-> embedded[i], id |-> Len(mem.index) + i - 1]],
                failed |-> lost]
  BY <1>5
<1>7. /\ mem'.index = index \o embedded /\ mem'.lines = m /\ mem'.failed = lost
      /\ mem'.rows = [i \in DOMAIN embedded |->
                        [line |-> embedded[i], id |-> Len(index) + i - 1]]
      /\ mem' = [index |-> mem'.index, lines |-> mem'.lines,
                 rows |-> mem'.rows, failed |-> mem'.failed]
  <2>1. mem.lines + (m - mem.lines) = m
    BY <1>2, <1>4
  <2> QED
    BY <1>2, <1>3, <1>6, <2>1
<1>8. BatchOf(Len(index), mem.lines, m, embedded, mem'.rows, lost)
  <2>1. PICK n \in Nat, k \in Nat : n = mem.lines /\ k = Len(index)
    BY <1>2
  <2>2. n <= m /\ ok \in SUBSET ((n + 1 .. m) \ Malformed)
    BY <1>3, <1>4, <2>1
  <2>3. embedded \in InOrder(ok) /\ lost \in InOrder((n + 1 .. m) \ ok)
    BY <1>3, <2>1
  <2>4. BatchOf(k, n, m, embedded,
                [i \in DOMAIN embedded |-> [line |-> embedded[i], id |-> k + i - 1]], lost)
    BY <1>4, <2>2, <2>3, BatchLists
  <2> QED
    BY <1>7, <2>1, <2>4
<1>9. /\ embedded \in Seq(Nat) /\ mem'.rows \in Seq(Row) /\ lost \in Seq(Nat)
  BY <1>8 DEF BatchOf
<1>10. /\ index \o embedded \in Seq(Nat)
      /\ Len(metadata \o mem'.rows) = Len(index \o embedded)
      /\ BuildOf(index \o embedded, metadata \o mem'.rows, failures \o lost,
                 Len(index \o embedded), Len(failures \o lost), m)
  <2>1. WholeBuild(index, metadata, failures, mem.lines)
    BY <1>2 DEF WholeBuild
  <2>2. WholeBuild(index \o embedded, metadata \o mem'.rows, failures \o lost, m)
    BY <1>2, <1>4, <1>8, <2>1, BuildGrows
  <2> QED
    BY <2>2 DEF WholeBuild
<1>11. /\ Len(index) <= Len(index \o embedded)
       /\ \A i \in 1 .. Len(index) : (index \o embedded)[i] = index[i]
  BY <1>2, <1>9, Appended
<1>12. TypeOK'
  BY <1>1, <1>4, <1>7 DEF IInv, TypeOK, stored
<1>13. Shapes'
  BY <1>1, <1>2, <1>4, <1>7, <1>10, <1>9 DEF Shapes, stored
<1>14. CreationInv' /\ CheckpointInv' /\ RepairInv'
  BY <1>1, <1>2 DEF IInv, CreationInv, CheckpointInv, Committed, RepairInv, stored
<1>15. BatchInv'
  <2>1. UNCHANGED <<index, metadata, failures, checkpoint>>
    BY <1>1 DEF stored
  <2>2. Held(metadata \o mem.rows, failures \o mem.failed)'
    BY <1>7, <1>10, <2>1 DEF Held
  <2>3. checkpoint.vectors = Len(index)
    BY <1>2 DEF IndexExact
  <2>4. \A i \in 1 .. Len(index \o embedded) :
            Len(index) < i => mem.lines < (index \o embedded)[i]
    <3> SUFFICES ASSUME NEW i \in 1 .. Len(index \o embedded), Len(index) < i
                 PROVE  mem.lines < (index \o embedded)[i]
      OBVIOUS
    <3>1. /\ Len(index \o embedded) = Len(index) + Len(embedded)
          /\ \A k \in 1 .. Len(index) + Len(embedded) :
                (index \o embedded)[k] = IF k <= Len(index) THEN index[k]
                                         ELSE embedded[k - Len(index)]
      BY <1>2, <1>9, ConcatProperties
    <3>2. Len(embedded) \in Nat
      BY <1>9, LenProperties
    <3>3. i - Len(index) \in 1 .. Len(embedded) /\ ~(i <= Len(index))
      BY <1>2, <3>1, <3>2
    <3>4. (index \o embedded)[i] = embedded[i - Len(index)]
      BY <3>1, <3>3
    <3>5. embedded[i - Len(index)] \in mem.lines + 1 .. m
      BY <1>8, <3>3 DEF BatchOf
    <3> QED
      BY <1>2, <1>4, <3>4, <3>5, SMTT(30)
  <2>5. Extends'
    <3>1. /\ checkpoint'.vectors <= Len(mem'.index)
          /\ checkpoint'.lines < mem'.lines /\ mem'.lines <= checkpoint'.lines + BatchSize
      BY <1>2, <1>3, <1>4, <1>7, <1>11, <2>1, <2>3
    <3>2. \A i \in 1 .. checkpoint'.vectors : mem'.index[i] = index'[i]
      BY <1>7, <1>11, <2>1, <2>3
    <3>3. \A i \in 1 .. Len(mem'.index) : checkpoint'.vectors < i => checkpoint'.lines < mem'.index[i]
      BY <1>2, <1>7, <2>1, <2>3, <2>4
    <3> QED
      BY <3>1, <3>2, <3>3 DEF Extends
  <2> QED
    BY <1>1, <1>2, <2>1, <2>2, <2>5 DEF BatchInv, MetadataExact, FailuresExact
<1>16. ManifestInv'
  BY <1>1, <1>2, <1>3, <1>4 DEF ManifestInv, stored
<1> QED
  BY <1>12, <1>13, <1>14, <1>15, <1>16 DEF IInv

\* The appends write behind what is committed.
LEMMA AppendSteps ==
    ASSUME IInv, AppendMetadata \/ AppendFailures
    PROVE  IInv'
<1>1. /\ index \in Seq(Nat) /\ metadata \in Seq(Row) /\ failures \in Seq(Nat)
      /\ mem \in [index : Seq(Nat), lines : Nat, rows : Seq(Row), failed : Seq(Nat)]
  BY DEF IInv, Shapes
<1>2. /\ checkpoint.vectors \in 0 .. Len(index) /\ checkpoint.vectors \in Nat
      /\ checkpoint.vectors \in 0 .. Len(metadata)
      /\ checkpoint.failed \in 0 .. Len(failures) /\ checkpoint.failed \in Nat
  BY CommittedCounts DEF IInv, CheckpointInv
<1>3. /\ UNCHANGED <<files, index, checkpoint, manifest, mem, crashes>>
      /\ pc \in {"appending", "appending_failures"}
      /\ pc' \in {"appending_failures", "storing_index"}
  BY DEF AppendMetadata, AppendFailures
<1>4. /\ metadata \o mem.rows \in Seq(Row) /\ Len(metadata) <= Len(metadata \o mem.rows)
      /\ Len(metadata) \in Nat /\ Len(metadata \o mem.rows) \in Nat
      /\ \A i \in 1 .. Len(metadata) : (metadata \o mem.rows)[i] = metadata[i]
  BY <1>1, Appended
<1>5. /\ failures \o mem.failed \in Seq(Nat) /\ Len(failures) <= Len(failures \o mem.failed)
      /\ Len(failures) \in Nat /\ Len(failures \o mem.failed) \in Nat
      /\ \A i \in 1 .. Len(failures) : (failures \o mem.failed)[i] = failures[i]
  BY <1>1, Appended
<1>6. Shapes'
  BY <1>1, <1>3, <1>4, <1>5 DEF Shapes, AppendMetadata, AppendFailures
<1>7. CheckpointInv'
  <2>1. /\ checkpoint.vectors <= Len(metadata')
        /\ \A i \in 1 .. checkpoint.vectors : metadata'[i] = metadata[i]
        /\ checkpoint.failed <= Len(failures')
        /\ \A i \in 1 .. checkpoint.failed : failures'[i] = failures[i]
    <3>1. /\ checkpoint.vectors <= Len(metadata) /\ checkpoint.failed <= Len(failures)
          /\ 1 .. checkpoint.vectors \subseteq 1 .. Len(metadata)
          /\ 1 .. checkpoint.failed \subseteq 1 .. Len(failures)
      BY <1>2, <1>4, <1>5, SMTT(30)
    <3>2. \/ metadata' = metadata
          \/ metadata' = metadata \o mem.rows
      BY DEF AppendMetadata, AppendFailures
    <3>3. \/ failures' = failures
          \/ failures' = failures \o mem.failed
      BY DEF AppendMetadata, AppendFailures
    <3>4. /\ checkpoint.vectors <= Len(metadata')
          /\ \A i \in 1 .. Len(metadata) : metadata'[i] = metadata[i]
      BY <1>2, <1>4, <3>1, <3>2, SMTT(30)
    <3>5. /\ checkpoint.failed <= Len(failures')
          /\ \A i \in 1 .. Len(failures) : failures'[i] = failures[i]
      <4>1. CASE failures' = failures
        BY <3>1, <4>1
      <4>2. CASE failures' = failures \o mem.failed
        <5>1. checkpoint.failed <= Len(failures \o mem.failed)
          BY <1>2, <1>5
        <5> QED
          BY <1>5, <4>2, <5>1
      <4> QED
        BY <3>3, <4>1, <4>2
    <3> QED
      BY <3>1, <3>4, <3>5
  <2>2. checkpoint.vectors <= Len(index') /\ index' = index
    BY <1>2, <1>3
  <2> QED
    BY <1>3, <1>6, <2>1, <2>2, CommittedStands
<1>8. TypeOK' /\ CreationInv' /\ RepairInv' /\ ManifestInv'
  BY <1>3 DEF IInv, TypeOK, CreationInv, RepairInv, ManifestInv
<1>9. BatchInv'
  BY <1>3 DEF IInv, BatchInv, AppendMetadata, AppendFailures, Held, Extends, FailuresExact
<1> QED
  BY <1>6, <1>7, <1>8, <1>9 DEF IInv

LEMMA StoreSteps ==
    ASSUME IInv, StoreIndex \/ StoreCheckpoint
    PROVE  IInv'
<1>1. /\ index \in Seq(Nat) /\ metadata \in Seq(Row) /\ failures \in Seq(Nat)
      /\ mem \in [index : Seq(Nat), lines : Nat, rows : Seq(Row), failed : Seq(Nat)]
  BY DEF IInv, Shapes
<1>2. /\ pc \in {"storing_index", "checkpointing"} /\ Held(metadata, failures) /\ Extends
      /\ UNCHANGED <<files, metadata, failures, manifest, mem, crashes>>
      /\ "manifest" \notin files /\ "checkpoint" \in files
  BY DEF StoreIndex, StoreCheckpoint, IInv, BatchInv, ManifestInv, CreationInv
<1>3. CASE StoreIndex
  <2>1. index' = mem.index /\ UNCHANGED checkpoint /\ pc' = "checkpointing"
    BY <1>3 DEF StoreIndex
  <2>2. Shapes'
    BY <1>1, <1>2, <2>1 DEF Shapes
  <2>3. CheckpointInv'
    <3>1. /\ checkpoint.vectors \in 0 .. Len(metadata) /\ checkpoint.failed \in 0 .. Len(failures)
          /\ checkpoint.vectors <= Len(mem.index)
          /\ \A i \in 1 .. checkpoint.vectors : mem.index[i] = index[i]
      BY <1>2, CommittedCounts DEF IInv, CheckpointInv, Extends
    <3>2. /\ Len(metadata) \in Nat /\ Len(failures) \in Nat
      BY <1>1, LenProperties
    <3> QED
      BY <1>2, <2>1, <2>2, <3>1, <3>2, CommittedStands
  <2>4. TypeOK' /\ CreationInv' /\ RepairInv' /\ ManifestInv'
    BY <1>2, <2>1 DEF IInv, TypeOK, CreationInv, RepairInv, ManifestInv
  <2>5. BatchInv'
    BY <1>2, <2>1 DEF BatchInv, Held, Extends
  <2> QED
    BY <2>2, <2>3, <2>4, <2>5 DEF IInv
<1>4. CASE StoreCheckpoint
  <2>1. /\ mem.index = index /\ UNCHANGED index /\ pc' = "reading"
        /\ checkpoint' = [lines |-> mem.lines, rows |-> Len(metadata), failed |-> Len(failures),
                          vectors |-> Len(mem.index), complete |-> FALSE]
    BY <1>4 DEF StoreCheckpoint, CheckpointValue, IInv, BatchInv
  <2>2. /\ Len(metadata) = Len(mem.index)
        /\ BuildOf(index, metadata, failures, Len(mem.index), Len(failures), mem.lines)
    BY <1>2, <2>1 DEF Held
  <2>3. CheckpointInv'
    BY <1>2, <2>1, <2>2 DEF CheckpointInv, Committed
  <2>4. TypeOK'
    <3>1. /\ mem.lines \in 0 .. Target /\ Target \in Nat
      BY TargetType DEF IInv, TypeOK
    <3>2. /\ Len(mem.index) + Len(failures) = mem.lines
          /\ Len(mem.index) \in Nat /\ Len(failures) \in Nat
      BY <1>1, <2>2, LenProperties DEF BuildOf
    <3>3. Len(mem.index) \in 0 .. Target /\ Len(failures) \in 0 .. Target
      BY <3>1, <3>2
    <3>4. checkpoint' \in [lines : 0 .. Target, rows : 0 .. Target, failed : 0 .. Target,
                           vectors : 0 .. Target, complete : BOOLEAN]
      BY <2>1, <2>2, <3>1, <3>3
    <3> QED
      BY <1>2, <2>1, <3>4 DEF IInv, TypeOK
  <2>5. Shapes' /\ CreationInv' /\ BatchInv' /\ ManifestInv'
    BY <1>1, <1>2, <2>1 DEF IInv, Shapes, CreationInv, BatchInv, ManifestInv
  <2>6. RepairInv'
    BY <1>2, <2>1, <2>2 DEF RepairInv, IndexExact, MetadataExact, FailuresExact
  <2> QED
    BY <2>3, <2>4, <2>5, <2>6 DEF IInv
<1> QED
  BY <1>3, <1>4

\* The loop ends with every line in the files; the manifest describes them, and
\* the last checkpoint counts the lines the one before it counted.
LEMMA FinishSteps ==
    ASSUME IInv, Publish \/ Complete
    PROVE  IInv'
<1>1. /\ index \in Seq(Nat) /\ metadata \in Seq(Row) /\ failures \in Seq(Nat)
      /\ mem \in [index : Seq(Nat), lines : Nat, rows : Seq(Row), failed : Seq(Nat)]
  BY DEF IInv, Shapes
<1>2. CASE Publish
  <2>1. /\ pc = "reading" /\ BatchLines = {} /\ pc' = "completing"
        /\ files' = files \cup {"manifest"}
        /\ manifest' = [index |-> index, metadata |-> metadata, failures |-> failures]
        /\ UNCHANGED <<index, metadata, failures, checkpoint, mem, crashes>>
    BY <1>2 DEF Publish
  <2>2. /\ "checkpoint" \in files /\ mem.index = index /\ mem.lines = checkpoint.lines
        /\ mem.lines \in 0 .. Target /\ IndexExact /\ MetadataExact /\ FailuresExact
    BY <2>1, ReadingFacts
  <2>3. mem.lines = Target
    BY <2>1, <2>2, BatchInterval
  <2>4. TypeOK' /\ Shapes' /\ CreationInv'
    BY <2>1, <2>2 DEF IInv, TypeOK, Shapes, CreationInv
  <2>5. CheckpointInv' /\ RepairInv' /\ BatchInv'
    BY <2>1 DEF IInv, CheckpointInv, Committed, RepairInv, BatchInv
  <2>6. ManifestInv'
    BY <2>1, <2>2, <2>3 DEF ManifestInv, IndexExact, MetadataExact, FailuresExact
  <2> QED
    BY <2>4, <2>5, <2>6 DEF IInv
<1>3. CASE Complete
  <2>1. /\ pc = "completing" /\ pc' = "down" /\ mem' = EmptyMemory
        /\ checkpoint' = [lines |-> mem.lines, rows |-> Len(metadata), failed |-> Len(failures),
                          vectors |-> Len(mem.index), complete |-> TRUE]
        /\ UNCHANGED <<files, index, metadata, failures, manifest, crashes>>
    BY <1>3 DEF Complete, CheckpointValue
  <2>2. /\ "manifest" \in files /\ "checkpoint" \in files
        /\ mem.index = index /\ mem.lines = checkpoint.lines
        /\ IndexExact /\ MetadataExact /\ FailuresExact
    BY <2>1 DEF IInv, ManifestInv, CreationInv
  <2>3. /\ checkpoint.rows = Len(metadata) /\ checkpoint.failed = Len(failures)
        /\ checkpoint.vectors = Len(mem.index)
    BY <2>2 DEF IndexExact, MetadataExact, FailuresExact
  <2>4. /\ checkpoint'.lines = checkpoint.lines /\ checkpoint'.rows = checkpoint.rows
        /\ checkpoint'.failed = checkpoint.failed /\ checkpoint'.vectors = checkpoint.vectors
        /\ checkpoint' \in [lines : 0 .. Target, rows : 0 .. Target, failed : 0 .. Target,
                            vectors : 0 .. Target, complete : BOOLEAN]
    <3>1. checkpoint \in [lines : 0 .. Target, rows : 0 .. Target, failed : 0 .. Target,
                          vectors : 0 .. Target, complete : BOOLEAN]
      BY DEF IInv, TypeOK
    <3> QED
      BY <2>1, <2>2, <2>3, <3>1
  <2>5. TypeOK'
    BY <2>1, <2>4, TargetType DEF IInv, TypeOK, EmptyMemory
  <2>6. Shapes' /\ CreationInv' /\ RepairInv' /\ BatchInv'
    BY <1>1, <2>1, <2>2 DEF IInv, Shapes, CreationInv, RepairInv, BatchInv, EmptyMemory
  <2>7. CheckpointInv'
    BY <2>1, <2>4 DEF IInv, CheckpointInv, Committed
  <2>8. ManifestInv'
    BY <2>1, <2>4 DEF IInv, ManifestInv, IndexExact, MetadataExact, FailuresExact
  <2> QED
    BY <2>5, <2>6, <2>7, <2>8 DEF IInv
<1> QED
  BY <1>2, <1>3

\* A crash loses the memory; a torn append is behind what the checkpoint counts.
LEMMA CrashStep ==
    ASSUME IInv, Crash
    PROVE  IInv'
<1>1. /\ index \in Seq(Nat) /\ metadata \in Seq(Row) /\ failures \in Seq(Nat)
      /\ mem \in [index : Seq(Nat), lines : Nat, rows : Seq(Row), failed : Seq(Nat)]
  BY DEF IInv, Shapes
<1>2. /\ crashes < MaxCrashes /\ crashes' = crashes + 1 /\ pc' = "down" /\ mem' = EmptyMemory
      /\ UNCHANGED <<files, index, checkpoint, manifest>>
  BY DEF Crash
<1>3. \E cut \in Seq(Row) : metadata' = metadata \o cut
  <2>1. CASE pc = "appending"
    <3>1. PICK cut \in CutShort(mem.rows, TornRow) : metadata' = metadata \o cut
      BY <2>1 DEF Crash
    <3>2. TornRow \in Row /\ mem.rows \in Seq(Row)
      BY <1>1 DEF TornRow, Torn, Row
    <3>3. cut \in Seq(Row)
      BY <3>2, CutShortType
    <3> QED
      BY <3>1, <3>3
  <2>2. CASE pc # "appending"
    <3>1. metadata' = metadata \o << >> /\ << >> \in Seq(Row)
      BY <1>1, <2>2 DEF Crash
    <3> QED
      BY <3>1, Zenon
  <2> QED
    BY <2>1, <2>2
<1>4. \E cut \in Seq(Nat) : failures' = failures \o cut
  <2>1. CASE pc = "appending_failures"
    <3>1. PICK cut \in CutShort(mem.failed, Torn) : failures' = failures \o cut
      BY <2>1 DEF Crash
    <3>2. Torn \in Nat /\ mem.failed \in Seq(Nat)
      BY <1>1 DEF Torn
    <3>3. cut \in Seq(Nat)
      BY <3>2, CutShortType
    <3> QED
      BY <3>1, <3>3
  <2>2. CASE pc # "appending_failures"
    <3>1. failures' = failures \o << >> /\ << >> \in Seq(Nat)
      BY <1>1, <2>2 DEF Crash
    <3> QED
      BY <3>1, Zenon
  <2> QED
    BY <2>1, <2>2
<1>5. /\ metadata' \in Seq(Row) /\ Len(metadata) <= Len(metadata')
      /\ Len(metadata) \in Nat /\ Len(metadata') \in Nat
      /\ \A i \in 1 .. Len(metadata) : metadata'[i] = metadata[i]
  <2>1. PICK cut \in Seq(Row) : metadata' = metadata \o cut
    BY <1>3
  <2> QED
    BY <1>1, <2>1, Appended
<1>6. /\ failures' \in Seq(Nat) /\ Len(failures) <= Len(failures')
      /\ Len(failures) \in Nat /\ Len(failures') \in Nat
      /\ \A i \in 1 .. Len(failures) : failures'[i] = failures[i]
  <2>1. PICK cut \in Seq(Nat) : failures' = failures \o cut
    BY <1>4
  <2> QED
    BY <1>1, <2>1, Appended
<1>7. Shapes'
  BY <1>1, <1>2, <1>5, <1>6 DEF Shapes, EmptyMemory
<1>8. CheckpointInv'
  <2>1. /\ checkpoint.vectors \in 0 .. Len(index) /\ checkpoint.vectors \in 0 .. Len(metadata)
        /\ checkpoint.failed \in 0 .. Len(failures)
    BY CommittedCounts DEF IInv, CheckpointInv
  <2>2. /\ 1 .. checkpoint.vectors \subseteq 1 .. Len(metadata)
        /\ 1 .. checkpoint.failed \subseteq 1 .. Len(failures)
    <3>1. checkpoint.vectors <= Len(metadata) /\ checkpoint.failed <= Len(failures)
      BY <2>1
    <3>2. 1 .. checkpoint.vectors \subseteq 1 .. Len(metadata)
      BY <2>1, <3>1
    <3>3. 1 .. checkpoint.failed \subseteq 1 .. Len(failures)
      BY <2>1, <3>1
    <3> QED
      BY <3>2, <3>3
  <2>3. /\ checkpoint.vectors <= Len(metadata') /\ checkpoint.failed <= Len(failures')
    BY <1>5, <1>6, <2>1
  <2>4. /\ checkpoint.vectors <= Len(index') /\ index' = index
    BY <1>2, <2>1
  <2>5. /\ \A i \in 1 .. checkpoint.vectors : metadata'[i] = metadata[i]
        /\ \A i \in 1 .. checkpoint.failed : failures'[i] = failures[i]
    BY <1>5, <1>6, <2>2
  <2> QED
    BY <1>2, <1>7, <2>3, <2>4, <2>5, CommittedStands
<1>9. TypeOK'
  BY <1>2, TargetType, FaissAssumption DEF IInv, TypeOK, EmptyMemory
<1>10. CreationInv'
  <2>1. "checkpoint" \notin files => UNCHANGED <<metadata, failures>>
    BY DEF IInv, CreationInv, Crash
  <2> QED
    BY <1>2, <2>1 DEF IInv, CreationInv
<1>11. RepairInv' /\ BatchInv'
  BY <1>2 DEF RepairInv, BatchInv
<1>12. ManifestInv'
  <2>1. "manifest" \in files => UNCHANGED <<metadata, failures>>
    BY DEF IInv, ManifestInv, Crash
  <2> QED
    BY <1>2, <2>1 DEF IInv, ManifestInv, IndexExact, MetadataExact, FailuresExact
<1> QED
  BY <1>7, <1>8, <1>9, <1>10, <1>11, <1>12 DEF IInv

\* Neither a step of the builder nor a crash breaks the invariant.
LEMMA Preserved == IInv /\ [Next]_vars => IInv'
<1> SUFFICES ASSUME IInv, [Next]_vars
             PROVE  IInv'
  OBVIOUS
<1>1. CASE StartFresh \/ CreateOutputs
  BY <1>1, CreationSteps
<1>2. CASE Resume \/ TruncateMetadata \/ TruncateFailures
  BY <1>2, RepairSteps
<1>3. CASE ProcessBatch
  BY <1>3, ProcessBatchStep
<1>4. CASE AppendMetadata \/ AppendFailures
  BY <1>4, AppendSteps
<1>5. CASE StoreIndex \/ StoreCheckpoint
  BY <1>5, StoreSteps
<1>6. CASE Publish \/ Complete
  BY <1>6, FinishSteps
<1>7. CASE Crash
  BY <1>7, CrashStep
<1>8. CASE UNCHANGED vars
  <2>1. UNCHANGED <<files, index, metadata, failures, checkpoint, manifest, pc, mem, crashes>>
    BY <1>8 DEF vars, stored
  <2>2. TypeOK' /\ Shapes' /\ CreationInv'
    BY <2>1 DEF IInv, TypeOK, Shapes, CreationInv
  <2>3. CheckpointInv'
    BY <2>1 DEF IInv, CheckpointInv, Committed
  <2>4. RepairInv' /\ ManifestInv'
    BY <2>1 DEF IInv, RepairInv, ManifestInv, IndexExact, MetadataExact, FailuresExact
  <2>5. BatchInv'
    BY <2>1 DEF IInv, BatchInv, Held, Extends, MetadataExact, FailuresExact
  <2> QED
    BY <2>2, <2>3, <2>4, <2>5 DEF IInv
<1> QED
  BY <1>1, <1>2, <1>3, <1>4, <1>5, <1>6, <1>7, <1>8 DEF Next, BuilderStep

LEMMA Invariance == Spec => []IInv
<1>1. Init => IInv
  BY Initially
<1>2. IInv /\ [Next]_vars => IInv'
  BY Preserved
<1> QED
  BY <1>1, <1>2, PTL DEF Spec

-----------------------------------------------------------------------------
(* Theorems                                                                *)

\* The builder is at one of its file operations, and neither its memory nor a
\* checkpoint counts a line beyond the limit or the input.
THEOREM TypeCorrect == Spec => []TypeOK
<1>1. IInv => TypeOK
  BY DEF IInv
<1> QED
  BY <1>1, Invariance, PTL

\* The prefixes of three lists that are a build are rows that match vectors, and
\* each of its lines once.
LEMMA BuildOfPrefixes ==
    ASSUME NEW vectors \in Seq(Nat), NEW rows \in Seq(Row), NEW failed \in Seq(Nat),
           NEW v, NEW f, NEW n, BuildOf(vectors, rows, failed, v, f, n)
    PROVE  /\ RowsMatch(SubSeq(vectors, 1, v), SubSeq(rows, 1, v))
           /\ LinesOnce(SubSeq(vectors, 1, v), SubSeq(failed, 1, f), n)
<1> DEFINE vs == SubSeq(vectors, 1, v)
           rs == SubSeq(rows, 1, v)
           fs == SubSeq(failed, 1, f)
<1>1. /\ v \in 0 .. Len(vectors) /\ v \in 0 .. Len(rows) /\ f \in 0 .. Len(failed)
      /\ v + f = n
  BY LenProperties DEF BuildOf
<1>2. /\ vs \in Seq(Nat) /\ Len(vs) = v /\ \A i \in 1 .. v : vs[i] = vectors[i]
  BY <1>1, Prefix
<1>3. /\ rs \in Seq(Row) /\ Len(rs) = v /\ \A i \in 1 .. v : rs[i] = rows[i]
  BY <1>1, Prefix
<1>4. /\ fs \in Seq(Nat) /\ Len(fs) = f /\ \A i \in 1 .. f : fs[i] = failed[i]
  BY <1>1, Prefix
<1> HIDE DEF vs, rs, fs
<1>5. DOMAIN vs = 1 .. v /\ DOMAIN rs = 1 .. v /\ DOMAIN fs = 1 .. f
  BY <1>2, <1>3, <1>4
<1>6. RowsMatch(vs, rs)
  BY <1>2, <1>3, <1>5 DEF RowsMatch, BuildOf
<1>7. Range(vs) \cup Range(fs) = 1 .. n
  <2>1. /\ \A i \in 1 .. v : vs[i] \in 1 .. n
        /\ \A i \in 1 .. f : fs[i] \in 1 .. n
    BY <1>2, <1>4 DEF BuildOf
  <2>2. \A l \in 1 .. n : \/ \E i \in 1 .. v : vs[i] = l
                          \/ \E i \in 1 .. f : fs[i] = l
    <3> SUFFICES ASSUME NEW l \in 1 .. n
                 PROVE  \/ \E i \in 1 .. v : vs[i] = l
                        \/ \E i \in 1 .. f : fs[i] = l
      OBVIOUS
    <3>1. \/ \E i \in 1 .. v : vectors[i] = l
          \/ \E i \in 1 .. f : failed[i] = l
      BY DEF BuildOf
    <3>2. CASE \E i \in 1 .. v : vectors[i] = l
      BY <1>2, <3>2
    <3>3. CASE \E i \in 1 .. f : failed[i] = l
      BY <1>4, <3>3
    <3> QED
      BY <3>1, <3>2, <3>3
  <2> QED
    BY <1>5, <2>1, <2>2 DEF Range
<1>8. LinesOnce(vs, fs, n)
  BY <1>1, <1>2, <1>4, <1>7 DEF LinesOnce
<1> QED
  BY <1>6, <1>8 DEF vs, rs, fs

\* Whatever was written when the process died, --resume finds the three files at
\* least as long as the checkpoint says, and what it counts of them is a
\* consistent build of the lines it counts.
THEOREM CheckpointsRecoverable == Spec => []Recoverable
<1>1. IInv => Recoverable
  <2> SUFFICES ASSUME IInv, "checkpoint" \in files
               PROVE  Recoverable
    BY DEF Recoverable
  <2>1. Outputs \subseteq files
    BY DEF IInv, CreationInv
  <2>2. /\ checkpoint.vectors \in 0 .. Len(index) /\ checkpoint.rows \in 0 .. Len(metadata)
        /\ checkpoint.failed \in 0 .. Len(failures)
        /\ Len(index) \in Nat /\ Len(metadata) \in Nat /\ Len(failures) \in Nat
    BY CommittedCounts DEF IInv
  <2>3. /\ checkpoint.vectors <= Len(index) /\ checkpoint.rows <= Len(metadata)
        /\ checkpoint.failed <= Len(failures)
    BY <2>2
  <2>4. /\ index \in Seq(Nat) /\ metadata \in Seq(Row) /\ failures \in Seq(Nat)
    BY DEF IInv, Shapes
  <2>5. /\ checkpoint.rows = checkpoint.vectors
        /\ BuildOf(index, metadata, failures,
                   checkpoint.vectors, checkpoint.failed, checkpoint.lines)
    BY DEF IInv, CheckpointInv, Committed
  <2>6. /\ RowsMatch(SubSeq(index, 1, checkpoint.vectors), SubSeq(metadata, 1, checkpoint.vectors))
        /\ LinesOnce(SubSeq(index, 1, checkpoint.vectors),
                     SubSeq(failures, 1, checkpoint.failed), checkpoint.lines)
    BY <2>4, <2>5, BuildOfPrefixes
  <2> QED
    BY <2>1, <2>3, <2>5, <2>6 DEF Recoverable
<1> QED
  BY <1>1, Invariance, PTL

\* A manifest is true from the moment it appears, whatever dies after it: it
\* describes the files as they are, and they hold every line of the target once,
\* vectors and rows in the same order.
THEOREM ManifestsValid == Spec => []PublishedValid
<1>1. IInv => PublishedValid
  <2> SUFFICES ASSUME IInv, "manifest" \in files
               PROVE  PublishedValid
    BY DEF PublishedValid
  <2>1. /\ manifest = [index |-> index, metadata |-> metadata, failures |-> failures]
        /\ Len(index) = checkpoint.vectors /\ Len(metadata) = checkpoint.rows
        /\ Len(failures) = checkpoint.failed /\ checkpoint.lines = Target
    BY DEF IInv, ManifestInv, IndexExact, MetadataExact, FailuresExact
  <2>2. /\ index \in Seq(Nat) /\ metadata \in Seq(Row) /\ failures \in Seq(Nat)
    BY DEF IInv, Shapes
  <2>3. /\ checkpoint.rows = checkpoint.vectors
        /\ BuildOf(index, metadata, failures,
                   checkpoint.vectors, checkpoint.failed, checkpoint.lines)
    BY DEF IInv, CheckpointInv, Committed
  <2>4. /\ RowsMatch(SubSeq(index, 1, checkpoint.vectors), SubSeq(metadata, 1, checkpoint.vectors))
        /\ LinesOnce(SubSeq(index, 1, checkpoint.vectors),
                     SubSeq(failures, 1, checkpoint.failed), checkpoint.lines)
    BY <2>2, <2>3, BuildOfPrefixes
  <2>5. /\ SubSeq(index, 1, checkpoint.vectors) = index
        /\ SubSeq(metadata, 1, checkpoint.vectors) = metadata
        /\ SubSeq(failures, 1, checkpoint.failed) = failures
    BY <2>1, <2>2, <2>3, SubSeqFull
  <2> QED
    BY <2>1, <2>4, <2>5 DEF PublishedValid
<1> QED
  BY <1>1, Invariance, PTL

-----------------------------------------------------------------------------
(* The build implements the ledger                                         *)

\* Ledger's outcome: of each line the checkpoint counts.
Outcome == [l \in 1 .. checkpoint.lines |->
              IF \E i \in 1 .. checkpoint.rows : metadata[i].line = l
              THEN "embedded" ELSE "failed"]

LEMMA OutcomeType ==
    ASSUME IInv
    PROVE  /\ Outcome \in Seq({"embedded", "failed"})
           /\ Len(Outcome) = checkpoint.lines /\ checkpoint.lines \in Nat
<1>1. checkpoint.lines \in Nat
  BY CommittedCounts DEF IInv
<1>2. Outcome \in [1 .. checkpoint.lines -> {"embedded", "failed"}]
  BY DEF Outcome
<1> QED
  BY <1>1, <1>2

\* A step that leaves what the checkpoint counts leaves the outcomes.
LEMMA OutcomeStands ==
    ASSUME IInv, UNCHANGED <<checkpoint.lines, checkpoint.rows>>,
           \A i \in 1 .. checkpoint.rows : metadata'[i] = metadata[i]
    PROVE  UNCHANGED Outcome
BY DEF Outcome

\* Neither a repair, nor an append, nor a crash changes what is committed.
LEMMA OtherStepsStutter ==
    ASSUME IInv, Next, ~StoreCheckpoint, ~Publish
    PROVE  /\ UNCHANGED Outcome
           /\ ("manifest" \in files') = ("manifest" \in files)
<1>1. /\ metadata \in Seq(Row) /\ mem.rows \in Seq(Row)
      /\ checkpoint.rows \in 0 .. Len(metadata) /\ Len(metadata) \in Nat
      /\ 1 .. checkpoint.rows \subseteq 1 .. Len(metadata)
  <2>1. /\ metadata \in Seq(Row) /\ mem.rows \in Seq(Row)
    BY DEF IInv, Shapes
  <2>2. checkpoint.rows \in 0 .. Len(metadata) /\ Len(metadata) \in Nat
    BY CommittedCounts DEF IInv
  <2> QED
    BY <2>1, <2>2
<1>2. ("manifest" \in files') = ("manifest" \in files)
  <2>1. \/ files' = files
        \/ \E f \in {"metadata", "failures", "index", "checkpoint"} : files' = files \cup {f}
    <3>1. CASE CreateOutputs
      BY <3>1 DEF CreateOutputs
    <3>2. CASE ~CreateOutputs
      BY <3>2 DEF Next, BuilderStep, StartFresh, Resume, TruncateMetadata,
                  TruncateFailures, ProcessBatch, AppendMetadata, AppendFailures, StoreIndex,
                  Complete, Crash, stored
    <3> QED
      BY <3>1, <3>2
  <2> QED
    BY <2>1
<1>3. UNCHANGED <<checkpoint.lines, checkpoint.rows>>
  <2>1. CASE Complete
    BY <2>1 DEF IInv, ManifestInv, MetadataExact, Complete, CheckpointValue
  <2>2. CASE ~Complete
    BY <2>2 DEF Next, BuilderStep, StartFresh, CreateOutputs, Resume, TruncateMetadata,
                TruncateFailures, ProcessBatch, AppendMetadata, AppendFailures, StoreIndex,
                Crash, stored
  <2> QED
    BY <2>1, <2>2
<1>4. \A i \in 1 .. checkpoint.rows : metadata'[i] = metadata[i]
  <2>1. CASE TruncateMetadata
    <3>1. metadata' = SubSeq(metadata, 1, checkpoint.rows)
      BY <2>1 DEF TruncateMetadata
    <3> QED
      BY <1>1, <3>1, Prefix
  <2>2. CASE AppendMetadata
    <3>1. metadata' = metadata \o mem.rows
      BY <2>2 DEF AppendMetadata
    <3>2. \A i \in 1 .. Len(metadata) : (metadata \o mem.rows)[i] = metadata[i]
      BY <1>1, Appended
    <3> QED
      BY <1>1, <3>1, <3>2
  <2>3. CASE Crash /\ pc = "appending"
    <3>1. PICK cut \in CutShort(mem.rows, TornRow) : metadata' = metadata \o cut
      BY <2>3 DEF Crash
    <3>2. TornRow \in Row
      BY DEF TornRow, Torn, Row
    <3>3. cut \in Seq(Row)
      BY <1>1, <3>2, CutShortType
    <3>4. \A i \in 1 .. Len(metadata) : (metadata \o cut)[i] = metadata[i]
      BY <1>1, <3>3, Appended
    <3> QED
      BY <1>1, <3>1, <3>4
  <2>4. CASE ~TruncateMetadata /\ ~AppendMetadata /\ ~(Crash /\ pc = "appending")
    <3>1. UNCHANGED metadata
      BY <2>4 DEF Next, BuilderStep, StartFresh, CreateOutputs, Resume,
                  TruncateFailures, ProcessBatch, AppendFailures, StoreIndex,
                  Complete, Crash, stored
    <3> QED
      BY <3>1
  <2> QED
    BY <2>1, <2>2, <2>3, <2>4
<1> QED
  BY <1>2, <1>3, <1>4, OutcomeStands

\* A checkpoint commits the outcomes of the lines of one batch, in order, after
\* those that were committed.
LEMMA CheckpointCommits ==
    ASSUME IInv, StoreCheckpoint
    PROVE  \E n \in 1 .. BatchSize :
              /\ Len(Outcome) + n <= Target
              /\ \E batch \in [1 .. n -> {"embedded", "failed"}] :
                    /\ \A i \in 1 .. n : Len(Outcome) + i \in Malformed => batch[i] = "failed"
                    /\ Outcome' = Outcome \o batch
<1>1. /\ pc = "checkpointing" /\ checkpoint'.lines = mem.lines
      /\ checkpoint'.rows = Len(metadata) /\ UNCHANGED metadata
  BY DEF StoreCheckpoint, CheckpointValue
<1>2. /\ Held(metadata, failures) /\ Extends /\ mem.index = index
      /\ mem.lines \in 0 .. Target /\ mem.lines \in Nat
  BY <1>1, TargetType DEF IInv, BatchInv, TypeOK
<1>3. /\ Outcome \in Seq({"embedded", "failed"})
      /\ Len(Outcome) = checkpoint.lines /\ checkpoint.lines \in Nat
  BY OutcomeType
<1>4. /\ checkpoint.rows = checkpoint.vectors /\ checkpoint.rows \in Nat
      /\ checkpoint.rows <= Len(metadata) /\ Len(metadata) \in Nat
      /\ Len(metadata) = Len(mem.index)
  BY <1>2, CommittedCounts DEF IInv, CheckpointInv, Held
<1>5. \A i \in 1 .. Len(metadata) :
         /\ metadata[i].line = mem.index[i] /\ metadata[i].line \notin Malformed
         /\ checkpoint.rows < i => checkpoint.lines < metadata[i].line
  <2> SUFFICES ASSUME NEW i \in 1 .. Len(metadata)
               PROVE  /\ metadata[i].line = mem.index[i] /\ metadata[i].line \notin Malformed
                      /\ checkpoint.rows < i => checkpoint.lines < metadata[i].line
    OBVIOUS
  <2>1. i \in 1 .. Len(mem.index)
    BY <1>4
  <2>2. /\ metadata[i] = [line |-> mem.index[i], id |-> i - 1]
        /\ mem.index[i] \in (1 .. mem.lines) \ Malformed
    BY <1>2, <2>1 DEF Held, BuildOf
  <2>3. checkpoint.vectors < i => checkpoint.lines < mem.index[i]
    BY <1>2, <2>1 DEF Extends
  <2> QED
    BY <1>4, <2>2, <2>3
<1>6. PICK n \in 1 .. BatchSize : n = mem.lines - checkpoint.lines
  BY <1>2, <1>3, FaissAssumption DEF Extends
<1>7. /\ n \in Nat /\ checkpoint.lines + n = mem.lines
  BY <1>2, <1>3, <1>6
<1> DEFINE told(l) == IF \E i \in 1 .. Len(metadata) : metadata[i].line = l
                      THEN "embedded" ELSE "failed"
           batch == [i \in 1 .. n |-> told(checkpoint.lines + i)]
<1>8. Outcome' = [l \in 1 .. mem.lines |-> told(l)]
  BY <1>1 DEF Outcome
<1>9. \A l \in 1 .. checkpoint.lines : told(l) = Outcome[l]
  <2> SUFFICES ASSUME NEW l \in 1 .. checkpoint.lines
               PROVE  (\E i \in 1 .. Len(metadata) : metadata[i].line = l)
                        <=> (\E i \in 1 .. checkpoint.rows : metadata[i].line = l)
    BY DEF Outcome
  <2>1. 1 .. checkpoint.rows \subseteq 1 .. Len(metadata)
    BY <1>4
  <2>2. ASSUME NEW i \in 1 .. Len(metadata), metadata[i].line = l
        PROVE  i \in 1 .. checkpoint.rows
    <3>1. ~(checkpoint.rows < i)
      BY <1>3, <1>5, <2>2
    <3> QED
      BY <1>4, <3>1
  <2> QED
    BY <2>1, <2>2
<1>10. batch \in [1 .. n -> {"embedded", "failed"}] /\ batch \in Seq({"embedded", "failed"})
       /\ Len(batch) = n
  BY <1>7
<1>11. \A i \in 1 .. n : checkpoint.lines + i \in Malformed => batch[i] = "failed"
  BY <1>5
<1> HIDE DEF batch
<1>12. Outcome' = Outcome \o batch
  <2>1. /\ Outcome \o batch \in Seq({"embedded", "failed"})
        /\ Len(Outcome \o batch) = checkpoint.lines + n
        /\ \A l \in 1 .. checkpoint.lines + n :
              (Outcome \o batch)[l] = IF l <= checkpoint.lines THEN Outcome[l]
                                      ELSE batch[l - checkpoint.lines]
    <3>1. PICK S : S = {"embedded", "failed"}
      OBVIOUS
    <3>2. Outcome \in Seq(S) /\ batch \in Seq(S)
      BY <1>3, <1>10, <3>1
    <3>3. /\ Outcome \o batch \in Seq(S)
          /\ Len(Outcome \o batch) = Len(Outcome) + Len(batch)
          /\ \A l \in 1 .. Len(Outcome) + Len(batch) :
                (Outcome \o batch)[l] = IF l <= Len(Outcome) THEN Outcome[l]
                                        ELSE batch[l - Len(Outcome)]
      BY <3>2, ConcatProperties
    <3> QED
      BY <1>3, <1>10, <3>1, <3>3
  <2>2. \A l \in 1 .. mem.lines : (Outcome \o batch)[l] = told(l)
    <3> SUFFICES ASSUME NEW l \in 1 .. mem.lines
                 PROVE  (Outcome \o batch)[l] = told(l)
      OBVIOUS
    <3>1. CASE l <= checkpoint.lines
      <4>1. l \in 1 .. checkpoint.lines /\ l \in 1 .. checkpoint.lines + n
        BY <1>3, <1>7, <3>1
      <4> HIDE DEF told
      <4> QED
        BY <1>9, <2>1, <3>1, <4>1
    <3>2. CASE ~(l <= checkpoint.lines)
      <4>1. /\ l - checkpoint.lines \in 1 .. n /\ l \in 1 .. checkpoint.lines + n
            /\ checkpoint.lines + (l - checkpoint.lines) = l
        BY <1>2, <1>3, <1>7, <3>2
      <4>2. batch[l - checkpoint.lines] = told(checkpoint.lines + (l - checkpoint.lines))
        BY <4>1 DEF batch
      <4> HIDE DEF told
      <4> QED
        BY <2>1, <3>2, <4>1, <4>2
    <3> QED
      BY <3>1, <3>2
  <2>3. Outcome \o batch = [l \in 1 .. mem.lines |-> (Outcome \o batch)[l]]
    <3>1. Outcome \o batch \in [1 .. mem.lines -> {"embedded", "failed"}]
      BY <1>7, <2>1, LenProperties, ElementOfSeq
    <3> QED
      BY <3>1
  <2> HIDE DEF told
  <2> QED
    BY <1>8, <2>2, <2>3
<1>13. checkpoint.lines + n <= Target
  BY <1>2, <1>7
<1> QED
  BY <1>3, <1>10, <1>11, <1>12, <1>13

\* Seen through its checkpoint, the build is the crash-free ledger: a crash, a
\* torn append and a resume change no committed outcome and repeat no line.
THEOREM BuildImplementsLedger == Spec => ImplementsEmbeddingLedger
<1>1. Init => Ledger!Init
  <2> SUFFICES ASSUME Init
               PROVE  Ledger!Init
    OBVIOUS
  <2>1. Outcome = << >>
    BY DEF Init, Outcome, NoCheckpoint
  <2> QED
    BY <2>1 DEF Init, Ledger!Init, Outcome
<1>2. IInv /\ [Next]_vars => [Ledger!Next]_(Ledger!vars)
  <2> SUFFICES ASSUME IInv, [Next]_vars
               PROVE  [Ledger!Next]_(Ledger!vars)
    OBVIOUS
  <2>1. CASE UNCHANGED vars
    BY <2>1 DEF vars, stored, Ledger!vars
  <2>2. CASE StoreCheckpoint
    <3>1. /\ "manifest" \notin files /\ UNCHANGED files
      BY <2>2 DEF IInv, ManifestInv, StoreCheckpoint
    <3>2. Ledger!Commit
      BY <2>2, <3>1, CheckpointCommits DEF Ledger!Commit, Outcome
    <3> QED
      BY <3>2 DEF Ledger!Next
  <2>3. CASE Publish
    <3>1. /\ pc = "reading" /\ BatchLines = {} /\ files' = files \cup {"manifest"}
          /\ UNCHANGED <<checkpoint, metadata>>
      BY <2>3 DEF Publish
    <3>2. mem.lines = checkpoint.lines /\ mem.lines \in 0 .. Target
      BY <3>1, ReadingFacts
    <3>3. mem.lines = Target
      BY <3>1, <3>2, BatchInterval
    <3>4. Len(Outcome) = Target /\ UNCHANGED Outcome
      BY <3>1, <3>2, <3>3, OutcomeType DEF Outcome
    <3>5. Ledger!Publish
      BY <3>1, <3>4 DEF Ledger!Publish, Outcome
    <3> QED
      BY <3>5 DEF Ledger!Next
  <2>4. CASE Next /\ ~StoreCheckpoint /\ ~Publish
    BY <2>4, OtherStepsStutter DEF Ledger!vars, Outcome
  <2> QED
    BY <2>1, <2>2, <2>3, <2>4
<1> QED
  BY <1>1, <1>2, Invariance, PTL DEF Spec, ImplementsEmbeddingLedger, Ledger!Spec
=============================================================================
