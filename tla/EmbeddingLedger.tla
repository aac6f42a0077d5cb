--------------------------- MODULE EmbeddingLedger ---------------------------
(***************************************************************************)
(* What the resumable FAISS build promises, with no files, offsets or      *)
(* crashes: every input line up to the target gets one outcome, in order;  *)
(* an outcome that was committed stands; the result is published once all  *)
(* are there.  FaissBuild is shown to implement it.                        *)
(***************************************************************************)
EXTENDS Naturals, Sequences

CONSTANTS
    Target,       \* lines to process
    BatchSize,    \* lines committed at once, at most
    Malformed     \* lines that are no chunk records

VARIABLES
    outcome,      \* of each committed line: "embedded" or "failed"
    published

vars == <<outcome, published>>

Init == outcome = <<>> /\ published = FALSE

\* A malformed line fails; any other may fail too.
Commit ==
    /\ ~published
    /\ \E n \in 1 .. BatchSize :
        /\ Len(outcome) + n <= Target
        /\ \E batch \in [1 .. n -> {"embedded", "failed"}] :
            /\ \A i \in 1 .. n : Len(outcome) + i \in Malformed => batch[i] = "failed"
            /\ outcome' = outcome \o batch
    /\ UNCHANGED published

Publish ==
    /\ Len(outcome) = Target
    /\ published' = TRUE
    /\ UNCHANGED outcome

Next == Commit \/ Publish

Spec == Init /\ [][Next]_vars
=============================================================================
