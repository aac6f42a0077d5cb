------------------------------- MODULE Chunker -------------------------------
(***************************************************************************)
(* How the text of one group (a section's fragments, a table's rows) is    *)
(* cut into chunks (src/src/disclosure_db/embedding_chunks.py).            *)
(*                                                                         *)
(* A unit is [tokens, evidence]: how many tokens its text has and the      *)
(* evidence they come from.  A token of a chunk is <<unit, position>>.  A  *)
(* configuration is [target, max, overlap].                                *)
(***************************************************************************)
EXTENDS Naturals, FiniteSets, SequencesExt, FiniteSetsExt

ConfigValid(config) ==
    config.target \in 1 .. config.max /\ config.overlap \in 0 .. config.target - 1

\* The tokens of a body and of its overlap, given the tokens of the prefix.
MaxBody(config, prefix) == IF config.max > prefix THEN config.max - prefix ELSE 0

TargetBody(config, prefix) ==
    IF config.target > prefix /\ config.target - prefix <= MaxBody(config, prefix)
    THEN config.target - prefix ELSE MaxBody(config, prefix)

Overlap(config, prefix) == Min({config.overlap, TargetBody(config, prefix) - 1})


\* What is carried into the next chunk.
Carried(current, overlap) ==
    IF overlap = 0 THEN <<>>
    ELSE IF Len(current) <= overlap THEN current ELSE SubSeq(current, Len(current) - overlap + 1, Len(current))

Emit(state, body, overlap) ==
    [state EXCEPT !.out = Append(@, body), !.current = Carried(body, overlap), !.new = FALSE]

\* The tokens that remain of one unit are added to the current body: all of them
\* while it stays within the target, or within the maximum (it is then emitted),
\* and otherwise as many as fit.
AddRemaining(config, prefix, state) ==
    LET max == MaxBody(config, prefix)
        overlap == Overlap(config, prefix)
        projected == Len(state.current) + Len(state.remaining)
        capacity == max - Len(state.current)
        whole == state.current \o state.remaining
    IN  CASE projected <= TargetBody(config, prefix) ->
                [state EXCEPT !.current = whole, !.new = TRUE, !.remaining = <<>>]
          [] projected > TargetBody(config, prefix) /\ projected <= max ->
                Emit([state EXCEPT !.remaining = <<>>], whole, overlap)
          [] projected > max /\ capacity = 0 /\ ~state.new ->
                [state EXCEPT !.failed = TRUE, !.remaining = <<>>]
          [] projected > max /\ capacity = 0 /\ state.new ->
                Emit(state, state.current, overlap)
          [] OTHER ->
                Emit([state EXCEPT !.remaining = SubSeq(@, capacity + 1, Len(@))],
                     state.current \o SubSeq(state.remaining, 1, capacity), overlap)

\* The loop over one unit, until nothing remains: the states after each iteration.
Fuel(tokens) == 2 * Len(tokens) + 2

Adding(config, prefix, start, tokens) ==
    LET state[n \in 0 .. Fuel(tokens)] ==
            IF n = 0 THEN [start EXCEPT !.remaining = tokens]
            ELSE LET before == state[n - 1]
                 IN  IF before.remaining = <<>> \/ before.failed THEN before
                     ELSE AddRemaining(config, prefix, before)
    IN  state

TokensOf(units, i) == [p \in 1 .. units[i].tokens |-> <<i, p>>]

\* The states after each unit.
Cutting(config, prefix, units) ==
    LET state[i \in 0 .. Len(units)] ==
            IF i = 0 THEN [out |-> <<>>, current |-> <<>>, new |-> FALSE, remaining |-> <<>>,
                           failed |-> MaxBody(config, prefix) = 0]
            ELSE LET before == state[i - 1]
                     tokens == TokensOf(units, i)
                 IN  IF before.failed THEN before
                     ELSE Adding(config, prefix, before, tokens)[Fuel(tokens)]
    IN  state

\* _chunk_body_tokens: the bodies, or a failure of the group.
Bodies(config, prefix, units) ==
    LET last == Cutting(config, prefix, units)[Len(units)]
    IN  [out |-> IF last.new /\ ~last.failed THEN Append(last.out, last.current) ELSE last.out,
         failed |-> last.failed]

\* _chunk_record: a chunk and the evidence it is linked to.
ChunkRecord(group, ordinal, prefix, prefixEvidence, body, units) ==
    [group |-> group, ordinal |-> ordinal, tokens |-> prefix + Len(body),
     evidence |-> prefixEvidence \cup UNION {units[body[k][1]].evidence : k \in DOMAIN body}]

\* The chunks of a group that are written, in order: an exception may come after
\* some of them.
GroupChunks(config, group) ==
    LET bodies == Bodies(config, group.prefix, group.units).out
    IN  [n \in 1 .. Min({group.breaksAfter, Len(bodies)}) |->
            ChunkRecord(group.id, n - 1, group.prefix, group.headerEvidence, bodies[n], group.units)]

GroupFailed(config, group) ==
    LET cut == Bodies(config, group.prefix, group.units)
    IN  \/ cut.failed \/ group.breaksAfter < Len(cut.out)
        \/ group.id[1] = "table" /\ cut.out = <<>>

-----------------------------------------------------------------------------
(* Properties                                                               *)

\* What may be assumed of a configuration and of the units of a text.
CutConfig(config) ==
    config.target \in Nat /\ config.max \in Nat /\ config.overlap \in Nat /\ ConfigValid(config)

Units(units) == Len(units) \in Nat /\ \A i \in 1 .. Len(units) : units[i].tokens \in Nat

\* How many tokens the first units have.
TokensUpTo(units) ==
    LET sum[i \in 0 .. Len(units)] == IF i = 0 THEN 0 ELSE sum[i - 1] + units[i].tokens
    IN  sum

\* Every token of every unit is in a chunk, in order, with the repeated tokens
\* only at the seams; a chunk stays within the maximum and brings something new.
BodiesSound(config, prefix, units) ==
    LET cut == Bodies(config, prefix, units)
        sum == TokensUpTo(units)
        Position(token) == token[2] + sum[token[1] - 1]
        First(n) == Position(Head(cut.out[n]))
        Last_(n) == Position(Last(cut.out[n]))
    IN  /\ \A n \in DOMAIN cut.out :
            /\ prefix + Len(cut.out[n]) <= config.max
            /\ Last_(n) - First(n) + 1 = Len(cut.out[n])
            /\ n > 1 => First(n) <= Last_(n - 1) + 1 /\ Last_(n) > Last_(n - 1)
                        /\ Last_(n - 1) - First(n) < config.overlap
        /\ cut.failed \/ sum[Len(units)] = 0
            \/ (First(1) = 1 /\ Last_(Len(cut.out)) = sum[Len(units)])
==============================================================================
