----------------------------- MODULE AccountResolution -----------------------------
(***************************************************************************)
(* Which account a question names: the catalog of                          *)
(* src/src/disclosure_db/financial_accounts.py and its deterministic,      *)
(* longest-surface resolution.  A text is a sequence of characters with    *)
(* Space among them; a surface is one too.                                 *)
(*                                                                         *)
(* A catalog is [accounts, expressions, legacy]: an account is [id,        *)
(* surfaces, concepts, support, statement, ambiguousWith, required,        *)
(* operation] with surfaces a set of [kind, text, english]; an expression  *)
(* is [text, candidates]; legacy maps old ids, [text, id].                 *)
(***************************************************************************)
EXTENDS Naturals, Sequences, FiniteSets, SequencesExt

CONSTANTS Space, Endings, Digits, Letters

NoAccountId == "none"

Supports == {"structured", "retrieval_only", "derived", "ambiguous", "unsupported"}

\* _MATCH_PRIORITY
Priority == [exact_label |-> 0, exact_alias |-> 1, typo_alias |-> 2, ambiguous_expression |-> 3]

Ids(catalog) == {a.id : a \in catalog.accounts}

\* FinancialAccount.from_mapping and the constructor of the catalog.
CatalogValid(catalog) ==
    /\ \A a, b \in catalog.accounts : a.id = b.id => a = b
    /\ \A a \in catalog.accounts :
        a.support \in Supports /\ a.ambiguousWith \cup a.required \subseteq Ids(catalog)
    /\ \A e \in catalog.expressions : e.text # <<>> /\ e.candidates \subseteq Ids(catalog)
    /\ \A l \in catalog.legacy : l.id \in Ids(catalog)

\* normalize_account_text: what the first n characters leave without the spaces.
Compacting(text) ==
    LET kept[n \in 0 .. Len(text)] ==
            IF n = 0 THEN <<>>
            ELSE IF text[n] = Space THEN kept[n - 1] ELSE Append(kept[n - 1], text[n])
    IN  kept

Compact(text) == Compacting(text)[Len(text)]

Occurs(text, surface, from) ==
    /\ surface # <<>> /\ from + Len(surface) - 1 <= Len(text)
    /\ SubSeq(text, from, from + Len(surface) - 1) = surface

\* _occurrences: what follows is nothing, a digit or a known ending.
Starts(text, surface) ==
    {i \in DOMAIN text :
        /\ Occurs(text, surface, i)
        /\ LET tail == SubSeq(text, i + Len(surface), Len(text))
           IN  \/ tail = <<>> \/ tail[1] \in Digits
               \/ \E s \in Endings : IsPrefix(s, tail)}

Match(from, surface, kind, id, candidates) ==
    [from |-> from, to |-> from + Len(surface), kind |-> kind, id |-> id, candidates |-> candidates]

\* _matches, in the text without spaces.
CompactMatches(catalog, text) ==
    LET named(a) == UNION {{Match(i, Compact(s.text), s.kind, a.id, {a.id}) :
                                i \in Starts(text, Compact(s.text))} : s \in a.surfaces}
        unclear(e) == {Match(i, Compact(e.text), "ambiguous_expression", NoAccountId, e.candidates) :
                                i \in Starts(text, Compact(e.text))}
    IN  (UNION {named(a) : a \in catalog.accounts}) \cup (UNION {unclear(e) : e \in catalog.expressions})

\* _english_matches: whole words, in the text as it is.
WordStarts(text, surface) ==
    {i \in DOMAIN text :
        /\ Occurs(text, surface, i)
        /\ i > 1 => text[i - 1] \notin Letters \cup Digits
        /\ i + Len(surface) <= Len(text) => text[i + Len(surface)] \notin Letters \cup Digits}

EnglishMatches(catalog, text) ==
    UNION {UNION {{Match(i, s.text, "exact_alias", a.id, {a.id}) : i \in WordStarts(text, s.text)} :
                    s \in {x \in a.surfaces : x.english}} : a \in catalog.accounts}

Shadows(m, n) ==
    /\ m.from <= n.from /\ n.to <= m.to
    /\ \/ m.to - m.from > n.to - n.from
       \/ /\ m.from = n.from /\ m.to = n.to
          /\ Priority[m.kind] < Priority[n.kind]

\* Faulty variant of NonShadowed: the longest matches win wherever they are.
LongestOnly(matches) ==
    {m \in matches : \A n \in matches : n.to - n.from <= m.to - m.from}

\* _non_shadowed
NonShadowed(matches) == {m \in matches : \A n \in matches : ~Shadows(n, m)}

\* The two readings of a text shadow matches among themselves only.
MatchesIn(catalog, text) ==
    NonShadowed(EnglishMatches(catalog, text)) \cup NonShadowed(CompactMatches(catalog, Compact(text)))

-----------------------------------------------------------------------------

Unknown == [status |-> "unknown", id |-> NoAccountId, support |-> "unsupported", candidates |-> {}]
Ambiguous(candidates) ==
    [status |-> "ambiguous", id |-> NoAccountId, support |-> "ambiguous", candidates |-> candidates]

\* _resolved: an account the catalog marks as ambiguous or unsupported stays so.
ResolvedAs(catalog, id) ==
    LET a == CHOOSE x \in catalog.accounts : x.id = id
    IN  [status |-> IF a.support \in {"ambiguous", "unsupported"} THEN a.support ELSE "resolved",
         id |-> id, support |-> a.support,
         candidates |-> IF a.support = "ambiguous" THEN a.ambiguousWith ELSE {}]

Legacy(catalog, text) ==
    LET named == {l \in catalog.legacy : l.text = text}
    IN  IF named = {} THEN Unknown ELSE ResolvedAs(catalog, (CHOOSE l \in named : TRUE).id)

\* resolve: a concept by its full name; one account, or a question back.
Resolve(catalog, text) ==
    LET concept == {a \in catalog.accounts : text \in a.concepts}
        matches == MatchesIn(catalog, text)
        named == {m.id : m \in matches} \ {NoAccountId}
    IN  CASE Compact(text) = <<>> -> Unknown
          [] Compact(text) # <<>> /\ concept # {} ->
                ResolvedAs(catalog, (CHOOSE a \in concept : TRUE).id)
          [] Compact(text) # <<>> /\ concept = {} /\ matches = {} -> Legacy(catalog, text)
          [] OTHER ->
                IF Cardinality(named) = 1 /\ \A m \in matches : m.kind # "ambiguous_expression"
                THEN ResolvedAs(catalog, CHOOSE id \in named : TRUE)
                ELSE Ambiguous(UNION {m.candidates : m \in matches})

-----------------------------------------------------------------------------
(* Properties                                                               *)

\* What a catalog read from a file has: finitely many accounts with an id, surfaces
\* that are strings, of a kind that can be ranked.
SurfacesKnown(catalog, C) ==
    /\ IsFiniteSet(Ids(catalog)) /\ NoAccountId \notin Ids(catalog)
    /\ \A a \in catalog.accounts : \A s \in a.surfaces :
            s.text \in Seq(C) /\ s.kind \in DOMAIN Priority /\ s.kind # "ambiguous_expression"
    /\ \A e \in catalog.expressions : e.text \in Seq(C)

\* A question is answered about an account only when the text names no other: each
\* occurrence of a surface of another account, and of an ambiguous expression, is
\* part of an occurrence of a surface of this one.  An account that the catalog
\* does not support is never resolved.
ResolutionSound(catalog, text) ==
    LET r == Resolve(catalog, text)
        covered(all) == \A m \in all : m.id # r.id =>
                            \E n \in all : n.id = r.id /\ n.from <= m.from /\ m.to <= n.to
        asConcept == \E a \in catalog.accounts : text \in a.concepts
    IN  r.status = "resolved" =>
            /\ \E a \in catalog.accounts :
                a.id = r.id /\ a.support \in {"structured", "retrieval_only", "derived"}
            /\ asConcept \/ (covered(EnglishMatches(catalog, text))
                                /\ covered(CompactMatches(catalog, Compact(text))))
=============================================================================
