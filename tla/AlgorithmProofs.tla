---------------------------- MODULE AlgorithmProofs ----------------------------
(***************************************************************************)
(* The pure algorithms, for every input: which account a question names,   *)
(* how text is cut into chunks, where the cells of a table are placed, and *)
(* which financial facts a seed admits.                                    *)
(***************************************************************************)
EXTENDS AccountQuestions, Chunker, TableGrid, FinancialFacts,
        FiniteSetTheorems, FunctionTheorems, SequenceTheorems, WellFoundedInduction, TLAPS

-----------------------------------------------------------------------------
(* Recursion over the naturals                                              *)

\* A set of numbers has a least one.
LEMMA LeastNumber ==
    ASSUME NEW S \in SUBSET Nat, S # {}
    PROVE  \E n \in S : \A m \in S : n <= m
<1> DEFINE R == {ss \in Nat \X Nat : ss[1] < ss[2]}
<1>1. IsWellFoundedOn(R, Nat)
  BY NatLessThanWellFounded, Zenon DEF OpToRel
<1> HIDE DEF R
<1>2. PICK n \in S : \A m \in S : ~(<<m, n>> \in R)
  BY <1>1, WFMin
<1>3. \A m \in S : ~(m < n)
  BY <1>2 DEF R
<1>4. QED
  BY <1>3

\* Induction up to a number, over the set of those for which something holds.
LEMMA Counting ==
    ASSUME NEW N \in Nat, NEW T, 0 \in T, \A n \in 1 .. N : n - 1 \in T => n \in T
    PROVE  0 .. N \subseteq T
<1> SUFFICES ASSUME (0 .. N) \ T # {} PROVE FALSE
  OBVIOUS
<1>0. (0 .. N) \ T \in SUBSET Nat
  OBVIOUS
<1>1. PICK n \in (0 .. N) \ T : \A m \in (0 .. N) \ T : n <= m
  BY <1>0, LeastNumber
<1>2. n # 0 /\ n - 1 \in 0 .. N
  BY <1>1
<1>3. n - 1 \in T
  BY <1>1, <1>2
<1>4. QED
  BY <1>1, <1>2, <1>3

Iterates(f, S, base, N, step) ==
    /\ f \in [0 .. N -> S]
    /\ f[0] = base
    /\ \A n \in 1 .. N : f[n] = step[<<f[n - 1], n>>]

\* A function that is defined from its value one place before exists.
LEMMA Recursion ==
    ASSUME NEW S, NEW base \in S, NEW N \in Nat, NEW step \in [S \X (1 .. N) -> S]
    PROVE  \E f : Iterates(f, S, base, N, step)
<1> DEFINE Good(f, m) == f[0] = base /\ \A n \in 1 .. m : f[n] = step[<<f[n - 1], n>>]
           T == {m \in 0 .. N : \E f \in [0 .. m -> S] : Good(f, m)}
<1>1. 0 \in T
  <2> DEFINE g == [n \in 0 .. 0 |-> base]
  <2>1. g \in [0 .. 0 -> S] /\ Good(g, 0)
    OBVIOUS
  <2> HIDE DEF g, Good
  <2>2. QED
    BY <2>1
<1>2. ASSUME NEW m \in 1 .. N, m - 1 \in T
      PROVE  m \in T
  <2>1. PICK f \in [0 .. m - 1 -> S] : Good(f, m - 1)
    BY <1>2
  <2>2. m - 1 \in 0 .. m - 1 /\ f[m - 1] \in S /\ 1 <= m
    BY <2>1
  <2> DEFINE g == [n \in 0 .. m |-> IF n = m THEN step[<<f[m - 1], m>>] ELSE f[n]]
  <2>3. g \in [0 .. m -> S]
    <3>1. step[<<f[m - 1], m>>] \in S
      BY <2>2
    <3>2. QED
      BY <2>2, <3>1
  <2>4. \A n \in 0 .. m - 1 : g[n] = f[n]
    OBVIOUS
  <2>5. g[m] = step[<<f[m - 1], m>>]
    BY <2>2
  <2> HIDE DEF g
  <2>6. Good(g, m)
    <3>1. g[0] = base
      BY <2>1, <2>2, <2>4
    <3>2. \A n \in 1 .. m - 1 : n - 1 \in 0 .. m - 1 /\ n \in 0 .. m - 1
      OBVIOUS
    <3>3. \A n \in 1 .. m - 1 : g[n] = step[<<g[n - 1], n>>]
      BY <2>1, <2>4, <3>2
    <3>4. g[m] = step[<<g[m - 1], m>>]
      BY <2>2, <2>4, <2>5
    <3>5. \A n \in 1 .. m : n = m \/ n \in 1 .. m - 1
      OBVIOUS
    <3>6. QED
      BY <3>1, <3>3, <3>4, <3>5
  <2> HIDE DEF Good
  <2>7. QED
    BY <2>3, <2>6
<1>3. N \in T
  <2> HIDE DEF T
  <2>1. 0 .. N \subseteq T
    BY <1>1, <1>2, Counting
  <2>2. QED
    BY <2>1
<1>4. QED
  BY <1>3 DEF Iterates

-----------------------------------------------------------------------------
(* Which account a question names                                           *)

\* Without its spaces a text is a sequence of characters.
LEMMA CompactType ==
    ASSUME NEW C, NEW words \in Seq(C)
    PROVE  Compact(words) \in Seq(C)
<1>1. PICK N : N = Len(words) /\ N \in Nat
  OBVIOUS
<1> DEFINE base == <<>>
           Step(v, n) == IF words[n] = Space THEN v ELSE Append(v, words[n])
           Is(f) == f = [n \in 0 .. N |-> IF n = 0 THEN base ELSE Step(f[n - 1], n)]
           step == [p \in Seq(C) \X (1 .. N) |-> Step(p[1], p[2])]
<1>2. base \in Seq(C)
  OBVIOUS
<1>3. \A v \in Seq(C), n \in 1 .. N : Step(v, n) \in Seq(C)
  BY <1>1
<1>4. \A f : Is(f) => Is(Compacting(words))
  BY <1>1, Zenon DEF Compacting
<1> HIDE DEF Step, base
<1>5. /\ step \in [Seq(C) \X (1 .. N) -> Seq(C)]
      /\ \A v \in Seq(C), n \in 1 .. N : step[<<v, n>>] = Step(v, n)
  BY <1>3
<1>6. \A n \in 1 .. N : n - 1 \in 0 .. N
  BY <1>1
<1> HIDE DEF step
<1>7. PICK g : Iterates(g, Seq(C), base, N, step)
  BY <1>1, <1>2, <1>5, Recursion, Zenon
<1>8. Is(g)
  <2>1. \A n \in 1 .. N : g[n] = Step(g[n - 1], n)
    BY <1>5, <1>6, <1>7 DEF Iterates
  <2>2. \A n \in 0 .. N : n = 0 \/ n \in 1 .. N
    BY <1>1
  <2>3. \A n \in 0 .. N : g[n] = IF n = 0 THEN base ELSE Step(g[n - 1], n)
    BY <1>7, <2>1, <2>2 DEF Iterates
  <2>4. QED
    BY <1>7, <2>3 DEF Iterates
<1> DEFINE f == Compacting(words)
<1>9. Is(f)
  BY <1>4, <1>8
<1> HIDE DEF f
<1> DEFINE T == {n \in 0 .. N : f[n] \in Seq(C)}
<1>10. 0 \in T
  BY <1>1, <1>2, <1>9
<1>11. ASSUME NEW n \in 1 .. N, n - 1 \in T PROVE n \in T
  <2>1. n \in 0 .. N /\ n # 0
    BY <1>1
  <2>2. f[n] = Step(f[n - 1], n)
    BY <1>9, <2>1
  <2>3. QED
    BY <1>3, <1>11, <2>1, <2>2
<1> HIDE DEF T
<1>12. 0 .. N \subseteq T
  BY <1>1, <1>10, <1>11, Counting
<1>13. QED
  BY <1>1, <1>12 DEF T, f, Compact

\* The matches there may be in a text of some length.
IsMatch(m, length) ==
    /\ m.from \in 1 .. length /\ m.to \in 1 .. length + 1 /\ m.from < m.to
    /\ m.kind \in DOMAIN Priority

Within(m, n) == n.from <= m.from /\ m.to <= n.to

LEMMA PriorityType == \A kind \in DOMAIN Priority : Priority[kind] \in 0 .. 3
  BY DEF Priority

\* Every match lies within one that nothing shadows: of those it lies within, the
\* longest of the best kind.
LEMMA WithinUnshadowed ==
    ASSUME NEW length \in Nat, NEW matches, \A m \in matches : IsMatch(m, length),
           NEW m \in matches
    PROVE  \E n \in NonShadowed(matches) : Within(m, n)
<1> DEFINE around == {n \in matches : Within(m, n)}
           Weight(n) == 4 * (length - (n.to - n.from)) + Priority[n.kind]
           weights == {Weight(n) : n \in around}
<1>1. \A n \in matches : /\ n.from \in Nat /\ n.to \in Nat /\ n.to - n.from <= length
                         /\ n.from < n.to /\ Priority[n.kind] \in 0 .. 3
  BY PriorityType DEF IsMatch
<1>2. weights \in SUBSET Nat
  BY <1>1
<1>3. m \in around
  BY <1>1 DEF Within
<1>4. PICK n \in around : \A k \in around : Weight(n) <= Weight(k)
  <2>1. weights # {}
    BY <1>3
  <2> HIDE DEF around
  <2>2. PICK w \in weights : \A v \in weights : w <= v
    BY <1>2, <2>1, LeastNumber
  <2>3. QED
    BY <2>2
<1>5. ASSUME NEW k \in matches, Shadows(k, n) PROVE FALSE
  <2>1. k \in around
    BY <1>1, <1>4, <1>5 DEF Shadows, Within
  <2>2. Weight(k) < Weight(n)
    BY <1>1, <1>4, <1>5 DEF Shadows
  <2>3. QED
    BY <1>1, <1>4, <2>1, <2>2
<1>6. QED
  BY <1>4, <1>5 DEF NonShadowed

\* An occurrence of a surface is a match of the text.
LEMMA OccurrenceFits ==
    ASSUME NEW C, NEW words \in Seq(C), NEW surface \in Seq(C), NEW i \in DOMAIN words,
           Occurs(words, surface, i), NEW kind \in DOMAIN Priority, NEW id, NEW candidates
    PROVE  IsMatch(Match(i, surface, kind, id, candidates), Len(words))
  BY DEF IsMatch, Match, Occurs

LEMMA EnglishFits ==
    ASSUME NEW C, NEW catalog, SurfacesKnown(catalog, C), NEW words \in Seq(C),
           NEW m \in EnglishMatches(catalog, words)
    PROVE  /\ IsMatch(m, Len(words)) /\ m.kind # "ambiguous_expression"
           /\ m.id \in Ids(catalog)
<1> DEFINE AtSurface(a, s) ==
              {Match(i, s.text, "exact_alias", a.id, {a.id}) : i \in WordStarts(words, s.text)}
           OfAccount(a) == UNION {AtSurface(a, s) : s \in {x \in a.surfaces : x.english}}
<1>a. m \in UNION {OfAccount(a) : a \in catalog.accounts}
  BY DEF EnglishMatches
<1> HIDE DEF OfAccount
<1>b. PICK a \in catalog.accounts : m \in OfAccount(a)
  BY <1>a
<1> HIDE DEF AtSurface
<1>c. PICK s \in a.surfaces : m \in AtSurface(a, s)
  BY <1>b DEF OfAccount
<1>1. PICK i \in WordStarts(words, s.text) : m = Match(i, s.text, "exact_alias", a.id, {a.id})
  BY <1>c DEF AtSurface
<1>d. i \in DOMAIN words /\ Occurs(words, s.text, i)
  BY DEF WordStarts
<1>2. s.text \in Seq(C)
  BY DEF SurfacesKnown
<1>3. "exact_alias" \in DOMAIN Priority
  BY DEF Priority
<1>4. QED
  BY <1>1, <1>d, <1>2, <1>3, OccurrenceFits DEF Match, Ids

LEMMA CompactFits ==
    ASSUME NEW C, NEW catalog, SurfacesKnown(catalog, C), NEW words \in Seq(C),
           NEW m \in CompactMatches(catalog, words)
    PROVE  /\ IsMatch(m, Len(words))
           /\ m.kind # "ambiguous_expression" => m.id \in Ids(catalog)
<1>1. CASE \E a \in catalog.accounts : \E s \in a.surfaces : \E i \in Starts(words, Compact(s.text)) :
              m = Match(i, Compact(s.text), s.kind, a.id, {a.id})
  <2>0. PICK a \in catalog.accounts : \E s \in a.surfaces : \E i \in Starts(words, Compact(s.text)) :
            m = Match(i, Compact(s.text), s.kind, a.id, {a.id})
    BY <1>1
  <2>1. PICK s \in a.surfaces : \E i \in Starts(words, Compact(s.text)) :
            m = Match(i, Compact(s.text), s.kind, a.id, {a.id})
    BY <2>0
  <2>1a. PICK i \in Starts(words, Compact(s.text)) :
            m = Match(i, Compact(s.text), s.kind, a.id, {a.id})
    BY <2>1
  <2>2. Compact(s.text) \in Seq(C) /\ s.kind \in DOMAIN Priority
    BY CompactType DEF SurfacesKnown
  <2>3. i \in DOMAIN words /\ Occurs(words, Compact(s.text), i)
    BY DEF Starts
  <2>4. QED
    BY <2>1a, <2>2, <2>3, OccurrenceFits DEF Match, Ids
<1>2. CASE \E e \in catalog.expressions : \E i \in Starts(words, Compact(e.text)) :
              m = Match(i, Compact(e.text), "ambiguous_expression", NoAccountId, e.candidates)
  <2>0. PICK e \in catalog.expressions : \E i \in Starts(words, Compact(e.text)) :
            m = Match(i, Compact(e.text), "ambiguous_expression", NoAccountId, e.candidates)
    BY <1>2
  <2>1. PICK i \in Starts(words, Compact(e.text)) :
            m = Match(i, Compact(e.text), "ambiguous_expression", NoAccountId, e.candidates)
    BY <2>0
  <2>2. Compact(e.text) \in Seq(C) /\ "ambiguous_expression" \in DOMAIN Priority
    BY CompactType DEF SurfacesKnown, Priority
  <2>3. i \in DOMAIN words /\ Occurs(words, Compact(e.text), i)
    BY DEF Starts
  <2>4. QED
    BY <2>1, <2>2, <2>3, OccurrenceFits DEF Match
<1> DEFINE AtSurface(a, s) ==
              {Match(i, Compact(s.text), s.kind, a.id, {a.id}) : i \in Starts(words, Compact(s.text))}
           OfAccount(a) == UNION {AtSurface(a, s) : s \in a.surfaces}
           Of(e) == {Match(i, Compact(e.text), "ambiguous_expression", NoAccountId, e.candidates) :
                        i \in Starts(words, Compact(e.text))}
<1>3. \/ m \in UNION {OfAccount(a) : a \in catalog.accounts}
      \/ m \in UNION {Of(e) : e \in catalog.expressions}
  BY DEF CompactMatches
<1>4. CASE m \in UNION {OfAccount(a) : a \in catalog.accounts}
  <2> HIDE DEF OfAccount
  <2>1. PICK a \in catalog.accounts : m \in OfAccount(a)
    BY <1>4
  <2> HIDE DEF AtSurface
  <2>2. PICK s \in a.surfaces : m \in AtSurface(a, s)
    BY <2>1 DEF OfAccount
  <2>3. QED
    BY <1>1, <2>2 DEF AtSurface
<1>5. CASE m \in UNION {Of(e) : e \in catalog.expressions}
  <2> HIDE DEF Of
  <2>1. PICK e \in catalog.expressions : m \in Of(e)
    BY <1>5
  <2>2. QED
    BY <1>2, <2>1 DEF Of
<1>6. QED
  BY <1>3, <1>4, <1>5

\* An account that is resolved is one of the catalog, which supports it.
LEMMA ResolvedSupported ==
    ASSUME NEW catalog, CatalogValid(catalog), NEW id \in Ids(catalog),
           ResolvedAs(catalog, id).status = "resolved"
    PROVE  /\ ResolvedAs(catalog, id).id = id
           /\ \E a \in catalog.accounts :
                a.id = id /\ a.support \in {"structured", "retrieval_only", "derived"}
<1> DEFINE a == CHOOSE x \in catalog.accounts : x.id = id
<1>1. a \in catalog.accounts /\ a.id = id
  BY DEF Ids
<1>2. a.support \in Supports
  BY <1>1 DEF CatalogValid
<1> HIDE DEF a
<1>3. a.support \notin {"ambiguous", "unsupported"} /\ ResolvedAs(catalog, id).id = id
  BY DEF ResolvedAs, a
<1>4. QED
  BY <1>1, <1>2, <1>3 DEF Supports

\* A set of one element has one.
LEMMA CardinalityOne ==
    ASSUME NEW S, IsFiniteSet(S), Cardinality(S) = 1
    PROVE  \E x : S = {x}
  BY FS_Singleton

\* Within the matches of one reading, what is not of the account named lies within
\* an occurrence of it when nothing else is left unshadowed.
LEMMA OthersCovered ==
    ASSUME NEW length \in Nat, NEW matches, \A m \in matches : IsMatch(m, length),
           NEW id, \A n \in NonShadowed(matches) : n.id = id
    PROVE  \A m \in matches : \E n \in matches : n.id = id /\ n.from <= m.from /\ m.to <= n.to
<1> TAKE m \in matches
<1>1. PICK n \in NonShadowed(matches) : Within(m, n)
  BY WithinUnshadowed
<1>2. QED
  BY <1>1 DEF NonShadowed, Within

\* For every catalog the constructor accepts and every text: an account is resolved
\* only when every occurrence of another account's name, and of an ambiguous
\* expression, is part of an occurrence of this one's; and only if the catalog
\* supports it (resolve, _matches and _non_shadowed).
THEOREM ResolutionIsSound ==
    ASSUME NEW C, NEW catalog, CatalogValid(catalog), SurfacesKnown(catalog, C),
           NEW words \in Seq(C)
    PROVE  ResolutionSound(catalog, words)
<1> DEFINE r == Resolve(catalog, words)
           english == EnglishMatches(catalog, words)
           compact == CompactMatches(catalog, Compact(words))
           concept == {a \in catalog.accounts : words \in a.concepts}
           matches == MatchesIn(catalog, words)
           named == {m.id : m \in matches} \ {NoAccountId}
           legacy == {l \in catalog.legacy : l.text = words}
           Supported(id) == \E a \in catalog.accounts :
                a.id = id /\ a.support \in {"structured", "retrieval_only", "derived"}
           Covered_(all) == \A m \in all : m.id # r.id =>
                                \E n \in all : n.id = r.id /\ n.from <= m.from /\ m.to <= n.to
<1> SUFFICES ASSUME r.status = "resolved"
             PROVE  Supported(r.id) /\ (concept # {} \/ (Covered_(english) /\ Covered_(compact)))
  BY DEF ResolutionSound
<1>1. Len(words) \in Nat /\ Compact(words) \in Seq(C) /\ Len(Compact(words)) \in Nat
  BY CompactType
<1>2. /\ \A m \in english : IsMatch(m, Len(words)) /\ m.kind # "ambiguous_expression"
                            /\ m.id \in Ids(catalog)
      /\ \A m \in compact : /\ IsMatch(m, Len(Compact(words)))
                            /\ m.kind # "ambiguous_expression" => m.id \in Ids(catalog)
  BY <1>1, EnglishFits, CompactFits
<1>3. matches = NonShadowed(english) \cup NonShadowed(compact)
  BY DEF MatchesIn
<1> HIDE DEF english, compact
<1>4. Compact(words) # <<>>
  BY DEF Resolve, Unknown
<1>5. CASE concept # {}
  <2>1. PICK a \in concept : r = ResolvedAs(catalog, a.id)
    <3> DEFINE a == CHOOSE x \in concept : TRUE
    <3>1. a \in concept
      BY <1>5
    <3>2. r = ResolvedAs(catalog, a.id)
      BY <1>4, <1>5 DEF Resolve
    <3>3. QED
      BY <3>1, <3>2
  <2>2. QED
    BY <1>5, <2>1, ResolvedSupported DEF Ids
<1>6. CASE concept = {} /\ matches = {}
  <2>1. english = {} /\ compact = {}
    BY <1>1, <1>2, <1>3, <1>6, WithinUnshadowed
  <2>2. r = Legacy(catalog, words)
    BY <1>4, <1>6 DEF Resolve
  <2>3. legacy # {}
    BY <2>2 DEF Legacy, Unknown
  <2>4. PICK l \in legacy : r = ResolvedAs(catalog, l.id)
    <3> DEFINE l == CHOOSE x \in legacy : TRUE
    <3>1. l \in legacy
      BY <2>3
    <3>2. r = ResolvedAs(catalog, l.id)
      BY <2>2, <2>3 DEF Legacy
    <3>3. QED
      BY <3>1, <3>2
  <2>5. l.id \in Ids(catalog)
    BY DEF CatalogValid
  <2>6. QED
    BY <2>1, <2>4, <2>5, ResolvedSupported
<1>7. CASE concept = {} /\ matches # {}
  <2>1. r = IF Cardinality(named) = 1 /\ \A m \in matches : m.kind # "ambiguous_expression"
            THEN ResolvedAs(catalog, CHOOSE id \in named : TRUE)
            ELSE Ambiguous(UNION {m.candidates : m \in matches})
    BY <1>4, <1>7 DEF Resolve
  <2>2. /\ \A m \in matches : m.kind # "ambiguous_expression"
        /\ Cardinality(named) = 1
        /\ r = ResolvedAs(catalog, CHOOSE id \in named : TRUE)
    BY <2>1 DEF Ambiguous
  <2>3. \A m \in matches : m.id \in Ids(catalog) /\ m.id # NoAccountId
    BY <1>2, <1>3, <2>2 DEF NonShadowed, SurfacesKnown
  <2>4. PICK id : named = {id}
    <3>1. named \in SUBSET Ids(catalog)
      BY <2>3
    <3>2. IsFiniteSet(named)
      BY <3>1, FS_Subset DEF SurfacesKnown
    <3>3. QED
      BY <2>2, <3>2, CardinalityOne
  <2>5. id \in Ids(catalog) /\ r = ResolvedAs(catalog, id)
    BY <2>2, <2>3, <2>4
  <2>6. r.id = id /\ Supported(id)
    BY <2>5, ResolvedSupported
  <2>7. \A n \in matches : n.id = id
    BY <2>3, <2>4
  <2>8. (\A n \in NonShadowed(english) : n.id = id) /\ (\A n \in NonShadowed(compact) : n.id = id)
    BY <1>3, <2>7
  <2>9. Covered_(english) /\ Covered_(compact)
    <3>1. \A m \in english : \E n \in english : n.id = id /\ n.from <= m.from /\ m.to <= n.to
      <4>1. \A m \in english : IsMatch(m, Len(words))
        BY <1>2
      <4>2. \A n \in NonShadowed(english) : n.id = id
        BY <2>8
      <4>3. QED
        BY <1>1, <4>1, <4>2, OthersCovered
    <3>2. \A m \in compact : \E n \in compact : n.id = id /\ n.from <= m.from /\ m.to <= n.to
      BY <1>1, <1>2, <2>8, OthersCovered
    <3>3. QED
      BY <2>6, <3>1, <3>2
  <2>10. QED
    BY <2>6, <2>9
<1>8. QED
  BY <1>5, <1>6, <1>7

\* Of every text, the loaded catalog answers about an account only when the text
\* names no other one.
THEOREM AccountsAreCertain == ResolveSpec => []AccountsCertain
<1>1. ResolveInit => AccountsCertain
  <2> SUFFICES ASSUME text \in Texts PROVE ResolutionSound(Catalog, text)
    BY DEF ResolveInit, AccountsCertain
  <2>1. text \in Seq(Characters)
    BY TextsAssumption
  <2>2. QED
    BY <2>1, CatalogAssumption, ResolutionIsSound, Zenon
<1>2. ResolveInit /\ [UNCHANGED text]_text => ResolveInit'
  BY DEF ResolveInit
<1>3. QED
  BY <1>1, <1>2, PTL DEF ResolveSpec

-----------------------------------------------------------------------------
(* Where the cells of a table are placed                                    *)

\* Sequences put one after the other are a sequence.
LEMMA FlattenType ==
    ASSUME NEW E, NEW seqs \in Seq(Seq(E))
    PROVE  FlattenSeq(seqs) \in Seq(E)
<1>1. PICK N : N = Len(seqs) /\ N \in Nat
  OBVIOUS
<1>2. CASE N = 0
  <2>1. seqs = <<>>
    BY <1>1, <1>2, EmptySeq
  <2>2. FlattenSeq(seqs) = <<>>
    BY <2>1 DEF FlattenSeq
  <2>3. QED
    BY <2>2
<1>3. CASE N # 0
  <2> DEFINE Step(v, n) == v \o seqs[n]
             Is(f) == f = [i \in 1 .. N |-> IF i = 1 THEN seqs[i] ELSE f[i - 1] \o seqs[i]]
             step == [p \in Seq(E) \X (1 .. N) |-> Step(p[1], p[2])]
             base == <<>>
             flat == CHOOSE f : Is(f)
  <2>1. FlattenSeq(seqs) = flat[N]
    BY <1>1, <1>3 DEF FlattenSeq
  <2>2. base \in Seq(E)
    OBVIOUS
  <2>3. /\ \A n \in 1 .. N : seqs[n] \in Seq(E) /\ <<>> \o seqs[n] = seqs[n]
        /\ \A v \in Seq(E), n \in 1 .. N : Step(v, n) \in Seq(E)
    BY <1>1
  <2>4. /\ step \in [Seq(E) \X (1 .. N) -> Seq(E)]
        /\ \A v \in Seq(E), n \in 1 .. N : step[<<v, n>>] = v \o seqs[n]
    BY <2>3
  <2> HIDE DEF step, flat
  <2>5. PICK g : Iterates(g, Seq(E), base, N, step)
    <3> HIDE DEF base
    <3>1. QED
      BY <1>1, <2>2, <2>4, Recursion, Zenon
  <2> DEFINE h == [i \in 1 .. N |-> g[i]]
  <2>6. \A n \in 1 .. N : n - 1 \in 0 .. N /\ (n # 1 => n - 1 \in 1 .. N) /\ (n = 1 => n - 1 = 0)
    BY <1>1
  <2>7. \A i \in 1 .. N : h[i] = IF i = 1 THEN seqs[i] ELSE h[i - 1] \o seqs[i]
    <3>1. \A i \in 1 .. N : g[i] = g[i - 1] \o seqs[i]
      BY <2>4, <2>5, <2>6 DEF Iterates
    <3>2. ASSUME NEW i \in 1 .. N, i = 1 PROVE h[i] = seqs[i]
      <4>1. g[i] = g[0] \o seqs[i] /\ h[i] = g[i]
        BY <2>6, <3>1, <3>2
      <4>2. g[0] = base
        BY <2>5 DEF Iterates
      <4>3. base \o seqs[i] = seqs[i]
        BY <2>3
      <4> HIDE DEF h, base
      <4>4. QED
        BY <4>1, <4>2, <4>3
    <3>3. ASSUME NEW i \in 1 .. N, i # 1 PROVE h[i] = h[i - 1] \o seqs[i]
      BY <2>6, <3>1, <3>3
    <3> HIDE DEF h
    <3>4. QED
      BY <3>2, <3>3
  <2>8. Is(h)
    BY <2>7
  <2> HIDE DEF h, Is
  <2>9. Is(flat)
    BY <2>8, Zenon DEF flat
  <2> USE DEF Is
  <2> DEFINE T == {n \in 0 .. N : n = 0 \/ flat[n] \in Seq(E)}
  <2>10. 0 \in T
    BY <1>1
  <2>11. ASSUME NEW n \in 1 .. N, n - 1 \in T PROVE n \in T
    <3>1. flat[n] = IF n = 1 THEN seqs[n] ELSE flat[n - 1] \o seqs[n]
      BY <2>9
    <3>2. CASE n = 1
      BY <1>1, <2>3, <3>1, <3>2
    <3>3. CASE n # 1
      <4>1. flat[n - 1] \in Seq(E)
        BY <2>6, <2>11, <3>3
      <4>2. flat[n] \in Seq(E)
        BY <2>3, <3>1, <3>3, <4>1
      <4>3. QED
        BY <1>1, <4>2
    <3>4. QED
      BY <3>2, <3>3
  <2> HIDE DEF T
  <2>12. 0 .. N \subseteq T
    BY <1>1, <2>10, <2>11, Counting
  <2>13. N \in T
    BY <1>1, <2>12
  <2>14. QED
    BY <1>3, <2>1, <2>13 DEF T
<1>4. QED
  BY <1>2, <1>3

\* The cells in the order of the document, each with its row.
TableItems == [row : Nat, cell : TableCells]

Area(p) == Covered(p.row, p.column, p.cell)

\* The grids a table can have been filled to: what a cell covers is occupied, and no
\* cell starts where an earlier one reaches.
Grids ==
    {g \in [placed : Seq([row : Nat, column : Nat, cell : TableCells]), occupied : SUBSET (Nat \X Nat)] :
        /\ IsFiniteSet(g.occupied)
        /\ \A i \in DOMAIN g.placed : Area(g.placed[i]) \subseteq g.occupied
        /\ \A i, j \in DOMAIN g.placed : i < j =>
                <<g.placed[j].row, g.placed[j].column>> \notin Area(g.placed[i])}

\* A row has a free column, by counting; the first is taken.
LEMMA PositionFree ==
    ASSUME NEW row \in Nat, NEW occupied, IsFiniteSet(occupied)
    PROVE  GridPosition(row, occupied) \in Nat /\ <<row, GridPosition(row, occupied)>> \notin occupied
<1>1. PICK N : N = Cardinality(occupied) /\ N \in Nat
  BY FS_CardinalityType
<1> DEFINE free == {c \in 0 .. N : <<row, c>> \notin occupied}
<1>2. free # {}
  <2>1. SUFFICES ASSUME free = {} PROVE FALSE
    OBVIOUS
  <2> DEFINE f == [c \in 0 .. N |-> <<row, c>>]
  <2>2. f \in [0 .. N -> occupied]
    BY <2>1
  <2>3. IsFiniteSet(0 .. N) /\ Cardinality(0 .. N) = N + 1
    BY <1>1, FS_Interval
  <2>4. \A x, y \in 0 .. N : f[x] = f[y] => x = y
    OBVIOUS
  <2> HIDE DEF f
  <2>5. Cardinality(occupied) < Cardinality(0 .. N)
    BY <1>1, <2>3
  <2>6. \E x, y \in 0 .. N : x # y /\ f[x] = f[y]
    BY <2>2, <2>3, <2>5, FS_PigeonHole
  <2>7. QED
    BY <2>4, <2>6
<1>3. free \in SUBSET Nat
  BY <1>1
<1>4. PICK c \in free : \A d \in free : c <= d
  BY <1>2, <1>3, LeastNumber
<1>5. \A d \in 0 .. c - 1 : <<row, d>> \in occupied
  BY <1>1, <1>4
<1>6. c \in 0 .. Cardinality(occupied) /\ <<row, c>> \notin occupied
  BY <1>1, <1>4
<1>7. GridPosition(row, occupied) \in 0 .. Cardinality(occupied)
      /\ <<row, GridPosition(row, occupied)>> \notin occupied
  BY <1>5, <1>6 DEF GridPosition
<1>8. QED
  BY <1>1, <1>7

LEMMA PlaceKeeps ==
    ASSUME NEW g \in Grids, NEW row \in Nat, NEW cell \in TableCells
    PROVE  Place(g, row, cell) \in Grids
<1> DEFINE column == GridPosition(row, g.occupied)
           covered == Covered(row, column, cell)
           item == [row |-> row, column |-> column, cell |-> cell]
           placed == Append(g.placed, item)
           Placements == [row : Nat, column : Nat, cell : TableCells]
           At(p) == <<p.row, p.column>>
<1>1. column \in Nat /\ <<row, column>> \notin g.occupied
  BY PositionFree DEF Grids
<1> HIDE DEF column
<1>2. covered \in SUBSET (Nat \X Nat) /\ IsFiniteSet(covered)
  <2> DEFINE down == row .. row + cell.rowspan - 1
             right == column .. column + cell.colspan - 1
  <2>1. cell.rowspan \in Nat \ {0} /\ cell.colspan \in Nat \ {0}
    BY DEF TableCells
  <2>2. down \in SUBSET Nat /\ right \in SUBSET Nat
    BY <1>1, <2>1
  <2>3. /\ row + cell.rowspan - 1 \in Int /\ column + cell.colspan - 1 \in Int
        /\ row \in Int /\ column \in Int
    BY <1>1, <2>1
  <2>4. IsFiniteSet(down) /\ IsFiniteSet(right)
    BY <2>3, FS_Interval
  <2>5. covered = down \X right
    BY DEF Covered
  <2> HIDE DEF down, right, covered
  <2>6. IsFiniteSet(covered)
    BY <2>4, <2>5, FS_Product
  <2>7. QED
    BY <2>2, <2>5, <2>6
<1> HIDE DEF covered
<1>3. /\ g.placed \in Seq(Placements) /\ g.occupied \in SUBSET (Nat \X Nat)
      /\ IsFiniteSet(g.occupied)
      /\ \A i \in DOMAIN g.placed : Area(g.placed[i]) \subseteq g.occupied
      /\ \A i, j \in DOMAIN g.placed : i < j => At(g.placed[j]) \notin Area(g.placed[i])
  BY DEF Grids
<1>4. item \in Placements /\ At(item) = <<row, column>> /\ Area(item) = covered
  BY <1>1 DEF Area, covered
<1> HIDE DEF item, Placements
<1>5. PICK n : n = Len(g.placed) /\ n \in Nat /\ DOMAIN g.placed = 1 .. n
  BY <1>3
<1>6. /\ placed \in Seq(Placements) /\ DOMAIN placed = 1 .. n + 1
      /\ \A i \in 1 .. n : placed[i] = g.placed[i]
      /\ placed[n + 1] = item
  BY <1>3, <1>4, <1>5
<1> HIDE DEF placed
<1>7. \A i \in 1 .. n + 1 : i = n + 1 \/ i \in 1 .. n
  BY <1>5
<1>8. \A i \in DOMAIN placed : Area(placed[i]) \subseteq g.occupied \cup covered
  BY <1>3, <1>4, <1>5, <1>6, <1>7
<1>9. ASSUME NEW i \in DOMAIN placed, NEW j \in DOMAIN placed, i < j
      PROVE  At(placed[j]) \notin Area(placed[i])
  <2>1. i \in 1 .. n /\ placed[i] = g.placed[i]
    BY <1>5, <1>6, <1>9
  <2>2. CASE j = n + 1
    BY <1>1, <1>3, <1>4, <1>5, <1>6, <2>1, <2>2
  <2>3. CASE j \in 1 .. n
    BY <1>3, <1>5, <1>6, <1>9, <2>1, <2>3
  <2>4. QED
    BY <1>6, <1>7, <2>2, <2>3
<1>10. IsFiniteSet(g.occupied \cup covered)
  BY <1>2, <1>3, FS_Union
<1>11. Place(g, row, cell) = [placed |-> placed, occupied |-> g.occupied \cup covered]
  BY DEF Place, placed, item, covered, column
<1> DEFINE grid == [placed |-> placed, occupied |-> g.occupied \cup covered]
<1>12. /\ grid.placed = placed /\ grid.occupied = g.occupied \cup covered
       /\ grid \in [placed : Seq(Placements), occupied : SUBSET (Nat \X Nat)]
  BY <1>2, <1>3, <1>6
<1> HIDE DEF grid
<1>13. grid \in Grids
  BY <1>8, <1>9, <1>10, <1>12, Zenon DEF Grids, Placements, At
<1>14. QED
  BY <1>11, <1>13 DEF grid

\* Cell after cell, the table is filled to such a grid.
LEMMA FilledGrids ==
    ASSUME NEW items \in Seq(TableItems)
    PROVE  Filled(items)[Len(items)] \in Grids
<1>1. PICK N : N = Len(items) /\ N \in Nat
  OBVIOUS
<1> DEFINE base == [placed |-> <<>>, occupied |-> {}]
           Step(v, n) == Place(v, items[n].row, items[n].cell)
           Is(f) == f = [n \in 0 .. N |-> IF n = 0 THEN base ELSE Step(f[n - 1], n)]
           step == [p \in Grids \X (1 .. N) |-> Step(p[1], p[2])]
<1>2. base \in Grids
  <2>1. /\ base.placed = <<>> /\ base.occupied = {} /\ IsFiniteSet(base.occupied)
        /\ DOMAIN base.placed = {}
        /\ base \in [placed : Seq([row : Nat, column : Nat, cell : TableCells]),
                     occupied : SUBSET (Nat \X Nat)]
    BY FS_EmptySet
  <2> HIDE DEF base
  <2>2. QED
    BY <2>1 DEF Grids
<1>3. \A v \in Grids, n \in 1 .. N : Step(v, n) \in Grids
  <2> TAKE v \in Grids, n \in 1 .. N
  <2>1. items[n] \in TableItems
    BY <1>1
  <2>2. QED
    BY <2>1, PlaceKeeps DEF TableItems
<1>4. \A f : Is(f) => Is(Filled(items))
  BY <1>1, Zenon DEF Filled
<1> HIDE DEF Step, base
<1>5. /\ step \in [Grids \X (1 .. N) -> Grids]
      /\ \A v \in Grids, n \in 1 .. N : step[<<v, n>>] = Step(v, n)
  BY <1>3
<1>6. \A n \in 1 .. N : n - 1 \in 0 .. N
  BY <1>1
<1> HIDE DEF step
<1>7. PICK g : Iterates(g, Grids, base, N, step)
  BY <1>1, <1>2, <1>5, Recursion, Zenon
<1>8. Is(g)
  <2>1. \A n \in 1 .. N : g[n] = Step(g[n - 1], n)
    BY <1>5, <1>6, <1>7 DEF Iterates
  <2>2. \A n \in 0 .. N : n = 0 \/ n \in 1 .. N
    BY <1>1
  <2>3. \A n \in 0 .. N : g[n] = IF n = 0 THEN base ELSE Step(g[n - 1], n)
    BY <1>7, <2>1, <2>2 DEF Iterates
  <2>4. QED
    BY <1>7, <2>3 DEF Iterates
<1> DEFINE f == Filled(items)
<1>9. Is(f)
  BY <1>4, <1>8
<1> HIDE DEF f
<1> DEFINE T == {n \in 0 .. N : f[n] \in Grids}
<1>10. 0 \in T
  BY <1>1, <1>2, <1>9
<1>11. ASSUME NEW n \in 1 .. N, n - 1 \in T PROVE n \in T
  <2>1. n \in 0 .. N /\ n # 0
    BY <1>1
  <2>2. f[n] = Step(f[n - 1], n)
    BY <1>9, <2>1
  <2>3. QED
    BY <1>3, <1>11, <2>1, <2>2
<1> HIDE DEF T
<1>12. 0 .. N \subseteq T
  BY <1>1, <1>10, <1>11, Counting
<1>13. QED
  BY <1>1, <1>12 DEF T, f

LEMMA SeqShape ==
    ASSUME NEW S, NEW s \in Seq(S)
    PROVE  Len(s) \in Nat /\ DOMAIN s = 1 .. Len(s) /\ \A i \in DOMAIN s : s[i] \in S
OBVIOUS

LEMMA ShapeSeq ==
    ASSUME NEW S, NEW n \in Nat, NEW s \in [1 .. n -> S]
    PROVE  s \in Seq(S)
OBVIOUS

LEMMA ItemsType ==
    ASSUME NEW table \in Seq(Seq(TableCells))
    PROVE  Items(table) \in Seq(TableItems)
<1> DEFINE Row(r) == [c \in DOMAIN table[r] |-> [row |-> r - 1, cell |-> table[r][c]]]
           rows == [r \in DOMAIN table |-> Row(r)]
<1>1. ASSUME NEW r \in DOMAIN table PROVE Row(r) \in Seq(TableItems)
  <2>1. r - 1 \in Nat /\ table[r] \in Seq(TableCells)
    OBVIOUS
  <2>8. PICK n \in Nat : DOMAIN table[r] = 1 .. n
    BY <2>1, SeqShape, Zenon
  <2>2. \A c \in DOMAIN table[r] : [row |-> r - 1, cell |-> table[r][c]] \in TableItems
    BY <2>1 DEF TableItems
  <2>3. Row(r) \in [1 .. n -> TableItems]
    BY <2>8, <2>2
  <2>4. QED
    BY <2>3, ShapeSeq
<1> HIDE DEF Row
<1>8. PICK n \in Nat : DOMAIN table = 1 .. n
  OBVIOUS
<1>2. rows \in Seq(Seq(TableItems))
  BY <1>1, <1>8
<1>3. QED
  BY <1>2, FlattenType DEF Items, Row

\* Of every table whose cells have spans of at least one: no cell starts where
\* another one does, or where an earlier one reaches; the evidence ids of cells are
\* digests of where they start (parse_markup).
THEOREM CellsHaveTheirPlaces ==
    ASSUME NEW table \in Seq(Seq(TableCells))
    PROVE  GridSound(table)
<1>1. Filled(Items(table))[Len(Items(table))] \in Grids
  BY ItemsType, FilledGrids
<1>2. QED
  BY <1>1 DEF Grids, Cells, GridSound, Area

-----------------------------------------------------------------------------
(* The financial facts                                                      *)

LEMMA ImageFinite ==
    ASSUME NEW S, IsFiniteSet(S), NEW f, DOMAIN f = S
    PROVE  IsFiniteSet({f[x] : x \in S})
<1> DEFINE g == [x \in S |-> f[x]]
           T == {f[x] : x \in S}
<1>1. g \in Surjection(S, T)
  BY DEF Surjection
<1>2. QED
  BY <1>1, FS_Surjection

LEMMA TripleFinite ==
    ASSUME NEW A, NEW B, NEW C, IsFiniteSet(A), IsFiniteSet(B), IsFiniteSet(C)
    PROVE  IsFiniteSet(A \X B \X C)
<1> DEFINE S == (A \X B) \X C
           f == [p \in S |-> <<p[1][1], p[1][2], p[2]>>]
           T == {f[p] : p \in S}
<1>1. IsFiniteSet(A \X B)
  BY FS_Product
<1>2. IsFiniteSet(S)
  BY <1>1, FS_Product
<1>3. A \X B \X C \subseteq T
  <2> SUFFICES ASSUME NEW a \in A, NEW b \in B, NEW c \in C PROVE <<a, b, c>> \in T
    OBVIOUS
  <2>1. <<<<a, b>>, c>> \in S /\ f[<<<<a, b>>, c>>] = <<a, b, c>>
    OBVIOUS
  <2>2. QED
    BY <2>1
<1> HIDE DEF S
<1>4. DOMAIN f = S
  OBVIOUS
<1> HIDE DEF f
<1>5. IsFiniteSet(T)
  BY <1>2, <1>4, ImageFinite
<1>6. A \X B \X C \in SUBSET T
  BY <1>3
<1> HIDE DEF T
<1>7. QED
  BY <1>5, <1>6, FS_Subset

\* A table's facts carry its filing and a year the annual report covers.
LEMMA Extracted ==
    ASSUME NEW t, NEW year, NEW f \in Extract(t, year)
    PROVE  f.table = t.id /\ f.filing = t.filing /\ f.year \in Periods(year)
<1> DEFINE years == HeaderYears(t, year)
           Named(y) == /\ SelectSeq(t.rows[y[1]].labels, LAMBDA l : l \in Accounts) = <<y[3]>>
                       /\ years[y[2]] \in Periods(year)
                       /\ Value(t, y[1], y[3], y[2]) # Blank
           places == {y \in (DOMAIN t.rows) \X (DOMAIN years) \X Accounts : Named(y)}
<1>1. f \in {FactIn(t, years, x[1], x[2], x[3]) : x \in places}
  BY Zenon DEF Extract
<1>2. PICK x \in places : f = FactIn(t, years, x[1], x[2], x[3])
  BY <1>1, Zenon
<1>3. years[x[2]] \in Periods(year)
  BY <1>2, Zenon
<1> HIDE DEF years, places
<1>4. f.table = t.id /\ f.filing = t.filing /\ f.year = years[x[2]]
  BY <1>2 DEF FactIn
<1>5. QED
  BY <1>3, <1>4

LEMMA ExtractFinite ==
    ASSUME NEW t, NEW year, IsFiniteSet(DOMAIN t.rows), IsFiniteSet(DOMAIN t.headers)
    PROVE  IsFiniteSet(Extract(t, year))
<1> DEFINE years == HeaderYears(t, year)
           Named(y) == /\ SelectSeq(t.rows[y[1]].labels, LAMBDA l : l \in Accounts) = <<y[3]>>
                       /\ years[y[2]] \in Periods(year)
                       /\ Value(t, y[1], y[3], y[2]) # Blank
           all == (DOMAIN t.rows) \X (DOMAIN years) \X Accounts
           places == {y \in all : Named(y)}
<1>1. DOMAIN years \in SUBSET (DOMAIN t.headers)
  BY DEF HeaderYears
<1>2. IsFiniteSet(DOMAIN years)
  BY <1>1, FS_Subset
<1>3. IsFiniteSet(Accounts)
  <2>1. IsFiniteSet({"revenue"})
    BY FS_Singleton
  <2>2. IsFiniteSet({"revenue"} \cup {"net_income"})
    BY <2>1, FS_AddElement
  <2>3. Accounts = {"revenue"} \cup {"net_income"}
    BY DEF Accounts
  <2>4. QED
    BY <2>2, <2>3
<1> HIDE DEF years
<1>4. IsFiniteSet(all)
  BY <1>2, <1>3, TripleFinite
<1> HIDE DEF all, Named
<1>5. IsFiniteSet(places)
  <2>1. places \in SUBSET all
    OBVIOUS
  <2>2. QED
    BY <1>4, <2>1, FS_Subset
<1> HIDE DEF places
<1>6. IsFiniteSet({FactIn(t, years, x[1], x[2], x[3]) : x \in places})
  <2> DEFINE fact == [x \in places |-> FactIn(t, years, x[1], x[2], x[3])]
  <2>1. IsFiniteSet({fact[x] : x \in places})
    BY <1>5, ImageFinite
  <2>2. QED
    BY <2>1
<1>7. Extract(t, year) = {} \/ Extract(t, year) = {FactIn(t, years, x[1], x[2], x[3]) : x \in places}
  BY Zenon DEF Extract, places, all, Named, years
<1>8. QED
  BY <1>6, <1>7, FS_EmptySet

\* Of one filing of the newest reports, all facts that a grain has agree with the one
\* that is admitted.
LEMMA AdmittedAgrees ==
    ASSUME NEW facts, IsFiniteSet(facts), NEW decisions, NEW f \in Admitted(facts, decisions)
    PROVE  f \in facts /\ \A g \in SameGrain(f, facts) : g.value = f.value
<1> DEFINE group == SameGrain(f, facts)
           values == {g.value : g \in group}
<1>1. f \in facts /\ f \in group
  BY DEF Admitted, SameGrain
<1>2. group = {f} \/ Cardinality(values) = 1
  BY DEF Admitted
<1>3. group \in SUBSET facts
  BY DEF SameGrain
<1>4. IsFiniteSet(group)
  BY <1>3, FS_Subset
<1> HIDE DEF group
<1>5. IsFiniteSet(values)
  <2> DEFINE value == [g \in group |-> g.value]
  <2>1. IsFiniteSet({value[g] : g \in group})
    BY <1>4, ImageFinite
  <2>2. QED
    BY <2>1
<1>6. ASSUME Cardinality(values) = 1 PROVE \A g \in group : g.value = f.value
  <2>1. PICK v : values = {v}
    BY <1>5, <1>6, CardinalityOne
  <2>2. \A g \in group : g.value = v
    BY <2>1
  <2>3. QED
    BY <1>1, <2>2
<1>7. QED
  BY <1>1, <1>2, <1>6 DEF group

FactsOf(db, r) == UNION {Extract(t, r.year) : t \in {x \in db.tables : x.filing = r.filing}}
BestOf(db, r) == Preferred({t \in db.tables : t.filing = r.filing}, FactsOf(db, r))

LEMMA BestFinite ==
    ASSUME NEW db, DatabaseValid(db), NEW r
    PROVE  IsFiniteSet(BestOf(db, r)) /\ BestOf(db, r) \subseteq FactsOf(db, r)
<1> DEFINE tables == {t \in db.tables : t.filing = r.filing}
           all == {Extract(t, r.year) : t \in tables}
           facts == UNION all
<1>1. tables \in SUBSET db.tables
  OBVIOUS
<1>2. IsFiniteSet(tables)
  BY <1>1, FS_Subset DEF DatabaseValid
<1>3. \A T \in all : IsFiniteSet(T)
  BY ExtractFinite DEF DatabaseValid
<1> HIDE DEF tables
<1>4. IsFiniteSet(all)
  <2> DEFINE extract == [t \in tables |-> Extract(t, r.year)]
  <2>1. IsFiniteSet({extract[t] : t \in tables})
    BY <1>2, ImageFinite
  <2>2. QED
    BY <2>1
<1> HIDE DEF all
<1>5. IsFiniteSet(facts)
  BY <1>3, <1>4, FS_UNION
<1> HIDE DEF facts
<1>6. Preferred(tables, facts) \in SUBSET facts
  BY DEF Preferred
<1>7. IsFiniteSet(Preferred(tables, facts))
  BY <1>5, <1>6, FS_Subset
<1>8. QED
  BY <1>6, <1>7 DEF tables, all, facts, BestOf, FactsOf

\* A fact of the seed passed the comparison with today's database.
LEMMA SeedCompared ==
    ASSUME NEW db, DatabaseValid(db), NEW candidates, NEW s \in Seed(db, candidates)
    PROVE  /\ s.fact \in candidates
           /\ \E t \in db.tables, r \in Selected(db) :
                /\ r.filing = t.filing /\ s.company = r.company
                /\ s.fact \in Extract(t, r.year)
<1>1. PICK c \in candidates :
        /\ SameCore(db, c)
        /\ s = [company |-> (CHOOSE r \in Selected(db) : r.filing = c.filing).company, fact |-> c]
  BY DEF Seed
<1>2. PICK t \in db.tables, r \in Selected(db) :
        t.id = c.table /\ r.filing = t.filing /\ c \in Extract(t, r.year)
  BY <1>1 DEF SameCore
<1>3. c.filing = r.filing
  BY <1>2, Extracted
<1> DEFINE chosen == CHOOSE x \in Selected(db) : x.filing = c.filing
<1>4. chosen \in Selected(db) /\ chosen.filing = c.filing
  BY <1>3
<1>5. chosen = r
  BY <1>3, <1>4 DEF DatabaseValid, Selected
<1> HIDE DEF chosen
<1>6. s.fact = c /\ s.company = chosen.company
  BY <1>1 DEF chosen
<1>7. QED
  BY <1>2, <1>5, <1>6

\* Of every two databases: a fact that is imported stands in the newest annual report
\* of its company in the database it was validated against, which is safe; and when
\* it was extracted from that database, no cell of the filing's best statement
\* disagrees with it (financial_validation.py).
THEOREM ImportedFactsStand ==
    ASSUME NEW db, DatabaseValid(db), NEW older, NEW decisions
    PROVE  ImportSound(db, older, decisions)
<1> DEFINE candidates == Candidates(older, decisions)
<1> SUFFICES ASSUME NEW s \in Seed(db, candidates)
             PROVE  \E r \in db.reports :
                        /\ r.company = s.company /\ r.filing = s.fact.filing
                        /\ r.status \in {"root", "resolved"}
                        /\ \A q \in db.reports : q.company = r.company => q.year <= r.year
                        /\ s.fact.year \in Periods(r.year)
                        /\ s.fact \in FactsOf(db, r)
                        /\ (older = db) =>
                            \A f \in SameGrain(s.fact, BestOf(db, r)) :
                                f.value = s.fact.value
  BY Zenon DEF ImportSound, BestOf, FactsOf
<1>1. s.fact \in candidates
  BY SeedCompared
<1>2. PICK t \in db.tables, r \in Selected(db) :
        r.filing = t.filing /\ s.company = r.company /\ s.fact \in Extract(t, r.year)
  BY SeedCompared
<1>3. r \in db.reports /\ r.status \in {"root", "resolved"}
  BY DEF Selected
<1>4. \A q \in db.reports : q.company = r.company => q.year <= r.year
  BY <1>3 DEF Selected, Newer, DatabaseValid
<1>5. s.fact.filing = r.filing /\ s.fact.year \in Periods(r.year)
  BY <1>2, Extracted
<1>6. s.fact \in FactsOf(db, r)
  BY <1>2 DEF FactsOf
<1>7. ASSUME older = db
      PROVE  \A f \in SameGrain(s.fact, BestOf(db, r)) : f.value = s.fact.value
  <2>1. PICK q \in Selected(db) :
            s.fact \in Admitted(BestOf(db, q), decisions)
    BY <1>1, <1>7, Zenon DEF Candidates, BestOf, FactsOf
  <2>2. /\ IsFiniteSet(BestOf(db, q))
        /\ BestOf(db, q) \subseteq FactsOf(db, q)
    BY BestFinite, Zenon
  <2>3. /\ s.fact \in BestOf(db, q)
        /\ \A g \in SameGrain(s.fact, BestOf(db, q)) : g.value = s.fact.value
    BY <2>1, <2>2, AdmittedAgrees, Zenon
  <2>4. s.fact.filing = q.filing
    <3>1. PICK u \in db.tables : u.filing = q.filing /\ s.fact \in Extract(u, q.year)
      BY <2>2, <2>3 DEF FactsOf
    <3>2. QED
      BY <3>1, Extracted
  <2>5. q = r
    BY <1>3, <1>5, <2>4 DEF Selected, DatabaseValid
  <2>6. QED
    BY <2>3, <2>5, Zenon
<1>8. QED
  BY <1>2, <1>3, <1>4, <1>5, <1>6, <1>7, Zenon

\* Of every seed over finitely many companies: a coverage table that the import
\* accepts names as missing exactly the companies of which the seed has nothing
\* (_load_financial_coverage counts, and the counts decide the set).
THEOREM AcceptedCoverageIsTrue ==
    ASSUME NEW db, IsFiniteSet(db.companies), NEW seed
    PROVE  CoverageSound(db, seed)
<1> DEFINE table == Coverage(db, seed)
<1> SUFFICES ASSUME Importable(db, seed, table), NEW a \in Accounts
             PROVE  table[a].missing =
                        {c \in db.companies : \A s \in seed : s.company = c => s.fact.account # a}
  BY Zenon DEF CoverageSound
<1> DEFINE Years(company) ==
               {s.fact.year : s \in {x \in seed : x.company = company /\ x.fact.account = a}}
           some == {c \in db.companies : Years(c) # {}}
           three == {r \in Selected(db) : Periods(r.year) \subseteq Years(r.company)}
           missing == db.companies \ {r.company : r \in three}
           absent == db.companies \ some
<1>1. table[a].missing = missing
  BY DEF Coverage
<1>2. Recount(db, seed)[a].latest = Cardinality(some)
  BY DEF Recount
<1>3. Cardinality(missing) = Cardinality(db.companies) - Cardinality(some)
  BY <1>1, <1>2, Zenon DEF Importable
<1>4. absent \subseteq missing
  BY DEF Periods
<1>5. absent = {c \in db.companies : \A s \in seed : s.company = c => s.fact.account # a}
  OBVIOUS
<1>6. some \in SUBSET db.companies /\ missing \in SUBSET db.companies
  OBVIOUS
<1> HIDE DEF table, missing, some
<1>7. IsFiniteSet(missing) /\ IsFiniteSet(some)
  BY <1>6, FS_Subset
<1>8. Cardinality(absent) = Cardinality(db.companies) - Cardinality(some)
  <2>1. db.companies \cap some = some
    BY <1>6
  <2>2. Cardinality(db.companies \ some) = Cardinality(db.companies) - Cardinality(db.companies \cap some)
    BY FS_Difference
  <2>3. QED
    BY <2>1, <2>2
<1> HIDE DEF absent
<1>9. absent = missing
  <2>1. absent \in SUBSET missing
    BY <1>4
  <2>2. QED
    BY <1>3, <1>7, <1>8, <2>1, FS_Subset
<1>10. QED
  BY <1>1, <1>5, <1>9

\* Of every finite set of candidates: an event fact is supported by parsed cells of
\* its own safe filing, and a filing says one value in one unit of a predicate
\* (_validate_event_candidate, build_agent_overlay).
THEOREM EventFactsSupported ==
    ASSUME NEW candidates, IsFiniteSet(candidates), NEW safe
    PROVE  EventsSound(candidates, safe)
<1> DEFINE good == {c \in candidates : EventAdmitted(c, safe)}
           Rivals(c) == {d \in good : d.filing = c.filing /\ d.predicate = c.predicate}
           Says(c) == <<EventValue(c), EventUnit(c)>>
           Fact(c) == [id |-> c.id, filing |-> c.filing, predicate |-> c.predicate,
                       says |-> Says(c), evidence |-> EventEvidence(c)]
           alone == {x \in good : Cardinality({Says(d) : d \in Rivals(x)}) = 1}
           facts == EventFacts(candidates, safe)
<1>1. facts = {Fact(c) : c \in alone}
  BY Zenon DEF EventFacts
<1>2. ASSUME NEW x \in alone
      PROVE  \A d \in Rivals(x) : Says(d) = Says(x)
  <2> DEFINE rivals == Rivals(x)
             said == {Says(d) : d \in rivals}
  <2> HIDE DEF Says
  <2>1. x \in rivals /\ rivals \in SUBSET candidates /\ Cardinality(said) = 1
    OBVIOUS
  <2> HIDE DEF rivals
  <2>2. IsFiniteSet(rivals)
    BY <2>1, FS_Subset
  <2>3. IsFiniteSet(said)
    <3> DEFINE value == [d \in rivals |-> Says(d)]
    <3>1. IsFiniteSet({value[d] : d \in rivals})
      BY <2>2, ImageFinite
    <3>2. QED
      BY <3>1
  <2>4. PICK v : said = {v}
    BY <2>1, <2>3, CardinalityOne
  <2>5. \A d \in rivals : Says(d) = v
    BY <2>4
  <2>6. QED
    BY <2>1, <2>5 DEF rivals
<1>3. ASSUME NEW c \in good
      PROVE  /\ EventEvidence(c) # {} /\ c.filing \in safe
             /\ \A e \in EventEvidence(c) :
                    e.table.filing = c.filing /\ e.table.ok /\ ~e.table.pdf
  <2> DEFINE data == {e \in c.linked : e.data}
             exact == {e \in data : e.value = c.value}
             values == {e \in data : ~e.label}
             OfCited(e) == \E d \in c.linked : e.table = d.table
  <2>1. EventAdmitted(c, safe)
    OBVIOUS
  <2>2. /\ c.linked # {} /\ c.filing \in safe
        /\ \A e \in c.linked : e.table.filing = c.filing /\ e.table.ok /\ ~e.table.pdf
    BY <2>1, Zenon DEF EventAdmitted
  <2>3. \A e \in CellFor(c) : OfCited(e)
    <3>1. \A e, d : <<e.table, e.row>> = <<d.table, d.row>> => e.table = d.table
      OBVIOUS
    <3>2. \A e \in CellFor(c) : \E d \in c.linked : <<e.table, e.row>> = <<d.table, d.row>>
      BY Zenon DEF CellFor
    <3>3. QED
      BY <3>1, <3>2
  <2>4. \/ EventCells(c) = CellFor(c)
        \/ EventCells(c) = exact
        \/ EventCells(c) = values
        \/ EventCells(c) = {}
    <3> DEFINE one == Cardinality(values) = 1
               ofText == c.kind = "text"
    <3>1. EventCells(c) = CASE Composite(c) -> CellFor(c)
                            [] ofText /\ exact # {} -> exact
                            [] ofText /\ exact = {} /\ one -> values
                            [] OTHER -> {}
      BY Zenon DEF EventCells
    <3>2. ~(Composite(c) /\ ofText)
      BY DEF Composite
    <3> HIDE DEF exact, values, one, ofText
    <3>3. QED
      BY <3>1, <3>2, Zenon
  <2>5. \A e \in EventCells(c) : OfCited(e)
    BY <2>3, <2>4
  <2>6. EventEvidence(c) # {} /\ \A e \in EventEvidence(c) : OfCited(e)
    BY <2>2, <2>5, Zenon DEF EventEvidence
  <2>7. QED
    BY <2>2, <2>6
<1>4. ASSUME NEW e \in facts
      PROVE  /\ e.filing \in safe /\ e.evidence # {}
             /\ \A c \in e.evidence : c.table.filing = e.filing /\ c.table.ok /\ ~c.table.pdf
             /\ \A f \in facts : f.filing = e.filing /\ f.predicate = e.predicate => f.says = e.says
  <2> HIDE DEF Says
  <2>1. PICK c \in alone : e = Fact(c)
    BY <1>1
  <2>2. c \in good
    OBVIOUS
  <2>3. /\ e.filing = c.filing /\ e.predicate = c.predicate /\ e.says = Says(c)
        /\ e.evidence = EventEvidence(c)
    BY <2>1
  <2>4. ASSUME NEW f \in facts, f.filing = e.filing, f.predicate = e.predicate
        PROVE  f.says = e.says
    <3>1. PICK d \in alone : f = Fact(d)
      BY <1>1
    <3>2. d \in Rivals(c)
      BY <2>3, <2>4, <3>1
    <3>3. QED
      BY <1>2, <2>3, <3>1, <3>2
  <2> HIDE DEF facts, alone, good
  <2>5. QED
    BY <1>3, <2>2, <2>3, <2>4
<1>5. QED
  BY <1>4, Zenon DEF EventsSound

-----------------------------------------------------------------------------
(* Cutting text into chunks                                                 *)

\* A body has room for a token, its target lies within it and its overlap below.
Roomy(config, prefix) ==
    /\ MaxBody(config, prefix) \in Nat /\ TargetBody(config, prefix) \in Nat
    /\ Overlap(config, prefix) \in Nat
    /\ prefix \in Nat /\ config.max \in Nat /\ prefix + MaxBody(config, prefix) = config.max
    /\ 1 <= TargetBody(config, prefix) /\ TargetBody(config, prefix) <= MaxBody(config, prefix)
    /\ config.overlap \in Nat
    /\ Overlap(config, prefix) < TargetBody(config, prefix)
    /\ Overlap(config, prefix) <= config.overlap

LEMMA MinOfTwo ==
    ASSUME NEW a \in Int, NEW b \in Int
    PROVE  Min({a, b}) \in {a, b} /\ Min({a, b}) <= a /\ Min({a, b}) <= b
<1>1. \E x \in {a, b} : \A y \in {a, b} : x <= y
  OBVIOUS
<1>2. QED
  BY <1>1 DEF Min

LEMMA ConfigRoomy ==
    ASSUME NEW config, CutConfig(config), NEW prefix \in Nat, MaxBody(config, prefix) # 0
    PROVE  Roomy(config, prefix)
<1>1. /\ config.target \in Nat /\ config.max \in Nat /\ config.overlap \in Nat
      /\ config.target >= 1 /\ config.target <= config.max /\ config.overlap <= config.target - 1
  BY DEF CutConfig, ConfigValid
<1>2. MaxBody(config, prefix) \in Nat \ {0} /\ prefix + MaxBody(config, prefix) = config.max
  BY <1>1 DEF MaxBody
<1>3. TargetBody(config, prefix) \in 1 .. MaxBody(config, prefix)
  BY <1>1, <1>2 DEF TargetBody
<1> HIDE DEF CutConfig
<1>4. TargetBody(config, prefix) - 1 \in Nat
  BY <1>2, <1>3
<1>5. /\ Overlap(config, prefix) \in {config.overlap, TargetBody(config, prefix) - 1}
      /\ Overlap(config, prefix) <= config.overlap
      /\ Overlap(config, prefix) <= TargetBody(config, prefix) - 1
  <2> DEFINE below == TargetBody(config, prefix) - 1
  <2>1. config.overlap \in Int /\ below \in Int
    BY <1>1, <1>4
  <2> HIDE DEF below
  <2>2. /\ Min({config.overlap, below}) \in {config.overlap, below}
        /\ Min({config.overlap, below}) <= config.overlap /\ Min({config.overlap, below}) <= below
    BY <2>1, MinOfTwo, Zenon
  <2>3. QED
    BY <2>2 DEF Overlap, below
<1>6. QED
  BY <1>1, <1>2, <1>3, <1>4, <1>5 DEF Roomy

\* The states of the loop in which nothing failed: the body stays within its target,
\* and within the overlap when it has nothing new.
CutStates(Tokens, config, prefix) ==
    {s \in [out : Seq(Seq(Tokens)), current : Seq(Tokens), new : BOOLEAN,
            remaining : Seq(Tokens), failed : {FALSE}] :
        /\ Len(s.current) <= TargetBody(config, prefix)
        /\ ~s.new => Len(s.current) <= Overlap(config, prefix)}

\* The place of a token in the text of all units, and sequences of tokens that
\* continue one another after a place.
At(sum, token) == token[2] + sum[token[1] - 1]
Continues(sum, tokens, place) == \A k \in 1 .. Len(tokens) : At(sum, tokens[k]) = place + k

LastOf(sum, body) == At(sum, body[Len(body)])

\* The bodies that have been emitted, the last of them up to a place.
OutSound(config, prefix, sum, out, end) ==
    /\ \A n \in 1 .. Len(out) :
        /\ Len(out[n]) >= 1 /\ prefix + Len(out[n]) <= config.max
        /\ At(sum, out[n][1]) \in Int /\ LastOf(sum, out[n]) \in Int
        /\ LastOf(sum, out[n]) - At(sum, out[n][1]) + 1 = Len(out[n])
        /\ n > 1 => /\ At(sum, out[n][1]) <= LastOf(sum, out[n - 1]) + 1
                    /\ LastOf(sum, out[n]) > LastOf(sum, out[n - 1])
                    /\ LastOf(sum, out[n - 1]) - At(sum, out[n][1]) < config.overlap
    /\ end = IF Len(out) = 0 THEN 0 ELSE LastOf(sum, out[Len(out)])
    /\ Len(out) > 0 => At(sum, out[1][1]) = 1

\* The body that is filled begins where the last one allows.
Seam(config, out, end, start) ==
    start \in Nat /\ start <= end /\ end - start <= config.overlap /\ (Len(out) = 0 => start = 0)

\* So many tokens have been consumed.
CutAt(config, prefix, sum, s, place) ==
    \E end \in Nat :
        /\ OutSound(config, prefix, sum, s.out, end)
        /\ Seam(config, s.out, end, place - Len(s.current))
        /\ IF s.new THEN end < place ELSE end = place
        /\ Continues(sum, s.current, place - Len(s.current))

LEMMA Carries ==
    ASSUME NEW Tokens, NEW V \in Nat, NEW body \in Seq(Tokens)
    PROVE  /\ Carried(body, V) \in Seq(Tokens)
           /\ Len(Carried(body, V)) <= V /\ Len(Carried(body, V)) <= Len(body)
           /\ \A k \in 1 .. Len(Carried(body, V)) :
                Carried(body, V)[k] = body[Len(body) - Len(Carried(body, V)) + k]
<1>1. PICK n \in Nat : n = Len(body)
  OBVIOUS
<1>2. CASE V = 0
  BY <1>1, <1>2 DEF Carried
<1>3. CASE V # 0 /\ n <= V
  BY <1>1, <1>3 DEF Carried
<1>4. CASE V # 0 /\ n > V
  <2>1. Carried(body, V) = SubSeq(body, n - V + 1, n)
    BY <1>1, <1>4 DEF Carried
  <2>2. n - V + 1 \in Int /\ n \in Int /\ n - V + 1 >= 1 /\ n - V + 1 <= n
    BY <1>4
  <2>3. \A i \in n - V + 1 .. n : body[i] \in Tokens
    BY <1>1, <2>2
  <2>4. /\ SubSeq(body, n - V + 1, n) \in Seq(Tokens)
        /\ Len(SubSeq(body, n - V + 1, n)) = n - (n - V + 1) + 1
        /\ \A k \in 1 .. n - (n - V + 1) + 1 :
            SubSeq(body, n - V + 1, n)[k] = body[n - V + 1 + k - 1]
    BY <2>2, <2>3, SubSeqProperties
  <2>5. /\ SubSeq(body, n - V + 1, n) \in Seq(Tokens)
        /\ Len(SubSeq(body, n - V + 1, n)) = V
        /\ \A k \in 1 .. V : SubSeq(body, n - V + 1, n)[k] = body[n - V + k]
    <3> DEFINE tail == SubSeq(body, n - V + 1, n)
    <3> HIDE DEF tail
    <3>1. n - (n - V + 1) + 1 = V
      OBVIOUS
    <3>2. \A k \in 1 .. V : n - V + 1 + k - 1 = n - V + k
      OBVIOUS
    <3>3. /\ tail \in Seq(Tokens) /\ Len(tail) = V
          /\ \A k \in 1 .. V : tail[k] = body[n - V + 1 + k - 1]
      BY <2>4, <3>1 DEF tail
    <3>4. \A k \in 1 .. V : tail[k] = body[n - V + k]
      BY <3>2, <3>3
    <3>5. QED
      BY <3>3, <3>4 DEF tail
  <2>6. QED
    BY <1>1, <1>4, <2>1, <2>5
<1>5. V = 0 \/ (V # 0 /\ n <= V) \/ (V # 0 /\ n > V)
  BY <1>1
<1>6. QED
  BY <1>2, <1>3, <1>4, <1>5, Zenon

LEMMA Emits ==
    ASSUME NEW Tokens, NEW config, NEW prefix, Roomy(config, prefix), NEW sum,
           NEW out \in Seq(Seq(Tokens)), NEW end \in Nat, NEW start \in Nat,
           NEW body \in Seq(Tokens), Len(body) <= MaxBody(config, prefix),
           OutSound(config, prefix, sum, out, end), Seam(config, out, end, start),
           Continues(sum, body, start), end < start + Len(body)
    PROVE  OutSound(config, prefix, sum, Append(out, body), start + Len(body))
<1> DEFINE more == Append(out, body)
<1>1. PICK n \in Nat, m \in Nat : n = Len(out) /\ m = Len(body)
  OBVIOUS
<1>2. m >= 1 /\ start <= end /\ end - start <= config.overlap /\ (n = 0 => start = 0)
  BY <1>1 DEF Seam
<1>3. At(sum, body[1]) = start + 1 /\ LastOf(sum, body) = start + m
  BY <1>1, <1>2 DEF Continues, LastOf
<1>4. prefix + m <= config.max
  <2> DEFINE max == MaxBody(config, prefix)
  <2>1. max \in Nat /\ prefix \in Nat /\ prefix + max = config.max
    BY DEF Roomy
  <2>2. m <= max
    BY <1>1
  <2> HIDE DEF max
  <2>3. prefix + m <= prefix + max
    BY <2>1, <2>2
  <2>4. QED
    BY <2>1, <2>3
<1>5. /\ Len(more) = n + 1 /\ more[n + 1] = body
      /\ \A i \in 1 .. n : more[i] = out[i]
  BY <1>1
<1> DEFINE Good(o, i) ==
        /\ Len(o[i]) >= 1 /\ prefix + Len(o[i]) <= config.max
        /\ At(sum, o[i][1]) \in Int /\ LastOf(sum, o[i]) \in Int
        /\ LastOf(sum, o[i]) - At(sum, o[i][1]) + 1 = Len(o[i])
        /\ i > 1 => /\ At(sum, o[i][1]) <= LastOf(sum, o[i - 1]) + 1
                    /\ LastOf(sum, o[i]) > LastOf(sum, o[i - 1])
                    /\ LastOf(sum, o[i - 1]) - At(sum, o[i][1]) < config.overlap
<1>6. /\ \A i \in 1 .. n : Good(out, i)
      /\ end = IF n = 0 THEN 0 ELSE LastOf(sum, out[n])
      /\ n > 0 => At(sum, out[1][1]) = 1
  BY <1>1, Zenon DEF OutSound
<1> HIDE DEF more
<1>7. \A i \in 1 .. n : Good(more, i)
  <2> SUFFICES ASSUME NEW i \in 1 .. n PROVE Good(more, i)
    OBVIOUS
  <2>1. Good(out, i) /\ more[i] = out[i]
    BY <1>5, <1>6
  <2>2. i > 1 => more[i - 1] = out[i - 1]
    <3>1. i > 1 => i - 1 \in 1 .. n
      OBVIOUS
    <3>2. QED
      BY <1>5, <3>1
  <2>3. QED
    BY <2>1, <2>2
<1>8. Good(more, n + 1)
  <2>1. more[n + 1] = body /\ Len(body) = m
    BY <1>1, <1>5
  <2>2. n + 1 > 1 => n > 0 /\ more[n + 1 - 1] = out[n]
    <3>1. n + 1 - 1 = n /\ (n + 1 > 1 => n > 0 /\ n \in 1 .. n)
      OBVIOUS
    <3>2. QED
      BY <1>5, <3>1
  <2>3. n > 0 => LastOf(sum, out[n]) = end
    BY <1>6
  <2>4. config.overlap \in Nat
    BY DEF Roomy
  <2> HIDE DEF At, LastOf
  <2>5. n + 1 > 1 => /\ At(sum, body[1]) <= LastOf(sum, more[n + 1 - 1]) + 1
                     /\ LastOf(sum, body) > LastOf(sum, more[n + 1 - 1])
                     /\ LastOf(sum, more[n + 1 - 1]) - At(sum, body[1]) < config.overlap
    <3> DEFINE last == LastOf(sum, more[n + 1 - 1])
               first == At(sum, body[1])
               final == LastOf(sum, body)
    <3>1. n + 1 > 1 => last = end
      BY <2>2, <2>3
    <3>2. first = start + 1 /\ final = start + m /\ end < start + m
      BY <1>1, <1>3
    <3> HIDE DEF last, first, final
    <3>3. n + 1 > 1 => first <= last + 1 /\ final > last /\ last - first < config.overlap
      BY <1>2, <2>4, <3>1, <3>2
    <3>4. QED
      BY <3>3 DEF last, first, final
  <2>6. /\ m >= 1 /\ At(sum, body[1]) \in Int /\ LastOf(sum, body) \in Int
        /\ LastOf(sum, body) - At(sum, body[1]) + 1 = m
    <3> DEFINE first == At(sum, body[1])
               final == LastOf(sum, body)
    <3>1. first = start + 1 /\ final = start + m
      BY <1>3
    <3> HIDE DEF first, final
    <3>2. first \in Int /\ final \in Int /\ final - first + 1 = m
      BY <3>1
    <3>3. QED
      BY <1>2, <3>2 DEF first, final
  <2>7. QED
    BY <1>4, <2>1, <2>5, <2>6, SMTT(30)
<1>9. At(sum, more[1][1]) = 1
  <2>1. CASE n = 0
    BY <1>2, <1>3, <1>5, <2>1
  <2>2. CASE n > 0
    <3>1. 1 \in 1 .. n
      BY <2>2
    <3>2. more[1] = out[1]
      BY <1>5, <3>1
    <3>3. QED
      BY <1>6, <2>2, <3>2
  <2>3. QED
    BY <1>1, <2>1, <2>2
<1>10. start + Len(body) = IF Len(more) = 0 THEN 0 ELSE LastOf(sum, more[Len(more)])
  BY <1>1, <1>3, <1>5
<1>11. \A i \in 1 .. Len(more) : Good(more, i)
  <2>1. \A i \in 1 .. Len(more) : i \in 1 .. n \/ i = n + 1
    BY <1>1, <1>5
  <2> HIDE DEF Good
  <2>2. QED
    BY <1>7, <1>8, <2>1
<1>12. QED
  BY <1>9, <1>10, <1>11, Zenon DEF OutSound, more

LEMMA CarriesOn ==
    ASSUME NEW Tokens, NEW config, NEW prefix, Roomy(config, prefix), NEW sum,
           NEW out, Len(out) \in Nat \ {0}, NEW start \in Nat,
           NEW body \in Seq(Tokens), Continues(sum, body, start)
    PROVE  LET carried == Carried(body, Overlap(config, prefix))
               place == start + Len(body)
           IN  /\ Seam(config, out, place, place - Len(carried))
               /\ Continues(sum, carried, place - Len(carried))
<1> DEFINE carried == Carried(body, Overlap(config, prefix))
<1>1. PICK m \in Nat : m = Len(body)
  OBVIOUS
<1>2. Overlap(config, prefix) \in Nat /\ Overlap(config, prefix) <= config.overlap
      /\ config.overlap \in Nat
  BY DEF Roomy
<1>3. /\ carried \in Seq(Tokens) /\ Len(carried) <= Overlap(config, prefix) /\ Len(carried) <= m
      /\ \A k \in 1 .. Len(carried) : carried[k] = body[m - Len(carried) + k]
  BY <1>1, <1>2, Carries
<1> HIDE DEF carried
<1>4. PICK c \in Nat : c = Len(carried)
  BY <1>3
<1>5. Seam(config, out, start + m, start + m - c)
  BY <1>2, <1>3, <1>4 DEF Seam
<1>6. \A k \in 1 .. c : At(sum, carried[k]) = start + m - c + k
  <2> SUFFICES ASSUME NEW k \in 1 .. c PROVE At(sum, carried[k]) = start + m - c + k
    OBVIOUS
  <2>1. m - c + k \in 1 .. m
    BY <1>3, <1>4
  <2>2. At(sum, body[m - c + k]) = start + (m - c + k)
    BY <1>1, <2>1 DEF Continues
  <2>3. carried[k] = body[m - c + k]
    BY <1>3, <1>4
  <2>4. QED
    BY <2>2, <2>3
<1>7. QED
  BY <1>1, <1>4, <1>5, <1>6 DEF Continues, carried

Made(out, current, new, remaining, failed) ==
    [out |-> out, current |-> current, new |-> new, remaining |-> remaining, failed |-> failed]

IsMade(s, out, current, new, remaining, failed) == s = Made(out, current, new, remaining, failed)

LEMMA MadeFields ==
    ASSUME NEW s, NEW o, NEW c, NEW n, NEW r, NEW f, s = Made(o, c, n, r, f)
    PROVE  s.out = o /\ s.current = c /\ s.new = n /\ s.remaining = r /\ s.failed = f
BY DEF Made

LEMMA SetOut ==
    ASSUME NEW s, NEW o, NEW c, NEW n, NEW r, NEW f, s = Made(o, c, n, r, f), NEW x
    PROVE  [s EXCEPT !.out = x] = Made(x, c, n, r, f)
BY DEF Made

LEMMA SetCurrent ==
    ASSUME NEW s, NEW o, NEW c, NEW n, NEW r, NEW f, s = Made(o, c, n, r, f), NEW x
    PROVE  [s EXCEPT !.current = x] = Made(o, x, n, r, f)
BY DEF Made

LEMMA SetNew ==
    ASSUME NEW s, NEW o, NEW c, NEW n, NEW r, NEW f, s = Made(o, c, n, r, f), NEW x
    PROVE  [s EXCEPT !.new = x] = Made(o, c, x, r, f)
BY DEF Made

LEMMA SetRemaining ==
    ASSUME NEW s, NEW o, NEW c, NEW n, NEW r, NEW f, s = Made(o, c, n, r, f), NEW x
    PROVE  [s EXCEPT !.remaining = x] = Made(o, c, n, x, f)
BY DEF Made

LEMMA Filling ==
    ASSUME NEW s, NEW o, NEW c, NEW n, NEW r, NEW f, IsMade(s, o, c, n, r, f),
           NEW c2, NEW n2, NEW r2
    PROVE  IsMade([s EXCEPT !.current = c2, !.new = n2, !.remaining = r2], o, c2, n2, r2, f)
<1> DEFINE t == [s EXCEPT !.current = c2]
           v == [t EXCEPT !.new = n2]
<1>1. t = Made(o, c2, n, r, f)
  BY SetCurrent DEF IsMade
<1>2. v = Made(o, c2, n2, r, f)
  <2> HIDE DEF t
  <2>1. QED
    BY <1>1, SetNew
<1>3. [v EXCEPT !.remaining = r2] = Made(o, c2, n2, r2, f)
  <2> HIDE DEF v
  <2>1. QED
    BY <1>2, SetRemaining
<1>4. QED
  BY <1>3, Zenon DEF IsMade

LEMMA Emitting ==
    ASSUME NEW s, NEW o, NEW c, NEW n, NEW r, NEW f, IsMade(s, o, c, n, r, f),
           NEW o2, NEW c2, NEW n2
    PROVE  IsMade([s EXCEPT !.out = o2, !.current = c2, !.new = n2], o2, c2, n2, r, f)
<1> DEFINE t == [s EXCEPT !.out = o2]
           v == [t EXCEPT !.current = c2]
<1>1. t = Made(o2, c, n, r, f)
  BY SetOut DEF IsMade
<1>2. v = Made(o2, c2, n, r, f)
  <2> HIDE DEF t
  <2>1. QED
    BY <1>1, SetCurrent
<1>3. [v EXCEPT !.new = n2] = Made(o2, c2, n2, r, f)
  <2> HIDE DEF v
  <2>1. QED
    BY <1>2, SetNew
<1>4. QED
  BY <1>3, Zenon DEF IsMade

LEMMA MadeType ==
    ASSUME NEW Tokens, NEW out \in Seq(Seq(Tokens)), NEW current \in Seq(Tokens), NEW new \in BOOLEAN,
           NEW remaining \in Seq(Tokens)
    PROVE  Made(out, current, new, remaining, FALSE)
             \in [out : Seq(Seq(Tokens)), current : Seq(Tokens), new : BOOLEAN,
                 remaining : Seq(Tokens), failed : {FALSE}]
<1> DEFINE no == FALSE
<1>1. no \in {FALSE}
  OBVIOUS
<1> HIDE DEF no
<1>2. Made(out, current, new, remaining, no)
        \in [out : Seq(Seq(Tokens)), current : Seq(Tokens), new : BOOLEAN,
            remaining : Seq(Tokens), failed : {FALSE}]
  BY <1>1 DEF Made
<1>3. QED
  BY <1>2, Zenon DEF no

LEMMA Emitted ==
    ASSUME NEW Tokens, NEW config, NEW prefix, Roomy(config, prefix), NEW sum,
           NEW out \in Seq(Seq(Tokens)), NEW rest \in Seq(Tokens),
           NEW end \in Nat, NEW start \in Nat,
           NEW body \in Seq(Tokens), Len(body) <= MaxBody(config, prefix),
           OutSound(config, prefix, sum, out, end), Seam(config, out, end, start),
           Continues(sum, body, start), end < start + Len(body)
    PROVE  LET r == Made(Append(out, body), Carried(body, Overlap(config, prefix)), FALSE, rest, FALSE)
           IN  r \in CutStates(Tokens, config, prefix) /\ CutAt(config, prefix, sum, r, start + Len(body))
<1> DEFINE carried == Carried(body, Overlap(config, prefix))
           more == Append(out, body)
           r == Made(more, carried, FALSE, rest, FALSE)
           place == start + Len(body)
<1>1. /\ Overlap(config, prefix) \in Nat /\ TargetBody(config, prefix) \in Nat
      /\ Overlap(config, prefix) <= TargetBody(config, prefix)
  BY DEF Roomy
<1>2. carried \in Seq(Tokens) /\ Len(carried) <= Overlap(config, prefix) /\ Len(carried) \in Nat
  BY <1>1, Carries
<1>3. Len(more) \in Nat \ {0} /\ more \in Seq(Seq(Tokens)) /\ place \in Nat
  OBVIOUS
<1>4. OutSound(config, prefix, sum, more, place)
  BY Emits, Zenon
<1>5. Seam(config, more, place, place - Len(carried)) /\ Continues(sum, carried, place - Len(carried))
  BY <1>3, CarriesOn, Zenon
<1> HIDE DEF carried, more, place
<1>6. /\ r.out = more /\ r.current = carried /\ r.new = FALSE /\ r.remaining = rest /\ r.failed = FALSE
  <2> DEFINE no == FALSE
  <2>1. r = Made(more, carried, no, rest, no)
    OBVIOUS
  <2> HIDE DEF no, r
  <2>2. r.out = more /\ r.current = carried /\ r.new = no /\ r.remaining = rest /\ r.failed = no
    BY <2>1, MadeFields
  <2>3. QED
    BY <2>2, Zenon DEF no
<1>11. r \in [out : Seq(Seq(Tokens)), current : Seq(Tokens), new : BOOLEAN,
                remaining : Seq(Tokens), failed : {FALSE}]
  <2> DEFINE no == FALSE
  <2>1. no \in BOOLEAN /\ no \in {FALSE}
    OBVIOUS
  <2>2. r = Made(more, carried, no, rest, no)
    OBVIOUS
  <2> HIDE DEF no, r
  <2>3. QED
    BY <1>2, <1>3, <2>1, <2>2 DEF Made
<1>7. Len(carried) <= TargetBody(config, prefix)
  BY <1>1, <1>2
<1> HIDE DEF r
<1>8. r \in CutStates(Tokens, config, prefix)
  BY <1>2, <1>6, <1>7, <1>11 DEF CutStates
<1>9. CutAt(config, prefix, sum, r, place)
  BY <1>3, <1>4, <1>5, <1>6, Zenon DEF CutAt
<1>10. QED
  BY <1>8, <1>9 DEF r, more, carried, place

\* Sequences that continue one another are one that continues.
LEMMA Joined ==
    ASSUME NEW Tokens, NEW sum, NEW s \in Seq(Tokens), NEW t \in Seq(Tokens), NEW place \in Int,
           Continues(sum, s, place), Continues(sum, t, place + Len(s))
    PROVE  s \o t \in Seq(Tokens) /\ Len(s \o t) = Len(s) + Len(t) /\ Continues(sum, s \o t, place)
<1>1. PICK n \in Nat, m \in Nat : n = Len(s) /\ m = Len(t)
  OBVIOUS
<1> DEFINE whole == s \o t
<1>2. /\ whole \in Seq(Tokens) /\ Len(whole) = n + m
      /\ \A k \in 1 .. n : whole[k] = s[k]
      /\ \A k \in n + 1 .. n + m : whole[k] = t[k - n]
  BY <1>1
<1> HIDE DEF whole
<1>3. ASSUME NEW k \in 1 .. n + m PROVE At(sum, whole[k]) = place + k
  <2>1. CASE k \in 1 .. n
    BY <1>1, <1>2, <2>1 DEF Continues
  <2>2. CASE k \in n + 1 .. n + m
    <3>1. k - n \in 1 .. m
      BY <2>2
    <3>2. At(sum, t[k - n]) = place + n + (k - n)
      BY <1>1, <3>1 DEF Continues
    <3>3. QED
      BY <1>2, <2>2, <3>2
  <2>3. QED
    BY <2>1, <2>2
<1>4. QED
  BY <1>1, <1>2, <1>3 DEF Continues, whole

\* The front and the rest of what continues.
LEMMA Parted ==
    ASSUME NEW Tokens, NEW sum, NEW s \in Seq(Tokens), NEW n \in 0 .. Len(s), NEW place \in Int,
           Continues(sum, s, place)
    PROVE  LET front == SubSeq(s, 1, n)
               rest == SubSeq(s, n + 1, Len(s))
           IN  /\ front \in Seq(Tokens) /\ Len(front) = n /\ Continues(sum, front, place)
               /\ rest \in Seq(Tokens) /\ Len(rest) = Len(s) - n /\ Continues(sum, rest, place + n)
<1>1. PICK m \in Nat : m = Len(s)
  OBVIOUS
<1> DEFINE front == SubSeq(s, 1, n)
           rest == SubSeq(s, n + 1, m)
<1>2. n \in Int /\ n + 1 \in Int /\ m \in Int /\ 1 \in Int /\ 0 <= n /\ n <= m
  BY <1>1
<1>9. \A i \in 1 .. m : s[i] \in Tokens
  BY <1>1
<1>3. /\ front \in Seq(Tokens)
      /\ Len(front) = IF 1 <= n THEN n - 1 + 1 ELSE 0
      /\ \A i \in 1 .. n - 1 + 1 : front[i] = s[1 + i - 1]
  <2>1. \A i \in 1 .. n : s[i] \in Tokens
    BY <1>2, <1>9
  <2>2. QED
    BY <1>2, <2>1, SubSeqProperties
<1>4. /\ rest \in Seq(Tokens)
      /\ Len(rest) = IF n + 1 <= m THEN m - (n + 1) + 1 ELSE 0
      /\ \A i \in 1 .. m - (n + 1) + 1 : rest[i] = s[n + 1 + i - 1]
  <2>1. \A i \in n + 1 .. m : s[i] \in Tokens
    BY <1>2, <1>9
  <2>2. QED
    BY <1>2, <2>1, SubSeqProperties
<1> HIDE DEF front, rest
<1>5. Len(front) = n /\ Len(rest) = m - n
  BY <1>2, <1>3, <1>4
<1>6. Continues(sum, front, place)
  <2> SUFFICES ASSUME NEW i \in 1 .. n PROVE At(sum, front[i]) = place + i
    BY <1>5 DEF Continues
  <2>1. i \in 1 .. m /\ i \in 1 .. n - 1 + 1 /\ 1 + i - 1 = i
    BY <1>2
  <2>2. front[i] = s[i]
    BY <1>3, <2>1
  <2>3. QED
    BY <1>1, <2>1, <2>2 DEF Continues
<1>7. Continues(sum, rest, place + n)
  <2> SUFFICES ASSUME NEW i \in 1 .. m - n PROVE At(sum, rest[i]) = place + n + i
    BY <1>5 DEF Continues
  <2>1. n + i \in 1 .. m /\ i \in 1 .. m - (n + 1) + 1 /\ n + 1 + i - 1 = n + i
    BY <1>2
  <2>2. rest[i] = s[n + i]
    BY <1>4, <2>1
  <2>3. At(sum, s[n + i]) = place + (n + i)
    BY <1>1, <2>1 DEF Continues
  <2>4. QED
    BY <1>2, <2>2, <2>3
<1>8. QED
  BY <1>1, <1>3, <1>4, <1>5, <1>6, <1>7 DEF front, rest

\* What remains continues the text, and ends at a place.
Going(config, prefix, sum, s, total) ==
    LET place == total - Len(s.remaining)
    IN  /\ place \in Nat /\ CutAt(config, prefix, sum, s, place)
        /\ Continues(sum, s.remaining, place)

More(new) == IF new THEN 1 ELSE 0
Measure(s) == 2 * Len(s.remaining) + More(s.new)

LEMMA EmitForms ==
    ASSUME NEW s, NEW o, NEW c, NEW n, NEW r, NEW f, IsMade(s, o, c, n, r, f),
           NEW body, NEW left, NEW carried, NEW n2
    PROVE  /\ s.out = o /\ s.current = c /\ s.new = n /\ s.remaining = r
           /\ IsMade([s EXCEPT !.current = body, !.new = n2, !.remaining = left],
                     o, body, n2, left, f)
           /\ IsMade([s EXCEPT !.out = Append(@, body), !.current = carried, !.new = n2],
                     Append(o, body), carried, n2, r, f)
           /\ IsMade([[s EXCEPT !.remaining = left] EXCEPT
                        !.out = Append(@, body), !.current = carried, !.new = n2],
                     Append(o, body), carried, n2, left, f)
<1>1. s = Made(o, c, n, r, f)
  BY DEF IsMade
<1>2. s.out = o /\ s.current = c /\ s.new = n /\ s.remaining = r
  BY <1>1, MadeFields
<1>3. IsMade([s EXCEPT !.current = body, !.new = n2, !.remaining = left], o, body, n2, left, f)
  BY Filling, Zenon
<1>4. IsMade([s EXCEPT !.out = Append(@, body), !.current = carried, !.new = n2],
             Append(o, body), carried, n2, r, f)
  <2>1. IsMade([s EXCEPT !.out = Append(s.out, body), !.current = carried, !.new = n2],
               Append(s.out, body), carried, n2, r, f)
    BY Emitting, Zenon
  <2>2. QED
    BY <1>2, <2>1, Zenon
<1>5. IsMade([[s EXCEPT !.remaining = left] EXCEPT !.out = Append(@, body), !.current = carried, !.new = n2],
             Append(o, body), carried, n2, left, f)
  <2> DEFINE before == [s EXCEPT !.remaining = left]
  <2>1. before = Made(o, c, n, left, f)
    BY <1>1, SetRemaining
  <2> HIDE DEF before
  <2>2. before.out = o /\ IsMade(before, o, c, n, left, f)
    BY <2>1, MadeFields DEF IsMade
  <2>3. IsMade([before EXCEPT !.out = Append(before.out, body), !.current = carried, !.new = n2],
               Append(before.out, body), carried, n2, left, f)
    BY <2>2, Emitting, Zenon
  <2>4. QED
    BY <2>2, <2>3, Zenon DEF before
<1>6. QED
  BY <1>2, <1>3, <1>4, <1>5, Zenon

\* What one iteration does, case by case: the tokens that remain all fit under
\* the target, or under the maximum, or nothing fits, or some of them do.
AddForm(r, max, target, overlap, out, current, remaining, new) ==
    LET projected == Len(current) + Len(remaining)
        whole == current \o remaining
        capacity == max - Len(current)
    IN  /\ projected <= target => r = Made(out, whole, TRUE, <<>>, FALSE)
        /\ target < projected /\ projected <= max =>
             r = Made(Append(out, whole), Carried(whole, overlap), FALSE, <<>>, FALSE)
        /\ target < projected /\ max < projected /\ capacity = 0 /\ new =>
             r = Made(Append(out, current), Carried(current, overlap), FALSE, remaining, FALSE)
        /\ target < projected /\ max < projected /\ capacity # 0 =>
             r = Made(Append(out, current \o SubSeq(remaining, 1, capacity)),
                      Carried(current \o SubSeq(remaining, 1, capacity), overlap), FALSE,
                      SubSeq(remaining, capacity + 1, Len(remaining)), FALSE)

LEMMA AddForms ==
    ASSUME NEW config, NEW prefix, NEW out, NEW current, NEW remaining, NEW new \in BOOLEAN,
           NEW s, IsMade(s, out, current, new, remaining, FALSE),
           Len(current) \in Nat, Len(remaining) \in Nat,
           MaxBody(config, prefix) \in Nat, TargetBody(config, prefix) \in Nat,
           TargetBody(config, prefix) <= MaxBody(config, prefix)
    PROVE  AddForm(AddRemaining(config, prefix, s), MaxBody(config, prefix), TargetBody(config, prefix),
                   Overlap(config, prefix), out, current, remaining, new)
<1> DEFINE r == AddRemaining(config, prefix, s)
           overlap == Overlap(config, prefix)
           max == MaxBody(config, prefix)
           target == TargetBody(config, prefix)
           projected == Len(current) + Len(remaining)
           whole == current \o remaining
           capacity == max - Len(current)
           front == current \o SubSeq(remaining, 1, capacity)
           rest == SubSeq(remaining, capacity + 1, Len(remaining))
           more(body) == Append(out, body)
           carried(body) == Carried(body, overlap)
           a == projected <= target
           b == projected > target /\ projected <= max
           c == projected > max /\ capacity = 0 /\ ~new
           d == projected > max /\ capacity = 0 /\ new
           x == Made(out, whole, TRUE, <<>>, FALSE)
           y == Made(more(whole), carried(whole), FALSE, <<>>, FALSE)
           z == [s EXCEPT !.failed = TRUE, !.remaining = <<>>]
           u == Made(more(current), carried(current), FALSE, remaining, FALSE)
           v == Made(more(front), carried(front), FALSE, rest, FALSE)
<1>0. IsMade(s, out, current, new, remaining, FALSE)
  OBVIOUS
<1>1. s.out = out /\ s.current = current /\ s.new = new /\ s.remaining = remaining
  BY <1>0, EmitForms, Zenon
<1>2. [s EXCEPT !.current = whole, !.new = TRUE, !.remaining = <<>>] = x
  <2>1. IsMade([s EXCEPT !.current = whole, !.new = TRUE, !.remaining = <<>>], out, whole, TRUE, <<>>, FALSE)
    BY <1>0, EmitForms, Zenon
  <2>2. QED
    BY <2>1, Zenon DEF IsMade
<1>3. ASSUME NEW body, NEW left
      PROVE  [[s EXCEPT !.remaining = left] EXCEPT
                !.out = Append(@, body), !.current = carried(body), !.new = FALSE]
             = Made(more(body), carried(body), FALSE, left, FALSE)
  <2> HIDE DEF carried
  <2>1. IsMade([[s EXCEPT !.remaining = left] EXCEPT
                    !.out = Append(@, body), !.current = carried(body), !.new = FALSE],
               Append(out, body), carried(body), FALSE, left, FALSE)
    BY <1>0, EmitForms, Zenon
  <2>2. QED
    BY <2>1, Zenon DEF IsMade
<1>4. [s EXCEPT !.out = Append(@, current), !.current = carried(current), !.new = FALSE] = u
  <2> HIDE DEF carried
  <2>1. IsMade([s EXCEPT !.out = Append(@, current), !.current = carried(current), !.new = FALSE],
               Append(out, current), carried(current), FALSE, remaining, FALSE)
    BY <1>0, EmitForms, Zenon
  <2>2. QED
    BY <2>1, Zenon DEF IsMade
<1>5. r = CASE a -> [s EXCEPT !.current = whole, !.new = TRUE, !.remaining = <<>>]
            [] b -> [[s EXCEPT !.remaining = <<>>] EXCEPT
                        !.out = Append(@, whole), !.current = carried(whole), !.new = FALSE]
            [] c -> z
            [] d -> [s EXCEPT !.out = Append(@, current), !.current = carried(current), !.new = FALSE]
            [] OTHER -> [[s EXCEPT !.remaining = rest] EXCEPT
                            !.out = Append(@, front), !.current = carried(front), !.new = FALSE]
  BY <1>1, Zenon DEF AddRemaining, Emit
<1>6. projected \in Nat /\ max \in Nat /\ target \in Nat /\ capacity \in Int
  OBVIOUS
<1>7. [[s EXCEPT !.remaining = rest] EXCEPT
            !.out = Append(@, front), !.current = carried(front), !.new = FALSE] = v
  <2> HIDE DEF front, rest, carried
  <2>1. QED
    BY <1>3, Zenon
<1>8. [[s EXCEPT !.remaining = <<>>] EXCEPT
            !.out = Append(@, whole), !.current = carried(whole), !.new = FALSE] = y
  <2> HIDE DEF whole, carried
  <2>1. QED
    BY <1>3, Zenon
<1>9. r = CASE a -> x [] b -> y [] c -> z [] d -> u [] OTHER -> v
  <2> HIDE DEF r, overlap, max, target, projected, whole, capacity, front, rest, carried, more
  <2>1. QED
    BY <1>2, <1>4, <1>5, <1>7, <1>8, Zenon
<1> HIDE DEF overlap, max, target, projected, whole, capacity, r, x, y, z, u, v
<1>10. /\ projected <= target => ~b
       /\ projected <= target => ~(target < projected)
       /\ target < projected => ~(projected <= target)
       /\ target < projected => projected > target
       /\ max < projected => ~(projected <= max) /\ projected > max
       /\ projected <= max => ~(projected > max)
  BY <1>6
<1>11. target <= max => (projected <= target => projected <= max)
  BY <1>6
<1> HIDE DEF a, b, c, d
<1>12. (a /\ ~b /\ ~c /\ ~d => r = x) /\ (b /\ ~a /\ ~c /\ ~d => r = y)
       /\ (d /\ ~a /\ ~b /\ ~c => r = u) /\ (~a /\ ~b /\ ~c /\ ~d => r = v)
  BY <1>9
<1>13. QED
  <2>1. /\ projected <= target => a /\ ~b /\ ~c /\ ~d
        /\ target < projected /\ projected <= max => b /\ ~a /\ ~c /\ ~d
        /\ target < projected /\ max < projected /\ capacity = 0 /\ new => d /\ ~a /\ ~b /\ ~c
        /\ target < projected /\ max < projected /\ capacity # 0 => ~a /\ ~b /\ ~c /\ ~d
    BY <1>10, <1>11, Zenon DEF a, b, c, d, max, target
  <2>2. QED
    BY <2>1, <1>12, Zenon DEF AddForm, r, x, y, u, v, more, carried, overlap, max, target, projected, whole, capacity, front, rest

LEMMA AddSound ==
    ASSUME NEW Tokens, NEW config, NEW prefix, Roomy(config, prefix), NEW sum,
           NEW s \in CutStates(Tokens, config, prefix), s.remaining # <<>>,
           NEW total \in Nat, Going(config, prefix, sum, s, total)
    PROVE  LET r == AddRemaining(config, prefix, s)
           IN  /\ r \in CutStates(Tokens, config, prefix) /\ Going(config, prefix, sum, r, total)
               /\ Measure(r) < Measure(s)
<1> DEFINE r == AddRemaining(config, prefix, s)
           overlap == Overlap(config, prefix)
           max == MaxBody(config, prefix)
           target == TargetBody(config, prefix)
<1>1. PICK out \in Seq(Seq(Tokens)), current \in Seq(Tokens), remaining \in Seq(Tokens), new \in BOOLEAN :
        IsMade(s, out, current, new, remaining, FALSE)
  <2>1. IsMade(s, s.out, s.current, s.new, s.remaining, FALSE)
    <3>1. s = Made(s.out, s.current, s.new, s.remaining, s.failed) /\ s.failed = FALSE
      BY DEF CutStates, Made
    <3>2. QED
      BY <3>1, Zenon DEF IsMade
  <2>2. s.out \in Seq(Seq(Tokens)) /\ s.current \in Seq(Tokens) /\ s.remaining \in Seq(Tokens) /\ s.new \in BOOLEAN
    BY DEF CutStates
  <2>3. QED
    BY <2>1, <2>2, Zenon
<1>2. /\ s.out = out /\ s.current = current /\ s.new = new /\ s.remaining = remaining
  BY <1>1, EmitForms, Zenon
<1>3. PICK n \in Nat, k \in Nat : n = Len(current) /\ k = Len(remaining)
  OBVIOUS
<1>4. /\ k >= 1 /\ n <= target /\ (~new => n <= overlap) /\ total - k \in Nat
      /\ max \in Nat /\ target \in Nat /\ overlap \in Nat
      /\ 1 <= target /\ target <= max /\ overlap < target
  <2>1. n <= target /\ (~new => n <= overlap)
    BY <1>2, <1>3 DEF CutStates
  <2>2. total - k \in Nat
    BY <1>2, <1>3 DEF Going
  <2>3. k >= 1
    BY <1>2, <1>3
  <2>4. QED
    BY <2>1, <2>2, <2>3 DEF Roomy
<1> DEFINE start == total - k - n
           whole == current \o remaining
<1>5. PICK end \in Nat :
        /\ OutSound(config, prefix, sum, out, end)
        /\ Seam(config, out, end, start)
        /\ IF new THEN end < total - k ELSE end = total - k
        /\ Continues(sum, current, start)
  <2>1. CutAt(config, prefix, sum, s, total - k)
    BY <1>2, <1>3, Zenon DEF Going
  <2>2. QED
    BY <2>1, <1>2, <1>3, Zenon DEF CutAt
<1>15. /\ end < total - k \/ end = total - k
       /\ new => end < total - k
  BY <1>5, Zenon
<1>16. More(new) \in {0, 1} /\ More(TRUE) = 1 /\ More(FALSE) = 0 /\ (new => More(new) = 1)
  BY Zenon DEF More
<1>6. Continues(sum, remaining, total - k) /\ start \in Nat
  BY <1>2, <1>3, <1>5 DEF Going, Seam
<1>7. /\ whole \in Seq(Tokens) /\ Len(whole) = n + k /\ Continues(sum, whole, start)
  <2>1. start \in Int /\ start + Len(current) = total - k
    BY <1>3, <1>6
  <2>2. QED
    BY <1>2, <1>3, <1>5, <1>6, <2>1, Joined
<1>8. Measure(s) = 2 * k + More(new)
  BY <1>2, <1>3 DEF Measure
<1>17. /\ Len(current) \in Nat /\ Len(remaining) \in Nat
       /\ MaxBody(config, prefix) \in Nat /\ TargetBody(config, prefix) \in Nat
       /\ TargetBody(config, prefix) <= MaxBody(config, prefix)
       /\ Len(current) + Len(remaining) = n + k
       /\ max - Len(current) = max - n
  BY <1>3, <1>4
<1>18. AddForm(r, max, target, overlap, out, current, remaining, new)
  BY <1>1, <1>17, AddForms, Zenon
<1> HIDE DEF More
<1>9. CASE n + k <= target
  <2>1. r = Made(out, whole, TRUE, <<>>, FALSE)
    <3>1. Len(current) + Len(remaining) <= TargetBody(config, prefix)
      BY <1>9, <1>17
    <3>2. QED
      BY <1>18, <3>1, Zenon DEF AddForm
  <2> HIDE DEF r, whole, start, max, overlap, target
  <2>2. r.out = out /\ r.current = whole /\ r.new = TRUE /\ r.remaining = <<>>
    <3>1. IsMade(r, out, whole, TRUE, <<>>, FALSE)
      BY <2>1, Zenon DEF IsMade
    <3>2. QED
      BY <3>1, EmitForms, Zenon
  <2>13. r.current = whole /\ r.remaining = <<>>
    BY <2>2
  <2>3. r \in CutStates(Tokens, config, prefix)
    <3>1. Len(r.current) <= target
      BY <1>7, <1>9, <2>13
    <3>2. <<>> \in Seq(Tokens) /\ TRUE \in BOOLEAN
      OBVIOUS
    <3>3. r \in [out : Seq(Seq(Tokens)), current : Seq(Tokens), new : BOOLEAN,
                 remaining : Seq(Tokens), failed : {FALSE}]
      BY <1>7, <2>1, <3>2, MadeType, Zenon
    <3>4. QED
      BY <2>2, <3>1, <3>3, Zenon DEF CutStates, target
  <2>4. total - Len(r.remaining) = total /\ total - Len(r.current) = start
    <3>1. Len(r.remaining) = 0 /\ Len(r.current) = n + k
      BY <1>7, <2>13
    <3>2. QED
      BY <1>3, <3>1 DEF start
  <2>5. CutAt(config, prefix, sum, r, total)
    <3>1. end < total
      BY <1>3, <1>4, <1>15
    <3>2. QED
      BY <1>5, <1>7, <2>2, <2>4, <3>1, Zenon DEF CutAt
  <2>6. Going(config, prefix, sum, r, total)
    <3>1. Continues(sum, r.remaining, total)
      BY <2>13 DEF Continues
    <3>2. QED
      BY <2>4, <2>5, <3>1, Zenon DEF Going
  <2>7. Measure(r) < Measure(s)
    <3>1. Measure(r) = 2 * Len(r.remaining) + 1
      BY <1>16, <2>2, Zenon DEF Measure
    <3>2. Measure(r) = 1
      BY <2>13, <3>1
    <3>3. QED
      BY <1>4, <1>8, <1>16, <3>2
  <2>8. QED
    BY <2>3, <2>6, <2>7 DEF r
<1>10. CASE target < n + k /\ n + k <= max
  <2>1. r = Made(Append(out, whole), Carried(whole, overlap), FALSE, <<>>, FALSE)
    <3>1. /\ TargetBody(config, prefix) < Len(current) + Len(remaining)
          /\ Len(current) + Len(remaining) <= MaxBody(config, prefix)
      BY <1>10, <1>17
    <3>2. QED
      BY <1>18, <3>1, Zenon DEF AddForm
  <2> HIDE DEF whole
  <2>2. start + Len(whole) = total /\ end < total
    <3>1. Len(whole) = n + k /\ end <= total - k
      BY <1>7, <1>15
    <3>2. total - k \in Nat /\ k >= 1 /\ n \in Nat
      BY <1>4
    <3> HIDE DEF max, target, overlap
    <3>3. QED
      BY <3>1, <3>2, SMTT(30)
  <2>3. <<>> \in Seq(Tokens) /\ Len(whole) <= max /\ start \in Nat
    BY <1>6, <1>7, <1>10
  <2> HIDE DEF r, start
  <2>4. r \in CutStates(Tokens, config, prefix) /\ CutAt(config, prefix, sum, r, total)
    <3> HIDE DEF max, overlap
    <3>1. end < start + Len(whole) /\ Len(whole) <= MaxBody(config, prefix)
      BY <2>2, <2>3 DEF max
    <3>2. LET x == Made(Append(out, whole), Carried(whole, Overlap(config, prefix)), FALSE, <<>>, FALSE)
          IN  x \in CutStates(Tokens, config, prefix) /\ CutAt(config, prefix, sum, x, start + Len(whole))
      BY <1>5, <1>7, <2>3, <3>1, Emitted, Zenon
    <3>3. QED
      BY <2>1, <2>2, <3>2, Zenon DEF overlap
  <2>5. r.remaining = <<>> /\ r.new = FALSE
    <3>1. IsMade(r, Append(out, whole), Carried(whole, overlap), FALSE, <<>>, FALSE)
      BY <2>1, Zenon DEF IsMade
    <3>2. QED
      BY <3>1, EmitForms, Zenon
  <2>13. r.remaining = <<>>
    BY <2>5
  <2>6. Going(config, prefix, sum, r, total)
    <3>1. total - Len(r.remaining) = total /\ total \in Nat
      BY <2>13
    <3>2. Continues(sum, r.remaining, total)
      BY <2>13 DEF Continues
    <3>3. QED
      BY <2>4, <3>1, <3>2, Zenon DEF Going
  <2>7. Measure(r) < Measure(s)
    <3>1. Measure(r) = 2 * Len(r.remaining) + 0
      BY <1>16, <2>5, Zenon DEF Measure
    <3>2. Measure(r) = 0
      BY <2>13, <3>1
    <3>3. QED
      BY <1>4, <1>8, <1>16, <3>2
  <2>8. QED
    BY <2>4, <2>6, <2>7 DEF r
<1>11. CASE max < n + k /\ max - n = 0
  <2>1. new
    <3>1. ~(n <= overlap)
      BY <1>4, <1>11
    <3>2. QED
      BY <1>4, <3>1
  <2>2. r = Made(Append(out, current), Carried(current, overlap), FALSE, remaining, FALSE)
    <3>1. /\ TargetBody(config, prefix) < Len(current) + Len(remaining)
          /\ MaxBody(config, prefix) < Len(current) + Len(remaining)
          /\ MaxBody(config, prefix) - Len(current) = 0
      BY <1>4, <1>11, <1>17, SMTT(30)
    <3>2. QED
      BY <1>18, <2>1, <3>1, Zenon DEF AddForm
  <2>3. start + Len(current) = total - k /\ end < total - k /\ Len(current) <= max /\ start \in Nat
    <3>1. end < total - k
      BY <1>15, <2>1, Zenon
    <3>2. start + Len(current) = total - k /\ Len(current) <= max
      BY <1>3, <1>4
    <3>3. QED
      BY <1>6, <3>1, <3>2
  <2> HIDE DEF r, start
  <2>4. r \in CutStates(Tokens, config, prefix) /\ CutAt(config, prefix, sum, r, total - k)
    <3> HIDE DEF max, overlap
    <3>1. end < start + Len(current) /\ Len(current) <= MaxBody(config, prefix)
      BY <2>3 DEF max
    <3>2. LET x == Made(Append(out, current), Carried(current, Overlap(config, prefix)), FALSE, remaining, FALSE)
          IN  x \in CutStates(Tokens, config, prefix) /\ CutAt(config, prefix, sum, x, start + Len(current))
      BY <1>5, <2>3, <3>1, Emitted, Zenon
    <3>3. QED
      BY <2>2, <2>3, <3>2, Zenon DEF overlap
  <2>5. r.remaining = remaining /\ r.new = FALSE
    <3>1. IsMade(r, Append(out, current), Carried(current, overlap), FALSE, remaining, FALSE)
      BY <2>2, Zenon DEF IsMade
    <3>2. QED
      BY <3>1, EmitForms, Zenon
  <2>6. Going(config, prefix, sum, r, total)
    <3>1. total - Len(r.remaining) = total - k /\ total - k \in Nat
      BY <1>3, <1>4, <2>5, Zenon
    <3>2. QED
      BY <1>6, <2>4, <2>5, <3>1, Zenon DEF Going
  <2>7. Measure(r) < Measure(s)
    <3>1. Measure(r) = 2 * k + 0 /\ Measure(s) = 2 * k + 1
      BY <1>3, <1>8, <1>16, <2>1, <2>5, Zenon DEF Measure
    <3>2. QED
      BY <3>1
  <2>8. QED
    BY <2>4, <2>6, <2>7 DEF r
<1>12. CASE max < n + k /\ max - n # 0
  <2> DEFINE capacity == max - n
             front == SubSeq(remaining, 1, capacity)
             rest == SubSeq(remaining, capacity + 1, Len(remaining))
             body == current \o front
  <2>1. capacity \in 0 .. Len(remaining) /\ capacity >= 1
    <3> HIDE DEF max, target, overlap
    <3>1. max \in Nat /\ n <= max
      BY <1>4
    <3>2. max - n >= 1 /\ max - n <= k
      BY <1>12, <3>1
    <3>3. QED
      BY <1>3, <3>1, <3>2
  <2>2. r = Made(Append(out, body), Carried(body, overlap), FALSE, rest, FALSE)
    <3>1. /\ TargetBody(config, prefix) < Len(current) + Len(remaining)
          /\ MaxBody(config, prefix) < Len(current) + Len(remaining)
          /\ MaxBody(config, prefix) - Len(current) # 0
      BY <1>4, <1>12, <1>17, SMTT(30)
    <3>2. MaxBody(config, prefix) - Len(current) = capacity
      BY <1>17
    <3> HIDE DEF capacity
    <3>3. QED
      BY <1>18, <3>1, <3>2, Zenon DEF AddForm, capacity
  <2> HIDE DEF capacity
  <2>3. /\ front \in Seq(Tokens) /\ Len(front) = capacity /\ Continues(sum, front, total - k)
        /\ rest \in Seq(Tokens) /\ Len(rest) = k - capacity
        /\ Continues(sum, rest, total - k + capacity)
    <3>1. total - k \in Int /\ Len(remaining) = k
      BY <1>3, <1>4
    <3>2. /\ front \in Seq(Tokens) /\ Len(front) = capacity /\ Continues(sum, front, total - k)
          /\ rest \in Seq(Tokens) /\ Len(rest) = Len(remaining) - capacity
          /\ Continues(sum, rest, total - k + capacity)
      BY <1>6, <2>1, <3>1, Parted, Zenon
    <3>3. QED
      BY <3>1, <3>2, Zenon
  <2> HIDE DEF front, rest
  <2>4. /\ body \in Seq(Tokens) /\ Len(body) = n + capacity /\ Continues(sum, body, start)
    <3>1. start \in Int /\ start + Len(current) = total - k /\ Len(current) = n
      BY <1>3, <1>4, <1>6
    <3>2. Continues(sum, front, start + Len(current))
      BY <2>3, <3>1, Zenon
    <3>3. /\ body \in Seq(Tokens) /\ Len(body) = Len(current) + Len(front)
          /\ Continues(sum, body, start)
      BY <1>5, <2>3, <3>1, <3>2, Joined, Zenon
    <3>4. QED
      BY <2>3, <3>1, <3>3, Zenon
  <2>5. n + capacity = max
    BY <1>3, <1>4 DEF capacity
  <2> HIDE DEF body
  <2>6. /\ start + Len(body) = total - (k - capacity) /\ end < start + Len(body)
        /\ Len(body) <= max /\ start \in Nat
    <3>1. capacity \in Nat /\ capacity >= 1
      BY <2>1
    <3>2. start = total - k - n /\ start \in Nat
      BY <1>6
    <3>3. total \in Nat /\ n \in Nat /\ k \in Nat /\ end \in Nat
      OBVIOUS
    <3> HIDE DEF start, max, overlap, target
    <3>6. end <= total - k
      BY <1>4, <1>15, <3>3
    <3>7. Len(body) = n + capacity
      BY <2>4
    <3>8. start + Len(body) = total - (k - capacity)
      BY <3>1, <3>2, <3>3, <3>7
    <3>9. end < total - (k - capacity)
      BY <3>1, <3>3, <3>6
    <3>4. start + Len(body) = total - (k - capacity) /\ end < start + Len(body) /\ Len(body) <= max
      BY <2>5, <3>7, <3>8, <3>9, <1>4
    <3>5. QED
      BY <3>2, <3>4
  <2> HIDE DEF r, start
  <2>7. r \in CutStates(Tokens, config, prefix) /\ CutAt(config, prefix, sum, r, total - (k - capacity))
    <3> HIDE DEF max, overlap
    <3>1. Len(body) <= MaxBody(config, prefix)
      BY <2>6 DEF max
    <3>2. LET x == Made(Append(out, body), Carried(body, Overlap(config, prefix)), FALSE, rest, FALSE)
          IN  x \in CutStates(Tokens, config, prefix) /\ CutAt(config, prefix, sum, x, start + Len(body))
      BY <1>5, <2>3, <2>4, <2>6, <3>1, Emitted, Zenon
    <3>3. QED
      BY <2>2, <2>6, <3>2, Zenon DEF overlap
  <2>8. r.remaining = rest /\ r.new = FALSE
    <3>1. IsMade(r, Append(out, body), Carried(body, overlap), FALSE, rest, FALSE)
      BY <2>2, Zenon DEF IsMade
    <3>2. QED
      BY <3>1, EmitForms, Zenon
  <2>13. r.remaining = rest
    BY <2>8
  <2>9. /\ total - Len(r.remaining) = total - (k - capacity)
        /\ total - (k - capacity) = total - k + capacity /\ total - (k - capacity) \in Nat
    <3>1. Len(r.remaining) = k - capacity
      BY <2>3, <2>13, Zenon
    <3>2. capacity \in Nat /\ capacity <= k /\ total - k \in Nat
      BY <1>3, <1>4, <2>1
    <3> HIDE DEF capacity, rest
    <3>3. /\ total - (k - capacity) = total - k + capacity
          /\ total - (k - capacity) \in Nat
      BY <3>2
    <3>4. QED
      BY <3>1, <3>3
  <2>10. Going(config, prefix, sum, r, total)
    BY <2>3, <2>7, <2>13, <2>9, Zenon DEF Going
  <2>11. Measure(r) < Measure(s)
    <3>1. Measure(r) = 2 * (k - capacity) + 0
      BY <1>16, <2>3, <2>8, Zenon DEF Measure
    <3>2. QED
      BY <1>3, <1>8, <1>16, <2>1, <3>1
  <2>12. QED
    BY <2>7, <2>10, <2>11 DEF r
<1>13. n + k <= target \/ (target < n + k /\ n + k <= max)
       \/ (max < n + k /\ max - n = 0) \/ (max < n + k /\ max - n # 0)
  BY <1>3, <1>4
<1>14. QED
  BY <1>9, <1>10, <1>11, <1>12, <1>13

\* All tokens of a unit are consumed before the steps run out: every iteration
\* leaves fewer, or leaves a body in which nothing is new.
LEMMA Added ==
    ASSUME NEW Tokens, NEW config, NEW prefix, Roomy(config, prefix), NEW sum,
           NEW s \in CutStates(Tokens, config, prefix), NEW place \in Nat,
           CutAt(config, prefix, sum, s, place),
           NEW tokens \in Seq(Tokens), Continues(sum, tokens, place)
    PROVE  LET r == Adding(config, prefix, s, tokens)[Fuel(tokens)]
           IN  r \in CutStates(Tokens, config, prefix) /\ CutAt(config, prefix, sum, r, place + Len(tokens))
<1>1. PICK K \in Nat : K = Len(tokens)
  OBVIOUS
<1> DEFINE N == Fuel(tokens)
           total == place + K
           S == {v \in CutStates(Tokens, config, prefix) : Going(config, prefix, sum, v, total)}
           base == [s EXCEPT !.remaining = tokens]
           Step(v, n) == IF v.remaining = <<>> \/ v.failed THEN v ELSE AddRemaining(config, prefix, v)
           Is(f) == f = [n \in 0 .. N |-> IF n = 0 THEN base ELSE Step(f[n - 1], n)]
           step == [p \in S \X (1 .. N) |-> Step(p[1], p[2])]
<1>2. N \in Nat /\ N = 2 * K + 2 /\ total \in Nat
  BY <1>1 DEF Fuel
<1>3. /\ base \in CutStates(Tokens, config, prefix) /\ base.remaining = tokens /\ base.new = s.new
      /\ base.out = s.out /\ base.current = s.current
  BY DEF CutStates
<1>4. base \in S
  <2>1. total - Len(base.remaining) = place
    BY <1>1, <1>3
  <2> HIDE DEF base, total
  <2>2. CutAt(config, prefix, sum, base, place)
    BY <1>3, Zenon DEF CutAt
  <2>3. Going(config, prefix, sum, base, total)
    BY <1>3, <2>1, <2>2, Zenon DEF Going
  <2>4. QED
    BY <1>3, <2>3
<1>5. \A f : Is(f) => Is(Adding(config, prefix, s, tokens))
  BY Zenon DEF Adding
<1>6. \A v \in S : v.failed = FALSE
  BY DEF CutStates
<1>7. ASSUME NEW v \in S, v.remaining # <<>>
      PROVE  AddRemaining(config, prefix, v) \in S /\ Measure(AddRemaining(config, prefix, v)) < Measure(v)
  <2> HIDE DEF total
  <2>1. v \in CutStates(Tokens, config, prefix) /\ Going(config, prefix, sum, v, total)
    OBVIOUS
  <2>2. /\ AddRemaining(config, prefix, v) \in CutStates(Tokens, config, prefix)
        /\ Going(config, prefix, sum, AddRemaining(config, prefix, v), total)
        /\ Measure(AddRemaining(config, prefix, v)) < Measure(v)
    BY <1>2, <1>7, <2>1, AddSound, Zenon
  <2>3. QED
    BY <2>2
<1>8. \A v \in S : Measure(v) \in Nat /\ Measure(v) <= 2 * Len(v.remaining) + 1
  <2> SUFFICES ASSUME NEW v \in S PROVE Measure(v) \in Nat /\ Measure(v) <= 2 * Len(v.remaining) + 1
    OBVIOUS
  <2>1. Len(v.remaining) \in Nat
    BY DEF CutStates
  <2>2. More(v.new) \in {0, 1}
    BY Zenon DEF More
  <2>3. QED
    BY <2>1, <2>2 DEF Measure
<1>9. Measure(base) <= 2 * K + 1
  BY <1>1, <1>3, <1>4, <1>8
<1> HIDE DEF S, base, N, total
<1>10. \A v \in S, n \in 1 .. N : Step(v, n) \in S
  BY <1>6, <1>7
<1>11. \A v \in S, n \in 1 .. N : IF v.remaining = <<>> THEN Step(v, n) = v
                                  ELSE Step(v, n) = AddRemaining(config, prefix, v)
  BY <1>6
<1> HIDE DEF Step
<1>12. /\ step \in [S \X (1 .. N) -> S]
       /\ \A v \in S, n \in 1 .. N : step[<<v, n>>] = Step(v, n)
  BY <1>10
<1>13. \A n \in 1 .. N : n - 1 \in 0 .. N
  BY <1>2
<1> HIDE DEF step
<1>14. PICK g : Iterates(g, S, base, N, step)
  BY <1>2, <1>4, <1>12, Recursion, Zenon
<1>15. Is(g)
  <2>1. \A n \in 1 .. N : g[n] = Step(g[n - 1], n)
    BY <1>12, <1>13, <1>14 DEF Iterates
  <2>2. \A n \in 0 .. N : n = 0 \/ n \in 1 .. N
    BY <1>2
  <2>3. \A n \in 0 .. N : g[n] = IF n = 0 THEN base ELSE Step(g[n - 1], n)
    BY <1>14, <2>1, <2>2 DEF Iterates
  <2>4. QED
    BY <1>14, <2>3 DEF Iterates
<1> DEFINE f == Adding(config, prefix, s, tokens)
<1>16. Is(f)
  BY <1>5, <1>15
<1> HIDE DEF f
<1> DEFINE T == {n \in 0 .. N : f[n] \in S /\ (f[n].remaining = <<>> \/ Measure(f[n]) + n <= 2 * K + 1)}
<1>17. 0 \in T
  <2>1. f[0] = base
    BY <1>2, <1>16
  <2>2. Measure(base) + 0 <= 2 * K + 1
    BY <1>4, <1>8, <1>9
  <2>3. QED
    BY <1>2, <1>4, <2>1, <2>2
<1>18. ASSUME NEW n \in 1 .. N, n - 1 \in T PROVE n \in T
  <2>1. n \in 0 .. N /\ n # 0
    BY <1>2
  <2>2. f[n] = Step(f[n - 1], n)
    BY <1>16, <2>1
  <2> DEFINE v == f[n - 1]
             w == f[n]
  <2>3. v \in S /\ (v.remaining = <<>> \/ Measure(v) + (n - 1) <= 2 * K + 1)
    BY <1>18
  <2>4. w = Step(v, n)
    BY <2>2
  <2> SUFFICES w \in S /\ (w.remaining = <<>> \/ Measure(w) + n <= 2 * K + 1)
    BY <2>1
  <2> HIDE DEF v, w, T
  <2>5. CASE v.remaining = <<>>
    BY <1>11, <2>3, <2>4, <2>5
  <2>6. CASE v.remaining # <<>>
    <3>1. w \in S /\ Measure(w) < Measure(v)
      BY <1>7, <1>11, <2>3, <2>4, <2>6
    <3>2. Measure(w) \in Nat /\ Measure(v) \in Nat
      BY <1>8, <2>3, <3>1
    <3>3. QED
      BY <2>3, <2>6, <3>1, <3>2
  <2>7. QED
    BY <2>5, <2>6
<1> HIDE DEF T
<1>19. 0 .. N \subseteq T
  BY <1>2, <1>17, <1>18, Counting
<1>20. f[N] \in S /\ f[N].remaining = <<>>
  <2>1. f[N] \in S /\ (f[N].remaining = <<>> \/ Measure(f[N]) + N <= 2 * K + 1)
    BY <1>2, <1>19 DEF T
  <2>2. Measure(f[N]) \in Nat
    BY <1>8, <2>1
  <2>3. ~(Measure(f[N]) + N <= 2 * K + 1)
    BY <1>2, <2>2
  <2>4. QED
    BY <2>1, <2>3
<1>21. f[N] \in CutStates(Tokens, config, prefix) /\ Going(config, prefix, sum, f[N], total)
  BY <1>20 DEF S
<1>22. total - Len(f[N].remaining) = total
  BY <1>2, <1>20
<1>23. CutAt(config, prefix, sum, f[N], total)
  BY <1>21, <1>22, Zenon DEF Going
<1>24. QED
  BY <1>1, <1>21, <1>23 DEF f, N, total

\* The sums of the tokens, unit by unit.
LEMMA Sums ==
    ASSUME NEW units, Units(units)
    PROVE  LET sum == TokensUpTo(units)
           IN  /\ sum[0] = 0
               /\ \A i \in 1 .. Len(units) : /\ sum[i - 1] \in Nat /\ sum[i] \in Nat
                                             /\ sum[i] = sum[i - 1] + units[i].tokens
<1>1. PICK N \in Nat : N = Len(units) /\ \A i \in 1 .. N : units[i].tokens \in Nat
  BY DEF Units
<1> DEFINE Step(v, i) == v + units[i].tokens
           Is(f) == f = [i \in 0 .. N |-> IF i = 0 THEN 0 ELSE Step(f[i - 1], i)]
           step == [p \in Nat \X (1 .. N) |-> Step(p[1], p[2])]
<1>2. \A v \in Nat, i \in 1 .. N : Step(v, i) \in Nat
  BY <1>1
<1>3. \A f : Is(f) => Is(TokensUpTo(units))
  BY <1>1, Zenon DEF TokensUpTo
<1> HIDE DEF Step
<1>4. /\ step \in [Nat \X (1 .. N) -> Nat]
      /\ \A v \in Nat, i \in 1 .. N : step[<<v, i>>] = Step(v, i)
  BY <1>2
<1> HIDE DEF step
<1>5. PICK g : Iterates(g, Nat, 0, N, step)
  <2>1. 0 \in Nat
    OBVIOUS
  <2>2. QED
    BY <1>1, <1>4, <2>1, Recursion, Zenon
<1>6. Is(g)
  <2>1. \A i \in 1 .. N : g[i] = Step(g[i - 1], i)
    <3>1. \A i \in 1 .. N : i - 1 \in 0 .. N
      OBVIOUS
    <3>2. QED
      BY <1>4, <1>5, <3>1 DEF Iterates
  <2>2. \A i \in 0 .. N : i = 0 \/ i \in 1 .. N
    OBVIOUS
  <2>3. \A i \in 0 .. N : g[i] = IF i = 0 THEN 0 ELSE Step(g[i - 1], i)
    BY <1>5, <2>1, <2>2 DEF Iterates
  <2>4. QED
    BY <1>5, <2>3 DEF Iterates
<1> DEFINE f == TokensUpTo(units)
<1>7. Is(f)
  BY <1>3, <1>6
<1> HIDE DEF f
<1>8. f[0] = 0 /\ \A i \in 1 .. N : f[i] = Step(f[i - 1], i)
  <2>1. 0 \in 0 .. N /\ \A i \in 1 .. N : i \in 0 .. N /\ i # 0
    OBVIOUS
  <2>2. QED
    BY <1>7, <2>1
<1> DEFINE T == {i \in 0 .. N : f[i] \in Nat}
<1>9. 0 \in T
  BY <1>8
<1>10. ASSUME NEW i \in 1 .. N, i - 1 \in T PROVE i \in T
  BY <1>2, <1>8, <1>10
<1> HIDE DEF T
<1>11. 0 .. N \subseteq T
  BY <1>9, <1>10, Counting
<1>12. \A i \in 1 .. N : f[i - 1] \in Nat /\ f[i] \in Nat
  <2>1. \A i \in 1 .. N : i - 1 \in 0 .. N /\ i \in 0 .. N
    OBVIOUS
  <2>2. QED
    BY <1>11, <2>1 DEF T
<1>13. QED
  BY <1>1, <1>8, <1>12 DEF Step, f

\* The tokens of a unit follow those of the units before it.
LEMMA UnitContinues ==
    ASSUME NEW Tokens, NEW units, Units(units), (1 .. Len(units)) \X Nat \subseteq Tokens,
           NEW i \in 1 .. Len(units)
    PROVE  LET tokens == TokensOf(units, i)
           IN  /\ tokens \in Seq(Tokens) /\ Len(tokens) = units[i].tokens
               /\ Continues(TokensUpTo(units), tokens, TokensUpTo(units)[i - 1])
<1>1. i \in Nat /\ units[i].tokens \in Nat
  BY DEF Units
<1> DEFINE tokens == TokensOf(units, i)
<1>2. tokens \in Seq(Tokens) /\ Len(tokens) = units[i].tokens
  <2>1. PICK n \in Nat : n = units[i].tokens
    BY <1>1
  <2>2. tokens = [p \in 1 .. n |-> <<i, p>>]
    BY <2>1 DEF TokensOf
  <2>3. \A p \in 1 .. n : <<i, p>> \in Tokens
    BY <1>1
  <2> HIDE DEF tokens
  <2>4. tokens \in [1 .. n -> Tokens]
    BY <2>2, <2>3
  <2>5. QED
    BY <2>1, <2>4
<1>3. \A p \in 1 .. units[i].tokens : tokens[p] = <<i, p>>
  BY DEF TokensOf
<1> HIDE DEF tokens
<1> DEFINE sum == TokensUpTo(units)
<1>4. sum[i - 1] \in Nat
  BY Sums
<1> HIDE DEF sum
<1>5. \A p \in 1 .. units[i].tokens : At(sum, tokens[p]) = sum[i - 1] + p
  BY <1>1, <1>3, <1>4 DEF At
<1>6. QED
  BY <1>2, <1>5 DEF Continues, tokens, sum

\* The state before the first unit.
Begun(config, prefix) ==
    [out |-> <<>>, current |-> <<>>, new |-> FALSE, remaining |-> <<>>, failed |-> MaxBody(config, prefix) = 0]

LEMMA BegunSound ==
    ASSUME NEW Tokens, NEW config, NEW prefix, Roomy(config, prefix), NEW sum
    PROVE  Begun(config, prefix) \in CutStates(Tokens, config, prefix) /\ CutAt(config, prefix, sum, Begun(config, prefix), 0)
<1> DEFINE no == FALSE
           b == Begun(config, prefix)
<1>1. MaxBody(config, prefix) # 0
  BY DEF Roomy
<1>2. b = Made(<<>>, <<>>, FALSE, <<>>, FALSE)
  BY <1>1, Zenon DEF Begun, Made
<1>3. <<>> \in Seq(Seq(Tokens)) /\ <<>> \in Seq(Tokens) /\ FALSE \in BOOLEAN
  OBVIOUS
<1>4. b \in [out : Seq(Seq(Tokens)), current : Seq(Tokens), new : BOOLEAN,
             remaining : Seq(Tokens), failed : {FALSE}]
  <2> DEFINE none == <<>>
  <2>1. b = Made(none, none, no, none, FALSE)
    BY <1>2
  <2>2. none \in Seq(Seq(Tokens)) /\ none \in Seq(Tokens) /\ no \in BOOLEAN
    BY <1>3
  <2> HIDE DEF none, no, b
  <2>3. QED
    BY <2>1, <2>2, MadeType, Zenon
<1>5. b.out = <<>> /\ b.current = <<>> /\ b.new = FALSE
  <2>1. b = Made(<<>>, <<>>, no, <<>>, no)
    BY <1>2
  <2> HIDE DEF no, b
  <2>2. b.out = <<>> /\ b.current = <<>> /\ b.new = no
    BY <2>1, MadeFields
  <2>3. QED
    BY <2>2, Zenon DEF no
<1> HIDE DEF b
<1>6. b.out = <<>> /\ b.current = <<>>
  BY <1>5
<1>7. Len(b.current) = 0 /\ Len(b.out) = 0 /\ 0 <= TargetBody(config, prefix) /\ 0 <= Overlap(config, prefix)
  BY <1>6 DEF Roomy
<1>8. b \in CutStates(Tokens, config, prefix)
  <2>1. Len(b.current) <= TargetBody(config, prefix) /\ Len(b.current) <= Overlap(config, prefix)
    BY <1>7
  <2>2. QED
    BY <1>4, <2>1, Zenon DEF CutStates
<1>9. /\ OutSound(config, prefix, sum, b.out, 0) /\ Seam(config, b.out, 0, 0 - Len(b.current))
      /\ Continues(sum, b.current, 0 - Len(b.current))
  BY <1>7 DEF OutSound, Seam, Continues, Roomy
<1>10. CutAt(config, prefix, sum, b, 0)
  <2>1. 0 \in Nat
    OBVIOUS
  <2>2. QED
    BY <1>5, <1>9, <2>1, Zenon DEF CutAt
<1>11. QED
  BY <1>8, <1>10 DEF b

\* What a unit does to a state in which nothing failed.
OneUnit(config, prefix, units, v, i) ==
    IF v.failed THEN v
    ELSE Adding(config, prefix, v, TokensOf(units, i))[Fuel(TokensOf(units, i))]

\* Unit after unit, so many tokens are consumed as the units have up to there.
LEMMA CutSound ==
    ASSUME NEW Tokens, NEW config, NEW prefix, Roomy(config, prefix), NEW units, Units(units),
           (1 .. Len(units)) \X Nat \subseteq Tokens
    PROVE  LET sum == TokensUpTo(units)
               last == Cutting(config, prefix, units)[Len(units)]
           IN  last \in CutStates(Tokens, config, prefix) /\ CutAt(config, prefix, sum, last, sum[Len(units)])
<1>1. PICK N \in Nat : N = Len(units)
  BY DEF Units
<1> DEFINE sum == TokensUpTo(units)
           S == CutStates(Tokens, config, prefix)
           base == Begun(config, prefix)
           Step(v, i) == OneUnit(config, prefix, units, v, i)
           Guarded(v, i) == IF CutAt(config, prefix, sum, v, sum[i - 1]) THEN Step(v, i) ELSE v
           Is(f) == f = [i \in 0 .. N |-> IF i = 0 THEN base ELSE Step(f[i - 1], i)]
           step == [p \in S \X (1 .. N) |-> Guarded(p[1], p[2])]
<1>2. /\ sum[0] = 0
      /\ \A i \in 1 .. N : /\ sum[i - 1] \in Nat /\ sum[i] \in Nat
                           /\ sum[i] = sum[i - 1] + units[i].tokens
  BY <1>1, Sums
<1>3. base \in S /\ CutAt(config, prefix, sum, base, sum[0])
  <2> HIDE DEF base, sum
  <2>1. base \in S /\ CutAt(config, prefix, sum, base, 0)
    BY BegunSound, Zenon DEF base
  <2>2. QED
    BY <1>2, <2>1
<1>4. ASSUME NEW v \in S, NEW i \in 1 .. N, CutAt(config, prefix, sum, v, sum[i - 1])
      PROVE  Step(v, i) \in S /\ CutAt(config, prefix, sum, Step(v, i), sum[i])
  <2> DEFINE tokens == TokensOf(units, i)
  <2>1. /\ tokens \in Seq(Tokens) /\ Len(tokens) = units[i].tokens
        /\ Continues(sum, tokens, sum[i - 1])
    BY <1>1, UnitContinues
  <2>2. v.failed = FALSE
    BY DEF CutStates
  <2>3. Step(v, i) = Adding(config, prefix, v, tokens)[Fuel(tokens)]
    BY <2>2, Zenon DEF OneUnit
  <2>4. sum[i - 1] \in Nat /\ sum[i] = sum[i - 1] + Len(tokens)
    BY <1>2, <2>1
  <2> HIDE DEF tokens, sum, Step
  <2>5. /\ Adding(config, prefix, v, tokens)[Fuel(tokens)] \in S
        /\ CutAt(config, prefix, sum, Adding(config, prefix, v, tokens)[Fuel(tokens)],
                 sum[i - 1] + Len(tokens))
    BY <1>4, <2>1, <2>4, Added, Zenon
  <2>6. QED
    BY <2>3, <2>4, <2>5
<1>5. \A f : Is(f) => Is(Cutting(config, prefix, units))
  BY <1>1, Zenon DEF Cutting, OneUnit, Begun
<1> HIDE DEF Step, base, S, sum
<1>6. \A v \in S, i \in 1 .. N : Guarded(v, i) \in S
  BY <1>4
<1>7. \A v \in S, i \in 1 .. N : CutAt(config, prefix, sum, v, sum[i - 1]) => Guarded(v, i) = Step(v, i)
  OBVIOUS
<1> HIDE DEF Guarded
<1>8. /\ step \in [S \X (1 .. N) -> S]
      /\ \A v \in S, i \in 1 .. N : step[<<v, i>>] = Guarded(v, i)
  BY <1>6
<1> HIDE DEF step
<1>9. \A i \in 1 .. N : i - 1 \in 0 .. N /\ i \in 0 .. N /\ i # 0
  OBVIOUS
<1> DEFINE Sound(f) == \A i \in 0 .. N : f[i] \in S /\ CutAt(config, prefix, sum, f[i], sum[i])
<1>10. ASSUME NEW f, f[0] = base,
              \A i \in 1 .. N : f[i] = Step(f[i - 1], i) \/ f[i] = Guarded(f[i - 1], i)
       PROVE  Sound(f)
  <2> DEFINE T == {i \in 0 .. N : f[i] \in S /\ CutAt(config, prefix, sum, f[i], sum[i])}
  <2>1. 0 \in T
    BY <1>3, <1>10
  <2>2. ASSUME NEW i \in 1 .. N, i - 1 \in T PROVE i \in T
    <3>1. f[i - 1] \in S /\ CutAt(config, prefix, sum, f[i - 1], sum[i - 1])
      BY <2>2
    <3>2. f[i] = Step(f[i - 1], i)
      BY <1>7, <1>10, <3>1
    <3>3. f[i] \in S /\ CutAt(config, prefix, sum, f[i], sum[i])
      BY <1>4, <3>1, <3>2
    <3>4. QED
      BY <1>9, <3>3
  <2> HIDE DEF T
  <2>3. 0 .. N \subseteq T
    BY <2>1, <2>2, Counting
  <2>4. QED
    BY <2>3 DEF T
<1>11. PICK g : Iterates(g, S, base, N, step)
  BY <1>1, <1>3, <1>8, Recursion, Zenon
<1>12. Is(g)
  <2>1. \A i \in 1 .. N : g[i] = Guarded(g[i - 1], i)
    BY <1>8, <1>9, <1>11 DEF Iterates
  <2>2. g[0] = base
    BY <1>11 DEF Iterates
  <2>3. Sound(g)
    BY <1>10, <2>1, <2>2
  <2>4. \A i \in 1 .. N : g[i] = Step(g[i - 1], i)
    BY <1>7, <1>9, <2>1, <2>3
  <2>5. \A i \in 0 .. N : i = 0 \/ i \in 1 .. N
    OBVIOUS
  <2>6. \A i \in 0 .. N : g[i] = IF i = 0 THEN base ELSE Step(g[i - 1], i)
    BY <2>2, <2>4, <2>5
  <2>7. QED
    BY <1>11, <2>6 DEF Iterates
<1> DEFINE f == Cutting(config, prefix, units)
<1>13. Is(f)
  BY <1>5, <1>12
<1> HIDE DEF f
<1>14. f[0] = base /\ \A i \in 1 .. N : f[i] = Step(f[i - 1], i)
  BY <1>9, <1>13
<1>15. Sound(f)
  BY <1>10, <1>14
<1>16. QED
  BY <1>1, <1>15 DEF f, S, sum

\* With no room for a token the group fails, and no body is made.
LEMMA CutNothing ==
    ASSUME NEW config, NEW prefix, MaxBody(config, prefix) = 0, NEW units, Units(units)
    PROVE  Bodies(config, prefix, units).out = <<>> /\ Bodies(config, prefix, units).failed = TRUE
<1>1. PICK N \in Nat : N = Len(units)
  BY DEF Units
<1> DEFINE base == Begun(config, prefix)
           Step(v, i) == OneUnit(config, prefix, units, v, i)
           Is(f) == f = [i \in 0 .. N |-> IF i = 0 THEN base ELSE Step(f[i - 1], i)]
           S == {base}
           step == [p \in S \X (1 .. N) |-> Step(p[1], p[2])]
<1>2. base.failed /\ base.out = <<>> /\ base.failed = TRUE
  <2> DEFINE yes == MaxBody(config, prefix) = 0
  <2>1. yes = TRUE
    BY Zenon
  <2> HIDE DEF yes
  <2>2. base.failed = yes /\ base.out = <<>>
    BY DEF Begun, yes
  <2>3. QED
    BY <2>1, <2>2, Zenon
<1>3. base \in S /\ \A v \in S, i \in 1 .. N : Step(v, i) \in S
  BY <1>2, Zenon DEF OneUnit
<1>4. \A v \in S : v = base
  OBVIOUS
<1>5. \A f : Is(f) => Is(Cutting(config, prefix, units))
  BY <1>1, Zenon DEF Cutting, OneUnit, Begun
<1> HIDE DEF Step, base, S
<1>8. /\ step \in [S \X (1 .. N) -> S]
      /\ \A v \in S, i \in 1 .. N : step[<<v, i>>] = Step(v, i)
  BY <1>3
<1> HIDE DEF step
<1>9. \A i \in 1 .. N : i - 1 \in 0 .. N /\ i \in 0 .. N /\ i # 0
  OBVIOUS
<1>11. PICK g : Iterates(g, S, base, N, step)
  BY <1>1, <1>3, <1>8, Recursion
<1>12. Is(g)
  <2>1. \A i \in 1 .. N : g[i] = Step(g[i - 1], i)
    BY <1>8, <1>9, <1>11 DEF Iterates
  <2>5. \A i \in 0 .. N : i = 0 \/ i \in 1 .. N
    OBVIOUS
  <2>6. \A i \in 0 .. N : g[i] = IF i = 0 THEN base ELSE Step(g[i - 1], i)
    BY <1>11, <2>1, <2>5 DEF Iterates
  <2>7. QED
    BY <1>11, <2>6 DEF Iterates
<1> DEFINE f == Cutting(config, prefix, units)
<1>13. Is(f)
  BY <1>5, <1>12
<1> HIDE DEF f
<1>14. f[0] = base /\ \A i \in 1 .. N : f[i] = Step(f[i - 1], i)
  BY <1>9, <1>13
<1> DEFINE T == {i \in 0 .. N : f[i] = base}
<1>15. 0 \in T
  BY <1>14
<1>16. ASSUME NEW i \in 1 .. N, i - 1 \in T PROVE i \in T
  BY <1>3, <1>4, <1>9, <1>14, <1>16
<1> HIDE DEF T
<1>17. 0 .. N \subseteq T
  BY <1>15, <1>16, Counting
<1>18. f[Len(units)] = base
  BY <1>1, <1>17 DEF T
<1>19. QED
  <2>1. Cutting(config, prefix, units)[Len(units)] = base
    BY <1>18 DEF f
  <2> DEFINE last == Cutting(config, prefix, units)[Len(units)]
             kept == IF last.new /\ ~last.failed THEN Append(last.out, last.current) ELSE last.out
  <2>2. last.failed = TRUE /\ kept = <<>>
    BY <1>2, <2>1, Zenon
  <2>3. Bodies(config, prefix, units) = [out |-> kept, failed |-> last.failed]
    BY Zenon DEF Bodies
  <2> HIDE DEF last, kept
  <2>4. Bodies(config, prefix, units).out = kept /\ Bodies(config, prefix, units).failed = last.failed
    BY <2>3
  <2>5. QED
    BY <2>2, <2>4, Zenon

\* The bodies that were emitted are sound as a cut of the whole text.
LEMMA OutIsCut ==
    ASSUME NEW Tokens, NEW config, NEW prefix, config.max \in Nat, prefix \in Nat,
           NEW units, NEW end \in Nat,
           end = TokensUpTo(units)[Len(units)],
           Bodies(config, prefix, units).out \in Seq(Seq(Tokens)),
           OutSound(config, prefix, TokensUpTo(units), Bodies(config, prefix, units).out, end)
    PROVE  BodiesSound(config, prefix, units)
<1> DEFINE cut == Bodies(config, prefix, units)
           sum == TokensUpTo(units)
           out == cut.out
           Position(token) == token[2] + sum[token[1] - 1]
           First(n) == Position(Head(out[n]))
           Last_(n) == Position(Last(out[n]))
<1>1. PICK N \in Nat : N = Len(out) /\ DOMAIN out = 1 .. N
  OBVIOUS
<1>2. \A n \in 1 .. N : Len(out[n]) >= 1 /\ out[n] \in Seq(Tokens)
  BY <1>1 DEF OutSound
<1>3. \A n \in 1 .. N : Head(out[n]) = out[n][1] /\ Last(out[n]) = out[n][Len(out[n])]
  <2> SUFFICES ASSUME NEW n \in 1 .. N
               PROVE  Head(out[n]) = out[n][1] /\ Last(out[n]) = out[n][Len(out[n])]
    OBVIOUS
  <2> DEFINE body == out[n]
  <2>1. body \in Seq(Tokens) /\ Len(body) >= 1
    BY <1>2
  <2> HIDE DEF body, out
  <2>2. Head(body) = body[1] /\ Last(body) = body[Len(body)]
    BY <2>1 DEF Last
  <2>3. QED
    BY <2>2 DEF body
<1>4. \A n \in 1 .. N : First(n) = At(sum, out[n][1]) /\ Last_(n) = LastOf(sum, out[n])
  <2> HIDE DEF out, sum
  <2>1. QED
    BY <1>3, Zenon DEF At, LastOf
<1> DEFINE Fits(n) == /\ Len(out[n]) >= 1 /\ prefix + Len(out[n]) <= config.max
                      /\ At(sum, out[n][1]) \in Int /\ LastOf(sum, out[n]) \in Int
                      /\ LastOf(sum, out[n]) - At(sum, out[n][1]) + 1 = Len(out[n])
           Follows(n) == /\ At(sum, out[n][1]) <= LastOf(sum, out[n - 1]) + 1
                         /\ LastOf(sum, out[n]) > LastOf(sum, out[n - 1])
                         /\ LastOf(sum, out[n - 1]) - At(sum, out[n][1]) < config.overlap
<1> HIDE DEF out, sum, cut
<1>5. /\ \A n \in 1 .. N : Fits(n) /\ (n > 1 => Follows(n))
      /\ end = IF N = 0 THEN 0 ELSE LastOf(sum, out[N])
      /\ N > 0 => At(sum, out[1][1]) = 1
  <2>1. OutSound(config, prefix, sum, out, end)
    BY DEF sum, out, cut
  <2>2. QED
    BY <1>1, <2>1, Zenon DEF OutSound
<1> HIDE DEF First, Last_
<1>6. \A n \in DOMAIN out :
        /\ prefix + Len(out[n]) <= config.max
        /\ Last_(n) - First(n) + 1 = Len(out[n])
        /\ n > 1 => First(n) <= Last_(n - 1) + 1 /\ Last_(n) > Last_(n - 1)
                    /\ Last_(n - 1) - First(n) < config.overlap
  <2> SUFFICES ASSUME NEW n \in 1 .. N
      PROVE  /\ prefix + Len(out[n]) <= config.max
             /\ Last_(n) - First(n) + 1 = Len(out[n])
             /\ n > 1 => First(n) <= Last_(n - 1) + 1 /\ Last_(n) > Last_(n - 1)
                         /\ Last_(n - 1) - First(n) < config.overlap
    BY <1>1
  <2>1. Fits(n) /\ (n > 1 => Follows(n)) /\ First(n) = At(sum, out[n][1]) /\ Last_(n) = LastOf(sum, out[n])
    BY <1>4, <1>5
  <2>2. n > 1 => Last_(n - 1) = LastOf(sum, out[n - 1])
    BY <1>4
  <2> HIDE DEF At, LastOf
  <2>3. QED
    BY <2>1, <2>2
<1>7. sum[Len(units)] = 0 \/ (First(1) = 1 /\ Last_(Len(out)) = sum[Len(units)])
  <2>1. CASE N = 0
    BY <1>5, <2>1 DEF sum
  <2>2. CASE N # 0
    <3>1. 1 \in 1 .. N /\ N \in 1 .. N /\ N > 0
      BY <2>2
    <3>2. First(1) = At(sum, out[1][1]) /\ Last_(N) = LastOf(sum, out[N])
      BY <1>4, <3>1
    <3>3. QED
      BY <1>1, <1>5, <2>2, <3>1, <3>2 DEF sum
  <2>3. QED
    BY <2>1, <2>2
<1>8. QED
  BY <1>6, <1>7, Zenon DEF BodiesSound, First, Last_, out, sum, cut

\* The tokens of each body are those of the units.
LEMMA BodiesCut ==
    ASSUME NEW Tokens, NEW config, CutConfig(config), NEW prefix \in Nat, NEW units, Units(units),
           MaxBody(config, prefix) # 0, (1 .. Len(units)) \X Nat \subseteq Tokens
    PROVE  LET cut == Bodies(config, prefix, units)
               end == TokensUpTo(units)[Len(units)]
           IN  /\ end \in Nat /\ cut.out \in Seq(Seq(Tokens))
               /\ OutSound(config, prefix, TokensUpTo(units), cut.out, end)
<1> DEFINE sum == TokensUpTo(units)
           cut == Bodies(config, prefix, units)
           last == Cutting(config, prefix, units)[Len(units)]
           end == sum[Len(units)]
<1>1. Roomy(config, prefix)
  BY ConfigRoomy, Zenon
<1>2. last \in CutStates(Tokens, config, prefix) /\ CutAt(config, prefix, sum, last, end)
  BY <1>1, CutSound
<1>3. end \in Nat
  <2>1. Len(units) \in Nat /\ (Len(units) = 0 \/ Len(units) \in 1 .. Len(units))
    BY DEF Units
  <2>2. QED
    BY <2>1, Sums
<1> HIDE DEF last, end, sum
<1>4. /\ last.out \in Seq(Seq(Tokens)) /\ last.current \in Seq(Tokens)
      /\ last.new \in BOOLEAN /\ last.failed = FALSE
      /\ Len(last.current) <= TargetBody(config, prefix)
  BY <1>2 DEF CutStates
<1>5. PICK e \in Nat :
        /\ OutSound(config, prefix, sum, last.out, e)
        /\ Seam(config, last.out, e, end - Len(last.current))
        /\ IF last.new THEN e < end ELSE e = end
        /\ Continues(sum, last.current, end - Len(last.current))
  BY <1>2, Zenon DEF CutAt
<1>6. cut.out = IF last.new THEN Append(last.out, last.current) ELSE last.out
  <2> DEFINE kept == IF last.new /\ ~last.failed THEN Append(last.out, last.current) ELSE last.out
  <2>1. Bodies(config, prefix, units) = [out |-> kept, failed |-> last.failed]
    BY Zenon DEF Bodies, last
  <2>2. kept = IF last.new THEN Append(last.out, last.current) ELSE last.out
    BY <1>4, Zenon
  <2> HIDE DEF kept
  <2>3. cut.out = kept
    BY <2>1
  <2>4. QED
    BY <2>2, <2>3
<1> HIDE DEF cut
<1>7. OutSound(config, prefix, sum, cut.out, end) /\ cut.out \in Seq(Seq(Tokens))
  <2>1. CASE ~last.new
    <3>1. cut.out = last.out /\ e = end
      BY <1>5, <1>6, <2>1, Zenon
    <3>2. QED
      BY <1>4, <1>5, <3>1
  <2>2. CASE last.new
    <3> DEFINE start == end - Len(last.current)
    <3>1. cut.out = Append(last.out, last.current) /\ e < end
      BY <1>5, <1>6, <2>2, Zenon
    <3>2. start \in Nat /\ start + Len(last.current) = end
      <4>1. start \in Nat
        BY <1>5 DEF Seam
      <4>2. Len(last.current) \in Nat
        BY <1>4
      <4>3. QED
        BY <1>3, <4>1, <4>2
    <3>3. Len(last.current) <= MaxBody(config, prefix)
      BY <1>1, <1>4 DEF Roomy
    <3>4. Seam(config, last.out, e, start) /\ Continues(sum, last.current, start)
      BY <1>5
    <3> HIDE DEF start
    <3>5. OutSound(config, prefix, sum, Append(last.out, last.current), start + Len(last.current))
      <4>1. e < start + Len(last.current)
        BY <3>1, <3>2
      <4>2. QED
        BY <1>1, <1>4, <1>5, <3>2, <3>3, <3>4, <4>1, Emits, Zenon
    <3>6. Append(last.out, last.current) \in Seq(Seq(Tokens))
      BY <1>4
    <3>7. QED
      BY <3>1, <3>2, <3>5, <3>6
  <2>3. QED
    BY <2>1, <2>2
<1>8. QED
  BY <1>3, <1>7 DEF cut, end, sum

\* However a text is cut, by any valid configuration and under any prefix: every
\* chunk stays within the maximum and brings tokens no chunk before it had, the
\* tokens a chunk repeats are only the last ones of the chunk before it, fewer than
\* the overlap allows, and the first chunk begins and the last one ends with the
\* text, so that no token is lost between two chunks (_chunk_body_tokens).
THEOREM ChunksCoverTheText ==
    ASSUME NEW config, CutConfig(config), NEW prefix \in Nat, NEW units, Units(units)
    PROVE  BodiesSound(config, prefix, units)
<1> DEFINE Tokens == (1 .. Len(units)) \X Nat
           sum == TokensUpTo(units)
           cut == Bodies(config, prefix, units)
<1>1. config.max \in Nat
  BY DEF CutConfig
<1>2. CASE MaxBody(config, prefix) = 0
  <2>1. cut.out = <<>> /\ cut.failed = TRUE
    BY <1>2, CutNothing, Zenon
  <2>2. DOMAIN cut.out = {}
    BY <2>1
  <2> HIDE DEF cut
  <2>3. cut.failed
    BY <2>1, Zenon
  <2>4. QED
    BY <2>2, <2>3, Zenon DEF BodiesSound, cut
<1>3. CASE MaxBody(config, prefix) # 0
  <2>1. (1 .. Len(units)) \X Nat \subseteq Tokens
    OBVIOUS
  <2> DEFINE end == sum[Len(units)]
  <2> HIDE DEF Tokens
  <2>2. /\ end \in Nat /\ cut.out \in Seq(Seq(Tokens))
        /\ OutSound(config, prefix, sum, cut.out, end)
    BY <1>3, <2>1, BodiesCut, Zenon
  <2> HIDE DEF end
  <2>3. QED
    BY <1>1, <2>2, OutIsCut, Zenon DEF end
<1>4. QED
  BY <1>2, <1>3

================================================================================
