---------------------------- MODULE CorpusProofs ----------------------------
(***************************************************************************)
(* The corpus database, the versions of its filings and the search index   *)
(* over it, for every set of manifests; the files of the embedding-chunk   *)
(* build, for every interleaving of its kills, losses and restarts.        *)
(***************************************************************************)
EXTENDS SearchIndex, CorpusSamples, ChunkBuild, DenseArtifacts, AlgorithmProofs,
        FiniteSetTheorems, FunctionTheorems, TLAPS

-----------------------------------------------------------------------------
(* The order of filing                                                      *)

Pairs(members) == {p \in members \X members : Earlier(p[1], p[2])}
Preceding(members, f) == {g \in members : <<g, f>> \in Pairs(members)}
PlaceIn(members, f) == Cardinality(Preceding(members, f))

LEMMA SubsetIdentified ==
    ASSUME NEW filings, Identified(filings), NEW members \in SUBSET filings
    PROVE  Identified(members)
  BY FS_Subset DEF Identified

\* Earlier is a strict total order on identified filings.
LEMMA EarlierOrders ==
    ASSUME NEW members, Identified(members)
    PROVE  /\ \A f \in members : ~Earlier(f, f)
           /\ \A f, g \in members : f = g \/ Earlier(f, g) \/ Earlier(g, f)
           /\ \A f, g, h \in members : Earlier(f, g) /\ Earlier(g, h) => Earlier(f, h)
           /\ \A f, g \in members : Earlier(f, g) => f.filed <= g.filed
  BY DEF Identified, Earlier, NoDate

LEMMA PlaceType ==
    ASSUME NEW members, Identified(members), NEW f \in members
    PROVE  /\ Cardinality(members) \in Nat
           /\ PlaceIn(members, f) \in Nat
           /\ PlaceIn(members, f) < Cardinality(members)
<1>1. IsFiniteSet(members) /\ Preceding(members, f) \in SUBSET members
  BY DEF Identified, Preceding
<1>2. IsFiniteSet(Preceding(members, f))
  BY <1>1, FS_Subset
<1>3. Preceding(members, f) # members
  BY EarlierOrders DEF Preceding, Pairs
<1>4. Cardinality(members) \in Nat /\ Cardinality(Preceding(members, f)) \in Nat
  BY <1>1, <1>2, FS_CardinalityType
<1>5. /\ Cardinality(Preceding(members, f)) <= Cardinality(members)
      /\ Cardinality(Preceding(members, f)) # Cardinality(members)
  BY <1>1, <1>3, FS_Subset
<1>6. QED
  BY <1>4, <1>5 DEF PlaceIn

\* An earlier filing has an earlier place.
LEMMA PlacesGrow ==
    ASSUME NEW members, Identified(members), NEW f \in members, NEW g \in members,
           Earlier(f, g)
    PROVE  PlaceIn(members, f) < PlaceIn(members, g)
<1>1. IsFiniteSet(Preceding(members, g))
  BY FS_Subset DEF Identified, Preceding
<1>2. Preceding(members, f) \in SUBSET Preceding(members, g)
  BY EarlierOrders DEF Preceding, Pairs
<1>3. f \in Preceding(members, g) /\ f \notin Preceding(members, f)
  BY EarlierOrders DEF Preceding, Pairs
<1>4. /\ PlaceIn(members, f) <= PlaceIn(members, g)
      /\ PlaceIn(members, f) # PlaceIn(members, g)
  BY <1>1, <1>2, <1>3, FS_Subset DEF PlaceIn
<1>5. PlaceIn(members, f) \in Nat /\ PlaceIn(members, g) \in Nat
  BY PlaceType
<1>6. QED
  BY <1>4, <1>5

\* Every place is taken, by one filing.
LEMMA PlacesTaken ==
    ASSUME NEW members, Identified(members),
           NEW i \in 1 .. Cardinality(members)
    PROVE  \E f \in members : PlaceIn(members, f) = i - 1
<1> DEFINE n == Cardinality(members)
           places == [f \in members |-> PlaceIn(members, f)]
<1>1. n \in Nat /\ IsFiniteSet(members)
  BY FS_CardinalityType DEF Identified
<1>2. places \in [members -> 0 .. n - 1]
  BY <1>1, PlaceType
<1>3. \A f, g \in members : places[f] = places[g] => f = g
  <2>1. SUFFICES ASSUME NEW f \in members, NEW g \in members, f # g
                 PROVE  PlaceIn(members, f) # PlaceIn(members, g)
    OBVIOUS
  <2>2. PlaceIn(members, f) \in Nat /\ PlaceIn(members, g) \in Nat
    BY PlaceType
  <2>3. Earlier(f, g) \/ Earlier(g, f)
    BY <2>1, EarlierOrders
  <2>4. QED
    BY <2>2, <2>3, PlacesGrow
<1>4. IsFiniteSet(0 .. n - 1)
  BY <1>1, FS_Interval
<1>5. Cardinality(0 .. n - 1) = n
  <2>1. 0 \in Int /\ n - 1 \in Int
    BY <1>1
  <2>2. Cardinality(0 .. n - 1) = IF 0 > n - 1 THEN 0 ELSE (n - 1) - 0 + 1
    BY <2>1, FS_Interval
  <2>3. QED
    BY <1>1, <2>2
<1> HIDE DEF places
<1>6. places \in Injection(members, 0 .. n - 1)
  BY <1>2, <1>3, Fun_IsInj
<1>7. places \in Surjection(members, 0 .. n - 1)
  BY <1>4, <1>5, <1>6, FS_Injection
<1>8. \E f \in members : places[f] = i - 1
  <2>1. i - 1 \in 0 .. n - 1
    BY <1>1
  <2>2. QED
    BY <1>7, <2>1 DEF Surjection
<1>9. QED
  BY <1>8 DEF places

\* InOrder lists the members, each once, the earlier first.
LEMMA InOrderLists ==
    ASSUME NEW members, Identified(members)
    PROVE  LET chain == InOrder(members)
               n == Cardinality(members)
           IN  /\ n \in Nat
               /\ chain \in [1 .. n -> members]
               /\ Len(chain) = n /\ DOMAIN chain = 1 .. n
               /\ \A i \in 1 .. n : PlaceIn(members, chain[i]) = i - 1
               /\ \A f \in members : \E i \in 1 .. n : chain[i] = f
               /\ \A i, j \in 1 .. n : i < j => Earlier(chain[i], chain[j])
<1> DEFINE chain == InOrder(members)
           n == Cardinality(members)
<1>1. n \in Nat
  BY FS_CardinalityType DEF Identified
<1> DEFINE taker(i) == CHOOSE f \in members : PlaceIn(members, f) = i - 1
<1>2. chain = [i \in 1 .. n |-> taker(i)]
  BY DEF InOrder, Ordered, Sorted, PlaceIn, Preceding, Pairs
<1> HIDE DEF chain
<1>3. ASSUME NEW i \in 1 .. n
      PROVE  chain[i] \in members /\ PlaceIn(members, chain[i]) = i - 1
  <2>1. \E f \in members : PlaceIn(members, f) = i - 1
    BY PlacesTaken
  <2>2. taker(i) \in members /\ PlaceIn(members, taker(i)) = i - 1
    BY <2>1
  <2> HIDE DEF taker
  <2>3. QED
    BY <1>2, <2>2
<1> HIDE DEF taker
<1>4. chain \in [1 .. n -> members]
  BY <1>2, <1>3
<1>5. chain \in Seq(members)
  BY <1>1, <1>4
<1>6. Len(chain) = n /\ DOMAIN chain = 1 .. n
  BY <1>1, <1>4, <1>5
<1>7. \A f, g \in members : PlaceIn(members, f) = PlaceIn(members, g) => f = g
  <2>1. SUFFICES ASSUME NEW f \in members, NEW g \in members, f # g
                 PROVE  PlaceIn(members, f) # PlaceIn(members, g)
    OBVIOUS
  <2>2. PlaceIn(members, f) \in Nat /\ PlaceIn(members, g) \in Nat
    BY PlaceType
  <2>3. QED
    BY <2>1, <2>2, EarlierOrders, PlacesGrow
<1>8. \A f \in members : \E i \in 1 .. n : chain[i] = f
  <2>1. TAKE f \in members
  <2>2. PlaceIn(members, f) \in Nat /\ PlaceIn(members, f) < n
    BY PlaceType
  <2>3. PlaceIn(members, f) + 1 \in 1 .. n
    BY <1>1, <2>2
  <2>4. PlaceIn(members, chain[PlaceIn(members, f) + 1]) = PlaceIn(members, f)
    BY <1>3, <2>2, <2>3
  <2>5. QED
    BY <1>3, <1>7, <2>3, <2>4
<1>9. ASSUME NEW i \in 1 .. n, NEW j \in 1 .. n, i < j
      PROVE  Earlier(chain[i], chain[j])
  <2>1. chain[i] # chain[j]
    BY <1>1, <1>3, <1>9
  <2>2. ~Earlier(chain[j], chain[i])
    <3>1. SUFFICES ASSUME Earlier(chain[j], chain[i])
                   PROVE  FALSE
      OBVIOUS
    <3>2. PlaceIn(members, chain[j]) < PlaceIn(members, chain[i])
      BY <1>3, <3>1, PlacesGrow
    <3>3. QED
      BY <1>1, <1>3, <1>9, <3>2
  <2>3. QED
    BY <1>3, <2>1, <2>2, EarlierOrders
<1>10. QED
  BY <1>1, <1>3, <1>4, <1>6, <1>8, <1>9 DEF chain

\* On a date the filings made by then are the first ones of the chain.
LEMMA FiledByThen ==
    ASSUME NEW members, Identified(members), NEW d \in Nat,
           \E f \in members : f.filed <= d
    PROVE  LET chain == InOrder(members)
               n == Cardinality(members)
           IN  \E m \in 1 .. n :
                  /\ chain[m].filed <= d
                  /\ m < n => chain[m + 1].filed > d
<1> DEFINE chain == InOrder(members)
           n == Cardinality(members)
           by == {f \in members : f.filed <= d}
           m == Cardinality(by)
<1>1. /\ n \in Nat
      /\ chain \in [1 .. n -> members]
      /\ \A i \in 1 .. n : PlaceIn(members, chain[i]) = i - 1
  BY InOrderLists
<1>2. IsFiniteSet(members) /\ by \in SUBSET members /\ by # {}
  BY DEF Identified
<1>3. IsFiniteSet(by) /\ m <= n
  BY <1>2, FS_Subset
<1>4. m \in Nat /\ m # 0
  BY <1>2, <1>3, FS_EmptySet, FS_CardinalityType
<1>5. m \in 1 .. n
  BY <1>1, <1>3, <1>4
<1>6. \A f \in members : f.filed \in Nat
  BY DEF Identified
<1> HIDE DEF chain
<1>7. chain[m].filed <= d
  <2>1. SUFFICES ASSUME ~(chain[m].filed <= d)
                 PROVE  FALSE
    OBVIOUS
  <2>2. chain[m] \in members
    BY <1>1, <1>5
  <2>3. \A f \in by : f.filed < chain[m].filed
    BY <1>6, <2>1, <2>2
  <2>4. by \in SUBSET Preceding(members, chain[m])
    BY <2>2, <2>3 DEF Preceding, Pairs, Earlier
  <2>5. IsFiniteSet(Preceding(members, chain[m]))
    BY <1>2, FS_Subset DEF Preceding
  <2>6. m <= PlaceIn(members, chain[m])
    BY <2>4, <2>5, FS_Subset DEF PlaceIn
  <2>7. QED
    BY <1>1, <1>4, <1>5, <2>6
<1>8. ASSUME m < n
      PROVE  chain[m + 1].filed > d
  <2>1. m + 1 \in 1 .. n
    BY <1>1, <1>4, <1>8
  <2>2. chain[m + 1] \in members /\ PlaceIn(members, chain[m + 1]) = m
    BY <1>1, <1>4, <2>1
  <2>3. SUFFICES ASSUME chain[m + 1].filed <= d
                 PROVE  FALSE
    BY <1>6, <2>2
  <2>4. Preceding(members, chain[m + 1]) \in SUBSET by
    <3>1. SUFFICES ASSUME NEW g \in members, Earlier(g, chain[m + 1])
                   PROVE  g.filed <= d
      BY DEF Preceding, Pairs
    <3>2. g.filed <= chain[m + 1].filed
      BY <2>2, <3>1, EarlierOrders
    <3>3. QED
      BY <1>6, <2>2, <2>3, <3>2
  <2>5. Preceding(members, chain[m + 1]) = by
    BY <1>3, <2>2, <2>4, FS_Subset DEF PlaceIn
  <2>6. chain[m + 1] \in by
    BY <2>2, <2>3
  <2>7. ~Earlier(chain[m + 1], chain[m + 1])
    BY <2>2, EarlierOrders
  <2>8. chain[m + 1] \notin Preceding(members, chain[m + 1])
    BY <2>7 DEF Preceding, Pairs
  <2>9. QED
    BY <2>5, <2>6, <2>8
<1>9. QED
  BY <1>5, <1>7, <1>8 DEF chain

-----------------------------------------------------------------------------
(* The versions of one event                                                *)

\* What one chain is to the rest: its versions are of its event and of its
\* members, one each; one is current, at most one is a root, one is in force on
\* each date after the first, the parents are linked and the versions numbered.
ChainSound(versions, members, event) ==
    /\ \A v \in versions : v.event = event /\ \E f \in members : v.filing = f.id
    /\ \A f \in members : \E v \in versions : v.filing = f.id
    /\ \A v, w \in versions : v.filing = w.filing => v = w
    /\ \E v \in versions : v.current
    /\ \A v, w \in versions : v.current /\ w.current => v = w
    /\ \A v, w \in versions : v.status = "root" /\ w.status = "root" => v = w
    /\ \A d \in Nat : (\E v \in versions : v.from <= d) => \E v \in versions : InForce(v, d)
    /\ \A d \in Nat : \A v, w \in versions : InForce(v, d) /\ InForce(w, d) => v = w
    /\ \A v \in versions : v.parent # 0 =>
            \E p \in versions : p.filing = v.parent /\ p.to = v.from
    /\ \A v \in versions : v.status = "resolved" => v.parent # 0
    /\ \A v \in versions : Placed(v, versions)

\* The i-th version of a chain.
Link(members, event, i) ==
    LET chain == InOrder(members)
        missing == event[1] = "periodic" /\ \A f \in members : f.correction
    IN  [filing |-> chain[i].id,
         event |-> event,
         no |-> i,
         parent |-> IF i = 1 THEN 0 ELSE chain[i - 1].id,
         status |-> CASE i = 1 /\ missing -> "missing_original"
                      [] i = 1 /\ ~missing -> "root"
                      [] OTHER -> "resolved",
         from |-> chain[i].filed,
         to |-> IF i < Len(chain) THEN chain[i + 1].filed ELSE NoDate,
         current |-> i = Len(chain)]

IsLink(v, chain, n, event, i) ==
    /\ v.filing = chain[i].id /\ v.event = event /\ v.no = i
    /\ v.parent = IF i = 1 THEN 0 ELSE chain[i - 1].id
    /\ v.status = "root" => i = 1
    /\ v.status = "resolved" => i # 1
    /\ v.from = chain[i].filed
    /\ v.to = IF i < n THEN chain[i + 1].filed ELSE NoDate
    /\ v.current <=> i = n

LEMMA ChainLinks ==
    ASSUME NEW members, Identified(members), NEW event
    PROVE  LET n == Cardinality(members)
           IN  /\ Chain(members, event) = {Link(members, event, i) : i \in 1 .. n}
               /\ \A i \in 1 .. n : IsLink(Link(members, event, i), InOrder(members), n, event, i)
<1> DEFINE n == Cardinality(members)
           chain == InOrder(members)
<1>1. Len(chain) = n /\ DOMAIN chain = 1 .. n
  BY InOrderLists
<1>2. Chain(members, event) = {Link(members, event, i) : i \in DOMAIN chain}
  BY DEF Chain, Link
<1>3. ASSUME NEW i \in 1 .. n
      PROVE  IsLink(Link(members, event, i), chain, n, event, i)
  <2> HIDE DEF chain
  <2>1. QED
    BY <1>1 DEF IsLink, Link, chain
<1>4. QED
  BY <1>1, <1>2, <1>3

LEMMA ChainIsSound ==
    ASSUME NEW members, Identified(members), members # {}, NEW event
    PROVE  ChainSound(Chain(members, event), members, event)
<1> DEFINE n == Cardinality(members)
           chain == InOrder(members)
           link(i) == Link(members, event, i)
           versions == Chain(members, event)
<1>1. /\ n \in Nat
      /\ chain \in [1 .. n -> members]
      /\ \A f \in members : \E i \in 1 .. n : chain[i] = f
      /\ \A i, j \in 1 .. n : i < j => Earlier(chain[i], chain[j])
  BY InOrderLists
<1>2. n # 0
  BY FS_EmptySet DEF Identified
<1>3. versions = {link(i) : i \in 1 .. n}
  BY ChainLinks
<1>4. \A i \in 1 .. n :
        /\ link(i).filing = chain[i].id /\ link(i).event = event /\ link(i).no = i
        /\ link(i).parent = IF i = 1 THEN 0 ELSE chain[i - 1].id
        /\ link(i).status = "root" => i = 1
        /\ link(i).status = "resolved" => i # 1
        /\ link(i).from = chain[i].filed
        /\ link(i).to = IF i < n THEN chain[i + 1].filed ELSE NoDate
        /\ link(i).current <=> i = n
  <2>1. \A i \in 1 .. n : IsLink(link(i), chain, n, event, i)
    BY ChainLinks
  <2> HIDE DEF link, chain, n
  <2>2. QED
    BY <2>1 DEF IsLink
<1>5. /\ \A f \in members : f.id \in Nat \ {0} /\ f.filed \in Nat \ {NoDate}
      /\ \A f, g \in members : f.id = g.id => f = g
  BY DEF Identified
<1>6. \A d \in Nat : (\E f \in members : f.filed <= d) =>
        \E m \in 1 .. n : chain[m].filed <= d /\ (m < n => chain[m + 1].filed > d)
  BY FiledByThen
<1>7. \A f, g \in members : Earlier(f, g) => f.filed <= g.filed /\ f # g
  BY EarlierOrders
<1> HIDE DEF n, chain, link, versions
<1>8. \A i, j \in 1 .. n : chain[i] = chain[j] => i = j
  BY <1>1, <1>7
<1>9. \A d \in Nat, i \in 1 .. n :
        InForce(link(i), d) <=> chain[i].filed <= d /\ (i < n => d < chain[i + 1].filed)
  <2>1. TAKE d \in Nat, i \in 1 .. n
  <2>2. CASE i < n
    <3>1. i + 1 \in 1 .. n
      BY <1>1, <2>2
    <3>2. chain[i + 1].filed # NoDate
      BY <1>1, <1>5, <3>1
    <3>3. QED
      BY <1>4, <2>2, <3>2 DEF InForce
  <2>3. CASE ~(i < n)
    BY <1>4, <2>3 DEF InForce
  <2>4. QED
    BY <2>2, <2>3
<1>10. \A v \in versions : v.event = event /\ \E f \in members : v.filing = f.id
  BY <1>1, <1>3, <1>4
<1>11. \A f \in members : \E v \in versions : v.filing = f.id
  <2>1. TAKE f \in members
  <2>2. PICK i \in 1 .. n : chain[i] = f
    BY <1>1
  <2>3. link(i) \in versions /\ link(i).filing = f.id
    BY <1>3, <1>4, <2>2
  <2>4. QED
    BY <2>3
<1>12. \A v, w \in versions : v.filing = w.filing => v = w
  BY <1>1, <1>3, <1>4, <1>5, <1>8
<1>13. \E v \in versions : v.current
  BY <1>1, <1>2, <1>3, <1>4
<1>14. \A v, w \in versions : v.current /\ w.current => v = w
  BY <1>3, <1>4
<1>15. \A v, w \in versions : v.status = "root" /\ w.status = "root" => v = w
  BY <1>3, <1>4
<1>16. \A d \in Nat : (\E v \in versions : v.from <= d) => \E v \in versions : InForce(v, d)
  <2>1. SUFFICES ASSUME NEW d \in Nat, NEW i \in 1 .. n, link(i).from <= d
                 PROVE  \E v \in versions : InForce(v, d)
    BY <1>3
  <2>2. chain[i] \in members /\ chain[i].filed <= d
    BY <1>1, <1>4, <2>1
  <2>3. PICK m \in 1 .. n : chain[m].filed <= d /\ (m < n => chain[m + 1].filed > d)
    BY <1>6, <2>2
  <2>4. m < n => m + 1 \in 1 .. n /\ chain[m + 1].filed \in Nat
    BY <1>1, <1>5
  <2>5. InForce(link(m), d)
    BY <1>9, <2>3, <2>4
  <2>6. link(m) \in versions
    BY <1>3
  <2>7. QED
    BY <2>5, <2>6
<1>17. \A d \in Nat : \A v, w \in versions : InForce(v, d) /\ InForce(w, d) => v = w
  <2>1. ASSUME NEW d \in Nat, NEW i \in 1 .. n, NEW j \in 1 .. n, i < j,
               InForce(link(i), d), InForce(link(j), d)
        PROVE  FALSE
    <3>1. i + 1 \in 1 .. n /\ i < n
      BY <1>1, <2>1
    <3>2. d < chain[i + 1].filed /\ chain[j].filed <= d
      BY <1>9, <2>1, <3>1
    <3>3. chain[i + 1].filed <= chain[j].filed
      BY <1>1, <1>5, <1>7, <2>1, <3>1
    <3>4. chain[i + 1].filed \in Nat /\ chain[j].filed \in Nat
      BY <1>1, <1>5, <3>1
    <3>5. QED
      BY <3>2, <3>3, <3>4
  <2>2. \A d \in Nat, i, j \in 1 .. n : InForce(link(i), d) /\ InForce(link(j), d) => i = j
    <3>1. TAKE d \in Nat, i \in 1 .. n, j \in 1 .. n
    <3>2. i < j \/ j < i \/ i = j
      BY <1>1
    <3>3. QED
      BY <2>1, <3>2
  <2>3. QED
    BY <1>3, <2>2
<1>18. \A v \in versions : v.parent # 0 =>
         \E p \in versions : p.filing = v.parent /\ p.to = v.from
  <2>1. SUFFICES ASSUME NEW i \in 1 .. n, link(i).parent # 0
                 PROVE  \E j \in 1 .. n : /\ link(j).filing = link(i).parent
                                          /\ link(j).to = link(i).from
    BY <1>3
  <2>2. i - 1 \in 1 .. n /\ i # 1 /\ (i - 1) + 1 = i /\ i - 1 < n
    BY <1>1, <1>4, <2>1
  <2>3. link(i - 1).filing = link(i).parent /\ link(i - 1).to = link(i).from
    BY <1>4, <2>2
  <2>4. QED
    BY <2>2, <2>3
<1>19. \A v \in versions : v.status = "resolved" => v.parent # 0
  <2>1. SUFFICES ASSUME NEW i \in 1 .. n, link(i).status = "resolved"
                 PROVE  link(i).parent # 0
    BY <1>3
  <2>2. i # 1 /\ i - 1 \in 1 .. n
    BY <1>1, <1>4, <2>1
  <2>3. link(i).parent = chain[i - 1].id
    BY <1>4, <2>2
  <2>4. QED
    BY <1>1, <1>5, <2>2, <2>3
<1>20. Cardinality(versions) = n
  <2> DEFINE numbered == [i \in 1 .. n |-> link(i)]
  <2>1. numbered \in Bijection(1 .. n, versions)
    <3>1. numbered \in [1 .. n -> versions]
      BY <1>3
    <3>2. \A i, j \in 1 .. n : numbered[i] = numbered[j] => i = j
      BY <1>4
    <3>3. \A v \in versions : \E i \in 1 .. n : numbered[i] = v
      BY <1>3
    <3> HIDE DEF numbered
    <3>4. QED
      BY <3>1, <3>2, <3>3 DEF Bijection, Injection, Surjection, IsInjective
  <2>2. IsFiniteSet(1 .. n) /\ Cardinality(1 .. n) = n
    BY <1>1, FS_Interval
  <2>3. QED
    BY <2>1, <2>2, FS_Bijection DEF ExistsBijection
<1>21. \A v \in versions : Placed(v, versions)
  <2>1. SUFFICES ASSUME NEW i \in 1 .. n
                 PROVE  Placed(link(i), versions)
    BY <1>3
  <2>2. ASSUME NEW j \in 1 .. n, j < i
        PROVE  link(j).from <= link(i).from
    BY <1>1, <1>4, <1>7, <2>2
  <2>3. ASSUME NEW j \in 1 .. n, j + 1 = i
        PROVE  link(i).parent = link(j).filing
    <3>1. i # 1 /\ i - 1 = j
      BY <1>1, <2>3
    <3>2. QED
      BY <1>4, <3>1
  <2>4. QED
    BY <1>3, <1>4, <1>20, <2>2, <2>3 DEF Placed
<1>22. QED
  BY <1>10, <1>11, <1>12, <1>13, <1>14, <1>15, <1>16, <1>17, <1>18, <1>19, <1>21
     DEF ChainSound, versions

-----------------------------------------------------------------------------
(* build_lineage puts each filing into one chain                            *)

IdsOf(filings) == {f.id : f \in filings}

PeriodicPiece(group) ==
    LET event == <<"periodic", IdsOf(group)>>
    IN  [members |-> group, event |-> event, versions |-> Chain(group, event)]

ExplicitPiece(filings, f) ==
    LET group == ExplicitGroup(filings, f)
        event == <<"original", IdsOf(Originals(filings, f))>>
    IN  [members |-> group, event |-> event, versions |-> Chain(group, event)]

IsolatedPiece(f) ==
    [members |-> {f}, event |-> <<"isolated", f.id>>, versions |-> {IsolatedVersion(f)}]

Pieces(filings) ==
    {PeriodicPiece(group) : group \in PeriodicGroups(filings)}
    \cup {ExplicitPiece(filings, f) : f \in Explicit(filings)}
    \cup {IsolatedPiece(f) : f \in Isolated(filings)}

LEMMA VersionsOfPieces ==
    ASSUME NEW filings
    PROVE  Versions(filings) = UNION {p.versions : p \in Pieces(filings)}
<1> DEFINE periodic == {PeriodicPiece(group) : group \in PeriodicGroups(filings)}
           explicit == {ExplicitPiece(filings, f) : f \in Explicit(filings)}
           isolated == {IsolatedPiece(f) : f \in Isolated(filings)}
           chains == {Chain(group, <<"periodic", {f.id : f \in group}>>) :
                         group \in PeriodicGroups(filings)}
           linked == {Chain(ExplicitGroup(filings, f),
                            <<"original", {g.id : g \in Originals(filings, f)}>>) :
                         f \in Explicit(filings)}
           alone == {IsolatedVersion(f) : f \in Isolated(filings)}
<1>1. Versions(filings) = (UNION chains) \cup (UNION linked) \cup alone
  BY DEF Versions
<1>2. chains = {p.versions : p \in periodic}
  <2>1. \A group : PeriodicPiece(group).versions = Chain(group, <<"periodic", {f.id : f \in group}>>)
    BY DEF PeriodicPiece, IdsOf
  <2>2. QED
    BY <2>1
<1>3. linked = {p.versions : p \in explicit}
  <2>1. \A f : ExplicitPiece(filings, f).versions =
           Chain(ExplicitGroup(filings, f), <<"original", {g.id : g \in Originals(filings, f)}>>)
    BY DEF ExplicitPiece, IdsOf
  <2>2. QED
    BY <2>1
<1>4. alone = UNION {p.versions : p \in isolated}
  <2>1. \A f : IsolatedPiece(f).versions = {IsolatedVersion(f)}
    BY DEF IsolatedPiece
  <2>2. QED
    BY <2>1
<1>5. Pieces(filings) = periodic \cup explicit \cup isolated
  BY DEF Pieces
<1> HIDE DEF periodic, explicit, isolated, chains, linked, alone
<1>6. QED
  BY <1>1, <1>2, <1>3, <1>4, <1>5

LEMMA IsolatedIsSound ==
    ASSUME NEW f, f.filed \in Nat \ {NoDate}
    PROVE  ChainSound({IsolatedVersion(f)}, {f}, <<"isolated", f.id>>)
<1> DEFINE v == IsolatedVersion(f)
<1>1. /\ v.filing = f.id /\ v.event = <<"isolated", f.id>> /\ v.no = 1
      /\ v.parent = 0 /\ v.status # "resolved"
      /\ v.from = f.filed /\ v.to = NoDate /\ v.current
  BY DEF IsolatedVersion
<1> HIDE DEF v
<1>2. Placed(v, {v})
  <2>1. Cardinality({v}) = 1
    BY FS_Singleton
  <2>2. QED
    BY <1>1, <2>1 DEF Placed
<1>3. QED
  BY <1>1, <1>2 DEF ChainSound, InForce, v

\* The corrections of one original declare the same original.
LEMMA SameOriginals ==
    ASSUME NEW filings, Identified(filings), NEW f \in filings, NEW g \in filings,
           f.correction, g.correction, SameName(f, g), f.original = g.original
    PROVE  /\ Originals(filings, f) = Originals(filings, g)
           /\ ExplicitGroup(filings, f) = ExplicitGroup(filings, g)
<1>1. \A h \in filings : ~h.correction => h.id # f.id /\ h.id # g.id
  BY DEF Identified
<1>2. \A h : SameName(f, h) <=> SameName(g, h)
  BY DEF SameName
<1>3. Originals(filings, f) = Originals(filings, g)
  BY <1>1, <1>2 DEF Originals
<1>4. QED
  BY <1>2, <1>3 DEF ExplicitGroup

LEMMA OriginalExists ==
    ASSUME NEW filings, NEW f \in Explicit(filings)
    PROVE  /\ f \in filings /\ f.correction /\ f.group # "periodic" /\ f.original # NoDate
           /\ \E o \in filings : o \in Originals(filings, f)
<1>1. Cardinality(Originals(filings, f)) = 1 /\ Cardinality({}) = 0
  BY FS_EmptySet DEF Explicit
<1>2. Originals(filings, f) # {}
  BY <1>1
<1>3. QED
  BY <1>2 DEF Explicit, Originals

LEMMA PiecesAreSound ==
    ASSUME NEW filings, Identified(filings), NEW p \in Pieces(filings)
    PROVE  /\ p.members \in SUBSET filings /\ p.members # {}
           /\ ChainSound(p.versions, p.members, p.event)
<1>1. ASSUME NEW group \in PeriodicGroups(filings), p = PeriodicPiece(group)
      PROVE  /\ p.members \in SUBSET filings /\ p.members # {}
             /\ ChainSound(p.versions, p.members, p.event)
  <2>1. group \in SUBSET filings /\ group # {}
    BY DEF PeriodicGroups, SameName
  <2>2. ChainSound(Chain(group, <<"periodic", IdsOf(group)>>), group, <<"periodic", IdsOf(group)>>)
    BY <2>1, SubsetIdentified, ChainIsSound
  <2>3. QED
    BY <1>1, <2>1, <2>2 DEF PeriodicPiece
<1>2. ASSUME NEW f \in Explicit(filings), p = ExplicitPiece(filings, f)
      PROVE  /\ p.members \in SUBSET filings /\ p.members # {}
             /\ ChainSound(p.versions, p.members, p.event)
  <2> DEFINE group == ExplicitGroup(filings, f)
             event == <<"original", IdsOf(Originals(filings, f))>>
  <2>1. group \in SUBSET filings /\ group # {}
    BY OriginalExists DEF ExplicitGroup, Originals
  <2>2. ChainSound(Chain(group, event), group, event)
    BY <2>1, SubsetIdentified, ChainIsSound
  <2>3. QED
    BY <1>2, <2>1, <2>2 DEF ExplicitPiece
<1>3. ASSUME NEW f \in Isolated(filings), p = IsolatedPiece(f)
      PROVE  /\ p.members \in SUBSET filings /\ p.members # {}
             /\ ChainSound(p.versions, p.members, p.event)
  <2>1. f \in filings /\ f.filed \in Nat \ {NoDate}
    BY DEF Isolated, Identified
  <2>2. QED
    BY <1>3, <2>1, IsolatedIsSound DEF IsolatedPiece
<1>4. QED
  BY <1>1, <1>2, <1>3 DEF Pieces

LEMMA EveryFilingInAPiece ==
    ASSUME NEW filings, NEW f \in filings
    PROVE  \E p \in Pieces(filings) : f \in p.members
<1>1. CASE f.group = "periodic"
  <2> DEFINE group == {g \in {h \in filings : h.group = "periodic"} : SameName(f, g)}
  <2>1. group \in PeriodicGroups(filings) /\ f \in group
    BY <1>1 DEF PeriodicGroups, SameName
  <2> HIDE DEF group
  <2>2. PeriodicPiece(group) \in Pieces(filings) /\ f \in PeriodicPiece(group).members
    BY <2>1 DEF Pieces, PeriodicPiece
  <2>3. QED
    BY <2>2
<1>2. ASSUME f.group # "periodic", NEW g \in Explicit(filings), f \in ExplicitGroup(filings, g)
      PROVE  \E p \in Pieces(filings) : f \in p.members
  <2>1. ExplicitPiece(filings, g) \in Pieces(filings) /\ f \in ExplicitPiece(filings, g).members
    BY <1>2 DEF Pieces, ExplicitPiece
  <2>2. QED
    BY <2>1
<1>3. CASE f \in Isolated(filings)
  <2>1. IsolatedPiece(f) \in Pieces(filings) /\ f \in IsolatedPiece(f).members
    BY <1>3 DEF Pieces, IsolatedPiece
  <2>2. QED
    BY <2>1
<1>4. QED
  BY <1>1, <1>2, <1>3 DEF Isolated

LEMMA ExplicitPiecesMeet ==
    ASSUME NEW filings, Identified(filings),
           NEW f \in Explicit(filings), NEW g \in Explicit(filings),
           NEW x \in ExplicitGroup(filings, f), x \in ExplicitGroup(filings, g)
    PROVE  ExplicitPiece(filings, f) = ExplicitPiece(filings, g)
<1>1. /\ f \in filings /\ f.correction /\ f.original # NoDate
      /\ g \in filings /\ g.correction /\ g.original # NoDate
  BY OriginalExists
<1>2. SameName(f, g) /\ f.original = g.original
  BY <1>1 DEF ExplicitGroup, Originals, SameName
<1>3. /\ Originals(filings, f) = Originals(filings, g)
      /\ ExplicitGroup(filings, f) = ExplicitGroup(filings, g)
  BY <1>1, <1>2, SameOriginals
<1>4. QED
  BY <1>3 DEF ExplicitPiece

\* No filing is put into two chains.
LEMMA PiecesDisjoint ==
    ASSUME NEW filings, Identified(filings),
           NEW p \in Pieces(filings), NEW q \in Pieces(filings),
           NEW x \in p.members, x \in q.members
    PROVE  p = q
<1>1. ASSUME NEW group \in PeriodicGroups(filings), NEW r, r = PeriodicPiece(group), x \in r.members
      PROVE  x.group = "periodic" /\ group = {g \in {h \in filings : h.group = "periodic"} : SameName(x, g)}
  BY <1>1 DEF PeriodicPiece, PeriodicGroups, SameName
<1>2. ASSUME NEW f \in Explicit(filings), NEW r, r = ExplicitPiece(filings, f), x \in r.members
      PROVE  x.group # "periodic" /\ x \in ExplicitGroup(filings, f)
  BY <1>2, OriginalExists DEF ExplicitPiece, ExplicitGroup, Originals, SameName
<1>3. ASSUME NEW f \in Isolated(filings), NEW r, r = IsolatedPiece(f), x \in r.members
      PROVE  /\ x.group # "periodic" /\ x = f
             /\ \A g \in Explicit(filings) : x \notin ExplicitGroup(filings, g)
  BY <1>3 DEF IsolatedPiece, Isolated
<1>4. CASE p \in {PeriodicPiece(group) : group \in PeriodicGroups(filings)}
  BY <1>1, <1>2, <1>3, <1>4 DEF Pieces
<1>5. ASSUME NEW f \in Explicit(filings), p = ExplicitPiece(filings, f)
      PROVE  p = q
  <2>1. PICK g \in Explicit(filings) : q = ExplicitPiece(filings, g)
    BY <1>1, <1>2, <1>3, <1>5 DEF Pieces
  <2>2. QED
    BY <1>2, <1>5, <2>1, ExplicitPiecesMeet
<1>6. CASE p \in {IsolatedPiece(f) : f \in Isolated(filings)}
  BY <1>1, <1>2, <1>3, <1>6 DEF Pieces
<1>7. QED
  BY <1>4, <1>5, <1>6 DEF Pieces

\* No two chains are of one event.
LEMMA PiecesDiffer ==
    ASSUME NEW filings, Identified(filings),
           NEW p \in Pieces(filings), NEW q \in Pieces(filings), p.event = q.event
    PROVE  p = q
<1>1. \A f, g \in filings : f.id = g.id => f = g
  BY DEF Identified
<1>2. SUFFICES \E x : x \in p.members /\ x \in q.members
  BY PiecesDisjoint
<1>3. ASSUME NEW group \in PeriodicGroups(filings), NEW r, r = PeriodicPiece(group)
      PROVE  /\ r.event = <<"periodic", IdsOf(group)>> /\ r.members = group
             /\ group \in SUBSET filings /\ group # {}
  BY <1>3 DEF PeriodicPiece, PeriodicGroups, SameName
<1>4. ASSUME NEW f \in Explicit(filings), NEW r, r = ExplicitPiece(filings, f)
      PROVE  /\ r.event = <<"original", IdsOf(Originals(filings, f))>>
             /\ Originals(filings, f) \in SUBSET r.members
             /\ Originals(filings, f) \in SUBSET filings /\ Originals(filings, f) # {}
  BY <1>4, OriginalExists DEF ExplicitPiece, ExplicitGroup, Originals
<1>5. ASSUME NEW f \in Isolated(filings), NEW r, r = IsolatedPiece(f)
      PROVE  r.event = <<"isolated", f.id>> /\ r.members = {f} /\ f \in filings
  BY <1>5 DEF IsolatedPiece, Isolated
<1>6. ASSUME NEW s \in SUBSET filings, NEW t \in SUBSET filings, s # {}, IdsOf(s) = IdsOf(t)
      PROVE  \E x : x \in s /\ x \in t
  BY <1>1, <1>6 DEF IdsOf
<1>7. ASSUME NEW group \in PeriodicGroups(filings), p = PeriodicPiece(group)
      PROVE  \E x : x \in p.members /\ x \in q.members
  <2>1. p.event[1] = "periodic"
    BY <1>3, <1>7
  <2>2. PICK other \in PeriodicGroups(filings) : q = PeriodicPiece(other)
    BY <1>4, <1>5, <2>1 DEF Pieces
  <2>3. IdsOf(group) = IdsOf(other)
    BY <1>3, <1>7, <2>2
  <2>4. QED
    BY <1>3, <1>6, <1>7, <2>2, <2>3
<1>8. ASSUME NEW f \in Explicit(filings), p = ExplicitPiece(filings, f)
      PROVE  \E x : x \in p.members /\ x \in q.members
  <2>1. p.event[1] = "original"
    BY <1>4, <1>8
  <2>2. PICK g \in Explicit(filings) : q = ExplicitPiece(filings, g)
    BY <1>3, <1>5, <2>1 DEF Pieces
  <2>3. IdsOf(Originals(filings, f)) = IdsOf(Originals(filings, g))
    BY <1>4, <1>8, <2>2
  <2>4. QED
    BY <1>4, <1>6, <1>8, <2>2, <2>3
<1>9. ASSUME NEW f \in Isolated(filings), p = IsolatedPiece(f)
      PROVE  \E x : x \in p.members /\ x \in q.members
  <2>1. p.event[1] = "isolated"
    BY <1>5, <1>9
  <2>2. PICK g \in Isolated(filings) : q = IsolatedPiece(g)
    BY <1>3, <1>4, <2>1 DEF Pieces
  <2>3. f.id = g.id
    BY <1>5, <1>9, <2>2
  <2>4. QED
    BY <1>1, <1>5, <1>9, <2>2, <2>3
<1>10. QED
  BY <1>7, <1>8, <1>9 DEF Pieces

\* The versions of one event are one chain, and each filing has a version there.
LEMMA EventIsOneChain ==
    ASSUME NEW filings, Identified(filings)
    PROVE  /\ \A f \in filings :
                \E v \in Versions(filings) :
                    v.filing = f.id /\ \A w \in Versions(filings) : w.filing = f.id => w = v
           /\ \A v \in Versions(filings) : \E f \in filings : f.id = v.filing
           /\ \A e \in Events(Versions(filings)) :
                \E members \in SUBSET filings : ChainSound(OfEvent(Versions(filings), e), members, e)
<1> DEFINE versions == Versions(filings)
<1>1. versions = UNION {p.versions : p \in Pieces(filings)}
  BY VersionsOfPieces
<1> HIDE DEF versions
<1>2. \A p \in Pieces(filings) :
        /\ p.members \in SUBSET filings
        /\ ChainSound(p.versions, p.members, p.event)
  BY PiecesAreSound
<1>3. \A f, g \in filings : f.id = g.id => f = g
  BY DEF Identified
<1>4. \A v \in versions : \E p \in Pieces(filings) :
        v \in p.versions /\ v.event = p.event /\ \E f \in p.members : v.filing = f.id
  BY <1>1, <1>2 DEF ChainSound
<1>5. \A v \in versions : \E f \in filings : f.id = v.filing
  BY <1>2, <1>4
<1>6. ASSUME NEW f \in filings
      PROVE  \E v \in versions : v.filing = f.id /\ \A w \in versions : w.filing = f.id => w = v
  <2>1. PICK p \in Pieces(filings) : f \in p.members
    BY EveryFilingInAPiece
  <2>2. PICK v \in p.versions : v.filing = f.id
    BY <1>2, <2>1 DEF ChainSound
  <2>3. ASSUME NEW w \in versions, w.filing = f.id
        PROVE  w = v
    <3>1. PICK q \in Pieces(filings) : w \in q.versions /\ \E g \in q.members : w.filing = g.id
      BY <1>4
    <3>2. f \in q.members
      BY <1>2, <1>3, <2>3, <3>1
    <3>3. q = p
      BY <2>1, <3>2, PiecesDisjoint
    <3>4. QED
      BY <1>2, <2>2, <2>3, <3>1, <3>3 DEF ChainSound
  <2>4. v \in versions
    BY <1>1, <2>2
  <2>5. QED
    BY <2>2, <2>3, <2>4
<1>7. ASSUME NEW e \in Events(versions)
      PROVE  \E members \in SUBSET filings : ChainSound(OfEvent(versions, e), members, e)
  <2>1. PICK v \in versions : v.event = e
    BY DEF Events
  <2>2. PICK p \in Pieces(filings) : v \in p.versions /\ p.event = e
    BY <1>4, <2>1
  <2>3. OfEvent(versions, e) = p.versions
    <3>1. ASSUME NEW w \in versions, w.event = e
          PROVE  w \in p.versions
      <4>1. PICK q \in Pieces(filings) : w \in q.versions /\ q.event = e
        BY <1>4, <3>1
      <4>2. q = p
        BY <2>2, <4>1, PiecesDiffer
      <4>3. QED
        BY <4>1, <4>2
    <3>2. \A w \in p.versions : w \in versions /\ w.event = e
      BY <1>1, <1>2, <2>2 DEF ChainSound
    <3>3. QED
      BY <3>1, <3>2 DEF OfEvent
  <2>4. QED
    BY <1>2, <2>2, <2>3
<1>8. QED
  BY <1>5, <1>6, <1>7 DEF versions

\* build_lineage, of any identified filings: what LineageSound says of samples,
\* on every date.
THEOREM VersionsAreSound ==
    ASSUME NEW filings, Identified(filings), NEW dates \in SUBSET Nat
    PROVE  LineageSound(filings, Versions(filings), dates)
<1> DEFINE versions == Versions(filings)
<1>1. /\ \A f \in filings : \E v \in versions :
            v.filing = f.id /\ \A w \in versions : w.filing = f.id => w = v
      /\ \A e \in Events(versions) :
            \E members \in SUBSET filings : ChainSound(OfEvent(versions, e), members, e)
  BY EventIsOneChain
<1> HIDE DEF versions
<1>2. \A x : Cardinality({x}) = 1
  BY FS_Singleton
<1>3. ASSUME NEW f \in filings
      PROVE  Cardinality({v \in versions : v.filing = f.id}) = 1
  <2>1. PICK v \in versions :
            v.filing = f.id /\ \A w \in versions : w.filing = f.id => w = v
    BY <1>1
  <2>2. {w \in versions : w.filing = f.id} = {v}
    BY <2>1
  <2>3. QED
    BY <1>2, <2>2
<1>4. ASSUME NEW e \in Events(versions)
      PROVE  LET chain == OfEvent(versions, e)
             IN  /\ Cardinality({v \in chain : v.current}) = 1
                 /\ \A d \in dates :
                     (\E v \in chain : v.from <= d)
                         => Cardinality({v \in chain : InForce(v, d)}) = 1
                 /\ \A v \in chain : v.parent # 0 =>
                     \E p \in chain : p.filing = v.parent /\ p.to = v.from
  <2> DEFINE chain == OfEvent(versions, e)
  <2>1. PICK members \in SUBSET filings : ChainSound(chain, members, e)
    BY <1>1, <1>4
  <2> HIDE DEF chain
  <2>2. Cardinality({v \in chain : v.current}) = 1
    <3>1. PICK v \in chain : v.current
      BY <2>1 DEF ChainSound
    <3>2. {w \in chain : w.current} = {v}
      BY <2>1, <3>1 DEF ChainSound
    <3>3. QED
      BY <1>2, <3>2
  <2>3. ASSUME NEW d \in dates, \E v \in chain : v.from <= d
        PROVE  Cardinality({v \in chain : InForce(v, d)}) = 1
    <3>1. PICK v \in chain : InForce(v, d)
      BY <2>1, <2>3 DEF ChainSound
    <3>2. {w \in chain : InForce(w, d)} = {v}
      BY <2>1, <3>1 DEF ChainSound
    <3>3. QED
      BY <1>2, <3>2
  <2>4. \A v \in chain : v.parent # 0 =>
            \E p \in chain : p.filing = v.parent /\ p.to = v.from
    BY <2>1 DEF ChainSound
  <2>5. QED
    BY <2>2, <2>3, <2>4 DEF chain
<1>5. ASSUME NEW v \in versions, v.status = "resolved"
      PROVE  \E p \in versions : p.filing = v.parent /\ p.event = v.event
  <2>1. v.event \in Events(versions) /\ v \in OfEvent(versions, v.event)
    BY DEF Events, OfEvent
  <2>2. PICK members \in SUBSET filings : ChainSound(OfEvent(versions, v.event), members, v.event)
    BY <1>1, <2>1
  <2>3. \E p \in OfEvent(versions, v.event) : p.filing = v.parent
    BY <1>5, <2>1, <2>2 DEF ChainSound
  <2>4. QED
    BY <2>3 DEF OfEvent
<1>6. Numbered(versions)
  <2>1. ASSUME NEW v \in versions
        PROVE  Placed(v, OfEvent(versions, v.event))
    <3>1. v.event \in Events(versions) /\ v \in OfEvent(versions, v.event)
      BY DEF Events, OfEvent
    <3>2. QED
      BY <1>1, <3>1 DEF ChainSound
  <2>2. QED
    BY <2>1 DEF Numbered
<1>7. QED
  BY <1>3, <1>4, <1>5, <1>6 DEF LineageSound, versions

-----------------------------------------------------------------------------
(* build_database                                                           *)

DatabaseShape(db) ==
    db = [digest |-> db.digest, filings |-> db.filings, sources |-> db.sources,
          versions |-> db.versions, issues |-> db.issues, done |-> db.done]

\* What an analysed database holds, whatever its manifest.
Finished(db) ==
    /\ db.digest \in Nat \ {0} /\ DatabaseShape(db)
    /\ db.done
    /\ Identified(db.filings)
    /\ db.versions = Versions(db.filings)
    /\ \A s \in db.sources : \E f \in db.filings : f.id = s.filing

\* What is loaded and what is to be loaded come from one manifest.
LoadInv ==
    pc = "load" =>
        /\ temp.digest \in Nat \ {0} /\ DatabaseShape(temp)
        /\ \E corpus \in Corpora : temp.filings \in SUBSET corpus /\ rest \in SUBSET corpus
        /\ \A s \in temp.sources : \E f \in temp.filings : f.id = s.filing

\* A database under a name is finished, and so is the one to be promoted; the
\* served one is there until it is renamed.
PromotionInv ==
    /\ pc \in {"drop", "retire", "promote"} => Finished(temp)
    /\ pc \in {"drop", "retire", "size"} => Exists(served)
    /\ Exists(served) => Finished(served)
    /\ Exists(previous) => Finished(previous)

BuildInv ==
    /\ builds \in Nat
    /\ LoadInv
    /\ PromotionInv

LEMMA FinishedExists ==
    ASSUME NEW db, Finished(db)
    PROVE  Exists(db)
  BY DEF Finished, Exists, NoFile

\* Recording its size changes the digest of a database and nothing else.
LEMMA SizeRecorded ==
    ASSUME Finished(served), RecordSize
    PROVE  Finished(served') /\ served'.digest = served.digest + 1
<1>1. DatabaseShape(served) /\ served' = [served EXCEPT !.digest = @ + 1]
  BY DEF Finished, RecordSize
<1>2. /\ DatabaseShape(served') /\ served'.digest = served.digest + 1
      /\ served'.filings = served.filings /\ served'.sources = served.sources
      /\ served'.versions = served.versions /\ served'.done = served.done
  BY <1>1 DEF DatabaseShape
<1>3. QED
  BY <1>2 DEF Finished

\* The build and the migration of a copy leave each other's files alone.
LEMMA MigrationLeavesBuild == MigrationNext => UNCHANGED buildVars
  BY DEF MigrationNext, CopyDatabase, Script, RebuildLineage, RebuildFts,
         RefreshIssues, RecordMigration, Interrupted, Unmigrated

LEMMA BuildLeavesMigration == BuildNext => UNCHANGED migrationVars
<1>1. (\E corpus \in Corpora : Begin(corpus)) => UNCHANGED migrationVars
  BY DEF Begin, Unbuilt
<1>2. LoadFiling => UNCHANGED migrationVars
  BY Zenon DEF LoadFiling, Unbuilt
<1>3. CheckFiles \/ Analyse => UNCHANGED migrationVars
  BY DEF CheckFiles, Analyse, Unbuilt
<1>4. DropBackup \/ Retire \/ Promote \/ RecordSize \/ KillBuild => UNCHANGED migrationVars
  BY DEF DropBackup, Retire, Promote, RecordSize, KillBuild, Unbuilt
<1>5. QED
  BY <1>1, <1>2, <1>3, <1>4 DEF BuildNext

LEMMA BuildInvInit == Init => BuildInv
  BY DEF Init, BuildInv, LoadInv, PromotionInv, Exists

\* The build itself: which step may disturb which part.
LEMMA BuildInvStep ==
    ASSUME BuildInv, [Next]_databaseVars
    PROVE  BuildInv'
<1>1. ASSUME NEW corpus \in Corpora, Begin(corpus)
      PROVE  BuildInv'
  <2>1. LoadInv'
    BY <1>1 DEF BuildInv, Begin, LoadInv, DatabaseShape
  <2>2. QED
    BY <1>1, <2>1 DEF BuildInv, Begin, PromotionInv
<1>2. CASE LoadFiling
  <2>1. PICK filing \in rest :
            /\ temp' = [temp EXCEPT !.filings = @ \cup {filing},
                            !.sources = @ \cup {SourceRow(filing, f) : f \in filing.files}]
            /\ rest' = rest \ {filing}
    BY <1>2, Zenon DEF LoadFiling
  <2>2. pc = "load" /\ pc' = pc /\ DatabaseShape(temp)
    BY <1>2 DEF LoadFiling, BuildInv, LoadInv
  <2>3. /\ temp'.digest = temp.digest /\ DatabaseShape(temp')
        /\ temp'.filings = temp.filings \cup {filing}
        /\ temp'.sources = temp.sources \cup {SourceRow(filing, f) : f \in filing.files}
    BY <2>1, <2>2 DEF DatabaseShape
  <2>4. \A f : SourceRow(filing, f).filing = filing.id
    BY DEF SourceRow
  <2>5. LoadInv'
    BY <2>1, <2>2, <2>3, <2>4 DEF BuildInv, LoadInv
  <2>6. QED
    BY <1>2, <2>5 DEF BuildInv, LoadFiling, PromotionInv
<1>3. CASE CheckFiles
  BY <1>3 DEF BuildInv, CheckFiles, LoadInv, PromotionInv
<1>4. CASE Analyse
  <2> DEFINE linked == [temp EXCEPT !.versions = Versions(temp.filings)]
  <2>1. /\ DatabaseShape(temp) /\ temp.digest \in Nat \ {0}
        /\ \A s \in temp.sources : \E f \in temp.filings : f.id = s.filing
        /\ \E corpus \in Corpora : temp.filings \in SUBSET corpus
    BY <1>4 DEF Analyse, BuildInv, LoadInv
  <2>2. Identified(temp.filings)
    BY <2>1, CorporaAssumption, SubsetIdentified
  <2>3. temp' = [linked EXCEPT !.issues = QualityIssues(linked, Cardinality(linked.filings)),
                               !.done = TRUE]
    BY <1>4 DEF Analyse
  <2>4. /\ temp'.digest = temp.digest /\ temp'.filings = temp.filings
        /\ temp'.sources = temp.sources /\ temp'.versions = Versions(temp.filings) /\ temp'.done
        /\ DatabaseShape(temp')
    BY <2>1, <2>3 DEF DatabaseShape
  <2>5. Finished(temp')
    BY <2>1, <2>2, <2>4 DEF Finished
  <2>6. QED
    BY <1>4, <2>5 DEF BuildInv, Analyse, LoadInv, PromotionInv
<1>5. CASE DropBackup
  BY <1>5 DEF BuildInv, DropBackup, LoadInv, PromotionInv, Exists
<1>6. CASE Retire
  BY <1>6 DEF BuildInv, Retire, LoadInv, PromotionInv, Exists
<1>7. CASE Promote
  <2>1. Finished(temp)
    BY <1>7 DEF BuildInv, Promote, PromotionInv
  <2>2. QED
    BY <1>7, <2>1, FinishedExists DEF BuildInv, Promote, LoadInv, PromotionInv
<1>size. CASE RecordSize
  <2>1. pc = "size" /\ pc' = "down" /\ Finished(served) /\ UNCHANGED <<previous, temp, rest, builds>>
    BY <1>size DEF RecordSize, BuildInv, PromotionInv
  <2>2. Finished(served')
    BY <1>size, <2>1, SizeRecorded
  <2>3. QED
    BY <2>1, <2>2 DEF BuildInv, LoadInv, PromotionInv
<1>8. CASE KillBuild
  BY <1>8 DEF BuildInv, KillBuild, LoadInv, PromotionInv
<1>9. CASE UNCHANGED buildVars
  BY <1>9 DEF buildVars, BuildInv, LoadInv, PromotionInv
<1>10. QED
  BY <1>1, <1>2, <1>3, <1>4, <1>5, <1>6, <1>7, <1>8, <1>9, <1>size, MigrationLeavesBuild
     DEF Next, BuildNext, databaseVars

\* Whatever was killed, what is served is a finished build, each of whose filings
\* has one version, and of each event one version is in force on each date.
THEOREM ServedCorpusSound == Spec => []ServedLineageSound
<1>1. Init => BuildInv
  BY BuildInvInit
<1>2. BuildInv /\ [Next]_databaseVars => BuildInv'
  BY BuildInvStep
<1>3. BuildInv => ServedLineageSound
  <2>1. SUFFICES ASSUME BuildInv, Exists(served)
                 PROVE  /\ served.done
                        /\ LineageSound(served.filings, served.versions,
                                        {f.filed : f \in served.filings})
    BY DEF ServedLineageSound
  <2>2. Finished(served)
    BY <2>1 DEF BuildInv, PromotionInv
  <2>3. {f.filed : f \in served.filings} \in SUBSET Nat
    BY <2>2 DEF Finished, Identified
  <2>4. LineageSound(served.filings, Versions(served.filings), {f.filed : f \in served.filings})
    BY <2>2, <2>3, VersionsAreSound DEF Finished
  <2>5. QED
    BY <2>2, <2>4 DEF Finished
<1>4. QED
  BY <1>1, <1>2, <1>3, PTL DEF Spec

\* The three steps of a promotion, and a kill between any two of them, never
\* leave both names without a database when there was one.
THEOREM DatabaseNeverLost == Spec => NeverLost
<1>1. Init => BuildInv
  BY BuildInvInit
<1>2. BuildInv /\ [Next]_databaseVars => BuildInv'
  BY BuildInvStep
<1>3. BuildInv /\ [Next]_databaseVars =>
        [Exists(served) \/ Exists(previous) => Exists(served') \/ Exists(previous')]_databaseVars
  <2> SUFFICES ASSUME BuildInv, Next, Exists(served) \/ Exists(previous)
               PROVE  Exists(served') \/ Exists(previous')
    OBVIOUS
  <2>1. CASE DropBackup
    BY <2>1 DEF DropBackup, BuildInv, PromotionInv
  <2>2. CASE Retire
    BY <2>2 DEF Retire, BuildInv, PromotionInv
  <2>3. CASE Promote
    <3>1. Finished(temp) /\ served' = temp
      BY <2>3 DEF Promote, BuildInv, PromotionInv
    <3>2. QED
      BY <3>1, FinishedExists
  <2>size. CASE RecordSize
    <3>1. Finished(served)
      BY <2>size DEF RecordSize, BuildInv, PromotionInv
    <3>2. QED
      BY <2>size, <3>1, SizeRecorded, FinishedExists
  <2>4. (\E corpus \in Corpora : Begin(corpus)) \/ LoadFiling => UNCHANGED <<served, previous>>
    BY Zenon DEF Begin, LoadFiling
  <2>5. CheckFiles \/ Analyse \/ KillBuild => UNCHANGED <<served, previous>>
    BY DEF CheckFiles, Analyse, KillBuild
  <2>6. MigrationNext => UNCHANGED <<served, previous>>
    BY MigrationLeavesBuild DEF buildVars
  <2>7. QED
    BY <2>1, <2>2, <2>3, <2>4, <2>5, <2>6, <2>size DEF Next, BuildNext
<1>4. QED
  BY <1>1, <1>2, <1>3, PTL DEF Spec, NeverLost

-----------------------------------------------------------------------------
(* apply_semantic_migration                                                 *)

CopyShape(db) ==
    db = [versions |-> db.versions, filings |-> db.filings, sources |-> db.sources,
          script |-> db.script, fts |-> db.fts, refreshed |-> db.refreshed,
          recorded |-> db.recorded]

Unfinished == {"script", "lineage", "fts", "refresh", "record"}

Whole(db) ==
    /\ db.script /\ db.fts
    /\ db.versions = Versions(db.filings)
    /\ db.refreshed = LineageIssues(db.versions)

\* What the steps since the last start have written is in the open transaction;
\* none of it is recorded as done before all of it is.
MigrationInv ==
    /\ step \in Unfinished \cup {"none", "done"}
    /\ step # "none" => CopyShape(copy) /\ CopyShape(pending)
    /\ step \in Unfinished => ~copy.recorded /\ ~pending.recorded
    /\ step \in Unfinished \ {"script"} => pending.script
    /\ step \in {"fts", "refresh", "record"} => pending.versions = Versions(pending.filings)
    /\ step \in {"refresh", "record"} => pending.fts
    /\ step = "record" => pending.refreshed = LineageIssues(pending.versions)
    /\ step = "done" => Whole(copy)

\* A copy that says it was migrated is migrated whole, although the lineage is
\* committed half-way and any step may be interrupted and run again.
THEOREM MigrationRecordedWhole == Spec => []MigrationWhole
<1>1. Init => MigrationInv
  BY DEF Init, MigrationInv, Unfinished
<1>2. MigrationInv /\ [Next]_databaseVars => MigrationInv'
  <2> SUFFICES ASSUME MigrationInv, [Next]_databaseVars
               PROVE  MigrationInv'
    OBVIOUS
  <2>1. CASE CopyDatabase
    BY <2>1 DEF CopyDatabase, MigrationInv, CopyShape, Unfinished
  <2>2. CASE Script
    BY <2>2 DEF Script, MigrationInv, CopyShape, Unfinished
  <2>3. CASE RebuildLineage
    BY <2>3 DEF RebuildLineage, MigrationInv, CopyShape, Unfinished
  <2>4. CASE RebuildFts
    BY <2>4 DEF RebuildFts, MigrationInv, CopyShape, Unfinished
  <2>5. CASE RefreshIssues
    BY <2>5 DEF RefreshIssues, MigrationInv, CopyShape, Unfinished
  <2>6. CASE RecordMigration
    BY <2>6 DEF RecordMigration, MigrationInv, CopyShape, Unfinished, Whole
  <2>7. CASE Interrupted
    BY <2>7 DEF Interrupted, MigrationInv, Unfinished
  <2>8. CASE UNCHANGED migrationVars
    BY <2>8 DEF migrationVars, MigrationInv
  <2>9. QED
    BY <2>1, <2>2, <2>3, <2>4, <2>5, <2>6, <2>7, <2>8, BuildLeavesMigration
       DEF Next, MigrationNext, databaseVars
<1>3. MigrationInv => MigrationWhole
  BY DEF MigrationInv, MigrationWhole, Whole
<1>4. QED
  BY <1>1, <1>2, <1>3, PTL DEF Spec

-----------------------------------------------------------------------------
(* build_search_index beside build_database                                 *)

IndexShape(i) == i = [base |-> i.base, rows |-> i.rows, trigrams |-> i.trigrams]

Building == {"load", "drop", "retire", "promote"}

\* The digest of a database is met under one name only, and those of a running
\* build, before and after its size is recorded, are new: neither an index nor the
\* running build of one is of them.
DigestInv ==
    /\ served.digest \in Nat /\ served.digest <= 2 * builds
    /\ previous.digest \in Nat /\ previous.digest <= 2 * builds
    /\ made.base \in Nat /\ made.base <= 2 * builds
    /\ index.base \in Nat /\ index.base <= 2 * builds
    /\ pc \in Building =>
        /\ temp.digest = 2 * builds - 1
        /\ served.digest < temp.digest /\ previous.digest < temp.digest
        /\ made.base < temp.digest /\ index.base < temp.digest
    /\ pc = "size" =>
        /\ served.digest = 2 * builds - 1 /\ previous.digest < served.digest
        /\ made.base <= served.digest /\ index.base <= served.digest
    /\ served.digest = previous.digest => served.digest = 0

\* An index whose base is still the served one when it is verified was projected
\* from it: a database that took the name meanwhile does not get the old digest.
ProjectInv ==
    /\ job \in {"down", "project", "verify"}
    /\ IndexShape(made)
    /\ job # "down" => made.base # 0
    /\ (job = "verify" /\ served.digest = made.base) => made.rows = Projection(served)

\* The rows are of the versions of some identified filings.
RowsOf(rows, filings) ==
    \A r \in rows :
        /\ \E f \in filings : f.id = r.filing /\ f.filed = r.filed
        /\ r.version \in Versions(filings) /\ r.version.filing = r.filing

RowsAttributed(rows) == \E filings : Identified(filings) /\ RowsOf(rows, filings)

RowsInv == RowsAttributed(made.rows) /\ RowsAttributed(index.rows)

IndexedInv ==
    /\ BuildInv
    /\ DigestInv
    /\ ProjectInv
    /\ RowsInv
    /\ IndexOfBase

\* What a finished database projects.
LEMMA ProjectionAttributed ==
    ASSUME NEW db, Finished(db)
    PROVE  RowsAttributed(Projection(db))
<1> DEFINE filings == db.filings
           safe == {x \in db.sources :
                      /\ SafeSource(x)
                      /\ \E v \in db.versions : v.filing = x.filing /\ Safe(v)}
<1>1. Identified(filings) /\ db.versions = Versions(filings)
  BY DEF Finished
<1>2. ASSUME NEW r \in Projection(db)
      PROVE  /\ \E f \in filings : f.id = r.filing /\ f.filed = r.filed
             /\ r.version \in Versions(filings) /\ r.version.filing = r.filing
  <2>1. PICK type \in FragmentTypes, s \in safe : r = IndexRow(db, s, type)
    BY DEF Projection
  <2> DEFINE filing == CHOOSE f \in db.filings : f.id = s.filing
             version == CHOOSE v \in db.versions : v.filing = s.filing
  <2>2. \E f \in db.filings : f.id = s.filing
    BY DEF Finished
  <2>3. filing \in db.filings /\ filing.id = s.filing
    BY <2>2
  <2>4. \E v \in db.versions : v.filing = s.filing
    OBVIOUS
  <2>5. version \in db.versions /\ version.filing = s.filing
    BY <2>4
  <2>6. /\ r.filing = s.filing /\ r.filed = filing.filed /\ r.version = version
    BY <2>1 DEF IndexRow
  <2> HIDE DEF filing, version
  <2>7. QED
    BY <1>1, <2>3, <2>5, <2>6
<1>3. QED
  BY <1>1, <1>2 DEF RowsAttributed, RowsOf

LEMMA NothingAttributed == RowsAttributed({})
<1>1. Identified({})
  BY FS_EmptySet DEF Identified
<1>2. QED
  BY <1>1 DEF RowsAttributed, RowsOf

LEMMA IndexedInvInit == Init /\ IndexInit => IndexedInv
<1> SUFFICES ASSUME Init, IndexInit
             PROVE  IndexedInv
  OBVIOUS
<1>1. BuildInv
  BY BuildInvInit
<1>2. DigestInv /\ ProjectInv
  BY DEF Init, IndexInit, DigestInv, Building, ProjectInv, NoFile, NoIndex, IndexShape
<1>3. RowsInv
  BY NothingAttributed DEF IndexInit, RowsInv, NoIndex
<1>4. IndexOfBase
  BY DEF IndexInit, IndexOfBase, Accepted, NoIndex
<1>5. QED
  BY <1>1, <1>2, <1>3, <1>4 DEF IndexedInv

\* A step of the corpus: only Begin makes a digest, only the renames move one.
LEMMA CorpusStep ==
    ASSUME IndexedInv, Next, UNCHANGED indexVars
    PROVE  DigestInv' /\ ProjectInv' /\ IndexOfBase'
<1> USE DEF indexVars
<1>1. /\ builds \in Nat /\ LoadInv /\ PromotionInv
      /\ DigestInv /\ ProjectInv /\ IndexOfBase
  BY DEF IndexedInv, BuildInv
<1>2. ASSUME NEW corpus \in Corpora, Begin(corpus)
      PROVE  DigestInv' /\ ProjectInv' /\ IndexOfBase'
  <2>1. /\ builds' = builds + 1 /\ temp'.digest = 2 * builds + 1 /\ pc' = "load"
        /\ UNCHANGED <<served, previous, index, made, job>>
    BY <1>2 DEF Begin
  <2>2. DigestInv'
    BY <1>1, <2>1 DEF DigestInv, Building
  <2>3. QED
    BY <1>1, <2>1, <2>2 DEF ProjectInv, IndexOfBase, Accepted
<1>3. ASSUME UNCHANGED <<served, previous, builds>>, UNCHANGED <<index, made, job>>,
             pc' = "down" \/ (pc \in Building /\ pc' \in Building /\ temp'.digest = temp.digest)
      PROVE  DigestInv' /\ ProjectInv' /\ IndexOfBase'
  <2>1. DigestInv'
    BY <1>1, <1>3 DEF DigestInv, Building
  <2>2. QED
    BY <1>1, <1>3, <2>1 DEF ProjectInv, IndexOfBase, Accepted
<1>4. CASE LoadFiling
  <2>1. pc = "load" /\ UNCHANGED <<served, previous, pc, builds>>
    BY <1>4, Zenon DEF LoadFiling
  <2>2. DatabaseShape(temp)
    BY <1>1, <2>1 DEF LoadInv
  <2>3. PICK filing \in rest :
            temp' = [temp EXCEPT !.filings = @ \cup {filing},
                                 !.sources = @ \cup {SourceRow(filing, f) : f \in filing.files}]
    BY <1>4, Zenon DEF LoadFiling
  <2>4. temp'.digest = temp.digest
    BY <2>2, <2>3 DEF DatabaseShape
  <2>5. QED
    BY <1>3, <2>1, <2>4 DEF Building
<1>5. CASE CheckFiles
  BY <1>3, <1>5 DEF CheckFiles
<1>6. CASE Analyse
  <2>1. /\ pc = "load" /\ pc' \in {"drop", "promote"}
        /\ UNCHANGED <<served, previous, builds>>
    BY <1>6 DEF Analyse
  <2>2. DatabaseShape(temp)
    BY <1>1, <2>1 DEF LoadInv
  <2>3. temp'.digest = temp.digest
    BY <1>6, <2>2 DEF Analyse, DatabaseShape
  <2>4. QED
    BY <1>3, <2>1, <2>3 DEF Building
<1>7. CASE DropBackup
  <2>1. /\ pc = "drop" /\ pc' = "retire" /\ previous' = NoFile /\ NoFile.digest = 0
        /\ UNCHANGED <<served, temp, builds>>
    BY <1>7 DEF DropBackup, NoFile
  <2>2. served.digest \in Nat \ {0}
    BY <1>1, <2>1 DEF PromotionInv, Finished
  <2>3. DigestInv'
    BY <1>1, <2>1, <2>2 DEF DigestInv, Building
  <2>4. QED
    BY <1>1, <2>1, <2>3 DEF ProjectInv, IndexOfBase, Accepted
<1>8. CASE Retire
  <2>1. /\ pc = "retire" /\ pc' = "promote" /\ previous' = served /\ served' = NoFile
        /\ NoFile.digest = 0 /\ UNCHANGED <<temp, builds>>
    BY <1>8 DEF Retire, NoFile
  <2>2. served.digest \in Nat \ {0}
    BY <1>1, <2>1 DEF PromotionInv, Finished
  <2>3. DigestInv'
    BY <1>1, <2>1, <2>2 DEF DigestInv, Building
  <2>4. QED
    BY <1>1, <2>1, <2>3 DEF ProjectInv, IndexOfBase, Accepted
<1>9. CASE Promote
  <2>1. /\ pc = "promote" /\ pc' = "size" /\ served' = temp /\ UNCHANGED <<previous, builds>>
    BY <1>9 DEF Promote
  <2>2. temp.digest \in Nat \ {0} /\ temp.digest = 2 * builds - 1
    BY <1>1, <2>1 DEF PromotionInv, Finished, DigestInv, Building
  <2>3. DigestInv'
    BY <1>1, <2>1, <2>2 DEF DigestInv, Building
  <2>4. made.base < temp.digest /\ index.base < temp.digest
    BY <1>1, <2>1, <2>2 DEF DigestInv, Building
  <2>5. made.base # temp.digest /\ index.base # temp.digest
    BY <1>1, <2>2, <2>4 DEF DigestInv
  <2>6. QED
    BY <1>1, <2>1, <2>3, <2>5 DEF ProjectInv, IndexOfBase, Accepted
<1>size. CASE RecordSize
  <2>1. /\ pc = "size" /\ pc' = "down" /\ Finished(served) /\ UNCHANGED <<previous, builds>>
    BY <1>1, <1>size DEF RecordSize, PromotionInv
  <2>2. served'.digest = served.digest + 1 /\ served.digest = 2 * builds - 1
    BY <1>1, <1>size, <2>1, SizeRecorded DEF DigestInv
  <2>3. DigestInv'
    BY <1>1, <2>1, <2>2 DEF DigestInv, Building
  <2>4. made.base # served'.digest /\ index.base # served'.digest
    BY <1>1, <2>1, <2>2 DEF DigestInv, Building
  <2>5. QED
    BY <1>1, <2>1, <2>3, <2>4 DEF ProjectInv, IndexOfBase, Accepted
<1>10. CASE KillBuild
  BY <1>3, <1>10 DEF KillBuild
<1>11. CASE MigrationNext
  <2>1. UNCHANGED <<served, previous, temp, pc, rest, builds>>
    BY <1>11, MigrationLeavesBuild DEF buildVars
  <2>2. QED
    BY <1>1, <2>1 DEF DigestInv, ProjectInv, IndexOfBase, Accepted
<1>12. QED
  BY <1>2, <1>4, <1>5, <1>6, <1>7, <1>8, <1>9, <1>10, <1>11, <1>size DEF Next, BuildNext

\* A step of the index build.
LEMMA IndexStep ==
    ASSUME IndexedInv, IndexNext, UNCHANGED databaseVars
    PROVE  DigestInv' /\ ProjectInv' /\ RowsInv' /\ IndexOfBase'
<1>1. UNCHANGED <<served, previous, temp, pc, rest, builds>>
  BY DEF databaseVars, buildVars
<1>2. /\ builds \in Nat /\ PromotionInv
      /\ DigestInv /\ ProjectInv /\ RowsInv /\ IndexOfBase
  BY DEF IndexedInv, BuildInv
<1>3. CASE BeginIndex
  <2>1. /\ made' = [base |-> served.digest, rows |-> {}, trigrams |-> {}]
        /\ job' = "project" /\ UNCHANGED index
    BY <1>3 DEF BeginIndex, NoIndex
  <2>2. served.digest \in Nat \ {0}
    BY <1>2, <1>3 DEF BeginIndex, PromotionInv, Finished
  <2>3. DigestInv'
    BY <1>1, <1>2, <2>1, <2>2 DEF DigestInv
  <2>4. ProjectInv'
    BY <1>2, <2>1, <2>2 DEF ProjectInv, IndexShape
  <2>5. RowsInv'
    BY <1>2, <2>1, NothingAttributed DEF RowsInv
  <2>6. QED
    BY <1>1, <1>2, <2>1, <2>3, <2>4, <2>5 DEF IndexOfBase, Accepted
<1>4. CASE Project
  <2>1. /\ job = "project" /\ Exists(served) /\ job' = "verify" /\ UNCHANGED index
        /\ made'.base = made.base /\ made'.rows = Projection(served) /\ IndexShape(made')
    BY <1>2, <1>4 DEF Project, ProjectInv, IndexShape
  <2>2. RowsAttributed(Projection(served))
    BY <1>2, <2>1, ProjectionAttributed DEF PromotionInv
  <2>3. DigestInv'
    BY <1>1, <1>2, <2>1 DEF DigestInv
  <2>4. ProjectInv'
    BY <1>1, <1>2, <2>1 DEF ProjectInv
  <2>5. RowsInv'
    BY <1>2, <2>1, <2>2 DEF RowsInv
  <2>6. QED
    BY <1>1, <1>2, <2>1, <2>3, <2>4, <2>5 DEF IndexOfBase, Accepted
<1>5. CASE PromoteIndex
  <2>1. /\ job = "verify" /\ served.digest = made.base /\ made.base # 0
        /\ made.rows = Projection(served) /\ index' = made /\ made' = NoIndex /\ job' = "down"
    BY <1>2, <1>5 DEF PromoteIndex, ProjectInv
  <2>2. previous.digest # made.base
    BY <1>2, <2>1 DEF DigestInv
  <2>3. /\ NoIndex.base = 0 /\ NoIndex.rows = {} /\ IndexShape(NoIndex)
    BY DEF NoIndex, IndexShape
  <2>4. DigestInv'
    BY <1>1, <1>2, <2>1, <2>3 DEF DigestInv
  <2>5. ProjectInv'
    BY <2>1, <2>3 DEF ProjectInv
  <2>6. RowsInv'
    BY <1>2, <2>1, <2>3, NothingAttributed DEF RowsInv
  <2>7. QED
    BY <1>1, <2>1, <2>2, <2>4, <2>5, <2>6 DEF IndexOfBase, Accepted
<1>6. CASE IndexFails
  <2>1. made' = NoIndex /\ job' = "down" /\ UNCHANGED index
    BY <1>6 DEF IndexFails
  <2>2. /\ NoIndex.base = 0 /\ NoIndex.rows = {} /\ IndexShape(NoIndex)
    BY DEF NoIndex, IndexShape
  <2>3. DigestInv'
    BY <1>1, <1>2, <2>1, <2>2 DEF DigestInv
  <2>4. ProjectInv' /\ RowsInv'
    BY <1>2, <2>1, <2>2, NothingAttributed DEF ProjectInv, RowsInv
  <2>5. QED
    BY <1>1, <1>2, <2>1, <2>3, <2>4 DEF IndexOfBase, Accepted
<1>7. QED
  BY <1>3, <1>4, <1>5, <1>6 DEF IndexNext

LEMMA IndexedInvStep ==
    ASSUME IndexedInv, [IndexedNext]_<<databaseVars, indexVars>>
    PROVE  IndexedInv'
<1>1. BuildInv /\ RowsInv
  BY DEF IndexedInv
<1>2. [Next]_databaseVars
  BY DEF IndexedNext
<1>3. BuildInv'
  BY <1>1, <1>2, BuildInvStep
<1>4. CASE Next /\ UNCHANGED indexVars
  <2>1. RowsInv'
    BY <1>1, <1>4 DEF RowsInv, indexVars
  <2>2. QED
    BY <1>3, <1>4, <2>1, CorpusStep DEF IndexedInv
<1>5. CASE IndexNext /\ UNCHANGED databaseVars
  BY <1>3, <1>5, IndexStep DEF IndexedInv
<1>6. CASE UNCHANGED <<databaseVars, indexVars>>
  <2>1. UNCHANGED <<served, previous, temp, pc, rest, builds, index, made, job>>
    BY <1>6 DEF databaseVars, buildVars, indexVars
  <2>2. QED
    BY <1>3, <2>1 DEF IndexedInv, DigestInv, ProjectInv, RowsInv, IndexOfBase, Accepted
<1>7. QED
  BY <1>4, <1>5, <1>6 DEF IndexedNext

\* Of rows that are attributed, a policy and a date admit one version of an event.
LEMMA AttributedRowsAgree ==
    ASSUME NEW rows, RowsAttributed(rows), NEW policy \in Policies,
           NEW asOf \in {r.filed : r \in rows} \cup {NoDate}, policy # "both" \/ asOf # NoDate,
           NEW r \in Filtered(rows, policy, asOf, 0, 99),
           NEW q \in Filtered(rows, policy, asOf, 0, 99),
           r.version.event = q.version.event
    PROVE  r.filing = q.filing
<1>1. PICK filings : Identified(filings) /\ RowsOf(rows, filings)
  BY DEF RowsAttributed
<1> DEFINE versions == Versions(filings)
           event == r.version.event
           chain == OfEvent(versions, event)
<1>2. /\ r \in rows /\ r.version \in versions /\ r.version.filing = r.filing
      /\ q \in rows /\ q.version \in versions /\ q.version.filing = q.filing
  BY <1>1 DEF RowsOf, Filtered
<1>3. r.version \in chain /\ q.version \in chain /\ event \in Events(versions)
  BY <1>2 DEF OfEvent, Events
<1>4. PICK members \in SUBSET filings : ChainSound(chain, members, event)
  BY <1>1, <1>3, EventIsOneChain
<1>5. asOf \in Nat
  BY <1>1 DEF RowsOf, Identified, NoDate
<1> HIDE DEF versions, event, chain
<1>6. CASE asOf # NoDate
  <2>1. InForce(r.version, asOf) /\ InForce(q.version, asOf)
    BY <1>6 DEF Filtered
  <2>2. r.version = q.version
    BY <1>3, <1>4, <1>5, <2>1 DEF ChainSound
  <2>3. QED
    BY <1>2, <2>2
<1>7. CASE policy = "original"
  <2>1. r.version.status = "root" /\ q.version.status = "root"
    BY <1>7 DEF Filtered
  <2>2. r.version = q.version
    BY <1>3, <1>4, <2>1 DEF ChainSound
  <2>3. QED
    BY <1>2, <2>2
<1>8. CASE policy \in {"current", "corrected"} /\ asOf = NoDate
  <2>1. r.version.current /\ q.version.current
    BY <1>8 DEF Filtered
  <2>2. r.version = q.version
    BY <1>3, <1>4, <2>1 DEF ChainSound
  <2>3. QED
    BY <1>2, <2>2
<1>9. QED
  BY <1>6, <1>7, <1>8 DEF Policies

\* Although the base is attested, opened and attested again by name while a build
\* may rename it, an index that is accepted for a database is its projection.
THEOREM AcceptedIndexIsOfItsBase == IndexedSpec => []IndexOfBase
<1>1. Init /\ IndexInit => IndexedInv
  BY IndexedInvInit
<1>2. IndexedInv /\ [IndexedNext]_<<databaseVars, indexVars>> => IndexedInv'
  BY IndexedInvStep
<1>3. IndexedInv => IndexOfBase
  BY DEF IndexedInv
<1>4. QED
  BY <1>1, <1>2, <1>3, PTL DEF IndexedSpec

\* Whatever was indexed, a search under a policy, on a date, answers from one
\* version of an event, unless it asks for both.
THEOREM SearchesOneVersion == IndexedSpec => []OneVersionPerEvent
<1>1. Init /\ IndexInit => IndexedInv
  BY IndexedInvInit
<1>2. IndexedInv /\ [IndexedNext]_<<databaseVars, indexVars>> => IndexedInv'
  BY IndexedInvStep
<1>3. IndexedInv => OneVersionPerEvent
  BY AttributedRowsAgree DEF IndexedInv, RowsInv, OneVersionPerEvent
<1>4. QED
  BY <1>1, <1>2, <1>3, PTL DEF IndexedSpec
-----------------------------------------------------------------------------
(* The overlay beside build_database                                        *)

OverlaidNext ==
    \/ Next /\ UNCHANGED <<overlay, hashed, import>>
    \/ OverlayNext /\ UNCHANGED databaseVars

OverlaidSpec ==
    Init /\ OverlayInit /\ [][OverlaidNext]_<<databaseVars, overlay, hashed, import>>

\* The digests of a running build are those of no overlay and of no import: a
\* database that takes the served name never has the digest of an older one.
OverlayInv ==
    /\ served.digest \in Nat /\ served.digest <= 2 * builds
    /\ previous.digest \in Nat
    /\ overlay.source \in Nat /\ overlay.source <= 2 * builds
    /\ hashed \in Nat /\ hashed <= 2 * builds
    /\ import = "read" => hashed # 0
    /\ pc \in Building =>
        /\ temp.digest = 2 * builds - 1 /\ served.digest < temp.digest
        /\ overlay.source < temp.digest /\ hashed < temp.digest
    /\ pc = "size" =>
        /\ served.digest = 2 * builds - 1
        /\ overlay.source <= served.digest /\ hashed <= served.digest
    /\ (overlay.source # 0 /\ overlay.source = served.digest)
            => overlay.facts = FactFilings(served)

OverlaidInv == BuildInv /\ OverlayInv

LEMMA OverlayImported ==
    ASSUME OverlaidInv, OverlayNext, UNCHANGED databaseVars
    PROVE  OverlayInv'
<1>1. UNCHANGED <<served, previous, temp, pc, rest, builds>>
  BY DEF databaseVars, buildVars
<1>2. builds \in Nat /\ OverlayInv /\ PromotionInv
  BY DEF OverlaidInv, BuildInv
<1>3. CASE BeginImport
  <2>1. served.digest \in Nat \ {0} /\ hashed' = served.digest /\ UNCHANGED overlay
    BY <1>2, <1>3 DEF BeginImport, Exists, NoFile, PromotionInv, Finished
  <2>2. QED
    BY <1>1, <1>2, <2>1 DEF OverlayInv
<1>4. CASE FinishImport
  <2>1. /\ overlay'.source = hashed /\ overlay'.facts = FactFilings(served)
        /\ hashed' = 0 /\ import' = "down"
    BY <1>4 DEF FinishImport
  <2>2. QED
    BY <1>1, <1>2, <2>1 DEF OverlayInv
<1>5. CASE ImportFails
  BY <1>1, <1>2, <1>5 DEF ImportFails, OverlayInv
<1>6. CASE RemoveOverlay
  <2>1. overlay'.source = 0 /\ UNCHANGED <<hashed, import>>
    BY <1>6 DEF RemoveOverlay, NoOverlay
  <2>2. QED
    BY <1>1, <1>2, <2>1 DEF OverlayInv
<1>7. QED
  BY <1>3, <1>4, <1>5, <1>6 DEF OverlayNext

LEMMA OverlaidByCorpus ==
    ASSUME OverlaidInv, Next, UNCHANGED <<overlay, hashed, import>>
    PROVE  OverlayInv'
<1>1. builds \in Nat /\ LoadInv /\ PromotionInv /\ OverlayInv
  BY DEF OverlaidInv, BuildInv
<1>2. ASSUME NEW corpus \in Corpora, Begin(corpus)
      PROVE  OverlayInv'
  <2>1. /\ builds' = builds + 1 /\ temp'.digest = 2 * builds + 1 /\ pc' = "load"
        /\ UNCHANGED <<served, previous>>
    BY <1>2 DEF Begin
  <2>2. QED
    BY <1>1, <2>1 DEF OverlayInv, Building
<1>3. ASSUME UNCHANGED <<served, previous, builds>>,
             pc' = "down" \/ (pc \in Building /\ pc' \in Building /\ temp'.digest = temp.digest)
      PROVE  OverlayInv'
  BY <1>1, <1>3 DEF OverlayInv, Building
<1>4. CASE LoadFiling
  <2>1. pc = "load" /\ UNCHANGED <<served, previous, pc, builds>>
    BY <1>4, Zenon DEF LoadFiling
  <2>2. DatabaseShape(temp)
    BY <1>1, <2>1 DEF LoadInv
  <2>3. PICK filing \in rest :
            temp' = [temp EXCEPT !.filings = @ \cup {filing},
                                 !.sources = @ \cup {SourceRow(filing, f) : f \in filing.files}]
    BY <1>4, Zenon DEF LoadFiling
  <2>4. temp'.digest = temp.digest
    BY <2>2, <2>3 DEF DatabaseShape
  <2>5. QED
    BY <1>3, <2>1, <2>4 DEF Building
<1>5. CASE CheckFiles
  BY <1>3, <1>5 DEF CheckFiles
<1>6. CASE Analyse
  <2>1. /\ pc = "load" /\ pc' \in {"drop", "promote"}
        /\ UNCHANGED <<served, previous, builds>>
    BY <1>6 DEF Analyse
  <2>2. DatabaseShape(temp)
    BY <1>1, <2>1 DEF LoadInv
  <2>3. temp'.digest = temp.digest
    BY <1>6, <2>2 DEF Analyse, DatabaseShape
  <2>4. QED
    BY <1>3, <2>1, <2>3 DEF Building
<1>7. CASE DropBackup
  <2>1. /\ pc = "drop" /\ pc' = "retire" /\ previous' = NoFile /\ NoFile.digest = 0
        /\ UNCHANGED <<served, temp, builds>>
    BY <1>7 DEF DropBackup, NoFile
  <2>2. QED
    BY <1>1, <2>1 DEF OverlayInv, Building
<1>8. CASE Retire
  <2>1. /\ pc = "retire" /\ pc' = "promote" /\ previous' = served /\ served' = NoFile
        /\ NoFile.digest = 0 /\ UNCHANGED <<temp, builds>>
    BY <1>8 DEF Retire, NoFile
  <2>2. QED
    BY <1>1, <2>1 DEF OverlayInv, Building
<1>9. CASE Promote
  <2>1. /\ pc = "promote" /\ pc' = "size" /\ served' = temp /\ UNCHANGED <<previous, builds>>
    BY <1>9 DEF Promote
  <2>2. /\ temp.digest \in Nat \ {0} /\ temp.digest = 2 * builds - 1
        /\ overlay.source < temp.digest
    BY <1>1, <2>1 DEF PromotionInv, Finished, OverlayInv, Building
  <2>3. QED
    BY <1>1, <2>1, <2>2 DEF OverlayInv, Building
<1>size. CASE RecordSize
  <2>1. /\ pc = "size" /\ pc' = "down" /\ Finished(served) /\ UNCHANGED <<previous, builds>>
    BY <1>1, <1>size DEF RecordSize, PromotionInv
  <2>2. served'.digest = served.digest + 1
    BY <1>size, <2>1, SizeRecorded
  <2>3. QED
    BY <1>1, <2>1, <2>2 DEF OverlayInv, Building
<1>10. CASE KillBuild
  BY <1>3, <1>10 DEF KillBuild
<1>11. CASE MigrationNext
  <2>1. UNCHANGED <<served, previous, temp, pc, rest, builds>>
    BY <1>11, MigrationLeavesBuild DEF buildVars
  <2>2. QED
    BY <1>1, <2>1 DEF OverlayInv
<1>12. QED
  BY <1>2, <1>4, <1>5, <1>6, <1>7, <1>8, <1>9, <1>10, <1>11, <1>size DEF Next, BuildNext

LEMMA OverlaidInvStep ==
    ASSUME OverlaidInv, [OverlaidNext]_<<databaseVars, overlay, hashed, import>>
    PROVE  OverlaidInv'
<1>1. [Next]_databaseVars /\ BuildInv
  BY DEF OverlaidNext, OverlaidInv
<1>2. BuildInv'
  BY <1>1, BuildInvStep
<1>3. CASE Next /\ UNCHANGED <<overlay, hashed, import>>
  BY <1>2, <1>3, OverlaidByCorpus DEF OverlaidInv
<1>4. CASE OverlayNext /\ UNCHANGED databaseVars
  BY <1>2, <1>4, OverlayImported DEF OverlaidInv
<1>5. CASE UNCHANGED <<databaseVars, overlay, hashed, import>>
  <2>1. UNCHANGED <<served, previous, temp, pc, rest, builds, overlay, hashed, import>>
    BY <1>5 DEF databaseVars, buildVars
  <2>2. QED
    BY <1>2, <2>1 DEF OverlaidInv, OverlayInv
<1>6. QED
  BY <1>3, <1>4, <1>5 DEF OverlaidNext

\* What a fetch takes of an identified corpus is safe and began by its date.
LEMMA FetchedInForce ==
    ASSUME NEW db, NEW policy, NEW asOf, asOf # NoDate, NEW v \in Fetched(db, policy, asOf)
    PROVE  v.from <= asOf /\ Safe(v)
<1> USE DEF NoDate, InForce, Safe, Effective
<1>1. CASE policy = "original"
  BY <1>1 DEF Fetched
<1>2. CASE policy = "both"
  BY <1>2 DEF Fetched
<1>3. CASE policy \notin {"original", "both"}
  BY <1>3 DEF Fetched
<1>4. QED
  BY <1>1, <1>2, <1>3

\* Although an import opens the base by name after it computed its digest, an
\* overlay that matches the served database has the facts of its safe filings, and
\* every policy and date takes versions that had begun by then.
THEOREM OverlayServedBesideItsBase == OverlaidSpec => []OverlayOfBase
<1>1. Init /\ OverlayInit => OverlaidInv
  BY BuildInvInit DEF Init, OverlayInit, NoOverlay, OverlaidInv, OverlayInv, Building, NoFile
<1>2. OverlaidInv /\ [OverlaidNext]_<<databaseVars, overlay, hashed, import>> => OverlaidInv'
  BY OverlaidInvStep
<1>3. OverlaidInv => OverlayOfBase
  <2> SUFFICES ASSUME OverlaidInv, Matches
               PROVE  /\ overlay.facts = FactFilings(served)
                      /\ \A policy \in {"current", "original", "corrected", "both"},
                            asOf \in {f.filed : f \in served.filings} :
                           \A v \in Fetched(served, policy, asOf) :
                              v.from <= asOf /\ Safe(v)
    BY DEF OverlayOfBase
  <2>1. Finished(served) /\ overlay.source = served.digest
    BY DEF Matches, Exists, NoFile, OverlaidInv, BuildInv, PromotionInv
  <2>2. overlay.facts = FactFilings(served)
    BY <2>1 DEF OverlaidInv, OverlayInv, Finished
  <2>3. \A f \in served.filings : f.filed # NoDate
    BY <2>1 DEF Finished, Identified, NoDate
  <2>4. QED
    BY <2>2, <2>3, FetchedInForce DEF Safe
<1>4. QED
  BY <1>1, <1>2, <1>3, PTL DEF OverlaidSpec

-----------------------------------------------------------------------------
(* The inputs of the algorithms                                             *)

\* Every sample satisfies what the theorems about the algorithms assume.
LEMMA SampledFacts ==
    ASSUME sample \in Samples
    PROVE  FactsSound
<1>1. SampleValid(sample)
  BY SamplesAssumption
<1>2. ASSUME sample.kind = "facts"
      PROVE  /\ ImportSound(sample.db, sample.older, sample.decisions)
             /\ CoverageSound(sample.db, Seed(sample.db, Candidates(sample.older, sample.decisions)))
  <2>1. DatabaseValid(sample.db)
    BY <1>1, <1>2, Zenon DEF SampleValid
  <2>2. IsFiniteSet(sample.db.companies)
    BY <2>1, Zenon DEF DatabaseValid
  <2>3. QED
    BY <2>1, <2>2, ImportedFactsStand, AcceptedCoverageIsTrue, Zenon
<1>3. ASSUME sample.kind = "events" PROVE EventsSound(sample.candidates, sample.safe)
  <2>1. IsFiniteSet(sample.candidates)
    BY <1>1, <1>3, Zenon DEF SampleValid
  <2>2. QED
    BY <2>1, EventFactsSupported, Zenon
<1>4. QED
  BY <1>2, <1>3, Zenon DEF FactsSound

LEMMA SampledPieces ==
    ASSUME sample \in Samples
    PROVE  PiecesSound
<1>1. SampleValid(sample)
  BY SamplesAssumption
<1>2. ASSUME sample.kind = "cut", ConfigValid(sample.config)
      PROVE  BodiesSound(sample.config, sample.prefix, UnitsOf(sample))
  <2>1. /\ CutConfig(sample.config) /\ sample.prefix \in Nat /\ sample.sizes \in Seq(Nat)
    BY <1>1, <1>2, Zenon DEF SampleValid, CutConfig
  <2>2. Units(UnitsOf(sample))
    <3> DEFINE units == UnitsOf(sample)
               sizes == sample.sizes
    <3>0. /\ Len(sizes) \in Nat
          /\ DOMAIN sizes = 1 .. Len(sizes)
          /\ \A i \in 1 .. Len(sizes) : sizes[i] \in Nat
      <4>1. sizes \in Seq(Nat)
        BY <2>1
      <4> HIDE DEF sizes
      <4>2. QED
        BY <4>1
    <3>1. PICK n \in Nat : n = Len(sizes) /\ DOMAIN sizes = 1 .. n /\ \A i \in 1 .. n : sizes[i] \in Nat
      BY <3>0, Zenon
    <3>2. units = [i \in 1 .. n |-> [tokens |-> sizes[i], evidence |-> {i}]]
      BY <3>1 DEF UnitsOf
    <3> HIDE DEF units, sizes
    <3>3. \A i \in 1 .. n : units[i].tokens \in Nat
      BY <3>1, <3>2
    <3>4. Len(units) = n
      BY <3>2
    <3>5. QED
      BY <3>3, <3>4 DEF Units, units
  <2>3. QED
    BY <2>1, <2>2, ChunksCoverTheText, Zenon
<1>3. ASSUME sample.kind = "table" PROVE GridSound(sample.rows)
  <2>1. sample.rows \in Seq(Seq(TableCells))
    BY <1>1, <1>3, Zenon DEF SampleValid
  <2>2. QED
    BY <2>1, CellsHaveTheirPlaces, Zenon
<1>4. ASSUME sample.kind = "lineage"
      PROVE  LineageSound(sample.filings, Versions(sample.filings),
                          {f.filed + later : f \in sample.filings, later \in {0, 1}})
  <2> DEFINE days == {f.filed + later : f \in sample.filings, later \in {0, 1}}
  <2>1. Identified(sample.filings)
    BY <1>1, <1>4, Zenon DEF SampleValid
  <2>2. days \in SUBSET Nat
    BY <2>1 DEF Identified
  <2> HIDE DEF days
  <2>3. LineageSound(sample.filings, Versions(sample.filings), days)
    BY <2>1, <2>2, VersionsAreSound, Zenon
  <2>4. QED
    BY <2>3 DEF days
<1>5. QED
  BY <1>2, <1>3, <1>4 DEF PiecesSound

\* However builds of the corpus and of the overlay overlap, and whatever database
\* the candidates come from: a fact that is served is beside the database it stands
\* in, and nothing there contradicts it.
THEOREM ServedFactsStand == OverlaidSpec /\ SampleSpec => []SeedSound
<1>1. SampleInit => FactsSound
  BY SampledFacts DEF SampleInit
<1>2. SampleInit /\ [UNCHANGED sample]_sample => SampleInit'
  BY DEF SampleInit
<1>3. FactsSound /\ OverlayOfBase => SeedSound
  BY DEF SeedSound
<1>4. QED
  BY <1>1, <1>2, <1>3, OverlayServedBesideItsBase, PTL DEF SampleSpec

\* Of every valid input: no token of a text that is cut, no cell of a table and no
\* version of a filing is lost or gets another's identity.
THEOREM PiecesKept == SampleSpec => []PiecesSound
<1>1. SampleInit => PiecesSound
  BY SampledPieces DEF SampleInit
<1>2. SampleInit /\ [UNCHANGED sample]_sample => SampleInit'
  BY DEF SampleInit
<1>3. QED
  BY <1>1, <1>2, PTL DEF SampleSpec

-----------------------------------------------------------------------------
(* The files of the dense service                                           *)

\* While no file is replaced, a started service has the release in memory whose
\* lines it reads by name.
LoadedInv ==
    /\ loaded = [index |-> loaded.index, offsets |-> loaded.offsets]
    /\ (state # "down" /\ ~replaced) => deployed["metadata"] = loaded.index

\* A vector's hit is attributed to its own filing, or the search raises, whatever
\* the sequence of installations, returns to older releases, kills and restarts,
\* with whatever offsets these leave behind.
THEOREM HitsOfTheirFilings == DenseSpec => []HitsAttributed
<1>1. DenseInit => LoadedInv
  BY DEF DenseInit, LoadedInv
<1>2. LoadedInv /\ [DenseNext]_denseVars => LoadedInv'
  <2> SUFFICES ASSUME LoadedInv, [DenseNext]_denseVars
               PROVE  LoadedInv'
    OBVIOUS
  <2>1. ASSUME NEW a \in Artifacts, NEW r \in DOMAIN Releases, Deploy(a, r)
        PROVE  LoadedInv'
    BY <2>1 DEF Deploy, LoadedInv
  <2>2. CASE StartUp
    BY <2>2 DEF StartUp, LoadedInv
  <2>3. CASE MapOffsets
    BY <2>3 DEF MapOffsets, LoadedInv
  <2>4. CASE WriteOffsets \/ WriteOffsetsManifest
    BY <2>4 DEF WriteOffsets, WriteOffsetsManifest, LoadedInv
  <2>5. CASE WriteVectors \/ WriteVectorsManifest
    BY <2>5 DEF WriteVectors, WriteVectorsManifest, LoadedInv
  <2>6. CASE Serve \/ Stop
    BY <2>6 DEF Serve, Stop, LoadedInv
  <2>7. CASE UNCHANGED denseVars
    BY <2>7 DEF denseVars, LoadedInv
  <2>8. QED
    BY <2>1, <2>2, <2>3, <2>4, <2>5, <2>6, <2>7 DEF DenseNext
<1>3. LoadedInv => HitsAttributed
  BY DEF HitsAttributed, LoadedInv, LineAt
<1>4. QED
  BY <1>1, <1>2, <1>3, PTL DEF DenseSpec

-----------------------------------------------------------------------------
(* The rows of the embedding-chunk build                                    *)

LEMMA FiniteSeq ==
    ASSUME NEW S, IsFiniteSet(S)
    PROVE  SetToSeq(S) \in Seq(S)
<1>1. PICK n \in Nat : n = Cardinality(S)
  BY FS_CardinalityType
<1>2. PICK f : f \in Bijection(1 .. n, S)
  BY <1>1, FS_CardinalityType DEF ExistsBijection
<1>3. f \in [1 .. n -> S] /\ IsInjective(f)
  BY <1>2 DEF Bijection, Injection, IsInjective
<1>4. SetToSeq(S) \in [1 .. n -> S]
  BY <1>1, <1>3 DEF SetToSeq
<1>5. QED
  BY <1>4, ShapeSeq

\* The bodies of a group, and units its tokens come from.
LEMMA BodiesType ==
    ASSUME NEW config, CutConfig(config), NEW prefix \in Nat, NEW units, Units(units)
    PROVE  Bodies(config, prefix, units).out \in Seq(Seq((1 .. Len(units)) \X Nat))
<1>1. CASE MaxBody(config, prefix) = 0
  <2>1. Bodies(config, prefix, units).out = <<>>
    BY <1>1, CutNothing, Zenon
  <2>2. QED
    BY <2>1
<1>2. CASE MaxBody(config, prefix) # 0
  <2> DEFINE Tokens == (1 .. Len(units)) \X Nat
  <2>1. (1 .. Len(units)) \X Nat \subseteq Tokens
    OBVIOUS
  <2> HIDE DEF Tokens
  <2>2. Bodies(config, prefix, units).out \in Seq(Seq(Tokens))
    BY <1>2, <2>1, BodiesCut
  <2>3. QED
    BY <2>2 DEF Tokens
<1>3. QED
  BY <1>1, <1>2

LEMMA RecordFinite ==
    ASSUME NEW group, GroupValid(group), NEW ordinal,
           NEW body \in Seq((1 .. Len(group.units)) \X Nat)
    PROVE  IsFiniteSet(ChunkRecord(group.id, ordinal, group.prefix, group.headerEvidence,
                                   body, group.units).evidence)
<1> DEFINE evidence == [k \in DOMAIN body |-> group.units[body[k][1]].evidence]
           all == {evidence[k] : k \in DOMAIN body}
<1>1. IsFiniteSet(DOMAIN body)
  <2>1. PICK n \in Nat : DOMAIN body = 1 .. n
    BY SeqShape
  <2>2. QED
    BY <2>1, FS_Interval
<1>2. IsFiniteSet(all)
  <2>1. DOMAIN evidence = DOMAIN body
    OBVIOUS
  <2> HIDE DEF evidence
  <2>2. QED
    BY <1>1, <2>1, ImageFinite
<1>3. ASSUME NEW e \in all PROVE IsFiniteSet(e)
  <2>1. PICK k \in DOMAIN body : e = group.units[body[k][1]].evidence
    OBVIOUS
  <2>2. body[k] \in (1 .. Len(group.units)) \X Nat
    BY SeqShape
  <2>3. body[k][1] \in 1 .. Len(group.units)
    BY <2>2
  <2>4. QED
    BY <2>1, <2>3 DEF GroupValid
<1>4. IsFiniteSet(UNION all)
  BY <1>2, <1>3, FS_UNION
<1>5. IsFiniteSet(group.headerEvidence \cup UNION all)
  BY <1>4, FS_Union DEF GroupValid
<1>6. UNION all = UNION {group.units[body[k][1]].evidence : k \in DOMAIN body}
  OBVIOUS
<1>7. QED
  BY <1>5, <1>6 DEF ChunkRecord

\* What a group adds to each file is a sequence.
LEMMA GroupRowsType ==
    ASSUME NEW in, NEW group, GroupValid(group), CutConfig(Config), NEW f \in Files
    PROVE  \E R : GroupRows(in, group)[f] \in Seq(R)
<1> DEFINE chunks == GroupChunks(Config, group)
           bodies == Bodies(Config, group.prefix, group.units).out
           k == Min({group.breaksAfter, Len(bodies)})
           Record(n) == ChunkRecord(group.id, n - 1, group.prefix, group.headerEvidence,
                                    bodies[n], group.units)
           Facts(n) == {<<group.id, n - 1, e>> : e \in chunks[n].evidence}
           links == [n \in DOMAIN chunks |-> SetToSeq(Facts(n))]
<1>1. bodies \in Seq(Seq((1 .. Len(group.units)) \X Nat))
  BY BodiesType DEF GroupValid
<1>2. k \in Nat /\ k <= Len(bodies) /\ Len(bodies) \in Nat
  <2> DEFINE n == Len(bodies)
             m == group.breaksAfter
  <2>1. m \in Nat /\ n \in Nat
    BY <1>1 DEF GroupValid
  <2> HIDE DEF bodies, m, n
  <2>2. m \in Int /\ n \in Int
    BY <2>1
  <2>3. Min({m, n}) \in {m, n} /\ Min({m, n}) <= n
    BY <2>2, MinOfTwo, Zenon
  <2>4. Min({m, n}) \in Nat
    BY <2>1, <2>3
  <2>5. QED
    BY <2>1, <2>3, <2>4 DEF m, n
<1>3. chunks = [n \in 1 .. k |-> Record(n)]
  BY DEF GroupChunks
<1> HIDE DEF chunks, k, bodies
<1>4. chunks \in Seq({Record(n) : n \in 1 .. k})
  <2> HIDE DEF Record
  <2>1. chunks \in [1 .. k -> {Record(n) : n \in 1 .. k}]
    BY <1>3
  <2>2. QED
    BY <1>2, <2>1, ShapeSeq
<1>5. ASSUME NEW n \in 1 .. k PROVE IsFiniteSet(Facts(n))
  <2>1. bodies[n] \in Seq((1 .. Len(group.units)) \X Nat)
    BY <1>1, <1>2
  <2>2. IsFiniteSet(Record(n).evidence)
    BY <2>1, RecordFinite
  <2>3. chunks[n] = Record(n)
    BY <1>3
  <2> DEFINE E == chunks[n].evidence
             g == [e \in E |-> <<group.id, n - 1, e>>]
  <2>4. IsFiniteSet(E)
    BY <2>2, <2>3
  <2> HIDE DEF E
  <2>5. DOMAIN g = E /\ {g[e] : e \in E} = {<<group.id, n - 1, e>> : e \in E}
    OBVIOUS
  <2>6. IsFiniteSet({g[e] : e \in E})
    <3> HIDE DEF g
    <3>1. QED
      BY <2>4, <2>5, ImageFinite
  <2>7. QED
    BY <2>5, <2>6 DEF E
<1>6. FlattenSeq(links) \in Seq(UNION {Facts(n) : n \in 1 .. k})
  <2> DEFINE U == UNION {Facts(n) : n \in 1 .. k}
  <2>1. DOMAIN chunks = 1 .. k
    BY <1>3
  <2> HIDE DEF Facts
  <2>2. ASSUME NEW n \in 1 .. k PROVE SetToSeq(Facts(n)) \in Seq(U)
    <3>1. SetToSeq(Facts(n)) \in Seq(Facts(n))
      BY <1>5, FiniteSeq
    <3>2. Facts(n) \subseteq U
      OBVIOUS
    <3> HIDE DEF U
    <3>3. QED
      BY <3>1, <3>2
  <2> HIDE DEF U
  <2>3. links \in [1 .. k -> Seq(U)]
    BY <2>1, <2>2
  <2>4. links \in Seq(Seq(U))
    BY <1>2, <2>3, ShapeSeq
  <2>5. QED
    BY <2>4, FlattenType DEF U
<1>7. /\ GroupRows(in, group).chunks = chunks
      /\ GroupRows(in, group).links = FlattenSeq(links)
      /\ GroupRows(in, group).failures \in {<<>>, <<Failure(in, group)>>}
  BY DEF GroupRows, chunks
<1>8. f \in {"chunks", "links", "failures"}
  BY DEF Files, Outputs
<1>9. GroupRows(in, group).failures \in Seq({Failure(in, group)})
  <2> DEFINE one == Failure(in, group)
  <2> HIDE DEF one
  <2>1. <<>> \in Seq({one}) /\ <<one>> \in Seq({one})
    OBVIOUS
  <2>2. QED
    BY <1>7, <2>1, Zenon DEF one
<1> HIDE DEF Facts, Record, links
<1>10. QED
  BY <1>4, <1>6, <1>7, <1>8, <1>9

\* Whatever the groups of the build write.
Written(i, f) == LET rows == GroupRows(PhaseOf(i), GroupAt(i))[f] IN {rows[k] : k \in DOMAIN rows}
RowSet == UNION {Written(p[1], p[2]) : p \in (1 .. Total) \X Files}

LEMMA GroupsShape ==
    \E n, m \in Nat :
        /\ n = Len(Groups.narrative) /\ m = Len(Groups.table) /\ Total = n + m /\ Total \in Nat
        /\ \A i \in 1 .. Total : GroupValid(GroupAt(i))
<1>1. /\ Len(Groups.narrative) \in Nat /\ Len(Groups.table) \in Nat
      /\ \A i \in 1 .. Len(Groups.narrative) : GroupValid(Groups.narrative[i])
      /\ \A i \in 1 .. Len(Groups.table) : GroupValid(Groups.table[i])
  BY ChunkAssumption
<1>2. PICK n \in Nat, m \in Nat : n = Len(Groups.narrative) /\ m = Len(Groups.table)
  BY <1>1
<1>3. Total = n + m
  BY <1>2, Zenon DEF Total
<1>4. Total \in Nat
  BY <1>3
<1>5. ASSUME NEW i \in 1 .. Total PROVE GroupValid(GroupAt(i))
  <2>1. CASE i <= n
    <3>1. i \in 1 .. n
      BY <1>3, <2>1
    <3>2. GroupAt(i) = Groups.narrative[i]
      BY <1>2, <2>1, Zenon DEF GroupAt
    <3>3. QED
      BY <1>1, <1>2, <3>1, <3>2, Zenon
  <2>2. CASE ~(i <= n)
    <3>1. i - n \in 1 .. m
      BY <1>3, <2>2
    <3>2. GroupAt(i) = Groups.table[i - n]
      BY <1>2, <2>2, Zenon DEF GroupAt
    <3>3. QED
      BY <1>1, <1>2, <3>1, <3>2, Zenon
  <2>3. QED
    BY <2>1, <2>2
<1>6. QED
  BY <1>2, <1>3, <1>4, <1>5, Zenon

LEMMA RowsType ==
    ASSUME NEW i \in 1 .. Total, NEW f \in Files
    PROVE  GroupRows(PhaseOf(i), GroupAt(i))[f] \in Seq(RowSet)
<1> DEFINE rows == GroupRows(PhaseOf(i), GroupAt(i))[f]
<1>1. PICK R : rows \in Seq(R)
  <2>1. GroupValid(GroupAt(i)) /\ CutConfig(Config)
    BY GroupsShape, ChunkAssumption
  <2>2. QED
    BY <2>1, GroupRowsType, Zenon
<1>2. Written(i, f) \subseteq RowSet
  <2>1. <<i, f>> \in (1 .. Total) \X Files
    OBVIOUS
  <2>2. QED
    BY <2>1 DEF RowSet
<1>3. Written(i, f) = {rows[k] : k \in DOMAIN rows}
  BY DEF Written
<1> HIDE DEF rows
<1>4. PICK n \in Nat : rows \in [1 .. n -> R]
  BY <1>1
<1>5. rows \in [1 .. n -> RowSet]
  BY <1>2, <1>3, <1>4
<1>6. QED
  BY <1>5, ShapeSeq DEF rows

\* The rows of the first groups, one group after the other.
LEMMA RowsExpected ==
    /\ ExpectedRows[0] = [f \in Files |-> <<>>]
    /\ \A n \in 1 .. Total :
        ExpectedRows[n] = [f \in Files |-> ExpectedRows[n - 1][f] \o GroupRows(PhaseOf(n), GroupAt(n))[f]]
    /\ \A n \in 0 .. Total : ExpectedRows[n] \in [Files -> Seq(RowSet)]
<1>1. PICK N \in Nat : N = Total
  BY GroupsShape
<1> DEFINE base == [f \in Files |-> <<>>]
           S == [Files -> Seq(RowSet)]
           Step(v, n) == [f \in Files |-> v[f] \o GroupRows(PhaseOf(n), GroupAt(n))[f]]
           Is(g) == g = [n \in 0 .. N |-> IF n = 0 THEN base ELSE Step(g[n - 1], n)]
           extend == [p \in S \X (1 .. N) |-> Step(p[1], p[2])]
<1>2. ASSUME NEW v \in S, NEW n \in 1 .. N PROVE Step(v, n) \in S
  <2>1. \A f \in Files : GroupRows(PhaseOf(n), GroupAt(n))[f] \in Seq(RowSet)
    BY <1>1, RowsType
  <2>2. QED
    BY <2>1
<1>3. base \in S
  OBVIOUS
<1>4. \A g : Is(g) => Is(ExpectedRows)
  BY <1>1, Zenon DEF ExpectedRows
<1> HIDE DEF Step, S, base
<1>5. /\ extend \in [S \X (1 .. N) -> S]
      /\ \A v \in S, n \in 1 .. N : extend[<<v, n>>] = Step(v, n)
  BY <1>2
<1> HIDE DEF extend
<1>6. PICK g : Iterates(g, S, base, N, extend)
  BY <1>1, <1>3, <1>5, Recursion, Zenon
<1>7. Is(g)
  <2>1. \A n \in 1 .. N : g[n] = Step(g[n - 1], n)
    <3>1. \A n \in 1 .. N : n - 1 \in 0 .. N
      OBVIOUS
    <3>2. QED
      BY <1>5, <1>6, <3>1 DEF Iterates
  <2>2. \A n \in 0 .. N : n = 0 \/ n \in 1 .. N
    OBVIOUS
  <2>3. \A n \in 0 .. N : g[n] = IF n = 0 THEN base ELSE Step(g[n - 1], n)
    BY <1>6, <2>1, <2>2 DEF Iterates
  <2>4. QED
    BY <1>6, <2>3 DEF Iterates
<1> DEFINE f == ExpectedRows
<1>8. Is(f)
  BY <1>4, <1>7
<1> HIDE DEF f
<1>9. f[0] = base /\ \A n \in 1 .. N : f[n] = Step(f[n - 1], n)
  <2>1. 0 \in 0 .. N /\ \A n \in 1 .. N : n \in 0 .. N /\ n # 0
    OBVIOUS
  <2>2. QED
    BY <1>8, <2>1
<1> DEFINE T == {n \in 0 .. N : f[n] \in S}
<1>10. 0 \in T
  BY <1>3, <1>9
<1>11. ASSUME NEW n \in 1 .. N, n - 1 \in T PROVE n \in T
  BY <1>2, <1>9, <1>11
<1> HIDE DEF T
<1>12. 0 .. N \subseteq T
  BY <1>10, <1>11, Counting
<1>13. \A n \in 0 .. N : f[n] \in S
  BY <1>12 DEF T
<1>14. QED
  BY <1>1, <1>9, <1>13, Zenon DEF Step, S, base, f

LEMMA SubSeqPart ==
    ASSUME NEW S, NEW s \in Seq(S), NEW k \in 0 .. Len(s)
    PROVE  /\ SubSeq(s, 1, k) \in Seq(S) /\ Len(SubSeq(s, 1, k)) = k
           /\ k = Len(s) => SubSeq(s, 1, k) = s
           /\ \A j \in 0 .. k : SubSeq(SubSeq(s, 1, k), 1, j) = SubSeq(s, 1, j)
<1>1. PICK n \in Nat : n = Len(s) /\ k \in 0 .. n /\ k \in Nat
  OBVIOUS
<1>2. /\ SubSeq(s, 1, k) \in Seq(S) /\ Len(SubSeq(s, 1, k)) = k
      /\ \A i \in 1 .. k : SubSeq(s, 1, k)[i] = s[i]
  BY <1>1
<1>3. k = Len(s) => SubSeq(s, 1, k) = s
  BY <1>1, <1>2
<1>4. ASSUME NEW j \in 0 .. k PROVE SubSeq(SubSeq(s, 1, k), 1, j) = SubSeq(s, 1, j)
  <2> DEFINE t == SubSeq(s, 1, k)
  <2>1. t \in Seq(S) /\ Len(t) = k /\ \A i \in 1 .. k : t[i] = s[i]
    BY <1>2
  <2> HIDE DEF t
  <2>2. j \in Nat /\ j <= k /\ j <= n
    BY <1>1
  <2>3. /\ SubSeq(s, 1, j) \in Seq(S) /\ Len(SubSeq(s, 1, j)) = j
        /\ \A i \in 1 .. j : SubSeq(s, 1, j)[i] = s[i]
    BY <1>1, <2>2
  <2>4. /\ SubSeq(t, 1, j) \in Seq(S) /\ Len(SubSeq(t, 1, j)) = j
        /\ \A i \in 1 .. j : SubSeq(t, 1, j)[i] = s[i]
    BY <1>1, <2>1, <2>2
  <2>5. SubSeq(t, 1, j) = SubSeq(s, 1, j)
    BY <2>2, <2>3, <2>4
  <2>6. QED
    BY <2>5 DEF t
<1>5. QED
  BY <1>2, <1>3, <1>4

LEMMA SubSeqJoined ==
    ASSUME NEW S, NEW s \in Seq(S), NEW t \in Seq(S), NEW k \in 0 .. Len(s)
    PROVE  s \o t \in Seq(S) /\ k \in 0 .. Len(s \o t) /\ SubSeq(s \o t, 1, k) = SubSeq(s, 1, k)
<1> DEFINE u == s \o t
<1>1. PICK n \in Nat, m \in Nat : n = Len(s) /\ m = Len(t) /\ k \in 0 .. n /\ k \in Nat /\ k <= n
  OBVIOUS
<1>2. u \in Seq(S) /\ Len(u) = n + m /\ \A i \in 1 .. n : u[i] = s[i]
  BY <1>1
<1> HIDE DEF u
<1>3. /\ SubSeq(s, 1, k) \in Seq(S) /\ Len(SubSeq(s, 1, k)) = k
      /\ \A i \in 1 .. k : SubSeq(s, 1, k)[i] = s[i]
  BY <1>1
<1>4. /\ SubSeq(u, 1, k) \in Seq(S) /\ Len(SubSeq(u, 1, k)) = k
      /\ \A i \in 1 .. k : SubSeq(u, 1, k)[i] = s[i]
  BY <1>1, <1>2
<1>5. SubSeq(u, 1, k) = SubSeq(s, 1, k)
  BY <1>1, <1>3, <1>4
<1>6. QED
  BY <1>1, <1>2, <1>5 DEF u

\* A cursor: how many groups of a phase are completed.
Cursor(in, completed) ==
    \/ in = "narrative" /\ completed \in 0 .. Len(Groups.narrative)
    \/ in = "table" /\ completed \in 0 .. Len(Groups.table)
    \/ in \in {"finalize", "complete"} /\ completed = 0

LEMMA CursorSums ==
    ASSUME NEW n \in Nat, NEW m \in Nat
    PROVE  /\ \A k \in 0 .. n : k \in 0 .. n + m /\ k \in Nat
           /\ \A k \in 0 .. m : n + k \in 0 .. n + m /\ k \in Nat
           /\ n + m \in 0 .. n + m /\ 0 \in Nat
           /\ \A k \in 0 .. n : k < n => k + 1 \in 0 .. n /\ k + 1 \in 1 .. n + m /\ k + 1 <= n
OBVIOUS

LEMMA CursorPlace ==
    ASSUME NEW in, NEW completed, Cursor(in, completed)
    PROVE  /\ Position(in, completed) \in 0 .. Total
           /\ completed \in Nat
           /\ in = "narrative" => Position(in, completed) = completed
           /\ in \in {"finalize", "complete"} => Position(in, completed) = Total
<1>1. PICK n \in Nat, m \in Nat :
        n = Len(Groups.narrative) /\ m = Len(Groups.table) /\ Total = n + m
  BY GroupsShape
<1>2. CASE in = "narrative" /\ completed \in 0 .. n
  <2>1. Position(in, completed) = completed
    BY <1>2 DEF Position
  <2>2. completed \in 0 .. Total /\ completed \in Nat
    BY <1>1, <1>2, CursorSums, Zenon
  <2>3. in \notin {"finalize", "complete"}
    BY <1>2
  <2>4. QED
    BY <2>1, <2>2, <2>3, Zenon
<1>3. CASE in = "table" /\ completed \in 0 .. m
  <2>1. Position(in, completed) = n + completed
    BY <1>1, <1>3 DEF Position
  <2>2. n + completed \in 0 .. Total /\ completed \in Nat
    BY <1>1, <1>3, CursorSums, Zenon
  <2>3. in \notin {"finalize", "complete"} /\ in # "narrative"
    BY <1>3
  <2>4. QED
    BY <2>1, <2>2, <2>3, Zenon
<1>4. CASE in \in {"finalize", "complete"} /\ completed = 0
  <2>1. Position(in, completed) = Total /\ in # "narrative"
    BY <1>4 DEF Position
  <2>2. Total \in 0 .. Total /\ completed \in Nat
    BY <1>1, <1>4, CursorSums, Zenon
  <2>3. QED
    BY <2>1, <2>2, Zenon
<1>5. QED
  BY <1>1, <1>2, <1>3, <1>4, Zenon DEF Cursor

\* One more group of the phase is the next group of the build.
LEMMA CursorStep ==
    ASSUME NEW in \in {"narrative", "table"}, NEW completed, Cursor(in, completed),
           completed < Len(Groups[in])
    PROVE  LET n == Position(in, completed) + 1
           IN  /\ Cursor(in, completed + 1) /\ Position(in, completed + 1) = n /\ n \in 1 .. Total
               /\ PhaseOf(n) = in /\ GroupAt(n) = Groups[in][completed + 1]
<1>1. PICK n \in Nat, m \in Nat :
        n = Len(Groups.narrative) /\ m = Len(Groups.table) /\ Total = n + m
  BY GroupsShape
<1>2. CASE in = "narrative"
  <2>1. completed \in 0 .. n /\ completed < n
    BY <1>1, <1>2 DEF Cursor
  <2>2. completed + 1 \in 0 .. n /\ completed + 1 \in 1 .. Total /\ completed + 1 <= n
    BY <1>1, <2>1, CursorSums, Zenon
  <2>3. Position(in, completed) = completed /\ Position(in, completed + 1) = completed + 1
    BY <1>2 DEF Position
  <2>4. Cursor(in, completed + 1)
    BY <1>1, <1>2, <2>2, Zenon DEF Cursor
  <2>5. PhaseOf(completed + 1) = in
    BY <1>1, <1>2, <2>2, Zenon DEF PhaseOf
  <2>6. GroupAt(completed + 1) = Groups[in][completed + 1]
    BY <1>1, <1>2, <2>2, Zenon DEF GroupAt
  <2>7. QED
    BY <2>2, <2>3, <2>4, <2>5, <2>6, Zenon
<1>3. CASE in = "table"
  <2>1. completed \in 0 .. m /\ completed < m
    BY <1>1, <1>3 DEF Cursor
  <2> DEFINE i == n + (completed + 1)
  <2>2. completed + 1 \in 0 .. m /\ i \in 1 .. Total /\ ~(i <= n) /\ i - n = completed + 1
    <3>1. Total = n + m
      BY <1>1
    <3>2. completed + 1 \in 0 .. m /\ i \in 1 .. n + m /\ ~(i <= n) /\ i - n = completed + 1
      <4>1. PICK k \in Nat : k = completed /\ k < m
        BY <2>1
      <4>2. /\ k + 1 \in 0 .. m /\ n + (k + 1) \in 1 .. n + m
            /\ ~(n + (k + 1) <= n) /\ n + (k + 1) - n = k + 1
        BY <4>1
      <4>3. QED
        BY <4>1, <4>2
    <3>3. QED
      BY <3>1, <3>2, Zenon
  <2>3. Position(in, completed) = n + completed /\ Position(in, completed + 1) = i
    BY <1>1, <1>3 DEF Position
  <2>4. Cursor(in, completed + 1)
    BY <1>1, <1>3, <2>2, Zenon DEF Cursor
  <2> HIDE DEF i
  <2>5. PhaseOf(i) = in
    BY <1>1, <1>3, <2>2, Zenon DEF PhaseOf
  <2>6. GroupAt(i) = Groups[in][completed + 1]
    BY <1>1, <1>3, <2>2, Zenon DEF GroupAt
  <2>7. Position(in, completed) + 1 = i
    <3>1. n + completed + 1 = i
      BY <2>1 DEF i
    <3>2. QED
      BY <2>3, <3>1, Zenon
  <2>8. QED
    BY <2>2, <2>3, <2>4, <2>5, <2>6, <2>7, Zenon
<1>4. QED
  BY <1>2, <1>3

LEMMA CursorTurn ==
    ASSUME NEW in \in {"narrative", "table"}, NEW completed, completed = Len(Groups[in])
    PROVE  /\ Cursor(NextPhaseOf[in], 0)
           /\ Position(NextPhaseOf[in], 0) = Position(in, completed)
           /\ NextPhaseOf[in] \in {"table", "finalize"}
<1>1. PICK n \in Nat, m \in Nat :
        n = Len(Groups.narrative) /\ m = Len(Groups.table) /\ Total = n + m
  BY GroupsShape
<1>2. /\ NextPhaseOf["narrative"] = "table" /\ NextPhaseOf["table"] = "finalize"
  BY DEF NextPhaseOf
<1>3. CASE in = "narrative"
  <2>1. Position("table", 0) = n + 0 /\ Position(in, completed) = completed /\ completed = n
    BY <1>1, <1>3 DEF Position
  <2>2. Cursor("table", 0)
    BY <1>1 DEF Cursor
  <2>3. QED
    BY <1>2, <1>3, <2>1, <2>2
<1>4. CASE in = "table"
  <2>1. Position("finalize", 0) = Total /\ Position(in, completed) = n + completed /\ completed = m
    BY <1>1, <1>4 DEF Position
  <2>2. Cursor("finalize", 0)
    BY DEF Cursor
  <2>3. QED
    BY <1>1, <1>2, <1>4, <2>1, <2>2
<1>5. QED
  BY <1>3, <1>4

\* What the files hold: the rows of groups, whole, or at least up to a checkpoint.
FilesType(fs) == DOMAIN fs \subseteq Files /\ fs \in [DOMAIN fs -> Seq(RowSet)]

UpTo(fs, c) ==
    /\ DOMAIN fs = Files
    /\ \A f \in Files :
        /\ c.offsets[f] \in 0 .. Len(fs[f])
        /\ SubSeq(fs[f], 1, c.offsets[f]) = ExpectedRows[Position(c.phase, c.completed)][f]

Saved(c) ==
    /\ c.status \in {"running", "checkpointed", "complete"}
    /\ c.status = "complete" <=> c.phase = "complete"
    /\ Cursor(c.phase, c.completed)
    /\ c.phase \in {"narrative", "table", "finalize", "complete"}
    /\ c.offsets \in [Files -> Nat]

\* The inductive invariant of the build.  While a build runs, its files hold the
\* rows up to its own cursor, which is at or past that of the checkpoint.
BuildTypes ==
    /\ at \in {"down", "create", "wipe", "groups", "save", "stop", "manifest", "final"}
    /\ phase \in {"narrative", "table", "finalize"} /\ Cursor(phase, done)
    /\ halfWiped \in BOOLEAN
    /\ FilesType(files)

Busy == at \in {"groups", "save", "stop", "manifest", "final"}

BuildRunning ==
    Busy =>
        /\ checkpoint # None_ /\ checkpoint.status # "complete" /\ halfWiped = FALSE
        /\ files = ExpectedRows[Position(phase, done)]
        /\ phase = "finalize" <=> at \in {"manifest", "final"}

BuildSaved ==
    checkpoint # None_ => Saved(checkpoint) /\ (halfWiped = FALSE => UpTo(files, checkpoint))

BuildFinal == at = "final" => manifest # None_ /\ manifest.offsets = Offsets

BuildComplete ==
    (checkpoint # None_ /\ checkpoint.status = "complete" /\ halfWiped = FALSE) =>
        /\ at \in {"down", "wipe"}
        /\ manifest # None_ /\ manifest.offsets = Offsets /\ checkpoint.offsets = Offsets

BuildFresh ==
    /\ at = "create" =>
        /\ halfWiped = FALSE /\ checkpoint = None_
        /\ \A f \in DOMAIN files : files[f] = <<>>
    /\ at \in {"create", "wipe"} => phase = "narrative" /\ done = 0

BuildHalf ==
    halfWiped = TRUE =>
        /\ at \in {"down", "wipe"}
        /\ checkpoint # None_ => DOMAIN files # Files

ChunkInvariant ==
    /\ BuildTypes /\ BuildRunning /\ BuildSaved /\ BuildFinal /\ BuildComplete
    /\ BuildFresh /\ BuildHalf

LEMMA ExpectedType ==
    ASSUME NEW n \in 0 .. Total
    PROVE  /\ FilesType(ExpectedRows[n]) /\ DOMAIN ExpectedRows[n] = Files
           /\ \A f \in Files : ExpectedRows[n][f] \in Seq(RowSet)
<1>1. ExpectedRows[n] \in [Files -> Seq(RowSet)]
  BY RowsExpected
<1> DEFINE fs == ExpectedRows[n]
<1> HIDE DEF fs
<1>2. DOMAIN fs = Files /\ fs \in [DOMAIN fs -> Seq(RowSet)] /\ \A f \in Files : fs[f] \in Seq(RowSet)
  BY <1>1 DEF fs
<1>3. QED
  BY <1>2 DEF FilesType, fs

\* A checkpoint describes the files it is written for.
LEMMA SaveWhole ==
    ASSUME NEW status \in {"running", "checkpointed", "complete"}, NEW in, NEW completed,
           Cursor(in, completed), in \in {"narrative", "table", "finalize", "complete"},
           status = "complete" <=> in = "complete",
           files = ExpectedRows[Position(in, completed)]
    PROVE  LET c == CheckpointValue(status, in, completed)
           IN  /\ Saved(c) /\ UpTo(files, c) /\ c # None_
               /\ c.status = status /\ c.offsets = Offsets
<1> DEFINE c == CheckpointValue(status, in, completed)
           n == Position(in, completed)
<1>1. n \in 0 .. Total
  BY CursorPlace
<1>2. DOMAIN files = Files /\ \A f \in Files : files[f] \in Seq(RowSet)
  BY <1>1, ExpectedType
<1>3. /\ c.status = status /\ c.phase = in /\ c.completed = completed /\ c.offsets = Offsets
  BY DEF CheckpointValue
<1>4. c # None_
  BY <1>3 DEF None_
<1>5. Offsets \in [Files -> Nat] /\ \A f \in Files : Offsets[f] = Len(files[f])
  BY <1>2 DEF Offsets
<1> HIDE DEF c
<1>6. Saved(c)
  BY <1>3, <1>5, Zenon DEF Saved
<1>7. ASSUME NEW f \in Files
      PROVE  /\ c.offsets[f] \in 0 .. Len(files[f])
             /\ SubSeq(files[f], 1, c.offsets[f]) = ExpectedRows[n][f]
  <2>1. c.offsets[f] = Len(files[f]) /\ files[f] \in Seq(RowSet)
    BY <1>2, <1>3, <1>5
  <2>2. Len(files[f]) \in 0 .. Len(files[f])
    BY <2>1
  <2>3. SubSeq(files[f], 1, Len(files[f])) = files[f]
    BY <2>1, <2>2, SubSeqPart
  <2>4. QED
    BY <2>1, <2>2, <2>3
<1>8. Position(c.phase, c.completed) = n
  BY <1>3
<1> HIDE DEF n
<1>9. UpTo(files, c)
  BY <1>2, <1>7, <1>8, Zenon DEF UpTo
<1>10. QED
  BY <1>3, <1>4, <1>6, <1>9 DEF c

\* Cutting the files back to a checkpoint.
LEMMA CutBack ==
    ASSUME NEW fs, FilesType(fs), NEW c, Saved(c), UpTo(fs, c)
    PROVE  LET n == Position(c.phase, c.completed)
           IN  /\ [f \in DOMAIN fs |-> SubSeq(fs[f], 1, c.offsets[f])] = ExpectedRows[n]
               /\ UpTo(ExpectedRows[n], c) /\ n \in 0 .. Total
<1> DEFINE n == Position(c.phase, c.completed)
           gs == [f \in DOMAIN fs |-> SubSeq(fs[f], 1, c.offsets[f])]
<1>1. n \in 0 .. Total
  BY CursorPlace DEF Saved
<1>2. /\ DOMAIN fs = Files /\ \A f \in Files : fs[f] \in Seq(RowSet)
      /\ \A f \in Files : /\ c.offsets[f] \in 0 .. Len(fs[f])
                          /\ SubSeq(fs[f], 1, c.offsets[f]) = ExpectedRows[n][f]
  BY Zenon DEF UpTo, FilesType
<1>3. ExpectedRows[n] \in [Files -> Seq(RowSet)]
  BY <1>1, RowsExpected
<1> HIDE DEF n
<1>4. gs = ExpectedRows[n]
  BY <1>2, <1>3
<1>5. ASSUME NEW f \in Files
      PROVE  /\ c.offsets[f] \in 0 .. Len(ExpectedRows[n][f])
             /\ SubSeq(ExpectedRows[n][f], 1, c.offsets[f]) = ExpectedRows[n][f]
  <2> DEFINE s == fs[f]
             k == c.offsets[f]
             t == SubSeq(s, 1, k)
  <2>1. s \in Seq(RowSet) /\ k \in 0 .. Len(s)
    BY <1>2
  <2>2. t = ExpectedRows[n][f]
    BY <1>2
  <2> HIDE DEF s, k
  <2>3. t \in Seq(RowSet) /\ Len(t) = k
    BY <2>1, SubSeqPart
  <2>4. k \in 0 .. Len(t)
    BY <2>1, <2>3
  <2> HIDE DEF t
  <2>5. SubSeq(t, 1, k) = t
    BY <2>3, <2>4, SubSeqPart
  <2>6. QED
    BY <2>2, <2>4, <2>5 DEF k
<1>6. DOMAIN ExpectedRows[n] = Files
  BY <1>3
<1>7. UpTo(ExpectedRows[n], c)
  BY <1>5, <1>6, Zenon DEF UpTo, n
<1>8. QED
  BY <1>1, <1>4, <1>7, Zenon DEF n

\* Writing the rows of the next group.
LEMMA WriteNext ==
    ASSUME NEW n \in 1 .. Total, NEW c, UpTo(ExpectedRows[n - 1], c)
    PROVE  /\ Appended(ExpectedRows[n - 1], PhaseOf(n), GroupAt(n)) = ExpectedRows[n]
           /\ UpTo(ExpectedRows[n], c)
<1> DEFINE fs == ExpectedRows[n - 1]
           rows(f) == GroupRows(PhaseOf(n), GroupAt(n))[f]
<1>1. n - 1 \in 0 .. Total /\ n \in 0 .. Total
  <2>1. Total \in Nat
    BY GroupsShape
  <2>2. QED
    BY <2>1
<1>2. fs \in [Files -> Seq(RowSet)] /\ \A f \in Files : rows(f) \in Seq(RowSet)
  BY <1>1, RowsExpected, RowsType
<1>3. ExpectedRows[n] = [f \in Files |-> fs[f] \o rows(f)]
  BY RowsExpected
<1>4. Appended(fs, PhaseOf(n), GroupAt(n)) = ExpectedRows[n]
  <2>1. DOMAIN fs = Files
    BY <1>2
  <2>2. QED
    BY <1>3, <2>1 DEF Appended
<1> HIDE DEF fs, rows
<1>5. ASSUME NEW f \in Files
      PROVE  /\ c.offsets[f] \in 0 .. Len(ExpectedRows[n][f])
             /\ SubSeq(ExpectedRows[n][f], 1, c.offsets[f])
                    = ExpectedRows[Position(c.phase, c.completed)][f]
  <2> DEFINE s == fs[f]
             t == rows(f)
             k == c.offsets[f]
  <2>1. s \in Seq(RowSet) /\ t \in Seq(RowSet)
    BY <1>2
  <2>2. k \in 0 .. Len(s) /\ SubSeq(s, 1, k) = ExpectedRows[Position(c.phase, c.completed)][f]
    BY Zenon DEF UpTo, fs
  <2>3. ExpectedRows[n][f] = s \o t
    BY <1>3
  <2> HIDE DEF s, t, k
  <2>4. k \in 0 .. Len(s \o t) /\ SubSeq(s \o t, 1, k) = SubSeq(s, 1, k)
    BY <2>1, <2>2, SubSeqJoined
  <2>5. QED
    BY <2>2, <2>3, <2>4 DEF k
<1>6. DOMAIN ExpectedRows[n] = Files
  BY <1>1, ExpectedType
<1>7. UpTo(ExpectedRows[n], c)
  BY <1>5, <1>6, Zenon DEF UpTo
<1>8. QED
  BY <1>4, <1>7 DEF fs

\* Losing the ends of the files.
LEMMA LoseEnds ==
    ASSUME NEW fs, FilesType(fs), NEW kept, \A f \in DOMAIN fs : kept[f] \in 0 .. Len(fs[f])
    PROVE  LET gs == [f \in DOMAIN fs |-> SubSeq(fs[f], 1, kept[f])]
           IN  /\ FilesType(gs) /\ DOMAIN gs = DOMAIN fs
               /\ (\A f \in DOMAIN fs : kept[f] = Len(fs[f])) => gs = fs
               /\ \A c : (UpTo(fs, c) /\ \A f \in DOMAIN fs : c.offsets[f] <= kept[f]) => UpTo(gs, c)
<1> DEFINE gs == [f \in DOMAIN fs |-> SubSeq(fs[f], 1, kept[f])]
<1>1. DOMAIN fs \subseteq Files /\ fs \in [DOMAIN fs -> Seq(RowSet)]
  BY DEF FilesType
<1>2. ASSUME NEW f \in DOMAIN fs
      PROVE  /\ gs[f] \in Seq(RowSet) /\ Len(gs[f]) = kept[f]
             /\ kept[f] = Len(fs[f]) => gs[f] = fs[f]
             /\ \A j \in 0 .. kept[f] : SubSeq(gs[f], 1, j) = SubSeq(fs[f], 1, j)
  <2> DEFINE s == fs[f]
             k == kept[f]
  <2>1. s \in Seq(RowSet) /\ k \in 0 .. Len(s)
    BY <1>1
  <2>2. gs[f] = SubSeq(s, 1, k)
    OBVIOUS
  <2> HIDE DEF s, k, gs
  <2>3. /\ SubSeq(s, 1, k) \in Seq(RowSet) /\ Len(SubSeq(s, 1, k)) = k
        /\ k = Len(s) => SubSeq(s, 1, k) = s
        /\ \A j \in 0 .. k : SubSeq(SubSeq(s, 1, k), 1, j) = SubSeq(s, 1, j)
    BY <2>1, SubSeqPart
  <2>4. /\ gs[f] \in Seq(RowSet) /\ Len(gs[f]) = k
        /\ k = Len(s) => gs[f] = s
        /\ \A j \in 0 .. k : SubSeq(gs[f], 1, j) = SubSeq(s, 1, j)
    BY <2>2, <2>3, Zenon
  <2>5. QED
    BY <2>4 DEF s, k
<1>3. DOMAIN gs = DOMAIN fs /\ gs = [f \in DOMAIN fs |-> gs[f]]
  OBVIOUS
<1> HIDE DEF gs
<1>4. FilesType(gs)
  <2>1. gs \in [DOMAIN fs -> Seq(RowSet)]
    BY <1>2, <1>3
  <2>2. QED
    BY <1>1, <1>3, <2>1, Zenon DEF FilesType
<1>5. (\A f \in DOMAIN fs : kept[f] = Len(fs[f])) => gs = fs
  BY <1>1, <1>2, <1>3
<1>6. ASSUME NEW c, UpTo(fs, c), \A f \in DOMAIN fs : c.offsets[f] <= kept[f]
      PROVE  UpTo(gs, c)
  <2>1. DOMAIN fs = Files
    BY <1>6 DEF UpTo
  <2>2. ASSUME NEW f \in Files
        PROVE  /\ c.offsets[f] \in 0 .. Len(gs[f])
               /\ SubSeq(gs[f], 1, c.offsets[f]) = ExpectedRows[Position(c.phase, c.completed)][f]
    <3> DEFINE j == c.offsets[f]
    <3>1. j \in 0 .. Len(fs[f]) /\ SubSeq(fs[f], 1, j) = ExpectedRows[Position(c.phase, c.completed)][f]
      BY <1>6, Zenon DEF UpTo
    <3>2. kept[f] \in 0 .. Len(fs[f]) /\ j <= kept[f] /\ Len(gs[f]) = kept[f]
      BY <1>2, <1>6, <2>1
    <3>3. Len(fs[f]) \in Nat
      BY <1>1, <2>1
    <3> HIDE DEF j
    <3>4. j \in 0 .. kept[f]
      <4>1. PICK l \in Nat : l = Len(fs[f])
        BY <3>3
      <4>2. QED
        BY <3>1, <3>2, <4>1
    <3>5. SubSeq(gs[f], 1, j) = SubSeq(fs[f], 1, j)
      BY <1>2, <2>1, <3>4
    <3>6. QED
      BY <3>1, <3>2, <3>4, <3>5, Zenon DEF j
  <2>3. QED
    BY <1>3, <2>1, <2>2, Zenon DEF UpTo
<1>7. QED
  BY <1>3, <1>4, <1>5, <1>6, Zenon DEF gs

LEMMA FirstCursor == Cursor("narrative", 0) /\ Position("narrative", 0) = 0
<1>1. PICK n \in Nat : n = Len(Groups.narrative)
  BY GroupsShape
<1>2. 0 \in 0 .. n
  OBVIOUS
<1>3. QED
  BY <1>1, <1>2 DEF Cursor, Position

LEMMA FilesKnown == Files = {"chunks", "links", "failures"} /\ Files # {}
  BY DEF Files, Outputs

LEMMA ChunkInvariantInit == ChunkInit => ChunkInvariant
<1> SUFFICES ASSUME ChunkInit PROVE ChunkInvariant
  OBVIOUS
<1>1. /\ files = <<>> /\ checkpoint = None_ /\ at = "down" /\ phase = "narrative" /\ done = 0
      /\ halfWiped = FALSE
  BY Zenon DEF ChunkInit
<1>2. FilesType(files)
  BY <1>1 DEF FilesType
<1>3. BuildTypes
  BY <1>1, <1>2, FirstCursor DEF BuildTypes
<1>4. ~Busy /\ at \notin {"create", "wipe"}
  BY <1>1 DEF Busy
<1>5. QED
  BY <1>1, <1>3, <1>4 DEF ChunkInvariant, BuildRunning, BuildSaved, BuildFinal, BuildComplete,
                          BuildFresh, BuildHalf

LEMMA FreshFiles ==
    ASSUME NEW fs, FilesType(fs)
    PROVE  fs = <<>> <=> DOMAIN fs = {}
<1>1. DOMAIN <<>> = {}
  OBVIOUS
<1>2. ASSUME DOMAIN fs = {} PROVE fs = <<>>
  BY <1>2 DEF FilesType
<1>3. QED
  BY <1>1, <1>2

LEMMA StartStep == ChunkInvariant /\ Start => ChunkInvariant'
<1> SUFFICES ASSUME ChunkInvariant, Start PROVE ChunkInvariant'
  OBVIOUS
<1>1. /\ files = <<>> /\ checkpoint = None_ /\ files' = files /\ checkpoint' = checkpoint
      /\ at' = "create" /\ phase' = "narrative" /\ done' = 0 /\ halfWiped' = FALSE
  BY DEF Start, Fresh
<1>2. BuildTypes'
  BY <1>1, FirstCursor DEF ChunkInvariant, BuildTypes
<1>3. ~Busy' /\ at' # "final"
  BY <1>1 DEF Busy
<1>4. BuildFresh' /\ BuildHalf'
  BY <1>1 DEF BuildFresh, BuildHalf
<1>5. QED
  BY <1>1, <1>2, <1>3, <1>4 DEF ChunkInvariant, BuildRunning, BuildSaved, BuildFinal, BuildComplete

LEMMA StartOverStep == ChunkInvariant /\ StartOver => ChunkInvariant'
<1> SUFFICES ASSUME ChunkInvariant, StartOver PROVE ChunkInvariant'
  OBVIOUS
<1>1. /\ files' = files /\ checkpoint' = checkpoint /\ manifest' = manifest /\ halfWiped' = halfWiped
      /\ at' = "wipe" /\ phase' = "narrative" /\ done' = 0
  BY DEF StartOver
<1>2. BuildTypes'
  BY <1>1, FirstCursor DEF ChunkInvariant, BuildTypes
<1>3. ~Busy' /\ at' # "final"
  BY <1>1 DEF Busy
<1>4. BuildFresh' /\ BuildHalf' /\ BuildSaved'
  BY <1>1 DEF ChunkInvariant, BuildFresh, BuildHalf, BuildSaved
<1>5. Offsets' = Offsets
  BY <1>1 DEF Offsets
<1>6. BuildComplete'
  BY <1>1, <1>5 DEF ChunkInvariant, BuildComplete
<1>7. QED
  BY <1>2, <1>3, <1>4, <1>6 DEF ChunkInvariant, BuildRunning, BuildFinal

LEMMA WipeStep == ChunkInvariant /\ WipeNext => ChunkInvariant'
<1> SUFFICES ASSUME ChunkInvariant, WipeNext PROVE ChunkInvariant'
  OBVIOUS
<1>1. /\ at = "wipe" /\ at' = at /\ phase' = phase /\ done' = done /\ halfWiped' = TRUE
  BY DEF WipeNext
<1>2. /\ FilesType(files) /\ phase = "narrative" /\ done = 0
      /\ checkpoint # None_ => Saved(checkpoint)
      /\ checkpoint # None_ => DOMAIN files # {} \/ DOMAIN files # Files
  BY <1>1, FilesKnown DEF ChunkInvariant, BuildTypes, BuildFresh, BuildSaved
<1>3. /\ FilesType(files')
      /\ checkpoint' # None_ => checkpoint' = checkpoint
      /\ checkpoint' # None_ => DOMAIN files' # Files
  <2>1. CASE files # <<>>
    <3>1. PICK i \in DOMAIN Outputs :
            /\ Outputs[i] \in DOMAIN files
            /\ files' = [f \in DOMAIN files \ {Outputs[i]} |-> files[f]]
      BY <2>1 DEF WipeNext
    <3>2. checkpoint' = checkpoint
      BY <2>1 DEF WipeNext
    <3>3. DOMAIN files' = DOMAIN files \ {Outputs[i]} /\ Outputs[i] \in Files
      BY <3>1, <1>2 DEF FilesType
    <3>4. FilesType(files')
      BY <1>2, <3>1, <3>3 DEF FilesType
    <3>5. QED
      BY <3>2, <3>3, <3>4
  <2>2. CASE files = <<>>
    <3>1. files' = files
      BY <2>2 DEF WipeNext
    <3>2. DOMAIN files' # Files
      BY <1>2, <2>2, <3>1, FilesKnown, FreshFiles
    <3>3. checkpoint' = None_ \/ checkpoint' = checkpoint
      BY <2>2, Zenon DEF WipeNext
    <3>4. QED
      BY <1>2, <3>1, <3>2, <3>3
  <2>3. QED
    BY <2>1, <2>2
<1>4. BuildTypes'
  BY <1>1, <1>2, <1>3, FirstCursor DEF BuildTypes
<1>5. ~Busy' /\ at' # "final" /\ at' # "create"
  BY <1>1 DEF Busy
<1>6. BuildSaved' /\ BuildHalf' /\ BuildFresh'
  BY <1>1, <1>2, <1>3 DEF BuildSaved, BuildHalf, BuildFresh
<1>7. QED
  BY <1>1, <1>4, <1>5, <1>6 DEF ChunkInvariant, BuildRunning, BuildFinal, BuildComplete

LEMMA WipedStep == ChunkInvariant /\ Wiped => ChunkInvariant'
<1> SUFFICES ASSUME ChunkInvariant, Wiped PROVE ChunkInvariant'
  OBVIOUS
<1>1. /\ at = "wipe" /\ files = <<>> /\ checkpoint = None_ /\ files' = files /\ checkpoint' = checkpoint
      /\ at' = "create" /\ phase' = phase /\ done' = done /\ halfWiped' = FALSE
  BY DEF Wiped, Fresh
<1>2. phase = "narrative" /\ done = 0 /\ FilesType(files)
  BY <1>1 DEF ChunkInvariant, BuildFresh, BuildTypes
<1>3. BuildTypes'
  BY <1>1, <1>2, FirstCursor DEF BuildTypes
<1>4. ~Busy' /\ at' # "final"
  BY <1>1 DEF Busy
<1>5. BuildFresh' /\ BuildHalf'
  BY <1>1, <1>2 DEF BuildFresh, BuildHalf
<1>6. QED
  BY <1>1, <1>3, <1>4, <1>5 DEF ChunkInvariant, BuildRunning, BuildSaved, BuildFinal, BuildComplete

LEMMA CreateStep == ChunkInvariant /\ CreateNext => ChunkInvariant'
<1> SUFFICES ASSUME ChunkInvariant, CreateNext PROVE ChunkInvariant'
  OBVIOUS
<1>1. PICK i \in DOMAIN Outputs :
        files' = [f \in DOMAIN files \cup {Outputs[i]} |-> IF f \in DOMAIN files THEN files[f] ELSE <<>>]
  BY DEF CreateNext
<1>2. /\ at = "create" /\ checkpoint' = checkpoint /\ at' = at /\ phase' = phase /\ done' = done
      /\ halfWiped' = halfWiped
  BY DEF CreateNext
<1>3. /\ FilesType(files) /\ phase = "narrative" /\ done = 0 /\ halfWiped = FALSE
      /\ checkpoint = None_ /\ \A f \in DOMAIN files : files[f] = <<>>
  BY <1>2 DEF ChunkInvariant, BuildFresh, BuildTypes
<1>4. FilesType(files') /\ \A f \in DOMAIN files' : files'[f] = <<>>
  <2>1. Outputs[i] \in Files /\ DOMAIN files \subseteq Files
    BY <1>3 DEF Files, FilesType
  <2>2. /\ DOMAIN files' = DOMAIN files \cup {Outputs[i]}
        /\ \A f \in DOMAIN files' : files'[f] = <<>>
    BY <1>1, <1>3
  <2>3. files' \in [DOMAIN files' -> Seq(RowSet)]
    <3>1. <<>> \in Seq(RowSet)
      OBVIOUS
    <3>2. files' = [f \in DOMAIN files' |-> files'[f]]
      BY <1>1
    <3>3. QED
      BY <2>2, <3>1, <3>2
  <2>4. QED
    BY <2>1, <2>2, <2>3, Zenon DEF FilesType
<1>5. BuildTypes'
  BY <1>2, <1>3, <1>4, FirstCursor DEF BuildTypes
<1>6. ~Busy' /\ at' # "final"
  BY <1>2 DEF Busy
<1>7. BuildFresh' /\ BuildHalf'
  BY <1>2, <1>3, <1>4 DEF BuildFresh, BuildHalf
<1>8. QED
  BY <1>2, <1>3, <1>5, <1>6, <1>7
  DEF ChunkInvariant, BuildRunning, BuildSaved, BuildFinal, BuildComplete

\* What holds again once a checkpoint was written for the files.
LEMMA SavedAgain ==
    ASSUME ChunkInvariant, NEW status \in {"running", "checkpointed", "complete"},
           NEW in, NEW completed, Cursor(in, completed),
           in \in {"narrative", "table", "finalize", "complete"},
           status = "complete" <=> in = "complete",
           files = ExpectedRows[Position(in, completed)],
           files' = files, checkpoint' = CheckpointValue(status, in, completed)
    PROVE  /\ checkpoint' # None_ /\ checkpoint'.status = status
           /\ checkpoint'.offsets = Offsets /\ Offsets' = Offsets
           /\ BuildSaved' /\ FilesType(files')
<1> DEFINE c == CheckpointValue(status, in, completed)
<1>1. Saved(c) /\ UpTo(files, c) /\ c # None_ /\ c.status = status /\ c.offsets = Offsets
  BY SaveWhole, Zenon
<1> HIDE DEF c
<1>2. checkpoint' = c
  BY DEF c
<1>3. BuildSaved'
  BY <1>1, <1>2 DEF BuildSaved
<1>4. Offsets' = Offsets
  BY DEF Offsets
<1>5. FilesType(files')
  BY DEF ChunkInvariant, BuildTypes
<1>6. QED
  BY <1>1, <1>2, <1>3, <1>4, <1>5

LEMMA FirstCheckpointStep == ChunkInvariant /\ FirstCheckpoint => ChunkInvariant'
<1> SUFFICES ASSUME ChunkInvariant, FirstCheckpoint PROVE ChunkInvariant'
  OBVIOUS
<1>1. /\ at = "create" /\ DOMAIN files = Files /\ at' = "groups"
      /\ checkpoint' = CheckpointValue("running", "narrative", 0)
      /\ files' = files /\ phase' = phase /\ done' = done /\ halfWiped' = halfWiped
  BY DEF FirstCheckpoint
<1>2. /\ FilesType(files) /\ phase = "narrative" /\ done = 0 /\ halfWiped = FALSE
      /\ \A f \in DOMAIN files : files[f] = <<>>
  BY <1>1 DEF ChunkInvariant, BuildFresh, BuildTypes
<1>3. files = ExpectedRows[Position("narrative", 0)]
  <2>1. files = [f \in Files |-> <<>>]
    BY <1>1, <1>2 DEF FilesType
  <2>2. ExpectedRows[0] = [f \in Files |-> <<>>]
    BY RowsExpected
  <2>3. QED
    BY <2>1, <2>2, FirstCursor
<1>4. /\ checkpoint' # None_ /\ checkpoint'.status = "running" /\ BuildSaved' /\ FilesType(files')
  BY <1>1, <1>3, FirstCursor, SavedAgain
<1>5. BuildTypes'
  BY <1>1, <1>2, <1>4, FirstCursor DEF BuildTypes
<1>6. BuildRunning'
  BY <1>1, <1>2, <1>3, <1>4 DEF BuildRunning
<1>7. BuildFresh' /\ BuildHalf' /\ BuildComplete' /\ BuildFinal'
  BY <1>1, <1>2, <1>4 DEF BuildFresh, BuildHalf, BuildComplete, BuildFinal
<1>8. QED
  BY <1>4, <1>5, <1>6, <1>7 DEF ChunkInvariant

LEMMA ResumeStep == ChunkInvariant /\ Resume => ChunkInvariant'
<1> SUFFICES ASSUME ChunkInvariant, Resume PROVE ChunkInvariant'
  OBVIOUS
<1> DEFINE n == Position(checkpoint.phase, checkpoint.completed)
<1>1. /\ at = "down" /\ checkpoint # None_ /\ checkpoint.status # "complete"
      /\ DOMAIN checkpoint.offsets \subseteq DOMAIN files
      /\ files' = [f \in DOMAIN files |-> SubSeq(files[f], 1, checkpoint.offsets[f])]
      /\ phase' = checkpoint.phase /\ done' = checkpoint.completed
      /\ at' = IF checkpoint.phase = "finalize" THEN "manifest" ELSE "groups"
      /\ checkpoint' = checkpoint /\ halfWiped' = halfWiped
  BY DEF Resume, Started
<1>2. FilesType(files) /\ Saved(checkpoint) /\ halfWiped \in BOOLEAN
  BY <1>1 DEF ChunkInvariant, BuildTypes, BuildSaved
<1>3. DOMAIN files = Files
  BY <1>1, <1>2 DEF Saved, FilesType
<1>4. halfWiped = FALSE
  BY <1>1, <1>2, <1>3 DEF ChunkInvariant, BuildHalf
<1>5. UpTo(files, checkpoint)
  BY <1>1, <1>4 DEF ChunkInvariant, BuildSaved
<1>6. files' = ExpectedRows[n] /\ UpTo(ExpectedRows[n], checkpoint) /\ n \in 0 .. Total
  BY <1>1, <1>2, <1>5, CutBack, Zenon
<1>7. FilesType(files')
  BY <1>6, ExpectedType, Zenon
<1>8. /\ Cursor(checkpoint.phase, checkpoint.completed)
      /\ checkpoint.phase \in {"narrative", "table", "finalize"}
  BY <1>1, <1>2 DEF Saved
<1> HIDE DEF n
<1>9. BuildTypes'
  BY <1>1, <1>2, <1>7, <1>8 DEF BuildTypes
<1>10. Position(phase', done') = n
  BY <1>1 DEF n
<1>11. BuildRunning'
  BY <1>1, <1>4, <1>6, <1>8, <1>10 DEF BuildRunning
<1>12. BuildSaved'
  BY <1>1, <1>2, <1>6 DEF BuildSaved
<1>13. BuildFinal' /\ BuildComplete' /\ BuildFresh' /\ BuildHalf'
  BY <1>1, <1>4 DEF BuildFinal, BuildComplete, BuildFresh, BuildHalf
<1>14. QED
  BY <1>9, <1>11, <1>12, <1>13 DEF ChunkInvariant

LEMMA ProcessStep == ChunkInvariant /\ ProcessGroup => ChunkInvariant'
<1> SUFFICES ASSUME ChunkInvariant, ProcessGroup PROVE ChunkInvariant'
  OBVIOUS
<1> DEFINE n == Position(phase, done) + 1
<1>1. /\ at = "groups" /\ done < Len(Groups[phase])
      /\ files' = Appended(files, phase, Groups[phase][done + 1])
      /\ done' = done + 1 /\ at' \in {"groups", "save", "stop"}
      /\ checkpoint' = checkpoint /\ phase' = phase /\ halfWiped' = halfWiped
  BY DEF ProcessGroup
<1>2. /\ checkpoint # None_ /\ checkpoint.status # "complete" /\ halfWiped = FALSE
      /\ files = ExpectedRows[Position(phase, done)] /\ phase \in {"narrative", "table"}
      /\ Cursor(phase, done) /\ Saved(checkpoint) /\ UpTo(files, checkpoint)
  <2>1. Busy
    BY <1>1 DEF Busy
  <2>2. /\ checkpoint # None_ /\ checkpoint.status # "complete" /\ halfWiped = FALSE
        /\ files = ExpectedRows[Position(phase, done)] /\ phase # "finalize"
    BY <1>1, <2>1 DEF ChunkInvariant, BuildRunning
  <2>3. QED
    BY <2>2 DEF ChunkInvariant, BuildTypes, BuildSaved
<1>3. /\ Cursor(phase, done + 1) /\ Position(phase, done + 1) = n /\ n \in 1 .. Total
      /\ PhaseOf(n) = phase /\ GroupAt(n) = Groups[phase][done + 1]
  BY <1>1, <1>2, CursorStep, Zenon
<1>4. files = ExpectedRows[n - 1]
  <2>1. Position(phase, done) \in 0 .. Total
    BY <1>2, CursorPlace
  <2>2. n - 1 = Position(phase, done)
    BY <2>1
  <2>3. QED
    BY <1>2, <2>2
<1> HIDE DEF n
<1>5. files' = ExpectedRows[n] /\ UpTo(ExpectedRows[n], checkpoint)
  BY <1>1, <1>2, <1>3, <1>4, WriteNext
<1>6. FilesType(files')
  <2>1. n \in 0 .. Total
    <3>1. Total \in Nat
      BY GroupsShape
    <3>2. QED
      BY <1>3, <3>1
  <2>2. QED
    BY <1>5, <2>1, ExpectedType, Zenon
<1>7. BuildTypes'
  BY <1>1, <1>2, <1>3, <1>6 DEF BuildTypes
<1>8. BuildRunning'
  BY <1>1, <1>2, <1>3, <1>5 DEF BuildRunning
<1>9. BuildSaved'
  BY <1>1, <1>2, <1>5 DEF BuildSaved
<1>10. BuildFinal' /\ BuildComplete' /\ BuildFresh' /\ BuildHalf'
  BY <1>1, <1>2 DEF BuildFinal, BuildComplete, BuildFresh, BuildHalf
<1>11. QED
  BY <1>7, <1>8, <1>9, <1>10 DEF ChunkInvariant

LEMMA SaveStep == ChunkInvariant /\ SaveCheckpoint => ChunkInvariant'
<1> SUFFICES ASSUME ChunkInvariant, SaveCheckpoint PROVE ChunkInvariant'
  OBVIOUS
<1>1. /\ at \in {"save", "stop"} /\ checkpoint' = CheckpointValue("checkpointed", phase, done)
      /\ at' \in {"groups", "down"} /\ files' = files /\ phase' = phase /\ done' = done
      /\ halfWiped' = halfWiped
  BY DEF SaveCheckpoint
<1>2. /\ halfWiped = FALSE /\ files = ExpectedRows[Position(phase, done)]
      /\ phase \in {"narrative", "table"} /\ Cursor(phase, done)
  <2>1. Busy
    BY <1>1 DEF Busy
  <2>2. QED
    BY <1>1, <2>1 DEF ChunkInvariant, BuildRunning, BuildTypes
<1>3. checkpoint' # None_ /\ checkpoint'.status = "checkpointed" /\ BuildSaved' /\ FilesType(files')
  BY <1>1, <1>2, SavedAgain
<1>4. BuildTypes'
  BY <1>1, <1>2, <1>3 DEF BuildTypes
<1>5. BuildRunning'
  BY <1>1, <1>2, <1>3 DEF BuildRunning
<1>6. BuildFinal' /\ BuildComplete' /\ BuildFresh' /\ BuildHalf'
  BY <1>1, <1>2, <1>3 DEF BuildFinal, BuildComplete, BuildFresh, BuildHalf
<1>7. QED
  BY <1>3, <1>4, <1>5, <1>6 DEF ChunkInvariant

LEMMA NextPhaseStep == ChunkInvariant /\ NextPhase => ChunkInvariant'
<1> SUFFICES ASSUME ChunkInvariant, NextPhase PROVE ChunkInvariant'
  OBVIOUS
<1>1. /\ at = "groups" /\ done = Len(Groups[phase])
      /\ phase' = NextPhaseOf[phase] /\ done' = 0
      /\ checkpoint' = CheckpointValue("running", NextPhaseOf[phase], 0)
      /\ at' = IF NextPhaseOf[phase] = "finalize" THEN "manifest" ELSE "groups"
      /\ files' = files /\ halfWiped' = halfWiped
  BY Zenon DEF NextPhase
<1>2. /\ halfWiped = FALSE /\ files = ExpectedRows[Position(phase, done)]
      /\ phase \in {"narrative", "table"}
  <2>1. Busy
    BY <1>1 DEF Busy
  <2>2. QED
    BY <1>1, <2>1 DEF ChunkInvariant, BuildRunning, BuildTypes
<1> DEFINE next == NextPhaseOf[phase]
<1>3. Cursor(next, 0) /\ Position(next, 0) = Position(phase, done) /\ next \in {"table", "finalize"}
  BY <1>1, <1>2, CursorTurn
<1> HIDE DEF next
<1>4. files = ExpectedRows[Position(next, 0)]
  BY <1>2, <1>3
<1>5. checkpoint' # None_ /\ checkpoint'.status = "running" /\ BuildSaved' /\ FilesType(files')
  <2>1. checkpoint' = CheckpointValue("running", next, 0) /\ files' = files
    BY <1>1 DEF next
  <2>2. next \in {"narrative", "table", "finalize", "complete"} /\ next # "complete"
    BY <1>3
  <2>3. QED
    BY <1>3, <1>4, <2>1, <2>2, SavedAgain
<1>6. phase' = next /\ done' = 0 /\ at' = IF next = "finalize" THEN "manifest" ELSE "groups"
  BY <1>1 DEF next
<1>7. BuildTypes'
  BY <1>1, <1>2, <1>3, <1>5, <1>6 DEF BuildTypes
<1>8. BuildRunning'
  BY <1>1, <1>2, <1>3, <1>4, <1>5, <1>6 DEF BuildRunning
<1>9. BuildFinal' /\ BuildComplete' /\ BuildFresh' /\ BuildHalf'
  BY <1>1, <1>2, <1>3, <1>5, <1>6 DEF BuildFinal, BuildComplete, BuildFresh, BuildHalf
<1>10. QED
  BY <1>5, <1>7, <1>8, <1>9 DEF ChunkInvariant

LEMMA PublishStep == ChunkInvariant /\ PublishManifest => ChunkInvariant'
<1> SUFFICES ASSUME ChunkInvariant, PublishManifest PROVE ChunkInvariant'
  OBVIOUS
<1>1. /\ at = "manifest" /\ at' = "final" /\ manifest' = [status |-> "complete", offsets |-> Offsets]
      /\ files' = files /\ checkpoint' = checkpoint /\ phase' = phase /\ done' = done
      /\ halfWiped' = halfWiped
  BY DEF PublishManifest
<1>2. /\ checkpoint # None_ /\ checkpoint.status # "complete" /\ halfWiped = FALSE
      /\ files = ExpectedRows[Position(phase, done)] /\ phase = "finalize"
  <2>1. Busy
    BY <1>1 DEF Busy
  <2>2. QED
    BY <1>1, <2>1 DEF ChunkInvariant, BuildRunning
<1>3. manifest' # None_ /\ manifest'.offsets = Offsets /\ Offsets' = Offsets
  BY <1>1 DEF None_, Offsets
<1>4. BuildTypes' /\ BuildSaved'
  BY <1>1 DEF ChunkInvariant, BuildTypes, BuildSaved
<1>5. BuildRunning'
  BY <1>1, <1>2 DEF BuildRunning
<1>6. BuildFinal' /\ BuildComplete' /\ BuildFresh' /\ BuildHalf'
  BY <1>1, <1>2, <1>3 DEF BuildFinal, BuildComplete, BuildFresh, BuildHalf
<1>7. QED
  BY <1>4, <1>5, <1>6 DEF ChunkInvariant

LEMMA FinalStep == ChunkInvariant /\ FinalCheckpoint => ChunkInvariant'
<1> SUFFICES ASSUME ChunkInvariant, FinalCheckpoint PROVE ChunkInvariant'
  OBVIOUS
<1>1. /\ at = "final" /\ at' = "down" /\ checkpoint' = CheckpointValue("complete", "complete", 0)
      /\ files' = files /\ manifest' = manifest /\ phase' = phase /\ done' = done
      /\ halfWiped' = halfWiped
  BY DEF FinalCheckpoint
<1>2. /\ halfWiped = FALSE /\ files = ExpectedRows[Position(phase, done)] /\ phase = "finalize"
      /\ Cursor(phase, done) /\ manifest # None_ /\ manifest.offsets = Offsets
  <2>1. Busy
    BY <1>1 DEF Busy
  <2>2. QED
    BY <1>1, <2>1 DEF ChunkInvariant, BuildRunning, BuildTypes, BuildFinal
<1>3. Cursor("complete", 0) /\ Position("complete", 0) = Total
  <2>1. Cursor("complete", 0)
    BY DEF Cursor
  <2>2. QED
    BY <2>1, CursorPlace
<1>4. files = ExpectedRows[Position("complete", 0)]
  <2>1. Position(phase, done) = Total
    BY <1>2, CursorPlace
  <2>2. QED
    BY <1>2, <1>3, <2>1
<1>5. /\ checkpoint' # None_ /\ checkpoint'.status = "complete" /\ BuildSaved' /\ FilesType(files')
      /\ checkpoint'.offsets = Offsets /\ Offsets' = Offsets
  BY <1>1, <1>3, <1>4, SavedAgain
<1>6. BuildTypes'
  BY <1>1, <1>2, <1>5 DEF ChunkInvariant, BuildTypes
<1>7. ~Busy' /\ at' \notin {"create", "wipe", "final"}
  BY <1>1 DEF Busy
<1>8. BuildComplete' /\ BuildHalf'
  BY <1>1, <1>2, <1>5 DEF BuildComplete, BuildHalf
<1>9. QED
  BY <1>5, <1>6, <1>7, <1>8 DEF ChunkInvariant, BuildRunning, BuildFinal, BuildFresh

LEMMA KilledStep == ChunkInvariant /\ Killed => ChunkInvariant'
<1> SUFFICES ASSUME ChunkInvariant, Killed PROVE ChunkInvariant'
  OBVIOUS
<1>1. PICK kept :
        /\ \A f \in DOMAIN files : kept[f] \in Synced(f) .. Len(files[f])
        /\ files' = [f \in DOMAIN files |-> SubSeq(files[f], 1, kept[f])]
  BY DEF Killed
<1>2. /\ at' = "down" /\ checkpoint' = checkpoint /\ manifest' = manifest
      /\ phase' = phase /\ done' = done /\ halfWiped' = halfWiped
  BY DEF Killed
<1>3. /\ FilesType(files) /\ halfWiped \in BOOLEAN
      /\ checkpoint # None_ => Saved(checkpoint)
      /\ checkpoint # None_ /\ halfWiped = FALSE => UpTo(files, checkpoint)
  BY DEF ChunkInvariant, BuildTypes, BuildSaved
<1>4. \A f \in DOMAIN files : f \in Files /\ Len(files[f]) \in Nat
  BY <1>3 DEF FilesType
<1>5. ASSUME NEW f \in DOMAIN files PROVE kept[f] \in 0 .. Len(files[f])
  <2>1. Synced(f) \in Nat
    BY <1>3, <1>4 DEF Synced, Saved
  <2>2. kept[f] \in Synced(f) .. Len(files[f])
    BY <1>1
  <2>3. QED
    BY <1>4, <2>1, <2>2
<1>6. /\ FilesType(files') /\ DOMAIN files' = DOMAIN files
      /\ (\A f \in DOMAIN files : kept[f] = Len(files[f])) => files' = files
      /\ \A c : (UpTo(files, c) /\ \A f \in DOMAIN files : c.offsets[f] <= kept[f]) => UpTo(files', c)
  BY <1>1, <1>3, <1>5, LoseEnds
<1>7. ASSUME checkpoint # None_, halfWiped = FALSE
      PROVE  /\ DOMAIN files = Files
             /\ \A f \in Files : checkpoint.offsets[f] \in 0 .. Len(files[f]) /\ checkpoint.offsets[f] <= kept[f]
  <2>1. DOMAIN files = Files /\ \A f \in Files : checkpoint.offsets[f] \in 0 .. Len(files[f])
    BY <1>3, <1>7, Zenon DEF UpTo
  <2>2. ASSUME NEW f \in Files PROVE checkpoint.offsets[f] <= kept[f]
    <3>1. DOMAIN checkpoint.offsets = Files
      BY <1>3, <1>7 DEF Saved
    <3>2. checkpoint.offsets[f] <= Len(files[f])
      BY <1>4, <2>1
    <3>3. Synced(f) = checkpoint.offsets[f]
      BY <1>7, <3>1, <3>2, Zenon DEF Synced
    <3>4. kept[f] \in checkpoint.offsets[f] .. Len(files[f])
      BY <1>1, <2>1, <3>3
    <3>5. QED
      BY <1>4, <2>1, <3>4
  <2>3. QED
    BY <2>1, <2>2
<1>8. BuildTypes'
  BY <1>2, <1>6 DEF ChunkInvariant, BuildTypes
<1>9. BuildSaved'
  <2>1. checkpoint # None_ /\ halfWiped = FALSE => UpTo(files', checkpoint)
    BY <1>3, <1>6, <1>7
  <2>2. QED
    BY <1>2, <1>3, <2>1 DEF BuildSaved
<1>10. BuildComplete'
  <2> SUFFICES ASSUME checkpoint # None_, checkpoint.status = "complete", halfWiped = FALSE
               PROVE  /\ manifest # None_ /\ manifest.offsets = Offsets'
                      /\ checkpoint.offsets = Offsets'
    BY <1>2 DEF BuildComplete
  <2>1. manifest # None_ /\ manifest.offsets = Offsets /\ checkpoint.offsets = Offsets
    BY DEF ChunkInvariant, BuildComplete
  <2>2. ASSUME NEW f \in DOMAIN files PROVE kept[f] = Len(files[f])
    <3>1. checkpoint.offsets[f] = Len(files[f])
      BY <2>1 DEF Offsets
    <3>2. checkpoint.offsets[f] <= kept[f]
      BY <1>4, <1>7
    <3>3. QED
      BY <1>4, <1>5, <3>1, <3>2
  <2>3. files' = files
    BY <1>6, <2>2
  <2>4. Offsets' = Offsets
    BY <2>3 DEF Offsets
  <2>5. QED
    BY <2>1, <2>4
<1>11. BuildHalf'
  BY <1>2, <1>6 DEF ChunkInvariant, BuildHalf
<1>12. ~Busy' /\ at' \notin {"create", "wipe", "final"}
  BY <1>2 DEF Busy
<1>13. QED
  BY <1>8, <1>9, <1>10, <1>11, <1>12 DEF ChunkInvariant, BuildRunning, BuildFinal, BuildFresh

LEMMA ChunkInvariantStep == ChunkInvariant /\ [ChunkNext]_chunkVars => ChunkInvariant'
<1> SUFFICES ASSUME ChunkInvariant, [ChunkNext]_chunkVars PROVE ChunkInvariant'
  OBVIOUS
<1>1. ASSUME UNCHANGED chunkVars PROVE ChunkInvariant'
  BY <1>1 DEF chunkVars, ChunkInvariant, BuildTypes, BuildRunning, BuildSaved, BuildFinal,
              BuildComplete, BuildFresh, BuildHalf, Busy, Offsets
<1>2. QED
  BY <1>1, StartStep, StartOverStep, WipeStep, WipedStep, CreateStep, FirstCheckpointStep,
     ResumeStep, ProcessStep, SaveStep, NextPhaseStep, PublishStep, FinalStep, KilledStep
  DEF ChunkNext

LEMMA ChunkInvariantDurable == ChunkInvariant => ChunksDurable
<1> SUFFICES ASSUME ChunkInvariant PROVE ChunksDurable
  OBVIOUS
<1>1. ASSUME checkpoint # None_, ~halfWiped
      PROVE  /\ DOMAIN checkpoint.offsets = DOMAIN files
             /\ ExpectedRows[Position(checkpoint.phase, checkpoint.completed)]
                 = [f \in DOMAIN files |-> SubSeq(files[f], 1, checkpoint.offsets[f])]
  <2>1. halfWiped = FALSE
    BY <1>1 DEF ChunkInvariant, BuildTypes
  <2>2. FilesType(files) /\ Saved(checkpoint) /\ UpTo(files, checkpoint)
    BY <1>1, <2>1 DEF ChunkInvariant, BuildTypes, BuildSaved
  <2>3. DOMAIN checkpoint.offsets = DOMAIN files
    BY <2>2 DEF Saved, UpTo
  <2>4. QED
    BY <2>2, <2>3, CutBack
<1>2. ASSUME checkpoint # None_, checkpoint.status = "complete", ~halfWiped
      PROVE  /\ Position(checkpoint.phase, checkpoint.completed) = Total
             /\ checkpoint.offsets = Offsets
             /\ manifest # None_ /\ manifest.offsets = Offsets
  <2>1. halfWiped = FALSE
    BY <1>2 DEF ChunkInvariant, BuildTypes
  <2>2. manifest # None_ /\ manifest.offsets = Offsets /\ checkpoint.offsets = Offsets
    BY <1>2, <2>1 DEF ChunkInvariant, BuildComplete
  <2>3. checkpoint.phase = "complete" /\ Cursor(checkpoint.phase, checkpoint.completed)
    BY <1>2 DEF ChunkInvariant, BuildSaved, Saved
  <2>4. QED
    BY <2>2, <2>3, CursorPlace
<1>3. QED
  BY <1>1, <1>2 DEF ChunksDurable, ChunksRecoverable, ChunksComplete

\* However often the embedding-chunk build is killed, started over and resumed, and
\* whatever part of the rows written since the last flush a kill loses: cut back to
\* the checkpoint, the three files hold exactly the rows of the groups before its
\* cursor, and a complete build has the rows of all groups and the offsets its
\* manifest states (_OutputWriter, process_work, _prepare_output).
THEOREM ChunksAreDurable == ChunkSpec => []ChunksDurable
<1>1. ChunkInit => ChunkInvariant
  BY ChunkInvariantInit
<1>2. ChunkInvariant /\ [ChunkNext]_chunkVars => ChunkInvariant'
  BY ChunkInvariantStep
<1>3. ChunkInvariant => ChunksDurable
  BY ChunkInvariantDurable
<1>4. QED
  BY <1>1, <1>2, <1>3, PTL DEF ChunkSpec

=============================================================================
