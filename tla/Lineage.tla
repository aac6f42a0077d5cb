------------------------------- MODULE Lineage -------------------------------
(***************************************************************************)
(* Which version of a disclosure is in force: build_lineage                *)
(* (src/src/disclosure_db/lineage.py), the version filter of serving.py    *)
(* and the lineage rules of quality.py.                                    *)
(*                                                                         *)
(* A filing is [id, issuer, group, key, filed, correction, original]: key  *)
(* is the subtype and base period of a periodic report and the normalized  *)
(* name of any other; original is the date of first submission that the    *)
(* text of a correction declares, 0 when none is found.  Dates and ids are *)
(* numbers.                                                                *)
(***************************************************************************)
EXTENDS Naturals, FiniteSets, Sequences

NoDate == 0

\* The filings of a database, which identifies them.
Identified(filings) ==
    /\ IsFiniteSet(filings)
    /\ \A f \in filings : f.id \in Nat \ {0} /\ f.filed \in Nat \ {NoDate}
    /\ \A f, g \in filings : f.id = g.id => f = g

Earlier(f, g) == f.filed < g.filed \/ (f.filed = g.filed /\ f.id < g.id)

\* What a sort makes of a set, its order R given by its pairs: of the member in a
\* place, as many come before it as the place says.
Sorted(S, R) ==
    [k \in 1 .. Cardinality(S) |->
        CHOOSE x \in S : Cardinality({y \in S : <<y, x>> \in R}) = k - 1]

Ordered(S, Before(_, _)) == Sorted(S, {p \in S \X S : Before(p[1], p[2])})

InOrder(members) == Ordered(members, Earlier)

\* _write_chain: the versions of one event, in the order of filing.
Chain(members, event) ==
    LET chain == InOrder(members)
        missing == event[1] = "periodic" /\ \A f \in members : f.correction
    IN  {[filing |-> chain[i].id,
          event |-> event,
          no |-> i,
          parent |-> IF i = 1 THEN 0 ELSE chain[i - 1].id,
          status |-> CASE i = 1 /\ missing -> "missing_original"
                       [] i = 1 /\ ~missing -> "root"
                       [] OTHER -> "resolved",
          from |-> chain[i].filed,
          to |-> IF i < Len(chain) THEN chain[i + 1].filed ELSE NoDate,
          current |-> i = Len(chain)] : i \in DOMAIN chain}

SameName(f, g) == f.issuer = g.issuer /\ f.group = g.group /\ f.key = g.key

PeriodicGroups(filings) ==
    LET periodic == {f \in filings : f.group = "periodic"}
    IN  {{g \in periodic : SameName(f, g)} : f \in periodic}

\* The filings a correction may be a correction of: those of its name that were
\* filed on the date it declares.
Originals(filings, f) ==
    IF f.original = NoDate THEN {}
    ELSE {g \in filings : /\ SameName(f, g) /\ g.filed = f.original
                          /\ ~g.correction /\ g.id # f.id}

Explicit(filings) ==
    {f \in filings : /\ f.group # "periodic" /\ f.correction
                     /\ Cardinality(Originals(filings, f)) = 1}

\* Faulty variant of ExplicitGroup: a chain holds one correction, so a second
\* correction of the same original starts a chain of its own.
PairOnly(filings, f) == Originals(filings, f) \cup {f}

\* The unique original with every correction that declares its date.
ExplicitGroup(filings, f) ==
    Originals(filings, f)
        \cup {g \in filings : g.correction /\ SameName(f, g) /\ g.original = f.original}

\* What no chain takes stays alone; a correction stays unresolved.
Isolated(filings) ==
    LET chained == UNION {ExplicitGroup(filings, f) : f \in Explicit(filings)}
    IN  {f \in filings \ chained : f.group # "periodic"}

IsolatedVersion(f) ==
    [filing |-> f.id, event |-> <<"isolated", f.id>>, no |-> 1, parent |-> 0,
     status |-> IF f.correction THEN "unresolved" ELSE "root",
     from |-> f.filed, to |-> NoDate, current |-> TRUE]

\* build_lineage
Versions(filings) ==
    (UNION {Chain(group, <<"periodic", {f.id : f \in group}>>) : group \in PeriodicGroups(filings)})
    \cup (UNION {Chain(ExplicitGroup(filings, f),
                       <<"original", {g.id : g \in Originals(filings, f)}>>) : f \in Explicit(filings)})
    \cup {IsolatedVersion(f) : f \in Isolated(filings)}

\* version_filter_sql, and the filters the searches add for a policy.
InForce(version, asOf) ==
    version.from <= asOf /\ (version.to = NoDate \/ asOf < version.to)

Safe(version) == version.status \in {"root", "resolved"}

Effective(version, asOf) ==
    Safe(version) /\ (IF asOf = NoDate THEN version.current ELSE InForce(version, asOf))

-----------------------------------------------------------------------------

Events(versions) == {v.event : v \in versions}
OfEvent(versions, e) == {v \in versions : v.event = e}

\* The versions of an event are numbered in the order of filing, each after its
\* parent; only the first can be a root, and the last is current.
Placed(v, chain) ==
    /\ v.no \in 1 .. Cardinality(chain)
    /\ v.current <=> v.no = Cardinality(chain)
    /\ v.status = "root" => v.no = 1
    /\ \A w \in chain : /\ w.no = v.no => w = v
                        /\ w.no < v.no => w.from <= v.from
                        /\ w.no + 1 = v.no => v.parent = w.filing

Numbered(versions) == \A v \in versions : Placed(v, OfEvent(versions, v.event))

\* What the rest of the system takes for granted: each filing has one version;
\* of an event one version is current; on each date after its first filing
\* exactly one version of an event is in force; the chain is linked and numbered.
LineageSound(filings, versions, dates) ==
    /\ Numbered(versions)
    /\ \A f \in filings : Cardinality({v \in versions : v.filing = f.id}) = 1
    /\ \A e \in Events(versions) :
        LET chain == OfEvent(versions, e)
        IN  /\ Cardinality({v \in chain : v.current}) = 1
            /\ \A d \in dates :
                (\E v \in chain : v.from <= d)
                    => Cardinality({v \in chain : InForce(v, d)}) = 1
            /\ \A v \in chain : v.parent # 0 =>
                \E p \in chain : p.filing = v.parent /\ p.to = v.from
    /\ \A v \in versions :
        v.status = "resolved" => \E p \in versions : p.filing = v.parent /\ p.event = v.event
==============================================================================
