--------------------- MODULE PublicRequestLimiterProofs ---------------------
(***************************************************************************)
(* Proofs about the limiter of the public query routes, for every set of   *)
(* requests and addresses, every limit, and callers that are threads or    *)
(* share one event loop.                                                   *)
(***************************************************************************)
EXTENDS PublicRequestLimiter, FiniteSetTheorems, SequenceTheorems, TLAPS

\* A client table of the right shape.
IsTable(table) ==
    /\ DOMAIN table \subseteq IPs
    /\ table \in [DOMAIN table -> ClientState]

\* The leases a table records for an address.
ActiveIn(table, ip) == IF ip \in DOMAIN table THEN table[ip].active ELSE 0

-----------------------------------------------------------------------------
(* The client table                                                        *)

\* The pruning loop pops at most all the timestamps there are.
LEMMA ExpiredBound ==
    ASSUME NEW times \in Seq(Nat), NEW cutoff \in Int
    PROVE  Expired(times, cutoff) \in 0 .. Len(times)
<1> DEFINE P == {n \in 1 .. Len(times) : \A i \in 1 .. n : times[i] <= cutoff}
<1>1. Len(times) \in Nat
  OBVIOUS
<1>2. IsFiniteSet(1 .. Len(times)) /\ Cardinality(1 .. Len(times)) = Len(times)
  <2>1. ASSUME NEW n \in Nat
        PROVE  IsFiniteSet(1 .. n) /\ Cardinality(1 .. n) = n
    BY FS_Interval
  <2> QED
    BY <1>1, <2>1
<1>3. P \in SUBSET (1 .. Len(times))
  OBVIOUS
<1>4. IsFiniteSet(P) /\ Cardinality(P) <= Len(times)
  BY <1>2, <1>3, FS_Subset
<1>5. Cardinality(P) \in Nat
  BY <1>4, FS_CardinalityType
<1> HIDE DEF P
<1>6. Cardinality(P) \in 0 .. Len(times)
  BY <1>1, <1>4, <1>5
<1>7. QED
  BY <1>6 DEF Expired, P

\* What is left of a deque of clock values is one.
LEMMA DropExpiredType ==
    ASSUME NEW times \in Seq(Nat), NEW cutoff \in Int
    PROVE  DropExpired(times, cutoff) \in Seq(Nat)
<1>1. PICK k \in 0 .. Len(times) : Expired(times, cutoff) = k
  BY ExpiredBound
<1>2. SubSeq(times, k + 1, Len(times)) \in Seq(Nat)
  BY <1>1
<1>3. QED
  BY <1>1, <1>2 DEF DropExpired

\* Pruning keeps every lease, and leaves no idle entry.
LEMMA PrunedFacts ==
    ASSUME NEW table, IsTable(table), NEW cutoff \in Int
    PROVE  /\ IsTable(Pruned(table, cutoff))
           /\ \A ip \in IPs : ActiveIn(Pruned(table, cutoff), ip) = ActiveIn(table, ip)
           /\ \A i \in DOMAIN Pruned(table, cutoff) : ~Idle(Pruned(table, cutoff)[i])
<1> DEFINE kept(i) == [table[i] EXCEPT !.timestamps = DropExpired(@, cutoff)]
           D == {j \in DOMAIN table : ~Idle(kept(j))}
           new == Pruned(table, cutoff)
<1>1. \A i \in DOMAIN table : table[i] \in ClientState
  BY DEF IsTable
<1>2. \A i \in DOMAIN table : kept(i) \in ClientState /\ kept(i).active = table[i].active
  <2> TAKE i \in DOMAIN table
  <2>1. table[i].timestamps \in Seq(Nat) /\ table[i].active \in Nat
    BY <1>1 DEF ClientState
  <2>2. DropExpired(table[i].timestamps, cutoff) \in Seq(Nat)
    BY <2>1, DropExpiredType
  <2> QED
    BY <1>1, <2>1, <2>2 DEF ClientState
<1> HIDE DEF kept
<1>3. new = [i \in D |-> kept(i)]
  BY DEF Pruned, kept
<1>4. DOMAIN new = D /\ \A i \in D : new[i] = kept(i)
  BY <1>3
<1>5. D \subseteq DOMAIN table
  OBVIOUS
<1>6. \A i \in DOMAIN table \ D : table[i].active = 0
  BY <1>2 DEF Idle
<1> HIDE DEF new, D
<1>7. IsTable(new)
  BY <1>2, <1>3, <1>4, <1>5 DEF IsTable
<1>8. \A ip \in IPs : ActiveIn(new, ip) = ActiveIn(table, ip)
  BY <1>2, <1>4, <1>5, <1>6 DEF ActiveIn
<1>9. \A i \in DOMAIN new : ~Idle(new[i])
  BY <1>4 DEF D
<1> QED
  BY <1>7, <1>8, <1>9 DEF new

\* The table try_acquire decides on: the caller has an entry, every lease is
\* still there, and only the caller's entry may be idle.
LEMMA PreparedFacts ==
    ASSUME TypeOK, NEW r \in Requests
    PROVE  /\ IsTable(Prepared(r))
           /\ Ip[r] \in DOMAIN Prepared(r)
           /\ \A ip \in IPs : ActiveIn(Prepared(r), ip) = ActiveOf(ip)
           /\ \A i \in DOMAIN Prepared(r) : i # Ip[r] => ~Idle(Prepared(r)[i])
<1> DEFINE table == Pruned(clients, observed[r] - Window)
<1>1. IsTable(clients) /\ observed[r] - Window \in Int
  BY LimitsAssumption DEF TypeOK, IsTable
<1>2. /\ IsTable(table)
      /\ \A ip \in IPs : ActiveIn(table, ip) = ActiveIn(clients, ip)
      /\ \A i \in DOMAIN table : ~Idle(table[i])
  BY <1>1, PrunedFacts
<1>3. \A ip \in IPs : ActiveIn(clients, ip) = ActiveOf(ip)
  BY DEF ActiveIn, ActiveOf
<1>4. Ip[r] \in IPs
  BY RequestsAssumption
<1>5. Prepared(r) = IF Ip[r] \in DOMAIN table THEN table ELSE Put(table, Ip[r], NewClient)
  BY DEF Prepared
<1> HIDE DEF table
<1>6. CASE Ip[r] \in DOMAIN table
  BY <1>2, <1>3, <1>5, <1>6
<1>7. CASE Ip[r] \notin DOMAIN table
  <2> DEFINE new == Put(table, Ip[r], NewClient)
  <2>1. /\ DOMAIN new = DOMAIN table \cup {Ip[r]}
        /\ new[Ip[r]] = NewClient
        /\ \A i \in DOMAIN table : new[i] = table[i]
    BY <1>7 DEF Put
  <2>2. NewClient \in ClientState /\ NewClient.active = 0
    BY DEF NewClient, ClientState
  <2>3. \A i \in DOMAIN new : new[i] \in ClientState
    BY <1>2, <2>1, <2>2 DEF IsTable
  <2>4. new = [i \in DOMAIN new |-> new[i]]
    BY DEF Put
  <2>5. Prepared(r) = new
    BY <1>5, <1>7
  <2> HIDE DEF new
  <2>6. IsTable(new)
    BY <1>2, <1>4, <2>1, <2>3, <2>4 DEF IsTable
  <2>7. \A ip \in IPs : ActiveIn(new, ip) = ActiveIn(table, ip)
    BY <1>7, <2>1, <2>2 DEF ActiveIn
  <2> QED
    BY <1>2, <1>3, <2>1, <2>5, <2>6, <2>7
<1> QED
  BY <1>6, <1>7

\* Storing a client state touches the entry of that address only.
LEMMA PutFacts ==
    ASSUME NEW table, IsTable(table), NEW ip \in IPs, NEW state \in ClientState
    PROVE  /\ IsTable(Put(table, ip, state))
           /\ DOMAIN Put(table, ip, state) = DOMAIN table \cup {ip}
           /\ Put(table, ip, state)[ip] = state
           /\ \A i \in DOMAIN table : i # ip => Put(table, ip, state)[i] = table[i]
           /\ \A other \in IPs : ActiveIn(Put(table, ip, state), other)
                = IF other = ip THEN state.active ELSE ActiveIn(table, other)
<1> DEFINE new == Put(table, ip, state)
<1>1. /\ DOMAIN new = DOMAIN table \cup {ip}
      /\ new[ip] = state
      /\ \A i \in DOMAIN table : i # ip => new[i] = table[i]
  BY DEF Put
<1>2. new = [i \in DOMAIN new |-> new[i]]
  BY DEF Put
<1> HIDE DEF new
<1>3. \A i \in DOMAIN new : new[i] \in ClientState
  BY <1>1 DEF IsTable
<1>4. IsTable(new)
  BY <1>1, <1>2, <1>3 DEF IsTable
<1>5. \A other \in IPs : ActiveIn(new, other)
        = IF other = ip THEN state.active ELSE ActiveIn(table, other)
  BY <1>1 DEF ActiveIn
<1> QED
  BY <1>1, <1>4, <1>5 DEF new

\* Deleting an entry with no lease loses no lease.
LEMMA WithoutFacts ==
    ASSUME NEW table, IsTable(table), NEW ip \in IPs
    PROVE  /\ IsTable(Without(table, ip))
           /\ DOMAIN Without(table, ip) = DOMAIN table \ {ip}
           /\ \A i \in DOMAIN Without(table, ip) : Without(table, ip)[i] = table[i]
           /\ \A other \in IPs : ActiveIn(Without(table, ip), other)
                = IF other = ip THEN 0 ELSE ActiveIn(table, other)
<1> DEFINE new == Without(table, ip)
<1>1. /\ DOMAIN new = DOMAIN table \ {ip}
      /\ \A i \in DOMAIN new : new[i] = table[i]
  BY DEF Without
<1>2. new = [i \in DOMAIN new |-> new[i]]
  BY DEF Without
<1> HIDE DEF new
<1>3. IsTable(new)
  BY <1>1, <1>2 DEF IsTable
<1>4. \A other \in IPs : ActiveIn(new, other)
        = IF other = ip THEN 0 ELSE ActiveIn(table, other)
  BY <1>1 DEF ActiveIn
<1> QED
  BY <1>1, <1>3, <1>4 DEF new

-----------------------------------------------------------------------------
(* The inductive invariant                                                 *)

\* The caps need the accounting (a cap is tested on the counter), and the
\* accounting needs the shape of the table; none of them is inductive alone.
IInv == TypeOK /\ LeaseAccounting /\ ConcurrencyCaps /\ NoIdleEntries

\* The sets whose sizes the accounting speaks of are finite.
LEMMA ServingFinite ==
    /\ IsFiniteSet(Serving)
    /\ \A ip : IsFiniteSet(ServingOf(ip))
<1>1. Serving \subseteq Requests /\ \A ip : ServingOf(ip) \subseteq Requests
  BY DEF Serving, ServingOf
<1> QED
  BY <1>1, RequestsAssumption, FS_Subset

LEMMA InitIInv == Init => IInv
<1> SUFFICES ASSUME Init PROVE IInv
  OBVIOUS
<1>1. DOMAIN clients = {}
  BY DEF Init
<1>2. TypeOK
  <2>1. clients \in [DOMAIN clients -> ClientState]
    BY DEF Init
  <2>2. /\ pc \in [Requests -> {"idle", "deciding", "serving", "done"}]
        /\ observed \in [Requests -> Nat]
        /\ answer \in [Requests -> Answers]
    BY DEF Init, Answers
  <2>3. admissions \in [IPs -> Seq(Nat)] /\ retryAt \in [IPs -> Int]
    BY DEF Init
  <2>4. now \in Nat /\ globalActive \in Nat
    BY DEF Init
  <2> QED
    BY <1>1, <2>1, <2>2, <2>3, <2>4 DEF TypeOK
<1>3. Serving = {} /\ \A ip : ServingOf(ip) = {}
  BY DEF Init, Serving, ServingOf
<1>4. Cardinality(Serving) = 0 /\ \A ip : Cardinality(ServingOf(ip)) = 0
  BY <1>3, FS_EmptySet
<1>5. LeaseAccounting
  BY <1>1, <1>4 DEF LeaseAccounting, ActiveOf, Init
<1>6. ConcurrencyCaps
  BY <1>4, LimitsAssumption DEF ConcurrencyCaps
<1>7. NoIdleEntries
  BY <1>1 DEF NoIdleEntries
<1> QED
  BY <1>2, <1>5, <1>6, <1>7 DEF IInv

\* A step that moves no request into or out of the try block, and keeps every
\* lease in the table, keeps the accounting and the caps.
LEMMA SameLeases ==
    ASSUME IInv,
           Serving' = Serving,
           globalActive' = globalActive,
           \A ip \in IPs : ActiveOf(ip)' = ActiveOf(ip)
    PROVE  LeaseAccounting' /\ ConcurrencyCaps'
<1>1. \A ip : ServingOf(ip)' = ServingOf(ip)
  BY DEF ServingOf
<1>2. LeaseAccounting'
  BY <1>1 DEF IInv, LeaseAccounting
<1>3. ConcurrencyCaps'
  BY <1>1 DEF IInv, ConcurrencyCaps
<1> QED
  BY <1>2, <1>3

\* A refusal writes the prepared table back, with or without the entry that
\* setdefault made.
LEMMA RefusalStep ==
    ASSUME IInv, NEW r \in Requests, NEW why \in Answers,
           pc[r] = "deciding",
           pc' = [pc EXCEPT ![r] = "done"],
           answer' = [answer EXCEPT ![r] = why],
           observed' = Forget(r),
           retryAt' \in [IPs -> Int],
           UNCHANGED <<now, globalActive, admissions>>,
           IsTable(clients'),
           \A ip \in IPs : ActiveIn(clients', ip) = ActiveOf(ip),
           \A i \in DOMAIN clients' : ~Idle(clients'[i])
    PROVE  IInv'
<1>1. TypeOK
  BY DEF IInv
<1>2. TypeOK'
  <2>1. pc' \in [Requests -> {"idle", "deciding", "serving", "done"}]
    BY <1>1 DEF TypeOK
  <2>2. answer' \in [Requests -> Answers] /\ observed' \in [Requests -> Nat]
    BY <1>1 DEF TypeOK, Forget
  <2>3. now' \in Nat /\ globalActive' \in Nat /\ admissions' \in [IPs -> Seq(Nat)]
    BY <1>1 DEF TypeOK
  <2> QED
    BY <2>1, <2>2, <2>3 DEF TypeOK, IsTable
<1>3. Serving' = Serving
  BY <1>1 DEF TypeOK, Serving
<1>4. \A ip \in IPs : ActiveOf(ip)' = ActiveOf(ip)
  BY DEF ActiveOf, ActiveIn
<1>5. LeaseAccounting' /\ ConcurrencyCaps'
  BY <1>3, <1>4, SameLeases
<1>6. NoIdleEntries'
  BY DEF NoIdleEntries
<1> QED
  BY <1>2, <1>5, <1>6 DEF IInv

LEMMA AdmitStep == ASSUME IInv, NEW r \in Requests, Admit(r) PROVE IInv'
<1> DEFINE table == Prepared(r)
           ip == Ip[r]
           state == [timestamps |-> Append(table[ip].timestamps, observed[r]),
                     active |-> table[ip].active + 1]
<1>1. TypeOK /\ LeaseAccounting /\ ConcurrencyCaps /\ NoIdleEntries
  BY DEF IInv
<1>2. /\ IsTable(table)
      /\ ip \in DOMAIN table
      /\ \A other \in IPs : ActiveIn(table, other) = ActiveOf(other)
      /\ \A i \in DOMAIN table : i # ip => ~Idle(table[i])
  BY <1>1, PreparedFacts
<1>3. ip \in IPs
  BY RequestsAssumption
<1>4. table[ip] \in ClientState
  BY <1>2 DEF IsTable
<1>5. clients' = Put(table, ip, state)
  BY DEF Admit
<1>6. /\ pc[r] = "deciding" /\ pc' = [pc EXCEPT ![r] = "serving"]
      /\ table[ip].active < PerIp /\ globalActive < Global
      /\ globalActive' = globalActive + 1
  <2>1. ~(table[ip].active >= PerIp) /\ ~(globalActive >= Global)
    BY DEF Admit, IpFull, ServerFull
  <2>2. table[ip].active \in Nat /\ globalActive \in Nat
    BY <1>1, <1>4 DEF TypeOK, ClientState
  <2> QED
    BY <2>1, <2>2, LimitsAssumption DEF Admit
<1>7. state \in ClientState /\ state.active = table[ip].active + 1
  BY <1>1, <1>4 DEF TypeOK, ClientState
<1> HIDE DEF table, state
<1>8. /\ IsTable(clients')
      /\ DOMAIN clients' = DOMAIN table \cup {ip}
      /\ clients'[ip] = state
      /\ \A i \in DOMAIN table : i # ip => clients'[i] = table[i]
      /\ \A other \in IPs : ActiveIn(clients', other)
            = IF other = ip THEN state.active ELSE ActiveIn(table, other)
  <2> HIDE DEF ip
  <2>1. /\ IsTable(Put(table, ip, state))
        /\ DOMAIN Put(table, ip, state) = DOMAIN table \cup {ip}
        /\ Put(table, ip, state)[ip] = state
        /\ \A i \in DOMAIN table : i # ip => Put(table, ip, state)[i] = table[i]
        /\ \A other \in IPs : ActiveIn(Put(table, ip, state), other)
              = IF other = ip THEN state.active ELSE ActiveIn(table, other)
    BY <1>2, <1>3, <1>7, PutFacts
  <2> QED
    BY <1>5, <2>1
<1>9. TypeOK'
  <2>1. pc' \in [Requests -> {"idle", "deciding", "serving", "done"}]
    BY <1>1, <1>6 DEF TypeOK
  <2>2. answer' \in [Requests -> Answers] /\ observed' \in [Requests -> Nat]
    BY <1>1 DEF TypeOK, Admit, Answers, Forget
  <2>3. admissions' \in [IPs -> Seq(Nat)]
    <3>1. admissions' = [admissions EXCEPT ![ip] = Append(@, observed[r])]
      BY DEF Admit
    <3>2. Append(admissions[ip], observed[r]) \in Seq(Nat)
      BY <1>1, <1>3 DEF TypeOK
    <3> QED
      BY <1>1, <3>1, <3>2 DEF TypeOK
  <2>4. retryAt' \in [IPs -> Int]
    <3>1. retryAt' = [retryAt EXCEPT ![ip] = -1]
      BY DEF Admit
    <3>2. \A n \in Int : [retryAt EXCEPT ![ip] = n] \in [IPs -> Int]
      BY <1>1 DEF TypeOK
    <3>3. -1 \in Int
      OBVIOUS
    <3> QED
      BY <3>1, <3>2, <3>3
  <2>5. now' \in Nat /\ globalActive' \in Nat
    BY <1>1 DEF TypeOK, Admit
  <2> QED
    BY <1>8, <2>1, <2>2, <2>3, <2>4, <2>5 DEF TypeOK, IsTable
<1>10. /\ Serving' = Serving \cup {r} /\ r \notin Serving
       /\ ServingOf(ip)' = ServingOf(ip) \cup {r} /\ r \notin ServingOf(ip)
       /\ \A other \in IPs : other # ip => ServingOf(other)' = ServingOf(other)
  BY <1>1, <1>6 DEF TypeOK, Serving, ServingOf
<1>11. /\ Cardinality(Serving)' = Cardinality(Serving) + 1
       /\ Cardinality(ServingOf(ip))' = Cardinality(ServingOf(ip)) + 1
  BY <1>10, ServingFinite, FS_AddElement
<1>12. \A other \in IPs : ActiveOf(other)' = ActiveIn(clients', other)
  BY DEF ActiveOf, ActiveIn
<1>13. ActiveOf(ip) = table[ip].active
  BY <1>2, <1>3 DEF ActiveIn
<1>14. LeaseAccounting'
  <2>1. globalActive' = Cardinality(Serving)'
    BY <1>1, <1>6, <1>11 DEF LeaseAccounting
  <2>2. ActiveOf(ip)' = Cardinality(ServingOf(ip))'
    BY <1>1, <1>3, <1>7, <1>8, <1>11, <1>12, <1>13 DEF LeaseAccounting
  <2>3. ASSUME NEW other \in IPs, other # ip
        PROVE  ActiveOf(other)' = Cardinality(ServingOf(other))'
    BY <1>1, <1>2, <1>8, <1>10, <1>12, <2>3 DEF LeaseAccounting
  <2> QED
    BY <2>1, <2>2, <2>3 DEF LeaseAccounting
<1>15. ConcurrencyCaps'
  <2>1. Cardinality(Serving)' <= Global
    BY <1>1, <1>6, <1>11, LimitsAssumption DEF LeaseAccounting, TypeOK
  <2>2. Cardinality(ServingOf(ip))' <= PerIp
    <3>1. Cardinality(ServingOf(ip)) = table[ip].active
      BY <1>1, <1>3, <1>13 DEF LeaseAccounting
    <3>2. table[ip].active \in Nat
      BY <1>4 DEF ClientState
    <3> QED
      BY <1>6, <1>11, <3>1, <3>2, LimitsAssumption
  <2>3. \A other \in IPs : other # ip => Cardinality(ServingOf(other))' <= PerIp
    BY <1>1, <1>10 DEF ConcurrencyCaps
  <2> QED
    BY <2>1, <2>2, <2>3 DEF ConcurrencyCaps
<1>16. NoIdleEntries'
  <2>1. ~Idle(state)
    BY <1>4, <1>7 DEF Idle, ClientState
  <2>2. \A i \in DOMAIN clients' : ~Idle(clients'[i])
    BY <1>2, <1>8, <2>1
  <2> QED
    BY <2>2 DEF NoIdleEntries
<1> QED
  BY <1>9, <1>14, <1>15, <1>16 DEF IInv

\* The three refusals write back a table with every lease and no idle entry.
LEMMA RateLimitedStep == ASSUME IInv, NEW r \in Requests, RateLimited(r) PROVE IInv'
<1> DEFINE table == Prepared(r)
           ip == Ip[r]
           seconds == RetrySeconds(table[ip].timestamps, observed[r])
<1>1. TypeOK
  BY DEF IInv
<1>2. /\ IsTable(table)
      /\ ip \in DOMAIN table
      /\ \A other \in IPs : ActiveIn(table, other) = ActiveOf(other)
      /\ \A i \in DOMAIN table : i # ip => ~Idle(table[i])
  BY <1>1, PreparedFacts
<1>3. table[ip] \in ClientState
  BY <1>2 DEF IsTable
<1>4. clients' = table /\ RateFull(table[ip])
  BY DEF RateLimited
<1>5. retryAt' = [retryAt EXCEPT ![ip] = observed[r] + TicksPerSecond * seconds]
  BY DEF RateLimited
<1>6. /\ pc[r] = "deciding" /\ pc' = [pc EXCEPT ![r] = "done"]
      /\ answer' = [answer EXCEPT ![r] = "rate_limited"]
      /\ observed' = Forget(r)
      /\ UNCHANGED <<now, globalActive, admissions>>
  BY DEF RateLimited
<1> HIDE DEF table
<1>7. Len(table[ip].timestamps) \in Nat /\ Len(table[ip].timestamps) >= PerMinute
  BY <1>3, <1>4 DEF ClientState, RateFull
<1>8. ~Idle(table[ip])
  BY <1>7, LimitsAssumption DEF Idle
<1>9. seconds \in Int
  <2> DEFINE times == table[ip].timestamps
  <2>a. times \in Seq(Nat)
    BY <1>3 DEF ClientState
  <2>b. 1 \in 1 .. Len(times)
    BY <1>7, LimitsAssumption
  <2>c. times[1] \in Nat
    <3> HIDE DEF times
    <3> QED
      BY <2>a, <2>b
  <2>d. observed[r] \in Nat
    BY <1>1 DEF TypeOK
  <2>1. table[ip].timestamps[1] \in Nat /\ observed[r] \in Nat
    BY <2>c, <2>d
  <2>2. table[ip].timestamps[1] + Window - observed[r] \in Int
    BY <2>1, LimitsAssumption
  <2> DEFINE wait == table[ip].timestamps[1] + Window - observed[r]
  <2> HIDE DEF wait
  <2>3. wait \in Int => CeilDiv(wait, TicksPerSecond) \in Int
    BY LimitsAssumption DEF CeilDiv
  <2>4. \A n \in Int : AtLeastOne(n) \in Int
    BY DEF AtLeastOne
  <2>5. seconds = AtLeastOne(CeilDiv(wait, TicksPerSecond))
    BY DEF RetrySeconds, wait
  <2> QED
    BY <2>2, <2>3, <2>4, <2>5 DEF wait
<1> HIDE DEF seconds
<1>10. observed[r] + TicksPerSecond * seconds \in Int
  BY <1>1, <1>9, LimitsAssumption DEF TypeOK
<1>11. retryAt' \in [IPs -> Int]
  BY <1>1, <1>5, <1>10 DEF TypeOK
<1>12. "rate_limited" \in Answers
  BY DEF Answers
<1>13. \A i \in DOMAIN table : ~Idle(table[i])
  BY <1>2, <1>8
<1> QED
  BY <1>2, <1>4, <1>6, <1>11, <1>12, <1>13, RefusalStep

LEMMA IpBusyStep == ASSUME IInv, NEW r \in Requests, IpBusy(r) PROVE IInv'
<1> DEFINE table == Prepared(r)
<1>1. TypeOK
  BY DEF IInv
<1>2. /\ IsTable(table)
      /\ Ip[r] \in DOMAIN table
      /\ \A other \in IPs : ActiveIn(table, other) = ActiveOf(other)
      /\ \A i \in DOMAIN table : i # Ip[r] => ~Idle(table[i])
  BY <1>1, PreparedFacts
<1>3. clients' = table /\ IpFull(table[Ip[r]])
  BY DEF IpBusy
<1>4. /\ pc[r] = "deciding" /\ pc' = [pc EXCEPT ![r] = "done"]
      /\ answer' = [answer EXCEPT ![r] = "ip_busy"]
      /\ observed' = Forget(r)
      /\ UNCHANGED <<now, globalActive, admissions, retryAt>>
  BY DEF IpBusy
<1>5. ~Idle(table[Ip[r]])
  BY <1>3, LimitsAssumption DEF Idle, IpFull
<1> HIDE DEF table
<1>6. \A i \in DOMAIN table : ~Idle(table[i])
  BY <1>2, <1>5
<1>7. retryAt' \in [IPs -> Int] /\ "ip_busy" \in Answers
  BY <1>1, <1>4 DEF TypeOK, Answers
<1> QED
  BY <1>2, <1>3, <1>4, <1>6, <1>7, RefusalStep

LEMMA ServerBusyStep == ASSUME IInv, NEW r \in Requests, ServerBusy(r) PROVE IInv'
<1> DEFINE table == Prepared(r)
           ip == Ip[r]
<1>1. TypeOK
  BY DEF IInv
<1>2. /\ IsTable(table)
      /\ ip \in DOMAIN table
      /\ \A other \in IPs : ActiveIn(table, other) = ActiveOf(other)
      /\ \A i \in DOMAIN table : i # ip => ~Idle(table[i])
  BY <1>1, PreparedFacts
<1>3. clients' = IF Idle(table[ip]) THEN Without(table, ip) ELSE table
  BY DEF ServerBusy
<1>4. /\ pc[r] = "deciding" /\ pc' = [pc EXCEPT ![r] = "done"]
      /\ answer' = [answer EXCEPT ![r] = "server_busy"]
      /\ observed' = Forget(r)
      /\ UNCHANGED <<now, globalActive, admissions, retryAt>>
  BY DEF ServerBusy
<1>5. retryAt' \in [IPs -> Int] /\ "server_busy" \in Answers
  BY <1>1, <1>4 DEF TypeOK, Answers
<1>6. ip \in IPs
  BY RequestsAssumption
<1> HIDE DEF table, ip
<1>7. CASE Idle(table[ip])
  <2>1. /\ IsTable(Without(table, ip))
        /\ DOMAIN Without(table, ip) = DOMAIN table \ {ip}
        /\ \A i \in DOMAIN Without(table, ip) : Without(table, ip)[i] = table[i]
        /\ \A other \in IPs : ActiveIn(Without(table, ip), other)
              = IF other = ip THEN 0 ELSE ActiveIn(table, other)
    BY <1>2, <1>6, WithoutFacts
  <2>2. clients' = Without(table, ip)
    BY <1>3, <1>7
  <2>3. ActiveIn(table, ip) = 0
    BY <1>7 DEF ActiveIn, Idle
  <2>4. \A other \in IPs : ActiveIn(clients', other) = ActiveOf(other)
    BY <1>2, <2>1, <2>2, <2>3
  <2>5. \A i \in DOMAIN clients' : ~Idle(clients'[i])
    BY <1>2, <2>1, <2>2
  <2> QED
    BY <1>4, <1>5, <2>1, <2>2, <2>4, <2>5, RefusalStep
<1>8. CASE ~Idle(table[ip])
  <2>1. clients' = table
    BY <1>3, <1>8
  <2>2. \A i \in DOMAIN table : ~Idle(table[i])
    BY <1>2, <1>8
  <2> QED
    BY <1>2, <1>4, <1>5, <2>1, <2>2, RefusalStep
<1> QED
  BY <1>7, <1>8

LEMMA ReleaseStep == ASSUME IInv, NEW r \in Requests, Release(r) PROVE IInv'
<1> DEFINE ip == Ip[r]
           state == [clients[ip] EXCEPT !.active = @ - 1]
<1>1. TypeOK /\ LeaseAccounting /\ ConcurrencyCaps /\ NoIdleEntries
  BY DEF IInv
<1>2. ip \in IPs /\ IsTable(clients)
  BY <1>1, RequestsAssumption DEF TypeOK, IsTable
<1>3. r \in Serving /\ r \in ServingOf(ip)
  BY DEF Release, Serving, ServingOf
<1>4. pc' = [pc EXCEPT ![r] = "done"]
  BY DEF Release
<1>5. /\ Serving' = Serving \ {r}
      /\ ServingOf(ip)' = ServingOf(ip) \ {r}
      /\ \A other \in IPs : other # ip => ServingOf(other)' = ServingOf(other)
  BY <1>1, <1>4 DEF TypeOK, Serving, ServingOf
<1>6. /\ Cardinality(Serving)' = Cardinality(Serving) - 1
      /\ Cardinality(ServingOf(ip))' = Cardinality(ServingOf(ip)) - 1
  BY <1>3, <1>5, ServingFinite, FS_RemoveElement
<1>7. Cardinality(Serving) \in Nat /\ Cardinality(ServingOf(ip)) \in Nat
  BY ServingFinite, FS_CardinalityType
<1>8. Cardinality(Serving) >= 1 /\ Cardinality(ServingOf(ip)) >= 1
  <2>1. Cardinality(Serving) # 0
    BY <1>3, ServingFinite, FS_EmptySet
  <2>2. Cardinality(ServingOf(ip)) # 0
    BY <1>3, ServingFinite, FS_EmptySet
  <2> QED
    BY <1>7, <2>1, <2>2
<1>9. /\ globalActive >= 1 /\ globalActive = Cardinality(Serving)
      /\ ip \in DOMAIN clients
      /\ clients[ip].active = Cardinality(ServingOf(ip))
  <2>1. ActiveOf(ip) = Cardinality(ServingOf(ip)) /\ globalActive = Cardinality(Serving)
    BY <1>1, <1>2 DEF LeaseAccounting
  <2> QED
    BY <1>7, <1>8, <2>1 DEF ActiveOf
<1>10. clients[ip] \in ClientState
  BY <1>2, <1>9 DEF IsTable
<1>11. state \in ClientState /\ state.active = clients[ip].active - 1
  BY <1>8, <1>9, <1>10 DEF ClientState
<1>12. /\ clients' = IF Idle(state) THEN Without(clients, ip) ELSE Put(clients, ip, state)
       /\ globalActive' = globalActive - 1
  <2>1. ~(ip \notin DOMAIN clients \/ clients[ip].active = 0)
    BY <1>8, <1>9
  <2>2. ~(globalActive < 1)
    BY <1>7, <1>9
  <2>3. Released(ip) = [table |-> IF Idle(state) THEN Without(clients, ip)
                                                ELSE Put(clients, ip, state),
                        total |-> globalActive - 1]
    BY <2>1, <2>2 DEF Released
  <2> QED
    BY <2>3 DEF Release
<1> HIDE DEF state
<1>13. /\ IsTable(clients')
       /\ \A other \in IPs : ActiveIn(clients', other)
            = IF other = ip THEN state.active ELSE ActiveIn(clients, other)
       /\ \A i \in DOMAIN clients' : ~Idle(clients'[i])
  <2> HIDE DEF ip
  <2>1. CASE Idle(state)
    <3>1. /\ IsTable(Without(clients, ip))
          /\ DOMAIN Without(clients, ip) = DOMAIN clients \ {ip}
          /\ \A i \in DOMAIN Without(clients, ip) : Without(clients, ip)[i] = clients[i]
          /\ \A other \in IPs : ActiveIn(Without(clients, ip), other)
                = IF other = ip THEN 0 ELSE ActiveIn(clients, other)
      BY <1>2, WithoutFacts
    <3>2. clients' = Without(clients, ip) /\ state.active = 0
      BY <1>12, <2>1 DEF Idle
    <3> QED
      BY <1>1, <3>1, <3>2 DEF NoIdleEntries
  <2>2. CASE ~Idle(state)
    <3>1. /\ IsTable(Put(clients, ip, state))
          /\ DOMAIN Put(clients, ip, state) = DOMAIN clients \cup {ip}
          /\ Put(clients, ip, state)[ip] = state
          /\ \A i \in DOMAIN clients : i # ip => Put(clients, ip, state)[i] = clients[i]
          /\ \A other \in IPs : ActiveIn(Put(clients, ip, state), other)
                = IF other = ip THEN state.active ELSE ActiveIn(clients, other)
      BY <1>2, <1>11, PutFacts
    <3>2. clients' = Put(clients, ip, state)
      BY <1>12, <2>2
    <3> QED
      BY <1>1, <2>2, <3>1, <3>2 DEF NoIdleEntries
  <2> QED
    BY <2>1, <2>2
<1>14. \A other : ActiveOf(other)' = ActiveIn(clients', other)
  BY DEF ActiveOf, ActiveIn
<1>15. \A other : ActiveOf(other) = ActiveIn(clients, other)
  BY DEF ActiveOf, ActiveIn
<1>16. TypeOK'
  <2>1. pc' \in [Requests -> {"idle", "deciding", "serving", "done"}]
    BY <1>1, <1>4 DEF TypeOK
  <2>2. globalActive' \in Nat
    BY <1>7, <1>8, <1>9, <1>12
  <2>3. UNCHANGED <<now, observed, answer, admissions, retryAt>>
    BY DEF Release
  <2> QED
    BY <1>1, <1>13, <2>1, <2>2, <2>3 DEF TypeOK, IsTable
<1>17. LeaseAccounting'
  <2>1. globalActive' = Cardinality(Serving)'
    BY <1>6, <1>9, <1>12
  <2>2. ActiveOf(ip)' = Cardinality(ServingOf(ip))'
    BY <1>2, <1>6, <1>9, <1>11, <1>13, <1>14
  <2>3. ASSUME NEW other \in IPs, other # ip
        PROVE  ActiveOf(other)' = Cardinality(ServingOf(other))'
    BY <1>1, <1>5, <1>13, <1>14, <1>15, <2>3 DEF LeaseAccounting
  <2> QED
    BY <2>1, <2>2, <2>3 DEF LeaseAccounting
<1>18. ConcurrencyCaps'
  <2>1. Cardinality(Serving)' <= Global /\ Cardinality(ServingOf(ip))' <= PerIp
    BY <1>1, <1>2, <1>6, <1>7, LimitsAssumption DEF ConcurrencyCaps
  <2>2. \A other \in IPs : other # ip => Cardinality(ServingOf(other))' <= PerIp
    BY <1>1, <1>5 DEF ConcurrencyCaps
  <2> QED
    BY <2>1, <2>2 DEF ConcurrencyCaps
<1>19. NoIdleEntries'
  BY <1>13 DEF NoIdleEntries
<1> QED
  BY <1>16, <1>17, <1>18, <1>19 DEF IInv

-----------------------------------------------------------------------------
(* The theorems                                                            *)

\* The invariant holds in every reachable state.
LEMMA Invariance == Spec => []IInv
<1>1. Init => IInv
  BY InitIInv
<1>2. IInv /\ [Next]_vars => IInv'
  <2> SUFFICES ASSUME IInv, [Next]_vars PROVE IInv'
    OBVIOUS
  <2>1. ASSUME Tick PROVE IInv'
    <3>1. TypeOK' /\ Serving' = Serving /\ NoIdleEntries'
      BY <2>1 DEF IInv, TypeOK, Tick, limiterVars, Serving, NoIdleEntries
    <3>2. globalActive' = globalActive /\ \A ip \in IPs : ActiveOf(ip)' = ActiveOf(ip)
      BY <2>1 DEF Tick, limiterVars, ActiveOf
    <3> QED
      BY <3>1, <3>2, SameLeases DEF IInv
  <2>2. ASSUME NEW r \in Requests, ReadClock(r) PROVE IInv'
    <3>1. TypeOK' /\ Serving' = Serving /\ NoIdleEntries'
      BY <2>2 DEF IInv, TypeOK, ReadClock, limiterVars, Serving, NoIdleEntries
    <3>2. globalActive' = globalActive /\ \A ip \in IPs : ActiveOf(ip)' = ActiveOf(ip)
      BY <2>2 DEF ReadClock, limiterVars, ActiveOf
    <3> QED
      BY <3>1, <3>2, SameLeases DEF IInv
  <2>3. ASSUME NEW r \in Requests, Admit(r) PROVE IInv'
    BY <2>3, AdmitStep
  <2>4. ASSUME NEW r \in Requests, RateLimited(r) PROVE IInv'
    BY <2>4, RateLimitedStep
  <2>5. ASSUME NEW r \in Requests, IpBusy(r) PROVE IInv'
    BY <2>5, IpBusyStep
  <2>6. ASSUME NEW r \in Requests, ServerBusy(r) PROVE IInv'
    BY <2>6, ServerBusyStep
  <2>7. ASSUME NEW r \in Requests, Release(r) PROVE IInv'
    BY <2>7, ReleaseStep
  <2>8. CASE UNCHANGED vars
    <3>1. TypeOK' /\ Serving' = Serving /\ NoIdleEntries'
      BY <2>8 DEF IInv, TypeOK, vars, Serving, NoIdleEntries
    <3>2. globalActive' = globalActive /\ \A ip \in IPs : ActiveOf(ip)' = ActiveOf(ip)
      BY <2>8 DEF vars, ActiveOf
    <3> QED
      BY <3>1, <3>2, SameLeases DEF IInv
  <2> QED
    BY <2>1, <2>2, <2>3, <2>4, <2>5, <2>6, <2>7, <2>8 DEF Next
<1> QED
  BY <1>1, <1>2, PTL DEF Spec

\* The limiter's state always has its type: the table stays a partial map
\* from addresses to client states through every pruning and deletion.
THEOREM TypeCorrect == Spec => []TypeOK
<1>1. IInv => TypeOK
  BY DEF IInv
<1> QED
  BY Invariance, <1>1, PTL

\* The counters of public_limits.py are always the requests being served, so
\* no lease leaks and none is returned twice.
THEOREM LeasesAccounted == Spec => []LeaseAccounting
<1>1. IInv => LeaseAccounting
  BY DEF IInv
<1> QED
  BY Invariance, <1>1, PTL

\* try_acquire never lets more than PER_IP_CONCURRENCY requests of an address,
\* or GLOBAL_CONCURRENCY in all, be served together.
THEOREM CapsRespected == Spec => []ConcurrencyCaps
<1>1. IInv => ConcurrencyCaps
  BY DEF IInv
<1> QED
  BY Invariance, <1>1, PTL

\* The client table of public_limits.py keeps no entry without a lease or a
\* timestamp.
THEOREM TableBounded == Spec => []NoIdleEntries
<1>1. IInv => NoIdleEntries
  BY DEF IInv
<1> QED
  BY Invariance, <1>1, PTL

-----------------------------------------------------------------------------
(* What the limiter tells its callers, over time: a caller that waits as it *)
(* was told is not refused again, and on one event loop the pruned deque    *)
(* counts exactly the admissions of the window, so that the limiter         *)
(* implements AdmissionControl.                                             *)

\* The deque of an address; an address without an entry has an empty one.
TimesIn(table, ip) == IF ip \in DOMAIN table THEN table[ip].timestamps ELSE <<>>

\* What a decision of r leaves of the deque of an address.
Kept(r, ip) == DropExpired(TimesIn(clients, ip), observed[r] - Window)

-----------------------------------------------------------------------------
(* Pruning a deque                                                         *)

\* The loop stops at the first timestamp that is not expired, and only there.
LEMMA ExpiredExact ==
    ASSUME NEW times \in Seq(Nat), NEW cutoff \in Int
    PROVE  /\ Expired(times, cutoff) \in 0 .. Len(times)
           /\ \A i \in 1 .. Expired(times, cutoff) : times[i] <= cutoff
           /\ Expired(times, cutoff) < Len(times) =>
                ~(times[Expired(times, cutoff) + 1] <= cutoff)
<1> DEFINE P == {n \in 1 .. Len(times) : \A i \in 1 .. n : times[i] <= cutoff}
<1>1. PICK e \in 0 .. Len(times) : e = Cardinality(P)
  BY ExpiredBound DEF Expired
<1>2. Len(times) \in Nat /\ e \in Nat
  BY LenProperties, <1>1
<1>3. \A n \in P : \A k \in 1 .. n : k \in P
  BY <1>2
<1>4. \A n \in P : n \in Nat /\ n <= e
  <2> SUFFICES ASSUME NEW n \in P
               PROVE  n \in Nat /\ n <= e
    OBVIOUS
  <2>1. n \in Nat /\ 1 .. n \subseteq P /\ P \subseteq 1 .. Len(times)
    BY <1>2, <1>3
  <2>2. IsFiniteSet(P)
    <3>1. 1 \in Int /\ Len(times) \in Int /\ IsFiniteSet(1 .. Len(times))
      BY <1>2, FS_Interval
    <3> HIDE DEF P
    <3> QED
      BY <2>1, <3>1, FS_Subset
  <2> HIDE DEF P
  <2>3. 1 \in Int /\ n \in Int /\ Cardinality(1 .. n) = IF 1 > n THEN 0 ELSE n - 1 + 1
    BY <2>1, FS_Interval
  <2>4. Cardinality(1 .. n) <= Cardinality(P)
    BY <2>1, <2>2, FS_Subset
  <2> QED
    BY <1>1, <2>1, <2>3, <2>4
<1>5. e # 0 => e \in P
  <2> SUFFICES ASSUME e # 0, e \notin P
               PROVE  FALSE
    OBVIOUS
  <2>1. P \subseteq 1 .. e - 1
    <3> SUFFICES ASSUME NEW n \in P
                 PROVE  n \in 1 .. e - 1
      OBVIOUS
    <3>1. n \in Nat /\ n <= e /\ n # e /\ 1 <= n
      BY <1>4
    <3> QED
      BY <1>2, <3>1
  <2>2. e - 1 \in Nat
    BY <1>2
  <2>3. IsFiniteSet(1 .. e - 1) /\ Cardinality(1 .. e - 1) = e - 1
    <3> DEFINE d == e - 1
    <3>1. 1 \in Int /\ d \in Int /\ d \in Nat
      BY <2>2
    <3> HIDE DEF d
    <3>2. IsFiniteSet(1 .. d)
      BY <3>1, FS_Interval
    <3>3. Cardinality(1 .. d) = IF 1 > d THEN 0 ELSE d - 1 + 1
      BY <3>1, FS_Interval
    <3>4. Cardinality(1 .. d) = d
      BY <3>1, <3>3
    <3> QED
      BY <3>2, <3>4 DEF d
  <2> HIDE DEF P
  <2>4. Cardinality(P) <= Cardinality(1 .. e - 1)
    BY <2>1, <2>3, FS_Subset
  <2> QED
    BY <1>1, <1>2, <2>2, <2>3, <2>4
<1>6. \A i \in 1 .. e : times[i] <= cutoff
  <2>1. CASE e = 0
    BY <2>1
  <2>2. CASE e # 0
    BY <1>5, <2>2
  <2> QED
    BY <2>1, <2>2
<1>7. e < Len(times) => ~(times[e + 1] <= cutoff)
  <2> SUFFICES ASSUME e < Len(times), times[e + 1] <= cutoff
               PROVE  FALSE
    OBVIOUS
  <2>1. e + 1 \in 1 .. Len(times) /\ \A i \in 1 .. e + 1 : i \in 1 .. e \/ i = e + 1
    BY <1>2
  <2>2. e + 1 \in P
    BY <1>6, <2>1
  <2> QED
    BY <1>2, <1>4, <2>2
<1> HIDE DEF P
<1>8. Expired(times, cutoff) = e
  BY <1>1 DEF Expired, P
<1> QED
  BY <1>1, <1>6, <1>7, <1>8

\* What is left are the last timestamps, and only expired ones are gone.
LEMMA DropExpiredFacts ==
    ASSUME NEW times \in Seq(Nat), NEW cutoff \in Int
    PROVE  LET kept == DropExpired(times, cutoff)
               gone == Len(times) - Len(kept)
           IN  /\ kept \in Seq(Nat) /\ Len(kept) \in Nat /\ Len(times) \in Nat
               /\ gone \in Nat
               /\ \A j \in 1 .. Len(kept) : kept[j] = times[gone + j]
               /\ \A i \in 1 .. gone : times[i] <= cutoff
               /\ Len(kept) > 0 => ~(kept[1] <= cutoff)
<1> DEFINE kept == DropExpired(times, cutoff)
<1>1. PICK e \in 0 .. Len(times) :
         /\ e = Expired(times, cutoff)
         /\ \A i \in 1 .. e : times[i] <= cutoff
         /\ e < Len(times) => ~(times[e + 1] <= cutoff)
  BY ExpiredExact
<1>2. Len(times) \in Nat /\ e \in Nat /\ e <= Len(times)
  BY LenProperties, <1>1
<1>3. kept = SubSeq(times, e + 1, Len(times))
  BY <1>1 DEF DropExpired
<1>4. /\ kept \in Seq(Nat)
      /\ Len(kept) = IF e + 1 <= Len(times) THEN Len(times) - (e + 1) + 1 ELSE 0
      /\ \A j \in 1 .. Len(times) - (e + 1) + 1 : kept[j] = times[(e + 1) + j - 1]
  <2>1. \A i \in (e + 1) .. Len(times) : times[i] \in Nat
    <3> SUFFICES ASSUME NEW i \in (e + 1) .. Len(times)
                 PROVE  times[i] \in Nat
      OBVIOUS
    <3>1. i \in 1 .. Len(times)
      BY <1>2
    <3> QED
      BY <3>1, ElementOfSeq
  <2>2. /\ SubSeq(times, e + 1, Len(times)) \in Seq(Nat)
        /\ Len(SubSeq(times, e + 1, Len(times)))
              = IF e + 1 <= Len(times) THEN Len(times) - (e + 1) + 1 ELSE 0
        /\ \A j \in 1 .. Len(times) - (e + 1) + 1 :
              SubSeq(times, e + 1, Len(times))[j] = times[(e + 1) + j - 1]
    BY <1>2, <2>1, SubSeqProperties
  <2> QED
    BY <1>3, <2>2
<1> HIDE DEF kept
<1>5. Len(kept) = Len(times) - e /\ Len(times) - Len(kept) = e /\ Len(kept) \in Nat
  BY <1>2, <1>4
<1>6. \A j \in 1 .. Len(kept) : kept[j] = times[e + j]
  <2> SUFFICES ASSUME NEW j \in 1 .. Len(kept)
               PROVE  kept[j] = times[e + j]
    OBVIOUS
  <2>1. j \in 1 .. Len(times) - (e + 1) + 1 /\ (e + 1) + j - 1 = e + j
    BY <1>2, <1>5
  <2> QED
    BY <1>4, <2>1
<1>7. Len(kept) > 0 => ~(kept[1] <= cutoff)
  <2> SUFFICES ASSUME Len(kept) > 0
               PROVE  ~(kept[1] <= cutoff)
    OBVIOUS
  <2>1. 1 \in 1 .. Len(kept) /\ e < Len(times)
    BY <1>2, <1>5
  <2> QED
    BY <1>1, <1>6, <2>1
<1> QED
  BY <1>1, <1>2, <1>4, <1>5, <1>6, <1>7 DEF kept

LEMMA TimesType ==
    ASSUME NEW table, IsTable(table), NEW ip
    PROVE  TimesIn(table, ip) \in Seq(Nat)
<1>1. CASE ip \in DOMAIN table
  BY <1>1 DEF IsTable, ClientState, TimesIn
<1>2. CASE ip \notin DOMAIN table
  BY <1>2 DEF TimesIn
<1> QED
  BY <1>1, <1>2

\* Deleting an idle entry and making a new one change no deque.
LEMMA PreparedTimes ==
    ASSUME TypeOK, NEW r \in Requests, NEW ip
    PROVE  TimesIn(Prepared(r), ip) = Kept(r, ip)
<1> DEFINE cutoff == observed[r] - Window
           table == Pruned(clients, cutoff)
           kept(i) == [clients[i] EXCEPT !.timestamps = DropExpired(@, cutoff)]
<1>1. IsTable(clients) /\ cutoff \in Int
  BY LimitsAssumption DEF TypeOK, IsTable
<1>2. DropExpired(<<>>, cutoff) = <<>>
  <2>1. <<>> \in Seq(Nat)
    OBVIOUS
  <2> HIDE DEF cutoff
  <2>2. Expired(<<>>, cutoff) \in 0 .. Len(<<>>)
    BY <1>1, <2>1, ExpiredBound
  <2>3. Expired(<<>>, cutoff) = 0
    BY <2>2
  <2> QED
    BY <2>3 DEF DropExpired
<1>3. TimesIn(table, ip) = DropExpired(TimesIn(clients, ip), cutoff)
  <2>1. /\ DOMAIN table = {j \in DOMAIN clients : ~Idle(kept(j))}
        /\ \A i \in DOMAIN table : table[i] = kept(i)
    BY DEF Pruned
  <2>2. ASSUME ip \in DOMAIN clients
        PROVE  kept(ip).timestamps = DropExpired(clients[ip].timestamps, cutoff)
    BY <1>1, <2>2 DEF IsTable, ClientState
  <2> HIDE DEF kept, table, cutoff
  <2>3. CASE ip \notin DOMAIN clients
    BY <1>2, <2>1, <2>3 DEF TimesIn
  <2>4. CASE ip \in DOMAIN clients /\ Idle(kept(ip))
    BY <2>1, <2>2, <2>4 DEF TimesIn, Idle
  <2>5. CASE ip \in DOMAIN clients /\ ~Idle(kept(ip))
    BY <2>1, <2>2, <2>5 DEF TimesIn
  <2> QED
    BY <2>3, <2>4, <2>5
<1>4. TimesIn(Prepared(r), ip) = TimesIn(table, ip)
  <2>1. Prepared(r) = IF Ip[r] \in DOMAIN table THEN table ELSE Put(table, Ip[r], NewClient)
    BY DEF Prepared
  <2> HIDE DEF table
  <2> QED
    BY <2>1 DEF Put, NewClient, TimesIn
<1> QED
  BY <1>3, <1>4 DEF Kept

LEMMA KeptFacts ==
    ASSUME TypeOK, NEW r \in Requests, NEW ip
    PROVE  LET times == TimesIn(clients, ip)
               kept == Kept(r, ip)
               gone == Len(times) - Len(kept)
           IN  /\ times \in Seq(Nat) /\ Len(times) \in Nat
               /\ kept \in Seq(Nat) /\ Len(kept) \in Nat
               /\ gone \in Nat
               /\ \A j \in 1 .. Len(kept) : kept[j] = times[gone + j]
               /\ \A i \in 1 .. gone : times[i] <= observed[r] - Window
               /\ Len(kept) > 0 => ~(kept[1] <= observed[r] - Window)
<1>1. IsTable(clients) /\ observed[r] - Window \in Int
  BY LimitsAssumption DEF TypeOK, IsTable
<1>2. TimesIn(clients, ip) \in Seq(Nat)
  BY <1>1, TimesType
<1> QED
  BY <1>1, <1>2, DropExpiredFacts DEF Kept

\* The caller's deque is the one its limit is tested on.
LEMMA CallerTimes ==
    ASSUME TypeOK, NEW r \in Requests
    PROVE  /\ Prepared(r)[Ip[r]].timestamps = Kept(r, Ip[r])
           /\ Prepared(r)[Ip[r]].active = ActiveOf(Ip[r])
<1>1. /\ Ip[r] \in DOMAIN Prepared(r) /\ Ip[r] \in IPs
      /\ ActiveIn(Prepared(r), Ip[r]) = ActiveOf(Ip[r])
  BY PreparedFacts, RequestsAssumption
<1>2. TimesIn(Prepared(r), Ip[r]) = Kept(r, Ip[r])
  BY PreparedTimes
<1> QED
  BY <1>1, <1>2 DEF TimesIn, ActiveIn

\* A refusal writes back the pruned deques.
LEMMA RefusalTimes ==
    ASSUME TypeOK, NEW r \in Requests, RateLimited(r) \/ IpBusy(r) \/ ServerBusy(r), NEW ip
    PROVE  TimesIn(clients', ip) = Kept(r, ip)
<1>1. TimesIn(Prepared(r), ip) = Kept(r, ip)
  BY PreparedTimes
<1>2. \/ clients' = Prepared(r)
      \/ Idle(Prepared(r)[Ip[r]]) /\ clients' = Without(Prepared(r), Ip[r])
  BY DEF RateLimited, IpBusy, ServerBusy
<1>3. CASE clients' = Prepared(r)
  BY <1>1, <1>3
<1>4. CASE Idle(Prepared(r)[Ip[r]]) /\ clients' = Without(Prepared(r), Ip[r])
  <2>1. TimesIn(clients', ip) = TimesIn(Prepared(r), ip)
    BY <1>4 DEF Without, TimesIn, Idle
  <2> QED
    BY <1>1, <2>1
<1> QED
  BY <1>2, <1>3, <1>4

\* An admission adds its own timestamp.
LEMMA AdmitTimes ==
    ASSUME TypeOK, NEW r \in Requests, Admit(r), NEW ip
    PROVE  TimesIn(clients', ip)
              = IF ip = Ip[r] THEN Append(Kept(r, ip), observed[r]) ELSE Kept(r, ip)
<1> DEFINE table == Prepared(r)
           state == [timestamps |-> Append(table[Ip[r]].timestamps, observed[r]),
                     active |-> table[Ip[r]].active + 1]
<1>1. clients' = Put(table, Ip[r], state)
  BY DEF Admit
<1>2. TimesIn(table, ip) = Kept(r, ip) /\ table[Ip[r]].timestamps = Kept(r, Ip[r])
  BY PreparedTimes, CallerTimes
<1>3. state.timestamps = Append(Kept(r, Ip[r]), observed[r])
  BY <1>2
<1> HIDE DEF table, state
<1>4. TimesIn(clients', ip) = IF ip = Ip[r] THEN state.timestamps ELSE TimesIn(table, ip)
  BY <1>1 DEF Put, TimesIn
<1> QED
  BY <1>2, <1>3, <1>4

\* A release keeps every deque; the entry it may delete has an empty one.
LEMMA ReleaseTimes ==
    ASSUME TypeOK, NEW r \in Requests, Release(r), NEW ip
    PROVE  TimesIn(clients', ip) = TimesIn(clients, ip)
<1> DEFINE state == [clients[Ip[r]] EXCEPT !.active = @ - 1]
<1>1. \/ clients' = clients
      \/ /\ Ip[r] \in DOMAIN clients
         /\ clients' = IF Idle(state) THEN Without(clients, Ip[r]) ELSE Put(clients, Ip[r], state)
  BY DEF Release, Released
<1>2. CASE clients' = clients
  BY <1>2
<1>3. CASE /\ Ip[r] \in DOMAIN clients
           /\ clients' = IF Idle(state) THEN Without(clients, Ip[r]) ELSE Put(clients, Ip[r], state)
  <2>1. state.timestamps = clients[Ip[r]].timestamps
    BY <1>3 DEF TypeOK, ClientState
  <2> HIDE DEF state
  <2> QED
    BY <1>3, <2>1 DEF Put, Without, TimesIn, Idle
<1> QED
  BY <1>1, <1>2, <1>3

-----------------------------------------------------------------------------
(* Waiting as long as one was told: callers may be threads                 *)

\* A deque is never longer than the limit, and while it is full an address
\* that was told when to return is told no earlier than its oldest timestamp
\* leaves the window.
RetryOf(ip) ==
    /\ Len(TimesIn(clients, ip)) <= PerMinute
    /\ retryAt[ip] # -1 /\ Len(TimesIn(clients, ip)) = PerMinute =>
         TimesIn(clients, ip)[1] + Window <= retryAt[ip]

RetryInv == \A ip \in IPs : RetryOf(ip)

\* A request is answered when try_acquire returns.
AnswerInv == \A r \in Requests : pc[r] \in {"idle", "deciding"} <=> answer[r] = "none"

CallerInv == IInv /\ RetryInv /\ AnswerInv

\* Rounding up never tells a caller to come too early.
LEMMA CeilDivBound ==
    ASSUME NEW a \in Int, NEW b \in Nat \ {0}
    PROVE  CeilDiv(a, b) \in Int /\ a <= b * CeilDiv(a, b)
<1> DEFINE n == a + b - 1
           q == n \div b
<1>1. n \in Int /\ q \in Int
  OBVIOUS
<1>2. n < b * q + b
  OBVIOUS
<1>3. b * q \in Int
  BY <1>1
<1> HIDE DEF q
<1>4. a <= b * q
  BY <1>2, <1>3
<1> QED
  BY <1>1, <1>4 DEF q, CeilDiv

LEMMA RetrySecondsBound ==
    ASSUME NEW times, times[1] \in Nat, NEW t \in Nat
    PROVE  /\ t + TicksPerSecond * RetrySeconds(times, t) \in Int
           /\ times[1] + Window <= t + TicksPerSecond * RetrySeconds(times, t)
<1> DEFINE a == times[1] + Window - t
           n == CeilDiv(a, TicksPerSecond)
           m == AtLeastOne(n)
<1>1. a \in Int /\ TicksPerSecond \in Nat \ {0} /\ Window \in Nat
  BY LimitsAssumption
<1> HIDE DEF a
<1>2. n \in Int /\ a <= TicksPerSecond * n
  BY <1>1, CeilDivBound
<1> HIDE DEF n
<1>3. m \in Int /\ n <= m
  BY <1>2 DEF AtLeastOne
<1> HIDE DEF m
<1>4. TicksPerSecond * n <= TicksPerSecond * m
  BY <1>1, <1>2, <1>3
<1>5. TicksPerSecond * n \in Int /\ TicksPerSecond * m \in Int
  BY <1>1, <1>2, <1>3
<1>6. RetrySeconds(times, t) = m
  BY DEF RetrySeconds, m, n, a
<1>7. times[1] + Window <= t + TicksPerSecond * m
  BY <1>1, <1>2, <1>4, <1>5 DEF a
<1> QED
  BY <1>5, <1>6, <1>7

\* Pruning never fills a deque, and leaves a full one as it was.
LEMMA KeptRetry ==
    ASSUME TypeOK, RetryInv, NEW r \in Requests, NEW ip \in IPs
    PROVE  LET times == TimesIn(clients, ip)
               kept == Kept(r, ip)
           IN  /\ Len(kept) <= PerMinute
               /\ Len(kept) = PerMinute =>
                    /\ Len(times) = PerMinute /\ kept[1] = times[1]
                    /\ kept[1] \in Nat
                    /\ observed[r] < kept[1] + Window
<1> DEFINE times == TimesIn(clients, ip)
           kept == Kept(r, ip)
           gone == Len(times) - Len(kept)
<1>1. /\ times \in Seq(Nat) /\ Len(times) \in Nat
      /\ kept \in Seq(Nat) /\ Len(kept) \in Nat
      /\ gone \in Nat
      /\ \A j \in 1 .. Len(kept) : kept[j] = times[gone + j]
      /\ Len(kept) > 0 => ~(kept[1] <= observed[r] - Window)
  BY KeptFacts
<1>2. Len(times) <= PerMinute
  BY DEF RetryInv, RetryOf
<1>3. PerMinute \in Nat \ {0} /\ Window \in Nat /\ observed[r] \in Nat
  BY LimitsAssumption DEF TypeOK
<1> HIDE DEF times, kept
<1>4. Len(kept) <= PerMinute
  BY <1>1, <1>2, <1>3
<1>5. ASSUME Len(kept) = PerMinute
      PROVE  /\ Len(times) = PerMinute /\ kept[1] = times[1]
             /\ kept[1] \in Nat
             /\ observed[r] < kept[1] + Window
  <2>1. Len(times) = PerMinute /\ gone = 0 /\ 1 \in 1 .. Len(kept)
    BY <1>1, <1>2, <1>3, <1>5
  <2>2. kept[1] = times[1] /\ kept[1] \in Nat
    BY <1>1, <2>1, ElementOfSeq
  <2>3. ~(kept[1] <= observed[r] - Window)
    BY <1>1, <1>3, <1>5
  <2> QED
    BY <1>3, <2>1, <2>2, <2>3
<1> QED
  BY <1>4, <1>5 DEF times, kept

\* Pruning alone keeps what an address was told.
LEMMA RetryKept ==
    ASSUME TypeOK, RetryInv, NEW r \in Requests, NEW ip \in IPs,
           TimesIn(clients', ip) = Kept(r, ip), retryAt'[ip] = retryAt[ip]
    PROVE  RetryOf(ip)'
<1>1. /\ Len(Kept(r, ip)) <= PerMinute
      /\ Len(Kept(r, ip)) = PerMinute =>
           /\ Len(TimesIn(clients, ip)) = PerMinute
           /\ Kept(r, ip)[1] = TimesIn(clients, ip)[1]
  BY KeptRetry
<1>2. retryAt[ip] # -1 /\ Len(TimesIn(clients, ip)) = PerMinute =>
        TimesIn(clients, ip)[1] + Window <= retryAt[ip]
  BY DEF RetryInv, RetryOf
<1>3. TimesIn(clients, ip)' = Kept(r, ip)
  BY DEF TimesIn
<1> QED
  BY <1>1, <1>2, <1>3 DEF RetryOf

\* Of an address that is not the caller's, nothing changes but the pruning.
LEMMA RetryStep ==
    ASSUME CallerInv, NEW r \in Requests,
           Admit(r) \/ RateLimited(r) \/ IpBusy(r) \/ ServerBusy(r)
    PROVE  RetryInv'
<1>1. TypeOK /\ RetryInv
  BY DEF CallerInv, IInv
<1>2. SUFFICES ASSUME NEW ip \in IPs PROVE RetryOf(ip)'
  BY DEF RetryInv
<1>3. CASE IpBusy(r) \/ ServerBusy(r)
  <2>1. TimesIn(clients', ip) = Kept(r, ip)
    BY <1>1, <1>3, RefusalTimes
  <2>2. retryAt'[ip] = retryAt[ip]
    BY <1>3 DEF IpBusy, ServerBusy
  <2> QED
    BY <1>1, <2>1, <2>2, RetryKept
<1>4. CASE RateLimited(r)
  <2>1. TimesIn(clients', ip) = Kept(r, ip)
    BY <1>1, <1>4, RefusalTimes
  <2>2. retryAt' = [retryAt EXCEPT ![Ip[r]] = observed[r]
          + TicksPerSecond * RetrySeconds(Prepared(r)[Ip[r]].timestamps, observed[r])]
    BY <1>4 DEF RateLimited
  <2>3. CASE ip # Ip[r]
    BY <1>1, <2>1, <2>2, <2>3, RetryKept DEF TypeOK
  <2>4. CASE ip = Ip[r]
    <3> DEFINE kept == Kept(r, ip)
               time == observed[r] + TicksPerSecond * RetrySeconds(kept, observed[r])
    <3>1. Prepared(r)[Ip[r]].timestamps = kept
      BY <1>1, <2>4, CallerTimes
    <3>2. retryAt'[ip] = time
      BY <1>1, <2>2, <2>4, <3>1 DEF TypeOK
    <3>3. Len(kept) <= PerMinute /\ (Len(kept) = PerMinute => kept[1] \in Nat)
      BY <1>1, KeptRetry
    <3>4. observed[r] \in Nat
      BY <1>1 DEF TypeOK
    <3>5. TimesIn(clients, ip)' = kept
      BY <2>1 DEF TimesIn
    <3> HIDE DEF kept
    <3>6. kept[1] \in Nat => kept[1] + Window <= time
      BY <3>4, RetrySecondsBound
    <3> HIDE DEF time
    <3> QED
      BY <3>2, <3>3, <3>5, <3>6 DEF RetryOf
  <2> QED
    BY <2>3, <2>4
<1>5. CASE Admit(r)
  <2>1. TimesIn(clients', ip)
          = IF ip = Ip[r] THEN Append(Kept(r, ip), observed[r]) ELSE Kept(r, ip)
    BY <1>1, <1>5, AdmitTimes
  <2>2. retryAt' = [retryAt EXCEPT ![Ip[r]] = -1]
    BY <1>5 DEF Admit
  <2>3. CASE ip # Ip[r]
    BY <1>1, <2>1, <2>2, <2>3, RetryKept DEF TypeOK
  <2>4. CASE ip = Ip[r]
    <3>1. retryAt'[ip] = -1
      BY <1>1, <2>2, <2>4 DEF TypeOK
    <3>2. Kept(r, ip) \in Seq(Nat) /\ Len(Kept(r, ip)) \in Nat /\ observed[r] \in Nat
      BY <1>1, KeptFacts DEF TypeOK
    <3>3. ~(Len(Kept(r, ip)) >= PerMinute)
      <4>1. ~RateFull(Prepared(r)[Ip[r]])
        BY <1>5 DEF Admit
      <4> QED
        BY <1>1, <2>4, <4>1, CallerTimes DEF RateFull
    <3>4. Len(TimesIn(clients', ip)) = Len(Kept(r, ip)) + 1
      BY <2>1, <2>4, <3>2, AppendProperties
    <3>5. Len(TimesIn(clients', ip)) <= PerMinute
      BY <3>2, <3>3, <3>4, LimitsAssumption
    <3>6. TimesIn(clients, ip)' = TimesIn(clients', ip)
      BY DEF TimesIn
    <3> QED
      BY <3>1, <3>5, <3>6 DEF RetryOf
  <2> QED
    BY <2>3, <2>4
<1> QED
  BY <1>3, <1>4, <1>5

LEMMA CallerInvariance == Spec => []CallerInv
<1>1. Init => CallerInv
  <2> SUFFICES ASSUME Init PROVE CallerInv
    OBVIOUS
  <2>1. IInv
    BY InitIInv
  <2>2. RetryInv
    <3> SUFFICES ASSUME NEW ip \in IPs PROVE RetryOf(ip)
      BY DEF RetryInv
    <3>1. TimesIn(clients, ip) = <<>> /\ retryAt[ip] = -1
      BY DEF Init, TimesIn
    <3> QED
      BY <3>1, LimitsAssumption DEF RetryOf
  <2>3. AnswerInv
    BY DEF Init, AnswerInv
  <2> QED
    BY <2>1, <2>2, <2>3 DEF CallerInv
<1>2. IInv /\ IInv' /\ CallerInv /\ [Next]_vars => CallerInv'
  <2> SUFFICES ASSUME IInv, IInv', CallerInv, [Next]_vars PROVE RetryInv' /\ AnswerInv'
    BY DEF CallerInv
  <2>1. TypeOK /\ RetryInv /\ AnswerInv
    BY DEF CallerInv, IInv
  <2>2. ASSUME \A ip : TimesIn(clients', ip) = TimesIn(clients, ip), retryAt' = retryAt
        PROVE  RetryInv'
    <3>1. \A ip : TimesIn(clients, ip)' = TimesIn(clients, ip)
      BY <2>2 DEF TimesIn
    <3> QED
      BY <2>1, <2>2, <3>1 DEF RetryInv, RetryOf
  <2>3. ASSUME NEW r \in Requests, Admit(r) \/ RateLimited(r) \/ IpBusy(r) \/ ServerBusy(r)
        PROVE  RetryInv' /\ AnswerInv'
    <3>1. RetryInv'
      BY <2>3, RetryStep
    <3>2. AnswerInv'
      BY <2>1, <2>3 DEF TypeOK, AnswerInv, Admit, RateLimited, IpBusy, ServerBusy
    <3> QED
      BY <3>1, <3>2
  <2>4. ASSUME NEW r \in Requests, Release(r) PROVE RetryInv' /\ AnswerInv'
    <3>1. RetryInv'
      BY <2>1, <2>2, <2>4, ReleaseTimes DEF Release
    <3>2. AnswerInv'
      BY <2>1, <2>4 DEF TypeOK, AnswerInv, Release
    <3> QED
      BY <3>1, <3>2
  <2>5. ASSUME NEW r \in Requests, ReadClock(r) PROVE RetryInv' /\ AnswerInv'
    <3>1. RetryInv'
      BY <2>2, <2>5 DEF ReadClock, limiterVars
    <3>2. AnswerInv'
      BY <2>1, <2>5 DEF TypeOK, AnswerInv, ReadClock
    <3> QED
      BY <3>1, <3>2
  <2>6. ASSUME Tick \/ UNCHANGED vars PROVE RetryInv' /\ AnswerInv'
    <3>1. UNCHANGED <<limiterVars, retryAt, pc, answer>>
      BY <2>6 DEF Tick, vars, limiterVars
    <3>2. RetryInv'
      BY <2>2, <3>1 DEF limiterVars
    <3> QED
      BY <2>1, <3>1, <3>2 DEF AnswerInv
  <2> QED
    BY <2>3, <2>4, <2>5, <2>6 DEF Next
<1> QED
  BY <1>1, <1>2, Invariance, PTL DEF Spec

\* A caller of try_acquire that comes back when its Retry-After says is not
\* rate limited again, unless the address was granted a request in between.
THEOREM WaitingIsEnough == Spec => RetryAfterHonoured
<1> DEFINE Honoured == \A r \in Requests :
             answer[r] = "none" /\ answer'[r] = "rate_limited" =>
               retryAt[Ip[r]] = -1 \/ observed[r] < retryAt[Ip[r]]
<1>1. CallerInv /\ [Next]_vars => [Honoured]_vars
  <2> SUFFICES ASSUME CallerInv, Next,
                      NEW r \in Requests, answer[r] = "none", answer'[r] = "rate_limited"
               PROVE  retryAt[Ip[r]] = -1 \/ observed[r] < retryAt[Ip[r]]
    BY DEF Honoured
  <2>1. TypeOK /\ RetryInv /\ Ip[r] \in IPs
    BY RequestsAssumption DEF CallerInv, IInv
  <2>2. RateLimited(r)
    BY <2>1 DEF TypeOK, Next, Tick, ReadClock, Admit, RateLimited, IpBusy, ServerBusy, Release
  <2> DEFINE kept == Kept(r, Ip[r])
             old == TimesIn(clients, Ip[r])
  <2>3. Len(kept) >= PerMinute
    BY <2>1, <2>2, CallerTimes DEF RateLimited, RateFull
  <2>4. /\ Len(kept) <= PerMinute
        /\ Len(kept) = PerMinute =>
             /\ Len(old) = PerMinute /\ kept[1] = old[1]
             /\ kept[1] \in Nat
             /\ observed[r] < kept[1] + Window
    BY <2>1, KeptRetry
  <2>5. Len(kept) \in Nat
    BY <2>1, KeptFacts
  <2>6. retryAt[Ip[r]] # -1 /\ Len(old) = PerMinute => old[1] + Window <= retryAt[Ip[r]]
    BY <2>1 DEF RetryInv, RetryOf
  <2>7. retryAt[Ip[r]] \in Int /\ observed[r] \in Nat
    BY <2>1 DEF TypeOK
  <2> HIDE DEF kept, old
  <2> QED
    BY <2>3, <2>4, <2>5, <2>6, <2>7, LimitsAssumption
<1> QED
  BY <1>1, CallerInvariance, PTL DEF Spec, RetryAfterHonoured

-----------------------------------------------------------------------------
(* The window itself: callers share one event loop                         *)

Nondecreasing(all) == \A i, j \in 1 .. Len(all) : i <= j => all[i] <= all[j]

\* kept is the end of all, and what is missing has left the window at t.
TailOf(all, kept, t) ==
    /\ Len(kept) <= Len(all)
    /\ \A j \in 1 .. Len(kept) : kept[j] = all[Len(all) - Len(kept) + j]
    /\ \A i \in 1 .. Len(all) - Len(kept) : all[i] <= t - Window

\* At t the deque of an address stands for all its admissions.
CoveredAt(all, kept, t) ==
    /\ \A i \in 1 .. Len(all) : all[i] <= t
    /\ TailOf(all, kept, t)

\* The admissions that a request made at t still counts.
RecentOf(all, t) == {i \in 1 .. Len(all) : all[i] > t - Window}

LEMMA CoveredLater ==
    ASSUME NEW all \in Seq(Nat), NEW kept \in Seq(Nat), NEW t \in Nat, NEW u \in Nat,
           t <= u, CoveredAt(all, kept, t)
    PROVE  CoveredAt(all, kept, u)
<1>1. Window \in Nat /\ Len(all) \in Nat /\ Len(kept) \in Nat
  BY LimitsAssumption, LenProperties
<1>2. \A i \in 1 .. Len(all) : all[i] \in Nat
  BY ElementOfSeq
<1>3. \A i \in 1 .. Len(all) : all[i] <= u
  BY <1>2 DEF CoveredAt
<1>4. \A i \in 1 .. Len(all) - Len(kept) : i \in 1 .. Len(all)
  BY <1>1
<1>5. \A i \in 1 .. Len(all) - Len(kept) : all[i] <= u - Window
  <2> SUFFICES ASSUME NEW i \in 1 .. Len(all) - Len(kept)
               PROVE  all[i] <= u - Window
    OBVIOUS
  <2>1. all[i] \in Nat /\ all[i] <= t - Window
    BY <1>2, <1>4 DEF CoveredAt, TailOf
  <2>2. \A a \in Nat : a <= t - Window => a <= u - Window
    BY LimitsAssumption
  <2> QED
    BY <2>1, <2>2
<1> QED
  BY <1>3, <1>5 DEF CoveredAt, TailOf

\* Pruning at t leaves what the address's admissions need.
LEMMA CoveredPruned ==
    ASSUME NEW all \in Seq(Nat), NEW times \in Seq(Nat), NEW kept \in Seq(Nat),
           NEW t \in Nat, NEW gone \in Nat,
           CoveredAt(all, times, t),
           gone = Len(times) - Len(kept),
           \A j \in 1 .. Len(kept) : kept[j] = times[gone + j],
           \A i \in 1 .. gone : times[i] <= t - Window
    PROVE  CoveredAt(all, kept, t)
<1> DEFINE old == Len(all) - Len(times)
<1>1. Len(all) \in Nat /\ Len(times) \in Nat /\ Len(kept) \in Nat
  BY LenProperties
<1>2. /\ Len(times) <= Len(all)
      /\ \A j \in 1 .. Len(times) : times[j] = all[old + j]
      /\ \A i \in 1 .. old : all[i] <= t - Window
  BY DEF CoveredAt, TailOf
<1>3. old \in Nat /\ Len(kept) <= Len(all) /\ Len(all) - Len(kept) = old + gone
  BY <1>1, <1>2
<1> HIDE DEF old
<1>4. ASSUME NEW j \in 1 .. Len(kept)
      PROVE  kept[j] = all[old + gone + j]
  <2>1. gone + j \in 1 .. Len(times) /\ old + (gone + j) = old + gone + j
    BY <1>1, <1>3
  <2> QED
    BY <1>2, <2>1
<1>5. ASSUME NEW i \in 1 .. old + gone
      PROVE  all[i] <= t - Window
  <2>1. CASE i <= old
    BY <1>2, <1>3, <2>1
  <2>2. CASE ~(i <= old)
    <3>1. i - old \in 1 .. gone /\ i - old \in 1 .. Len(times) /\ old + (i - old) = i
      BY <1>1, <1>3, <2>2
    <3> QED
      BY <1>2, <3>1
  <2> QED
    BY <2>1, <2>2
<1> QED
  BY <1>3, <1>4, <1>5 DEF CoveredAt, TailOf

\* An admission at t is appended to both.
LEMMA CoveredAppend ==
    ASSUME NEW all \in Seq(Nat), NEW kept \in Seq(Nat), NEW t \in Nat,
           Nondecreasing(all), CoveredAt(all, kept, t)
    PROVE  /\ Nondecreasing(Append(all, t))
           /\ CoveredAt(Append(all, t), Append(kept, t), t)
<1> DEFINE more == Append(all, t)
           longer == Append(kept, t)
           n == Len(all)
           k == Len(kept)
<1>1. n \in Nat /\ k \in Nat
  BY LenProperties
<1>2. /\ Len(more) = n + 1
      /\ \A i \in 1 .. n : more[i] = all[i]
      /\ more[n + 1] = t
  BY AppendProperties
<1>3. /\ Len(longer) = k + 1
      /\ \A i \in 1 .. k : longer[i] = kept[i]
      /\ longer[k + 1] = t
  BY AppendProperties
<1>4. /\ k <= n
      /\ \A j \in 1 .. k : kept[j] = all[n - k + j]
      /\ \A i \in 1 .. n - k : all[i] <= t - Window
      /\ \A i \in 1 .. n : all[i] <= t
  BY DEF CoveredAt, TailOf
<1>5. \A i, j \in 1 .. n : i <= j => all[i] <= all[j]
  BY DEF Nondecreasing
<1>6. \A i \in 1 .. n : all[i] \in Nat
  BY ElementOfSeq
<1> HIDE DEF more, longer, n, k
<1>7. \A i \in 1 .. n + 1 : i \in 1 .. n \/ i = n + 1
  BY <1>1
<1>8. \A i \in 1 .. n + 1 : more[i] <= t
  <2>1. t <= t
    OBVIOUS
  <2> QED
    BY <1>2, <1>4, <1>7, <2>1
<1>9. Nondecreasing(more)
  <2> SUFFICES ASSUME NEW i \in 1 .. n + 1, NEW j \in 1 .. n + 1, i <= j
               PROVE  more[i] <= more[j]
    BY <1>2 DEF Nondecreasing
  <2>1. CASE j = n + 1
    BY <1>2, <1>8, <2>1
  <2>2. CASE j # n + 1
    <3>1. i \in 1 .. n /\ j \in 1 .. n
      BY <1>1, <2>2
    <3> QED
      BY <1>2, <1>5, <3>1
  <2> QED
    BY <2>1, <2>2
<1>10. n + 1 - (k + 1) = n - k /\ k + 1 <= n + 1
  BY <1>1, <1>4
<1>11. ASSUME NEW j \in 1 .. k + 1
       PROVE  longer[j] = more[n - k + j]
  <2>1. CASE j = k + 1
    <3>1. n - k + j = n + 1
      BY <1>1, <2>1
    <3> QED
      BY <1>2, <1>3, <2>1, <3>1
  <2>2. CASE j # k + 1
    <3>1. j \in 1 .. k /\ n - k + j \in 1 .. n
      BY <1>1, <1>4, <2>2
    <3> QED
      BY <1>2, <1>3, <1>4, <3>1
  <2> QED
    BY <2>1, <2>2
<1>12. ASSUME NEW i \in 1 .. n - k
       PROVE  more[i] <= t - Window
  <2>1. i \in 1 .. n
    BY <1>1, <1>4
  <2> QED
    BY <1>2, <1>4, <2>1
<1>13. CoveredAt(more, longer, t)
  <2>1. Len(more) - Len(longer) = n - k /\ Len(longer) <= Len(more)
    <3>1. Len(more) = n + 1 /\ Len(longer) = k + 1
      BY <1>2, <1>3
    <3> QED
      BY <1>1, <1>4, <3>1
  <2>2. \A i \in 1 .. Len(more) : more[i] <= t
    BY <1>2, <1>8
  <2>3. \A j \in 1 .. Len(longer) : longer[j] = more[n - k + j]
    BY <1>3, <1>11
  <2> QED
    BY <1>12, <2>1, <2>2, <2>3 DEF CoveredAt, TailOf
<1> QED
  BY <1>9, <1>13 DEF more, longer

\* The admissions in the window are at most the deque; when the deque is
\* pruned and the admissions are in order, they are as many.
LEMMA RecentCount ==
    ASSUME NEW all \in Seq(Nat), NEW kept \in Seq(Nat), NEW t \in Nat,
           CoveredAt(all, kept, t)
    PROVE  /\ IsFiniteSet(RecentOf(all, t))
           /\ Cardinality(RecentOf(all, t)) \in Nat
           /\ Cardinality(RecentOf(all, t)) <= Len(kept)
           /\ Nondecreasing(all) /\ (Len(kept) > 0 => ~(kept[1] <= t - Window)) =>
                Cardinality(RecentOf(all, t)) = Len(kept)
<1> DEFINE n == Len(all)
           k == Len(kept)
           first == n - k + 1
           tail == first .. n
           R == RecentOf(all, t)
<1>1. n \in Nat /\ k \in Nat /\ Window \in Nat
  BY LenProperties, LimitsAssumption
<1>2. /\ k <= n
      /\ \A j \in 1 .. k : kept[j] = all[n - k + j]
      /\ \A i \in 1 .. n - k : all[i] <= t - Window
  BY DEF CoveredAt, TailOf
<1>3. \A i \in 1 .. n : all[i] \in Nat
  BY ElementOfSeq
<1>4. R = {i \in 1 .. n : all[i] > t - Window}
  BY DEF RecentOf
<1> HIDE DEF n, k, R
<1>5. first \in Int /\ n \in Int /\ 1 <= first /\ n - first + 1 = k /\ (first > n <=> k = 0)
  BY <1>1, <1>2
<1>6. R \subseteq tail
  <2> SUFFICES ASSUME NEW i \in 1 .. n, all[i] > t - Window PROVE i \in tail
    BY <1>4
  <2>1. i \notin 1 .. n - k
    BY <1>1, <1>2, <1>3
  <2> QED
    BY <1>1, <1>2, <2>1
<1> HIDE DEF first
<1>7. IsFiniteSet(tail) /\ Cardinality(tail) = k
  <2>1. IsFiniteSet(first .. n)
    BY <1>5, FS_Interval
  <2>2. Cardinality(first .. n) = IF first > n THEN 0 ELSE n - first + 1
    BY <1>5, FS_Interval
  <2>3. Cardinality(first .. n) = k
    BY <1>5, <2>2
  <2> QED
    BY <2>1, <2>3
<1> HIDE DEF tail
<1>8. IsFiniteSet(R) /\ Cardinality(R) <= k
  BY <1>6, <1>7, FS_Subset
<1>9. Cardinality(R) \in Nat
  BY <1>8, FS_CardinalityType
<1>10. ASSUME Nondecreasing(all), Len(kept) > 0 => ~(kept[1] <= t - Window)
       PROVE  Cardinality(R) = Len(kept)
  <2>1. tail \subseteq R
    <3> SUFFICES ASSUME NEW i \in tail PROVE i \in 1 .. n /\ all[i] > t - Window
      BY <1>4
    <3>1. /\ i \in 1 .. n /\ first <= i /\ first \in 1 .. n
          /\ first = n - k + 1 /\ 1 \in 1 .. k /\ k > 0
      BY <1>1, <1>2 DEF tail, first
    <3>2. all[first] = kept[1]
      BY <1>2, <3>1
    <3>3. all[first] \in Nat /\ all[i] \in Nat
      BY <1>3, <3>1
    <3>4. ~(all[first] <= t - Window)
      BY <1>10, <3>1, <3>2 DEF k
    <3>5. all[first] <= all[i]
      BY <1>10, <3>1 DEF Nondecreasing, n
    <3>6. \A a, b \in Nat : ~(a <= t - Window) /\ a <= b => b > t - Window
      BY LimitsAssumption
    <3>7. all[i] > t - Window
      BY <3>3, <3>4, <3>5, <3>6
    <3> QED
      BY <3>1, <3>7
  <2>2. R = tail
    BY <1>6, <2>1
  <2> QED
    BY <1>7, <2>2 DEF k
<1> QED
  BY <1>8, <1>9, <1>10 DEF k, R

\* No window of the admissions holds more than the limit.
SlidingOf(all) ==
    \A last \in DOMAIN all :
        Cardinality({i \in 1 .. last : all[i] > all[last] - Window}) <= PerMinute

LEMMA SlidingAppend ==
    ASSUME NEW all \in Seq(Nat), NEW kept \in Seq(Nat), NEW t \in Nat,
           CoveredAt(all, kept, t), SlidingOf(all), ~(Len(kept) >= PerMinute)
    PROVE  SlidingOf(Append(all, t))
<1> DEFINE more == Append(all, t)
           n == Len(all)
           InWindow(last) == {i \in 1 .. last : more[i] > more[last] - Window}
<1>1. n \in Nat /\ Len(kept) \in Nat /\ DOMAIN all = 1 .. n
  BY LenProperties
<1>2. /\ more \in Seq(Nat) /\ Len(more) = n + 1
      /\ \A i \in 1 .. n : more[i] = all[i]
      /\ more[n + 1] = t
  BY AppendProperties
<1>3. DOMAIN more = 1 .. n + 1
  BY <1>2, LenProperties
<1> HIDE DEF more
<1>4. SUFFICES ASSUME NEW last \in 1 .. n + 1
               PROVE  Cardinality(InWindow(last)) <= PerMinute
  BY <1>3 DEF SlidingOf, more
<1>5. CASE last \in 1 .. n
  <2>1. InWindow(last) = {i \in 1 .. last : all[i] > all[last] - Window}
    <3>1. \A i \in 1 .. last : i \in 1 .. n
      BY <1>1, <1>5
    <3> QED
      BY <1>2, <1>5, <3>1
  <2> QED
    BY <1>1, <1>5, <2>1 DEF SlidingOf
<1>6. CASE last \notin 1 .. n
  <2>1. last = n + 1
    BY <1>1, <1>6
  <2>2. /\ IsFiniteSet(RecentOf(all, t))
        /\ Cardinality(RecentOf(all, t)) \in Nat
        /\ Cardinality(RecentOf(all, t)) <= Len(kept)
    BY RecentCount
  <2>3. t > t - Window
    BY LimitsAssumption
  <2>4. \A i \in 1 .. n + 1 : i \in 1 .. n \/ i = n + 1
    BY <1>1
  <2>5. n + 1 \in 1 .. n + 1 /\ n + 1 \notin 1 .. n /\ \A i \in 1 .. n : i \in 1 .. n + 1
    BY <1>1
  <2>6. InWindow(n + 1) = RecentOf(all, t) \cup {n + 1} /\ n + 1 \notin RecentOf(all, t)
    BY <1>2, <2>3, <2>4, <2>5 DEF RecentOf
  <2> HIDE DEF InWindow
  <2>7. Cardinality(InWindow(n + 1)) = Cardinality(RecentOf(all, t)) + 1
    BY <2>2, <2>6, FS_AddElement
  <2> QED
    BY <1>1, <2>1, <2>2, <2>7, LimitsAssumption
<1> QED
  BY <1>5, <1>6

Covered(t) == \A ip \in IPs : CoveredAt(admissions[ip], TimesIn(clients, ip), t)

\* With one decision at a time, clock values are decided on in the order they
\* were read in; the deques are good for the clock and for the one decision.
WindowInv ==
    /\ EventLoop
    /\ \A ip \in IPs : Nondecreasing(admissions[ip])
    /\ Covered(now)
    /\ \A r \in Requests : pc[r] = "deciding" =>
        /\ observed[r] <= now
        /\ Covered(observed[r])
        /\ \A other \in Requests : pc[other] = "deciding" => other = r

LoopInv == CallerInv /\ WindowInv /\ SlidingWindow

\* What a decision finds once it has pruned the deques.
LEMMA DecisionFacts ==
    ASSUME TypeOK, WindowInv, NEW r \in Requests, pc[r] = "deciding"
    PROVE  /\ observed[r] \in Nat /\ now \in Nat /\ observed[r] <= now
           /\ \A ip \in IPs :
                /\ admissions[ip] \in Seq(Nat) /\ Kept(r, ip) \in Seq(Nat)
                /\ Nondecreasing(admissions[ip])
                /\ CoveredAt(admissions[ip], Kept(r, ip), observed[r])
<1>1. observed[r] \in Nat /\ now \in Nat /\ observed[r] <= now /\ Covered(observed[r])
  BY DEF TypeOK, WindowInv
<1>2. ASSUME NEW ip \in IPs
      PROVE  /\ admissions[ip] \in Seq(Nat) /\ Kept(r, ip) \in Seq(Nat)
             /\ Nondecreasing(admissions[ip])
             /\ CoveredAt(admissions[ip], Kept(r, ip), observed[r])
  <2> DEFINE all == admissions[ip]
             times == TimesIn(clients, ip)
             kept == Kept(r, ip)
             t == observed[r]
             gone == Len(times) - Len(kept)
  <2>1. all \in Seq(Nat) /\ Nondecreasing(all)
    BY DEF TypeOK, WindowInv
  <2>2. /\ times \in Seq(Nat) /\ kept \in Seq(Nat) /\ gone \in Nat
        /\ \A j \in 1 .. Len(kept) : kept[j] = times[gone + j]
        /\ \A i \in 1 .. gone : times[i] <= t - Window
    BY KeptFacts
  <2>3. t \in Nat /\ CoveredAt(all, times, t)
    BY <1>1 DEF Covered
  <2>4. PICK g \in Nat : g = gone
    BY <2>2
  <2>5. /\ \A j \in 1 .. Len(kept) : kept[j] = times[g + j]
        /\ \A i \in 1 .. g : times[i] <= t - Window
        /\ g = Len(times) - Len(kept)
    BY <2>2, <2>4
  <2> HIDE DEF all, times, kept, t, gone
  <2>6. CoveredAt(all, kept, t)
    BY <2>1, <2>2, <2>3, <2>5, CoveredPruned
  <2> QED
    BY <2>1, <2>2, <2>6 DEF all, kept, t
<1> QED
  BY <1>1, <1>2

LEMMA DecisionStep ==
    ASSUME TypeOK, WindowInv, SlidingWindow, NEW r \in Requests,
           Admit(r) \/ RateLimited(r) \/ IpBusy(r) \/ ServerBusy(r)
    PROVE  WindowInv' /\ SlidingWindow'
<1>1. /\ pc[r] = "deciding" /\ now' = now /\ \A other \in Requests : pc'[other] # "deciding"
  <2>1. /\ pc[r] = "deciding" /\ now' = now
        /\ pc' = [pc EXCEPT ![r] = "serving"] \/ pc' = [pc EXCEPT ![r] = "done"]
    BY DEF Admit, RateLimited, IpBusy, ServerBusy
  <2>2. \A other \in Requests : pc[other] = "deciding" => other = r
    BY <2>1 DEF WindowInv
  <2> QED
    BY <2>1, <2>2 DEF TypeOK
<1>2. /\ observed[r] \in Nat /\ now \in Nat /\ observed[r] <= now
      /\ \A ip \in IPs :
           /\ admissions[ip] \in Seq(Nat) /\ Kept(r, ip) \in Seq(Nat)
           /\ Nondecreasing(admissions[ip])
           /\ CoveredAt(admissions[ip], Kept(r, ip), observed[r])
  BY <1>1, DecisionFacts
<1>3. \A ip \in IPs : SlidingOf(admissions[ip])
  BY DEF SlidingWindow, SlidingOf
<1>4. ASSUME NEW ip \in IPs
      PROVE  /\ Nondecreasing(admissions'[ip])
             /\ SlidingOf(admissions'[ip])
             /\ CoveredAt(admissions'[ip], TimesIn(clients', ip), now)
  <2> DEFINE all == admissions[ip]
             kept == Kept(r, ip)
             t == observed[r]
  <2>1. /\ all \in Seq(Nat) /\ kept \in Seq(Nat) /\ t \in Nat
        /\ Nondecreasing(all) /\ CoveredAt(all, kept, t) /\ SlidingOf(all)
    BY <1>2, <1>3
  <2>2. CASE Admit(r) /\ ip = Ip[r]
    <3>1. admissions'[ip] = Append(all, t) /\ TimesIn(clients', ip) = Append(kept, t)
      BY <2>2, AdmitTimes DEF Admit, TypeOK
    <3>2. ~(Len(kept) >= PerMinute)
      BY <2>2, CallerTimes DEF Admit, RateFull
    <3> HIDE DEF all, kept, t
    <3>3. Nondecreasing(Append(all, t)) /\ CoveredAt(Append(all, t), Append(kept, t), t)
      BY <2>1, CoveredAppend
    <3>4. SlidingOf(Append(all, t))
      BY <2>1, <3>2, SlidingAppend
    <3>5. Append(all, t) \in Seq(Nat) /\ Append(kept, t) \in Seq(Nat)
      BY <2>1, AppendProperties
    <3>6. t \in Nat /\ t <= now /\ now \in Nat
      BY <1>2 DEF t
    <3>7. CoveredAt(Append(all, t), Append(kept, t), now)
      BY <3>3, <3>5, <3>6, CoveredLater
    <3> QED
      BY <3>1, <3>3, <3>4, <3>7
  <2>3. CASE ~(Admit(r) /\ ip = Ip[r])
    <3>1. admissions'[ip] = all /\ TimesIn(clients', ip) = kept
      BY <2>3, AdmitTimes, RefusalTimes DEF Admit, RateLimited, IpBusy, ServerBusy, TypeOK
    <3> HIDE DEF all, kept, t
    <3>2. t \in Nat /\ t <= now /\ now \in Nat
      BY <1>2 DEF t
    <3>3. CoveredAt(all, kept, now)
      BY <2>1, <3>2, CoveredLater
    <3> QED
      BY <2>1, <3>1, <3>3
  <2> QED
    BY <2>2, <2>3
<1>5. WindowInv'
  <2>1. \A ip : TimesIn(clients, ip)' = TimesIn(clients', ip)
    BY DEF TimesIn
  <2>2. Covered(now)'
    BY <1>1, <1>4, <2>1 DEF Covered
  <2> QED
    BY <1>1, <1>4, <2>2 DEF WindowInv
<1>6. SlidingWindow'
  BY <1>4 DEF SlidingWindow, SlidingOf
<1> QED
  BY <1>5, <1>6

LEMMA LoopInvariance == EventLoop /\ Spec => []LoopInv
<1>1. EventLoop /\ Init /\ CallerInv => LoopInv
  <2> SUFFICES ASSUME EventLoop, Init, CallerInv PROVE WindowInv /\ SlidingWindow
    BY DEF LoopInv
  <2>1. /\ now \in Nat /\ \A r \in Requests : pc[r] = "idle"
        /\ \A ip \in IPs : admissions[ip] = <<>> /\ TimesIn(clients, ip) = <<>>
    BY DEF Init, TimesIn
  <2>2. Nondecreasing(<<>>) /\ SlidingOf(<<>>) /\ \A t \in Nat : CoveredAt(<<>>, <<>>, t)
    BY DEF Nondecreasing, SlidingOf, CoveredAt, TailOf
  <2>3. WindowInv
    BY <2>1, <2>2 DEF WindowInv, Covered
  <2>4. SlidingWindow
    BY <2>1, <2>2 DEF SlidingWindow, SlidingOf
  <2> QED
    BY <2>3, <2>4
<1>2. CallerInv' /\ LoopInv /\ [Next]_vars => LoopInv'
  <2> SUFFICES ASSUME CallerInv', LoopInv, [Next]_vars PROVE WindowInv' /\ SlidingWindow'
    BY DEF LoopInv
  <2>1. TypeOK /\ TypeOK' /\ WindowInv /\ SlidingWindow
    BY DEF LoopInv, CallerInv, IInv
  <2>2. ASSUME NEW r \in Requests, Admit(r) \/ RateLimited(r) \/ IpBusy(r) \/ ServerBusy(r)
        PROVE  WindowInv' /\ SlidingWindow'
    BY <2>1, <2>2, DecisionStep
  <2>3. ASSUME admissions' = admissions,
               \A ip : TimesIn(clients', ip) = TimesIn(clients, ip),
               now <= now'
        PROVE  /\ Covered(now)' /\ SlidingWindow'
               /\ \A ip \in IPs : Nondecreasing(admissions'[ip])
    <3>1. \A ip : TimesIn(clients, ip)' = TimesIn(clients, ip)
      BY <2>3 DEF TimesIn
    <3>2. ASSUME NEW ip \in IPs
          PROVE  CoveredAt(admissions[ip], TimesIn(clients, ip), now')
      <4>1. admissions[ip] \in Seq(Nat) /\ IsTable(clients)
        BY <2>1 DEF TypeOK, IsTable
      <4>2. TimesIn(clients, ip) \in Seq(Nat)
        BY <4>1, TimesType
      <4>3. now \in Nat /\ now' \in Nat
        BY <2>1 DEF TypeOK
      <4>4. CoveredAt(admissions[ip], TimesIn(clients, ip), now)
        BY <2>1 DEF WindowInv, Covered
      <4> QED
        BY <2>3, <4>1, <4>2, <4>3, <4>4, CoveredLater
    <3>3. Covered(now)'
      BY <2>3, <3>1, <3>2 DEF Covered
    <3>4. SlidingWindow'
      BY <2>1, <2>3 DEF SlidingWindow
    <3> QED
      BY <2>1, <2>3, <3>3, <3>4 DEF WindowInv
  <2>4. ASSUME admissions' = admissions,
               \A ip : TimesIn(clients', ip) = TimesIn(clients, ip),
               now <= now', observed' = observed,
               \A r \in Requests : pc'[r] = "deciding" => pc[r] = "deciding"
        PROVE  WindowInv' /\ SlidingWindow'
    <3>1. /\ Covered(now)' /\ SlidingWindow'
          /\ \A ip \in IPs : Nondecreasing(admissions'[ip])
      BY <2>3, <2>4
    <3>2. ASSUME NEW r \in Requests, pc'[r] = "deciding"
          PROVE  /\ observed'[r] <= now'
                 /\ Covered(observed[r])'
                 /\ \A other \in Requests : pc'[other] = "deciding" => other = r
      <4>1. /\ observed[r] <= now /\ Covered(observed[r])
            /\ \A other \in Requests : pc[other] = "deciding" => other = r
        BY <2>1, <2>4, <3>2 DEF WindowInv
      <4>2. observed[r] \in Nat /\ now \in Nat /\ now' \in Nat
        BY <2>1 DEF TypeOK
      <4>3. \A ip : TimesIn(clients, ip)' = TimesIn(clients, ip)
        BY <2>4 DEF TimesIn
      <4>4. Covered(observed[r])'
        BY <2>4, <4>1, <4>3 DEF Covered
      <4>5. observed'[r] <= now'
        BY <2>4, <4>1, <4>2
      <4> QED
        BY <2>4, <4>1, <4>4, <4>5
    <3> QED
      BY <2>1, <3>1, <3>2 DEF WindowInv
  <2>5. ASSUME NEW r \in Requests, Release(r) PROVE WindowInv' /\ SlidingWindow'
    <3>1. admissions' = admissions /\ observed' = observed /\ now <= now'
      BY <2>1, <2>5 DEF Release, TypeOK
    <3>2. \A other \in Requests : pc'[other] = "deciding" => pc[other] = "deciding"
      BY <2>1, <2>5 DEF Release, TypeOK
    <3> QED
      BY <2>1, <2>4, <2>5, <3>1, <3>2, ReleaseTimes
  <2>6. ASSUME Tick \/ UNCHANGED vars PROVE WindowInv' /\ SlidingWindow'
    <3>1. /\ UNCHANGED <<admissions, clients, observed, pc>>
          /\ now' = now + 1 \/ now' = now
      BY <2>6 DEF Tick, vars, limiterVars
    <3>2. now <= now'
      BY <2>1, <3>1 DEF TypeOK
    <3> QED
      BY <2>4, <3>1, <3>2
  <2>7. ASSUME NEW r \in Requests, ReadClock(r) PROVE WindowInv' /\ SlidingWindow'
    <3>1. /\ UNCHANGED <<admissions, clients, now>>
          /\ observed' = [observed EXCEPT ![r] = now]
          /\ pc' = [pc EXCEPT ![r] = "deciding"]
          /\ \A other \in Requests : pc[other] # "deciding"
      BY <2>1, <2>7 DEF ReadClock, limiterVars, WindowInv
    <3>2. now <= now' /\ now \in Nat
      BY <2>1, <3>1 DEF TypeOK
    <3>3. /\ Covered(now)' /\ SlidingWindow'
          /\ \A ip \in IPs : Nondecreasing(admissions'[ip])
      BY <2>3, <3>1, <3>2
    <3>4. ASSUME NEW other \in Requests, pc'[other] = "deciding"
          PROVE  other = r /\ observed'[other] = now'
      BY <2>1, <3>1, <3>4 DEF TypeOK
    <3>5. Covered(observed[r])'
      BY <2>1, <3>1, <3>3 DEF Covered, TypeOK
    <3> QED
      BY <2>1, <3>1, <3>2, <3>3, <3>4, <3>5 DEF WindowInv
  <2> QED
    BY <2>2, <2>5, <2>6, <2>7 DEF Next
<1>3. LoopInv => EventLoop
  BY DEF LoopInv, WindowInv
<1> QED
  BY <1>1, <1>2, CallerInvariance, PTL DEF Spec

\* On one event loop, no window of the admission clock holds more admissions
\* of an address than RATE_PER_MINUTE, though only the pruned deque is looked
\* at.  (With threads a late clock value is decided on after a newer one, and
\* the window is then the deque's, not the clock's.)
THEOREM WindowKept == EventLoop /\ Spec => []SlidingWindow
<1>1. LoopInv => SlidingWindow
  BY DEF LoopInv
<1> QED
  BY <1>1, LoopInvariance, PTL

-----------------------------------------------------------------------------
(* The limiter implements its promise                                      *)

\* The promise counts as the limiter's module does.
LEMMA SameCount == \A S : Promise!Cardinality(S) = Cardinality(S)
BY DEF Promise!Cardinality, Cardinality

\* What the promise counts is the deque, once it is pruned.
LEMMA RecentIsKept ==
    ASSUME LoopInv, NEW r \in Requests, pc[r] = "deciding"
    PROVE  /\ Promise!Recent(Ip[r], observed[r]) = Len(Prepared(r)[Ip[r]].timestamps)
           /\ Len(Prepared(r)[Ip[r]].timestamps) \in Nat
<1> DEFINE ip == Ip[r]
           t == observed[r]
           all == admissions[ip]
           kept == Kept(r, ip)
<1>1. TypeOK /\ WindowInv
  BY DEF LoopInv, CallerInv, IInv
<1>2. Prepared(r)[ip].timestamps = kept
  BY <1>1, CallerTimes
<1>3. ip \in IPs /\ ip \in {Ip[q] : q \in Requests}
  BY RequestsAssumption
<1>4. /\ t \in Nat /\ all \in Seq(Nat) /\ kept \in Seq(Nat)
      /\ Nondecreasing(all) /\ CoveredAt(all, kept, t)
  BY <1>1, <1>3, DecisionFacts
<1>5. (Len(kept) > 0 => ~(kept[1] <= t - Window)) /\ Len(kept) \in Nat
  BY <1>1, KeptFacts
<1>6. Promise!Recent(ip, t) = Cardinality({i \in DOMAIN all : all[i] > t - Window})
  <2> DEFINE granted == [i \in {Ip[q] : q \in Requests} |-> admissions[i]]
  <2>1. granted[ip] = all
    BY <1>3
  <2>2. Promise!Recent(ip, t)
          = Promise!Cardinality({i \in DOMAIN granted[ip] : granted[ip][i] > t - Window})
    BY DEF Promise!Recent
  <2> HIDE DEF granted
  <2> QED
    BY <2>1, <2>2, SameCount
<1> HIDE DEF ip, t, all, kept
<1>7. Promise!Recent(ip, t) = Cardinality(RecentOf(all, t))
  BY <1>4, <1>6, LenProperties DEF RecentOf
<1>8. Cardinality(RecentOf(all, t)) = Len(kept)
  BY <1>4, <1>5, RecentCount
<1> QED
  BY <1>2, <1>5, <1>7, <1>8 DEF ip, t

\* And the two counters are the requests being served.
LEMMA CountersAreServing ==
    ASSUME LoopInv, NEW r \in Requests
    PROVE  /\ Prepared(r)[Ip[r]].active = Cardinality(Promise!InFlightOf(Ip[r]))
           /\ globalActive = Cardinality(Serving)
           /\ Prepared(r)[Ip[r]].active \in Nat /\ globalActive \in Nat
<1>1. TypeOK /\ LeaseAccounting /\ Ip[r] \in IPs
  BY RequestsAssumption DEF LoopInv, CallerInv, IInv
<1>2. Promise!InFlightOf(Ip[r]) = ServingOf(Ip[r])
  BY DEF Promise!InFlightOf, ServingOf
<1>3. Prepared(r)[Ip[r]].active = ActiveOf(Ip[r])
  BY <1>1, CallerTimes
<1>4. Cardinality(ServingOf(Ip[r])) \in Nat
  BY ServingFinite, FS_CardinalityType
<1> QED
  BY <1>1, <1>2, <1>3, <1>4 DEF LeaseAccounting, TypeOK

\* An admission has room under every limit, as the promise counts them.
LEMMA AdmitImplements ==
    ASSUME LoopInv, NEW r \in Requests, Admit(r), NEW t \in Nat, t = observed[r]
    PROVE  Promise!Admit(r, t)
<1> DEFINE ip == Ip[r]
           state == Prepared(r)[ip]
           granted == [i \in {Ip[q] : q \in Requests} |-> admissions[i]]
<1>1. TypeOK /\ AnswerInv /\ pc[r] = "deciding" /\ ip \in IPs
  BY RequestsAssumption DEF LoopInv, CallerInv, IInv, Admit
<1>2. answer[r] = "none"
  BY <1>1 DEF AnswerInv
<1>3. /\ ~(Len(state.timestamps) >= PerMinute)
      /\ ~(state.active >= PerIp) /\ ~(globalActive >= Global)
  BY DEF Admit, RateFull, IpFull, ServerFull
<1>4. /\ Promise!Recent(ip, t) = Len(state.timestamps)
      /\ Promise!Cardinality(Promise!InFlightOf(ip)) = state.active
      /\ Promise!Cardinality(Serving) = globalActive
  BY <1>1, RecentIsKept, CountersAreServing, SameCount
<1>5. ASSUME NEW why \in Promise!Reasons
      PROVE  ~Promise!Exhausted(ip, why, t)
  BY <1>3, <1>4 DEF Promise!Exhausted
<1>6. Serving' = Serving \cup {r}
  BY <1>1 DEF Admit, Serving, TypeOK
<1>7. granted' = [granted EXCEPT ![ip] = Append(@, t)]
  <2>1. admissions' = [admissions EXCEPT ![ip] = Append(@, observed[r])]
    BY DEF Admit
  <2>2. \A q \in Requests : Ip[q] \in IPs
    BY RequestsAssumption
  <2> QED
    BY <1>1, <2>1, <2>2 DEF TypeOK
<1>8. answer' = [answer EXCEPT ![r] = "admitted"] /\ UNCHANGED now
  BY DEF Admit
<1> QED
  BY <1>2, <1>5, <1>6, <1>7, <1>8 DEF Promise!Admit

\* A refusal names a limit that is used up, as the promise counts them.
LEMMA RefusalImplements ==
    ASSUME LoopInv, NEW r \in Requests, RateLimited(r) \/ IpBusy(r) \/ ServerBusy(r)
    PROVE  \E why \in Promise!Reasons : Promise!Refuse(r, why, observed[r])
<1> DEFINE ip == Ip[r]
           state == Prepared(r)[ip]
<1>1. TypeOK /\ AnswerInv /\ pc[r] = "deciding"
  BY DEF LoopInv, CallerInv, IInv, RateLimited, IpBusy, ServerBusy
<1>2. answer[r] = "none"
  BY <1>1 DEF AnswerInv
<1>3. /\ Promise!Recent(ip, observed[r]) = Len(state.timestamps)
      /\ Promise!Cardinality(Promise!InFlightOf(ip)) = state.active
      /\ Promise!Cardinality(Serving) = globalActive
  BY <1>1, RecentIsKept, CountersAreServing, SameCount
<1>4. Serving' = Serving /\ admissions' = admissions /\ now' = now
  BY <1>1 DEF RateLimited, IpBusy, ServerBusy, Serving, TypeOK
<1>5. CASE RateLimited(r)
  <2>1. Promise!Exhausted(ip, "rate_limited", observed[r])
    BY <1>3, <1>5 DEF Promise!Exhausted, RateLimited, RateFull
  <2>2. answer' = [answer EXCEPT ![r] = "rate_limited"]
    BY <1>5 DEF RateLimited
  <2> QED
    BY <1>2, <1>4, <2>1, <2>2 DEF Promise!Refuse, Promise!Reasons
<1>6. CASE IpBusy(r)
  <2>1. Promise!Exhausted(ip, "ip_busy", observed[r])
    BY <1>3, <1>6 DEF Promise!Exhausted, IpBusy, IpFull
  <2>2. answer' = [answer EXCEPT ![r] = "ip_busy"]
    BY <1>6 DEF IpBusy
  <2> QED
    BY <1>2, <1>4, <2>1, <2>2 DEF Promise!Refuse, Promise!Reasons
<1>7. CASE ServerBusy(r)
  <2>1. Promise!Exhausted(ip, "server_busy", observed[r])
    BY <1>3, <1>7 DEF Promise!Exhausted, ServerBusy, ServerFull
  <2>2. answer' = [answer EXCEPT ![r] = "server_busy"]
    BY <1>7 DEF ServerBusy
  <2> QED
    BY <1>2, <1>4, <2>1, <2>2 DEF Promise!Refuse, Promise!Reasons
<1> QED
  BY <1>5, <1>6, <1>7

\* On one event loop the limiter of public_limits.py, with its table, its
\* pruning and its counters, implements AdmissionControl: an admission only
\* with room under all three limits, a refusal only for one really used up.
THEOREM LimiterImplementsAdmission == EventLoop /\ Spec => ImplementsAdmissionControl
<1>1. Init => Promise!Init
  <2> SUFFICES ASSUME Init PROVE Promise!Init
    OBVIOUS
  <2>1. Serving = {}
    BY DEF Init, Serving
  <2>2. \A q \in Requests : admissions[Ip[q]] = <<>>
    BY RequestsAssumption DEF Init
  <2>3. now = 0 /\ answer = [q \in Requests |-> "none"]
    BY DEF Init
  <2> QED
    BY <2>1, <2>2, <2>3 DEF Promise!Init
<1>2. LoopInv /\ [Next]_vars => [Promise!Next]_Promise!vars
  <2> SUFFICES ASSUME LoopInv, [Next]_vars
               PROVE  Promise!Next \/ UNCHANGED Promise!vars
    OBVIOUS
  <2>1. TypeOK
    BY DEF LoopInv, CallerInv, IInv
  <2>2. ASSUME NEW r \in Requests, pc[r] = "deciding"
        PROVE  observed[r] \in 0 .. now
    BY <2>1, <2>2 DEF LoopInv, WindowInv, TypeOK
  <2>3. ASSUME NEW r \in Requests, Admit(r) PROVE Promise!Next
    <3>1. PICK t \in 0 .. now : t = observed[r]
      BY <2>2, <2>3 DEF Admit
    <3>2. t \in Nat
      BY <2>1 DEF TypeOK
    <3>3. Promise!Admit(r, t)
      BY <2>3, <3>1, <3>2, AdmitImplements
    <3> QED
      BY <3>3 DEF Promise!Next
  <2>4. ASSUME NEW r \in Requests, RateLimited(r) \/ IpBusy(r) \/ ServerBusy(r)
        PROVE  Promise!Next
    <3>1. \E why \in Promise!Reasons : Promise!Refuse(r, why, observed[r])
      BY <2>4, RefusalImplements
    <3>2. observed[r] \in 0 .. now
      BY <2>2, <2>4 DEF RateLimited, IpBusy, ServerBusy
    <3> QED
      BY <3>1, <3>2 DEF Promise!Next
  <2>5. ASSUME NEW r \in Requests, Release(r) PROVE Promise!Next
    <3>1. r \in Serving /\ Serving' = Serving \ {r}
      BY <2>1, <2>5 DEF Release, Serving, TypeOK
    <3>2. UNCHANGED <<now, admissions, answer>>
      BY <2>5 DEF Release
    <3>3. Promise!Finish(r)
      BY <3>1, <3>2 DEF Promise!Finish
    <3> QED
      BY <3>3 DEF Promise!Next
  <2>6. ASSUME Tick PROVE Promise!Next
    <3>1. Promise!Advance
      BY <2>6 DEF Tick, limiterVars, Promise!Advance, Serving
    <3> QED
      BY <3>1 DEF Promise!Next
  <2>7. ASSUME NEW r \in Requests, ReadClock(r) PROVE UNCHANGED Promise!vars
    <3>1. Serving' = Serving
      BY <2>1, <2>7 DEF ReadClock, Serving, TypeOK
    <3>2. UNCHANGED <<now, admissions, answer>>
      BY <2>7 DEF ReadClock
    <3> QED
      BY <3>1, <3>2 DEF Promise!vars
  <2>8. CASE UNCHANGED vars
    BY <2>8 DEF vars, Promise!vars, Serving
  <2> QED
    BY <2>3, <2>4, <2>5, <2>6, <2>7, <2>8 DEF Next
<1> QED
  BY <1>1, <1>2, LoopInvariance, PTL DEF Spec, Promise!Spec, ImplementsAdmissionControl
=============================================================================
