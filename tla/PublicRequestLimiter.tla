------------------------ MODULE PublicRequestLimiter ------------------------
(***************************************************************************)
(* The in-process limiter of the anonymous query routes                    *)
(* (src/src/disclosure_db/public_limits.py) and the middleware that calls  *)
(* it around every public query (limit_public_queries in api.py).          *)
(*                                                                         *)
(* try_acquire reads the clock before it takes the lock, so a call is two  *)
(* steps: ReadClock and a decision made under the lock.  Under the server's *)
(* event loop the middleware calls it without an await, so no other call   *)
(* comes between the two steps (EventLoop = TRUE); with EventLoop = FALSE  *)
(* callers are threads and any interleaving may happen.                    *)
(* Time is counted in ticks, TicksPerSecond of them to the second that     *)
(* Retry-After is expressed in.                                            *)
(***************************************************************************)
EXTENDS Integers, Sequences, FiniteSets

CONSTANTS
    Requests,       \* public queries, each one HTTP request
    IPs,            \* socket addresses
    Ip,             \* the address of every request
    PerMinute,      \* DISCLOSURE_PUBLIC_RATE_PER_MINUTE
    PerIp,          \* DISCLOSURE_PUBLIC_PER_IP_CONCURRENCY
    Global,         \* DISCLOSURE_PUBLIC_GLOBAL_CONCURRENCY
    Window,         \* the 60 seconds of the rolling window, in ticks
    TicksPerSecond,
    MaxTime,        \* bound of the search: the last tick
    EventLoop       \* whether the callers share one event loop

ASSUME RequestsAssumption ==
    /\ IsFiniteSet(Requests)
    /\ Ip \in [Requests -> IPs]

\* from_env refuses values below 1.
ASSUME LimitsAssumption ==
    /\ PerMinute \in Nat \ {0}
    /\ PerIp \in Nat \ {0}
    /\ Global \in Nat \ {0}
    /\ Window \in Nat \ {0}
    /\ TicksPerSecond \in Nat \ {0}

ASSUME BoundAssumption ==
    /\ MaxTime \in Nat
    /\ EventLoop \in BOOLEAN

VARIABLES
    now,            \* what the monotonic clock shows
    clients,        \* _clients: address -> [timestamps, active], a partial map
    globalActive,   \* _global_active
    pc,             \* where each request is
    observed,       \* the clock value try_acquire read for the request
    answer,         \* what the middleware told the request
    admissions,     \* history: the clock values of an address's admissions
    retryAt         \* history: when a rate-limited address was told to return

limiterVars == <<clients, globalActive>>
vars == <<now, clients, globalActive, pc, observed, answer, admissions, retryAt>>

-----------------------------------------------------------------------------
(* The client table                                                        *)

ClientState == [timestamps : Seq(Nat), active : Nat]

NewClient == [timestamps |-> <<>>, active |-> 0]

Put(table, ip, state) ==
    [i \in DOMAIN table \cup {ip} |-> IF i = ip THEN state ELSE table[i]]

Without(table, ip) == [i \in DOMAIN table \ {ip} |-> table[i]]

Idle(state) == state.active = 0 /\ state.timestamps = <<>>

\* Faulty variant of Expired: drops a timestamp a tick too early.
ExpiredTooEarly(times, cutoff) ==
    Cardinality({n \in 1 .. Len(times) : \A i \in 1 .. n : times[i] <= cutoff + 1})

\* How many leading timestamps the pruning loop pops.
Expired(times, cutoff) ==
    Cardinality({n \in 1 .. Len(times) : \A i \in 1 .. n : times[i] <= cutoff})

DropExpired(times, cutoff) ==
    SubSeq(times, Expired(times, cutoff) + 1, Len(times))

\* Faulty variant of Pruned: an entry lives only as long as its timestamps.
PrunedByTimestamps(table, cutoff) ==
    LET kept(i) == [table[i] EXCEPT !.timestamps = DropExpired(@, cutoff)]
    IN  [i \in {j \in DOMAIN table : kept(j).timestamps # <<>>} |-> kept(i)]

\* The loop over every known client: old timestamps go, then idle entries.
Pruned(table, cutoff) ==
    LET kept(i) == [table[i] EXCEPT !.timestamps = DropExpired(@, cutoff)]
    IN  [i \in {j \in DOMAIN table : ~Idle(kept(j))} |-> kept(i)]

\* _clients after pruning and setdefault for the caller r.
Prepared(r) ==
    LET table == Pruned(clients, observed[r] - Window)
    IN  IF Ip[r] \in DOMAIN table THEN table ELSE Put(table, Ip[r], NewClient)

\* Faulty variant of CeilDiv.
FloorDiv(a, b) == a \div b

CeilDiv(a, b) == (a + b - 1) \div b

AtLeastOne(n) == IF n < 1 THEN 1 ELSE n

\* The Retry-After of a rate-limited caller, in seconds.
RetrySeconds(times, t) == AtLeastOne(CeilDiv(times[1] + Window - t, TicksPerSecond))

\* Faulty variants of RateFull and ServerFull: one too many.
RateOverfull(state) == Len(state.timestamps) > PerMinute
ServerOverfull == globalActive > Global

RateFull(state) == Len(state.timestamps) >= PerMinute
IpFull(state) == state.active >= PerIp
ServerFull == globalActive >= Global

-----------------------------------------------------------------------------

Init ==
    /\ now = 0
    /\ clients = [ip \in {} |-> NewClient]
    /\ globalActive = 0
    /\ pc = [r \in Requests |-> "idle"]
    /\ observed = [r \in Requests |-> 0]
    /\ answer = [r \in Requests |-> "none"]
    /\ admissions = [ip \in IPs |-> <<>>]
    /\ retryAt = [ip \in IPs |-> -1]

Tick ==
    /\ now < MaxTime
    /\ now' = now + 1
    /\ UNCHANGED <<limiterVars, pc, observed, answer, admissions, retryAt>>

\* try_acquire up to the lock.
ReadClock(r) ==
    /\ pc[r] = "idle"
    /\ EventLoop => \A other \in Requests : pc[other] # "deciding"
    /\ pc' = [pc EXCEPT ![r] = "deciding"]
    /\ observed' = [observed EXCEPT ![r] = now]
    /\ UNCHANGED <<now, limiterVars, answer, admissions, retryAt>>

\* The local variable of try_acquire goes with its return.
Forget(r) == [observed EXCEPT ![r] = 0]

Admit(r) ==
    LET table == Prepared(r)
        state == table[Ip[r]]
    IN  /\ pc[r] = "deciding"
        /\ ~RateFull(state) /\ ~IpFull(state) /\ ~ServerFull
        /\ clients' = Put(table, Ip[r],
                          [timestamps |-> Append(state.timestamps, observed[r]),
                           active |-> state.active + 1])
        /\ globalActive' = globalActive + 1
        /\ pc' = [pc EXCEPT ![r] = "serving"]
        /\ answer' = [answer EXCEPT ![r] = "admitted"]
        /\ admissions' = [admissions EXCEPT ![Ip[r]] = Append(@, observed[r])]
        /\ retryAt' = [retryAt EXCEPT ![Ip[r]] = -1]
        /\ observed' = Forget(r)
        /\ UNCHANGED now

RateLimited(r) ==
    LET table == Prepared(r)
        state == table[Ip[r]]
    IN  /\ pc[r] = "deciding"
        /\ RateFull(state)
        /\ clients' = table
        /\ pc' = [pc EXCEPT ![r] = "done"]
        /\ answer' = [answer EXCEPT ![r] = "rate_limited"]
        /\ retryAt' = [retryAt EXCEPT ![Ip[r]] = observed[r]
                        + TicksPerSecond * RetrySeconds(state.timestamps, observed[r])]
        /\ observed' = Forget(r)
        /\ UNCHANGED <<now, globalActive, admissions>>

IpBusy(r) ==
    LET table == Prepared(r)
        state == table[Ip[r]]
    IN  /\ pc[r] = "deciding"
        /\ ~RateFull(state) /\ IpFull(state)
        /\ clients' = table
        /\ pc' = [pc EXCEPT ![r] = "done"]
        /\ answer' = [answer EXCEPT ![r] = "ip_busy"]
        /\ observed' = Forget(r)
        /\ UNCHANGED <<now, globalActive, admissions, retryAt>>

\* The entry that setdefault just made is taken back.
ServerBusy(r) ==
    LET table == Prepared(r)
        state == table[Ip[r]]
    IN  /\ pc[r] = "deciding"
        /\ ~RateFull(state) /\ ~IpFull(state) /\ ServerFull
        /\ clients' = IF Idle(state) THEN Without(table, Ip[r]) ELSE table
        /\ pc' = [pc EXCEPT ![r] = "done"]
        /\ answer' = [answer EXCEPT ![r] = "server_busy"]
        /\ observed' = Forget(r)
        /\ UNCHANGED <<now, globalActive, admissions, retryAt>>

\* Faulty variants of Released: the entry is never deleted; the total loses all
\* the leases of the address.
ReleasedKeepingIdle(ip) ==
    IF ip \notin DOMAIN clients \/ clients[ip].active = 0
    THEN [table |-> clients, total |-> globalActive]
    ELSE [table |-> [clients EXCEPT ![ip].active = @ - 1], total |-> globalActive - 1]

ReleasedAll(ip) ==
    IF ip \notin DOMAIN clients \/ clients[ip].active = 0
    THEN [table |-> clients, total |-> globalActive]
    ELSE [table |-> [clients EXCEPT ![ip].active = @ - 1],
          total |-> globalActive - clients[ip].active]

\* release, with its early return for an unknown or inactive client.
Released(ip) ==
    IF ip \notin DOMAIN clients \/ clients[ip].active = 0
    THEN [table |-> clients, total |-> globalActive]
    ELSE LET state == [clients[ip] EXCEPT !.active = @ - 1]
         IN  [table |-> IF Idle(state) THEN Without(clients, ip)
                                       ELSE Put(clients, ip, state),
              total |-> IF globalActive < 1 THEN 0 ELSE globalActive - 1]

\* The finally block of the middleware: the handler returned, raised or was
\* cancelled.
Release(r) ==
    /\ pc[r] = "serving"
    /\ clients' = Released(Ip[r]).table
    /\ globalActive' = Released(Ip[r]).total
    /\ pc' = [pc EXCEPT ![r] = "done"]
    /\ UNCHANGED <<now, observed, answer, admissions, retryAt>>

Next ==
    \/ Tick
    \/ \E r \in Requests :
        \/ ReadClock(r)
        \/ Admit(r)
        \/ RateLimited(r)
        \/ IpBusy(r)
        \/ ServerBusy(r)
        \/ Release(r)

Spec == Init /\ [][Next]_vars

-----------------------------------------------------------------------------
(* Properties                                                              *)

Answers == {"none", "admitted", "rate_limited", "ip_busy", "server_busy"}

\* The limiter's table is a partial map from addresses to client states, and
\* every request is at one of the four places of the middleware.
TypeOK ==
    /\ now \in Nat
    /\ DOMAIN clients \subseteq IPs
    /\ clients \in [DOMAIN clients -> ClientState]
    /\ globalActive \in Nat
    /\ pc \in [Requests -> {"idle", "deciding", "serving", "done"}]
    /\ observed \in [Requests -> Nat]
    /\ answer \in [Requests -> Answers]
    /\ admissions \in [IPs -> Seq(Nat)]
    /\ retryAt \in [IPs -> Int]

Serving == {r \in Requests : pc[r] = "serving"}
ServingOf(ip) == {r \in Serving : Ip[r] = ip}
ActiveOf(ip) == IF ip \in DOMAIN clients THEN clients[ip].active ELSE 0

\* The two counters of the limiter are exactly the requests inside the
\* middleware's try block: no lease is leaked when an entry is pruned or
\* deleted while another request of the address is being served, and none is
\* given back twice.
LeaseAccounting ==
    /\ globalActive = Cardinality(Serving)
    /\ \A ip \in IPs : ActiveOf(ip) = Cardinality(ServingOf(ip))

\* Never more than the configured number of requests are served at once, in
\* all and for one address, counting the requests and not the counters.
ConcurrencyCaps ==
    /\ Cardinality(Serving) <= Global
    /\ \A ip \in IPs : Cardinality(ServingOf(ip)) <= PerIp

\* A client entry lives only while it holds a lease or a timestamp, so an
\* address that went away costs no memory after the next call prunes it.
NoIdleEntries == \A ip \in DOMAIN clients : ~Idle(clients[ip])

\* At most PerMinute admissions of an address in any window of the admission
\* clock, counted from all admissions ever made and not from the pruned deque.
SlidingWindow ==
    \A ip \in IPs : \A last \in DOMAIN admissions[ip] :
        Cardinality({i \in 1 .. last :
            admissions[ip][i] > admissions[ip][last] - Window}) <= PerMinute

\* A caller that waits for the Retry-After it was given is not rate limited
\* again, unless the address used up the freed place in between.
RetryAfterHonoured ==
    [][\A r \in Requests :
        answer[r] = "none" /\ answer'[r] = "rate_limited" =>
            retryAt[Ip[r]] = -1 \/ observed[r] < retryAt[Ip[r]]]_vars

\* What the limiter promises, without its table and its counters.
Promise == INSTANCE AdmissionControl WITH
    inFlight <- Serving,
    granted <- [ip \in {Ip[r] : r \in Requests} |-> admissions[ip]]

\* Every step of the limiter is a step of the promise: an admission only with
\* room under all three limits, a refusal only for a limit really used up.
ImplementsAdmissionControl == Promise!Spec
=============================================================================
