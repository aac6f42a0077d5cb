-------------------------- MODULE AdmissionControl --------------------------
(***************************************************************************)
(* What the public query routes promise about admission, with no client    *)
(* table, no pruning and no counters: the set of requests being served and *)
(* the instants at which each address was granted one.                     *)
(* PublicRequestLimiter is shown to implement it.                          *)
(***************************************************************************)
EXTENDS Integers, Sequences, FiniteSets

CONSTANTS
    Requests,       \* public queries, each one HTTP request
    Ip,             \* the socket address of every request
    PerMinute,      \* grants per address in any window
    PerIp,          \* requests of one address served at the same time
    Global,         \* requests served at the same time
    Window,         \* length of the rolling window, in clock ticks
    MaxTime         \* bound of the search: the last instant

VARIABLES
    now,            \* the monotonic clock
    inFlight,       \* requests being served
    granted,        \* granted[ip]: the instants of its grants, in order
    answer          \* what each request was told

vars == <<now, inFlight, granted, answer>>

-----------------------------------------------------------------------------

InFlightOf(ip) == {r \in inFlight : Ip[r] = ip}

\* Grants of an address that a request made at instant t still counts.
Recent(ip, t) ==
    Cardinality({i \in DOMAIN granted[ip] : granted[ip][i] > t - Window})

Exhausted(ip, why, t) ==
    \/ why = "rate_limited" /\ Recent(ip, t) >= PerMinute
    \/ why = "ip_busy"      /\ Cardinality(InFlightOf(ip)) >= PerIp
    \/ why = "server_busy"  /\ Cardinality(inFlight) >= Global

Reasons == {"rate_limited", "ip_busy", "server_busy"}

Init ==
    /\ now = 0
    /\ inFlight = {}
    /\ granted = [ip \in {Ip[r] : r \in Requests} |-> <<>>]
    /\ answer = [r \in Requests |-> "none"]

Advance ==
    /\ now < MaxTime
    /\ now' = now + 1
    /\ UNCHANGED <<inFlight, granted, answer>>

\* A grant needs room under every limit.
Admit(r, t) ==
    /\ answer[r] = "none"
    /\ \A why \in Reasons : ~Exhausted(Ip[r], why, t)
    /\ inFlight' = inFlight \cup {r}
    /\ granted' = [granted EXCEPT ![Ip[r]] = Append(@, t)]
    /\ answer' = [answer EXCEPT ![r] = "admitted"]
    /\ UNCHANGED now

\* A refusal names a limit that is really used up.
Refuse(r, why, t) ==
    /\ answer[r] = "none"
    /\ Exhausted(Ip[r], why, t)
    /\ answer' = [answer EXCEPT ![r] = why]
    /\ UNCHANGED <<now, inFlight, granted>>

Finish(r) ==
    /\ r \in inFlight
    /\ inFlight' = inFlight \ {r}
    /\ UNCHANGED <<now, granted, answer>>

Next ==
    \/ Advance
    \/ \E r \in Requests :
        \/ \E t \in 0 .. now :
            \/ Admit(r, t)
            \/ \E why \in Reasons : Refuse(r, why, t)
        \/ Finish(r)

Spec == Init /\ [][Next]_vars
=============================================================================
