---------------------------- MODULE RateLimiter ----------------------------
(***************************************************************************)
(* The sliding-window rate limiter of the API: RateLimitClient.apply_limits *)
(* for the requests to one route.  Each request counts itself in the sorted *)
(* set of its caller, checks the quotas one Redis call at a time, and only  *)
(* then counts itself in the sorted set of the route.  The clock may move   *)
(* between any two of these calls, and requests run concurrently.           *)
(***************************************************************************)
EXTENDS Integers, Sequences, FiniteSets

CONSTANTS
    Requests,       \* each asks once
    Callers,        \* API keys and IP addresses: the prefixes of the keys in Redis
    Askers,         \* who asks: functions from Requests to Callers
    Keyed,          \* the callers that present an API key
    Invalid,        \* the API keys that are unknown or disabled
    Quotas,         \* the quotas of the route, in order: [type, limit, period]
    Custom,         \* Custom[k]: the rows of api_key_limits for the API key k
    EmergencyMode,
    Keep,           \* MAX_TTL_MICROS
    Route,          \* the route's own key
    Never,          \* "no time"
    MaxTime,        \* bound of the clock
    MaxFaults       \* bound: failed calls of Redis and Postgres in a behaviour

Quota == [type : {"ip", "key", "global"}, limit : Nat, period : Nat]

ASSUME RateAssumption ==
    /\ IsFiniteSet(Requests)
    /\ Askers \subseteq [Requests -> Callers]
    /\ Keyed \subseteq Callers /\ Invalid \subseteq Keyed
    /\ Quotas \in Seq(Quota) /\ Custom \in [Keyed -> Seq(Quota)]
    /\ EmergencyMode \in BOOLEAN
    /\ Keep \in Nat /\ MaxTime \in Nat /\ MaxFaults \in Nat
    /\ Route \notin Callers /\ Never \notin Int

VARIABLES
    CallerOf,   \* CallerOf[r]: the caller of r, which stays
    now,        \* the clock, in ticks at which Redis is called
    hits,       \* hits[k]: the sorted set under k; score and member are the time
    req,        \* req[r]: where the request is
    plan,       \* plan[r]: the limits that apply to r
    todo,       \* todo[r]: the positions in plan[r] that are still to be checked
    counted,    \* counted[r]: the time of r's entry under its caller
    entered,    \* entered[r]: the time of r's entry under the route
    passed,     \* history: which request passed which quota, when
    faults

vars == <<CallerOf, now, hits, req, plan, todo, counted, entered, passed, faults>>

Times == 0..MaxTime
RequestStates == {"new", "check", "admitted", "unlimited", "exceeded", "refused"}

TypeOK ==
    /\ CallerOf \in Askers
    /\ now \in Times
    /\ hits \in [Callers \cup {Route} -> SUBSET Times]
    /\ req \in [Requests -> RequestStates]
    /\ plan \in [Requests -> Seq(Quota)]
    /\ todo \in [Requests -> SUBSET (Nat \ {0})]
    /\ \A r \in Requests : todo[r] \subseteq DOMAIN plan[r]
    /\ counted \in [Requests -> Times \cup {Never}]
    /\ entered \in [Requests -> Times \cup {Never}]
    /\ passed \subseteq [who : Requests, quota : Quota, at : Times]
    /\ faults \in 0..MaxFaults

Init ==
    /\ CallerOf \in Askers
    /\ now = 0
    /\ hits = [k \in Callers \cup {Route} |-> {}]
    /\ req = [r \in Requests |-> "new"]
    /\ plan = [r \in Requests |-> <<>>]
    /\ todo = [r \in Requests |-> {}]
    /\ counted = [r \in Requests |-> Never]
    /\ entered = [r \in Requests |-> Never]
    /\ passed = {}
    /\ faults = 0

-----------------------------------------------------------------------------
(* The two Redis calls.                                                    *)

\* Mutant: an entry carries the end of its tick.
StampedLate(k) == [hits EXCEPT ![k] = {t \in @ : t > now - Keep} \cup {now + 1}]

\* increment_key: what is older than Keep goes, the time of the call comes.
Incremented(k) == [hits EXCEPT ![k] = {t \in @ : t > now - Keep} \cup {now}]

InPeriod(k, period) == {t \in hits[k] : now - period <= t /\ t <= now}

\* check_requests: the entries of the period, less the one of the request itself.
CheckRequests(k, period) ==
    LET n == Cardinality(InPeriod(k, period)) IN IF n = 0 THEN 0 ELSE n - 1

Fault == faults < MaxFaults /\ faults' = faults + 1

-----------------------------------------------------------------------------
(* apply_limits.                                                           *)

TypesOf(s) == {s[i].type : i \in DOMAIN s}

\* A route with a limit for keys and none for addresses is for keys only.
KeyOnly == "key" \in TypesOf(Quotas) /\ "ip" \notin TypesOf(Quotas)

NotWelcome(c) == IF c \in Keyed THEN c \in Invalid ELSE KeyOnly \/ EmergencyMode

Finish(r, outcome) == req' = [req EXCEPT ![r] = outcome]

\* 403 or 503, before anything is counted.
Refuse(r) ==
    /\ req[r] = "new"
    /\ NotWelcome(CallerOf[r])
    /\ Finish(r, "refused")
    /\ UNCHANGED <<CallerOf, now, hits, plan, todo, counted, entered, passed, faults>>

\* The limits of an API key replace those of the route.
LimitsOf(c) == IF c \in Keyed /\ Custom[c] # <<>> THEN Custom[c] ELSE Quotas

\* With an API key, limits for keys replace those for addresses.
Applicable(c, limits) ==
    {i \in DOMAIN limits :
        ~(c \in Keyed /\ "key" \in TypesOf(limits) /\ limits[i].type = "ip")}

\* Mutant: the route's key is incremented along with the caller's.
CountBoth(r, limits) ==
    /\ hits' = [k \in DOMAIN hits |->
                 IF k \in {CallerOf[r], Route} THEN Incremented(k)[k] ELSE hits[k]]
    /\ counted' = [counted EXCEPT ![r] = now]
    /\ plan' = [plan EXCEPT ![r] = limits]
    /\ todo' = [todo EXCEPT ![r] = Applicable(CallerOf[r], limits)]
    /\ Finish(r, "check")
    /\ UNCHANGED <<CallerOf, now, entered, passed>>

\* The request is counted under its caller, whatever becomes of it.
Count(r, limits) ==
    /\ hits' = Incremented(CallerOf[r])
    /\ counted' = [counted EXCEPT ![r] = now]
    /\ plan' = [plan EXCEPT ![r] = limits]
    /\ todo' = [todo EXCEPT ![r] = Applicable(CallerOf[r], limits)]
    /\ Finish(r, "check")
    /\ UNCHANGED <<CallerOf, now, entered, passed>>

CountItself(r) ==
    /\ req[r] = "new"
    /\ ~NotWelcome(CallerOf[r])
    /\ Count(r, LimitsOf(CallerOf[r]))
    /\ UNCHANGED faults

\* Postgres does not answer one of two questions, or both: the key counts as valid, or
\* as one without limits of its own.
CountWithoutPostgres(r) ==
    /\ req[r] = "new"
    /\ CallerOf[r] \in Keyed
    /\ Fault
    /\ \E limits \in {LimitsOf(CallerOf[r]), Quotas} : Count(r, limits)

\* Redis does not answer: no limits apply.
CountFails(r) ==
    /\ req[r] = "new"
    /\ ~NotWelcome(CallerOf[r])
    /\ Fault
    /\ Finish(r, "unlimited")
    /\ UNCHANGED <<CallerOf, now, hits, plan, todo, counted, entered, passed>>

First(r, i) == i \in todo[r] /\ \A j \in todo[r] : i <= j

\* Mutant: the quota of the route is checked against the entries of the caller.
OwnKey(r, quota) == CallerOf[r]

KeyFor(r, quota) == IF quota.type = "global" THEN Route ELSE CallerOf[r]

\* Mutant: one request more than the quota passes.
AtTheLimit(r, quota) == CheckRequests(KeyFor(r, quota), quota.period) > quota.limit

\* raise_if_exceeded: nothing remains of the quota.
IsExceeded(r, quota) == CheckRequests(KeyFor(r, quota), quota.period) >= quota.limit

CheckQuota(r) ==
    /\ req[r] = "check"
    /\ \E i \in DOMAIN plan[r] :
        /\ First(r, i)
        /\ IF IsExceeded(r, plan[r][i])
           THEN Finish(r, "exceeded") /\ UNCHANGED <<todo, passed>>
           ELSE /\ todo' = [todo EXCEPT ![r] = @ \ {i}]
                /\ passed' = passed \cup {[who |-> r, quota |-> plan[r][i], at |-> now]}
                /\ UNCHANGED req
    /\ UNCHANGED <<CallerOf, now, hits, plan, counted, entered, faults>>

\* A quota that cannot be read is skipped.
CheckFails(r) ==
    /\ req[r] = "check"
    /\ Fault
    /\ \E i \in DOMAIN plan[r] : First(r, i) /\ todo' = [todo EXCEPT ![r] = @ \ {i}]
    /\ UNCHANGED <<CallerOf, now, hits, req, plan, counted, entered, passed>>

AllChecked(r) == req[r] = "check" /\ todo[r] = {}

\* The route's own key, once every quota has let the request pass.
Enter(r) ==
    /\ AllChecked(r)
    /\ hits' = Incremented(Route)
    /\ entered' = [entered EXCEPT ![r] = now]
    /\ Finish(r, "admitted")
    /\ UNCHANGED <<CallerOf, now, plan, todo, counted, passed, faults>>

EnterFails(r) ==
    /\ AllChecked(r)
    /\ Fault
    /\ Finish(r, "admitted")
    /\ UNCHANGED <<CallerOf, now, hits, plan, todo, counted, entered, passed>>

Tick ==
    /\ now < MaxTime
    /\ now' = now + 1
    /\ UNCHANGED <<CallerOf, hits, req, plan, todo, counted, entered, passed, faults>>

\* Every request has its answer, and the clock its bound.
Terminated ==
    /\ now = MaxTime
    /\ \A r \in Requests : req[r] \notin {"new", "check"}
    /\ UNCHANGED vars

Next ==
    \/ \E r \in Requests :
        \/ Refuse(r) \/ CountItself(r) \/ CountWithoutPostgres(r) \/ CountFails(r)
        \/ CheckQuota(r) \/ CheckFails(r) \/ Enter(r) \/ EnterFails(r)
    \/ Tick
    \/ Terminated

Spec == Init /\ [][Next]_vars

-----------------------------------------------------------------------------
(* Properties.                                                             *)

\* The requests of caller c that came after the time from and passed quota q by the
\* time at.
PassedWithin(c, q, from, at) ==
    {r \in Requests :
        /\ CallerOf[r] = c
        /\ counted[r] # Never /\ counted[r] > from
        /\ \E p \in passed : p.who = r /\ p.quota = q /\ p.at <= at}

TimesOf(stamps, S) == {stamps[r] : r \in S}

\* In no period do more requests of one caller come and pass than its quota allows,
\* however they overlap and whatever Redis forgets meanwhile.  Requests of the same
\* instant share an entry and count once (apply_limits, client.rs:112-137).
WindowHolds ==
    \A c \in Callers, at \in 0..now : \A q \in {p.quota : p \in passed} :
        q.type # "global" /\ q.period <= Keep =>
            Cardinality(TimesOf(counted, PassedWithin(c, q, at - q.period, at))) <= q.limit

\* By the time at, r has entered the route's set before the check of s, or s before that
\* of r.
Sequential(r, s, q, at) ==
    \E p \in passed :
        /\ p.quota = q /\ p.at <= at
        /\ \/ p.who = s /\ entered[r] # Never /\ entered[r] < p.at
           \/ p.who = r /\ entered[s] # Never /\ entered[s] < p.at

\* Of requests that follow one another, the route lets one more than its quota pass in
\* any period: the check subtracts an entry that the request does not have yet
\* (client.rs:173).  All beyond that are requests which overlapped (client.rs:139-144).
GlobalHolds ==
    \A q \in {p.quota : p \in passed}, at \in 0..now :
        q.type = "global" /\ q.period <= Keep =>
            \A S \in SUBSET Requests :
                /\ \A r \in S : \E p \in passed : p.who = r /\ p.quota = q /\ p.at <= at
                /\ \A r \in S : entered[r] # Never /\ entered[r] > at - q.period
                /\ \A r, s \in S : r # s => Sequential(r, s, q, at)
                => Cardinality(S) <= q.limit + 1

\* Only requests that were let in use up the quota of the route: one that its caller's
\* quotas stopped costs the others nothing (client.rs:139-140).
OnlyTheAdmittedCount ==
    \A t \in hits[Route] : \E r \in Requests : req[r] = "admitted" /\ entered[r] = t
=============================================================================
