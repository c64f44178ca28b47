------------------------- MODULE RateLimiterProofs --------------------------
(***************************************************************************)
(* The quotas of a caller hold in every period, for any requests, callers,   *)
(* quotas and clock, and whichever calls fail.                               *)
(***************************************************************************)
EXTENDS RateLimiter, FiniteSetTheorems, SequenceTheorems, TLAPS

LEMMA Bounds == Keep \in Nat /\ MaxTime \in Nat /\ MaxFaults \in Nat /\ Route \notin Callers /\ Never \notin Int
BY RateAssumption

LEMMA QuotaType ==
    ASSUME NEW q \in Quota
    PROVE  q.limit \in Nat /\ q.period \in Nat
BY DEF Quota

LEMMA CallerType ==
    ASSUME TypeOK, NEW r \in Requests
    PROVE  CallerOf[r] \in Callers /\ CallerOf[r] # Route
BY RateAssumption DEF TypeOK

\* Whichever limits apply, they are quotas and the positions to check are theirs.
LEMMA LimitsType ==
    ASSUME NEW c \in Callers
    PROVE  LimitsOf(c) \in Seq(Quota) /\ Quotas \in Seq(Quota)
BY RateAssumption DEF LimitsOf

LEMMA ApplicableType ==
    ASSUME NEW c, NEW limits \in Seq(Quota)
    PROVE  Applicable(c, limits) \subseteq DOMAIN limits /\ Applicable(c, limits) \subseteq Nat \ {0}
<1>1. DOMAIN limits = 1..Len(limits) /\ Len(limits) \in Nat
  BY LenProperties
<1>2. Applicable(c, limits) \subseteq DOMAIN limits
  BY DEF Applicable
<1> QED
  BY <1>1, <1>2

LEMMA IncrementedType ==
    ASSUME TypeOK, NEW k \in Callers \cup {Route}
    PROVE  /\ Incremented(k) \in [Callers \cup {Route} -> SUBSET Times]
           /\ \A l \in Callers \cup {Route} : l # k => Incremented(k)[l] = hits[l]
           /\ Incremented(k)[k] = {t \in hits[k] : t > now - Keep} \cup {now}
<1>1. hits[k] \subseteq Times /\ {t \in hits[k] : t > now - Keep} \cup {now} \subseteq Times
  BY DEF TypeOK
<1> QED
  BY <1>1 DEF TypeOK, Incremented

-----------------------------------------------------------------------------
(* What holds between the sorted sets and the requests.                    *)

\* A request that has passed a quota had counted itself before, and nothing happens later
\* than now.
PassedIsCounted == \A p \in passed : counted[p.who] # Never /\ p.at <= now

FreshIsUncounted ==
    \A r \in Requests :
        /\ req[r] = "new" => counted[r] = Never
        /\ req[r] = "check" => counted[r] # Never

\* What Redis forgets is older than any period.
EntryIsKept ==
    \A r \in Requests :
        counted[r] # Never => /\ counted[r] <= now
                              /\ counted[r] > now - Keep => counted[r] \in hits[CallerOf[r]]

IInv == TypeOK /\ PassedIsCounted /\ FreshIsUncounted /\ EntryIsKept

LEMMA InvInit == Init => IInv
<1> SUFFICES ASSUME Init PROVE IInv
  OBVIOUS
<1>1. <<>> \in Seq(Quota) /\ Never \notin Int
  BY EmptySeq, Bounds
<1>2. TypeOK
  <2>1. plan \in [Requests -> Seq(Quota)] /\ todo \in [Requests -> SUBSET (Nat \ {0})]
        /\ \A r \in Requests : todo[r] \subseteq DOMAIN plan[r]
    BY <1>1 DEF Init
  <2>2. now \in Times /\ faults \in 0..MaxFaults /\ hits \in [Callers \cup {Route} -> SUBSET Times]
    BY Bounds DEF Init, Times
  <2>3. req \in [Requests -> RequestStates] /\ counted \in [Requests -> Times \cup {Never}]
        /\ entered \in [Requests -> Times \cup {Never}] /\ CallerOf \in Askers
        /\ passed \subseteq [who : Requests, quota : Quota, at : Times]
    BY DEF Init, RequestStates
  <2> QED
    BY <2>1, <2>2, <2>3 DEF TypeOK
<1> QED
  BY <1>2 DEF Init, IInv, PassedIsCounted, FreshIsUncounted, EntryIsKept

\* A request counts itself.
LEMMA CountInv ==
    ASSUME IInv, NEW r \in Requests, NEW limits \in Seq(Quota),
           req[r] = "new", Count(r, limits), faults' \in 0..MaxFaults
    PROVE  IInv'
<1> DEFINE c == CallerOf[r]
<1>0. TypeOK /\ PassedIsCounted /\ FreshIsUncounted /\ EntryIsKept
  BY DEF IInv
<1>1. c \in Callers /\ c # Route /\ now \in Times /\ now \in Nat /\ now # Never
  BY <1>0, CallerType, Bounds DEF TypeOK, Times
<1>2. /\ hits' = Incremented(c) /\ counted' = [counted EXCEPT ![r] = now]
      /\ plan' = [plan EXCEPT ![r] = limits]
      /\ todo' = [todo EXCEPT ![r] = Applicable(c, limits)]
      /\ req' = [req EXCEPT ![r] = "check"]
      /\ CallerOf' = CallerOf /\ now' = now /\ entered' = entered /\ passed' = passed
  BY DEF Count, Finish
<1>3. /\ hits' \in [Callers \cup {Route} -> SUBSET Times]
      /\ \A l \in Callers \cup {Route} : l # c => hits'[l] = hits[l]
      /\ hits'[c] = {t \in hits[c] : t > now - Keep} \cup {now}
  BY <1>0, <1>1, <1>2, IncrementedType
<1> HIDE DEF c
<1>4. TypeOK'
  <2>1. /\ plan' \in [Requests -> Seq(Quota)] /\ todo' \in [Requests -> SUBSET (Nat \ {0})]
        /\ \A s \in Requests : todo'[s] \subseteq DOMAIN plan'[s]
    <3>1. Applicable(c, limits) \subseteq DOMAIN limits /\ Applicable(c, limits) \subseteq Nat \ {0}
      BY ApplicableType
    <3> QED
      BY <1>0, <1>2, <3>1 DEF TypeOK
  <2>2. counted' \in [Requests -> Times \cup {Never}] /\ req' \in [Requests -> RequestStates]
    BY <1>0, <1>1, <1>2 DEF TypeOK, RequestStates
  <2>3. Times' = Times
    BY DEF Times
  <2> QED
    BY <1>0, <1>2, <1>3, <2>1, <2>2, <2>3 DEF TypeOK
<1>5. PassedIsCounted' /\ FreshIsUncounted'
  BY <1>0, <1>1, <1>2 DEF PassedIsCounted, FreshIsUncounted, TypeOK
<1>6. EntryIsKept'
  <2> SUFFICES ASSUME NEW s \in Requests, counted'[s] # Never
               PROVE  /\ counted'[s] <= now
                      /\ counted'[s] > now - Keep => counted'[s] \in hits'[CallerOf[s]]
    BY <1>2 DEF EntryIsKept
  <2>1. CASE s = r
    BY <1>0, <1>1, <1>2, <1>3, <2>1, Bounds DEF TypeOK, c
  <2>2. CASE s # r
    <3>1. /\ counted'[s] = counted[s] /\ counted[s] <= now
          /\ counted[s] > now - Keep => counted[s] \in hits[CallerOf[s]]
      BY <1>0, <1>2, <2>2 DEF TypeOK, EntryIsKept
    <3>2. CallerOf[s] \in Callers
      BY <1>0, CallerType
    <3>3. CASE CallerOf[s] = c
      BY <1>3, <3>1, <3>3
    <3>4. CASE CallerOf[s] # c
      BY <1>3, <3>1, <3>2, <3>4
    <3> QED
      BY <3>3, <3>4, <3>1
  <2> QED
    BY <2>1, <2>2
<1> QED
  BY <1>4, <1>5, <1>6 DEF IInv

\* Steps after which the request only has another state, or one position less to check.
LEMMA AnswerInv ==
    ASSUME IInv, NEW r \in Requests, NEW outcome \in RequestStates \ {"new", "check"},
           req' \in {req, [req EXCEPT ![r] = outcome]},
           todo' \in {todo} \cup {[todo EXCEPT ![r] = @ \ {i}] : i \in Nat},
           passed' \in {passed} \cup {passed \cup {[who |-> r, quota |-> q, at |-> now]} : q \in Quota},
           passed' # passed => counted[r] # Never,
           entered' \in {entered, [entered EXCEPT ![r] = now]},
           hits' \in {hits, Incremented(Route)},
           faults' \in 0..MaxFaults,
           UNCHANGED <<CallerOf, now, plan, counted>>
    PROVE  IInv'
<1>0. TypeOK /\ PassedIsCounted /\ FreshIsUncounted /\ EntryIsKept
  BY DEF IInv
<1>1. now \in Times /\ now \in Nat /\ Times' = Times
  BY <1>0, Bounds DEF TypeOK, Times
<1>2. TypeOK'
  <2>1. req' \in [Requests -> RequestStates]
    BY <1>0 DEF TypeOK
  <2>2. /\ todo' \in [Requests -> SUBSET (Nat \ {0})]
        /\ \A s \in Requests : todo'[s] \subseteq DOMAIN plan'[s]
    <3>1. CASE todo' = todo
      BY <1>0, <3>1 DEF TypeOK
    <3>2. ASSUME NEW i \in Nat, todo' = [todo EXCEPT ![r] = @ \ {i}]
          PROVE  /\ todo' \in [Requests -> SUBSET (Nat \ {0})]
                 /\ \A s \in Requests : todo'[s] \subseteq DOMAIN plan'[s]
      <4>1. \A s \in Requests : todo'[s] \subseteq todo[s]
        BY <1>0, <3>2 DEF TypeOK
      <4> QED
        BY <1>0, <3>2, <4>1 DEF TypeOK
    <3> QED
      BY <3>1, <3>2
  <2>3. entered' \in [Requests -> Times \cup {Never}] /\ counted' \in [Requests -> Times \cup {Never}]
    <3>1. entered \in [Requests -> Times \cup {Never}] /\ counted \in [Requests -> Times \cup {Never}]
      BY <1>0 DEF TypeOK
    <3>2. [entered EXCEPT ![r] = now] \in [Requests -> Times \cup {Never}]
      BY <3>1, <1>1
    <3> QED
      BY <3>1, <3>2
  <2>4. passed' \subseteq [who : Requests, quota : Quota, at : Times]
    <3>1. passed \subseteq [who : Requests, quota : Quota, at : Times]
      BY <1>0 DEF TypeOK
    <3>2. \A q \in Quota :
            [who |-> r, quota |-> q, at |-> now] \in [who : Requests, quota : Quota, at : Times]
      BY <1>1
    <3> QED
      BY <3>1, <3>2
  <2>5. hits' \in [Callers \cup {Route} -> SUBSET Times]
    BY <1>0, IncrementedType DEF TypeOK
  <2> QED
    BY <1>0, <1>1, <2>1, <2>2, <2>3, <2>4, <2>5 DEF TypeOK
<1>3. PassedIsCounted'
  BY <1>0, <1>1 DEF PassedIsCounted
<1>4. FreshIsUncounted'
  BY <1>0 DEF FreshIsUncounted, TypeOK
<1>5. EntryIsKept'
  <2>1. \A s \in Requests : hits'[CallerOf[s]] = hits[CallerOf[s]]
    BY <1>0, IncrementedType, CallerType
  <2> QED
    BY <1>0, <2>1 DEF EntryIsKept
<1> QED
  BY <1>2, <1>3, <1>4, <1>5 DEF IInv

LEMMA InvStep == IInv /\ [Next]_vars => IInv'
<1> SUFFICES ASSUME IInv, [Next]_vars
             PROVE  IInv'
  OBVIOUS
<1>0. TypeOK /\ PassedIsCounted /\ FreshIsUncounted /\ EntryIsKept
  BY DEF IInv
<1>a. /\ faults \in 0..MaxFaults /\ MaxFaults \in Nat
      /\ Fault => faults' \in 0..MaxFaults
  BY <1>0, Bounds DEF TypeOK, Fault
<1>b. {"unlimited", "refused", "exceeded", "admitted"} \subseteq RequestStates \ {"new", "check"}
  BY DEF RequestStates
<1>1. ASSUME NEW r \in Requests, Refuse(r)
      PROVE  IInv'
  <2>1. req' = [req EXCEPT ![r] = "refused"]
    BY <1>1 DEF Refuse, Finish
  <2> QED
    BY <1>1, <1>a, <1>b, <2>1, AnswerInv DEF Refuse
<1>2. ASSUME NEW r \in Requests, CountItself(r)
      PROVE  IInv'
  <2>1. CallerOf[r] \in Callers
    BY <1>0, CallerType
  <2> QED
    BY <1>2, <1>a, <2>1, LimitsType, CountInv DEF CountItself
<1>3. ASSUME NEW r \in Requests, CountWithoutPostgres(r)
      PROVE  IInv'
  <2>1. CallerOf[r] \in Callers
    BY <1>0, CallerType
  <2>2. PICK limits \in {LimitsOf(CallerOf[r]), Quotas} : Count(r, limits)
    BY <1>3 DEF CountWithoutPostgres
  <2>3. limits \in Seq(Quota)
    BY <2>1, <2>2, LimitsType
  <2> QED
    BY <1>3, <1>a, <2>2, <2>3, CountInv DEF CountWithoutPostgres
<1>4. ASSUME NEW r \in Requests, CountFails(r)
      PROVE  IInv'
  <2>1. req' = [req EXCEPT ![r] = "unlimited"]
    BY <1>4 DEF CountFails, Finish
  <2> QED
    BY <1>4, <1>a, <1>b, <2>1, AnswerInv DEF CountFails
<1>5. ASSUME NEW r \in Requests, CheckQuota(r)
      PROVE  IInv'
  <2>1. PICK i \in DOMAIN plan[r] :
          /\ First(r, i)
          /\ IF IsExceeded(r, plan[r][i])
             THEN Finish(r, "exceeded") /\ UNCHANGED <<todo, passed>>
             ELSE /\ todo' = [todo EXCEPT ![r] = @ \ {i}]
                  /\ passed' = passed \cup {[who |-> r, quota |-> plan[r][i], at |-> now]}
                  /\ UNCHANGED req
    BY <1>5 DEF CheckQuota
  <2>2. i \in Nat /\ plan[r][i] \in Quota
    <3>1. plan[r] \in Seq(Quota)
      BY <1>0 DEF TypeOK
    <3> QED
      BY <3>1, <2>1, LenProperties, ElementOfSeq
  <2>3. counted[r] # Never
    BY <1>0, <1>5 DEF CheckQuota, FreshIsUncounted
  <2>4. UNCHANGED <<CallerOf, now, hits, plan, counted, entered, faults>>
    BY <1>5 DEF CheckQuota
  <2>5. CASE IsExceeded(r, plan[r][i])
    <3>1. req' = [req EXCEPT ![r] = "exceeded"] /\ todo' = todo /\ passed' = passed
      BY <2>1, <2>5 DEF Finish
    <3> QED
      BY <1>a, <1>b, <2>4, <3>1, AnswerInv
  <2>6. CASE ~IsExceeded(r, plan[r][i])
    <3>1. /\ todo' = [todo EXCEPT ![r] = @ \ {i}]
          /\ passed' = passed \cup {[who |-> r, quota |-> plan[r][i], at |-> now]}
          /\ req' = req
      BY <2>1, <2>6
    <3> QED
      BY <1>a, <1>b, <2>2, <2>3, <2>4, <3>1, AnswerInv
  <2> QED
    BY <2>5, <2>6
<1>6. ASSUME NEW r \in Requests, CheckFails(r)
      PROVE  IInv'
  <2>1. PICK i \in DOMAIN plan[r] : todo' = [todo EXCEPT ![r] = @ \ {i}]
    BY <1>6 DEF CheckFails
  <2>2. i \in Nat
    <3>1. plan[r] \in Seq(Quota)
      BY <1>0 DEF TypeOK
    <3> QED
      BY <3>1, <2>1, LenProperties
  <2> QED
    BY <1>6, <1>a, <1>b, <2>1, <2>2, AnswerInv DEF CheckFails
<1>7. ASSUME NEW r \in Requests, Enter(r)
      PROVE  IInv'
  <2>1. req' = [req EXCEPT ![r] = "admitted"]
    BY <1>7 DEF Enter, Finish
  <2> QED
    BY <1>7, <1>a, <1>b, <2>1, AnswerInv DEF Enter
<1>8. ASSUME NEW r \in Requests, EnterFails(r)
      PROVE  IInv'
  <2>1. req' = [req EXCEPT ![r] = "admitted"]
    BY <1>8 DEF EnterFails, Finish
  <2> QED
    BY <1>8, <1>a, <1>b, <2>1, AnswerInv DEF EnterFails
<1>9. CASE Tick
  <2>1. now' \in Times /\ now' = now + 1 /\ now \in Nat /\ Times' = Times
    BY <1>0, <1>9, Bounds DEF Tick, TypeOK, Times
  <2>2. TypeOK' /\ FreshIsUncounted'
    BY <1>0, <1>9, <2>1 DEF Tick, TypeOK, FreshIsUncounted
  <2>3. PassedIsCounted'
    <3> SUFFICES ASSUME NEW p \in passed PROVE p.at <= now'
      BY <1>0, <1>9 DEF Tick, PassedIsCounted
    <3>1. p.at \in Nat /\ p.at <= now
      BY <1>0 DEF TypeOK, PassedIsCounted, Times
    <3> QED
      BY <2>1, <3>1
  <2>4. EntryIsKept'
    <3> SUFFICES ASSUME NEW r \in Requests, counted[r] # Never
                 PROVE  /\ counted[r] <= now'
                        /\ counted[r] > now' - Keep => counted[r] \in hits[CallerOf[r]]
      BY <1>9 DEF Tick, EntryIsKept
    <3>1. /\ counted[r] \in Nat /\ counted[r] <= now
          /\ counted[r] > now - Keep => counted[r] \in hits[CallerOf[r]]
      BY <1>0 DEF TypeOK, EntryIsKept, Times
    <3> QED
      BY <2>1, <3>1, Bounds
  <2> QED
    BY <2>2, <2>3, <2>4 DEF IInv
<1>10. CASE UNCHANGED vars
  BY <1>10 DEF vars, IInv, TypeOK, PassedIsCounted, FreshIsUncounted, EntryIsKept, Times
<1> QED
  BY <1>1, <1>2, <1>3, <1>4, <1>5, <1>6, <1>7, <1>8, <1>9, <1>10 DEF Next, Terminated

\* The sorted sets, the times and the limits have their types (client.rs:53-275).
THEOREM TypeTheorem == Spec => []TypeOK
<1>1. IInv => TypeOK
  BY DEF IInv
<1> QED
  BY InvInit, InvStep, <1>1, PTL DEF Spec

-----------------------------------------------------------------------------
(* The quotas of a caller.                                                 *)

\* The times at which the requests came that count for the quota.
LEMMA WindowIsFinite ==
    ASSUME TypeOK, NEW c, NEW q, NEW from, NEW at
    PROVE  /\ TimesOf(counted, PassedWithin(c, q, from, at)) \subseteq Times
           /\ IsFiniteSet(TimesOf(counted, PassedWithin(c, q, from, at)))
<1>1. TimesOf(counted, PassedWithin(c, q, from, at)) \subseteq Times
  BY DEF TimesOf, PassedWithin, TypeOK
<1>2. IsFiniteSet(Times)
  BY FS_Interval, Bounds DEF Times
<1> QED
  BY <1>1, <1>2, FS_Subset

\* Where fewer times count than before, the quota still holds.
LEMMA FewerTimes ==
    ASSUME TypeOK, NEW S, NEW c, NEW q \in Quota, NEW from, NEW at,
           S \subseteq TimesOf(counted, PassedWithin(c, q, from, at)),
           Cardinality(TimesOf(counted, PassedWithin(c, q, from, at))) <= q.limit
    PROVE  Cardinality(S) <= q.limit
<1> DEFINE T == TimesOf(counted, PassedWithin(c, q, from, at))
<1>1. IsFiniteSet(T)
  BY WindowIsFinite
<1>2. IsFiniteSet(S) /\ Cardinality(S) <= Cardinality(T)
  BY <1>1, FS_Subset
<1>3. Cardinality(S) \in Nat /\ Cardinality(T) \in Nat
  BY <1>1, <1>2, FS_CardinalityType
<1> QED
  BY <1>2, <1>3, QuotaType

LEMMA WindowInit == Init => WindowHolds
BY DEF Init, WindowHolds

\* Steps that let no request pass and count none that has passed.
LEMMA WindowKept ==
    ASSUME IInv, WindowHolds, UNCHANGED <<CallerOf, now, passed>>,
           \A r \in Requests : (\E p \in passed : p.who = r) => counted'[r] = counted[r]
    PROVE  WindowHolds'
<1> SUFFICES ASSUME NEW c \in Callers, NEW at \in 0..now, NEW q \in {p.quota : p \in passed},
                    q.type # "global", q.period <= Keep
             PROVE  Cardinality(TimesOf(counted, PassedWithin(c, q, at - q.period, at))') <= q.limit
  BY DEF WindowHolds, TimesOf, PassedWithin
<1>1. PassedWithin(c, q, at - q.period, at)' = PassedWithin(c, q, at - q.period, at)
  BY DEF PassedWithin
<1>2. \A r \in PassedWithin(c, q, at - q.period, at) : counted'[r] = counted[r]
  BY DEF PassedWithin
<1>3. TimesOf(counted, PassedWithin(c, q, at - q.period, at))'
        = TimesOf(counted, PassedWithin(c, q, at - q.period, at))
  BY <1>1, <1>2 DEF TimesOf
<1> QED
  BY <1>3 DEF WindowHolds

\* The clock moves: what counts for the period that ends now counted before.
LEMMA WindowAtTick ==
    ASSUME IInv, WindowHolds, Tick
    PROVE  WindowHolds'
<1>0. /\ TypeOK /\ PassedIsCounted /\ now \in Nat /\ now' = now + 1
      /\ UNCHANGED <<CallerOf, passed, counted>>
  BY Bounds DEF IInv, Tick, TypeOK, Times
<1> SUFFICES ASSUME NEW c \in Callers, NEW at \in 0..now + 1, NEW q \in {p.quota : p \in passed},
                    q.type # "global", q.period <= Keep
             PROVE  Cardinality(TimesOf(counted, PassedWithin(c, q, at - q.period, at))) <= q.limit
  BY <1>0 DEF WindowHolds, TimesOf, PassedWithin
<1>1. q \in Quota /\ q.period \in Nat
  BY <1>0, QuotaType DEF TypeOK
<1>2. CASE at \in 0..now
  BY <1>2 DEF WindowHolds
<1>3. CASE at = now + 1
  <2>1. now \in 0..now
    BY <1>0
  <2>2. Cardinality(TimesOf(counted, PassedWithin(c, q, now - q.period, now))) <= q.limit
    BY <2>1 DEF WindowHolds
  <2>3. ASSUME NEW r \in PassedWithin(c, q, at - q.period, at)
        PROVE  r \in PassedWithin(c, q, now - q.period, now)
    <3>1. /\ r \in Requests /\ CallerOf[r] = c
          /\ counted[r] # Never /\ counted[r] > at - q.period
          /\ \E p \in passed : p.who = r /\ p.quota = q
      BY DEF PassedWithin
    <3>2. \A p \in passed : p.at <= now
      BY <1>0 DEF PassedIsCounted
    <3>3. counted[r] \in Nat
      BY <1>0, <3>1 DEF TypeOK, Times
    <3>4. counted[r] > now - q.period
      BY <1>0, <1>1, <1>3, <3>1, <3>3
    <3> QED
      BY <3>1, <3>2, <3>4 DEF PassedWithin
  <2>4. TimesOf(counted, PassedWithin(c, q, at - q.period, at))
          \subseteq TimesOf(counted, PassedWithin(c, q, now - q.period, now))
    BY <2>3 DEF TimesOf
  <2> QED
    BY <1>0, <1>1, <2>2, <2>4, FewerTimes
<1> QED
  BY <1>0, <1>2, <1>3

\* A request passes: all that count for the period that ends now are in the sorted set of
\* the caller, and the check has counted them.
LEMMA WindowAtPass ==
    ASSUME IInv, WindowHolds, NEW r \in Requests, NEW quota \in Quota,
           ~IsExceeded(r, quota),
           passed' = passed \cup {[who |-> r, quota |-> quota, at |-> now]},
           UNCHANGED <<CallerOf, now, counted>>
    PROVE  WindowHolds'
<1>0. /\ TypeOK /\ PassedIsCounted /\ EntryIsKept /\ now \in Nat
  BY Bounds DEF IInv, TypeOK, Times
<1> SUFFICES ASSUME NEW c \in Callers, NEW at \in 0..now, NEW q \in {p.quota : p \in passed'},
                    q.type # "global", q.period <= Keep
             PROVE  Cardinality(TimesOf(counted, PassedWithin(c, q, at - q.period, at)')) <= q.limit
  BY <1>0 DEF WindowHolds, TimesOf
<1> DEFINE S == PassedWithin(c, q, at - q.period, at)
<1>1. q \in Quota /\ q.period \in Nat /\ q.limit \in Nat
  BY <1>0, QuotaType DEF TypeOK
<1>2. CASE S' = S
  <2>1. CASE q \in {p.quota : p \in passed}
    BY <1>2, <2>1 DEF WindowHolds
  <2>2. CASE q \notin {p.quota : p \in passed}
    <3>1. TimesOf(counted, S') = {}
      BY <1>2, <2>2 DEF PassedWithin, TimesOf
    <3> QED
      BY <1>1, <3>1, FS_EmptySet
  <2> QED
    BY <2>1, <2>2
<1>3. CASE S' # S
  <2>1. at = now /\ c = CallerOf[r] /\ q = quota
    BY <1>0, <1>3 DEF PassedWithin
  <2>2. KeyFor(r, quota) = c
    BY <2>1 DEF KeyFor
  <2> DEFINE I == InPeriod(c, q.period)
  <2>3. IsFiniteSet(I) /\ Cardinality(I) \in Nat
    <3>1. I \subseteq Times
      BY DEF InPeriod, TypeOK, IInv
    <3>2. IsFiniteSet(Times)
      BY FS_Interval, Bounds DEF Times
    <3> HIDE DEF I
    <3>3. IsFiniteSet(I)
      BY <3>1, <3>2, FS_Subset
    <3> QED
      BY <3>3, FS_CardinalityType
  <2>4. Cardinality(I) <= q.limit
    <3>1. ~(CheckRequests(c, q.period) >= q.limit)
      BY <2>1, <2>2 DEF IsExceeded
    <3> QED
      BY <1>1, <2>3, <3>1 DEF CheckRequests
  <2>5. TimesOf(counted, S') \subseteq I
    <3> SUFFICES ASSUME NEW s \in S' PROVE counted[s] \in I
      BY DEF TimesOf
    <3>1. s \in Requests /\ CallerOf[s] = c /\ counted[s] # Never /\ counted[s] > now - q.period
      BY <2>1 DEF PassedWithin
    <3>2. counted[s] \in Nat /\ counted[s] <= now /\ (counted[s] > now - Keep => counted[s] \in hits[c])
      BY <1>0, <3>1 DEF TypeOK, EntryIsKept, Times
    <3>3. counted[s] \in hits[c]
      BY <1>0, <1>1, <3>1, <3>2, Bounds
    <3> QED
      BY <1>0, <1>1, <3>1, <3>2, <3>3 DEF InPeriod
  <2>6. IsFiniteSet(TimesOf(counted, S')) /\ Cardinality(TimesOf(counted, S')) <= Cardinality(I)
    BY <2>3, <2>5, FS_Subset
  <2>7. Cardinality(TimesOf(counted, S')) \in Nat
    BY <2>6, FS_CardinalityType
  <2> QED
    BY <1>1, <2>3, <2>4, <2>6, <2>7
<1> QED
  BY <1>2, <1>3

\* In no period do more requests of one caller come and pass than its quota allows, however
\* they overlap and whichever calls fail (apply_limits, client.rs:112-137).
THEOREM WindowTheorem == Spec => []WindowHolds
<1>1. IInv /\ WindowHolds /\ [Next]_vars => WindowHolds'
  <2> SUFFICES ASSUME IInv, WindowHolds, [Next]_vars
               PROVE  WindowHolds'
    OBVIOUS
  <2>0. TypeOK /\ PassedIsCounted /\ FreshIsUncounted
    BY DEF IInv
  <2>1. ASSUME NEW r \in Requests, NEW limits, req[r] = "new", Count(r, limits)
        PROVE  WindowHolds'
    <3>1. counted[r] = Never /\ \A p \in passed : counted[p.who] # Never
      BY <2>0, <2>1 DEF PassedIsCounted, FreshIsUncounted
    <3>2. \A s \in Requests : (\E p \in passed : p.who = s) => counted'[s] = counted[s]
      BY <2>0, <2>1, <3>1 DEF Count, TypeOK
    <3> QED
      BY <2>1, <3>2, WindowKept DEF Count
  <2>2. ASSUME NEW r \in Requests, CheckQuota(r)
        PROVE  WindowHolds'
    <3>1. PICK i \in DOMAIN plan[r] :
            IF IsExceeded(r, plan[r][i])
            THEN UNCHANGED passed
            ELSE passed' = passed \cup {[who |-> r, quota |-> plan[r][i], at |-> now]}
      BY <2>2 DEF CheckQuota
    <3>2. plan[r][i] \in Quota
      <4>1. plan[r] \in Seq(Quota)
        BY <2>0 DEF TypeOK
      <4> QED
        BY <4>1, <3>1, LenProperties, ElementOfSeq
    <3>3. UNCHANGED <<CallerOf, now, counted>>
      BY <2>2 DEF CheckQuota
    <3>4. CASE IsExceeded(r, plan[r][i])
      BY <3>1, <3>3, <3>4, WindowKept
    <3>5. CASE ~IsExceeded(r, plan[r][i])
      BY <3>1, <3>2, <3>3, <3>5, WindowAtPass
    <3> QED
      BY <3>4, <3>5
  <2>3. CASE Tick
    BY <2>3, WindowAtTick
  <2>4. CASE UNCHANGED <<CallerOf, now, passed, counted>>
    BY <2>4, WindowKept
  <2>5. ASSUME NEW r \in Requests,
               Refuse(r) \/ CountFails(r) \/ CheckFails(r) \/ Enter(r) \/ EnterFails(r)
        PROVE  UNCHANGED <<CallerOf, now, passed, counted>>
    BY <2>5 DEF Refuse, CountFails, CheckFails, Enter, EnterFails
  <2>6. ASSUME NEW r \in Requests, CountItself(r) \/ CountWithoutPostgres(r)
        PROVE  WindowHolds'
    BY <2>1, <2>6 DEF CountItself, CountWithoutPostgres
  <2> QED
    BY <2>2, <2>3, <2>4, <2>5, <2>6 DEF Next, Terminated, vars
<1> QED
  BY InvInit, InvStep, WindowInit, <1>1, PTL DEF Spec

-----------------------------------------------------------------------------
(* The entries of the route.                                               *)

LEMMA AdmittedStep == IInv /\ OnlyTheAdmittedCount /\ [Next]_vars => OnlyTheAdmittedCount'
<1> SUFFICES ASSUME IInv, OnlyTheAdmittedCount, [Next]_vars
             PROVE  OnlyTheAdmittedCount'
  OBVIOUS
<1>0. TypeOK
  BY DEF IInv
<1>1. ASSUME NEW r \in Requests, req[r] # "admitted", hits'[Route] \subseteq hits[Route],
             req' \in {[req EXCEPT ![r] = outcome] : outcome \in RequestStates} \cup {req},
             entered' = entered
      PROVE  OnlyTheAdmittedCount'
  <2> SUFFICES ASSUME NEW t \in hits[Route]
               PROVE  \E s \in Requests : req'[s] = "admitted" /\ entered[s] = t
    BY <1>1 DEF OnlyTheAdmittedCount
  <2>1. PICK s \in Requests : req[s] = "admitted" /\ entered[s] = t
    BY DEF OnlyTheAdmittedCount
  <2>2. req'[s] = "admitted"
    BY <1>0, <1>1, <2>1 DEF TypeOK
  <2> QED
    BY <2>1, <2>2
<1>2. ASSUME NEW r \in Requests, NEW limits, req[r] = "new", Count(r, limits)
      PROVE  OnlyTheAdmittedCount'
  <2>1. hits'[Route] = hits[Route]
    BY <1>0, <1>2, CallerType, IncrementedType DEF Count
  <2>2. req' = [req EXCEPT ![r] = "check"] /\ entered' = entered /\ "check" \in RequestStates
    BY <1>2 DEF Count, Finish, RequestStates
  <2> QED
    BY <1>1, <1>2, <2>1, <2>2
<1>3. ASSUME NEW r \in Requests,
             Refuse(r) \/ CountFails(r) \/ CheckQuota(r) \/ CheckFails(r) \/ EnterFails(r)
      PROVE  OnlyTheAdmittedCount'
  <2>1. req[r] \in {"new", "check"} /\ hits' = hits /\ entered' = entered
    BY <1>3 DEF Refuse, CountFails, CheckQuota, CheckFails, EnterFails, AllChecked
  <2>2. \/ req' = req
        \/ \E outcome \in RequestStates : req' = [req EXCEPT ![r] = outcome]
    BY <1>3 DEF Refuse, CountFails, CheckQuota, CheckFails, EnterFails, Finish, RequestStates
  <2> QED
    BY <1>1, <2>1, <2>2
<1>4. ASSUME NEW r \in Requests, Enter(r)
      PROVE  OnlyTheAdmittedCount'
  <2>1. /\ req[r] = "check" /\ req' = [req EXCEPT ![r] = "admitted"]
        /\ entered' = [entered EXCEPT ![r] = now]
        /\ hits'[Route] \subseteq hits[Route] \cup {now}
    BY <1>0, <1>4, IncrementedType DEF Enter, AllChecked, Finish
  <2>2. req'[r] = "admitted" /\ entered'[r] = now
    BY <1>0, <2>1 DEF TypeOK
  <2>3. ASSUME NEW t \in hits[Route]
        PROVE  \E s \in Requests : req'[s] = "admitted" /\ entered'[s] = t
    <3>1. PICK s \in Requests : req[s] = "admitted" /\ entered[s] = t
      BY DEF OnlyTheAdmittedCount
    <3>2. s # r
      BY <2>1, <3>1
    <3> QED
      BY <1>0, <2>1, <3>1, <3>2 DEF TypeOK
  <2> QED
    BY <2>1, <2>2, <2>3 DEF OnlyTheAdmittedCount
<1>5. CASE UNCHANGED <<hits, req, entered>>
  BY <1>5 DEF OnlyTheAdmittedCount
<1> QED
  BY <1>2, <1>3, <1>4, <1>5
  DEF Next, Terminated, Tick, vars, CountItself, CountWithoutPostgres

\* Only requests that were let in use up the quota of the route (client.rs:139-144).
THEOREM AdmittedTheorem == Spec => []OnlyTheAdmittedCount
<1>1. Init => OnlyTheAdmittedCount
  BY DEF Init, OnlyTheAdmittedCount
<1> QED
  BY InvInit, InvStep, AdmittedStep, <1>1, PTL DEF Spec

-----------------------------------------------------------------------------
(* The quota of the route.                                                 *)

\* Natural numbers are well-founded: a set of them has a least element, and a set of them
\* with a bound has a greatest one.
LEMMA LeastOf ==
    ASSUME NEW S \in SUBSET Nat, S # {}
    PROVE  \E m \in S : \A n \in S : m <= n
<1> DEFINE R == OpToRel(<, Nat)
<1>1. IsWellFoundedOn(R, Nat)
  BY NatLessThanWellFounded
<1>2. \A x, y \in Nat : x < y => <<x, y>> \in R
  BY DEF OpToRel
<1> HIDE DEF R
<1>3. PICK m \in S : \A y \in S : ~ (<<y, m>> \in R)
  BY <1>1, WFMin
<1>4. ASSUME NEW n \in S PROVE m <= n
  <2>1. m \in Nat /\ n \in Nat /\ ~(n < m)
    BY <1>2, <1>3
  <2> QED
    BY <2>1
<1> QED
  BY <1>3, <1>4

LEMMA GreatestOf ==
    ASSUME NEW N \in Nat, NEW S \in SUBSET (0..N), S # {}
    PROVE  \E m \in S : \A n \in S : n <= m
<1> DEFINE D == {N - n : n \in S}
<1>1. \A n \in S : n \in Nat /\ n <= N
  OBVIOUS
<1>2. D \in SUBSET Nat /\ D # {}
  <2>1. \A n \in S : N - n \in Nat
    BY <1>1
  <2> QED
    BY <2>1
<1>3. PICK d \in D : \A e \in D : d <= e
  <2> HIDE DEF D
  <2> QED
    BY <1>2, LeastOf
<1>4. PICK m \in S : d = N - m
  BY <1>3
<1>5. \A n \in S : N - m <= N - n
  BY <1>3, <1>4
<1> QED
  BY <1>1, <1>4, <1>5

\* Like EntryIsKept, of the route's sorted set.
RouteEntryIsKept ==
    \A r \in Requests :
        entered[r] # Never => /\ entered[r] <= now
                              /\ entered[r] > now - Keep => entered[r] \in hits[Route]

\* A request enters after all its checks.
EntersLast ==
    /\ \A r \in Requests : req[r] \in {"new", "check"} => entered[r] = Never
    /\ \A p \in passed : entered[p.who] # Never => p.at <= entered[p.who]

\* The instants between two others at which requests entered.
EnteredBetween(from, at) ==
    {entered[r] : r \in {r \in Requests : entered[r] # Never /\ entered[r] > from /\ entered[r] < at}}

\* Whoever passed a quota of the route has seen those that had entered before.
SawTheRoute ==
    \A p \in passed :
        p.quota.type = "global" /\ p.quota.period <= Keep =>
            Cardinality(EnteredBetween(p.at - p.quota.period, p.at)) <= p.quota.limit

RouteInv == RouteEntryIsKept /\ EntersLast /\ SawTheRoute

LEMMA PassedType ==
    ASSUME TypeOK, NEW p \in passed
    PROVE  /\ p.who \in Requests /\ p.at \in Nat /\ p.at \in Times
           /\ p.quota \in Quota /\ p.quota.limit \in Nat /\ p.quota.period \in Nat
<1>1. p \in [who : Requests, quota : Quota, at : Times]
  BY DEF TypeOK
<1> QED
  BY <1>1, QuotaType DEF Times

LEMMA TimesAreFinite == ASSUME NEW S, S \subseteq Times
                        PROVE  IsFiniteSet(S) /\ Cardinality(S) \in Nat
<1>1. IsFiniteSet(Times)
  BY FS_Interval, Bounds DEF Times
<1>2. IsFiniteSet(S)
  BY <1>1, FS_Subset
<1> QED
  BY <1>2, FS_CardinalityType

LEMMA RouteInit == Init => RouteInv
BY DEF Init, RouteInv, RouteEntryIsKept, EntersLast, SawTheRoute

\* Steps that let nobody pass and nobody enter.
LEMMA RouteKept ==
    ASSUME TypeOK, RouteInv, UNCHANGED <<now, entered, passed>>, hits'[Route] = hits[Route],
           \A r \in Requests : req'[r] \in {"new", "check"} => req[r] \in {"new", "check"}
    PROVE  RouteInv'
<1>1. RouteEntryIsKept' /\ EntersLast'
  BY DEF RouteInv, RouteEntryIsKept, EntersLast
<1>2. SawTheRoute'
  BY DEF RouteInv, SawTheRoute, EnteredBetween
<1> QED
  BY <1>1, <1>2 DEF RouteInv

LEMMA RouteAtTick ==
    ASSUME TypeOK, PassedIsCounted, RouteInv, Tick
    PROVE  RouteInv'
<1>0. now \in Nat /\ now' = now + 1 /\ UNCHANGED <<hits, req, entered, passed>>
  BY Bounds DEF TypeOK, Tick, Times
<1>1. RouteEntryIsKept'
  <2> SUFFICES ASSUME NEW r \in Requests, entered[r] # Never
               PROVE  /\ entered[r] <= now + 1
                      /\ entered[r] > (now + 1) - Keep => entered[r] \in hits[Route]
    BY <1>0 DEF RouteEntryIsKept
  <2>1. entered[r] \in Nat
    BY DEF TypeOK, Times
  <2> QED
    BY <1>0, <2>1, Bounds DEF RouteInv, RouteEntryIsKept
<1>2. EntersLast' /\ SawTheRoute'
  BY <1>0 DEF RouteInv, EntersLast, SawTheRoute, EnteredBetween
<1> QED
  BY <1>1, <1>2 DEF RouteInv

\* A request enters: nobody has passed later.
LEMMA RouteAtEntry ==
    ASSUME TypeOK, PassedIsCounted, RouteInv, NEW r \in Requests, Enter(r)
    PROVE  RouteInv'
<1>0. /\ req[r] = "check" /\ entered[r] = Never /\ now \in Nat /\ now # Never
      /\ req' = [req EXCEPT ![r] = "admitted"]
      /\ entered' = [entered EXCEPT ![r] = now]
      /\ UNCHANGED <<now, passed>>
      /\ hits'[Route] = {t \in hits[Route] : t > now - Keep} \cup {now}
  BY Bounds, IncrementedType DEF Enter, AllChecked, Finish, RouteInv, EntersLast, TypeOK, Times
<1>1. RouteEntryIsKept'
  <2> SUFFICES ASSUME NEW s \in Requests, entered'[s] # Never
               PROVE  /\ entered'[s] <= now
                      /\ entered'[s] > now - Keep => entered'[s] \in hits'[Route]
    BY <1>0 DEF RouteEntryIsKept
  <2>1. CASE s = r
    BY <1>0, <2>1 DEF TypeOK
  <2>2. CASE s # r
    BY <1>0, <2>2 DEF TypeOK, RouteInv, RouteEntryIsKept
  <2> QED
    BY <2>1, <2>2
<1>2. EntersLast'
  <2>1. \A s \in Requests : req'[s] \in {"new", "check"} => entered'[s] = Never
    BY <1>0 DEF TypeOK, RouteInv, EntersLast
  <2>2. ASSUME NEW p \in passed, entered'[p.who] # Never
        PROVE  p.at <= entered'[p.who]
    <3>1. p.who \in Requests /\ p.at <= now
      BY PassedType DEF PassedIsCounted
    <3> QED
      BY <1>0, <2>2, <3>1 DEF TypeOK, RouteInv, EntersLast
  <2> QED
    BY <1>0, <2>1, <2>2 DEF EntersLast
<1>3. SawTheRoute'
  <2> SUFFICES ASSUME NEW p \in passed
               PROVE  EnteredBetween(p.at - p.quota.period, p.at)'
                        = EnteredBetween(p.at - p.quota.period, p.at)
    BY <1>0 DEF RouteInv, SawTheRoute
  <2>1. p.at \in Nat /\ p.at <= now
    BY PassedType DEF PassedIsCounted
  <2>2. \A s \in Requests : s # r => entered'[s] = entered[s]
    BY <1>0 DEF TypeOK
  <2>3. ~(entered'[r] < p.at)
    BY <1>0, <2>1 DEF TypeOK
  <2> QED
    BY <1>0, <2>2, <2>3 DEF EnteredBetween
<1> QED
  BY <1>1, <1>2, <1>3 DEF RouteInv

\* A request passes a quota: those that entered in its period are in the route's set.
LEMMA RouteAtPass ==
    ASSUME TypeOK, RouteInv, NEW r \in Requests, req[r] = "check", NEW quota \in Quota,
           ~IsExceeded(r, quota),
           passed' = passed \cup {[who |-> r, quota |-> quota, at |-> now]},
           UNCHANGED <<now, hits, req, entered>>
    PROVE  RouteInv'
<1>0. now \in Nat /\ quota.limit \in Nat /\ quota.period \in Nat
  BY Bounds, QuotaType DEF TypeOK, Times
<1>1. RouteEntryIsKept'
  BY DEF RouteInv, RouteEntryIsKept
<1>2. EntersLast'
  BY DEF RouteInv, EntersLast
<1>3. SawTheRoute'
  <2>1. ASSUME quota.type = "global", quota.period <= Keep
        PROVE  Cardinality(EnteredBetween(now - quota.period, now)) <= quota.limit
    <3> DEFINE I == InPeriod(Route, quota.period)
               E == EnteredBetween(now - quota.period, now)
    <3>1. I \subseteq Times
      BY DEF InPeriod, TypeOK
    <3>2. E \subseteq I
      <4> SUFFICES ASSUME NEW s \in Requests, entered[s] # Never,
                          entered[s] > now - quota.period, entered[s] < now
                   PROVE  entered[s] \in I
        BY DEF EnteredBetween
      <4>1. entered[s] \in Nat
        BY DEF TypeOK, Times
      <4>2. entered[s] \in hits[Route]
        BY <1>0, <2>1, <4>1, Bounds DEF RouteInv, RouteEntryIsKept
      <4> QED
        BY <1>0, <4>1, <4>2 DEF InPeriod
    <3>3. ~(CheckRequests(Route, quota.period) >= quota.limit)
      BY <2>1 DEF IsExceeded, KeyFor
    <3>4. ~((IF Cardinality(I) = 0 THEN 0 ELSE Cardinality(I) - 1) >= quota.limit)
      BY <3>3 DEF CheckRequests
    <3> HIDE DEF I, E
    <3>5. IsFiniteSet(I)
      BY <3>1, TimesAreFinite
    <3>6. IsFiniteSet(E) /\ Cardinality(E) <= Cardinality(I)
      BY <3>2, <3>5, FS_Subset
    <3>7. Cardinality(I) \in Nat /\ Cardinality(E) \in Nat
      BY <3>5, <3>6, FS_CardinalityType
    <3>8. Cardinality(I) <= quota.limit
      BY <1>0, <3>4, <3>7
    <3> QED
      BY <1>0, <3>6, <3>7, <3>8 DEF E
  <2>2. ASSUME NEW p \in passed'
        PROVE  p \in passed \/ (p.quota = quota /\ p.at = now)
    <3>1. CASE p \in passed
      BY <3>1
    <3>2. CASE p = [who |-> r, quota |-> quota, at |-> now]
      <4>1. p.quota = quota /\ p.at = now
        BY <3>2
      <4> QED
        BY <4>1
    <3> QED
      BY <2>2, <3>1, <3>2
  <2>3. \A from, at : EnteredBetween(from, at)' = EnteredBetween(from, at)
    BY DEF EnteredBetween
  <2> QED
    BY <2>1, <2>2, <2>3 DEF RouteInv, SawTheRoute
<1> QED
  BY <1>1, <1>2, <1>3 DEF RouteInv

LEMMA RouteStep == IInv /\ RouteInv /\ [Next]_vars => RouteInv'
<1> SUFFICES ASSUME IInv, RouteInv, [Next]_vars
             PROVE  RouteInv'
  OBVIOUS
<1>0. TypeOK /\ PassedIsCounted
  BY DEF IInv
<1>1. ASSUME NEW r \in Requests, NEW limits, req[r] = "new", Count(r, limits)
      PROVE  RouteInv'
  <2>1. hits'[Route] = hits[Route]
    BY <1>0, <1>1, CallerType, IncrementedType DEF Count
  <2>2. UNCHANGED <<now, entered, passed>> /\ req' = [req EXCEPT ![r] = "check"]
    BY <1>1 DEF Count, Finish
  <2>3. \A s \in Requests : req'[s] \in {"new", "check"} => req[s] \in {"new", "check"}
    BY <1>0, <1>1, <2>2 DEF TypeOK
  <2> QED
    BY <1>0, <2>1, <2>2, <2>3, RouteKept
<1>2. ASSUME NEW r \in Requests,
             Refuse(r) \/ CountFails(r) \/ CheckFails(r) \/ EnterFails(r)
      PROVE  RouteInv'
  <2>1. UNCHANGED <<now, hits, entered, passed>>
    BY <1>2 DEF Refuse, CountFails, CheckFails, EnterFails
  <2>2. \A s \in Requests : req'[s] \in {"new", "check"} => req[s] \in {"new", "check"}
    BY <1>0, <1>2 DEF Refuse, CountFails, CheckFails, EnterFails, Finish, TypeOK
  <2> QED
    BY <1>0, <2>1, <2>2, RouteKept
<1>3. ASSUME NEW r \in Requests, CheckQuota(r)
      PROVE  RouteInv'
  <2>1. PICK i \in DOMAIN plan[r] :
          IF IsExceeded(r, plan[r][i])
          THEN Finish(r, "exceeded") /\ UNCHANGED passed
          ELSE /\ passed' = passed \cup {[who |-> r, quota |-> plan[r][i], at |-> now]}
               /\ UNCHANGED req
    BY <1>3 DEF CheckQuota
  <2>2. plan[r][i] \in Quota
    <3>1. plan[r] \in Seq(Quota)
      BY <1>0 DEF TypeOK
    <3> QED
      BY <3>1, <2>1, LenProperties, ElementOfSeq
  <2>3. req[r] = "check" /\ UNCHANGED <<now, hits, entered>>
    BY <1>3 DEF CheckQuota
  <2>4. CASE IsExceeded(r, plan[r][i])
    <3>1. \A s \in Requests : req'[s] \in {"new", "check"} => req[s] \in {"new", "check"}
      BY <1>0, <2>1, <2>4 DEF Finish, TypeOK
    <3> QED
      BY <1>0, <2>1, <2>3, <2>4, <3>1, RouteKept
  <2>5. CASE ~IsExceeded(r, plan[r][i])
    BY <1>0, <2>1, <2>2, <2>3, <2>5, RouteAtPass
  <2> QED
    BY <2>4, <2>5
<1>4. ASSUME NEW r \in Requests, Enter(r)
      PROVE  RouteInv'
    BY <1>0, <1>4, RouteAtEntry
<1>5. CASE Tick
  BY <1>0, <1>5, RouteAtTick
<1>6. CASE UNCHANGED vars
  BY <1>0, <1>6, RouteKept DEF vars
<1> QED
  BY <1>1, <1>2, <1>3, <1>4, <1>5, <1>6
  DEF Next, Terminated, CountItself, CountWithoutPostgres

\* The bound follows from what the last of the requests to be checked has seen.
LEMMA BoundOfTheRoute == TypeOK /\ RouteInv => GlobalHolds
<1> SUFFICES ASSUME TypeOK, RouteInv,
                    NEW q \in {p.quota : p \in passed}, NEW at \in 0..now,
                    q.type = "global", q.period <= Keep,
                    NEW S \in SUBSET Requests,
                    \A r \in S : \E p \in passed : p.who = r /\ p.quota = q /\ p.at <= at,
                    \A r \in S : entered[r] # Never /\ entered[r] > at - q.period,
                    \A r, s \in S : r # s => Sequential(r, s, q, at)
             PROVE  Cardinality(S) <= q.limit + 1
  BY DEF GlobalHolds
<1>0. q.limit \in Nat /\ q.period \in Nat /\ at \in Nat
  BY PassedType, Bounds DEF TypeOK, Times
<1>1. IsFiniteSet(S)
  BY RateAssumption, FS_Subset
<1>2. CASE S = {}
  BY <1>0, <1>2, FS_EmptySet
<1>3. CASE S # {}
  <2> DEFINE P == {p \in passed : p.who \in S /\ p.quota = q /\ p.at <= at}
             A == {p.at : p \in P}
  <2>1. A # {} /\ A \in SUBSET (0..MaxTime)
    BY <1>3, PassedType DEF Times
  <2>2. PICK last \in P : \A p \in P : p.at <= last.at
    <3> HIDE DEF A
    <3>1. PICK m \in A : \A n \in A : n <= m
      BY <2>1, GreatestOf, Bounds
    <3> QED
      BY <3>1 DEF A
  <2>3. last \in passed /\ last.who \in S /\ last.quota = q /\ last.at <= at /\ last.at \in Nat
    BY PassedType
  <2> DEFINE s == last.who
             T == S \ {s}
             E == EnteredBetween(last.at - q.period, last.at)
             f == [r \in T |-> entered[r]]
  <2>4. \A r \in S : entered[r] \in Nat /\ \A p \in P : p.who = r => p.at <= entered[r]
    BY DEF TypeOK, Times, RouteInv, EntersLast
  <2>5. ASSUME NEW r \in T PROVE entered[r] \in E
    <3>1. PICK p \in passed :
            /\ p.quota = q /\ p.at <= at
            /\ \/ p.who = s /\ entered[r] # Never /\ entered[r] < p.at
               \/ p.who = r /\ entered[s] # Never /\ entered[s] < p.at
      BY <2>3 DEF Sequential
    <3>2. p \in P /\ p.at \in Nat
      BY <2>3, <3>1, PassedType
    <3>3. p.at <= last.at /\ last.at <= entered[s] /\ entered[s] \in Nat /\ entered[r] \in Nat
      BY <2>2, <2>3, <2>4, <3>2
    <3>4. entered[r] < last.at
      BY <2>3, <3>1, <3>2, <3>3
    <3>5. entered[r] > last.at - q.period
      BY <1>0, <2>3, <3>3
    <3> QED
      BY <3>4, <3>5 DEF EnteredBetween
  <2>6. ASSUME NEW r1 \in T, NEW r2 \in T, entered[r1] = entered[r2]
        PROVE  r1 = r2
    <3> SUFFICES ASSUME r1 # r2 PROVE FALSE
      OBVIOUS
    <3>1. PICK p \in passed :
            /\ p.quota = q /\ p.at <= at
            /\ \/ p.who = r2 /\ entered[r1] # Never /\ entered[r1] < p.at
               \/ p.who = r1 /\ entered[r2] # Never /\ entered[r2] < p.at
      BY DEF Sequential
    <3>2. p \in P /\ p.at \in Nat
      BY <3>1, PassedType
    <3> QED
      BY <2>4, <2>6, <3>1, <3>2
  <2> HIDE DEF P, A, E
  <2>7. f \in Injection(T, E)
    BY <2>5, <2>6 DEF Injection, IsInjective
  <2>8. IsFiniteSet(E) /\ Cardinality(E) \in Nat
    <3>1. E \subseteq Times
      BY DEF E, EnteredBetween, TypeOK
    <3> QED
      BY <3>1, TimesAreFinite
  <2>9. IsFiniteSet(T) /\ Cardinality(T) <= Cardinality(E) /\ Cardinality(T) \in Nat
    BY <2>7, <2>8, FS_Injection, FS_CardinalityType
  <2>10. Cardinality(E) <= q.limit
    BY <2>3 DEF E, RouteInv, SawTheRoute
  <2>11. Cardinality(T) = Cardinality(S) - 1 /\ Cardinality(S) \in Nat
    BY <1>1, <2>3, FS_RemoveElement, FS_CardinalityType
  <2> QED
    BY <1>0, <2>8, <2>9, <2>10, <2>11
<1> QED
  BY <1>2, <1>3

\* Requests that follow one another exceed the quota of the route by no more than one
\* in any period, whichever calls fail (client.rs:139-144, 173).
THEOREM GlobalTheorem == Spec => []GlobalHolds
<1>1. IInv /\ RouteInv => GlobalHolds
  BY BoundOfTheRoute DEF IInv
<1> QED
  BY InvInit, InvStep, RouteInit, RouteStep, <1>1, PTL DEF Spec
=============================================================================
