------------------------- MODULE RateLimiterProofs -------------------------
(* The bound of RateLimiter for every number of users and requests, every  *)
(* limit and every length of the window.                                   *)
EXTENDS RateLimiter, FiniteSetTheorems, TLAPS

\* Who was stamped is a user, and the lists are finite.
StampsOK ==
    /\ \A r \in Requests : verdict[r] # "none" => asker[r] \in Users
    /\ \A u \in Users : IsFiniteSet(bcRate[u])

\* Of the stamps that were admitted in order, an hour that ends at one of them
\* holds no more than the limit.
InOrderOK ==
    \A s \in Requests \ late : verdict[s] = "yes" =>
        /\ IsFiniteSet(HourUpTo(s) \ late)
        /\ Cardinality(HourUpTo(s) \ late) <= MaxPerHour

RateInv == RateTypeOK /\ StampsOK /\ WindowOK /\ InOrderOK

\* Before the first request all lists are empty.
LEMMA RateInitially == InitRate => RateInv
<1> SUFFICES ASSUME InitRate PROVE RateInv
  OBVIOUS
<1>1. RateTypeOK
  BY DEF InitRate, RateTypeOK, Verdicts
<1>2. StampsOK
  BY FS_EmptySet DEF InitRate, StampsOK
<1>3. WindowOK
  BY FS_EmptySet, LimitIsNatural DEF InitRate, WindowOK, Admitted
<1>4. InOrderOK
  BY DEF InitRate, InOrderOK
<1> QED
  BY <1>1, <1>2, <1>3, <1>4 DEF RateInv

\* A step that admits nobody and leaves the stamps of the admitted alone.
LEMMA NobodyAdmittedKeeps ==
    ASSUME RateInv, RateTypeOK', StampsOK', UNCHANGED <<bcRate, late>>,
           \A q \in Requests : verdict'[q] = "yes" <=> verdict[q] = "yes",
           \A q \in Requests : verdict[q] = "yes" => now'[q] = now[q] /\ asker'[q] = asker[q]
    PROVE  RateInv'
<1>1. ASSUME NEW v \in Users PROVE Admitted(v)' = Admitted(v)
  BY DEF Admitted
<1>2. WindowOK'
  <2> SUFFICES ASSUME NEW v \in Users
      PROVE  /\ \A q \in Admitted(v)' \ bcRate'[v] :
                    \E s \in Admitted(v)' : now'[s] - now'[q] >= Hour
             /\ Cardinality(bcRate'[v]) <= MaxPerHour
    BY DEF WindowOK
  <2>1. /\ \A q \in Admitted(v) \ bcRate[v] : \E s \in Admitted(v) : now[s] - now[q] >= Hour
        /\ Cardinality(bcRate[v]) <= MaxPerHour
    BY DEF RateInv, WindowOK
  <2>2. \A q \in Admitted(v) : now'[q] = now[q]
    BY DEF Admitted
  <2> QED
    BY <1>1, <2>1, <2>2
<1>3. ASSUME NEW s \in Requests, verdict[s] = "yes" PROVE HourUpTo(s)' = HourUpTo(s)
  <2>1. asker[s] \in Users /\ asker'[s] = asker[s] /\ now'[s] = now[s]
    BY <1>3 DEF RateInv, StampsOK
  <2>2. \A q \in Admitted(asker[s]) : now'[q] = now[q]
    BY DEF Admitted
  <2>3. Admitted(asker[s])' = Admitted(asker[s])
    BY <1>1, <2>1
  <2> QED
    BY <2>1, <2>2, <2>3 DEF HourUpTo, Admitted
<1>4. InOrderOK'
  BY <1>3 DEF RateInv, InOrderOK
<1> QED
  BY <1>2, <1>4 DEF RateInv

\* A stamp changes no list and admits nobody.
LEMMA ReadClockKeeps ==
    ASSUME RateInv, NEW r \in Requests, NEW u \in Users, ReadClock(r, u)
    PROVE  RateInv'
<1>1. /\ RateTypeOK' /\ StampsOK' /\ UNCHANGED <<bcRate, late>>
      /\ \A q \in Requests : verdict'[q] = "yes" <=> verdict[q] = "yes"
      /\ \A q \in Requests : verdict[q] = "yes" => now'[q] = now[q] /\ asker'[q] = asker[q]
  BY DEF RateInv, RateTypeOK, StampsOK, ReadClock, Verdicts
<1> QED
  BY <1>1, NobodyAdmittedKeeps

\* The clock is read by nothing but the next request.
LEMMA RateTickKeeps ==
    ASSUME RateInv, RateTick PROVE RateInv'
<1>1. /\ RateTypeOK' /\ StampsOK' /\ UNCHANGED <<bcRate, late>>
      /\ \A q \in Requests : verdict'[q] = "yes" <=> verdict[q] = "yes"
      /\ \A q \in Requests : verdict[q] = "yes" => now'[q] = now[q] /\ asker'[q] = asker[q]
  BY DEF RateInv, RateTypeOK, StampsOK, RateTick
<1> QED
  BY <1>1, NobodyAdmittedKeeps

LEMMA RefuseKeeps ==
    ASSUME RateInv, NEW r \in Requests, verdict[r] = "asking", Refuse(r),
           UNCHANGED <<clock, now, asker>>
    PROVE  RateInv'
<1>1. /\ RateTypeOK' /\ StampsOK' /\ UNCHANGED <<bcRate, late>>
      /\ \A q \in Requests : verdict'[q] = "yes" <=> verdict[q] = "yes"
      /\ \A q \in Requests : verdict[q] = "yes" => now'[q] = now[q] /\ asker'[q] = asker[q]
  BY DEF RateInv, RateTypeOK, StampsOK, Refuse, Verdicts
<1> QED
  BY <1>1, NobodyAdmittedKeeps

\* What the hour up to the latest admitted stamp holds is on the list.
LEMMA LatestHourIsListed ==
    ASSUME RateTypeOK, WindowOK, NEW s \in Requests, verdict[s] = "yes", asker[s] \in Users,
           \A q \in Admitted(asker[s]) : now[q] <= now[s]
    PROVE  HourUpTo(s) \subseteq bcRate[asker[s]]
<1> SUFFICES ASSUME NEW q \in HourUpTo(s), q \notin bcRate[asker[s]] PROVE FALSE
  OBVIOUS
<1>1. q \in Admitted(asker[s]) /\ now[s] - now[q] < Hour
  BY DEF HourUpTo
<1>2. PICK p \in Admitted(asker[s]) : now[p] - now[q] >= Hour
  BY <1>1 DEF WindowOK
<1>3. now[p] <= now[s] /\ now[p] \in Nat /\ now[q] \in Nat /\ now[s] \in Nat
  BY <1>1, <1>2 DEF RateTypeOK, Admitted
<1> QED
  BY <1>1, <1>2, <1>3, HourIsNatural

\* The list of the asker after an admission: a stamp that it drops lies an
\* hour behind the one it adds.
LEMMA AdmitKeepsList ==
    ASSUME RateInv, NEW r \in Requests, verdict[r] = "asking",
           Cardinality(Recent(r)) < MaxPerHour, Admit(r), UNCHANGED <<clock, now, asker>>
    PROVE  RateTypeOK' /\ StampsOK' /\ WindowOK'
<1> DEFINE u == asker[r]
<1>1. u \in Users /\ bcRate[u] \subseteq Requests /\ IsFiniteSet(bcRate[u])
  BY DEF RateInv, RateTypeOK, StampsOK
<1>2. Recent(r) \subseteq bcRate[u] /\ IsFiniteSet(Recent(r))
  BY <1>1, FS_Subset DEF Recent
<1>3. /\ bcRate' = [bcRate EXCEPT ![u] = Recent(r) \cup {r}]
      /\ verdict' = [verdict EXCEPT ![r] = "yes"]
      /\ late' \subseteq late \cup {r}
  BY DEF Admit
<1>4. /\ IsFiniteSet(Recent(r) \cup {r})
      /\ Cardinality(Recent(r) \cup {r}) <= MaxPerHour
  <2>1. Cardinality(Recent(r)) \in Nat
    BY <1>2, FS_CardinalityType
  <2>2. /\ IsFiniteSet(Recent(r) \cup {r})
        /\ Cardinality(Recent(r) \cup {r}) \in {Cardinality(Recent(r)), Cardinality(Recent(r)) + 1}
    BY <1>2, FS_AddElement
  <2> QED
    BY <2>1, <2>2, LimitIsNatural
<1>5. RateTypeOK'
  BY <1>1, <1>2, <1>3 DEF RateInv, RateTypeOK, Verdicts
<1>6. StampsOK'
  <2>1. \A q \in Requests : verdict'[q] # "none" => asker'[q] \in Users
    BY <1>1, <1>3 DEF RateInv, RateTypeOK, StampsOK
  <2>2. \A v \in Users : IsFiniteSet(bcRate'[v])
    BY <1>1, <1>3, <1>4 DEF RateInv, RateTypeOK, StampsOK
  <2> QED
    BY <2>1, <2>2 DEF StampsOK
<1>7. ASSUME NEW v \in Users
      PROVE  /\ \A q \in Admitted(v)' \ bcRate'[v] :
                    \E s \in Admitted(v)' : now[s] - now[q] >= Hour
             /\ Cardinality(bcRate'[v]) <= MaxPerHour
  <2>1. Admitted(v) \subseteq Admitted(v)' /\ Admitted(v)' \subseteq Admitted(v) \cup {r}
    BY <1>3 DEF RateInv, RateTypeOK, Admitted
  <2>2. r \in Admitted(v)' <=> v = u
    BY <1>3 DEF RateInv, RateTypeOK, Admitted
  <2>3. /\ \A q \in Admitted(v) \ bcRate[v] : \E s \in Admitted(v) : now[s] - now[q] >= Hour
        /\ Cardinality(bcRate[v]) <= MaxPerHour
    BY DEF RateInv, WindowOK
  <2>4. CASE v # u
    <3>1. bcRate'[v] = bcRate[v] /\ Admitted(v)' = Admitted(v)
      BY <1>1, <1>3, <2>1, <2>2, <2>4 DEF RateInv, RateTypeOK
    <3> QED
      BY <2>3, <3>1
  <2>5. CASE v = u
    <3>1. bcRate'[v] = Recent(r) \cup {r}
      BY <1>1, <1>3, <2>5 DEF RateInv, RateTypeOK
    <3>2. ASSUME NEW q \in Admitted(v)' \ bcRate'[v]
          PROVE  \E s \in Admitted(v)' : now[s] - now[q] >= Hour
      <4>1. q \in Admitted(v) /\ q \notin Recent(r)
        BY <2>1, <3>1, <3>2
      <4>2. CASE q \notin bcRate[v]
        BY <2>1, <2>3, <4>1, <4>2
      <4>3. CASE q \in bcRate[v]
        <5>1. ~(now[r] - now[q] < Hour)
          BY <2>5, <4>1, <4>3 DEF Recent
        <5>2. now[r] \in Nat /\ now[q] \in Nat
          BY <4>1 DEF RateInv, RateTypeOK, Admitted
        <5> QED
          BY <2>2, <2>5, <5>1, <5>2, HourIsNatural
      <4> QED
        BY <4>2, <4>3
    <3> QED
      BY <1>4, <3>1, <3>2
  <2> QED
    BY <2>4, <2>5
<1>8. WindowOK'
  BY <1>7 DEF WindowOK
<1> QED
  BY <1>5, <1>6, <1>8

\* An hour that an admission in order enters is the hour up to the latest
\* stamp; a late admission enters none.
LEMMA AdmitKeepsHours ==
    ASSUME RateInv, NEW r \in Requests, verdict[r] = "asking", Admit(r),
           RateTypeOK', StampsOK', WindowOK', UNCHANGED <<clock, now, asker>>
    PROVE  InOrderOK'
<1> DEFINE u == asker[r]
<1>1. u \in Users
  BY DEF RateInv, StampsOK
<1>2. /\ verdict' = [verdict EXCEPT ![r] = "yes"]
      /\ late' = late \cup {q \in {r} : Overtaken(r)}
  BY DEF Admit
<1>3. ASSUME NEW v PROVE Admitted(v)' \subseteq Admitted(v) \cup {r}
  BY <1>2 DEF RateInv, RateTypeOK, Admitted
<1>4. ASSUME NEW s \in Requests PROVE HourUpTo(s)' \subseteq HourUpTo(s) \cup {r}
  BY <1>2 DEF RateInv, RateTypeOK, HourUpTo, Admitted
<1> SUFFICES ASSUME NEW s \in Requests, s \notin late', verdict'[s] = "yes"
    PROVE  /\ IsFiniteSet(HourUpTo(s)' \ late')
           /\ Cardinality(HourUpTo(s)' \ late') <= MaxPerHour
  BY DEF InOrderOK
<1> DEFINE H == HourUpTo(s)' \ late'
<1>5. CASE r \in H
  <2>1. /\ ~Overtaken(r) /\ asker[s] = u /\ now[r] <= now[s]
        /\ r \in Requests
    BY <1>2, <1>5 DEF HourUpTo, Admitted
  <2>2. \A q \in Admitted(u)' : now[q] <= now[r]
    <3> SUFFICES ASSUME NEW q \in Admitted(u)' PROVE now[q] <= now[r]
      OBVIOUS
    <3>1. q \in Admitted(u) \cup {r} /\ now[q] \in Nat /\ now[r] \in Nat
      BY <1>3 DEF RateInv, RateTypeOK, Admitted
    <3> QED
      BY <2>1, <3>1 DEF Overtaken
  <2>3. s \in Admitted(u)' /\ now[s] \in Nat /\ now[r] \in Nat
    BY <2>1 DEF Admitted, RateInv, RateTypeOK
  <2>4. now[s] = now[r]
    BY <2>1, <2>2, <2>3
  <2>5. HourUpTo(s)' \subseteq bcRate'[u]
    <3>1. \A q \in Admitted(asker[s])' : now'[q] <= now'[s]
      BY <2>1, <2>2, <2>4
    <3>2. ASSUME RateTypeOK', WindowOK', s \in Requests, verdict'[s] = "yes", asker'[s] \in Users,
                 \A q \in Admitted(asker[s])' : now'[q] <= now'[s]
          PROVE  HourUpTo(s)' \subseteq bcRate'[asker'[s]]
      <4> SUFFICES ASSUME NEW q \in HourUpTo(s)', q \notin bcRate'[asker'[s]] PROVE FALSE
        OBVIOUS
      <4>1. q \in Admitted(asker[s])' /\ now'[s] - now'[q] < Hour
        BY DEF HourUpTo
      <4>2. PICK p \in Admitted(asker[s])' : now'[p] - now'[q] >= Hour
        BY <3>2, <4>1 DEF WindowOK
      <4>3. now'[p] <= now'[s] /\ now'[p] \in Nat /\ now'[q] \in Nat /\ now'[s] \in Nat
        BY <3>2, <4>1, <4>2 DEF RateTypeOK, Admitted
      <4> QED
        BY <4>1, <4>2, <4>3, HourIsNatural
    <3> QED
      BY <1>1, <2>1, <3>1, <3>2
  <2>6. IsFiniteSet(bcRate'[u]) /\ Cardinality(bcRate'[u]) <= MaxPerHour
    BY <1>1 DEF StampsOK, WindowOK
  <2>7. H \subseteq bcRate'[u]
    BY <2>5
  <2>8. IsFiniteSet(H) /\ Cardinality(H) <= Cardinality(bcRate'[u])
    BY <2>6, <2>7, FS_Subset
  <2>9. Cardinality(H) \in Nat /\ Cardinality(bcRate'[u]) \in Nat
    BY <2>6, <2>8, FS_CardinalityType
  <2> QED
    BY <2>6, <2>8, <2>9, LimitIsNatural
<1>6. CASE Hour = 0
  <2>1. \A q \in Admitted(asker[s])' : now'[q] \in Nat /\ now'[s] \in Nat
    BY DEF RateTypeOK, Admitted
  <2>2. HourUpTo(s)' = {}
    BY <1>6, <2>1 DEF HourUpTo
  <2> QED
    BY <2>2, FS_EmptySet, LimitIsNatural
<1>7. CASE r \notin H /\ Hour # 0
  <2>1. s # r
    <3> SUFFICES ASSUME s = r PROVE FALSE
      OBVIOUS
    <3>1. now[r] \in Nat /\ now[r] - now[r] < Hour
      BY <1>7, HourIsNatural DEF RateInv, RateTypeOK
    <3>2. r \in Admitted(u)'
      BY <1>2 DEF RateInv, RateTypeOK, Admitted
    <3> QED
      BY <1>7, <3>1, <3>2 DEF HourUpTo
  <2>2. s \in Requests \ late /\ verdict[s] = "yes"
    BY <1>2, <2>1 DEF RateInv, RateTypeOK
  <2>3. H \subseteq HourUpTo(s) \ late
    BY <1>2, <1>4, <1>7
  <2>4. IsFiniteSet(HourUpTo(s) \ late) /\ Cardinality(HourUpTo(s) \ late) <= MaxPerHour
    BY <2>2 DEF RateInv, InOrderOK
  <2>5. IsFiniteSet(H) /\ Cardinality(H) <= Cardinality(HourUpTo(s) \ late)
    BY <2>3, <2>4, FS_Subset
  <2>6. Cardinality(H) \in Nat /\ Cardinality(HourUpTo(s) \ late) \in Nat
    BY <2>4, <2>5, FS_CardinalityType
  <2> QED
    BY <2>4, <2>5, <2>6, LimitIsNatural
<1> QED
  BY <1>5, <1>6, <1>7

LEMMA DecideKeeps ==
    ASSUME RateInv, NEW r \in Requests, Decide(r)
    PROVE  RateInv'
<1>1. verdict[r] = "asking" /\ UNCHANGED <<clock, now, asker>>
  BY DEF Decide
<1>2. CASE Cardinality(Recent(r)) < MaxPerHour
  <2>1. Admit(r)
    BY <1>2 DEF Decide
  <2>2. RateTypeOK' /\ StampsOK' /\ WindowOK'
    BY <1>1, <1>2, <2>1, AdmitKeepsList
  <2>3. InOrderOK'
    BY <1>1, <2>1, <2>2, AdmitKeepsHours
  <2> QED
    BY <2>2, <2>3 DEF RateInv
<1>3. CASE ~(Cardinality(Recent(r)) < MaxPerHour)
  <2>1. Refuse(r)
    BY <1>3 DEF Decide
  <2> QED
    BY <1>1, <2>1, RefuseKeeps
<1> QED
  BY <1>2, <1>3

\* Every step keeps the invariant.
LEMMA RateStep == RateInv /\ [NextRate]_rateVars => RateInv'
<1> SUFFICES ASSUME RateInv, [NextRate]_rateVars PROVE RateInv'
  OBVIOUS
<1>1. CASE NextRate
  BY <1>1, ReadClockKeeps, RateTickKeeps, DecideKeeps DEF NextRate
<1>2. CASE UNCHANGED rateVars
  BY <1>2 DEF rateVars, RateInv, RateTypeOK, StampsOK, WindowOK, InOrderOK, HourUpTo, Admitted
<1> QED
  BY <1>1, <1>2

LEMMA RateInvariance == RateSpec => []RateInv
BY RateInitially, RateStep, PTL DEF RateSpec

LEMMA ListBounds == RateInv => RateBounded
<1> SUFFICES ASSUME RateInv, NEW s \in Requests, verdict[s] = "yes"
    PROVE  /\ s \notin late => Cardinality(HourUpTo(s) \ late) <= MaxPerHour
           /\ (\A q \in Admitted(asker[s]) : now[q] <= now[s])
                 => Cardinality(HourUpTo(s)) <= MaxPerHour
  BY DEF RateBounded
<1>1. s \notin late => Cardinality(HourUpTo(s) \ late) <= MaxPerHour
  BY DEF RateInv, InOrderOK
<1>2. ASSUME \A q \in Admitted(asker[s]) : now[q] <= now[s]
      PROVE  Cardinality(HourUpTo(s)) <= MaxPerHour
  <2> DEFINE list == bcRate[asker[s]]
  <2>1. asker[s] \in Users
    BY DEF RateInv, StampsOK
  <2>2. HourUpTo(s) \subseteq list
    BY <1>2, <2>1, LatestHourIsListed DEF RateInv
  <2>3. IsFiniteSet(list) /\ Cardinality(list) <= MaxPerHour
    BY <2>1 DEF RateInv, StampsOK, WindowOK
  <2>4. IsFiniteSet(HourUpTo(s)) /\ Cardinality(HourUpTo(s)) <= Cardinality(list)
    BY <2>2, <2>3, FS_Subset
  <2>5. Cardinality(HourUpTo(s)) \in Nat /\ Cardinality(list) \in Nat
    BY <2>3, <2>4, FS_CardinalityType
  <2> QED
    BY <2>3, <2>4, <2>5, LimitIsNatural
<1> QED
  BY <1>1, <1>2

\* Within one process no hour holds more than the limit of the stamps that
\* were admitted in order, and the hour up to the latest stamp no more than
\* the limit of all, in whichever order the requests reach the lock
\* (routes.py: _blockchain_rate_ok).
THEOREM RateIsBounded == RateSpec => []RateBounded
BY RateInvariance, ListBounds, PTL
=============================================================================
