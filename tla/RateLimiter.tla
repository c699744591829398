---------------------------- MODULE RateLimiter ----------------------------
(* The sliding window over on-chain records that one server process keeps  *)
(* for each user (routes.py: _bc_rate, _blockchain_rate_ok).  The list of  *)
(* times is the set of the requests that were stamped with them.  A        *)
(* request reads the clock before it takes _bc_rate_lock, so that requests *)
(* of several threads reach the lock in an order other than that of their  *)
(* stamps.                                                                 *)
EXTENDS Integers, FiniteSets

CONSTANTS
    Users,
    Requests,
    MaxPerHour,     \* max_per_hour, 10 in the code
    Hour,           \* the length of the window, 3600 in the code
    MaxTime,        \* the clock stops here: a bound of the model
    None

ASSUME LimitIsNatural == MaxPerHour \in Nat
ASSUME HourIsNatural == Hour \in Nat
ASSUME NoUserIsNone == None \notin Users

VARIABLES
    clock,          \* time.monotonic()
    bcRate,         \* _bc_rate: for each user the admitted requests on its list
    now,            \* the stamp of each request
    asker,          \* the user of a request that was stamped
    verdict,        \* what _blockchain_rate_ok answered
    late            \* history: admitted with a stamp below one already admitted

rateVars == <<clock, bcRate, now, asker, verdict, late>>

Verdicts == {"none", "asking", "yes", "no"}

RateTypeOK ==
    /\ clock \in Nat
    /\ bcRate \in [Users -> SUBSET Requests]
    /\ now \in [Requests -> Nat]
    /\ asker \in [Requests -> Users \cup {None}]
    /\ verdict \in [Requests -> Verdicts]
    /\ late \subseteq Requests

InitRate ==
    /\ clock = 0
    /\ bcRate = [u \in Users |-> {}]
    /\ now = [r \in Requests |-> 0]
    /\ asker = [r \in Requests |-> None]
    /\ verdict = [r \in Requests |-> "none"]
    /\ late = {}

-----------------------------------------------------------------------------

\* now = time.monotonic(), before the lock.
ReadClock(r, u) ==
    /\ verdict[r] = "none"
    /\ now' = [now EXCEPT ![r] = clock]
    /\ asker' = [asker EXCEPT ![r] = u]
    /\ verdict' = [verdict EXCEPT ![r] = "asking"]
    /\ UNCHANGED <<clock, bcRate, late>>

\* The requests of a user that may start a recording thread.
Admitted(u) == {r \in Requests : verdict[r] = "yes" /\ asker[r] = u}

Overtaken(r) == \E q \in Admitted(asker[r]) : now[q] > now[r]

\* Mutant: a late request also drops the stamps after its own.
RecentUpToNow(r) ==
    {q \in bcRate[asker[r]] : now[q] <= now[r] /\ now[r] - now[q] < Hour}

Recent(r) == {q \in bcRate[asker[r]] : now[r] - now[q] < Hour}

Admit(r) ==
    /\ verdict' = [verdict EXCEPT ![r] = "yes"]
    /\ bcRate' = [bcRate EXCEPT ![asker[r]] = Recent(r) \cup {r}]
    /\ late' = late \cup {q \in {r} : Overtaken(r)}

\* A refusal leaves the list as it was.
Refuse(r) ==
    /\ verdict' = [verdict EXCEPT ![r] = "no"]
    /\ UNCHANGED <<bcRate, late>>

\* The block under _bc_rate_lock.
Decide(r) ==
    /\ verdict[r] = "asking"
    /\ IF Cardinality(Recent(r)) < MaxPerHour THEN Admit(r) ELSE Refuse(r)
    /\ UNCHANGED <<clock, now, asker>>

RateTick ==
    /\ clock < MaxTime
    /\ clock' = clock + 1
    /\ UNCHANGED <<bcRate, now, asker, verdict, late>>

NextRate ==
    \/ \E r \in Requests : Decide(r) \/ \E u \in Users : ReadClock(r, u)
    \/ RateTick

RateSpec == InitRate /\ [][NextRate]_rateVars

-----------------------------------------------------------------------------

\* The hour that ends at a stamp.
HourUpTo(s) ==
    {r \in Admitted(asker[s]) : now[r] <= now[s] /\ now[s] - now[r] < Hour}

\* "max 10 on-chain records per hour per user" (routes.py:13), for one
\* process and as far as the code keeps it.  However late the requests reach
\* the lock, no hour whatsoever holds more than the limit of the stamps that
\* were admitted in order; and the hour that ends at the latest admitted
\* stamp, hence also the hour up to now, holds no more than the limit of all
\* of them.  An earlier hour can exceed it by its late ones: with ten stamps
\* at 0, one at 3600 clears the list, and one at 3599.999 that reaches the
\* lock after it is the eleventh of its hour.
RateBounded ==
    \A s \in Requests : verdict[s] = "yes" =>
        /\ s \notin late => Cardinality(HourUpTo(s) \ late) <= MaxPerHour
        /\ (\A q \in Admitted(asker[s]) : now[q] <= now[s])
              => Cardinality(HourUpTo(s)) <= MaxPerHour

\* What makes it inductive: a stamp that is missing from the list lies an hour
\* behind an admitted one, and the list holds no more than the limit.
WindowOK ==
    \A u \in Users :
        /\ \A q \in Admitted(u) \ bcRate[u] : \E s \in Admitted(u) : now[s] - now[q] >= Hour
        /\ Cardinality(bcRate[u]) <= MaxPerHour
=============================================================================
