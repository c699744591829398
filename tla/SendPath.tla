------------------------------ MODULE SendPath ------------------------------
(* One server process: requests that send messages, each with a thread of  *)
(* its own, the rate limit that decides whether a recording thread is      *)
(* started, and the connection pool that all these threads share           *)
(* (routes.py: send_message, _record_and_store; db.py).                    *)
EXTENDS RateLimiter, ConnPool

VARIABLE step       \* of the handler of each request

sendVars == <<rateVars, poolVars, step>>

Handler(r) == <<r, "request">>
Recorder(r) == <<r, "recorder">>

\* The threads of the process, for the constant Threads.
SendThreads == Requests \X {"request", "recorder"}

ASSUME ThreadsOfRequests == Threads = SendThreads

Steps == {"queries", "limit", "launch", "over"}

SendTypeOK == RateTypeOK /\ PoolTypeOK /\ step \in [Requests -> Steps]

Init == InitRate /\ InitPool /\ step = [r \in Requests |-> "queries"]

-----------------------------------------------------------------------------

Receive(r) ==
    /\ step[r] = "queries"
    /\ Start(Handler(r))
    /\ UNCHANGED <<rateVars, step>>

\* The INSERT has succeeded, after the denylist lookup and the lookup of the
\* recipient, and the body has a content_hash.
Stored(r) ==
    /\ step[r] = "queries"
    /\ at[Handler(r)] = "holding"
    /\ txn[held[Handler(r)]] = "open"
    /\ \E u \in Users : ReadClock(r, u)
    /\ step' = [step EXCEPT ![r] = "limit"]
    /\ UNCHANGED poolVars

Limit(r) ==
    /\ Decide(r)
    /\ step' = [step EXCEPT ![r] = IF verdict'[r] = "yes" THEN "launch" ELSE "over"]
    /\ UNCHANGED poolVars

\* threading.Thread(...).start().
Launch(r) ==
    /\ step[r] = "launch"
    /\ Start(Recorder(r))
    /\ step' = [step EXCEPT ![r] = "over"]
    /\ UNCHANGED rateVars

\* start() raises: the process is out of threads.  The answer is 500.
LaunchFails(r) ==
    /\ step[r] = "launch"
    /\ step' = [step EXCEPT ![r] = "over"]
    /\ UNCHANGED <<rateVars, poolVars>>

\* Pool steps of a thread; a handler that waits for the limit runs no
\* statement, and ends its request only from "queries" or "over".
PoolStep(t) ==
    \/ TakeIdle(t) \/ Connect(t) \/ Refused(t) \/ Key(t)
    \/ Keep(t) \/ Drop(t) \/ Unkey(t)

HandlerStep(r) ==
    /\ \/ PoolStep(Handler(r))
       \/ step[r] = "queries" /\ Statement(Handler(r))
       \/ step[r] \in {"queries", "over"}
            /\ (CloseConn(Handler(r)) \/ CloseConnRaises(Handler(r)))
    /\ UNCHANGED <<rateVars, step>>

\* record_digest returns None, or a hash that store_blockchain_record writes
\* on a connection of this thread.
RecorderStep(r) ==
    LET t == Recorder(r)
    IN  /\ PoolStep(t) \/ Skip(t) \/ Statement(t) \/ CloseConn(t) \/ CloseConnRaises(t)
        /\ UNCHANGED <<rateVars, step>>

Tick == RateTick /\ UNCHANGED <<poolVars, step>>

Lose(c) == Sever(c) /\ UNCHANGED <<rateVars, step>>

Work(r) ==
    Stored(r) \/ Limit(r) \/ Launch(r) \/ LaunchFails(r)
        \/ HandlerStep(r) \/ RecorderStep(r)

\* Every request has been answered and every thread has ended.
Quiet ==
    /\ \A t \in Threads : at[t] \in {"idle", "done", "failed"}
    /\ \A r \in Requests : at[Handler(r)] # "idle"

Next ==
    \/ \E r \in Requests : Receive(r) \/ Work(r)
    \/ Tick
    \/ \E c \in Conns : Lose(c)
    \/ Quiet /\ UNCHANGED sendVars

Spec == Init /\ [][Next]_sendVars

\* Each thread goes on: a call of the pool or the database returns or raises,
\* the lock of the rate limit is held for a few instructions only, and the
\* chain calls of a recorder end (ChainRecorder).  The environment is not fair.
FairSpec ==
    /\ Spec
    /\ \A r \in Requests :
        /\ WF_sendVars(Stored(r) \/ Limit(r) \/ Launch(r) \/ LaunchFails(r))
        /\ WF_sendVars(HandlerStep(r))
        /\ WF_sendVars(RecorderStep(r))

-----------------------------------------------------------------------------

\* Nobody waits for a connection: every thread that has begun ends, also when
\* the pool is exhausted for good by lost slots, because getconn then raises
\* instead of blocking; and holding a connection across the limit's lock and
\* the start of the recorder blocks no other thread.
EveryThreadEnds ==
    \A t \in Threads : at[t] = "start" ~> at[t] \in {"done", "failed"}
=============================================================================
