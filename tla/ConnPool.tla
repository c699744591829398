------------------------------ MODULE ConnPool ------------------------------
(* The connections of one server process: get_conn and close_conn (db.py)  *)
(* over psycopg2's SimpleConnectionPool, which does no locking and is      *)
(* shared by the request threads and the recording threads.  A thread may  *)
(* lose the interpreter lock at every call, and does at every network      *)
(* call; each action below is what runs without such a point.              *)
(* The pool is external: its steps are modelled as db.py uses it.          *)
EXTENDS Integers, FiniteSets

CONSTANTS
    Threads,
    Conns,          \* names of connections, used again once closed
    MinConn,        \* minconn, 1 in the code: how many the pool keeps idle
    MaxConn,        \* maxconn, 10 in the code
    MaxDead,        \* how many dead connections the process meets at a time: a bound
    Nil

ASSUME NilIsNoThread == Nil \notin Threads
ASSUME NilIsNoConn == Nil \notin Conns
ASSUME PoolCanOpen == \E C \in SUBSET Conns : Cardinality(C) = MinConn

VARIABLES
    pool,           \* _pool: the idle connections
    used,           \* _used: who was given which connection
    rused,          \* _rused: the key that a connection is returned under
    txn,            \* the state of each connection and its transaction
    work,           \* the threads with uncommitted statements in it
    at,             \* what a thread does next
    held            \* the connection it holds (g.db_conn, then conn)

poolVars == <<pool, used, rused, txn, work, at, held>>

Places == {"idle", "start", "keying", "holding", "keep", "drop", "unkeying",
           "done", "failed"}
\* The thread may still use the connection it holds.
Owning == {"keying", "holding", "keep", "drop"}
TxnStates == {"closed", "idle", "open", "aborted", "dead"}

PoolTypeOK ==
    /\ pool \subseteq Conns
    /\ used \subseteq Threads \X Conns
    /\ rused \in [Conns -> Threads \cup {Nil}]
    /\ txn \in [Conns -> TxnStates]
    /\ work \in [Conns -> SUBSET Threads]
    /\ at \in [Threads -> Places]
    /\ held \in [Threads -> Conns \cup {Nil}]

\* init_db opens MinConn connections.
InitPool ==
    /\ pool = CHOOSE C \in SUBSET Conns : Cardinality(C) = MinConn
    /\ used = {}
    /\ rused = [c \in Conns |-> Nil]
    /\ txn = [c \in Conns |-> IF c \in pool THEN "idle" ELSE "closed"]
    /\ work = [c \in Conns |-> {}]
    /\ at = [t \in Threads |-> "idle"]
    /\ held = [t \in Threads |-> Nil]

-----------------------------------------------------------------------------

\* A request arrives, or a send starts its recording thread.
Start(t) ==
    /\ at[t] = "idle"
    /\ at' = [at EXCEPT ![t] = "start"]
    /\ UNCHANGED <<pool, used, rused, txn, work, held>>

\* The thread ends without a statement of its own.
Skip(t) ==
    /\ at[t] = "start"
    /\ at' = [at EXCEPT ![t] = "done"]
    /\ UNCHANGED <<pool, used, rused, txn, work, held>>

Fails(t) ==
    /\ at' = [at EXCEPT ![t] = "failed"]
    /\ held' = [held EXCEPT ![t] = Nil]

\* Mutant: the connection stays in the pool while a thread has it.
TakeIdleShared(t) ==
    /\ at[t] = "start"
    /\ \E c \in pool : held' = [held EXCEPT ![t] = c]
    /\ at' = [at EXCEPT ![t] = "keying"]
    /\ UNCHANGED <<pool, used, rused, txn, work>>

\* getconn, as far as the connection: an idle one, or a new one while fewer
\* than MaxConn are on the books; the code compares with ==.
TakeIdle(t) ==
    /\ at[t] = "start"
    /\ \E c \in pool :
        /\ pool' = pool \ {c}
        /\ held' = [held EXCEPT ![t] = c]
    /\ at' = [at EXCEPT ![t] = "keying"]
    /\ UNCHANGED <<used, rused, txn, work>>

Unused == {c \in Conns : txn[c] = "closed" /\ \A t \in Threads : <<t, c>> \notin used}

Connect(t) ==
    /\ at[t] = "start"
    /\ pool = {}
    /\ Cardinality(used) # MaxConn
    /\ Unused # {}
    /\ LET c == CHOOSE c \in Unused : TRUE
       IN  /\ held' = [held EXCEPT ![t] = c]
           /\ txn' = [txn EXCEPT ![c] = "idle"]
    /\ at' = [at EXCEPT ![t] = "keying"]
    /\ UNCHANGED <<pool, used, rused, work>>

\* Mutant: a thread asks again and again while the pool is exhausted.
RefusedRetrying(t) ==
    /\ at[t] = "start"
    /\ pool = {}
    /\ \/ Cardinality(used) # MaxConn /\ Fails(t)
       \/ Cardinality(used) = MaxConn /\ UNCHANGED <<at, held>>
    /\ UNCHANGED <<pool, used, rused, txn, work>>

\* No connection: the pool is exhausted (PoolError), or the database cannot
\* be reached.  The caller answers 500, store_blockchain_record gives up.
Refused(t) ==
    /\ at[t] = "start"
    /\ pool = {}
    /\ Fails(t)
    /\ UNCHANGED <<pool, used, rused, txn, work>>

\* Mutant: key and connection change places.
KeySwapped(t) ==
    /\ at[t] = "keying"
    /\ used' = used \cup {<<held[t], t>>}
    /\ rused' = [rused EXCEPT ![held[t]] = t]
    /\ at' = [at EXCEPT ![t] = "holding"]
    /\ UNCHANGED <<pool, txn, work, held>>

\* getconn, the books: _used[key] and _rused[id(conn)].
Key(t) ==
    /\ at[t] = "keying"
    /\ used' = used \cup {<<t, held[t]>>}
    /\ rused' = [rused EXCEPT ![held[t]] = t]
    /\ at' = [at EXCEPT ![t] = "holding"]
    /\ UNCHANGED <<pool, txn, work, held>>

\* A statement opens a transaction or adds to it; one that raises aborts it.
\* On an aborted transaction or a dead connection every statement raises.
Statement(t) ==
    /\ at[t] = "holding"
    /\ txn[held[t]] \in {"idle", "open"}
    /\ \/ txn' = [txn EXCEPT ![held[t]] = "open"]
       \/ txn' = [txn EXCEPT ![held[t]] = "aborted"]
    /\ work' = [work EXCEPT ![held[t]] = @ \cup {t}]
    /\ UNCHANGED <<pool, used, rused, at, held>>

Returnable(t) == at[t] = "holding" /\ txn[held[t]] \in {"open", "aborted"}

\* The transaction ends, and putconn makes its tests: a connection whose key
\* is gone is refused, and an idle one is kept while the pool has fewer than
\* MinConn.
EndAndPut(t) ==
    /\ txn' = [txn EXCEPT ![held[t]] = "idle"]
    /\ work' = [work EXCEPT ![held[t]] = {}]
    /\ \/ rused[held[t]] = Nil /\ Fails(t)
       \/ /\ rused[held[t]] # Nil
          /\ at' = [at EXCEPT ![t] =
                        IF Cardinality(pool) < MinConn THEN "keep" ELSE "drop"]
          /\ UNCHANGED held
    /\ UNCHANGED <<pool, used, rused>>

\* Mutant: putconn is not reached after a failed statement.
CloseConnForgetting(t) ==
    /\ Returnable(t)
    /\ \/ txn[held[t]] = "open" /\ EndAndPut(t)
       \/ /\ txn[held[t]] = "aborted"
          /\ txn' = [txn EXCEPT ![held[t]] = "idle"]
          /\ work' = [work EXCEPT ![held[t]] = {}]
          /\ Fails(t)
          /\ UNCHANGED <<pool, used, rused>>

\* close_conn, after at least one statement.  Flask's teardown passes the
\* exception only if no error handler took it, and then the transaction is
\* rolled back; in every other case it is committed, which rolls an aborted
\* one back.
CloseConn(t) == Returnable(t) /\ EndAndPut(t)

\* On a dead connection commit and rollback raise, and putconn is never
\* called.
CloseConnRaises(t) ==
    /\ at[t] = "holding"
    /\ txn[held[t]] = "dead"
    /\ Fails(t)
    /\ UNCHANGED <<pool, used, rused, txn, work>>

\* Back into the pool.  A connection lost since its commit looks idle to the
\* client library, and is kept too.
Keep(t) ==
    /\ at[t] = "keep"
    /\ pool' = pool \cup {held[t]}
    /\ at' = [at EXCEPT ![t] = "unkeying"]
    /\ UNCHANGED <<used, rused, txn, work, held>>

\* putconn, the books: its own entry of _used, and the entry of _rused of the
\* connection, which a thread that took it meanwhile may have written, or
\* even deleted: a KeyError.
ClearKeys(t) ==
    /\ used' = used \ {<<t, held[t]>>}
    /\ rused' = [rused EXCEPT ![held[t]] = Nil]
    /\ at' = [at EXCEPT ![t] = IF rused[held[t]] = Nil THEN "failed" ELSE "done"]
    /\ held' = [held EXCEPT ![t] = Nil]
    /\ UNCHANGED <<pool, work>>

Unkey(t) == at[t] = "unkeying" /\ ClearKeys(t) /\ UNCHANGED txn

Drop(t) ==
    /\ at[t] = "drop"
    /\ txn' = [txn EXCEPT ![held[t]] = "closed"]
    /\ ClearKeys(t)

\* The server closes a connection, or the network loses it.
Sever(c) ==
    /\ Cardinality({d \in Conns : txn[d] = "dead"}) < MaxDead
    /\ txn[c] \in {"idle", "open", "aborted"}
    /\ txn' = [txn EXCEPT ![c] = "dead"]
    /\ work' = [work EXCEPT ![c] = {}]
    /\ UNCHANGED <<pool, used, rused, at, held>>

NextPool ==
    \/ \E t \in Threads :
        \/ Start(t) \/ Skip(t) \/ TakeIdle(t) \/ Connect(t) \/ Refused(t) \/ Key(t)
        \/ Statement(t) \/ CloseConn(t) \/ CloseConnRaises(t)
        \/ Keep(t) \/ Drop(t) \/ Unkey(t)
    \/ \E c \in Conns : Sever(c)

PoolSpec == InitPool /\ [][NextPool]_poolVars

-----------------------------------------------------------------------------

\* A connection is in the hands of one thread at a time and never in the pool
\* meanwhile, whatever order the threads run in; and the uncommitted
\* statements in it are those of that thread, so that no commit makes the
\* half-done work of another permanent.
OneHolder ==
    /\ \A t \in Threads : at[t] \in Owning =>
        /\ held[t] \notin pool
        /\ work[held[t]] \subseteq {t}
        /\ \A s \in Threads \ {t} : at[s] \in Owning => held[s] # held[t]
    /\ \A c \in pool : work[c] = {}

Busy(t, c) == held[t] = c /\ at[t] \in Owning \cup {"unkeying"}

\* A slot of the pool is lost only in two ways: the commit raised because the
\* connection was dead, or the key of a live one was deleted by the thread
\* that had returned it before.  No failed statement, refusal or rollback
\* costs a slot.
LeaksExplained ==
    \A t \in Threads, c \in Conns :
        <<t, c>> \in used /\ ~Busy(t, c) => txn[c] = "dead" \/ rused[c] = Nil
=============================================================================
