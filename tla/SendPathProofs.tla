--------------------------- MODULE SendPathProofs ---------------------------
(* The connection pool for every number of threads and connections, and    *)
(* what a server process inherits from its pool and its rate limit.        *)
EXTENDS SendPath, RateLimiterProofs

HeldOK ==
    \A t \in Threads : at[t] \in Owning \cup {"unkeying"} => held[t] \in Conns

\* A thread that uses a connection has it for itself, and has work in it only
\* between its first statement and its close.
OwnersOK ==
    \A t \in Threads : at[t] \in Owning =>
        /\ held[t] \notin pool
        /\ txn[held[t]] # "closed"
        /\ at[t] # "holding" => txn[held[t]] \in {"idle", "dead"}
        /\ work[held[t]] \subseteq {t}
        /\ \A s \in Threads \ {t} : at[s] \in Owning => held[s] # held[t]

\* Only a running transaction has uncommitted work; none runs in the pool.
WorkOK ==
    /\ \A c \in pool : txn[c] \in {"idle", "dead"}
    /\ \A c \in Conns : txn[c] \notin {"open", "aborted"} => work[c] = {}

\* A lost slot stays lost: nobody is given its connection again.
LostOK ==
    \A t \in Threads, c \in Conns :
        <<t, c>> \in used /\ ~Busy(t, c) =>
            /\ txn[c] = "dead" \/ rused[c] = Nil
            /\ c \notin pool
            /\ \A s \in Threads : at[s] \in Owning => held[s] # c

PoolInv == PoolTypeOK /\ HeldOK /\ OwnersOK /\ WorkOK /\ LostOK

LEMMA PoolInitially == InitPool => PoolInv
<1> SUFFICES ASSUME InitPool PROVE PoolInv
  OBVIOUS
<1>1. pool \subseteq Conns
  BY PoolCanOpen DEF InitPool
<1> QED
  BY <1>1 DEF InitPool, PoolInv, PoolTypeOK, HeldOK, OwnersOK, WorkOK, LostOK,
              Places, TxnStates, Owning

\* Starting and ending without a connection.
LEMMA NoConnectionKeeps ==
    ASSUME PoolInv, NEW t \in Threads, Start(t) \/ Skip(t) \/ Refused(t)
    PROVE  PoolInv'
<1>1. /\ UNCHANGED <<pool, used, rused, txn, work>>
      /\ at[t] \in {"idle", "start"}
      /\ at' \in {[at EXCEPT ![t] = p] : p \in {"start", "done", "failed"}}
      /\ \/ UNCHANGED held
         \/ held' = [held EXCEPT ![t] = Nil]
  BY DEF Start, Skip, Refused, Fails
<1>2. PoolTypeOK'
  BY <1>1 DEF PoolInv, PoolTypeOK, Places
<1>3. \A s \in Threads : at'[s] \in Owning \cup {"unkeying"} =>
          s # t /\ at'[s] = at[s] /\ held'[s] = held[s]
  BY <1>1 DEF PoolInv, PoolTypeOK, Owning
<1>4. \A s \in Threads, c \in Conns : Busy(s, c) => Busy(s, c)'
  BY <1>1 DEF PoolInv, PoolTypeOK, Owning, Busy
<1>5. HeldOK' /\ OwnersOK' /\ WorkOK'
  BY <1>1, <1>3 DEF PoolInv, HeldOK, OwnersOK, WorkOK, Owning
<1>6. LostOK'
  BY <1>1, <1>3, <1>4 DEF PoolInv, LostOK, Owning
<1> QED
  BY <1>2, <1>5, <1>6 DEF PoolInv

LEMMA TakeIdleKeeps ==
    ASSUME PoolInv, NEW t \in Threads, TakeIdle(t) PROVE PoolInv'
<1>1. PICK c \in pool : pool' = pool \ {c} /\ held' = [held EXCEPT ![t] = c]
  BY DEF TakeIdle
<1>2. /\ at[t] = "start" /\ at' = [at EXCEPT ![t] = "keying"]
      /\ UNCHANGED <<used, rused, txn, work>>
  BY DEF TakeIdle
<1>3. c \in Conns /\ txn[c] \in {"idle", "dead"} /\ work[c] = {}
  BY DEF PoolInv, PoolTypeOK, WorkOK
<1>4. PoolTypeOK'
  BY <1>1, <1>2, <1>3 DEF PoolInv, PoolTypeOK, Places
<1>5. \A s \in Threads \ {t} : at'[s] = at[s] /\ held'[s] = held[s]
  BY <1>1, <1>2 DEF PoolInv, PoolTypeOK
<1>6. at'[t] = "keying" /\ held'[t] = c
  BY <1>1, <1>2 DEF PoolInv, PoolTypeOK
<1>7. \A s \in Threads : at[s] \in Owning => held[s] # c
  BY DEF PoolInv, OwnersOK
<1>8. HeldOK' /\ OwnersOK' /\ WorkOK'
  BY <1>1, <1>2, <1>3, <1>5, <1>6, <1>7 DEF PoolInv, HeldOK, OwnersOK, WorkOK, Owning
<1>9. LostOK'
  BY <1>1, <1>2, <1>3, <1>5, <1>6 DEF PoolInv, LostOK, Busy, Owning
<1> QED
  BY <1>4, <1>8, <1>9 DEF PoolInv

LEMMA ConnectKeeps ==
    ASSUME PoolInv, NEW t \in Threads, Connect(t) PROVE PoolInv'
<1> DEFINE c == CHOOSE c \in Unused : TRUE
<1>1. /\ at[t] = "start" /\ at' = [at EXCEPT ![t] = "keying"]
      /\ held' = [held EXCEPT ![t] = c]
      /\ txn' = [txn EXCEPT ![c] = "idle"]
      /\ UNCHANGED <<pool, used, rused, work>>
  BY DEF Connect
<1>2. c \in Unused
  BY DEF Connect
<1>3. c \in Conns /\ txn[c] = "closed" /\ \A s \in Threads : <<s, c>> \notin used
  BY <1>2 DEF Unused
<1> HIDE DEF c
<1>4. work[c] = {} /\ c \notin pool
  BY <1>3 DEF PoolInv, WorkOK
<1>5. PoolTypeOK'
  BY <1>1, <1>3 DEF PoolInv, PoolTypeOK, Places, TxnStates
<1>6. \A s \in Threads \ {t} : at'[s] = at[s] /\ held'[s] = held[s]
  BY <1>1 DEF PoolInv, PoolTypeOK
<1>7. at'[t] = "keying" /\ held'[t] = c /\ txn'[c] = "idle"
  BY <1>1, <1>3 DEF PoolInv, PoolTypeOK
<1>8. \A d \in Conns : d # c => txn'[d] = txn[d]
  BY <1>1 DEF PoolInv, PoolTypeOK
<1>9. \A s \in Threads : at[s] \in Owning => held[s] # c /\ held[s] \in Conns
  BY <1>3 DEF PoolInv, OwnersOK, HeldOK
<1>10. HeldOK' /\ WorkOK'
  BY <1>1, <1>3, <1>4, <1>6, <1>7, <1>8 DEF PoolInv, PoolTypeOK, HeldOK, WorkOK, Owning
<1>11. OwnersOK'
  BY <1>1, <1>3, <1>4, <1>6, <1>7, <1>8, <1>9 DEF PoolInv, OwnersOK, Owning
<1>12. LostOK'
  BY <1>1, <1>3, <1>6, <1>7, <1>8 DEF PoolInv, LostOK, Busy, Owning
<1> QED
  BY <1>5, <1>10, <1>11, <1>12 DEF PoolInv

LEMMA KeyKeeps ==
    ASSUME PoolInv, NEW t \in Threads, Key(t) PROVE PoolInv'
<1>1. /\ at[t] = "keying" /\ at' = [at EXCEPT ![t] = "holding"]
      /\ used' = used \cup {<<t, held[t]>>}
      /\ rused' = [rused EXCEPT ![held[t]] = t]
      /\ UNCHANGED <<pool, txn, work, held>>
  BY DEF Key
<1>2. held[t] \in Conns
  BY <1>1 DEF PoolInv, HeldOK, Owning
<1>3. PoolTypeOK'
  BY <1>1, <1>2 DEF PoolInv, PoolTypeOK, Places
<1>4. \A s \in Threads : at[s] \in Owning <=> at'[s] \in Owning
  BY <1>1 DEF PoolInv, PoolTypeOK, Owning
<1>5. HeldOK' /\ OwnersOK' /\ WorkOK'
  BY <1>1, <1>4 DEF PoolInv, PoolTypeOK, HeldOK, OwnersOK, WorkOK, Owning
<1>6. \A s \in Threads, c \in Conns : Busy(s, c) <=> Busy(s, c)'
  BY <1>1 DEF PoolInv, PoolTypeOK, Owning, Busy
<1>7. Busy(t, held[t])
  BY <1>1 DEF Busy, Owning
<1>8. \A c \in Conns : c # held[t] => rused'[c] = rused[c]
  BY <1>1 DEF PoolInv, PoolTypeOK
<1>9. LostOK'
  <2> SUFFICES ASSUME NEW s \in Threads, NEW c \in Conns, <<s, c>> \in used', ~Busy(s, c)'
      PROVE  /\ txn'[c] = "dead" \/ rused'[c] = Nil
             /\ c \notin pool'
             /\ \A q \in Threads : at'[q] \in Owning => held'[q] # c
    BY DEF LostOK
  <2>1. ~Busy(s, c) /\ <<s, c>> \in used
    BY <1>1, <1>6, <1>7
  <2>2. c # held[t]
    BY <1>1, <2>1 DEF PoolInv, LostOK, Owning
  <2> QED
    BY <1>1, <1>4, <1>8, <2>1, <2>2 DEF PoolInv, LostOK
<1> QED
  BY <1>3, <1>5, <1>9 DEF PoolInv

LEMMA StatementKeeps ==
    ASSUME PoolInv, NEW t \in Threads, Statement(t) PROVE PoolInv'
<1>1. /\ at[t] = "holding" /\ txn[held[t]] \in {"idle", "open"}
      /\ \E x \in {"open", "aborted"} : txn' = [txn EXCEPT ![held[t]] = x]
      /\ work' = [work EXCEPT ![held[t]] = @ \cup {t}]
      /\ UNCHANGED <<pool, used, rused, at, held>>
  BY DEF Statement
<1>2. held[t] \in Conns /\ held[t] \notin pool
  BY <1>1 DEF PoolInv, HeldOK, OwnersOK, Owning
<1>3. /\ txn'[held[t]] \in {"open", "aborted"} /\ work'[held[t]] = work[held[t]] \cup {t}
      /\ \A c \in Conns : c # held[t] => txn'[c] = txn[c] /\ work'[c] = work[c]
  BY <1>1, <1>2 DEF PoolInv, PoolTypeOK
<1>4. PoolTypeOK'
  BY <1>1, <1>2 DEF PoolInv, PoolTypeOK, TxnStates
<1>5. HeldOK' /\ WorkOK'
  BY <1>1, <1>2, <1>3 DEF PoolInv, PoolTypeOK, HeldOK, WorkOK
<1>6. OwnersOK'
  <2> SUFFICES ASSUME NEW s \in Threads, at[s] \in Owning
      PROVE  /\ held[s] \notin pool
             /\ txn'[held[s]] # "closed"
             /\ at[s] # "holding" => txn'[held[s]] \in {"idle", "dead"}
             /\ work'[held[s]] \subseteq {s}
             /\ \A q \in Threads \ {s} : at[q] \in Owning => held[q] # held[s]
    BY <1>1 DEF OwnersOK
  <2>1. held[s] \in Conns
    BY DEF PoolInv, HeldOK
  <2>2. CASE s = t
    BY <1>1, <1>3, <2>2 DEF PoolInv, OwnersOK
  <2>3. CASE s # t
    <3>1. held[s] # held[t]
      BY <1>1, <2>3 DEF PoolInv, OwnersOK, Owning
    <3> QED
      BY <1>3, <2>1, <3>1 DEF PoolInv, OwnersOK
  <2> QED
    BY <2>2, <2>3
<1>7. LostOK'
  BY <1>1, <1>3 DEF PoolInv, LostOK, Busy, Owning
<1> QED
  BY <1>4, <1>5, <1>6, <1>7 DEF PoolInv

\* A thread lets go of a connection that is dead, or whose key is gone.
LEMMA LeakKeeps ==
    ASSUME PoolInv, NEW t \in Threads, at[t] = "holding",
           UNCHANGED <<pool, used, rused>>, Fails(t),
           txn'[held[t]] = "dead" \/ rused[held[t]] = Nil,
           txn' \in [Conns -> TxnStates], work' \in [Conns -> SUBSET Threads],
           txn'[held[t]] \notin {"open", "aborted"}, work'[held[t]] = {},
           \A c \in Conns \ {held[t]} : txn'[c] = txn[c] /\ work'[c] = work[c]
    PROVE  PoolInv'
<1>1. at' = [at EXCEPT ![t] = "failed"] /\ held' = [held EXCEPT ![t] = Nil]
  BY DEF Fails
<1>2. held[t] \in Conns /\ held[t] \notin pool
  BY DEF PoolInv, HeldOK, OwnersOK, Owning
<1>3. PoolTypeOK'
  BY <1>1 DEF PoolInv, PoolTypeOK, Places
<1>4. \A s \in Threads \ {t} : at'[s] = at[s] /\ held'[s] = held[s]
  BY <1>1 DEF PoolInv, PoolTypeOK
<1>5. at'[t] = "failed" /\ held'[t] = Nil
  BY <1>1 DEF PoolInv, PoolTypeOK
<1>6. \A s \in Threads : at'[s] \in Owning \cup {"unkeying"} => s # t
  BY <1>5 DEF Owning
<1>7. \A s \in Threads \ {t} : at[s] \in Owning => held[s] # held[t] /\ held[s] \in Conns
  BY DEF PoolInv, OwnersOK, HeldOK, Owning
<1>8. HeldOK' /\ WorkOK'
  BY <1>2, <1>4, <1>6 DEF PoolInv, PoolTypeOK, HeldOK, WorkOK
<1>9. OwnersOK'
  BY <1>4, <1>6, <1>7 DEF PoolInv, OwnersOK
<1>10. LostOK'
  <2> SUFFICES ASSUME NEW s \in Threads, NEW c \in Conns, <<s, c>> \in used, ~Busy(s, c)'
      PROVE  /\ txn'[c] = "dead" \/ rused[c] = Nil
             /\ c \notin pool
             /\ \A q \in Threads : at'[q] \in Owning => held'[q] # c
    BY DEF LostOK
  <2>1. CASE c = held[t]
    BY <1>2, <1>4, <1>6, <1>7, <2>1
  <2>2. CASE c # held[t]
    <3>1. ~Busy(s, c)
      BY <1>4, <2>2 DEF Busy
    <3> QED
      BY <1>4, <1>6, <2>2, <3>1 DEF PoolInv, LostOK
  <2> QED
    BY <2>1, <2>2
<1> QED
  BY <1>3, <1>8, <1>9, <1>10 DEF PoolInv

LEMMA CloseConnRaisesKeeps ==
    ASSUME PoolInv, NEW t \in Threads, CloseConnRaises(t) PROVE PoolInv'
<1>1. /\ at[t] = "holding" /\ txn[held[t]] = "dead" /\ Fails(t)
      /\ UNCHANGED <<pool, used, rused, txn, work>>
  BY DEF CloseConnRaises
<1>2. held[t] \in Conns
  BY <1>1 DEF PoolInv, HeldOK, Owning
<1>3. work[held[t]] = {}
  BY <1>1, <1>2 DEF PoolInv, WorkOK
<1> QED
  BY <1>1, <1>3, LeakKeeps DEF PoolInv, PoolTypeOK

LEMMA CloseConnKeeps ==
    ASSUME PoolInv, NEW t \in Threads, CloseConn(t) PROVE PoolInv'
<1>1. /\ at[t] = "holding"
      /\ txn' = [txn EXCEPT ![held[t]] = "idle"]
      /\ work' = [work EXCEPT ![held[t]] = {}]
      /\ UNCHANGED <<pool, used, rused>>
  BY DEF CloseConn, Returnable, EndAndPut
<1>2. held[t] \in Conns
  BY <1>1 DEF PoolInv, HeldOK, Owning
<1>3. /\ txn'[held[t]] = "idle" /\ work'[held[t]] = {}
      /\ \A c \in Conns \ {held[t]} : txn'[c] = txn[c] /\ work'[c] = work[c]
      /\ txn' \in [Conns -> TxnStates] /\ work' \in [Conns -> SUBSET Threads]
  BY <1>1, <1>2 DEF PoolInv, PoolTypeOK, TxnStates
<1>4. CASE rused[held[t]] = Nil
  <2>1. Fails(t)
    BY <1>4 DEF CloseConn, EndAndPut
  <2> QED
    BY <1>1, <1>3, <1>4, <2>1, LeakKeeps
<1>5. CASE rused[held[t]] # Nil
  <2>1. /\ held' = held
        /\ \E p \in {"keep", "drop"} : at' = [at EXCEPT ![t] = p]
    BY <1>5 DEF CloseConn, EndAndPut
  <2>2. PoolTypeOK'
    BY <1>1, <1>3, <2>1 DEF PoolInv, PoolTypeOK, Places
  <2>3. at'[t] \in {"keep", "drop"} /\ \A s \in Threads \ {t} : at'[s] = at[s]
    BY <2>1 DEF PoolInv, PoolTypeOK
  <2>4. \A s \in Threads : at[s] \in Owning <=> at'[s] \in Owning
    BY <1>1, <2>3 DEF Owning
  <2>5. HeldOK' /\ WorkOK'
    BY <1>1, <1>3, <2>1, <2>3, <2>4 DEF PoolInv, PoolTypeOK, HeldOK, WorkOK, OwnersOK, Owning
  <2>6. OwnersOK'
    <3> SUFFICES ASSUME NEW s \in Threads, at'[s] \in Owning
        PROVE  /\ held[s] \notin pool
               /\ txn'[held[s]] # "closed"
               /\ at'[s] # "holding" => txn'[held[s]] \in {"idle", "dead"}
               /\ work'[held[s]] \subseteq {s}
               /\ \A q \in Threads \ {s} : at[q] \in Owning => held[q] # held[s]
      BY <1>1, <2>1, <2>4 DEF OwnersOK
    <3>1. at[s] \in Owning /\ held[s] \in Conns
      BY <2>4 DEF PoolInv, HeldOK
    <3>2. CASE s = t
      BY <1>3, <3>1, <3>2 DEF PoolInv, OwnersOK
    <3>3. CASE s # t
      <4>1. held[s] # held[t]
        BY <1>1, <3>1, <3>3 DEF PoolInv, OwnersOK, Owning
      <4> QED
        BY <1>3, <2>3, <3>1, <3>3, <4>1 DEF PoolInv, OwnersOK
    <3> QED
      BY <3>2, <3>3
  <2>7. \A s \in Threads, c \in Conns : Busy(s, c) <=> Busy(s, c)'
    BY <1>1, <2>1, <2>3, <2>4 DEF Busy, Owning
  <2>8. \A s \in Threads, c \in Conns : <<s, c>> \in used /\ ~Busy(s, c) => c # held[t]
    BY <1>1 DEF PoolInv, LostOK, Owning
  <2>9. LostOK'
    BY <1>1, <1>3, <2>1, <2>4, <2>7, <2>8 DEF PoolInv, LostOK
  <2> QED
    BY <2>2, <2>5, <2>6, <2>9 DEF PoolInv
<1> QED
  BY <1>4, <1>5

LEMMA KeepKeeps ==
    ASSUME PoolInv, NEW t \in Threads, Keep(t) PROVE PoolInv'
<1>1. /\ at[t] = "keep" /\ at' = [at EXCEPT ![t] = "unkeying"]
      /\ pool' = pool \cup {held[t]}
      /\ UNCHANGED <<used, rused, txn, work, held>>
  BY DEF Keep
<1>2. held[t] \in Conns /\ txn[held[t]] \in {"idle", "dead"}
  BY <1>1 DEF PoolInv, HeldOK, OwnersOK, Owning
<1>3. PoolTypeOK'
  BY <1>1, <1>2 DEF PoolInv, PoolTypeOK, Places
<1>4. at'[t] = "unkeying" /\ \A s \in Threads \ {t} : at'[s] = at[s]
  BY <1>1 DEF PoolInv, PoolTypeOK
<1>5. HeldOK' /\ WorkOK'
  BY <1>1, <1>2, <1>4 DEF PoolInv, HeldOK, WorkOK, Owning
<1>6. \A s \in Threads : at'[s] \in Owning => s # t /\ at[s] \in Owning /\ held[s] # held[t]
  BY <1>1, <1>4 DEF PoolInv, OwnersOK, Owning
<1>7. OwnersOK'
  BY <1>1, <1>4, <1>6 DEF PoolInv, OwnersOK
<1>8. \A s \in Threads, c \in Conns : Busy(s, c) <=> Busy(s, c)'
  BY <1>1, <1>4 DEF Busy, Owning
<1>9. \A s \in Threads, c \in Conns : <<s, c>> \in used /\ ~Busy(s, c) => c # held[t]
  BY <1>1 DEF PoolInv, LostOK, Owning
<1>10. LostOK'
  BY <1>1, <1>6, <1>8, <1>9 DEF PoolInv, LostOK
<1> QED
  BY <1>3, <1>5, <1>7, <1>10 DEF PoolInv

\* Unkey and Drop: the thread ends, and its entry leaves the books.
LEMMA ClearKeysKeeps ==
    ASSUME PoolInv, NEW t \in Threads, Unkey(t) \/ Drop(t) PROVE PoolInv'
<1>1. /\ used' = used \ {<<t, held[t]>>}
      /\ rused' = [rused EXCEPT ![held[t]] = Nil]
      /\ \E p \in {"failed", "done"} : at' = [at EXCEPT ![t] = p]
      /\ held' = [held EXCEPT ![t] = Nil]
      /\ UNCHANGED <<pool, work>>
      /\ at[t] \in {"unkeying", "drop"}
  BY DEF Unkey, Drop, ClearKeys
<1>2. held[t] \in Conns
  BY <1>1 DEF PoolInv, HeldOK, Owning
<1>3. \/ txn' = txn
      \/ at[t] = "drop" /\ txn' = [txn EXCEPT ![held[t]] = "closed"]
  BY DEF Unkey, Drop
<1>4. PoolTypeOK'
  BY <1>1, <1>2, <1>3 DEF PoolInv, PoolTypeOK, Places, TxnStates
<1>5. /\ at'[t] \in {"failed", "done"}
      /\ \A s \in Threads \ {t} : at'[s] = at[s] /\ held'[s] = held[s]
  BY <1>1 DEF PoolInv, PoolTypeOK
<1>6. \A s \in Threads : at'[s] \in Owning \cup {"unkeying"} => s # t
  BY <1>5 DEF Owning
<1>7. \A c \in Conns : txn'[c] = txn[c]
          \/ /\ c = held[t] /\ at[t] = "drop" /\ c \notin pool
             /\ txn[c] \in {"idle", "dead"}
             /\ \A s \in Threads \ {t} : at[s] \in Owning => held[s] # c
  BY <1>2, <1>3 DEF PoolInv, PoolTypeOK, OwnersOK, Owning
<1>8. HeldOK' /\ WorkOK'
  BY <1>1, <1>3, <1>5, <1>6, <1>7 DEF PoolInv, PoolTypeOK, HeldOK, WorkOK
<1>9. OwnersOK'
  <2> SUFFICES ASSUME NEW s \in Threads, at'[s] \in Owning
      PROVE  /\ held[s] \notin pool
             /\ txn'[held[s]] # "closed"
             /\ at[s] # "holding" => txn'[held[s]] \in {"idle", "dead"}
             /\ work[held[s]] \subseteq {s}
             /\ \A q \in Threads \ {s, t} : at[q] \in Owning => held[q] # held[s]
    BY <1>1, <1>5, <1>6 DEF OwnersOK
  <2>1. s # t /\ at[s] \in Owning /\ held[s] \in Conns
    BY <1>5, <1>6 DEF PoolInv, HeldOK
  <2>2. txn'[held[s]] = txn[held[s]]
    BY <1>7, <2>1
  <2> QED
    BY <2>1, <2>2 DEF PoolInv, OwnersOK
<1>10. LostOK'
  <2> SUFFICES ASSUME NEW s \in Threads, NEW c \in Conns, <<s, c>> \in used', ~Busy(s, c)'
      PROVE  /\ txn'[c] = "dead" \/ rused'[c] = Nil
             /\ c \notin pool
             /\ \A q \in Threads : at'[q] \in Owning => held'[q] # c
    BY <1>1 DEF LostOK
  <2>1. ~Busy(s, c) /\ <<s, c>> \in used
    BY <1>1, <1>5 DEF Busy
  <2>2. /\ txn[c] = "dead" \/ rused[c] = Nil
        /\ c \notin pool
        /\ \A q \in Threads : at[q] \in Owning => held[q] # c
    BY <2>1 DEF PoolInv, LostOK
  <2>3. txn'[c] = txn[c]
    BY <1>7, <2>2 DEF Owning
  <2>4. rused'[c] = rused[c] \/ rused'[c] = Nil
    BY <1>1 DEF PoolInv, PoolTypeOK
  <2> QED
    BY <1>5, <1>6, <2>2, <2>3, <2>4
<1> QED
  BY <1>4, <1>8, <1>9, <1>10 DEF PoolInv

LEMMA SeverKeeps ==
    ASSUME PoolInv, NEW c \in Conns, Sever(c) PROVE PoolInv'
<1>1. /\ txn[c] \in {"idle", "open", "aborted"}
      /\ txn' = [txn EXCEPT ![c] = "dead"]
      /\ work' = [work EXCEPT ![c] = {}]
      /\ UNCHANGED <<pool, used, rused, at, held>>
  BY DEF Sever
<1>2. /\ txn'[c] = "dead" /\ work'[c] = {}
      /\ \A d \in Conns : d # c => txn'[d] = txn[d] /\ work'[d] = work[d]
  BY <1>1 DEF PoolInv, PoolTypeOK
<1>3. PoolTypeOK'
  BY <1>1 DEF PoolInv, PoolTypeOK, TxnStates
<1>4. HeldOK' /\ WorkOK'
  BY <1>1, <1>2 DEF PoolInv, PoolTypeOK, HeldOK, WorkOK
<1>5. OwnersOK'
  BY <1>1, <1>2 DEF PoolInv, HeldOK, OwnersOK
<1>6. LostOK'
  BY <1>1, <1>2 DEF PoolInv, LostOK, Busy
<1> QED
  BY <1>3, <1>4, <1>5, <1>6 DEF PoolInv

LEMMA PoolStepKeeps == PoolInv /\ [NextPool]_poolVars => PoolInv'
<1> SUFFICES ASSUME PoolInv, [NextPool]_poolVars PROVE PoolInv'
  OBVIOUS
<1>1. CASE NextPool
  BY <1>1, NoConnectionKeeps, TakeIdleKeeps, ConnectKeeps, KeyKeeps, StatementKeeps,
     CloseConnKeeps, CloseConnRaisesKeeps, KeepKeeps, ClearKeysKeeps, SeverKeeps
     DEF NextPool
<1>2. CASE UNCHANGED poolVars
  BY <1>2 DEF poolVars, PoolInv, PoolTypeOK, HeldOK, OwnersOK, WorkOK, LostOK, Busy
<1> QED
  BY <1>1, <1>2

LEMMA PoolInvariance == PoolSpec => []PoolInv
BY PoolInitially, PoolStepKeeps, PTL DEF PoolSpec

LEMMA PoolInvImplies == PoolInv => OneHolder /\ LeaksExplained
<1>1. PoolInv => OneHolder
  BY DEF PoolInv, PoolTypeOK, OneHolder, OwnersOK, WorkOK
<1>2. PoolInv => LeaksExplained
  BY DEF PoolInv, LostOK, LeaksExplained
<1> QED
  BY <1>1, <1>2

-----------------------------------------------------------------------------

\* Seen from the pool, a server process is one user of it; seen from the rate
\* limit, one of its processes.
LEMMA StepIsComponentStep ==
    [Next]_sendVars => [NextPool]_poolVars /\ [NextRate]_rateVars
<1> SUFFICES ASSUME [Next]_sendVars PROVE [NextPool]_poolVars /\ [NextRate]_rateVars
  OBVIOUS
<1>1. ASSUME NEW r \in Requests PROVE Handler(r) \in Threads /\ Recorder(r) \in Threads
  BY ThreadsOfRequests DEF SendThreads, Handler, Recorder
<1>2. ASSUME NEW r \in Requests, Receive(r) \/ Launch(r) \/ HandlerStep(r) \/ RecorderStep(r)
      PROVE  NextPool /\ UNCHANGED rateVars
  BY <1>1, <1>2 DEF Receive, Launch, HandlerStep, RecorderStep, PoolStep, NextPool
<1>3. ASSUME NEW r \in Requests, Stored(r) \/ Limit(r)
      PROVE  NextRate /\ UNCHANGED poolVars
  BY <1>3 DEF Stored, Limit, NextRate
<1>4. ASSUME NEW r \in Requests, LaunchFails(r) PROVE UNCHANGED <<rateVars, poolVars>>
  BY <1>4 DEF LaunchFails
<1>5. CASE Tick
  BY <1>5 DEF Tick, NextRate, poolVars
<1>6. ASSUME NEW c \in Conns, Lose(c) PROVE NextPool /\ UNCHANGED rateVars
  BY <1>6 DEF Lose, NextPool
<1>7. CASE UNCHANGED sendVars
  BY <1>7 DEF sendVars
<1> QED
  BY <1>2, <1>3, <1>4, <1>5, <1>6, <1>7 DEF Next, Work

LEMMA Components == Spec => PoolSpec /\ RateSpec
<1>1. Init => InitPool /\ InitRate
  BY DEF Init
<1> QED
  BY <1>1, StepIsComponentStep, PTL DEF Spec, PoolSpec, RateSpec

\* Every variable of a server process keeps its type: its rate limit, its pool
\* and the step each handler is at.
THEOREM SendTypesHold == Spec => []SendTypeOK
<1> DEFINE StepOK == step \in [Requests -> Steps]
<1>1. Init => StepOK
  BY DEF Init, Steps
<1>2. StepOK /\ [Next]_sendVars => StepOK'
  BY DEF Next, Work, Receive, Stored, Limit, Launch, LaunchFails, HandlerStep, RecorderStep,
         Tick, Lose, sendVars, Steps
<1>3. PoolInv /\ RateInv /\ StepOK => SendTypeOK
  BY DEF PoolInv, RateInv, SendTypeOK
<1> HIDE DEF StepOK
<1> QED
  BY <1>1, <1>2, <1>3, Components, PoolInvariance, RateInvariance, PTL DEF Spec

\* No two threads of a server process ever have one connection, however the
\* unlocked steps of the pool interleave, and no thread finds the uncommitted
\* work of another in the one it was given (db.py: get_conn, close_conn).
THEOREM ConnectionsAreExclusive == Spec => []OneHolder
BY Components, PoolInvariance, PoolInvImplies, PTL

\* Every slot that the pool loses was lost to a dead connection or to the race
\* for its key (db.py: close_conn).
THEOREM LeaksAreExplained == Spec => []LeaksExplained
BY Components, PoolInvariance, PoolInvImplies, PTL

\* A server process starts at most MaxPerHour records of a user in the hour up
\* to the latest, and in any hour of those admitted in the order they asked
\* (routes.py: send_message).
THEOREM RecordsAreBounded == Spec => []RateBounded
BY Components, RateIsBounded, PTL
=============================================================================
