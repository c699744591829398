------------------------- MODULE ChainRecorderProofs -------------------------
(***************************************************************************)
(* Proofs about ChainRecorder for any number of workers, messages, hashes  *)
(* and prices, and whichever of the environment's events may happen:       *)
(* typing, what the lock of a process guarantees, the truth of the audit   *)
(* table and its agreement with the messages.                              *)
(***************************************************************************)
EXTENDS ChainRecorder, SequenceTheorems, TLAPS

-----------------------------------------------------------------------------
(* The inductive invariant.                                                *)

\* A message that was never submitted has no thread, and a thread has a
\* worker and a digest to record.
ThreadsOK ==
    \A m \in Msgs :
        /\ message[m] = "new" => pc[m] = "none"
        /\ pc[m] # "none" => home[m] \in Workers /\ hash[m] \in Hashes

\* A thread between its nonce fetch and its send holds its process's lock.
Holding(m) == pc[m] \in {"nonce", "send"}

LockOK == \A m \in Msgs : Holding(m) => lock[home[m]] = m

\* The stages after a send that was answered, and those after its receipt.
Storing(m) == pc[m] \in {"store", "matched", "missed"}
After(m)   == pc[m] = "wait" \/ Storing(m)

\* The node has accepted the transaction of a thread that waits or stores, and
\* of no thread that has not sent yet; the pool never forgets its nonce.
SentOK ==
    /\ \A m \in accepted : (After(m) \/ pc[m] = "end") /\ nonce[m] < Len(sent)
    /\ \A m \in Msgs : After(m) => m \in accepted

\* Accepted transactions of one process have nonces of their own.
NoncesDiffer ==
    \A q, r \in accepted : q # r /\ home[q] = home[r] => nonce[q] # nonce[r]

\* A thread stores only after its own transaction was mined with status 1.
StoreOK == \A m \in Msgs : Storing(m) => IsMined(m) /\ nonce[m] \notin reverted

\* An UPDATE that found the row keeps it; one that did not ran before the
\* commit, or the message is gone for good.
MatchOK ==
    \A m \in Msgs :
        /\ pc[m] = "matched" => message[m] = "live"
        /\ pc[m] = "missed" => m \in early \/ message[m] = "gone"
        /\ m \in early => pc[m] \in {"missed", "end"}

\* Whatever was mined with status 1 is in the contract's array.
RecordsOK ==
    \A i \in 1..mined : i - 1 \notin reverted =>
        \E k \in 1..Len(records) : records[k] = sent[i].hash

\* An audit row is the one row of a thread that has ended, names that
\* thread's transaction, and is linked to its message or to nothing.
OriginsOK ==
    /\ \A a \in audit :
          /\ pc[a.id] = "end" /\ a.id \in accepted
          /\ a.tx = Tx(a.id) /\ a.msg \in {None, a.id}
    /\ \A a, b \in audit : a.id = b.id => a = b

RecorderInv ==
    /\ TypeOK /\ ThreadsOK /\ LockOK /\ SentOK /\ LockSerialises /\ NoncesDiffer /\ StoreOK
    /\ MatchOK /\ RecordsOK /\ AuditIsTrue /\ OriginsOK /\ RowMatchesAudit

-----------------------------------------------------------------------------
(* The node's transactions.                                                *)

\* What the node holds.
LEMMA NodeFacts ==
    ASSUME TypeOK
    PROVE  /\ Len(sent) \in Nat /\ mined \in Nat /\ mined <= Len(sent)
           /\ sent \in Seq(Transactions)
           /\ \A i \in 1..Len(sent) : sent[i] \in Transactions
           /\ \A m \in Msgs : nonce[m] \in Nat
           /\ accepted \subseteq Msgs
<1>1. sent \in Seq(Transactions) /\ mined \in 0..Len(sent)
  BY DEF TypeOK
<1>2. Len(sent) \in Nat
  BY <1>1, LenProperties
<1>3. \A i \in 1..Len(sent) : sent[i] \in Transactions
  BY <1>1, ElementOfSeq
<1>4. accepted \subseteq Msgs /\ \A m \in Msgs : nonce[m] \in Nat
  BY DEF TypeOK
<1> QED
  BY <1>1, <1>2, <1>3, <1>4

\* What a thread signs is a transaction.
LEMMA TxType ==
    ASSUME TypeOK, NEW m \in Msgs, hash[m] \in Hashes
    PROVE  Tx(m) \in Transactions /\ Tx(m).nonce = nonce[m] /\ Tx(m).hash = hash[m]
<1>1. nonce[m] \in Nat /\ price[m] \in Prices
  BY DEF TypeOK
<1> QED
  BY <1>1 DEF Tx, Transactions

\* A transaction depends on what its thread fetched and was given, only.
LEMMA SameTx ==
    ASSUME NEW m \in Msgs, nonce'[m] = nonce[m], price'[m] = price[m], hash'[m] = hash[m]
    PROVE  Tx(m)' = Tx(m)
BY DEF Tx

\* What an audit row says, as far as steps need it.
LEMMA AuditFacts ==
    ASSUME RecorderInv, NEW a \in audit
    PROVE  /\ a \in Audits /\ a.id \in Msgs /\ a.msg \in {None, a.id}
           /\ a.tx.nonce \in Nat /\ a.tx.nonce < mined /\ a.tx.nonce + 1 \in 1..mined
           /\ pc[a.id] = "end" /\ a.id \in accepted /\ a.tx = Tx(a.id)
           /\ a.id # None
<1>1. a \in Audits
  BY DEF RecorderInv, TypeOK
<1>2. a.id \in Msgs /\ a.tx.nonce \in Nat
  BY <1>1 DEF Audits, Transactions
<1>3. a.tx.nonce < mined
  BY DEF RecorderInv, AuditIsTrue
<1>4. a.tx.nonce + 1 \in 1..mined
  BY <1>2, <1>3, NodeFacts DEF RecorderInv
<1>5. pc[a.id] = "end" /\ a.id \in accepted /\ a.tx = Tx(a.id) /\ a.msg \in {None, a.id}
  BY DEF RecorderInv, OriginsOK
<1> QED
  BY <1>1, <1>2, <1>3, <1>4, <1>5, RecorderAssumptions

\* What the node's answer to a send is.
LEMMA AcceptFacts ==
    ASSUME TypeOK, NEW m \in Msgs, hash[m] \in Hashes, Accept(m)
    PROVE  /\ sent' \in Seq(Transactions)
           /\ Len(sent') \in Nat /\ Len(sent) <= Len(sent')
           /\ mined <= nonce[m] /\ nonce[m] < Len(sent')
           /\ \A i \in 1..mined : sent'[i] = sent[i]
           /\ accepted' = accepted \cup {m}
           /\ UNCHANGED <<mined, reverted, records>>
<1>1. Tx(m) \in Transactions
  BY TxType
<1>2. /\ Len(sent) \in Nat /\ mined \in Nat /\ mined <= Len(sent)
      /\ sent \in Seq(Transactions) /\ nonce[m] \in Nat
  BY NodeFacts
<1>3. accepted' = accepted \cup {m} /\ UNCHANGED <<mined, reverted, records>>
  BY DEF Accept
<1>4. CASE nonce[m] = Len(sent) /\ sent' = Append(sent, Tx(m))
  <2>1. /\ sent' \in Seq(Transactions) /\ Len(sent') = Len(sent) + 1
        /\ \A i \in 1..Len(sent) : sent'[i] = sent[i]
    BY <1>1, <1>2, <1>4, AppendProperties
  <2> QED
    BY <1>2, <1>3, <1>4, <2>1
<1>5. CASE /\ mined <= nonce[m] /\ nonce[m] < Len(sent)
           /\ sent' = [sent EXCEPT ![nonce[m] + 1] = Tx(m)]
  <2>1. nonce[m] + 1 \in 1..Len(sent)
    BY <1>2, <1>5
  <2>2. /\ sent' \in Seq(Transactions) /\ Len(sent') = Len(sent)
        /\ \A i \in 1..Len(sent) :
              sent'[i] = IF i = nonce[m] + 1 THEN Tx(m) ELSE sent[i]
    BY <1>1, <1>2, <1>5, <2>1, ExceptSeq
  <2>3. \A i \in 1..mined : i \in 1..Len(sent) /\ i # nonce[m] + 1
    BY <1>2, <1>5
  <2> QED
    BY <1>2, <1>3, <1>5, <2>2, <2>3
<1> QED
  BY <1>4, <1>5 DEF Accept

-----------------------------------------------------------------------------
(* Kinds of steps.                                                         *)

\* A step of a thread that neither sends nor stores.
LEMMA QuietStep ==
    ASSUME RecorderInv, NEW m \in Msgs, TypeOK', LockOK',
           UNCHANGED <<rows, node, home, hash, history>>,
           Busy(m), pc'[m] \notin {"none", "matched", "missed"},
           \A q \in Msgs \ {m} :
              pc'[q] = pc[q] /\ nonce'[q] = nonce[q] /\ price'[q] = price[q],
           After(m) => nonce'[m] = nonce[m] /\ price'[m] = price[m]
                         /\ pc'[m] \in {"store", "end"},
           Storing(m) => pc'[m] = "end",
           ~After(m) => pc'[m] \notin {"wait", "store"},
           pc'[m] = "send" => nonce'[m] = Len(sent),
           pc'[m] = "store" => IsMined(m)' /\ nonce'[m] \notin reverted
    PROVE  RecorderInv'
<1>1. /\ UNCHANGED <<message, txHash, audit, sent, mined, reverted, records, accepted, early>>
      /\ UNCHANGED <<home, hash>>
  BY DEF rows, node, history
<1>2. pc[m] \notin {"none", "end"}
  BY DEF Busy
<1>3. ThreadsOK'
  BY <1>1, <1>2 DEF RecorderInv, ThreadsOK
<1>4. m \in accepted => After(m)
  BY <1>2 DEF RecorderInv, SentOK
<1>5. /\ accepted \subseteq Msgs
      /\ \A q \in accepted : nonce'[q] = nonce[q]
  BY <1>4, NodeFacts DEF RecorderInv
<1>6. SentOK'
  <2>1. ASSUME NEW q \in accepted
        PROVE  (After(q)' \/ pc'[q] = "end") /\ nonce'[q] < Len(sent)
    <3>1. (After(q) \/ pc[q] = "end") /\ nonce[q] < Len(sent) /\ q \in Msgs
      BY <1>5 DEF RecorderInv, SentOK
    <3> QED
      BY <1>4, <1>5, <3>1 DEF After, Storing
  <2>2. ASSUME NEW q \in Msgs, After(q)'
        PROVE  q \in accepted
    <3>1. After(q)
      BY <2>2 DEF After, Storing
    <3> QED
      BY <3>1 DEF RecorderInv, SentOK
  <2> QED
    BY <1>1, <2>1, <2>2 DEF SentOK
<1>7. LockSerialises'
  <2> SUFFICES ASSUME NEW q \in Msgs, pc'[q] = "send", NEW r \in accepted, home[r] = home[q]
               PROVE  nonce'[r] < nonce'[q]
    BY <1>1 DEF LockSerialises
  <2>1. CASE q = m
    BY <1>5, <2>1 DEF RecorderInv, SentOK
  <2>2. CASE q # m
    BY <1>5, <2>2 DEF RecorderInv, LockSerialises
  <2> QED
    BY <2>1, <2>2
<1>8. NoncesDiffer'
  BY <1>1, <1>5 DEF RecorderInv, NoncesDiffer
<1>9. StoreOK'
  <2> SUFFICES ASSUME NEW q \in Msgs, Storing(q)'
               PROVE  IsMined(q)' /\ nonce'[q] \notin reverted
    BY <1>1 DEF StoreOK
  <2>1. CASE q = m
    BY <2>1 DEF Storing
  <2>2. CASE q # m
    <3>1. IsMined(q) /\ nonce[q] \notin reverted
      BY <2>2 DEF Storing, RecorderInv, StoreOK
    <3>2. Tx(q)' = Tx(q)
      BY <1>1, <2>2, SameTx
    <3> QED
      BY <1>1, <2>2, <3>1, <3>2 DEF IsMined
  <2> QED
    BY <2>1, <2>2
<1>10. MatchOK'
  <2>1. m \in early => pc'[m] = "end"
    BY <1>2 DEF RecorderInv, MatchOK, Storing
  <2> QED
    BY <1>1, <2>1 DEF RecorderInv, MatchOK
<1>11. RecordsOK' /\ AuditIsTrue' /\ RowMatchesAudit'
  BY <1>1 DEF RecorderInv, RecordsOK, AuditIsTrue, RowMatchesAudit
<1>12. OriginsOK'
  <2> SUFFICES ASSUME NEW a \in audit
               PROVE  pc'[a.id] = "end" /\ a.id \in accepted
                        /\ a.tx = Tx(a.id)' /\ a.msg \in {None, a.id}
    BY <1>1 DEF RecorderInv, OriginsOK
  <2>1. a.id \in Msgs \ {m} /\ pc[a.id] = "end" /\ a.id \in accepted
    BY <1>2, AuditFacts
  <2>2. Tx(a.id)' = Tx(a.id)
    BY <1>1, <2>1, SameTx
  <2> QED
    BY <2>1, <2>2, AuditFacts
<1> QED
  BY <1>3, <1>6, <1>7, <1>8, <1>9, <1>10, <1>11, <1>12 DEF RecorderInv

\* Releasing the lock at the end of the critical section.
LEMMA ReleaseKeepsLocks ==
    ASSUME RecorderInv, NEW m \in Msgs, Holding(m), Release(m),
           home' = home, pc'[m] \notin {"nonce", "send"},
           \A q \in Msgs \ {m} : pc'[q] = pc[q]
    PROVE  LockOK'
<1> SUFFICES ASSUME NEW q \in Msgs, pc'[q] \in {"nonce", "send"}
             PROVE  lock'[home[q]] = q
  BY DEF LockOK, Holding
<1>1. q # m /\ Holding(q)
  BY DEF Holding
<1>2. lock[home[q]] = q /\ lock[home[m]] = m
  BY <1>1 DEF RecorderInv, LockOK
<1>3. home[q] \in Workers /\ home[m] \in Workers
  BY <1>1 DEF RecorderInv, ThreadsOK, Holding
<1> QED
  BY <1>1, <1>2, <1>3 DEF Release, RecorderInv, TypeOK

\* A thread keeps the lock, or never had it.
LEMMA SameLocks ==
    ASSUME RecorderInv, NEW m \in Msgs, UNCHANGED <<home, lock>>,
           \A q \in Msgs \ {m} : pc'[q] = pc[q],
           pc'[m] \in {"nonce", "send"} => pc[m] \in {"nonce", "send"}
    PROVE  LockOK'
BY DEF RecorderInv, LockOK, Holding

\* A send the node accepts, whether or not its answer arrives.
LEMMA AcceptedStep ==
    ASSUME RecorderInv, NEW m \in Msgs, TypeOK', pc[m] = "send", Accept(m), Release(m),
           UNCHANGED <<rows, home, hash, nonce, price, early>>,
           pc'[m] \in {"wait", "end"}, \A q \in Msgs \ {m} : pc'[q] = pc[q]
    PROVE  RecorderInv'
<1>1. UNCHANGED <<message, txHash, audit, home, hash, nonce, price, early>>
  BY DEF rows
<1>2. hash[m] \in Hashes /\ home[m] \in Workers
  BY DEF RecorderInv, ThreadsOK
<1>3. /\ Len(sent') \in Nat /\ Len(sent) <= Len(sent')
      /\ mined <= nonce[m] /\ nonce[m] < Len(sent')
      /\ \A i \in 1..mined : sent'[i] = sent[i]
      /\ accepted' = accepted \cup {m} /\ UNCHANGED <<mined, reverted, records>>
  BY <1>2, AcceptFacts DEF RecorderInv
<1>4. /\ mined \in Nat /\ Len(sent) \in Nat /\ accepted \subseteq Msgs
      /\ \A q \in Msgs : nonce[q] \in Nat
  BY NodeFacts DEF RecorderInv
<1>5. \A q \in Msgs : Tx(q)' = Tx(q)
  BY <1>1, SameTx
<1>6. ThreadsOK'
  BY <1>1 DEF RecorderInv, ThreadsOK
<1>7. LockOK'
  BY <1>1, ReleaseKeepsLocks DEF Holding
<1>8. SentOK'
  <2>1. ASSUME NEW q \in accepted
        PROVE  q # m /\ (After(q)' \/ pc'[q] = "end") /\ nonce[q] < Len(sent')
    <3>1. (After(q) \/ pc[q] = "end") /\ nonce[q] < Len(sent) /\ q \in Msgs
      BY <1>4 DEF RecorderInv, SentOK
    <3>2. q # m
      BY <3>1 DEF After, Storing
    <3>3. nonce[q] < Len(sent')
      BY <1>3, <1>4, <3>1
    <3> QED
      BY <3>1, <3>2, <3>3 DEF After, Storing
  <2>2. After(m)' \/ pc'[m] = "end"
    BY DEF After, Storing
  <2>3. \A q \in Msgs : After(q)' => q \in accepted'
    BY <1>3 DEF RecorderInv, SentOK, After, Storing
  <2> QED
    BY <1>1, <1>3, <2>1, <2>2, <2>3 DEF SentOK
<1>9. LockSerialises'
  <2> SUFFICES ASSUME NEW q \in Msgs, pc'[q] = "send",
                      NEW r \in accepted', home[r] = home[q]
               PROVE  nonce[r] < nonce[q]
    BY <1>1 DEF LockSerialises
  <2>1. q # m /\ pc[q] = "send"
    OBVIOUS
  <2>2. lock[home[q]] = q /\ lock[home[m]] = m
    BY <2>1 DEF RecorderInv, LockOK, Holding
  <2>3. r \in accepted
    BY <1>3, <2>1, <2>2
  <2> QED
    BY <2>1, <2>3 DEF RecorderInv, LockSerialises
<1>10. NoncesDiffer'
  <2>1. \A q \in accepted : home[q] = home[m] => nonce[q] < nonce[m]
    BY DEF RecorderInv, LockSerialises
  <2>2. \A q \in accepted : home[q] = home[m] => nonce[q] # nonce[m]
    BY <1>4, <2>1
  <2> QED
    BY <1>1, <1>3, <2>2 DEF RecorderInv, NoncesDiffer
<1>11. StoreOK'
  <2> SUFFICES ASSUME NEW q \in Msgs, Storing(q)'
               PROVE  IsMined(q)' /\ nonce[q] \notin reverted
    BY <1>1, <1>3 DEF StoreOK
  <2>1. IsMined(q) /\ nonce[q] \notin reverted
    BY DEF Storing, RecorderInv, StoreOK
  <2>2. nonce[q] + 1 \in 1..mined
    BY <1>4, <2>1 DEF IsMined
  <2> QED
    BY <1>1, <1>3, <1>5, <2>1, <2>2 DEF IsMined
<1>12. MatchOK'
  BY <1>1 DEF RecorderInv, MatchOK
<1>13. RecordsOK'
  BY <1>3 DEF RecorderInv, RecordsOK
<1>14. AuditIsTrue'
  <2>1. \A a \in audit : sent'[a.tx.nonce + 1] = sent[a.tx.nonce + 1]
    BY <1>3, AuditFacts
  <2> QED
    BY <1>1, <1>3, <2>1 DEF RecorderInv, AuditIsTrue
<1>15. OriginsOK'
  <2>1. \A a \in audit : /\ a.id \in Msgs /\ pc[a.id] = "end" /\ a.id \in accepted
                         /\ a.tx = Tx(a.id) /\ a.msg \in {None, a.id}
    BY AuditFacts
  <2> QED
    BY <1>1, <1>3, <1>5, <2>1 DEF RecorderInv, OriginsOK
<1>16. RowMatchesAudit'
  BY <1>1 DEF RecorderInv, RowMatchesAudit
<1> QED
  BY <1>6, <1>7, <1>8, <1>9, <1>10, <1>11, <1>12, <1>13, <1>14, <1>15, <1>16 DEF RecorderInv

-----------------------------------------------------------------------------
(* The steps.                                                              *)

\* A thread starts: no transaction and no audit row is its message's yet.
LEMMA SubmitInv ==
    ASSUME RecorderInv, NEW m \in Msgs, NEW w \in Workers, NEW h \in Hashes,
           Submit(m, w, h)
    PROVE  RecorderInv'
<1>1. /\ message[m] = "new" /\ pc[m] = "none"
      /\ message' = [message EXCEPT ![m] = "pending"]
      /\ home' = [home EXCEPT ![m] = w] /\ hash' = [hash EXCEPT ![m] = h]
      /\ pc' = [pc EXCEPT ![m] = "acquire"]
      /\ UNCHANGED <<txHash, audit, sent, mined, reverted, records, nonce, price,
                     result, lock, accepted, early>>
  BY DEF Submit, node, history, RecorderInv, ThreadsOK
<1>2. TypeOK'
  BY <1>1 DEF RecorderInv, TypeOK, Stages
<1>3. /\ pc'[m] = "acquire" /\ home'[m] = w /\ hash'[m] = h /\ message'[m] = "pending"
      /\ \A q \in Msgs \ {m} : /\ pc'[q] = pc[q] /\ home'[q] = home[q]
                               /\ hash'[q] = hash[q] /\ message'[q] = message[q]
  BY <1>1 DEF RecorderInv, TypeOK
<1>4. accepted \subseteq Msgs \ {m}
  BY <1>1, NodeFacts DEF RecorderInv, SentOK, After, Storing
<1>5. \A q \in Msgs \ {m} : Tx(q)' = Tx(q)
  BY <1>1, <1>3, SameTx
<1>6. ThreadsOK' /\ LockOK'
  BY <1>1, <1>3 DEF RecorderInv, ThreadsOK, LockOK, Holding
<1>7. SentOK' /\ LockSerialises' /\ NoncesDiffer'
  BY <1>1, <1>3, <1>4
     DEF RecorderInv, SentOK, After, Storing, LockSerialises, NoncesDiffer
<1>8. StoreOK' /\ MatchOK'
  BY <1>1, <1>3, <1>5 DEF RecorderInv, StoreOK, Storing, IsMined, MatchOK
<1>9. RecordsOK' /\ AuditIsTrue'
  BY <1>1 DEF RecorderInv, RecordsOK, AuditIsTrue
<1>10. \A a \in audit : a.id \in Msgs \ {m} /\ a.msg # m
  BY <1>1, RecorderAssumptions, AuditFacts
<1>11. OriginsOK'
  BY <1>1, <1>3, <1>5, <1>10, AuditFacts DEF RecorderInv, OriginsOK
<1>12. RowMatchesAudit'
  <2>1. ASSUME NEW a \in audit, a.msg # None
        PROVE  message'[a.msg] = "live"
    <3>1. a.msg \in Msgs \ {m} /\ message[a.msg] = "live"
      BY <1>10, <2>1, AuditFacts DEF RecorderInv, RowMatchesAudit
    <3> QED
      BY <1>3, <3>1
  <2> QED
    BY <1>1, <2>1 DEF RecorderInv, RowMatchesAudit
<1> QED
  BY <1>2, <1>6, <1>7, <1>8, <1>9, <1>11, <1>12 DEF RecorderInv

\* The handler's transaction ends.
LEMMA HandlerInv ==
    ASSUME RecorderInv, NEW m \in Msgs, Commit(m) \/ Abort(m)
    PROVE  RecorderInv'
<1>1. PICK state \in {"live", "gone"} :
         /\ message[m] = "pending" /\ message' = [message EXCEPT ![m] = state]
         /\ UNCHANGED <<txHash, audit, sent, mined, reverted, records, home, hash, pc,
                        nonce, price, result, lock, accepted, early>>
  BY DEF Commit, Abort, node, thread, history
<1>2. /\ message'[m] = state
      /\ \A q \in Msgs \ {m} : message'[q] = message[q]
  BY <1>1 DEF RecorderInv, TypeOK
<1>3. \A q \in Msgs : Tx(q)' = Tx(q)
  BY <1>1, SameTx
<1>4. TypeOK' /\ ThreadsOK'
  BY <1>1, <1>2 DEF RecorderInv, TypeOK, ThreadsOK
<1>5. LockOK' /\ SentOK' /\ LockSerialises' /\ NoncesDiffer'
  BY <1>1 DEF RecorderInv, LockOK, Holding, SentOK, After, Storing, LockSerialises, NoncesDiffer
<1>6. StoreOK' /\ RecordsOK' /\ AuditIsTrue'
  BY <1>1, <1>3 DEF RecorderInv, StoreOK, Storing, IsMined, RecordsOK, AuditIsTrue
<1>7. MatchOK'
  BY <1>1, <1>2 DEF RecorderInv, MatchOK
<1>8. OriginsOK'
  BY <1>1, <1>3, AuditFacts DEF RecorderInv, OriginsOK
<1>9. RowMatchesAudit'
  <2>1. ASSUME NEW a \in audit, a.msg # None
        PROVE  message'[a.msg] = "live"
    <3>1. a.msg \in Msgs /\ message[a.msg] = "live"
      BY <2>1, AuditFacts DEF RecorderInv, RowMatchesAudit
    <3> QED
      BY <1>1, <1>2, <3>1
  <2> QED
    BY <1>1, <2>1 DEF RecorderInv, RowMatchesAudit
<1> QED
  BY <1>4, <1>5, <1>6, <1>7, <1>8, <1>9 DEF RecorderInv

\* A deletion unlinks the audit row of the message and loses none.
LEMMA DeleteInv ==
    ASSUME RecorderInv, NEW m \in Msgs, DeleteMessage(m)
    PROVE  RecorderInv'
<1>1. /\ message[m] = "live" /\ pc[m] # "matched"
      /\ message' = [message EXCEPT ![m] = "gone"]
      /\ txHash' = [txHash EXCEPT ![m] = None] /\ audit' = Orphaned(m)
      /\ UNCHANGED <<sent, mined, reverted, records, home, hash, pc, nonce, price,
                     result, lock, accepted, early>>
  BY DEF DeleteMessage, node, thread, history
<1>2. \A b \in audit' : \E a \in audit :
         /\ b.id = a.id /\ b.tx = a.tx /\ b.digest = a.digest
         /\ b.msg = IF a.msg = m THEN None ELSE a.msg
         /\ b = IF a.msg = m THEN [a EXCEPT !.msg = None] ELSE a
  BY <1>1 DEF Orphaned, RecorderInv, TypeOK, Audits
<1>3. \A a \in audit : a.msg # m => a \in audit'
  BY <1>1 DEF Orphaned
<1>4. /\ message'[m] = "gone" /\ txHash'[m] = None
      /\ \A q \in Msgs \ {m} : message'[q] = message[q] /\ txHash'[q] = txHash[q]
  BY <1>1 DEF RecorderInv, TypeOK
<1>5. audit' \subseteq Audits
  BY <1>1 DEF Orphaned, RecorderInv, TypeOK, Audits
<1>6. \A q \in Msgs : Tx(q)' = Tx(q)
  BY <1>1, SameTx
<1>7. TypeOK' /\ ThreadsOK'
  BY <1>1, <1>4, <1>5 DEF RecorderInv, TypeOK, ThreadsOK
<1>8. LockOK' /\ SentOK' /\ LockSerialises' /\ NoncesDiffer'
  BY <1>1 DEF RecorderInv, LockOK, Holding, SentOK, After, Storing, LockSerialises, NoncesDiffer
<1>9. StoreOK' /\ RecordsOK'
  BY <1>1, <1>6 DEF RecorderInv, StoreOK, Storing, IsMined, RecordsOK
<1>10. MatchOK'
  BY <1>1, <1>4 DEF RecorderInv, MatchOK
<1>11. AuditIsTrue'
  BY <1>1, <1>2 DEF RecorderInv, AuditIsTrue
<1>12. OriginsOK'
  <2>1. ASSUME NEW b \in audit'
        PROVE  pc[b.id] = "end" /\ b.id \in accepted
                 /\ b.tx = Tx(b.id)' /\ b.msg \in {None, b.id}
    <3>1. PICK a \in audit : /\ b.id = a.id /\ b.tx = a.tx
                            /\ b.msg = IF a.msg = m THEN None ELSE a.msg
      BY <1>2
    <3> QED
      BY <1>6, <3>1, AuditFacts
  <2>2. ASSUME NEW b \in audit', NEW c \in audit', b.id = c.id
        PROVE  b = c
    <3>1. PICK a \in audit : /\ b.id = a.id
                            /\ b = IF a.msg = m THEN [a EXCEPT !.msg = None] ELSE a
      BY <1>2
    <3>2. PICK d \in audit : /\ c.id = d.id
                            /\ c = IF d.msg = m THEN [d EXCEPT !.msg = None] ELSE d
      BY <1>2
    <3>3. a = d
      BY <2>2, <3>1, <3>2 DEF RecorderInv, OriginsOK
    <3> QED
      BY <3>1, <3>2, <3>3
  <2> QED
    BY <1>1, <2>1, <2>2 DEF OriginsOK
<1>13. RowMatchesAudit'
  <2>1. ASSUME NEW q \in Msgs, txHash'[q] # None
        PROVE  \E b \in audit' : b.msg = q /\ b.tx = txHash'[q]
    <3>1. q # m /\ txHash'[q] = txHash[q]
      BY <1>4, <2>1
    <3>2. PICK a \in audit : a.msg = q /\ a.tx = txHash[q]
      BY <2>1, <3>1 DEF RecorderInv, RowMatchesAudit
    <3> QED
      BY <1>3, <3>1, <3>2
  <2>2. ASSUME NEW b \in audit', b.msg # None
        PROVE  /\ message'[b.msg] = "live"
               /\ txHash'[b.msg] = IF b.msg \in early THEN None ELSE b.tx
    <3>1. PICK a \in audit : b.tx = a.tx /\ b.msg = IF a.msg = m THEN None ELSE a.msg
      BY <1>2
    <3>2. a.msg = b.msg /\ a.msg # None /\ a.msg # m /\ a.msg \in Msgs
      BY <2>2, <3>1, AuditFacts
    <3>3. /\ message[a.msg] = "live"
          /\ txHash[a.msg] = IF a.msg \in early THEN None ELSE a.tx
      BY <3>2 DEF RecorderInv, RowMatchesAudit
    <3> QED
      BY <1>4, <3>1, <3>2, <3>3
  <2> QED
    BY <1>1, <2>1, <2>2 DEF RowMatchesAudit
<1> QED
  BY <1>7, <1>8, <1>9, <1>10, <1>11, <1>12, <1>13 DEF RecorderInv

\* with _nonce_lock: the lock was free, so nobody of this process holds it.
LEMMA AcquireInv ==
    ASSUME RecorderInv, NEW m \in Msgs, Acquire(m)
    PROVE  RecorderInv'
<1>1. /\ pc[m] = "acquire" /\ lock[home[m]] = None
      /\ lock' = [lock EXCEPT ![home[m]] = m] /\ pc' = [pc EXCEPT ![m] = "nonce"]
      /\ UNCHANGED <<rows, node, home, hash, nonce, price, result, history>>
  BY DEF Acquire
<1>2. TypeOK'
  BY <1>1 DEF RecorderInv, TypeOK, Stages, rows, node, history
<1>3. pc'[m] = "nonce" /\ \A q \in Msgs \ {m} : pc'[q] = pc[q]
  BY <1>1 DEF RecorderInv, TypeOK
<1>4. LockOK'
  <2> SUFFICES ASSUME NEW q \in Msgs, pc'[q] \in {"nonce", "send"}
               PROVE  lock'[home[q]] = q
    BY <1>1 DEF LockOK, Holding
  <2>1. home[m] \in Workers
    BY <1>1 DEF RecorderInv, ThreadsOK
  <2>2. CASE q = m
    BY <1>1, <2>1, <2>2 DEF RecorderInv, TypeOK
  <2>3. CASE q # m
    <3>1. lock[home[q]] = q /\ q # None
      BY <1>3, <2>3, RecorderAssumptions DEF RecorderInv, LockOK, Holding
    <3> QED
      BY <1>1, <3>1, <2>1 DEF RecorderInv, TypeOK
  <2> QED
    BY <2>2, <2>3
<1> QED
  BY <1>1, <1>2, <1>3, <1>4, QuietStep DEF Busy, After, Storing

\* The nonce fetched is the next one at that moment.
LEMMA FetchNonceInv ==
    ASSUME RecorderInv, NEW m \in Msgs, FetchNonce(m)
    PROVE  RecorderInv'
<1>1. PICK p \in Prices :
        /\ pc[m] = "nonce" /\ nonce' = [nonce EXCEPT ![m] = Len(sent)]
        /\ price' = [price EXCEPT ![m] = p] /\ pc' = [pc EXCEPT ![m] = "send"]
        /\ UNCHANGED <<rows, node, home, hash, result, lock, history>>
  BY DEF FetchNonce, Build
<1>2. Len(sent) \in Nat
  BY NodeFacts DEF RecorderInv
<1>3. TypeOK'
  BY <1>1, <1>2 DEF RecorderInv, TypeOK, Stages, rows, node, history
<1>4. /\ pc'[m] = "send" /\ nonce'[m] = Len(sent)
      /\ \A q \in Msgs \ {m} : pc'[q] = pc[q] /\ nonce'[q] = nonce[q] /\ price'[q] = price[q]
  BY <1>1 DEF RecorderInv, TypeOK
<1>5. LockOK'
  BY <1>1, <1>4, SameLocks
<1> QED
  BY <1>1, <1>3, <1>4, <1>5, QuietStep DEF Busy, After, Storing

\* A thread that ends without a send, under the lock or after it.
LEMMA EndsInv ==
    ASSUME RecorderInv, NEW m \in Msgs, NEW returned \in {"none", "hash", "null"},
           Ends(m, returned), Busy(m),
           UNCHANGED <<rows, node, home, hash, nonce, price, history>>,
           \/ Holding(m) /\ Release(m)
           \/ UNCHANGED lock
    PROVE  RecorderInv'
<1>1. pc' = [pc EXCEPT ![m] = "end"] /\ result' = [result EXCEPT ![m] = returned]
  BY DEF Ends
<1>2. pc'[m] = "end" /\ \A q \in Msgs \ {m} : pc'[q] = pc[q]
  BY <1>1 DEF RecorderInv, TypeOK
<1>3. lock' \in [Workers -> Msgs \cup {None}]
  BY DEF Release, RecorderInv, TypeOK
<1>4. TypeOK'
  BY <1>1, <1>3 DEF RecorderInv, TypeOK, Stages, rows, node, history
<1>5. LockOK'
  BY <1>2, ReleaseKeepsLocks, SameLocks
<1> QED
  BY <1>2, <1>4, <1>5, QuietStep

\* A send the node accepts.
LEMMA SendInv ==
    ASSUME RecorderInv, NEW m \in Msgs, pc[m] = "send", Accept(m), Release(m),
           UNCHANGED <<rows, home, hash, nonce, price, early>>,
           NEW stage \in {"wait", "end"}, pc' = [pc EXCEPT ![m] = stage],
           result' \in [Msgs -> {"none", "hash", "null"}]
    PROVE  RecorderInv'
<1>1. pc'[m] = stage /\ \A q \in Msgs \ {m} : pc'[q] = pc[q]
  BY DEF RecorderInv, TypeOK
<1>2. lock' \in [Workers -> Msgs \cup {None}]
  BY DEF Release, RecorderInv, TypeOK
<1>3. hash[m] \in Hashes
  BY DEF RecorderInv, ThreadsOK
<1>4. /\ sent' \in Seq(Transactions) /\ mined' \in 0..Len(sent')
      /\ accepted' = accepted \cup {m}
      /\ UNCHANGED <<mined, reverted, records>>
  <2>1. TypeOK /\ mined \in Nat /\ mined <= Len(sent) /\ Len(sent) \in Nat
    BY NodeFacts DEF RecorderInv
  <2>2. /\ sent' \in Seq(Transactions) /\ Len(sent') \in Nat /\ Len(sent) <= Len(sent')
        /\ accepted' = accepted \cup {m}
        /\ UNCHANGED <<mined, reverted, records>>
    BY <1>3, <2>1, AcceptFacts
  <2> QED
    BY <2>1, <2>2
<1>5. TypeOK'
  BY <1>2, <1>4 DEF RecorderInv, TypeOK, Stages, rows
<1> QED
  BY <1>1, <1>5, AcceptedStep

\* What a thread does from its send to its receipt, and when a statement fails.
LEMMA WaitInv ==
    ASSUME RecorderInv, NEW m \in Msgs,
           Rejected(m) \/ RpcError(m) \/ Broadcast(m) \/ Receipt(m) \/ Timeout(m) \/ DbError(m)
    PROVE  RecorderInv'
<1>1. CASE Rejected(m)
  BY <1>1, EndsInv DEF Rejected, Busy, Holding
<1>2. CASE Timeout(m) \/ DbError(m)
  <2>1. result[m] \in {"none", "hash", "null"}
    BY DEF RecorderInv, TypeOK
  <2> QED
    BY <1>2, <2>1, EndsInv DEF Timeout, DbError, Busy
<1>3. CASE Broadcast(m)
  <2>1. result' \in [Msgs -> {"none", "hash", "null"}]
    BY <1>3 DEF Broadcast, RecorderInv, TypeOK
  <2> QED
    BY <1>3, <2>1, SendInv DEF Broadcast
<1>4. CASE RpcError(m)
  <2>1. CASE pc[m] \in {"nonce", "send"} /\ UNCHANGED <<node, accepted>>
    BY <1>4, <2>1, EndsInv DEF RpcError, Busy, Holding, history
  <2>2. CASE pc[m] = "send" /\ Accept(m)
    <3>1. /\ pc' = [pc EXCEPT ![m] = "end"] /\ Release(m)
          /\ UNCHANGED <<rows, home, hash, nonce, price, early>>
          /\ result' \in [Msgs -> {"none", "hash", "null"}]
      BY <1>4 DEF RpcError, Ends, RecorderInv, TypeOK
    <3> QED
      BY <2>2, <3>1, SendInv
  <2> QED
    BY <1>4, <2>1, <2>2 DEF RpcError
<1>5. CASE Receipt(m)
  <2>1. /\ pc[m] = "wait" /\ IsMined(m)
        /\ UNCHANGED <<rows, node, home, hash, nonce, price, lock, history>>
    BY <1>5 DEF Receipt
  <2>2. CASE nonce[m] \in reverted
    BY <1>5, <2>1, <2>2, EndsInv DEF Receipt, Busy
  <2>3. CASE nonce[m] \notin reverted
    <3>1. pc' = [pc EXCEPT ![m] = "store"] /\ result' = [result EXCEPT ![m] = "hash"]
      BY <1>5, <2>3 DEF Receipt
    <3>2. pc'[m] = "store" /\ \A q \in Msgs \ {m} : pc'[q] = pc[q]
      BY <3>1 DEF RecorderInv, TypeOK
    <3>3. TypeOK'
      BY <2>1, <3>1 DEF RecorderInv, TypeOK, Stages, rows, node, history
    <3>4. LockOK'
      BY <2>1, <3>2, SameLocks
    <3>5. IsMined(m)' /\ nonce'[m] \notin reverted
      BY <2>1, <2>3 DEF IsMined, Tx, node
    <3> QED
      BY <2>1, <3>2, <3>3, <3>4, <3>5, QuietStep DEF Busy, After, Storing
  <2> QED
    BY <2>2, <2>3
<1> QED
  BY <1>1, <1>2, <1>3, <1>4, <1>5

\* The UPDATE writes nothing that others see; it learns whether the row is
\* there.
LEMMA UpdateInv ==
    ASSUME RecorderInv, NEW m \in Msgs, Update(m)
    PROVE  RecorderInv'
<1> DEFINE stage == IF message[m] = "live" THEN "matched" ELSE "missed"
<1>1. /\ pc[m] = "store" /\ pc' = [pc EXCEPT ![m] = stage]
      /\ early' = IF message[m] = "pending" THEN early \cup {m} ELSE early
      /\ UNCHANGED <<message, txHash, audit, sent, mined, reverted, records,
                     home, hash, nonce, price, result, lock, accepted>>
  BY DEF Update, rows, node
<1>2. pc'[m] = stage /\ \A q \in Msgs \ {m} : pc'[q] = pc[q]
  BY <1>1 DEF RecorderInv, TypeOK
<1>3. TypeOK'
  BY <1>1 DEF RecorderInv, TypeOK, Stages
<1>4. \A q \in Msgs : Tx(q)' = Tx(q)
  BY <1>1, SameTx
<1>5. accepted \subseteq Msgs
  BY NodeFacts DEF RecorderInv
<1>6. /\ \A q \in Msgs : (After(q) <=> After(q)') /\ (Storing(q) <=> Storing(q)')
      /\ \A q \in Msgs : /\ (pc'[q] = "end" <=> pc[q] = "end")
                         /\ (pc'[q] = "none" <=> pc[q] = "none")
                         /\ (pc'[q] = "nonce" <=> pc[q] = "nonce")
                         /\ (pc'[q] = "send" <=> pc[q] = "send")
  BY <1>1, <1>2 DEF After, Storing
<1>7. ThreadsOK' /\ LockOK'
  BY <1>1, <1>6 DEF RecorderInv, ThreadsOK, LockOK, Holding
<1>8. SentOK' /\ LockSerialises' /\ NoncesDiffer'
  BY <1>1, <1>5, <1>6 DEF RecorderInv, SentOK, LockSerialises, NoncesDiffer
<1>9. StoreOK'
  BY <1>1, <1>4, <1>6 DEF RecorderInv, StoreOK, IsMined
<1>10. MatchOK'
  <2>1. message[m] \in {"pending", "live", "gone"} /\ m \notin early
    BY <1>1 DEF RecorderInv, TypeOK, ThreadsOK, MatchOK
  <2>2. ASSUME NEW q \in Msgs
        PROVE  /\ pc'[q] = "matched" => message[q] = "live"
               /\ pc'[q] = "missed" => q \in early' \/ message[q] = "gone"
               /\ q \in early' => pc'[q] \in {"missed", "end"}
    <3>1. CASE q = m
      BY <1>1, <1>2, <2>1, <3>1
    <3>2. CASE q # m
      BY <1>1, <1>2, <3>2 DEF RecorderInv, MatchOK
    <3> QED
      BY <3>1, <3>2
  <2> QED
    BY <1>1, <2>2 DEF MatchOK
<1>11. RecordsOK' /\ AuditIsTrue'
  BY <1>1 DEF RecorderInv, RecordsOK, AuditIsTrue
<1>12. OriginsOK'
  BY <1>1, <1>4, <1>6, AuditFacts DEF RecorderInv, OriginsOK
<1>13. RowMatchesAudit'
  <2>1. \A a \in audit : a.msg # m
    BY <1>1, AuditFacts, RecorderAssumptions
  <2>2. \A a \in audit : a.msg \in early' <=> a.msg \in early
    BY <1>1, <2>1
  <2> QED
    BY <1>1, <2>2 DEF RecorderInv, RowMatchesAudit
<1> QED
  BY <1>3, <1>7, <1>8, <1>9, <1>10, <1>11, <1>12, <1>13 DEF RecorderInv

\* The INSERT and the commit: the thread's own transaction, once.
LEMMA InsertInv ==
    ASSUME RecorderInv, NEW m \in Msgs, Insert(m)
    PROVE  RecorderInv'
<1>1. /\ pc[m] \in {"matched", "missed"} /\ Ends(m, result[m])
      /\ UNCHANGED <<message, node, home, hash, nonce, price, lock, history>>
  BY DEF Insert
<1>2. CASE message[m] # "live"
  <2>1. UNCHANGED rows /\ result[m] \in {"none", "hash", "null"}
    BY <1>2 DEF Insert, rows, RecorderInv, TypeOK
  <2> QED
    BY <1>1, <2>1, EndsInv DEF Busy
<1>3. CASE message[m] = "live"
  <2> DEFINE new == Record(m)
  <2>1. /\ txHash' = IF pc[m] = "matched" THEN [txHash EXCEPT ![m] = Tx(m)] ELSE txHash
        /\ audit' = audit \cup {new}
        /\ pc' = [pc EXCEPT ![m] = "end"] /\ result' = [result EXCEPT ![m] = result[m]]
        /\ UNCHANGED <<message, sent, mined, reverted, records, home, hash, nonce, price,
                       lock, accepted, early>>
    BY <1>1, <1>3 DEF Insert, Ends, node, history
  <2>2. /\ hash[m] \in Hashes /\ m \in accepted /\ Storing(m)
        /\ IsMined(m) /\ nonce[m] \notin reverted /\ nonce[m] \in Nat
    BY <1>1 DEF RecorderInv, TypeOK, ThreadsOK, SentOK, StoreOK, After, Storing
  <2>3. Tx(m) \in Transactions /\ Tx(m).nonce = nonce[m] /\ Tx(m).hash = hash[m]
    BY <2>2, TxType DEF RecorderInv
  <2>4. /\ new \in Audits /\ new.id = m /\ new.msg = m /\ new.tx = Tx(m)
        /\ new.digest = hash[m] /\ m # None /\ Tx(m) # None
    BY <2>2, <2>3, RecorderAssumptions DEF Record, Audits, Transactions
  <2> HIDE DEF new
  <2>5. /\ pc'[m] = "end" /\ \A q \in Msgs \ {m} : pc'[q] = pc[q] /\ txHash'[q] = txHash[q]
    BY <2>1 DEF RecorderInv, TypeOK
  <2>6. \A a \in audit : a.id # m /\ a.msg # m
    BY <1>1, AuditFacts, RecorderAssumptions
  <2>7. txHash'[m] = IF m \in early THEN None ELSE Tx(m)
    <3>1. txHash[m] = None
      BY <2>6 DEF RecorderInv, RowMatchesAudit
    <3>2. pc[m] = "matched" <=> m \notin early
      BY <1>1, <1>3 DEF RecorderInv, MatchOK
    <3> QED
      BY <2>1, <3>1, <3>2 DEF RecorderInv, TypeOK
  <2>8. TypeOK'
    BY <2>1, <2>3, <2>4 DEF RecorderInv, TypeOK, Stages
  <2>9. \A q \in Msgs : Tx(q)' = Tx(q)
    BY <2>1, SameTx
  <2>10. ThreadsOK' /\ LockOK'
    BY <1>1, <2>1, <2>5 DEF RecorderInv, ThreadsOK, LockOK, Holding
  <2>11. SentOK' /\ LockSerialises' /\ NoncesDiffer'
    <3>1. accepted \subseteq Msgs
      BY NodeFacts DEF RecorderInv
    <3> QED
      BY <2>1, <2>5, <3>1 DEF RecorderInv, SentOK, After, Storing, LockSerialises, NoncesDiffer
  <2>12. StoreOK' /\ MatchOK'
    BY <2>1, <2>5, <2>9 DEF RecorderInv, StoreOK, Storing, IsMined, MatchOK
  <2>13. RecordsOK'
    BY <2>1 DEF RecorderInv, RecordsOK
  <2>14. AuditIsTrue'
    <3>1. /\ nonce[m] < mined /\ nonce[m] \notin reverted /\ sent[nonce[m] + 1] = Tx(m)
      BY <2>2 DEF IsMined
    <3>2. nonce[m] + 1 \in 1..mined /\ (nonce[m] + 1) - 1 \notin reverted
      BY <2>2, <3>1, NodeFacts DEF RecorderInv
    <3>3. \E k \in 1..Len(records) : records[k] = hash[m]
      BY <2>3, <3>1, <3>2 DEF RecorderInv, RecordsOK
    <3> QED
      BY <2>1, <2>3, <2>4, <3>1, <3>3 DEF RecorderInv, AuditIsTrue
  <2>15. OriginsOK'
    <3>1. ASSUME NEW a \in audit'
          PROVE  /\ pc'[a.id] = "end" /\ a.id \in accepted
                 /\ a.tx = Tx(a.id)' /\ a.msg \in {None, a.id}
      <4>1. CASE a = new
        <5>1. a.id = m /\ a.tx = Tx(m) /\ a.msg = m
          BY <2>4, <4>1
        <5> QED
          BY <2>2, <2>5, <2>9, <5>1
      <4>2. CASE a # new
        <5>1. a \in audit
          BY <2>1, <4>2
        <5> QED
          BY <2>5, <2>6, <2>9, <5>1, AuditFacts
      <4> QED
        BY <4>1, <4>2
    <3>2. \A a, b \in audit : a.id = b.id => a = b
      BY DEF RecorderInv, OriginsOK
    <3>3. \A a, b \in audit' : a.id = b.id => a = b
      BY <2>1, <2>4, <2>6, <3>2
    <3> QED
      BY <2>1, <3>1, <3>3 DEF OriginsOK
  <2>16. RowMatchesAudit'
    <3>1. ASSUME NEW q \in Msgs, txHash'[q] # None
          PROVE  \E a \in audit' : a.msg = q /\ a.tx = txHash'[q]
      <4>1. CASE q = m
        BY <2>1, <2>4, <2>7, <3>1, <4>1
      <4>2. CASE q # m
        BY <2>1, <2>5, <3>1, <4>2 DEF RecorderInv, RowMatchesAudit
      <4> QED
        BY <4>1, <4>2
    <3>2. ASSUME NEW a \in audit', a.msg # None
          PROVE  /\ message[a.msg] = "live"
                 /\ txHash'[a.msg] = IF a.msg \in early THEN None ELSE a.tx
      <4>1. CASE a = new
        BY <1>3, <2>4, <2>7, <4>1
      <4>2. CASE a # new
        <5>1. a \in audit /\ a.msg \in Msgs \ {m}
          BY <2>1, <2>6, <3>2, <4>2, AuditFacts
        <5> QED
          BY <2>5, <3>2, <5>1 DEF RecorderInv, RowMatchesAudit
      <4> QED
        BY <4>1, <4>2
    <3> QED
      BY <2>1, <3>1, <3>2 DEF RowMatchesAudit
  <2> QED
    BY <2>8, <2>10, <2>11, <2>12, <2>13, <2>14, <2>15, <2>16 DEF RecorderInv
<1> QED
  BY <1>2, <1>3

\* A worker dies: its threads end where they are and its lock is gone.
LEMMA CrashInv ==
    ASSUME RecorderInv, NEW w \in Workers, Crash(w)
    PROVE  RecorderInv'
<1> DEFINE lost == {m \in Msgs : home[m] = w /\ Busy(m)}
<1>1. /\ pc' = [m \in Msgs |-> IF m \in lost THEN "end" ELSE pc[m]]
      /\ lock' = [lock EXCEPT ![w] = None]
      /\ message' = [m \in Msgs |->
            IF home[m] = w /\ message[m] = "pending" THEN "gone" ELSE message[m]]
      /\ UNCHANGED <<txHash, audit, sent, mined, reverted, records,
                     home, hash, nonce, price, result, accepted, early>>
  BY DEF Crash, node, history
<1>2. TypeOK'
  BY <1>1 DEF RecorderInv, TypeOK, Stages
<1>3. \A m \in Msgs :
         /\ pc'[m] \in {pc[m], "end"} /\ (pc[m] \in {"none", "end"} => pc'[m] = pc[m])
         /\ (home[m] = w => pc'[m] \in {"none", "end"})
         /\ message'[m] \in {message[m], "gone"}
         /\ (message[m] # "pending" => message'[m] = message[m])
  BY <1>1 DEF Busy
<1>4. ThreadsOK'
  BY <1>1, <1>3 DEF RecorderInv, ThreadsOK
<1>5. LockOK'
  <2> SUFFICES ASSUME NEW m \in Msgs, pc'[m] \in {"nonce", "send"}
               PROVE  lock'[home[m]] = m
    BY <1>1 DEF LockOK, Holding
  <2>1. home[m] # w /\ pc[m] \in {"nonce", "send"}
    BY <1>3
  <2>2. lock[home[m]] = m /\ home[m] \in Workers
    BY <2>1 DEF RecorderInv, LockOK, Holding, ThreadsOK
  <2> QED
    BY <1>1, <2>1, <2>2 DEF RecorderInv, TypeOK
<1>6. SentOK' /\ LockSerialises' /\ NoncesDiffer'
  <2>1. accepted \subseteq Msgs
    BY NodeFacts DEF RecorderInv
  <2>2. SentOK'
    BY <1>1, <1>3, <2>1 DEF RecorderInv, SentOK, After, Storing
  <2> QED
    BY <1>1, <1>3, <2>2 DEF RecorderInv, LockSerialises, NoncesDiffer
<1>7. \A m \in Msgs : Tx(m)' = Tx(m)
  BY <1>1, SameTx
<1>8. StoreOK' /\ MatchOK'
  <2>1. StoreOK'
    BY <1>1, <1>3, <1>7 DEF RecorderInv, StoreOK, Storing, IsMined
  <2> QED
    BY <1>1, <1>3, <2>1 DEF RecorderInv, MatchOK
<1>9. RecordsOK' /\ AuditIsTrue'
  BY <1>1 DEF RecorderInv, RecordsOK, AuditIsTrue
<1>10. OriginsOK'
  BY <1>1, <1>3, <1>7, AuditFacts DEF RecorderInv, OriginsOK
<1>11. RowMatchesAudit'
  <2>1. ASSUME NEW a \in audit, a.msg # None
        PROVE  message'[a.msg] = "live"
    <3>1. message[a.msg] = "live" /\ a.msg \in Msgs
      BY <2>1, AuditFacts DEF RecorderInv, RowMatchesAudit
    <3> QED
      BY <1>3, <3>1
  <2> QED
    BY <1>1, <2>1 DEF RecorderInv, RowMatchesAudit
<1> QED
  BY <1>2, <1>4, <1>5, <1>6, <1>8, <1>9, <1>10, <1>11 DEF RecorderInv

\* Mining touches neither what was mined before nor who sent it.
LEMMA MineInv ==
    ASSUME RecorderInv, Mine
    PROVE  RecorderInv'
<1> DEFINE digest == sent[mined + 1].hash
<1>1. /\ mined < Len(sent) /\ mined' = mined + 1
      /\ UNCHANGED <<sent, message, txHash, audit, home, hash, pc, nonce, price,
                     result, lock, accepted, early>>
      /\ reverted \subseteq reverted' /\ reverted' \subseteq reverted \cup {mined}
      /\ \/ records' = Append(records, digest)
         \/ records' = records /\ mined \in reverted'
  BY DEF Mine, rows, thread, history
<1>2. /\ mined \in Nat /\ Len(sent) \in Nat /\ digest \in Hashes /\ records \in Seq(Hashes)
      /\ \A m \in Msgs : nonce[m] \in Nat
  <2>1. mined \in Nat /\ Len(sent) \in Nat /\ mined + 1 \in 1..Len(sent)
    BY <1>1, NodeFacts DEF RecorderInv
  <2>2. sent[mined + 1] \in Transactions
    BY <2>1, NodeFacts DEF RecorderInv
  <2> QED
    BY <2>1, <2>2, NodeFacts DEF RecorderInv, TypeOK, Transactions
<1> HIDE DEF digest
<1>3. /\ records' \in Seq(Hashes) /\ Len(records) \in Nat
      /\ \A k \in 1..Len(records) : k \in 1..Len(records') /\ records'[k] = records[k]
  BY <1>1, <1>2, AppendProperties, LenProperties
<1>4. mined' \in 0..Len(sent') /\ reverted' \subseteq 0..(mined' - 1)
  BY <1>1, <1>2 DEF RecorderInv, TypeOK
<1>5. TypeOK'
  BY <1>1, <1>3, <1>4 DEF RecorderInv, TypeOK
<1>6. ThreadsOK' /\ LockOK' /\ SentOK' /\ LockSerialises' /\ NoncesDiffer' /\ MatchOK'
  BY <1>1 DEF RecorderInv, ThreadsOK, LockOK, Holding, SentOK, After, Storing,
              LockSerialises, NoncesDiffer, MatchOK
<1>7. \A m \in Msgs : Tx(m)' = Tx(m)
  BY <1>1, SameTx
<1>8. StoreOK'
  <2> SUFFICES ASSUME NEW m \in Msgs, Storing(m)
               PROVE  IsMined(m)' /\ nonce[m] \notin reverted'
    BY <1>1 DEF StoreOK, Storing
  <2>1. nonce[m] < mined /\ sent[nonce[m] + 1] = Tx(m) /\ nonce[m] \notin reverted
    BY DEF RecorderInv, StoreOK, IsMined
  <2>2. nonce[m] < mined' /\ nonce[m] \notin reverted'
    BY <1>1, <1>2, <2>1
  <2> QED
    BY <1>1, <1>7, <2>1, <2>2 DEF IsMined
<1>9. RecordsOK'
  <2> SUFFICES ASSUME NEW i \in 1..(mined + 1), i - 1 \notin reverted'
               PROVE  \E k \in 1..Len(records') : records'[k] = sent[i].hash
    BY <1>1 DEF RecordsOK
  <2>1. CASE i \in 1..mined
    <3>1. \E k \in 1..Len(records) : records[k] = sent[i].hash
      BY <1>1, <2>1 DEF RecorderInv, RecordsOK
    <3> QED
      BY <1>3, <3>1
  <2>2. CASE i = mined + 1
    <3>1. i - 1 = mined
      BY <1>2, <2>2
    <3>2. records' = Append(records, digest)
      BY <1>1, <3>1
    <3>3. Len(records') = Len(records) + 1 /\ records'[Len(records) + 1] = digest
      BY <1>2, <3>2, AppendProperties
    <3>4. Len(records) + 1 \in 1..Len(records')
      BY <1>3, <3>3
    <3> QED
      BY <2>2, <3>3, <3>4 DEF digest
  <2> QED
    BY <1>2, <2>1, <2>2
<1>10. AuditIsTrue'
  <2> SUFFICES ASSUME NEW a \in audit
               PROVE  /\ a.tx.nonce < mined' /\ a.tx.nonce \notin reverted'
                      /\ sent[a.tx.nonce + 1] = a.tx /\ a.tx.hash = a.digest
                      /\ \E k \in 1..Len(records') : records'[k] = a.digest
    BY <1>1 DEF AuditIsTrue
  <2>1. /\ a.tx.nonce < mined /\ a.tx.nonce \notin reverted
        /\ sent[a.tx.nonce + 1] = a.tx /\ a.tx.hash = a.digest
        /\ \E k \in 1..Len(records) : records[k] = a.digest
    BY DEF RecorderInv, AuditIsTrue
  <2>2. a.tx.nonce < mined' /\ a.tx.nonce \notin reverted'
    BY <1>1, <1>2, <2>1, AuditFacts
  <2> QED
    BY <1>3, <2>1, <2>2
<1>11. OriginsOK'
  BY <1>1, <1>7, AuditFacts DEF RecorderInv, OriginsOK
<1>12. RowMatchesAudit'
  BY <1>1 DEF RecorderInv, RowMatchesAudit
<1> QED
  BY <1>5, <1>6, <1>8, <1>9, <1>10, <1>11, <1>12 DEF RecorderInv

LEMMA InitInv == Init => RecorderInv
<1> SUFFICES ASSUME Init PROVE RecorderInv
  OBVIOUS
<1>1. /\ sent = << >> /\ Len(sent) = 0 /\ records = << >> /\ audit = {} /\ mined = 0
      /\ accepted = {} /\ early = {} /\ \A m \in Msgs : pc[m] = "none" /\ txHash[m] = None
  BY DEF Init
<1>2. (CHOOSE p \in Prices : TRUE) \in Prices
  BY RecorderAssumptions
<1>3. TypeOK
  BY <1>1, <1>2, EmptySeq DEF Init, TypeOK, Stages
<1>4. ThreadsOK /\ LockOK /\ StoreOK /\ MatchOK /\ SentOK
  BY <1>1 DEF ThreadsOK, LockOK, Holding, StoreOK, Storing, MatchOK, SentOK, After
<1>5. LockSerialises /\ NoncesDiffer /\ RecordsOK /\ AuditIsTrue /\ OriginsOK /\ RowMatchesAudit
  BY <1>1 DEF LockSerialises, NoncesDiffer, RecordsOK, AuditIsTrue, OriginsOK, RowMatchesAudit
<1> QED
  BY <1>3, <1>4, <1>5 DEF RecorderInv

LEMMA NextInv == RecorderInv /\ Next => RecorderInv'
<1> SUFFICES ASSUME RecorderInv, Next PROVE RecorderInv'
  OBVIOUS
<1>1. ASSUME NEW m \in Msgs, Step(m)
      PROVE  RecorderInv'
  BY <1>1, AcquireInv, FetchNonceInv, WaitInv, UpdateInv, InsertInv DEF Step
<1>2. ASSUME NEW m \in Msgs, NEW w \in Workers, NEW h \in Hashes, Submit(m, w, h)
      PROVE  RecorderInv'
  BY <1>2, SubmitInv
<1>3. ASSUME NEW m \in Msgs, Commit(m) \/ Abort(m) \/ DeleteMessage(m)
      PROVE  RecorderInv'
  BY <1>3, HandlerInv, DeleteInv
<1> QED
  BY <1>1, <1>2, <1>3, CrashInv, MineInv DEF Next

LEMMA StutterInv == RecorderInv /\ UNCHANGED vars => RecorderInv'
<1> SUFFICES ASSUME RecorderInv, UNCHANGED vars PROVE RecorderInv'
  OBVIOUS
<1>1. UNCHANGED <<message, txHash, audit, sent, mined, reverted, records, home, hash, pc,
                  nonce, price, result, lock, accepted, early>>
  BY DEF vars, rows, node, thread, history
<1> QED
  BY <1>1 DEF RecorderInv, TypeOK, ThreadsOK, LockOK, Holding, SentOK, After, Storing,
     LockSerialises, NoncesDiffer, StoreOK, IsMined, Tx, MatchOK, RecordsOK, AuditIsTrue,
     OriginsOK, RowMatchesAudit

-----------------------------------------------------------------------------
(* The theorems.                                                           *)

\* Every step of threads, handlers, workers and node preserves the invariant.
THEOREM RecorderInvariance == Spec => []RecorderInv
BY InitInv, NextInv, StutterInv, PTL DEF Spec

\* The variables of the recorder, the database and the node keep their types.
THEOREM RecorderTypesHold == Spec => []TypeOK
<1>1. RecorderInv => TypeOK
  BY DEF RecorderInv
<1> QED
  BY <1>1, RecorderInvariance, PTL

\* _nonce_lock: no thread of the same process sends between a thread's nonce
\* fetch and its send, whatever crashes and errors release the lock.
THEOREM LockIsMutex == Spec => []LockSerialises
<1>1. RecorderInv => LockSerialises
  BY DEF RecorderInv
<1> QED
  BY <1>1, RecorderInvariance, PTL

\* blockchain_records never claims what the chain does not hold.
THEOREM AuditNeverLies == Spec => []AuditIsTrue
<1>1. RecorderInv => AuditIsTrue
  BY DEF RecorderInv
<1> QED
  BY <1>1, RecorderInvariance, PTL

\* messages.tx_hash and blockchain_records agree as far as two statements of
\* store_blockchain_record can make them, through commits and deletions
\* between the two.
THEOREM RowsAgree == Spec => []RowMatchesAudit
<1>1. RecorderInv => RowMatchesAudit
  BY DEF RecorderInv
<1> QED
  BY <1>1, RecorderInvariance, PTL

\* No transaction is claimed by two audit rows of one process.
THEOREM TransactionClaimedOnce == Spec => []OneRowPerTransaction
<1>1. RecorderInv => OneRowPerTransaction
  <2> SUFFICES ASSUME RecorderInv, NEW a \in audit, NEW b \in audit,
                      a.tx = b.tx, home[a.id] = home[b.id]
               PROVE  a = b
    BY DEF OneRowPerTransaction
  <2>1. nonce[a.id] = nonce[b.id]
    <3>1. Tx(a.id) = Tx(b.id)
      BY AuditFacts
    <3>2. Tx(a.id).nonce = nonce[a.id] /\ Tx(b.id).nonce = nonce[b.id]
      BY DEF Tx
    <3> QED
      BY <3>1, <3>2
  <2>2. a.id = b.id
    BY <2>1, AuditFacts DEF RecorderInv, NoncesDiffer
  <2> QED
    BY <2>2 DEF RecorderInv, OriginsOK
<1> QED
  BY <1>1, RecorderInvariance, PTL

\* The verification page confirms, with the hash a message shows, exactly the
\* text of that message (verify.js; models.py: store_blockchain_record).
THEOREM PageConfirmsTheMessage == Spec => []PageAgrees
<1>1. RecorderInv => PageAgrees
  <2> SUFFICES ASSUME RecorderInv, NEW m \in Msgs, NEW h \in Hashes, txHash[m] # None
               PROVE  verify(h, txHash[m]) = IF h = hash[m] THEN "match" ELSE "mismatch"
    BY DEF PageAgrees
  <2>1. PICK a \in audit : a.msg = m /\ a.tx = txHash[m]
    BY DEF RecorderInv, RowMatchesAudit
  <2>2. a.id = m /\ a.tx = Tx(m)
    BY <2>1, AuditFacts, RecorderAssumptions
  <2>3. /\ a.tx.nonce < mined /\ a.tx.nonce \notin reverted
        /\ sent[a.tx.nonce + 1] = a.tx
    BY DEF RecorderInv, AuditIsTrue
  <2>4. a.tx.hash = hash[m]
    BY <2>2 DEF Tx
  <2>5. HasReceipt(txHash[m]) /\ RecordedBy(txHash[m]) = <<hash[m]>>
    BY <2>1, <2>3, <2>4 DEF HasReceipt, RecordedBy
  <2>6. <<hash[m]>> # << >> /\ Head(<<hash[m]>>) = hash[m]
    OBVIOUS
  <2> QED
    BY <2>5, <2>6 DEF verify
<1> QED
  BY <1>1, RecorderInvariance, PTL
=============================================================================
