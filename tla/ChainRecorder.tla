--------------------------- MODULE ChainRecorder ---------------------------
(***************************************************************************)
(* The recording of message digests on chain: send_message starts a daemon *)
(* thread (routes.py _record_and_store) that sends a transaction under the *)
(* process's _nonce_lock (blockchain.py record_digest), waits for its      *)
(* receipt and writes messages.tx_hash and blockchain_records (models.py   *)
(* store_blockchain_record).  wsgi.py runs several worker processes, each  *)
(* with a lock of its own; all sign for one account.                       *)
(*                                                                         *)
(* The node and the chain are external: a pool ordered by nonce, mined in  *)
(* that order, in which a transaction not yet mined may be replaced by     *)
(* another one with its nonce.  The thread starts before the handler's     *)
(* transaction commits, so the message may still be invisible to it.       *)
(***************************************************************************)
EXTENDS Naturals, Sequences

CONSTANTS
    Workers,   \* gunicorn processes
    Msgs,      \* messages sent with a content_hash; one thread each
    Hashes,    \* content hashes
    Prices,    \* of a transaction, all but its nonce and digest: gas, gas price
    None,
    Events     \* what the environment may do, a subset of AllEvents

\* rpc: a call to the node fails or its reply is lost; timeout: no receipt
\* within 120 s; revert: receipt with status 0; crash: a worker dies; db: a
\* statement fails; abort: the handler's transaction fails; delete: a user
\* deletes the message; slow_commit: the handler commits later than its
\* thread gets to the database.
AllEvents == {"rpc", "timeout", "revert", "crash", "db", "abort", "delete",
              "slow_commit"}

ASSUME RecorderAssumptions ==
    /\ Events \subseteq AllEvents
    /\ None \notin Workers \cup Msgs \cup Hashes \cup [nonce : Nat, hash : Hashes, price : Prices]
    /\ Prices # {}

VARIABLES
    message,   \* msg -> "new", "pending" (uncommitted), "live" or "gone"
    home,      \* msg -> the worker that serves it
    hash,      \* msg -> its content hash
    pc,        \* msg -> the stage of its thread
    nonce,     \* msg -> the nonce its thread fetched
    price,     \* msg -> the gas and the price its thread put in
    result,    \* msg -> what record_digest returned: "none" yet, "hash", "null"
    lock,      \* worker -> the thread that holds _nonce_lock, or None
    sent,      \* node: nonce + 1 -> the transaction accepted with that nonce
    mined,     \* node: how many of them are mined
    reverted,  \* node: nonces mined with status 0
    records,   \* the contract's array
    txHash,    \* messages.tx_hash: msg -> a transaction or None
    audit,     \* blockchain_records; the id of a row is that of its first message
    accepted,  \* history: the threads whose transaction the node accepted
    early      \* history: the threads that wrote before their message was committed

rows    == <<message, txHash, audit>>
node    == <<sent, mined, reverted, records>>
history == <<accepted, early>>
thread  == <<home, hash, pc, nonce, price, result, lock>>
vars    == <<rows, node, thread, history>>

\* After the UPDATE a thread is "matched" or "missed": it found the row or not.
Stages == {"none", "acquire", "nonce", "send", "wait", "store", "matched", "missed", "end"}

Busy(m) == pc[m] \notin {"none", "end"}

-----------------------------------------------------------------------------
(* The handler and the message row.                                        *)

\* send_message: the INSERT, then the thread, then (later) the commit.
Submit(m, w, h) ==
    /\ message[m] = "new"
    /\ message' = [message EXCEPT ![m] = "pending"]
    /\ home' = [home EXCEPT ![m] = w]
    /\ hash' = [hash EXCEPT ![m] = h]
    /\ pc' = [pc EXCEPT ![m] = "acquire"]
    /\ UNCHANGED <<txHash, audit, node, nonce, price, result, lock, history>>

\* close_conn commits.
Commit(m) ==
    /\ message[m] = "pending"
    /\ message' = [message EXCEPT ![m] = "live"]
    /\ UNCHANGED <<txHash, audit, node, thread, history>>

\* The commit fails: the row was never there.
Abort(m) ==
    /\ "abort" \in Events
    /\ message[m] = "pending"
    /\ message' = [message EXCEPT ![m] = "gone"]
    /\ UNCHANGED <<txHash, audit, node, thread, history>>

\* Mutant: the audit row keeps the id of the deleted message.
OrphanedNone(m) == audit

\* ON DELETE SET NULL of blockchain_records.message_id.
Orphaned(m) ==
    {IF a.msg = m THEN [a EXCEPT !.msg = None] ELSE a : a \in audit}

\* Message.delete.  It waits for the row lock of a thread whose UPDATE found
\* the row.
DeleteMessage(m) ==
    /\ "delete" \in Events
    /\ message[m] = "live" /\ pc[m] # "matched"
    /\ message' = [message EXCEPT ![m] = "gone"]
    /\ txHash' = [txHash EXCEPT ![m] = None]
    /\ audit' = Orphaned(m)
    /\ UNCHANGED <<node, thread, history>>

-----------------------------------------------------------------------------
(* The thread.                                                             *)

Release(m) == lock' = [lock EXCEPT ![home[m]] = None]

Ends(m, returned) ==
    /\ pc' = [pc EXCEPT ![m] = "end"]
    /\ result' = [result EXCEPT ![m] = returned]

\* Mutant: no lock around nonce fetch and send.
AcquireAnyway(m) ==
    /\ pc[m] = "acquire"
    /\ lock' = [lock EXCEPT ![home[m]] = m]
    /\ pc' = [pc EXCEPT ![m] = "nonce"]
    /\ UNCHANGED <<rows, node, home, hash, nonce, price, result, history>>

\* with _nonce_lock
Acquire(m) ==
    /\ pc[m] = "acquire" /\ lock[home[m]] = None
    /\ lock' = [lock EXCEPT ![home[m]] = m]
    /\ pc' = [pc EXCEPT ![m] = "nonce"]
    /\ UNCHANGED <<rows, node, home, hash, nonce, price, result, history>>

\* build_transaction and sign_transaction with this nonce.
Build(m, n) ==
    /\ pc[m] = "nonce"
    /\ nonce' = [nonce EXCEPT ![m] = n]
    /\ \E p \in Prices : price' = [price EXCEPT ![m] = p]
    /\ pc' = [pc EXCEPT ![m] = "send"]
    /\ UNCHANGED <<rows, node, home, hash, result, lock, history>>

\* Mutant: the nonce of the last transaction instead of the next one.
FetchNonceLast(m) == Build(m, Len(sent) - 1)

\* Mutant: get_transaction_count(address, 'latest').
FetchNonceLatest(m) == Build(m, mined)

\* get_transaction_count(address, 'pending'); gas estimate, price and
\* signature follow without reading the account again.
FetchNonce(m) == Build(m, Len(sent))

\* What is signed, and so the transaction's hash: the message is not in it.
Tx(m) == [nonce |-> nonce[m], hash |-> hash[m], price |-> price[m]]

\* What the node does with the transaction of m: it accepts a new nonce and
\* may accept one in place of a transaction not mined yet, which may be the
\* very same one.
Accept(m) ==
    /\ \/ nonce[m] = Len(sent) /\ sent' = Append(sent, Tx(m))
       \/ /\ mined <= nonce[m] /\ nonce[m] < Len(sent)
          /\ sent' = [sent EXCEPT ![nonce[m] + 1] = Tx(m)]
    /\ accepted' = accepted \cup {m}
    /\ UNCHANGED <<mined, reverted, records>>

\* send_raw_transaction returns the hash and the lock is released.
Broadcast(m) ==
    /\ pc[m] = "send"
    /\ Accept(m)
    /\ Release(m)
    /\ pc' = [pc EXCEPT ![m] = "wait"]
    /\ UNCHANGED <<rows, home, hash, nonce, price, result, early>>

\* The node refuses a nonce that is taken, or a transaction it already knows:
\* record_digest returns None.
Rejected(m) ==
    /\ pc[m] = "send" /\ nonce[m] < Len(sent)
    /\ Release(m)
    /\ Ends(m, "null")
    /\ UNCHANGED <<rows, node, home, hash, nonce, price, history>>

\* Mutant: an error under the lock leaves it held.
RpcErrorHolding(m) ==
    /\ "rpc" \in Events
    /\ \/ pc[m] \in {"nonce", "send"} /\ UNCHANGED <<node, accepted>>
       \/ pc[m] = "send" /\ Accept(m)
    /\ Ends(m, "null")
    /\ UNCHANGED <<rows, home, hash, nonce, price, lock, early>>

\* A call under the lock raises; send_raw_transaction may have been accepted.
RpcError(m) ==
    /\ "rpc" \in Events
    /\ \/ pc[m] \in {"nonce", "send"} /\ UNCHANGED <<node, accepted>>
       \/ pc[m] = "send" /\ Accept(m)
    /\ Release(m)
    /\ Ends(m, "null")
    /\ UNCHANGED <<rows, home, hash, nonce, price, early>>

\* Mutant: the receipt of whatever was mined with the nonce.
IsMinedByNonce(m) == nonce[m] < mined

\* The node finds a receipt by the hash of the transaction.
IsMined(m) == nonce[m] < mined /\ sent[nonce[m] + 1] = Tx(m)

\* Mutant: the status of the receipt is not looked at.
ReceiptAnyStatus(m) ==
    /\ pc[m] = "wait" /\ IsMined(m)
    /\ pc' = [pc EXCEPT ![m] = "store"]
    /\ result' = [result EXCEPT ![m] = "hash"]
    /\ UNCHANGED <<rows, node, home, hash, nonce, price, lock, history>>

\* wait_for_transaction_receipt returns; only status 1 counts.
Receipt(m) ==
    /\ pc[m] = "wait" /\ IsMined(m)
    /\ IF nonce[m] \in reverted
       THEN Ends(m, "null")
       ELSE /\ pc' = [pc EXCEPT ![m] = "store"]
            /\ result' = [result EXCEPT ![m] = "hash"]
    /\ UNCHANGED <<rows, node, home, hash, nonce, price, lock, history>>

\* ... or raises after 120 seconds.
Timeout(m) ==
    /\ "timeout" \in Events
    /\ pc[m] = "wait"
    /\ Ends(m, "null")
    /\ UNCHANGED <<rows, node, home, hash, nonce, price, lock, history>>

\* Message.store_blockchain_record, the UPDATE.  It sees the row if it is
\* committed and locks it until the thread's own commit, which is what makes
\* the new tx_hash visible.
Update(m) ==
    /\ pc[m] = "store"
    /\ message[m] = "pending" => "slow_commit" \in Events
    /\ pc' = [pc EXCEPT ![m] = IF message[m] = "live" THEN "matched" ELSE "missed"]
    /\ early' = IF message[m] = "pending" THEN early \cup {m} ELSE early
    /\ UNCHANGED <<rows, node, home, hash, nonce, price, result, lock, accepted>>

Record(m) == [id |-> m, msg |-> m, tx |-> Tx(m), digest |-> hash[m]]

\* The INSERT, a statement with a snapshot of its own, and close_conn's
\* commit, before which the inserted row locks the message.  Without a
\* committed message the foreign key fails, the exception is caught, and the
\* commit of the failed transaction rolls back.
Insert(m) ==
    /\ pc[m] \in {"matched", "missed"}
    /\ IF message[m] = "live"
       THEN /\ audit' = audit \cup {Record(m)}
            /\ txHash' = IF pc[m] = "matched" THEN [txHash EXCEPT ![m] = Tx(m)] ELSE txHash
       ELSE UNCHANGED <<txHash, audit>>
    /\ Ends(m, result[m])
    /\ UNCHANGED <<message, node, home, hash, nonce, price, lock, history>>

\* A statement or the commit raises: nothing of the transaction remains.
DbError(m) ==
    /\ "db" \in Events
    /\ pc[m] \in {"store", "matched", "missed"}
    /\ Ends(m, result[m])
    /\ UNCHANGED <<rows, node, home, hash, nonce, price, lock, history>>

Step(m) ==
    \/ Acquire(m) \/ FetchNonce(m) \/ Broadcast(m) \/ Rejected(m) \/ RpcError(m)
    \/ Receipt(m) \/ Timeout(m) \/ Update(m) \/ Insert(m) \/ DbError(m)

-----------------------------------------------------------------------------
(* The worker and the node.                                                *)

\* A worker dies: its daemon threads and open transactions die with it.
Crash(w) ==
    LET lost == {m \in Msgs : home[m] = w /\ Busy(m)} IN
    /\ "crash" \in Events
    /\ lost # {}
    /\ pc' = [m \in Msgs |-> IF m \in lost THEN "end" ELSE pc[m]]
    /\ lock' = [lock EXCEPT ![w] = None]
    /\ message' = [m \in Msgs |->
          IF home[m] = w /\ message[m] = "pending" THEN "gone" ELSE message[m]]
    /\ UNCHANGED <<txHash, audit, node, home, hash, nonce, price, result, history>>

\* The next transaction is mined and runs recordDigest.
Mine ==
    /\ mined < Len(sent)
    /\ mined' = mined + 1
    /\ \/ /\ records' = Append(records, sent[mined + 1].hash)
          /\ UNCHANGED reverted
       \/ /\ "revert" \in Events
          /\ reverted' = reverted \cup {mined}
          /\ UNCHANGED records
    /\ UNCHANGED <<sent, rows, thread, history>>

Init ==
    /\ message = [m \in Msgs |-> "new"]
    /\ home = [m \in Msgs |-> None]
    /\ hash = [m \in Msgs |-> None]
    /\ pc = [m \in Msgs |-> "none"]
    /\ nonce = [m \in Msgs |-> 0]
    /\ price = [m \in Msgs |-> CHOOSE p \in Prices : TRUE]
    /\ result = [m \in Msgs |-> "none"]
    /\ lock = [w \in Workers |-> None]
    /\ sent = << >> /\ mined = 0 /\ reverted = {} /\ records = << >>
    /\ txHash = [m \in Msgs |-> None]
    /\ audit = {}
    /\ accepted = {} /\ early = {}

Next ==
    \/ Mine
    \/ \E w \in Workers : Crash(w)
    \/ \E m \in Msgs :
        \/ \E w \in Workers, h \in Hashes : Submit(m, w, h)
        \/ Commit(m) \/ Abort(m) \/ DeleteMessage(m)
        \/ Step(m)

Spec == Init /\ [][Next]_vars

\* Every RPC call and statement returns or raises, and a handler commits or
\* fails; mining is promised by nobody, the receipt timeout is.
Fairness ==
    \A m \in Msgs : WF_vars(Step(m)) /\ WF_vars(Commit(m) \/ Abort(m))

FairSpec == Spec /\ Fairness

-----------------------------------------------------------------------------
(* The verification page, which asks the node and not the server.          *)

\* External: whether a transaction has a receipt, and the digests of the
\* DigestRecorded events in it.
HasReceipt(t) == t.nonce < mined /\ sent[t.nonce + 1] = t
RecordedBy(t) == IF t.nonce \in reverted THEN << >> ELSE <<t.hash>>

\* verify: what the page answers about a text, here its digest, and a
\* transaction.  The first event counts, whichever contract emitted it.  When
\* a call fails the page shows an error and says nothing of the text.
verify(digest, t) ==
    CASE ~HasReceipt(t) -> "not found"
      [] HasReceipt(t) /\ RecordedBy(t) = << >> -> "no event"
      [] HasReceipt(t) /\ RecordedBy(t) # << >> ->
            IF Head(RecordedBy(t)) = digest THEN "match" ELSE "mismatch"

-----------------------------------------------------------------------------
(* Properties.                                                             *)

Transactions == [nonce : Nat, hash : Hashes, price : Prices]
Audits == [id : Msgs, msg : Msgs \cup {None}, tx : Transactions, digest : Hashes]

\* Every variable keeps its type.
TypeOK ==
    /\ message \in [Msgs -> {"new", "pending", "live", "gone"}]
    /\ home \in [Msgs -> Workers \cup {None}]
    /\ hash \in [Msgs -> Hashes \cup {None}]
    /\ pc \in [Msgs -> Stages]
    /\ nonce \in [Msgs -> Nat]
    /\ price \in [Msgs -> Prices]
    /\ result \in [Msgs -> {"none", "hash", "null"}]
    /\ lock \in [Workers -> Msgs \cup {None}]
    /\ sent \in Seq(Transactions)
    /\ mined \in 0..Len(sent)
    /\ reverted \subseteq 0..(mined - 1)
    /\ records \in Seq(Hashes)
    /\ txHash \in [Msgs -> Transactions \cup {None}]
    /\ audit \subseteq Audits
    /\ accepted \subseteq Msgs /\ early \subseteq Msgs

\* "serialise sends so nonces never collide" (blockchain.py:26): when a
\* thread is about to send, the nonce it fetched is still the next one.
NoncesNeverCollide ==
    \A m \in Msgs : pc[m] = "send" => nonce[m] = Len(sent)

\* What the lock does guarantee, however many processes there are: between a
\* thread's nonce fetch and its send the node accepts nothing with this or a
\* later nonce from another thread of the same process.
LockSerialises ==
    \A m \in Msgs : pc[m] = "send" =>
        \A q \in accepted : home[q] = home[m] => nonce[q] < nonce[m]

\* Every audit row is true: its transaction, by nonce, content and so hash,
\* was mined with status 1, and the contract's array holds its digest,
\* whoever replaced, timed out or crashed meanwhile.
AuditIsTrue ==
    \A a \in audit :
        /\ a.tx.nonce < mined /\ a.tx.nonce \notin reverted
        /\ sent[a.tx.nonce + 1] = a.tx /\ a.tx.hash = a.digest
        /\ \E i \in 1..Len(records) : records[i] = a.digest

\* What two statements at READ COMMITTED keep of "Store the Sepolia tx hash
\* on the message and in the audit table" (models.py:120), whatever the
\* handler commits and whoever deletes between them: a message shows a hash
\* only with an audit row of that hash linked to it; a linked row belongs to
\* a live message, which shows the same hash, or none if the UPDATE ran
\* before the message was committed; the row of a deleted message remains
\* and is linked to nothing.
RowMatchesAudit ==
    /\ \A m \in Msgs : txHash[m] # None =>
          \E a \in audit : a.msg = m /\ a.tx = txHash[m]
    /\ \A a \in audit : a.msg # None =>
          /\ message[a.msg] = "live"
          /\ txHash[a.msg] = IF a.msg \in early THEN None ELSE a.tx

\* Two audit rows claim one transaction only when two processes signed the
\* very same one, with one nonce, digest and price: threads of one process
\* never do, through crashes and lost replies.
OneRowPerTransaction ==
    \A a, b \in audit : a.tx = b.tx => a = b \/ home[a.id] # home[b.id]

\* With the hash that a message shows, the verification page (verify.js)
\* confirms the text whose digest was sent with the message and calls every
\* other altered; it never answers that there is no such transaction, or no
\* record in it, however the node replaced, reverted or lost transactions.
PageAgrees ==
    \A m \in Msgs, h \in Hashes : txHash[m] # None =>
        verify(h, txHash[m]) = IF h = hash[m] THEN "match" ELSE "mismatch"

\* Every thread ends and frees the lock of its process.
ThreadsEnd == \A m \in Msgs : pc[m] = "acquire" ~> pc[m] = "end"

\* "The tx_hash is stored in the DB once the RPC call comes back"
\* (routes.py:71), "on the message and in the audit table" (models.py:120).
ReturnedIsStored ==
    \A m \in Msgs : pc[m] = "end" /\ result[m] = "hash" /\ message[m] = "live" =>
        /\ txHash[m] = Tx(m)
        /\ \E a \in audit : a.msg = m /\ a.tx = Tx(m)
=============================================================================
