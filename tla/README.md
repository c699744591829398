# Formal models of the Secure Messaging Application

TLA+ specifications of the server of this repository (a Flask API over
PostgreSQL, with digests recorded on an Ethereum contract) and of its web
client, model-checked with TLC, and machine-checked proofs (TLAPS) of every
safety property the runs check.

Paths below are relative to the repository. `PROJECT.json` lists the runs, the
lines each definition stands for, the hazards, the findings and the theorems.

    tlc -workers 2 -config MCMessageService.cfg MCMessageService.tla
    tlapm MessageServiceProofs.tla

## 1. Inventory

| Component | State it keeps | Operations | Interacts with |
|---|---|---|---|
| Message endpoints (`server/app/routes.py`, `models.py: Message`) | tables `messages`, `message_access` | send, list, get, delete, forward, grant, revoke | every request first passes `token_required`; a send starts a recorder thread |
| Tokens and accounts (`auth_routes.py`, `jwt_utils.py`, `models.py: User, RevokedToken`) | tables `users`, `revoked_tokens`; the clock | register, login, refresh, logout, `verify_token` | all clients |
| Chain recorder (`blockchain.py`, `routes.py: _record_and_store`, `Message.store_blockchain_record`) | `_nonce_lock` of each process, `messages.tx_hash`, `blockchain_records` | one background thread per recorded message | the Ethereum node, the request that started it, deletes |
| On-chain rate limit (`routes.py: _blockchain_rate_ok`) | `_bc_rate`, a dictionary per process | admit or refuse | send |
| `MessageDigest.sol` | `owner`, the array `records` | recordDigest, getRecord, getRecordCount | the recorder writes; its event `DigestRecorded` is what the verification page reads |
| Connections (`db.py`) | a pool of ten per process, one connection in `g` | getconn, commit or rollback, putconn | every handler and every recorder thread |
| Web client (`client/web/js/app.js`) | session in memory and `sessionStorage`, the rendered list | login, refresh and retry, logout, send, read, forward; HPKE seal and open | the API |
| C++ client (`client/cpp`) | tokens, `MessageStore`, `Conversation` | login, send, fetch, search, sort | the API |
| Verification page (`blockchain/verification`) | none | hash a text, look up a transaction, compare | the node: receipts and their events |
| Validation (`validators.py`) | none | accept or refuse a body | every handler; must agree with what the client sends |
| Deployment (`blockchain/scripts/deploy.py`, the set-up in `blockchain.py`) | `abi/MessageDigest.json`, `DEPLOYER_PRIVATE_KEY` | deploy, write the file; read it at start | the node, the recorders that sign with the same key |
| Server-side HPKE (`crypto.py`) | none | seal, open, wrap, unwrap | none: a mirror of the client's functions |
| Application set-up, TLS test helper, migrations | none that changes | | |

What is hard here:

* Requests of several threads and processes interleave statement by statement
  at READ COMMITTED. Handlers authorise on a row loaded earlier, then write by id.
* A reply may be lost after the commit; a statement may fail.
* `verify_token` reads the clock and the denylist at two moments, a refresh
  checks and revokes its token in two statements.
* The recorder runs beside the request that started it, on a connection of its
  own, under a lock that is per process while the signing account is shared;
  it can time out, fail or die at every step while the message is deleted.
* Request threads and recorder threads of a process share a connection pool
  that does no locking and, in `putconn`, removes a key after it has given the
  connection back. A commit that raises loses a slot for good.
* The recorder's UPDATE and INSERT see the database at two moments, with the
  handler's commit or a delete between them.
* The rate limit reads the clock before it takes its lock.
* In the browser every await may end in another user's session: keys, tokens
  and list are read after the await, not before it.
* A deployment and the running workers draw nonces of one account, by two
  different rules, and the file that links them is written in two steps.

## 2. Modules

| Module | Role |
|---|---|
| `MessageTypes` | users, ids, rows, grants and calls shared by the next two |
| `AccessControl` | the abstract contract of the message endpoints: each change one atomic, authorised step; each answer true |
| `MessageService` | the seven handlers, one step per SQL statement; `Contract == INSTANCE AccessControl` |
| `MessageServiceProofs` | invariance, safety theorems and the refinement proof |
| `TokenService` | accounts, token pairs, refresh, logout, denylist, clock |
| `TokenServiceProofs` | which tokens are accepted, what a logout and a refresh spend |
| `ChainRecorder` | recorder threads, worker processes, node and contract, the verification page |
| `ChainRecorderProofs` | the lock, the truth of the audit rows, what the page says of them |
| `WebSession` | the web client's session: apiFetch, refresh and retry, clicks, logout, reload |
| `WebSessionProofs` | what holds however clicks overlap, and for a user who waits |
| `RateLimiter` | the window of on-chain records of one process |
| `ConnPool` | the connection pool of one process and the threads that use it |
| `SendPath` | `RateLimiter` and `ConnPool` composed: sends and their recorder threads in one process |
| `RateLimiterProofs`, `SendPathProofs` | the bound of the limit; who holds a connection, what becomes of lost slots |
| `Sealing` | the encryption of messages and keys, symbolically, in both languages |
| `Validation` | the request bodies the server accepts |
| `Exchange` | `Sealing` and `Validation` composed with the client's flows and the endpoints |
| `ExchangeProofs` | what opens, what is authentic, delivered and refused |
| `Deployment`, `DeploymentProofs` | contract, file, workers and node from deployment to record |
| `MC*` | symmetry and state constraints for TLC |

Definitions whose comment begins with *Mutant* are faulty variants of the
definition that follows them. No specification uses them: put in its place,
each makes TLC refute one property, which shows that the property can fail.

### 2.1 MessageService

A request slot `r` runs one handler. `call[r]` is the request (handler, caller,
message, target), `pc[r]` the statement that runs next, `row[r]` the dictionary
`Message.get_by_id` returned, `status[r]` and `seen[r]` the answer.

| Code | Actions |
|---|---|
| `token_required` accepts | `Receive` |
| `Message.get_by_id` and the ownership tests after it | `Load` / `Loaded` |
| `_can_access` | `Loaded` for the parties, `CheckGrant` for the query |
| `User.get_by_id` | `FindRecipient` (send, forward), `FindTarget` (grant) |
| `Message.create, delete, grant_access, revoke_access` | `Create`, `Delete`, `Grant`, `Revoke` |
| `Message.get_for_user` | `List` |
| answer, lost reply, raising statement, end of the connection | `Reply`, `Fail`, `Finish` |

A SELECT sees what is committed when it runs, so each is a step. Each handler
has at most one writing statement and it is its last one, so statement and
commit (`close_conn`) are one step: a rival that touches the row waits for the
row lock, a rival that reads sees the old rows until the commit. `Create` takes
any id never issued: sequences promise no order of commits. `Fail` covers a
statement that raises (500 from the model method's `except` or from the
application's error handler) and a reply lost after the commit.

A row is what the handlers read of it: id, sender, recipient, text. Its
`tx_hash`, which no test of these handlers looks at and which a recorder thread
sets later, is in ChainRecorder.

`held[r]` and `kept[r]` are history variables: the messages the caller could
read at some, and at every, moment of the request.

The contract `AccessControl` knows nothing of statements. A call is open, then
effective (its change happened, in one step, allowed to the caller at that
moment), then answered. An answer *ok* to a write needs an effect, a read shows
everything in `kept` and nothing outside `held`, *denied* needs a reason that
holds, *error* promises nothing. The mapping reads phase and reply off `pc` and
`status`; the other variables map to themselves.

### 2.2 TokenService

Tokens come in pairs from `create_tokens`; the jtis of pair `p` are
`<<p, "access">>` and `<<p, "refresh">>`. A pair becomes usable when the reply
that carries it is delivered. `verify_token` is two steps: `Decode` (signature
and exp) and `CheckDenylist`. `logout` does both for both tokens
(`DecodeRefresh`, `CheckDenylistRefresh`) before `Revoke` writes both rows.
`RegisterInsert` is decided by `UNIQUE(username)`; the loser goes on in an
aborted transaction (`RegisterRecheck`). `Tick` moves the clock. `Purge` is the
operator of `schema.sql:36`, present when the constant `Purging` is true.
`live[r]` records whether the tokens were good when the request arrived.
A login of an account from before migration 002 (409) is left out: it reads
and changes nothing. So is the type test of `jwt_utils.py:90`: where the code
wants an access or a refresh token, the model's requests carry one.

### 2.3 ChainRecorder

One thread per message, identified with it. `Submit` is `send_message` up to
the start of the thread; `Commit` or `Abort` is the end of that request.
`Acquire`, `FetchNonce`, `Broadcast`, `Rejected` and `RpcError` are the code
under `_nonce_lock`; `Receipt` and `Timeout` the wait for the receipt.
`store_blockchain_record` is `Update`, `Insert` and `DbError`: at READ COMMITTED
the two statements have a snapshot each. An UPDATE that finds the row (stage
"matched") locks it, so a delete waits; one that runs before the handler's
commit finds none ("missed"), and if the commit comes before the INSERT the
foreign key holds and only the audit row is written. What the UPDATE sets
becomes visible with the thread's own commit, which is the end of `Insert`.
`Crash` kills a worker with its threads and open transactions.

The node is external: it accepts the next nonce, may replace a transaction not
yet mined by another with its nonce, and mines in order (`Mine`, which runs
`recordDigest` and emits `DigestRecorded`; every transaction here is the
owner's, what becomes of another account's is `Owned` in Deployment). A
transaction is what is signed: nonce, digest and the price the thread found
(`Prices` stands for gas and gas price). The message is not in it, so two workers with one nonce, one digest and
one price sign the very same transaction and may both get its receipt. An audit
row is named by the message of its thread, as a row has an id of its own.

`verify` is the verification page: no receipt under the hash ("not found"), a
receipt without a `DigestRecorded` event ("no event"), or the first event's
digest against the digest of the text. The page never asks which contract
emitted the event; the only transactions of this model are the recorders' own.
It reads only, so it is an operator on the node's state, not an action.

The constant `Events` says which of the environment's events may happen in a
run; the violation runs allow only what their finding needs.
History: `accepted`, and `early`, the threads whose UPDATE ran before their
message was committed.

### 2.4 WebSession

A task is the handler of one click; `task[t]` says what it waits for. An await
ends a turn, and every turn is one action, so the actions of two tasks and a
reload interleave as the replies arrive. `Fetch` is the call of `fetch` inside
`apiFetch`, with the token the session holds at that moment; `TryRefresh`,
`Refreshed` and `RefreshRefused` are its 401 branch, `Throw` every other
failure. `LoggedIn`, `StoreTokens` and `StoreKey` are `storeSession` cut at its
two awaits. `StoreKey` writes the login's tokens to `sessionStorage` whatever
has become of the session since `StoreTokens`; `LoginThrows` is either await
raising, the second after the tokens were assigned. The server's half of a request is `Verify` (the tokens) and `Serve`
(the effect), the two steps TokenService shows to matter. `Lose` is a lost
request or reply and every error other than 401. `session.pair` stands for
accessToken and refreshToken, which are always assigned together.
History: `out` is "out" once the session was ended, "torn" if a login was
between `StoreTokens` and `StoreKey` at that moment, "in" from the next login's
`StoreTokens` on; `ended` holds the logins whose logout was acknowledged;
`overlapped` says that some click did not wait for the one before it, `partial`
that the last login threw after it had assigned its tokens.

### 2.5 RateLimiter, ConnPool, SendPath

`ReadClock` is the line before the lock of `_blockchain_rate_ok`, `Decide` the
block under it: `Recent` is the list it keeps, `Admit` and `Refuse` its two
ends. The list of times of a user is the set of the requests stamped with them.
The history variable `late` holds the requests admitted with a stamp below one
already admitted: those the lock let in out of order.

What the limit keeps is less than "max 10 on-chain records per hour per user"
(`routes.py:13`). With ten stamps at 0, one at 3600 that decides first throws
them away, and one at 3599.999 that reaches the lock after it is the eleventh of
its hour. `RateBounded` says what does hold: no hour, past or present, holds
more than the limit of the stamps admitted in order, and the hour up to the
latest admitted stamp holds no more than the limit of all of them.

A thread of `ConnPool` has the place `at[t]` and the connection `held[t]`. The
actions cut `get_conn` and `close_conn` where another thread can run: between
taking a connection and entering it in the pool's books (`TakeIdle` or
`Connect`, then `Key`), at each statement, between the commit and the pool's
decision to keep or close the connection (`CloseConn`, then `Keep` or `Drop`),
and between giving it back and removing its key (`Keep`, then `Unkey`).
`_used` and `_rused` are the pool's own books; that `rused` may lose the key of
a connection somebody already holds again is what `LeaksExplained` is about.
`close_conn` is told of an exception only if no error handler took it, and a
commit of an aborted transaction rolls it back, so both ends of a transaction
are the one action `CloseConn`. psycopg2 itself is external, modelled from the
calls in `db.py` and the documented behaviour of `SimpleConnectionPool`.

`SendPath` gives each request two threads, `Handler(r)` and `Recorder(r)`, and
joins the two modules at `routes.py:68`: the handler holds its connection while
it asks the limiter (`Stored`, `Limit`) and starts the recorder (`Launch`,
`LaunchFails`), and closes it afterwards.

### 2.6 Sealing, Validation, Exchange

`Sealing` is symbolic: a public key names its private key, X25519 yields the
set of the two private keys, and HKDF, Argon2id, AES-GCM and keccak256 are
injective. What is kept exactly is what the code chooses: which secrets and
which keys enter the derivation, in which order. The functions of `crypto.py`
are written beside those of `app.js`, under their own names.

`Validation` keeps of a string what the validators look at, lengths above all.

`Exchange` follows a text from the form to the recipient's screen. A browser
runs up to two clicks (`task`), and any turn may belong to another user: the
handlers read `session` after their awaits, as the code does. `Send` and
`Forward` are the clicks, `Seal` the turn in which the recipient has been
looked up and `hpkeSeal` is called with the keys of the session, `Post` the
turn in which the sealed box goes out under the token of the session. `Listed`,
`Open` and `Render` are `getMessages`, one message a turn, and
`renderMessages`. `StoreTokens` and `StoreKey` are the two halves of
`storeSession`, `TryRefresh` and `Refreshed` the two halves of a refresh that a
401 starts, of the first request of a handler or of its post (`Pending`). A
grantee's list also shows messages granted to him; they cannot be opened without
the recipient's key, so `Listed` leaves them out. What WebSession and MessageService already explore (lost replies,
races on the server) is not repeated: requests are answered when they are sent
or given up.

History: a row keeps who wrote its text and whose key sealed it; `steady` says
that no turn of another click changed the session since the click, `whole` that
one login alone made the session. `whole` is needed because a registration and
a login that overlap can leave the tokens of one account with the private key
of the other.

### 2.7 Deployment

`run[r]` is one execution of `deploy.py`, cut at its calls to the node and at
the two steps of `write_text` (`Truncate`, `Write`); `Abandon` is every exit
before the end, an interrupt included. `Start` is the import of `blockchain.py`
in a worker: it reads the file, the key and the code at the address, once.
`Prepare`, `Record`, `Receipt` and `Raises` are `record_digest`, as in
ChainRecorder but with contract and key as the worker found them. The node
keeps a queue of transactions for each key; one that is not mined may be
replaced by another with its nonce, and any may fail when it is mined. The
address of a contract is that of the transaction that created it, key and nonce.
The address committed in `abi/MessageDigest.json` is of a contract that none of
the model's keys made, in which no worker can record.

## 3. What the runs check

| Run | Instance | Shows |
|---|---|---|
| endpoints | 3 users, 2 ids, 2 requests | ReadsAuthorised, ReadsComplete, GrantsAttached, DeletesAckedOnce; IInv, the inductive invariant of the proofs, which contains TypeOK; refinement of AccessControl |
| tokens | 2 names, 2 pairs, 2 requests, 3 ticks, purging | TypeOK, AcceptedWereLive, LogoutEndsBoth, RotationSpendsParent, NamesGivenOnce |
| web_session | 2 users, 3 pairs, 2 tasks, every button | TypeOK, OneIdentity, LogoutEndsLogin, LogoutClears, LogoutSurvivesReload, SentAtMostOnce |
| recorder | 2 workers, 3 messages, 2 digests, all events | TypeOK, LockSerialises, AuditIsTrue, RowMatchesAudit, OneRowPerTransaction, PageAgrees |
| recorder_threads | 1 worker, 3 messages, fair | ThreadsEnd |
| send_path | 2 requests with their recorders, or 4 without faults and with a moving clock; 3 connections, a pool of 1, a limit of 2, fair | SendTypeOK, OneHolder, LeaksExplained, RateBounded, EveryThreadEnds |
| exchange | 2 accounts, 2 texts, 2 tasks, 2 sealed messages | TypeOK, Authentic, Delivered, AccountsUsable, RefusedOnlyTooLong |
| deployment | 2 keys, 2 deployments, 2 workers, 2 digests | TypeOK, NamedContractsExist, ReportedIsRecorded, OwnDigestsNotReplaced |
| refresh_race, late_refresh, nonce_workers, store_before_commit | smallest that fails | the findings of section 5 |

Bounds. Three users are sender, recipient and a third party, the three roles
access control tells apart; two requests in flight give every pairwise race
(the theorems of section 4 lift all three bounds). Two token pairs are a
pair and the pair it was refreshed to, or the pairs of two users. Three ticks
pass the expiry of a refresh token and leave it a purge: `AccessTTL = 1`,
`RefreshTTL = 2` keep the order of one hour and seven days. Three recorder threads on two workers
give two threads that share a lock and one that does not; one worker with three
threads gives a queue at the lock for ThreadsEnd. `MaxTime`, the sets of ids
and pairs and the one thread per message are the only caps.

The endpoints run explores two families of states (`OneMessageOrForwards`):
every pair of calls about one message, and, with a second id, a message that is
forwarded into a copy while the right to it is granted and withdrawn.
`ForwardsOnly` fixes the order of set-up steps and leaves the two racing calls
free.

In send_path a pool of one connection makes every case of a larger one happen
with four threads: an exhausted pool, a pool that overshoots its limit (between
`Connect` and `Key` the books do not show the new connection), a slot lost to a
dead connection (`MaxDead = 1` at a time) and a key lost to the thread that
returned the connection before. The run explores two families of states
(`TwoOrSmooth`): everything two requests and their recorders can do at one
moment, and up to four requests of one user, with the clock moving past the
window, whose handlers take their connections one after the other and meet no
fault. Four requests at a limit of two are the fewest that show the limiter's
hazard: two fill the list, one stamped a window later throws them away, and one
that read the clock before it decides after it. They also refuse, admit, and
admit again after the window. The constraint costs EveryThreadEnds nothing: the
only steps that leave the first family are the arrival of another request and
the tick of the clock, which no fairness demands, so every behaviour of two
requests is judged to its end. The second family adds no claim about liveness.

In exchange, one account has the shortest name and password that can be
registered, the other the longest, one name is typed with blanks around it; one
text is the longest that can be sent, the other is one byte longer. Two tasks
are a send and the click that disturbs it. `MaxSeals` and `TwoMessages` bound
the messages: everything up to the first message, and what an undisturbed first
message leads to, up to the second; invariants are checked on the states at the
edge as well. Two keys, runs, workers and digests in deployment give each race
between two of a kind and between two kinds.

In WebSession two tasks are the smallest overlap, two users the smallest change
of account, three pairs a login, its refresh and one more of either. Once two
clicks have overlapped the exploration stops at two pairs (`OverlapsSmall`),
which a refresh that races another click needs. OneIdentity, LogoutEndsLogin
and LogoutClears are stated for a user who waits for each click to finish,
because the client keeps them only then; SentAtMostOnce
holds for every interleaving. LogoutSurvivesReload holds for every interleaving
but one, which it names: a session that is ended while a login awaits the import
of its key is written to `sessionStorage` in that login's next turn, and a
reload brings it back (`out = "torn"`).

Symmetry is used in safety runs whose model values are interchangeable, and
not in the liveness runs. Deadlock is checked except for ChainRecorder, where
everything stops when every message has been sent and mined, for Exchange,
where the users may have used up their messages, and for Deployment, where
operators may leave everything as it is. SendPath stutters explicitly once
every thread has ended (`Quiet`), so any other stop is reported.

AcceptedWereLive states one exception that purging makes: a token that was
revoked long before is decoded just before it expires, its row is purged just
after, and the denylist lookup then finds nothing. The comment in
`schema.sql:36` holds for every request whose `verify_token` does not straddle
the expiry.

Fairness. `FairSpec` assumes weak fairness of each thread (an RPC call returns
or raises, a statement returns or fails, the receipt wait has its 120 s
timeout) and of the end of each request. Mining and the other environment
events are not fair. `Acquire` needs no more than weak fairness: each other
thread takes the lock once. SendPath's `FairSpec` is weak fairness of each
handler and each recorder alone: a call of the pool or the database returns or
raises, and the limiter's lock is held for a few instructions. The clock and
the loss of connections are not fair, and no thread is promised a connection:
EveryThreadEnds holds because an exhausted pool raises.

## 4. What is proved

`MessageServiceProofs` proves, for every set of users, ids and requests, with
the one assumption that `None` is not one of the data (`NoneIsFresh`):

* `Invariance`: `Spec => []IInv`. The safety invariants are not inductive: they
  do not say what a handler between two statements knows. `IInv` adds that the
  copy of the row it holds is the row or the row is gone (`RowOK`), what the
  tests before each statement established (`AuthorityOK`), and that `kept`,
  what is visible now, and `held` are nested (`HistoryOK`). Each action has a
  lemma (`LoadSelf`, `CheckGrantSelf`, `WriteSelf`, ...) for its own slot;
  `OthersOK` covers all other slots by way of `Monotone`: rows only appear
  under new ids or disappear.
* `Typing`, `ReadsAreAuthorised`, `ReadsAreComplete`, `GrantsAreAttached`
  follow from it; `DeletesAreAckedOnce` needs one more induction, with the fact that an acknowledged delete left no row.
* `Implements`: `Spec => ImplementsContract`. `LoadMapped`, `ChecksMapped`,
  `FindsMapped`, `WriteMapped`, `ClosingMapped`, `SlotMapped` and
  `RegisterMapped` show that each action is a step of the contract or a stutter.

`TokenServiceProofs` proves, for any names, pairs, requests and lifetimes, that
what is accepted was good on arrival (`OnlyLiveTokensAccepted`), that a logout
spends both its tokens (`LogoutIsFinal`), a refresh its own (`ParentIsSpent`),
and that a name is given once (`NamesAreUnique`). None is inductive: the status
is decided statements after the token was looked at, while the clock moves,
other requests revoke and the operator purges. `LiveOK` says how a token that
was not good on arrival can have got as far as it has: it has expired or been
revoked but the statement that finds this out is still to come, or its row was
purged. `StatusOK` says what a handler's place says of the tables, and `PairsOK`
that a refreshed pair, delivered or not yet, has a spent parent of the same user.
`Evolves`, which every step satisfies, is the reason other slots are not
disturbed: clock, users and pairs only grow, and the denylist loses expired rows
only, so what is spent stays spent. Assumed: `TokenAssumptions` and that `None`
is not one of the data (`NoneIsFresh`).

`ChainRecorderProofs` proves `LockIsMutex`, `AuditNeverLies`, `RowsAgree`,
`TransactionClaimedOnce` and `PageConfirmsTheMessage`, for any number of workers
and messages and whichever events may happen. `RecorderInv` adds who holds the
lock between nonce and send (`LockOK`), which threads' transactions the node has
accepted (`SentOK`) and that those of one process have nonces of their own
(`NoncesDiffer`), that a thread stores only what was mined and did not revert
(`StoreOK`), what its UPDATE found and why (`MatchOK`), and that an audit row is
of an ended thread and linked to its message or to nothing (`OriginsOK`). An
accepted transaction may be replaced, or be another process's as well: `SentOK`
claims no more than that its nonce is not forgotten. `OneRowPerTransaction`
follows from `OriginsOK` and `NoncesDiffer`. `PageAgrees` follows
from the audit row that a shown hash has: what was mined stays. Assumed:
`RecorderAssumptions`, that `None` is neither a datum nor a transaction and that
there is a price.

`WebSessionProofs` proves all properties of WebSession, for any number of
users, pairs and clicks. `WebInv` has two halves. What holds for every overlap:
all a click carries was issued by the server, a post that was served is not
sent again (`TaskOK`), and what is stored outlives no end of its session; from
it follow `OneClickOneMessage` and `EndedStaysEnded`. What holds while nothing
has overlapped (`SequentialOK`): one click at a time, its token is the
session's (`AloneOK`), the stored session and the page are one account's
(`StoredOK`, `PageOK`), and at most one refresh token of each login is good
(`ChainOK`); from it follow `PageIsOneAccounts`, `LogoutEndsTheChain` and
`LogoutClearsPage`. `ChainOK` is what makes a logout that revokes one pair end
a chain of any length. Assumed: `WebAssumptions` and `NoneIsFresh`.

`RateLimiterProofs` proves `RateIsBounded` for every limit, window, set of
users and requests. `RateBounded` is not inductive, since it does not say what
the list holds. `WindowOK` does: an admitted stamp that is missing from the list
lies a window behind another admitted one, and the list is never longer than the
limit. A stamp that is admitted in order finds in the list all of its hour; a
late one may not, which is why `RateBounded` counts the late ones of earlier
hours apart. Assumed: limit and window are natural numbers.

`SendPathProofs` proves `ConnectionsAreExclusive`, `LeaksAreExplained` and
`RecordsAreBounded` for any number of threads and connections and any pool
sizes. `PoolInv` adds to the properties that the holder of a connection is the
only one with work in it (`OwnersOK`, `WorkOK`), and that a lost slot stays
lost (`LostOK`): no thread is given its connection again. Each pool action has a
lemma; the composition needs only that each step of SendPath is a pool step or
leaves the pool alone, and likewise for the limiter, so the lemmas of
`RateLimiterProofs` carry over.

`ExchangeProofs` proves first, about the operators, that a sealed box opens
only with the recipient's private key, its public key and the public key of the
key that sealed it (`OpensForRecipientOnly`), and that the Python functions
equal the JavaScript ones (`MirrorsAgree`). `ExchangeInv` says what every task
carries: the box in it was sealed with the key of some account for the
recipient, and with that of the task's author if the task is steady. From it
follow `AuthenticAlways`, `DeliveredAlways` and `AccountsAlwaysUsable`, for any
accounts, texts, tasks and number of messages. `DataOK` says what the texts
are: a task or a message carries a text that was typed, trimmed, with the digest
of that text or none, and what is shown is a text of its message. From both
follow `RefusedAreTooLong` (with the arithmetic of base64, `Base64Fits`) and `ExchangeTypesHold`. Assumed: `NoneIsApart`,
`TypedAreNames`, `TextsAreRecords` and `SealsAreCounted` (the shape of what is
typed and of the bound), and the perfect primitives of `Sealing`.

`DeploymentProofs` proves `NamedContractsAlwaysExist`,
`ReportedIsAlwaysRecorded` and `OwnDigestsNeverReplaced`. `DeploymentInv` adds that a confirmed run has code
at its address, that a digest is sent only to a contract of its signing key,
and that a transaction at the node under a digest's name is that digest's. The
key lemmas are that what is mined is not replaced (`MinedStays`) and that a
contract that exists goes on existing (`CodeStays`). `OwnDigestsNeverReplaced`
needs `NoncesOK` besides: a worker sends one digest at a time, what it waits for
is in the node's queue, and a nonce about to be used is above those of the
worker's own waiting digests under that key. Assumed:
`DeploymentAssumptions`, the names of addresses, runs and digests do not clash.

`TypeOK` of each specification is part of its inductive invariant and a theorem
of its own (`Typing`, `TokenTypesHold`, `WebTypesHold`, ...).

The inductive invariants that quantify over bounded data only were checked with
TLC on the instances of section 3 before they were proved; `IInv` is checked by
its run still. `ExchangeInv` names the key and the keys of a box with unbounded
quantifiers, which TLC does not evaluate.

Only model-checked: ThreadsEnd and EveryThreadEnds. They are liveness
properties under fairness, which is out of the prover's reach: it has no rule for
ENABLED. The violations of section 5 are TLC's too.

## 5. Findings

* `refresh_race`: two concurrent refreshes with one refresh token both succeed.
* `late_refresh`: a refresh that is answered after the logout puts live tokens
  back into the session the logout had cleared. A reload removes them, but not
  what a login between its two turns then writes to `sessionStorage`
  (`app.js:251`): LogoutSurvivesReload excepts that case.
* `nonce_workers`: the nonce lock is per process and four processes are run.
  `LockSerialises` is what does hold.
* `store_before_commit`: the recorder thread may get to the database before the
  message it refers to is committed; the hash is then dropped. If the commit
  falls between its two statements, the audit row is written and the message
  shows no hash; RowMatchesAudit says that this is the only disagreement.

Observations without a run of their own:

* The rate limit admits more than its limit in an hour in the past when a
  request that read the clock earlier decides later (section 2.5).
* The verification page believes any contract's `DigestRecorded` event
  (`verify.js:88-97` compares no address), so its "match" is about the digest
  in a transaction, not about the deployed contract.
* An import of the private key that throws after a login assigned its tokens
  leaves these tokens beside what `sessionStorage` held before.
* The loser of two registrations of one name gets 500: the lookup before the
  409 of `auth_routes.py:30` runs in an aborted transaction.
* `record_digest` waits up to 120 s for the receipt, against its docstring
  ("we don't wait for mining"), and forgets an accepted transaction after it.
* `close_conn` commits also after an error answer.
* A user change between the recipient lookup and the sealing sends the text of
  one user in the name of another. It opens: `Authentic` speaks of the key, and
  `Delivered` of undisturbed clicks.
* A registration and a login that overlap can leave the tokens of one account
  with the private key of the other; what is sent then does not open.
* A message read by way of a grant cannot be opened, since it is sealed for its
  recipient; the comment at `app.js:481` speaks of messages that are shared.
  `forward_message` accepts a `content_hash` and records none.
* A deployment may replace a queued digest (`deploy.py:94` counts mined
  transactions only), and a script killed while it writes leaves a file that no
  worker can read; recording then stays off until a deployment and a restart.

## 6. Not modelled

* Real cryptography (Argon2, RS256, X25519, AES-GCM): perfect in the models.
* `RefreshRequest`, `LogoutRequest` and `parse_body`: bounds on the length of a
  token and the shape of the JSON. flask-limiter, CORS, headers, static files:
  they keep no state of the protocols above or are libraries.
* The C++ client: single-threaded, its calls are a subset of those explored;
  `MessageStore` is a list and `Conversation` a map of lists, used by one thread.
* `get_record` of `blockchain.py`: reads only, and nothing calls it. The form
  of `verify.js`, the ABI it loads and its error texts.
* The migrations (run once by hand), the TLS test helper, vendored JavaScript,
  the DOM.

## 7. Plan

All modules planned so far are written, and every safety property and
refinement that a run checks is proved. What is left:

1. A composition of the token service with the web session as a refinement: the
   server's half of WebSession (`Verify`, `Serve`) as steps of TokenService.
2. The composition of Deployment with ChainRecorder, so that the audit rows are
   those of a named contract.
3. What RateLimiter promises as an abstract specification of its own, with
   SendPath shown to implement it.
