----------------------------- MODULE Deployment -----------------------------
(* The contract of the digests from its deployment to its use: deploy.py   *)
(* creates it and writes its address to abi/MessageDigest.json, each       *)
(* worker reads that file once, when it starts (blockchain.py), and from   *)
(* then on records in the contract it found.  Deployments are run by hand, *)
(* also while workers are up and sign with the same key: a deployment      *)
(* counts the mined transactions to get its nonce, a worker the queued     *)
(* ones too.                                                               *)
(*                                                                         *)
(* External: the node, one queue of transactions by nonce for each key, in *)
(* which one that is not mined may be replaced; the address of a contract  *)
(* is that of its creation, key and nonce.                                 *)
EXTENDS Naturals, Sequences

CONSTANTS
    Keys,       \* DEPLOYER_PRIVATE_KEY, as .env may have it over time
    Runs,       \* runs of deploy.py
    Workers,    \* server processes
    Jobs,       \* threads that record a digest, each a digest of its own
    Committed,  \* the address in the repository's abi/MessageDigest.json
    Torn,       \* a file that was truncated and not written
    None

ASSUME DeploymentAssumptions ==
    /\ Runs \cap Jobs = {}
    /\ Committed \notin Keys \X Nat
    /\ {Torn, None} \cap ((Keys \X Nat) \cup {Committed}) = {}

VARIABLES
    env,     \* the key in .env
    file,    \* abi/MessageDigest.json: an address, Torn or None
    run,     \* run -> [stage, key, nonce]
    worker,  \* worker -> [up, key, contract]
    job,     \* job -> [stage, worker, key, contract, nonce]
    sent,    \* node: key -> the transactions it has accepted, by nonce
    mined,   \* node: key -> how many of them are mined
    failed   \* node: the creations and calls mined with status 0

node == <<sent, mined, failed>>
vars == <<env, file, run, worker, job, node>>

Addresses == (Keys \X Nat) \cup {Committed}

IsMined(by, k, n) == n < mined[k] /\ sent[k][n + 1].by = by

\* get_code
Code(address) ==
    \/ address = Committed
    \/ /\ address \in Keys \X Nat
       /\ address[2] < mined[address[1]] /\ address \notin failed
       /\ sent[address[1]][address[2] + 1].by \in Runs

\* What the node does with a transaction: it accepts a new nonce and may
\* accept one in place of a transaction that is not mined.
Accept(k, n, tx) ==
    /\ \/ n = Len(sent[k]) /\ sent' = [sent EXCEPT ![k] = Append(@, tx)]
       \/ n \in mined[k] .. Len(sent[k]) - 1 /\ sent' = [sent EXCEPT ![k][n + 1] = tx]
    /\ UNCHANGED <<mined, failed>>

Mine(k) ==
    /\ mined[k] < Len(sent[k])
    /\ mined' = [mined EXCEPT ![k] = @ + 1]
    /\ \/ UNCHANGED failed
       \/ failed' = failed \cup {<<k, mined[k]>>}
    /\ UNCHANGED <<env, file, run, worker, job, sent>>

\* The operator puts another key into .env.
ChangeKey(k) ==
    /\ env' = k
    /\ UNCHANGED <<file, run, worker, job, node>>

-----------------------------------------------------------------------------
(* deploy.py                                                               *)

Running(r) == run[r].stage \notin {"new", "done", "error"}
RunAt(r, stage) == run[r].stage = stage
RunTo(r, stage) == run' = [run EXCEPT ![r].stage = stage]

\* load_dotenv, the compiler and the connection.
Begin(r) ==
    /\ RunAt(r, "new")
    /\ run' = [run EXCEPT ![r] = [stage |-> "build", key |-> env, nonce |-> 0]]
    /\ UNCHANGED <<env, file, worker, job, node>>

\* build_transaction: get_transaction_count of the latest block.
Build(r) ==
    /\ RunAt(r, "build")
    /\ run' = [run EXCEPT ![r].stage = "send", ![r].nonce = mined[run[r].key]]
    /\ UNCHANGED <<env, file, worker, job, node>>

\* send_raw_transaction is accepted; its reply may be lost.
Deploy(r) ==
    /\ RunAt(r, "send")
    /\ Accept(run[r].key, run[r].nonce, [by |-> r, to |-> None])
    /\ RunTo(r, "wait") \/ RunTo(r, "error")
    /\ UNCHANGED <<env, file, worker, job>>

Address(r) == <<run[r].key, run[r].nonce>>

\* Mutant: neither the status of the receipt nor the code is looked at.
ConfirmAnyStatus(r) ==
    /\ RunAt(r, "wait") /\ IsMined(r, run[r].key, run[r].nonce)
    /\ RunTo(r, "write")
    /\ UNCHANGED <<env, file, worker, job, node>>

\* The receipt of this very transaction, its status and the code.
Confirm(r) ==
    /\ RunAt(r, "wait") /\ IsMined(r, run[r].key, run[r].nonce)
    /\ Address(r) \notin failed /\ Code(Address(r))
    /\ RunTo(r, "write")
    /\ UNCHANGED <<env, file, worker, job, node>>

\* write_text truncates the file ...
Truncate(r) ==
    /\ RunAt(r, "write")
    /\ file' = Torn
    /\ RunTo(r, "writing")
    /\ UNCHANGED <<env, worker, job, node>>

\* ... and writes it.
Write(r) ==
    /\ RunAt(r, "writing")
    /\ file' = Address(r)
    /\ RunTo(r, "done")
    /\ UNCHANGED <<env, worker, job, node>>

\* A check fails, a call raises, no receipt comes for 120 s, the transaction
\* is refused, or the script is interrupted.
Abandon(r) ==
    /\ Running(r)
    /\ RunTo(r, "error")
    /\ UNCHANGED <<env, file, worker, job, node>>

-----------------------------------------------------------------------------
(* blockchain.py in a worker                                               *)

\* Mutant: what is in the file is used as it is.
StartUnchecked(w) ==
    /\ ~worker[w].up
    /\ worker' = [worker EXCEPT ![w] = [up |-> TRUE, key |-> env, contract |-> file]]
    /\ UNCHANGED <<env, file, run, job, node>>

\* The module is imported.  Recording stays disabled until the next start if
\* the file does not parse, the node does not answer or there is no code.
Start(w) ==
    /\ ~worker[w].up
    /\ \E found \in {None} \cup (IF file \in Addresses /\ Code(file) THEN {file} ELSE {}) :
          worker' = [worker EXCEPT ![w] = [up |-> TRUE, key |-> env, contract |-> found]]
    /\ UNCHANGED <<env, file, run, job, node>>

\* The worker ends, and its threads with it.
Stop(w) ==
    /\ worker[w].up
    /\ worker' = [worker EXCEPT ![w].up = FALSE, ![w].contract = None]
    /\ job' = [j \in Jobs |->
          IF job[j].worker = w /\ job[j].stage \in {"send", "wait"}
          THEN [job[j] EXCEPT !.stage = "null"] ELSE job[j]]
    /\ UNCHANGED <<env, file, run, node>>

JobAt(j, stage) == job[j].stage = stage
JobTo(j, stage) == job' = [job EXCEPT ![j].stage = stage]

\* Only the account that made a contract passes onlyOwner.  The contract of
\* the committed file was made by none of Keys: workers that start from it
\* send nothing, as the gas estimate of their calls fails.
Owned(w) == worker[w].contract \in Keys \X Nat /\ worker[w].contract[1] = worker[w].key

LockFree(w) == \A j \in Jobs : ~(job[j].worker = w /\ JobAt(j, "send"))

Prepared(j, w, nonce) ==
    job' = [job EXCEPT ![j] =
        [stage |-> IF Owned(w) THEN "send" ELSE "null", worker |-> w,
         key |-> worker[w].key, contract |-> worker[w].contract, nonce |-> nonce]]

\* Mutant: the latest block instead of "pending".
PrepareLatest(j, w) ==
    /\ JobAt(j, "new") /\ worker[w].up /\ worker[w].contract # None /\ LockFree(w)
    /\ Prepared(j, w, mined[worker[w].key])
    /\ UNCHANGED <<env, file, run, worker, node>>

\* record_digest under _nonce_lock: the nonce of the next transaction that
\* could be queued; estimate_gas raises if the call would revert.
Prepare(j, w) ==
    /\ JobAt(j, "new") /\ worker[w].up /\ worker[w].contract # None /\ LockFree(w)
    /\ Prepared(j, w, Len(sent[worker[w].key]))
    /\ UNCHANGED <<env, file, run, worker, node>>

\* send_raw_transaction is accepted; its reply may be lost.
Record(j) ==
    /\ JobAt(j, "send")
    /\ Accept(job[j].key, job[j].nonce, [by |-> j, to |-> job[j].contract])
    /\ JobTo(j, "wait") \/ JobTo(j, "null")
    /\ UNCHANGED <<env, file, run, worker>>

\* Mutant: the receipt of whatever was mined with the nonce.
ReceiptByNonce(j) ==
    /\ JobAt(j, "wait") /\ job[j].nonce < mined[job[j].key]
    /\ JobTo(j, IF <<job[j].key, job[j].nonce>> \in failed THEN "null" ELSE "hash")
    /\ UNCHANGED <<env, file, run, worker, node>>

\* The receipt of this very transaction and its status.
Receipt(j) ==
    /\ JobAt(j, "wait") /\ IsMined(j, job[j].key, job[j].nonce)
    /\ JobTo(j, IF <<job[j].key, job[j].nonce>> \in failed THEN "null" ELSE "hash")
    /\ UNCHANGED <<env, file, run, worker, node>>

\* record_digest catches what a call raises and the timeout of the receipt.
Raises(j) ==
    /\ job[j].stage \in {"send", "wait"}
    /\ JobTo(j, "null")
    /\ UNCHANGED <<env, file, run, worker, node>>

-----------------------------------------------------------------------------

Init ==
    /\ env \in Keys /\ file \in {Committed, None}
    /\ run = [r \in Runs |-> [stage |-> "new", key |-> env, nonce |-> 0]]
    /\ worker = [w \in Workers |-> [up |-> FALSE, key |-> env, contract |-> None]]
    /\ job = [j \in Jobs |-> [stage |-> "new", worker |-> None, key |-> env,
                              contract |-> None, nonce |-> 0]]
    /\ sent = [k \in Keys |-> << >>] /\ mined = [k \in Keys |-> 0] /\ failed = {}

Next ==
    \/ \E k \in Keys : Mine(k) \/ ChangeKey(k)
    \/ \E r \in Runs : Begin(r) \/ Build(r) \/ Deploy(r) \/ Confirm(r) \/ Truncate(r)
                         \/ Write(r) \/ Abandon(r)
    \/ \E w \in Workers : Start(w) \/ Stop(w) \/ \E j \in Jobs : Prepare(j, w)
    \/ \E j \in Jobs : Record(j) \/ Receipt(j) \/ Raises(j)

Spec == Init /\ [][Next]_vars

-----------------------------------------------------------------------------

\* Every variable keeps its type.
TypeOK ==
    /\ env \in Keys
    /\ file \in Addresses \cup {Torn, None}
    /\ run \in [Runs -> [stage : {"new", "build", "send", "wait", "write", "writing",
                                  "done", "error"}, key : Keys, nonce : Nat]]
    /\ worker \in [Workers -> [up : BOOLEAN, key : Keys, contract : Addresses \cup {None}]]
    /\ job \in [Jobs -> [stage : {"new", "send", "wait", "hash", "null"},
                         worker : Workers \cup {None}, key : Keys,
                         contract : Addresses \cup {None}, nonce : Nat]]
    /\ sent \in [Keys -> Seq([by : Runs \cup Jobs, to : Addresses \cup {None}])]
    /\ mined \in [Keys -> Nat] /\ \A k \in Keys : mined[k] <= Len(sent[k])
    /\ failed \subseteq Keys \X Nat

\* The address in the file, and the one a worker read from it, is that of a
\* contract with code, whatever was replaced, timed out or interrupted while
\* it was deployed ("ABI file was not updated", deploy.py:107).
NamedContractsExist ==
    /\ file \in Addresses => Code(file)
    /\ \A w \in Workers : worker[w].contract # None => Code(worker[w].contract)

\* A digest whose transaction hash goes into the database has been recorded,
\* in an existing contract of the worker's own key, even if a deployment used
\* its nonce in between.
ReportedIsRecorded ==
    \A j \in Jobs : JobAt(j, "hash") =>
        LET k == job[j].key
            n == job[j].nonce
        IN  /\ n < mined[k] /\ <<k, n>> \notin failed
            /\ sent[k][n + 1] = [by |-> j, to |-> job[j].contract]
            /\ job[j].contract[1] = k /\ Code(job[j].contract)

\* "Using 'pending' includes any already-queued transactions from this
\* account" (blockchain.py:67): a digest on its way is replaced by a
\* deployment or a digest of another process, never by one of its own.
OwnDigestsNotReplaced ==
    \A j \in Jobs : JobAt(j, "wait") =>
        LET by == sent[job[j].key][job[j].nonce + 1].by
        IN  by = j \/ by \in Runs \/ job[by].worker # job[j].worker
=============================================================================
