-------------------------- MODULE DeploymentProofs --------------------------
(* The file and the workers name existing contracts, and what is reported  *)
(* as recorded is, for every number of keys, runs, workers and digests.    *)
EXTENDS Deployment, SequenceTheorems, TLAPS

Transactions == [by : Runs \cup Jobs, to : Addresses \cup {None}]

\* What has been confirmed is there.
RunsConfirmed ==
    \A r \in Runs : run[r].stage \in {"write", "writing"} => Code(Address(r))

\* A digest is sent only to a contract of the key that signs it.
JobsOwned ==
    \A j \in Jobs : job[j].stage \in {"send", "wait", "hash"} =>
        /\ job[j].contract \in Keys \X Nat /\ job[j].contract[1] = job[j].key
        /\ Code(job[j].contract)

\* A transaction at the node under the name of a digest is that digest's.
SentByJobs ==
    \A k \in Keys : \A n \in 1 .. Len(sent[k]) : sent[k][n].by \in Jobs =>
        /\ job[sent[k][n].by].stage \in {"wait", "hash", "null"}
        /\ sent[k][n].to = job[sent[k][n].by].contract

DeploymentInv ==
    TypeOK /\ NamedContractsExist /\ RunsConfirmed /\ JobsOwned /\ SentByJobs
        /\ ReportedIsRecorded

\* What is mined stays as it is, and what fails later is another transaction.
MinedStays ==
    /\ mined' \in [Keys -> Nat]
    /\ \A k \in Keys : mined[k] <= mined'[k]
    /\ \A k \in Keys : \A n \in 1 .. mined[k] : sent'[k][n] = sent[k][n]
    /\ \A k \in Keys : \A n \in Nat :
          n < mined[k] /\ <<k, n>> \notin failed => <<k, n>> \notin failed'

LEMMA AcceptKeeps ==
    ASSUME TypeOK, NEW k \in Keys, NEW n \in Nat, NEW tx \in Transactions, Accept(k, n, tx)
    PROVE  /\ MinedStays
           /\ sent' \in [Keys -> Seq(Transactions)]
           /\ \A c \in Keys : mined'[c] <= Len(sent'[c])
           /\ \A c \in Keys : \A i \in 1 .. Len(sent'[c]) :
                 \/ i \in 1 .. Len(sent[c]) /\ sent'[c][i] = sent[c][i]
                 \/ sent'[c][i] = tx
<1>1. /\ sent \in [Keys -> Seq(Transactions)] /\ mined \in [Keys -> Nat]
      /\ \A c \in Keys : mined[c] <= Len(sent[c])
      /\ \A c \in Keys : Len(sent[c]) \in Nat /\ mined[c] \in Nat
  <2>1. /\ sent \in [Keys -> Seq(Transactions)] /\ mined \in [Keys -> Nat]
        /\ \A c \in Keys : mined[c] <= Len(sent[c])
    BY DEF TypeOK, Transactions
  <2>2. ASSUME NEW c \in Keys PROVE Len(sent[c]) \in Nat
    <3>1. sent[c] \in Seq(Transactions)
      BY <2>1
    <3> QED
      BY <3>1, LenProperties
  <2> QED
    BY <2>1, <2>2
<1>2. mined' = mined /\ failed' = failed
  BY DEF Accept
<1>3. CASE n = Len(sent[k]) /\ sent' = [sent EXCEPT ![k] = Append(@, tx)]
  <2> DEFINE q == Append(sent[k], tx)
  <2>1. /\ q \in Seq(Transactions) /\ Len(q) = Len(sent[k]) + 1
        /\ \A i \in 1 .. Len(sent[k]) : q[i] = sent[k][i]
        /\ q[Len(q)] = tx
    BY <1>1
  <2>2. sent'[k] = q /\ \A c \in Keys : c # k => sent'[c] = sent[c]
    BY <1>1, <1>3
  <2>3. sent' \in [Keys -> Seq(Transactions)]
    <3> HIDE DEF q
    <3> QED
      BY <1>1, <1>3, <2>1, <2>2 DEF q
  <2> HIDE DEF q
  <2>4. ASSUME NEW c \in Keys
        PROVE  /\ \A i \in 1 .. Len(sent'[c]) :
                     \/ i \in 1 .. Len(sent[c]) /\ sent'[c][i] = sent[c][i]
                     \/ sent'[c][i] = tx
               /\ \A i \in 1 .. mined[c] : sent'[c][i] = sent[c][i]
               /\ mined[c] <= Len(sent'[c])
    <3>1. CASE c = k
      <4>1. sent'[c] = q /\ Len(sent[k]) \in Nat /\ mined[k] \in Nat /\ mined[k] <= Len(sent[k])
        BY <1>1, <2>2, <3>1
      <4>2. \A i \in 1 .. Len(q) : i \in 1 .. Len(sent[k]) \/ i = Len(q)
        BY <2>1, <4>1
      <4> QED
        BY <2>1, <3>1, <4>1, <4>2
    <3>2. CASE c # k
      BY <1>1, <2>2, <3>2
    <3> QED
      BY <3>1, <3>2
  <2> QED
    BY <1>1, <1>2, <2>3, <2>4 DEF MinedStays
<1>4. CASE n \in mined[k] .. Len(sent[k]) - 1 /\ sent' = [sent EXCEPT ![k][n + 1] = tx]
  <2> DEFINE q == [sent[k] EXCEPT ![n + 1] = tx]
  <2>1. /\ q \in Seq(Transactions) /\ Len(q) = Len(sent[k])
        /\ \A i \in 1 .. Len(sent[k]) : i # n + 1 => q[i] = sent[k][i]
        /\ q[n + 1] = tx
    BY <1>1, <1>4
  <2>2. sent' = [sent EXCEPT ![k] = q]
    BY <1>1, <1>4
  <2> HIDE DEF q
  <2>3. sent'[k] = q /\ (\A c \in Keys : c # k => sent'[c] = sent[c])
        /\ sent' \in [Keys -> Seq(Transactions)]
    BY <1>1, <2>1, <2>2
  <2>4. \A c \in Keys : \A i \in 1 .. Len(sent'[c]) :
            \/ i \in 1 .. Len(sent[c]) /\ sent'[c][i] = sent[c][i]
            \/ sent'[c][i] = tx
    BY <1>1, <2>1, <2>3
  <2>5. \A c \in Keys : \A i \in 1 .. mined[c] : sent'[c][i] = sent[c][i]
    BY <1>1, <1>4, <2>1, <2>3
  <2>6. \A c \in Keys : mined[c] <= Len(sent'[c])
    BY <1>1, <2>1, <2>3
  <2> QED
    BY <1>1, <1>2, <2>3, <2>4, <2>5, <2>6 DEF MinedStays
<1> QED
  BY <1>3, <1>4 DEF Accept

LEMMA MineKeeps ==
    ASSUME TypeOK, NEW k \in Keys, Mine(k)
    PROVE  /\ MinedStays /\ sent' = sent
           /\ mined' \in [Keys -> Nat] /\ \A c \in Keys : mined'[c] <= Len(sent[c])
           /\ failed' \subseteq Keys \X Nat
<1>1. /\ mined \in [Keys -> Nat] /\ failed \subseteq Keys \X Nat
      /\ \A c \in Keys : mined[c] <= Len(sent[c]) /\ Len(sent[c]) \in Nat
  BY DEF TypeOK
<1>2. /\ mined[k] < Len(sent[k]) /\ mined' = [mined EXCEPT ![k] = @ + 1] /\ sent' = sent
      /\ failed' = failed \/ failed' = failed \cup {<<k, mined[k]>>}
  BY DEF Mine
<1>3. \A c \in Keys : mined'[c] = IF c = k THEN mined[k] + 1 ELSE mined[c]
  BY <1>1, <1>2
<1>4. ASSUME NEW c \in Keys, NEW n \in Nat, n < mined[c], <<c, n>> \notin failed
      PROVE  <<c, n>> \notin failed'
  BY <1>1, <1>2, <1>4
<1> QED
  BY <1>1, <1>2, <1>3, <1>4 DEF MinedStays

\* Code never goes away.
LEMMA CodeStays == ASSUME TypeOK, MinedStays, NEW a, Code(a) PROVE Code(a)'
<1>1. CASE a = Committed
  BY <1>1 DEF Code
<1>2. CASE a # Committed
  <2>1. PICK k \in Keys, n \in Nat : a = <<k, n>>
    BY <1>2 DEF Code
  <2>2. a[1] = k /\ a[2] = n /\ n < mined[k] /\ a \notin failed /\ sent[k][n + 1].by \in Runs
    BY <1>2, <2>1 DEF Code
  <2>3. mined[k] \in Nat /\ n + 1 \in 1 .. mined[k]
    BY <2>1, <2>2 DEF TypeOK
  <2>4. sent'[k][n + 1] = sent[k][n + 1] /\ a \notin failed' /\ mined[k] <= mined'[k]
    BY <2>1, <2>2, <2>3 DEF MinedStays
  <2> QED
    <3>1. n < mined'[k]
      BY <2>1, <2>2, <2>3, <2>4 DEF MinedStays
    <3> QED
      BY <1>2, <2>1, <2>2, <2>4, <3>1 DEF Code
<1> QED
  BY <1>1, <1>2

-----------------------------------------------------------------------------

LEMMA Initially == Init => DeploymentInv
<1> SUFFICES ASSUME Init PROVE DeploymentInv
  OBVIOUS
<1>1. TypeOK
  BY DEF Init, TypeOK, Addresses
<1>2. NamedContractsExist
  BY DeploymentAssumptions DEF Init, NamedContractsExist, Code, Addresses
<1>3. RunsConfirmed /\ JobsOwned /\ SentByJobs /\ ReportedIsRecorded
  BY DEF Init, RunsConfirmed, JobsOwned, SentByJobs, ReportedIsRecorded, JobAt
<1> QED
  BY <1>1, <1>2, <1>3 DEF DeploymentInv

\* The parts about digests, when neither they nor the node change.
LEMMA DigestsStay ==
    ASSUME DeploymentInv, UNCHANGED <<job, node>>
    PROVE  JobsOwned' /\ SentByJobs' /\ ReportedIsRecorded'
<1>1. \A a : Code(a)' <=> Code(a)
  BY DEF node, Code
<1>2. JobsOwned'
  BY <1>1 DEF DeploymentInv, JobsOwned
<1>3. SentByJobs'
  BY DEF DeploymentInv, SentByJobs, node
<1>4. ReportedIsRecorded'
  BY <1>1 DEF DeploymentInv, ReportedIsRecorded, JobAt, node
<1> QED
  BY <1>2, <1>3, <1>4

\* A step of a run, or of .env, that sends nothing.
LEMMA RunStep ==
    ASSUME DeploymentInv, UNCHANGED <<worker, job, node>>,
           env' \in Keys,
           run' \in [Runs -> [stage : {"new", "build", "send", "wait", "write", "writing",
                                       "done", "error"}, key : Keys, nonce : Nat]],
           file' = file \/ file' = Torn \/ (file' \in Addresses /\ Code(file')),
           RunsConfirmed'
    PROVE  DeploymentInv'
<1>1. TypeOK'
  BY DEF DeploymentInv, TypeOK, node
<1>2. \A a : Code(a)' <=> Code(a)
  BY DEF node, Code
<1>3. NamedContractsExist'
  <2>1. file' \in Addresses => Code(file')
    BY DeploymentAssumptions DEF DeploymentInv, NamedContractsExist, Addresses
  <2> QED
    BY <1>2, <2>1 DEF DeploymentInv, NamedContractsExist
<1> QED
  BY <1>1, <1>3, DigestsStay DEF DeploymentInv

LEMMA RunsKeep ==
    ASSUME DeploymentInv, NEW r \in Runs,
           Begin(r) \/ Build(r) \/ Confirm(r) \/ Truncate(r) \/ Write(r) \/ Abandon(r)
    PROVE  DeploymentInv'
<1> DEFINE Stage == {"new", "build", "send", "wait", "write", "writing", "done", "error"}
           Run == [stage : Stage, key : Keys, nonce : Nat]
<1>1. /\ env \in Keys /\ run \in [Runs -> Run] /\ mined \in [Keys -> Nat]
  BY DEF DeploymentInv, TypeOK
<1>2. /\ UNCHANGED <<env, worker, job, node>>
      /\ file' = file \/ file' = Torn \/ (RunAt(r, "writing") /\ file' = Address(r))
  BY DEF Begin, Build, Confirm, Truncate, Write, Abandon
<1>3. PICK q \in Run :
        /\ run' = [run EXCEPT ![r] = q]
        /\ q.stage \in {"write", "writing"} =>
              /\ q.key = run[r].key /\ q.nonce = run[r].nonce
              /\ Code(Address(r))
  <2>1. CASE Begin(r)
    <3> DEFINE q == [stage |-> "build", key |-> env, nonce |-> 0]
    <3>1. q \in Run /\ run' = [run EXCEPT ![r] = q] /\ q.stage = "build"
      BY <1>1, <2>1 DEF Begin
    <3> QED
      BY <3>1
  <2>2. CASE Build(r)
    <3> DEFINE q == [run[r] EXCEPT !.stage = "send", !.nonce = mined[run[r].key]]
    <3>1. q \in Run /\ run' = [run EXCEPT ![r] = q] /\ q.stage = "send"
      BY <1>1, <2>2 DEF Build
    <3> QED
      BY <3>1
  <2>3. ASSUME NEW stage \in Stage, RunTo(r, stage),
               stage \in {"write", "writing"} => Code(Address(r))
        PROVE  \E q \in Run :
                 /\ run' = [run EXCEPT ![r] = q]
                 /\ q.stage \in {"write", "writing"} =>
                       /\ q.key = run[r].key /\ q.nonce = run[r].nonce
                       /\ Code(Address(r))
    <3> DEFINE q == [run[r] EXCEPT !.stage = stage]
    <3>1. /\ q \in Run /\ run' = [run EXCEPT ![r] = q] /\ q.stage = stage
          /\ q.key = run[r].key /\ q.nonce = run[r].nonce
      BY <1>1, <2>3 DEF RunTo
    <3> HIDE DEF q
    <3> QED
      BY <2>3, <3>1
  <2>4. CASE Confirm(r)
    BY <2>3, <2>4 DEF Confirm
  <2>5. CASE Truncate(r)
    BY <2>3, <2>5 DEF Truncate, RunAt, DeploymentInv, RunsConfirmed
  <2>6. CASE Write(r) \/ Abandon(r)
    BY <2>3, <2>6 DEF Write, Abandon
  <2> QED
    BY <2>1, <2>2, <2>4, <2>5, <2>6
<1>4. \A a : Code(a)' <=> Code(a)
  BY <1>2 DEF node, Code
<1>5. RunsConfirmed'
  <2>1. ASSUME NEW s \in Runs, run'[s].stage \in {"write", "writing"}
        PROVE  Code(Address(s)')
    <3>1. CASE s = r
      BY <1>1, <1>3, <2>1, <3>1 DEF Address
    <3>2. CASE s # r
      BY <1>1, <1>3, <2>1, <3>2 DEF Address, DeploymentInv, RunsConfirmed
    <3> QED
      BY <3>1, <3>2
  <2> QED
    BY <1>4, <2>1 DEF RunsConfirmed
<1>6. file' = file \/ file' = Torn \/ (file' \in Addresses /\ Code(file'))
  <2>1. RunAt(r, "writing") => Code(Address(r)) /\ Address(r) \in Addresses
    BY <1>1 DEF DeploymentInv, RunsConfirmed, RunAt, Address, Addresses
  <2> QED
    BY <1>2, <2>1
<1>7. run' \in [Runs -> Run]
  BY <1>1, <1>3
<1> QED
  BY <1>1, <1>2, <1>5, <1>6, <1>7, RunStep

LEMMA ChangeKeyKeeps ==
    ASSUME DeploymentInv, NEW k \in Keys, ChangeKey(k) PROVE DeploymentInv'
<1>1. RunsConfirmed'
  BY DEF ChangeKey, DeploymentInv, RunsConfirmed, Address, Code, node
<1> QED
  BY <1>1, RunStep DEF ChangeKey, DeploymentInv, TypeOK

-----------------------------------------------------------------------------

JobType == [stage : {"new", "send", "wait", "hash", "null"}, worker : Workers \cup {None},
            key : Keys, contract : Addresses \cup {None}, nonce : Nat]

\* What ReportedIsRecorded says of one digest.
Recorded(q, j) ==
    /\ q.nonce < mined[q.key] /\ <<q.key, q.nonce>> \notin failed
    /\ sent[q.key][q.nonce + 1] = [by |-> j, to |-> q.contract]
    /\ q.contract[1] = q.key /\ Code(q.contract)

LEMMA RecordedMeans ==
    ReportedIsRecorded <=> \A j \in Jobs : job[j].stage = "hash" => Recorded(job[j], j)
BY DEF ReportedIsRecorded, Recorded, JobAt

\* Steps in which nothing is sent and runs stay where they are.
LEMMA ServerStep ==
    ASSUME DeploymentInv, UNCHANGED <<env, file, run, node>>,
           worker' \in [Workers -> [up : BOOLEAN, key : Keys, contract : Addresses \cup {None}]],
           \A w \in Workers : worker'[w].contract # None => Code(worker'[w].contract),
           job' \in [Jobs -> JobType],
           \A j \in Jobs : job'[j].stage \in {"send", "wait", "hash"} =>
              /\ job'[j].contract \in Keys \X Nat /\ job'[j].contract[1] = job'[j].key
              /\ Code(job'[j].contract),
           \A k \in Keys : \A n \in 1 .. Len(sent[k]) : sent[k][n].by \in Jobs =>
              /\ job'[sent[k][n].by].stage \in {"wait", "hash", "null"}
              /\ sent[k][n].to = job'[sent[k][n].by].contract,
           \A j \in Jobs : job'[j].stage = "hash" => Recorded(job'[j], j)
    PROVE  DeploymentInv'
<1>1. \A a : Code(a)' <=> Code(a)
  BY DEF node, Code
<1>2. TypeOK'
  BY DEF DeploymentInv, TypeOK, node, JobType
<1>3. NamedContractsExist'
  BY <1>1 DEF DeploymentInv, NamedContractsExist
<1>4. RunsConfirmed'
  BY <1>1 DEF DeploymentInv, RunsConfirmed, Address
<1>5. JobsOwned'
  BY <1>1 DEF JobsOwned
<1>6. SentByJobs'
  BY DEF SentByJobs, node
<1>7. ReportedIsRecorded'
  BY <1>1 DEF ReportedIsRecorded, Recorded, JobAt, node
<1> QED
  BY <1>2, <1>3, <1>4, <1>5, <1>6, <1>7 DEF DeploymentInv

LEMMA StartKeeps == ASSUME DeploymentInv, NEW w \in Workers, Start(w) PROVE DeploymentInv'
<1>1. PICK found \in {None} \cup (IF file \in Addresses /\ Code(file) THEN {file} ELSE {}) :
        worker' = [worker EXCEPT ![w] = [up |-> TRUE, key |-> env, contract |-> found]]
  BY DEF Start
<1>2. /\ found = None \/ (found \in Addresses /\ Code(found))
      /\ env \in Keys
      /\ worker \in [Workers -> [up : BOOLEAN, key : Keys, contract : Addresses \cup {None}]]
      /\ job \in [Jobs -> JobType]
      /\ UNCHANGED <<env, file, run, job, node>>
  BY DEF Start, DeploymentInv, TypeOK, JobType
<1>3. worker' \in [Workers -> [up : BOOLEAN, key : Keys, contract : Addresses \cup {None}]]
  BY <1>1, <1>2
<1>4. \A v \in Workers : worker'[v].contract # None => Code(worker'[v].contract)
  BY <1>1, <1>2 DEF DeploymentInv, NamedContractsExist
<1>5. \A j \in Jobs : job[j].stage = "hash" => Recorded(job[j], j)
  BY RecordedMeans DEF DeploymentInv
<1> QED
  BY <1>2, <1>3, <1>4, <1>5, ServerStep DEF DeploymentInv, JobsOwned, SentByJobs

LEMMA StopKeeps == ASSUME DeploymentInv, NEW w \in Workers, Stop(w) PROVE DeploymentInv'
<1>1. /\ worker \in [Workers -> [up : BOOLEAN, key : Keys, contract : Addresses \cup {None}]]
      /\ job \in [Jobs -> JobType]
      /\ worker' = [worker EXCEPT ![w].up = FALSE, ![w].contract = None]
      /\ job' = [j \in Jobs |->
            IF job[j].worker = w /\ job[j].stage \in {"send", "wait"}
            THEN [job[j] EXCEPT !.stage = "null"] ELSE job[j]]
      /\ UNCHANGED <<env, file, run, node>>
  BY DEF Stop, DeploymentInv, TypeOK, JobType
<1>2. /\ worker' \in [Workers -> [up : BOOLEAN, key : Keys, contract : Addresses \cup {None}]]
      /\ worker'[w].contract = None
      /\ \A v \in Workers : v # w => worker'[v] = worker[v]
  BY <1>1
<1>3. ASSUME NEW j \in Jobs
      PROVE  /\ job'[j] \in JobType
             /\ \/ job'[j] = job[j]
                \/ /\ job[j].stage \in {"send", "wait"} /\ job'[j].stage = "null"
                   /\ job'[j].contract = job[j].contract
  BY <1>1 DEF JobType
<1>4. job' \in [Jobs -> JobType]
  BY <1>1, <1>3
<1>5. \A v \in Workers : worker'[v].contract # None => Code(worker'[v].contract)
  BY <1>2 DEF DeploymentInv, NamedContractsExist
<1>6. \A j \in Jobs : job'[j].stage \in {"send", "wait", "hash"} => job'[j] = job[j]
  BY <1>3
<1>7. \A j \in Jobs : job'[j].stage = "hash" => Recorded(job'[j], j)
  BY <1>6, RecordedMeans DEF DeploymentInv
<1>8. \A k \in Keys : \A n \in 1 .. Len(sent[k]) : sent[k][n].by \in Jobs =>
              /\ job'[sent[k][n].by].stage \in {"wait", "hash", "null"}
              /\ sent[k][n].to = job'[sent[k][n].by].contract
  BY <1>3 DEF DeploymentInv, SentByJobs
<1>9. \A j \in Jobs : job'[j].stage \in {"send", "wait", "hash"} =>
              /\ job'[j].contract \in Keys \X Nat /\ job'[j].contract[1] = job'[j].key
              /\ Code(job'[j].contract)
  BY <1>6 DEF DeploymentInv, JobsOwned
<1> QED
  BY <1>1, <1>2, <1>4, <1>5, <1>7, <1>8, <1>9, ServerStep

\* A step of one digest that sends nothing.
LEMMA JobStep ==
    ASSUME DeploymentInv, NEW j \in Jobs, NEW q \in JobType, job' = [job EXCEPT ![j] = q],
           UNCHANGED <<env, file, run, worker, node>>,
           q.stage \in {"send", "wait", "hash"} =>
              /\ q.contract \in Keys \X Nat /\ q.contract[1] = q.key /\ Code(q.contract),
           q.stage = "hash" => Recorded(q, j),
           \/ job[j].stage = "new"
           \/ q.stage \in {"wait", "hash", "null"} /\ q.contract = job[j].contract
    PROVE  DeploymentInv'
<1>1. /\ worker \in [Workers -> [up : BOOLEAN, key : Keys, contract : Addresses \cup {None}]]
      /\ job \in [Jobs -> JobType]
  BY DEF DeploymentInv, TypeOK, JobType
<1>2. /\ job' \in [Jobs -> JobType] /\ job'[j] = q
      /\ \A i \in Jobs : i # j => job'[i] = job[i]
  <2> HIDE DEF JobType
  <2> QED
    BY <1>1
<1>3. \A i \in Jobs : job'[i].stage \in {"send", "wait", "hash"} =>
              /\ job'[i].contract \in Keys \X Nat /\ job'[i].contract[1] = job'[i].key
              /\ Code(job'[i].contract)
  BY <1>2 DEF DeploymentInv, JobsOwned
<1>4. \A k \in Keys : \A n \in 1 .. Len(sent[k]) : sent[k][n].by \in Jobs =>
              /\ job'[sent[k][n].by].stage \in {"wait", "hash", "null"}
              /\ sent[k][n].to = job'[sent[k][n].by].contract
  <2>1. ASSUME NEW k \in Keys, NEW n \in 1 .. Len(sent[k]), sent[k][n].by \in Jobs
        PROVE  /\ job'[sent[k][n].by].stage \in {"wait", "hash", "null"}
               /\ sent[k][n].to = job'[sent[k][n].by].contract
    <3>1. /\ job[sent[k][n].by].stage \in {"wait", "hash", "null"}
          /\ sent[k][n].to = job[sent[k][n].by].contract
      BY <2>1 DEF DeploymentInv, SentByJobs
    <3> QED
      BY <1>2, <2>1, <3>1
  <2> QED
    BY <2>1
<1>5. \A i \in Jobs : job'[i].stage = "hash" => Recorded(job'[i], i)
  BY <1>2, RecordedMeans DEF DeploymentInv
<1>6. \A w \in Workers : worker[w].contract # None => Code(worker[w].contract)
  BY DEF DeploymentInv, NamedContractsExist
<1> QED
  BY <1>1, <1>2, <1>3, <1>4, <1>5, <1>6, ServerStep

LEMMA PrepareKeeps ==
    ASSUME DeploymentInv, NEW j \in Jobs, NEW w \in Workers, Prepare(j, w) PROVE DeploymentInv'
<1> DEFINE q == [stage |-> IF Owned(w) THEN "send" ELSE "null", worker |-> w,
                 key |-> worker[w].key, contract |-> worker[w].contract,
                 nonce |-> Len(sent[worker[w].key])]
<1>1. /\ worker[w].key \in Keys /\ worker[w].contract \in Addresses \cup {None}
      /\ worker[w].contract # None /\ job[j].stage = "new"
      /\ job' = [job EXCEPT ![j] = q]
      /\ UNCHANGED <<env, file, run, worker, node>>
  BY DEF Prepare, Prepared, JobAt, DeploymentInv, TypeOK
<1>2. Len(sent[worker[w].key]) \in Nat
  <2>1. sent[worker[w].key] \in Seq(Transactions)
    BY <1>1 DEF DeploymentInv, TypeOK, Transactions
  <2> QED
    BY <2>1, LenProperties
<1>3. q \in JobType
  BY <1>1, <1>2 DEF JobType
<1>4. Code(worker[w].contract)
  BY <1>1 DEF DeploymentInv, NamedContractsExist
<1>5. q.stage = "send" \/ q.stage = "null"
  OBVIOUS
<1>6. q.stage = "send" => /\ q.contract \in Keys \X Nat /\ q.contract[1] = q.key
                          /\ Code(q.contract)
  BY <1>4 DEF Owned
<1> HIDE DEF q
<1> QED
  BY <1>1, <1>3, <1>5, <1>6, JobStep

LEMMA ReceiptKeeps ==
    ASSUME DeploymentInv, NEW j \in Jobs, Receipt(j) \/ Raises(j) PROVE DeploymentInv'
<1>1. job \in [Jobs -> JobType]
  BY DEF DeploymentInv, TypeOK, JobType
<1>2. PICK stage \in {"hash", "null"} :
        /\ JobTo(j, stage)
        /\ stage = "hash" => /\ JobAt(j, "wait") /\ IsMined(j, job[j].key, job[j].nonce)
                             /\ <<job[j].key, job[j].nonce>> \notin failed
  BY DEF Receipt, Raises
<1>3. job[j].stage \in {"send", "wait"} /\ UNCHANGED <<env, file, run, worker, node>>
  BY DEF Receipt, Raises, JobAt
<1> DEFINE q == [job[j] EXCEPT !.stage = stage]
<1>4. /\ q \in JobType /\ job' = [job EXCEPT ![j] = q] /\ q.stage = stage
      /\ q.contract = job[j].contract /\ q.key = job[j].key /\ q.nonce = job[j].nonce
  BY <1>1, <1>2 DEF JobTo, JobType
<1>5. /\ job[j].contract \in Keys \X Nat /\ job[j].contract[1] = job[j].key
      /\ Code(job[j].contract)
  BY <1>3 DEF DeploymentInv, JobsOwned
<1>6. stage = "hash" => Recorded(q, j)
  <2> SUFFICES ASSUME stage = "hash" PROVE Recorded(q, j)
    OBVIOUS
  <2> DEFINE k == job[j].key
             n == job[j].nonce
             tx == sent[k][n + 1]
  <2>1. /\ n < mined[k] /\ tx.by = j /\ <<k, n>> \notin failed
    BY <1>2 DEF IsMined
  <2>2. /\ k \in Keys /\ n \in Nat /\ mined[k] \in Nat /\ mined[k] <= Len(sent[k])
        /\ sent[k] \in Seq(Transactions)
    BY <1>1 DEF JobType, DeploymentInv, TypeOK, Transactions
  <2>3. Len(sent[k]) \in Nat
    BY <2>2, LenProperties
  <2>4. n + 1 \in 1 .. Len(sent[k])
    <3> HIDE DEF k, n, tx
    <3> QED
      BY <2>1, <2>2, <2>3
  <2>5. tx \in Transactions
    BY <2>2, <2>4, ElementOfSeq
  <2>6. tx.to = job[j].contract
    BY <2>1, <2>2, <2>4 DEF DeploymentInv, SentByJobs
  <2>7. tx = [by |-> j, to |-> job[j].contract]
    BY <2>1, <2>5, <2>6 DEF Transactions
  <2> QED
    BY <1>4, <1>5, <2>1, <2>7 DEF Recorded
<1> HIDE DEF q
<1> QED
  BY <1>3, <1>4, <1>5, <1>6, JobStep

-----------------------------------------------------------------------------

RunType == [stage : {"new", "build", "send", "wait", "write", "writing", "done", "error"},
            key : Keys, nonce : Nat]

\* What was recorded stays recorded.
LEMMA RecordedStays ==
    ASSUME TypeOK, MinedStays, NEW j, NEW q \in JobType, Recorded(q, j)
    PROVE  Recorded(q, j)'
<1> DEFINE k == q.key
           n == q.nonce
<1>1. /\ k \in Keys /\ n \in Nat /\ n < mined[k] /\ <<k, n>> \notin failed
      /\ sent[k][n + 1] = [by |-> j, to |-> q.contract]
      /\ q.contract[1] = k /\ Code(q.contract)
  BY DEF Recorded, JobType
<1>2. mined[k] \in Nat /\ mined'[k] \in Nat
  BY <1>1 DEF TypeOK, MinedStays
<1>3. n + 1 \in 1 .. mined[k]
  BY <1>1, <1>2
<1>4. /\ mined[k] <= mined'[k] /\ <<k, n>> \notin failed'
      /\ sent'[k][n + 1] = sent[k][n + 1]
  BY <1>1, <1>3 DEF MinedStays
<1>5. n < mined'[k]
  BY <1>1, <1>2, <1>4
<1>6. Code(q.contract)'
  BY <1>1, CodeStays
<1> QED
  BY <1>1, <1>4, <1>5, <1>6 DEF Recorded

\* Steps in which something is sent or mined.
LEMMA NodeStep ==
    ASSUME DeploymentInv, MinedStays, UNCHANGED <<env, file, worker>>,
           sent' \in [Keys -> Seq(Transactions)],
           \A k \in Keys : mined'[k] <= Len(sent'[k]),
           failed' \subseteq Keys \X Nat,
           run' \in [Runs -> RunType], job' \in [Jobs -> JobType],
           \A r \in Runs : run'[r].stage \in {"write", "writing"} => run'[r] = run[r],
           \A j \in Jobs : job'[j].stage \in {"send", "wait", "hash"} =>
              /\ job[j].stage \in {"send", "wait", "hash"}
              /\ job'[j].contract = job[j].contract /\ job'[j].key = job[j].key,
           \A j \in Jobs : job'[j].stage = "hash" => job'[j] = job[j],
           SentByJobs'
    PROVE  DeploymentInv'
<1>1. TypeOK
  BY DEF DeploymentInv
<1>2. TypeOK'
  BY <1>1 DEF TypeOK, MinedStays, RunType, JobType, Transactions
<1>3. \A a : Code(a) => Code(a)'
  BY <1>1, CodeStays
<1>4. NamedContractsExist'
  BY <1>3 DEF DeploymentInv, NamedContractsExist
<1>5. RunsConfirmed'
  BY <1>3 DEF DeploymentInv, RunsConfirmed, Address
<1>6. JobsOwned'
  BY <1>3 DEF DeploymentInv, JobsOwned
<1>7. ReportedIsRecorded'
  <2>1. ASSUME NEW j \in Jobs, job'[j].stage = "hash" PROVE Recorded(job[j], j)'
    <3>1. job'[j] = job[j] /\ Recorded(job[j], j) /\ job'[j] \in JobType
      BY <2>1, RecordedMeans DEF DeploymentInv
    <3>2. ASSUME NEW CONSTANT q, q = job[j] PROVE Recorded(q, j)'
      BY <1>1, <3>1, <3>2, RecordedStays
    <3> QED
      BY <3>1, <3>2
  <2> QED
    BY <2>1 DEF ReportedIsRecorded, Recorded, JobAt
<1> QED
  BY <1>2, <1>4, <1>5, <1>6, <1>7 DEF DeploymentInv

LEMMA MiningKeeps == ASSUME DeploymentInv, NEW k \in Keys, Mine(k) PROVE DeploymentInv'
<1>1. /\ TypeOK
      /\ sent \in [Keys -> Seq(Transactions)] /\ run \in [Runs -> RunType]
      /\ job \in [Jobs -> JobType]
  BY DEF DeploymentInv, TypeOK, RunType, JobType, Transactions
<1>2. UNCHANGED <<env, file, run, worker, job, sent>>
  BY DEF Mine
<1>3. /\ MinedStays /\ sent' = sent
      /\ \A c \in Keys : mined'[c] <= Len(sent[c])
      /\ failed' \subseteq Keys \X Nat
  BY <1>1, MineKeeps
<1>4. SentByJobs'
  BY <1>2 DEF DeploymentInv, SentByJobs
<1> QED
  BY <1>1, <1>2, <1>3, <1>4, NodeStep

LEMMA DeployKeeps == ASSUME DeploymentInv, NEW r \in Runs, Deploy(r) PROVE DeploymentInv'
<1> DEFINE tx == [by |-> r, to |-> None]
<1>1. /\ TypeOK
      /\ run \in [Runs -> RunType] /\ job \in [Jobs -> JobType]
      /\ failed \subseteq Keys \X Nat
  BY DEF DeploymentInv, TypeOK, RunType, JobType
<1>2. PICK stage \in {"wait", "error"} : RunTo(r, stage)
  BY DEF Deploy
<1>3. /\ Accept(run[r].key, run[r].nonce, tx)
      /\ UNCHANGED <<env, file, worker, job>>
  BY DEF Deploy
<1>4. run[r].key \in Keys /\ run[r].nonce \in Nat /\ tx \in Transactions
  BY <1>1 DEF RunType, Transactions
<1>5. /\ MinedStays
      /\ sent' \in [Keys -> Seq(Transactions)]
      /\ \A c \in Keys : mined'[c] <= Len(sent'[c])
      /\ \A c \in Keys : \A i \in 1 .. Len(sent'[c]) :
            \/ i \in 1 .. Len(sent[c]) /\ sent'[c][i] = sent[c][i]
            \/ sent'[c][i] = tx
  BY <1>1, <1>3, <1>4, AcceptKeeps
<1>6. failed' = failed
  BY <1>3 DEF Accept
<1>7. /\ run' \in [Runs -> RunType]
      /\ \A s \in Runs : run'[s].stage \in {"write", "writing"} => run'[s] = run[s]
  BY <1>1, <1>2 DEF RunTo, RunType
<1>8. SentByJobs'
  <2>1. tx.by \notin Jobs
    BY DeploymentAssumptions
  <2> HIDE DEF tx
  <2> QED
    BY <1>3, <1>5, <2>1 DEF DeploymentInv, SentByJobs
<1> QED
  BY <1>1, <1>3, <1>5, <1>6, <1>7, <1>8, NodeStep

LEMMA RecordKeeps == ASSUME DeploymentInv, NEW j \in Jobs, Record(j) PROVE DeploymentInv'
<1> DEFINE tx == [by |-> j, to |-> job[j].contract]
<1>1. /\ TypeOK
      /\ run \in [Runs -> RunType] /\ job \in [Jobs -> JobType]
      /\ failed \subseteq Keys \X Nat
  BY DEF DeploymentInv, TypeOK, RunType, JobType
<1>2. PICK stage \in {"wait", "null"} : JobTo(j, stage)
  BY DEF Record
<1>3. /\ Accept(job[j].key, job[j].nonce, tx) /\ job[j].stage = "send"
      /\ UNCHANGED <<env, file, run, worker>>
  BY DEF Record, JobAt
<1>4. job[j].key \in Keys /\ job[j].nonce \in Nat /\ tx \in Transactions
  BY <1>1 DEF JobType, Transactions
<1>5. /\ MinedStays
      /\ sent' \in [Keys -> Seq(Transactions)]
      /\ \A c \in Keys : mined'[c] <= Len(sent'[c])
      /\ \A c \in Keys : \A i \in 1 .. Len(sent'[c]) :
            \/ i \in 1 .. Len(sent[c]) /\ sent'[c][i] = sent[c][i]
            \/ sent'[c][i] = tx
  BY <1>1, <1>3, <1>4, AcceptKeeps
<1>6. failed' = failed
  BY <1>3 DEF Accept
<1>7. /\ job' \in [Jobs -> JobType]
      /\ job'[j].stage \in {"wait", "null"} /\ job'[j].contract = job[j].contract
      /\ job'[j].key = job[j].key
      /\ \A i \in Jobs : i # j => job'[i] = job[i]
  BY <1>1, <1>2 DEF JobTo, JobType
<1>8. SentByJobs'
  <2>1. tx.by = j /\ tx.to = job[j].contract
    OBVIOUS
  <2> HIDE DEF tx
  <2>2. ASSUME NEW k \in Keys, NEW n \in 1 .. Len(sent'[k]), sent'[k][n].by \in Jobs
        PROVE  /\ job'[sent'[k][n].by].stage \in {"wait", "hash", "null"}
               /\ sent'[k][n].to = job'[sent'[k][n].by].contract
    <3>1. CASE sent'[k][n] = tx
      BY <1>7, <2>1, <3>1
    <3>2. CASE n \in 1 .. Len(sent[k]) /\ sent'[k][n] = sent[k][n]
      <4>1. /\ job[sent[k][n].by].stage \in {"wait", "hash", "null"}
            /\ sent[k][n].to = job[sent[k][n].by].contract
        BY <2>2, <3>2 DEF DeploymentInv, SentByJobs
      <4> QED
        BY <1>3, <1>7, <2>2, <3>2, <4>1
    <3> QED
      BY <1>5, <3>1, <3>2
  <2> QED
    BY <2>2 DEF SentByJobs
<1>9. \A i \in Jobs : job'[i].stage \in {"send", "wait", "hash"} =>
              /\ job[i].stage \in {"send", "wait", "hash"}
              /\ job'[i].contract = job[i].contract /\ job'[i].key = job[i].key
  BY <1>3, <1>7
<1>10. \A i \in Jobs : job'[i].stage = "hash" => job'[i] = job[i]
  BY <1>7
<1>11. \A r \in Runs : run'[r].stage \in {"write", "writing"} => run'[r] = run[r]
  BY <1>3
<1> QED
  BY <1>1, <1>3, <1>5, <1>6, <1>7, <1>8, <1>9, <1>10, <1>11, NodeStep

-----------------------------------------------------------------------------

\* Every step keeps the invariant.
LEMMA StepKeeps == ASSUME DeploymentInv, [Next]_vars PROVE DeploymentInv'
<1>1. CASE UNCHANGED vars
  <2>1. RunsConfirmed'
    BY <1>1 DEF DeploymentInv, RunsConfirmed, Address, Code, vars, node
  <2> QED
    BY <1>1, <2>1, RunStep DEF vars, DeploymentInv, TypeOK
<1>2. ASSUME NEW k \in Keys, Mine(k) \/ ChangeKey(k) PROVE DeploymentInv'
  BY <1>2, MiningKeeps, ChangeKeyKeeps
<1>3. ASSUME NEW r \in Runs, Begin(r) \/ Build(r) \/ Deploy(r) \/ Confirm(r) \/ Truncate(r)
                               \/ Write(r) \/ Abandon(r)
      PROVE  DeploymentInv'
  BY <1>3, RunsKeep, DeployKeeps
<1>4. ASSUME NEW w \in Workers, Start(w) \/ Stop(w) \/ \E j \in Jobs : Prepare(j, w)
      PROVE  DeploymentInv'
  BY <1>4, StartKeeps, StopKeeps, PrepareKeeps
<1>5. ASSUME NEW j \in Jobs, Record(j) \/ Receipt(j) \/ Raises(j) PROVE DeploymentInv'
  BY <1>5, RecordKeeps, ReceiptKeeps
<1> QED
  BY <1>1, <1>2, <1>3, <1>4, <1>5 DEF Next

LEMMA DeploymentInvariant == Spec => []DeploymentInv
<1>1. DeploymentInv /\ [Next]_vars => DeploymentInv'
  BY StepKeeps
<1> QED
  BY Initially, <1>1, PTL DEF Spec

-----------------------------------------------------------------------------
(* The nonces of a worker's own digests.                                   *)

\* _nonce_lock, and that a nonce is counted after everything queued.
NoncesOK ==
    /\ \A i, j \in Jobs : JobAt(i, "send") /\ JobAt(j, "send")
                             /\ job[i].worker = job[j].worker => i = j
    /\ \A j \in Jobs : JobAt(j, "wait") => job[j].nonce < Len(sent[job[j].key])
    /\ \A i, j \in Jobs :
          JobAt(i, "wait") /\ JobAt(j, "send")
              /\ job[i].worker = job[j].worker /\ job[i].key = job[j].key =>
          job[i].nonce < job[j].nonce
    /\ OwnDigestsNotReplaced

\* The node puts a transaction in one slot and keeps every other.
LEMMA AcceptsOne ==
    ASSUME TypeOK, NEW k \in Keys, NEW n \in Nat, NEW tx \in Transactions, Accept(k, n, tx)
    PROVE  /\ \A c \in Keys : Len(sent[c]) \in Nat /\ Len(sent'[c]) \in Nat
                              /\ Len(sent[c]) <= Len(sent'[c])
           /\ n < Len(sent'[k]) /\ sent'[k][n + 1] = tx
           /\ \A c \in Keys, i \in Nat :
                 i < Len(sent[c]) /\ <<c, i>> # <<k, n>> => sent'[c][i + 1] = sent[c][i + 1]
<1>1. /\ sent \in [Keys -> Seq(Transactions)] /\ mined \in [Keys -> Nat]
  BY DEF TypeOK, Transactions
<1>2. \A c \in Keys : sent[c] \in Seq(Transactions) /\ Len(sent[c]) \in Nat /\ mined[c] \in Nat
  <2> SUFFICES ASSUME NEW c \in Keys
               PROVE  sent[c] \in Seq(Transactions) /\ Len(sent[c]) \in Nat /\ mined[c] \in Nat
    OBVIOUS
  <2>1. sent[c] \in Seq(Transactions)
    BY <1>1
  <2> QED
    BY <1>1, <2>1, LenProperties
<1>3. CASE n = Len(sent[k]) /\ sent' = [sent EXCEPT ![k] = Append(@, tx)]
  <2> DEFINE q == Append(sent[k], tx)
  <2>1. /\ Len(q) = Len(sent[k]) + 1
        /\ \A i \in 1 .. Len(sent[k]) : q[i] = sent[k][i]
        /\ q[Len(sent[k]) + 1] = tx
    BY <1>2
  <2>2. sent'[k] = q /\ \A c \in Keys : c # k => sent'[c] = sent[c]
    BY <1>1, <1>3
  <2> HIDE DEF q
  <2> QED
    BY <1>2, <1>3, <2>1, <2>2
<1>4. CASE n \in mined[k] .. Len(sent[k]) - 1 /\ sent' = [sent EXCEPT ![k][n + 1] = tx]
  <2> DEFINE q == [sent[k] EXCEPT ![n + 1] = tx]
  <2>1. /\ Len(q) = Len(sent[k])
        /\ \A i \in 1 .. Len(sent[k]) : i # n + 1 => q[i] = sent[k][i]
        /\ q[n + 1] = tx
    BY <1>2, <1>4
  <2>2. sent'[k] = q /\ \A c \in Keys : c # k => sent'[c] = sent[c]
    BY <1>1, <1>4
  <2> HIDE DEF q
  <2>3. n < Len(sent[k])
    BY <1>2, <1>4
  <2> QED
    BY <1>2, <2>1, <2>2, <2>3
<1> QED
  BY <1>3, <1>4 DEF Accept

\* No job waits, or is about to send, that was not, and the node keeps what
\* it has.
LEMMA NoncesStay ==
    ASSUME NoncesOK, sent' = sent,
           \A j \in Jobs : job'[j].stage \in {"send", "wait"} => job'[j] = job[j],
           \A j \in Jobs : job'[j].worker = job[j].worker
                           \/ (\A k \in Keys : \A n \in 1 .. Len(sent[k]) : sent[k][n].by # j),
           TypeOK
    PROVE  NoncesOK'
<1>1. \A j \in Jobs : JobAt(j, "send")' => JobAt(j, "send") /\ job'[j] = job[j]
  BY DEF JobAt
<1>2. \A j \in Jobs : JobAt(j, "wait")' => JobAt(j, "wait") /\ job'[j] = job[j]
  BY DEF JobAt
<1>3. OwnDigestsNotReplaced'
  <2> SUFFICES ASSUME NEW j \in Jobs, JobAt(j, "wait"), job'[j] = job[j],
                      sent[job[j].key][job[j].nonce + 1].by # j,
                      sent[job[j].key][job[j].nonce + 1].by \notin Runs
               PROVE  job'[sent[job[j].key][job[j].nonce + 1].by].worker # job[j].worker
    BY <1>2 DEF OwnDigestsNotReplaced
  <2> DEFINE k == job[j].key
             n == job[j].nonce
             b == sent[k][n + 1].by
  <2>1. job[b].worker # job[j].worker
    BY DEF NoncesOK, OwnDigestsNotReplaced
  <2>2. k \in Keys /\ n \in Nat /\ n < Len(sent[k]) /\ sent[k] \in Seq(Transactions)
    BY DEF NoncesOK, TypeOK, Transactions
  <2>3. n + 1 \in 1 .. Len(sent[k])
    BY <2>2
  <2>4. b \in Jobs
    <3>1. sent[k][n + 1] \in Transactions
      BY <2>2, <2>3
    <3> QED
      BY <3>1 DEF Transactions
  <2> QED
    BY <2>1, <2>2, <2>3, <2>4
<1> QED
  BY <1>1, <1>2, <1>3 DEF NoncesOK

\* A new transaction of a deployment, or of the one job of its worker that
\* was about to send, takes no slot of another job of that worker.
LEMMA SlotTaken ==
    ASSUME DeploymentInv, NoncesOK, NEW k \in Keys, NEW n \in Nat, NEW tx \in Transactions,
           Accept(k, n, tx),
           \A j \in Jobs : /\ job'[j].worker = job[j].worker /\ job'[j].key = job[j].key
                           /\ job'[j].nonce = job[j].nonce
                           /\ JobAt(j, "send")' => JobAt(j, "send"),
           \A j \in Jobs : JobAt(j, "wait")' =>
              \/ JobAt(j, "wait")
              \/ /\ tx.by = j /\ job[j].key = k /\ job[j].nonce = n
                 /\ \A i \in Jobs : job[i].worker = job[j].worker => ~JobAt(i, "send")',
           \A j \in Jobs : JobAt(j, "wait") /\ job[j].key = k /\ job[j].nonce = n =>
              tx.by \in Runs \/ job[tx.by].worker # job[j].worker
    PROVE  NoncesOK'
<1>1. TypeOK
  BY DEF DeploymentInv
<1>2. /\ \A c \in Keys : Len(sent[c]) \in Nat /\ Len(sent'[c]) \in Nat
                        /\ Len(sent[c]) <= Len(sent'[c])
      /\ n < Len(sent'[k]) /\ sent'[k][n + 1] = tx
      /\ \A c \in Keys, i \in Nat :
            i < Len(sent[c]) /\ <<c, i>> # <<k, n>> => sent'[c][i + 1] = sent[c][i + 1]
  BY <1>1, AcceptsOne
<1>3. \A j \in Jobs : job[j].key \in Keys /\ job[j].nonce \in Nat
  BY <1>1 DEF TypeOK
<1>4. \A i, j \in Jobs : JobAt(i, "send")' /\ JobAt(j, "send")'
                              /\ job'[i].worker = job'[j].worker => i = j
  BY DEF NoncesOK
<1>5. \A j \in Jobs : JobAt(j, "wait")' => job'[j].nonce < Len(sent'[job'[j].key])
  BY <1>2, <1>3 DEF NoncesOK
<1>6. \A i, j \in Jobs :
         JobAt(i, "wait")' /\ JobAt(j, "send")'
             /\ job'[i].worker = job'[j].worker /\ job'[i].key = job'[j].key =>
         job'[i].nonce < job'[j].nonce
  BY DEF NoncesOK
<1>7. OwnDigestsNotReplaced'
  <2> SUFFICES ASSUME NEW j \in Jobs, JobAt(j, "wait")',
                      sent'[job[j].key][job[j].nonce + 1].by # j,
                      sent'[job[j].key][job[j].nonce + 1].by \notin Runs
               PROVE  job'[sent'[job[j].key][job[j].nonce + 1].by].worker # job[j].worker
    BY DEF OwnDigestsNotReplaced
  <2> DEFINE c == job[j].key
             m == job[j].nonce
             b == sent'[c][m + 1].by
  <2>1. JobAt(j, "wait")
    BY <1>2
  <2>2. CASE <<c, m>> = <<k, n>>
    <3>1. b = tx.by /\ b \in Jobs
      BY <1>2, <2>2 DEF Transactions
    <3> QED
      BY <2>1, <2>2, <3>1
  <2>3. CASE <<c, m>> # <<k, n>>
    <3>1. sent'[c][m + 1] = sent[c][m + 1] /\ m < Len(sent[c])
      BY <1>2, <1>3, <2>1, <2>3 DEF NoncesOK
    <3>2. job[b].worker # job[j].worker
      BY <2>1, <3>1 DEF NoncesOK, OwnDigestsNotReplaced
    <3>3. b \in Jobs
      <4>1. sent[c] \in Seq(Transactions)
        BY <1>1, <1>3 DEF TypeOK, Transactions
      <4>2. m + 1 \in 1 .. Len(sent[c])
        BY <1>2, <1>3, <3>1
      <4>3. sent[c][m + 1] \in Transactions
        BY <4>1, <4>2
      <4> QED
        BY <3>1, <4>3 DEF Transactions
    <3> QED
      BY <3>2, <3>3
  <2> QED
    BY <2>2, <2>3
<1> QED
  BY <1>4, <1>5, <1>6, <1>7 DEF NoncesOK

LEMMA NoncesStepKeeps ==
    ASSUME DeploymentInv, NoncesOK, [Next]_vars
    PROVE  NoncesOK'
<1>1. /\ TypeOK /\ SentByJobs
      /\ \A j \in Jobs : job[j].key \in Keys /\ job[j].nonce \in Nat
  BY DEF DeploymentInv, TypeOK
<1>2. ASSUME UNCHANGED <<job, sent>>
      PROVE  NoncesOK'
  BY <1>1, <1>2, NoncesStay
<1>3. ASSUME NEW w \in Workers, Stop(w)
      PROVE  NoncesOK'
  <2>1. sent' = sent /\ \A j \in Jobs :
           job'[j] = IF job[j].worker = w /\ job[j].stage \in {"send", "wait"}
                     THEN [job[j] EXCEPT !.stage = "null"] ELSE job[j]
    BY <1>3 DEF Stop, node
  <2>2. \A j \in Jobs : job'[j].worker = job[j].worker
                          /\ (job'[j].stage \in {"send", "wait"} => job'[j] = job[j])
    BY <1>1, <2>1 DEF TypeOK
  <2> QED
    BY <1>1, <2>1, <2>2, NoncesStay
<1>4. ASSUME NEW j \in Jobs, Receipt(j) \/ Raises(j)
      PROVE  NoncesOK'
  <2>1. PICK stage \in {"null", "hash"} : job' = [job EXCEPT ![j].stage = stage] /\ sent' = sent
    BY <1>4 DEF Receipt, Raises, JobTo, node
  <2>2. \A i \in Jobs : job'[i].worker = job[i].worker
                          /\ (job'[i].stage \in {"send", "wait"} => job'[i] = job[i])
    BY <1>1, <2>1 DEF TypeOK
  <2> QED
    BY <1>1, <2>1, <2>2, NoncesStay
<1>5. ASSUME NEW r \in Runs, Deploy(r)
      PROVE  NoncesOK'
  <2> DEFINE tx == [by |-> r, to |-> None]
  <2>1. Accept(run[r].key, run[r].nonce, tx) /\ job' = job
    BY <1>5 DEF Deploy
  <2>2. tx \in Transactions /\ tx.by = r /\ run[r].key \in Keys /\ run[r].nonce \in Nat
    BY <1>1 DEF Transactions, TypeOK
  <2> HIDE DEF tx
  <2> QED
    BY <2>1, <2>2, SlotTaken DEF JobAt
<1>6. ASSUME NEW j \in Jobs, Record(j)
      PROVE  NoncesOK'
  <2> DEFINE tx == [by |-> j, to |-> job[j].contract]
             k == job[j].key
             n == job[j].nonce
  <2>1. /\ JobAt(j, "send") /\ Accept(k, n, tx)
        /\ JobTo(j, "wait") \/ JobTo(j, "null")
    BY <1>6 DEF Record
  <2>2. tx \in Transactions /\ tx.by = j /\ k \in Keys /\ n \in Nat
    BY <1>1 DEF Transactions, TypeOK
  <2>3. /\ \A i \in Jobs : job'[i].worker = job[i].worker /\ job'[i].key = job[i].key
                             /\ job'[i].nonce = job[i].nonce
        /\ \A i \in Jobs : i # j => job'[i] = job[i]
        /\ job'[j].stage \in {"wait", "null"}
    <3>1. PICK stage \in {"wait", "null"} : job' = [job EXCEPT ![j].stage = stage]
      BY <2>1 DEF JobTo
    <3>2. job \in [Jobs -> [stage : {"new", "send", "wait", "hash", "null"},
                           worker : Workers \cup {None}, key : Keys,
                           contract : Addresses \cup {None}, nonce : Nat]]
      BY <1>1 DEF TypeOK
    <3> QED
      BY <3>1, <3>2
  <2>4. \A i \in Jobs : JobAt(i, "send")' => JobAt(i, "send") /\ i # j
    BY <2>3 DEF JobAt
  <2>5. \A i \in Jobs : JobAt(i, "wait")' =>
           \/ JobAt(i, "wait")
           \/ /\ tx.by = i /\ job[i].key = k /\ job[i].nonce = n
              /\ \A h \in Jobs : job[h].worker = job[i].worker => ~JobAt(h, "send")'
    <3> SUFFICES ASSUME NEW i \in Jobs, JobAt(i, "wait")', i = j
                 PROVE  \A h \in Jobs : job[h].worker = job[i].worker => ~JobAt(h, "send")'
      BY <2>2, <2>3 DEF JobAt
    <3> QED
      BY <2>1, <2>4 DEF NoncesOK
  <2>6. \A i \in Jobs : JobAt(i, "wait") /\ job[i].key = k /\ job[i].nonce = n =>
           tx.by \in Runs \/ job[tx.by].worker # job[i].worker
    BY <1>1, <2>1, <2>2 DEF NoncesOK
  <2> HIDE DEF tx, k, n
  <2> QED
    BY <2>1, <2>2, <2>3, <2>4, <2>5, <2>6, SlotTaken
<1>7. ASSUME NEW w \in Workers, NEW j \in Jobs, Prepare(j, w)
      PROVE  NoncesOK'
  <2> DEFINE k == worker[w].key
             new == [stage |-> IF Owned(w) THEN "send" ELSE "null", worker |-> w,
                     key |-> k, contract |-> worker[w].contract, nonce |-> Len(sent[k])]
  <2>1. /\ JobAt(j, "new") /\ LockFree(w) /\ job' = [job EXCEPT ![j] = new] /\ sent' = sent
    BY <1>7 DEF Prepare, Prepared, node
  <2>2. job'[j] = new /\ \A i \in Jobs : i # j => job'[i] = job[i]
    BY <1>1, <2>1 DEF TypeOK
  <2>3. /\ new.stage \in {"send", "null"} /\ new.worker = w /\ new.key = k
        /\ new.nonce = Len(sent[k])
    OBVIOUS
  <2> HIDE DEF new
  <2>4. \A i \in Jobs : JobAt(i, "wait")' => JobAt(i, "wait") /\ i # j
    BY <2>2, <2>3 DEF JobAt
  <2>5. \A i \in Jobs : JobAt(i, "send")' => JobAt(i, "send") \/ i = j
    BY <2>2 DEF JobAt
  <2>6. \A i, h \in Jobs : JobAt(i, "send")' /\ JobAt(h, "send")'
                              /\ job'[i].worker = job'[h].worker => i = h
    BY <2>1, <2>2, <2>3, <2>5 DEF NoncesOK, LockFree
  <2>7. \A i \in Jobs : JobAt(i, "wait")' => job'[i].nonce < Len(sent'[job'[i].key])
    BY <2>1, <2>2, <2>4 DEF NoncesOK
  <2>8. \A i, h \in Jobs :
           JobAt(i, "wait")' /\ JobAt(h, "send")'
               /\ job'[i].worker = job'[h].worker /\ job'[i].key = job'[h].key =>
           job'[i].nonce < job'[h].nonce
    BY <2>1, <2>2, <2>3, <2>4, <2>5 DEF NoncesOK
  <2>9. OwnDigestsNotReplaced'
    <3> SUFFICES ASSUME NEW i \in Jobs, JobAt(i, "wait"), i # j,
                        sent[job[i].key][job[i].nonce + 1].by # i,
                        sent[job[i].key][job[i].nonce + 1].by \notin Runs
                 PROVE  job'[sent[job[i].key][job[i].nonce + 1].by].worker # job[i].worker
      BY <2>1, <2>2, <2>4 DEF OwnDigestsNotReplaced
    <3> DEFINE c == job[i].key
               m == job[i].nonce
               b == sent[c][m + 1].by
    <3>1. job[b].worker # job[i].worker /\ m < Len(sent[c])
      BY DEF NoncesOK, OwnDigestsNotReplaced
    <3>2. sent[c] \in Seq(Transactions)
      BY <1>1 DEF TypeOK, Transactions
    <3>3. m + 1 \in 1 .. Len(sent[c])
      BY <1>1, <3>1, <3>2, LenProperties
    <3>4. b \in Jobs
      <4>1. sent[c][m + 1] \in Transactions
        BY <3>2, <3>3
      <4> QED
        BY <4>1 DEF Transactions
    <3>5. b # j
      BY <1>1, <2>1, <3>3, <3>4 DEF SentByJobs, JobAt
    <3> QED
      BY <2>2, <3>1, <3>4, <3>5
  <2> QED
    BY <2>6, <2>7, <2>8, <2>9 DEF NoncesOK
<1>8. CASE UNCHANGED vars
  BY <1>2, <1>8 DEF vars, node
<1>9. ASSUME NEW k \in Keys, Mine(k) \/ ChangeKey(k)
      PROVE  NoncesOK'
  BY <1>2, <1>9 DEF Mine, ChangeKey, node
<1>10. ASSUME NEW r \in Runs, Begin(r) \/ Build(r) \/ Confirm(r) \/ Truncate(r)
                                \/ Write(r) \/ Abandon(r)
       PROVE  NoncesOK'
  BY <1>2, <1>10 DEF Begin, Build, Confirm, Truncate, Write, Abandon, node
<1>11. ASSUME NEW w \in Workers, Start(w)
       PROVE  NoncesOK'
  BY <1>2, <1>11 DEF Start, node
<1> QED
  BY <1>3, <1>4, <1>5, <1>6, <1>7, <1>8, <1>9, <1>10, <1>11 DEF Next

\* Every variable of the node, the file, the runs and the workers keeps its
\* type, and no more is mined than was sent.
THEOREM DeploymentTypesHold == Spec => []TypeOK
BY DeploymentInvariant, PTL DEF DeploymentInv

\* "Using 'pending' includes any already-queued transactions from this
\* account" (blockchain.py:67): whatever deployments and other processes send
\* under the same key, no digest takes the nonce of one that its own worker
\* still waits for.
THEOREM OwnDigestsNeverReplaced == Spec => []OwnDigestsNotReplaced
<1>1. Init => NoncesOK
  BY DEF Init, NoncesOK, JobAt, OwnDigestsNotReplaced
<1>2. DeploymentInv /\ DeploymentInv' /\ NoncesOK /\ [Next]_vars => NoncesOK'
  BY NoncesStepKeeps
<1>3. NoncesOK => OwnDigestsNotReplaced
  BY DEF NoncesOK
<1> QED
  BY <1>1, <1>2, <1>3, DeploymentInvariant, PTL DEF Spec

\* deploy.py writes, and a worker keeps, no address without code, whatever is
\* replaced, times out or is interrupted.
THEOREM NamedContractsAlwaysExist == Spec => []NamedContractsExist
BY DeploymentInvariant, PTL DEF DeploymentInv

\* record_digest returns the hash of no transaction that did not record its
\* digest in a contract of the worker's own key.
THEOREM ReportedIsAlwaysRecorded == Spec => []ReportedIsRecorded
BY DeploymentInvariant, PTL DEF DeploymentInv

=============================================================================
