--------------------------- MODULE ExchangeProofs ---------------------------
(* What can be read by whom, for every number of accounts and messages.    *)
EXTENDS Exchange, TLAPS

-----------------------------------------------------------------------------
(* The two writings of the scheme.                                         *)

LEMMA ExchangeCommutes ==
    ASSUME NEW a, NEW b PROVE exchange(a, public_key(b)) = exchange(b, public_key(a))
BY DEF exchange, public_key

LEMMA SameKeysDecrypt == ASSUME NEW keys, NEW text PROVE Decrypt(keys, Encrypt(keys, text)) = text
BY DEF Decrypt, Encrypt

\* What is sealed for a recipient opens with the recipient's private key and
\* the sender's public key (hpkeSeal and hpkeOpen, app.js).
LEMMA SealedOpens ==
    ASSUME NEW eph, NEW s, NEW r, NEW text
    PROVE  hpkeOpen(r, public_key(r), public_key(s),
                    hpkeSeal(eph, s, public_key(s), public_key(r), text)) = text
BY SameKeysDecrypt, ExchangeCommutes DEF hpkeOpen, hpkeSeal

\* It opens with no other private key, beside no other public key, and with
\* no other sender than the one whose key sealed it.
THEOREM OpensForRecipientOnly ==
    ASSUME NEW eph, NEW s, NEW spk, NEW r, NEW text, NEW k, NEW rpk, NEW listed,
           hpkeOpen(k, rpk, public_key(listed),
                    hpkeSeal(eph, s, spk, public_key(r), text)) # NoText
    PROVE  /\ k = r
           /\ rpk = public_key(r)
           /\ s = listed
           /\ hpkeOpen(k, rpk, public_key(listed),
                       hpkeSeal(eph, s, spk, public_key(r), text)) = text
<1> DEFINE box == hpkeSeal(eph, s, spk, public_key(r), text)
<1>1. DeriveBoth(exchange(k, box.ephPub), exchange(k, public_key(listed)),
                 <<box.ephPub, public_key(listed), rpk>>)
      = DeriveBoth(exchange(eph, public_key(r)), exchange(s, public_key(r)),
                   <<public_key(eph), spk, public_key(r)>>)
  BY DEF hpkeOpen, hpkeSeal, Decrypt, Encrypt
<1>2. box.ephPub = public_key(eph)
  BY DEF hpkeSeal
<1>3. /\ exchange(k, public_key(eph)) = exchange(eph, public_key(r))
      /\ exchange(k, public_key(listed)) = exchange(s, public_key(r))
      /\ rpk = public_key(r)
  BY <1>1, <1>2 DEF DeriveBoth, KeyAndNonce, hkdf
<1>4. {k, eph} = {eph, r} /\ {k, listed} = {s, r}
  BY <1>3 DEF exchange, public_key
<1>5. k = r
  BY <1>4
<1>6. s = listed
  BY <1>4, <1>5
<1> QED
  BY <1>1, <1>3, <1>5, <1>6 DEF hpkeOpen, hpkeSeal, Decrypt, Encrypt

\* "byte-compatible Python mirror of the client-side scheme" (crypto.py:13):
\* both seal the same box, open a box alike, and wrap and unwrap private keys
\* alike.
THEOREM MirrorsAgree ==
    ASSUME NEW eph, NEW s, NEW spk, NEW rpk, NEW r, NEW text, NEW box,
           NEW password, NEW salt, NEW envelope
    PROVE  /\ hpke_seal(eph, s, spk, rpk, text) = hpkeSeal(eph, s, spk, rpk, text)
           /\ hpke_open(r, spk, box) = hpkeOpen(r, public_key(r), spk, box)
           /\ encrypt_private_key(s, password, salt) = encryptPrivateKey(s, password, salt)
           /\ decrypt_private_key(envelope, password) = decryptPrivateKey(envelope, password)
BY DEF hpke_seal, hpkeSeal, hpke_open, hpkeOpen, DeriveBoth, encrypt_private_key,
       encryptPrivateKey, decrypt_private_key, decryptPrivateKey, Wrapping

LEMMA EnvelopeOpens ==
    ASSUME NEW sk, NEW password, NEW salt
    PROVE  decryptPrivateKey(encryptPrivateKey(sk, password, salt), password) = sk
BY SameKeysDecrypt DEF decryptPrivateKey, encryptPrivateKey

-----------------------------------------------------------------------------
(* The inductive invariant.                                                *)

JobFields == {"kind", "stage", "token", "refreshing", "author", "to", "text", "source",
              "box", "hash", "sealer", "todo", "got", "steady"}
LoginFields == {"kind", "stage", "user", "pw", "key", "steady"}

Has(r, fields) == r = [f \in fields |-> r[f]]

AccountMade(u) ==
    /\ u \in Names
    /\ account[u].publicKey = public_key(Identity(u))

\* The password that made an account opens its key and is accepted at login.
AccountOK(u) ==
    /\ AccountMade(u)
    /\ LoginRequest(account[u].name, account[u].password)
    /\ LoginRequest(Strip(account[u].name), account[u].password)
    /\ Strip(account[u].name).core = u
    /\ account[u].envelope = encryptPrivateKey(Identity(u), account[u].password.text, u)

\* A box for an account, sealed with some key beside some public key; both are
\* those of u if nothing disturbed u's request.
SealedBy(r, u) ==
    /\ AccountMade(r.to)
    /\ \E v \in Names :
        /\ r.sealer = Identity(v)
        /\ r.steady => v = u
    /\ \E eph, w :
        /\ r.box = hpkeSeal(eph, r.sealer, public_key(Identity(w)),
                            public_key(Identity(r.to)), r.text)
        /\ r.steady => w = u

LoginOK(t) ==
    task[t].kind \in {"register", "login"} =>
        /\ Has(task[t], LoginFields)
        /\ task[t].stage \in {"decrypt", "import"}
        /\ AccountMade(task[t].user)
        /\ account[task[t].user] # None
        /\ account[task[t].user].envelope =
              encryptPrivateKey(Identity(task[t].user), task[t].pw.text, task[t].user)
        /\ task[t].stage = "import" =>
              /\ task[t].key = Identity(task[t].user)
              /\ task[t].steady => /\ session.user = task[t].user
                                   /\ session.token = task[t].user

JobOK(t) ==
    task[t].kind \in {"send", "forward", "list"} =>
        /\ Has(task[t], JobFields)
        /\ task[t].stage \in {"asked", "post", "opening"}
        /\ AccountMade(task[t].token)
        /\ task[t].kind # "list" => AccountMade(task[t].to)
        /\ task[t].steady => whole /\ task[t].author = session.user
        /\ task[t].stage = "post" => SealedBy(task[t], task[t].author)

TasksOK ==
    \A t \in Tasks : task[t] # None =>
        /\ task[t].kind \in {"register", "login", "send", "forward", "list"}
        /\ LoginOK(t)
        /\ JobOK(t)

SessionOK ==
    /\ DOMAIN task = Tasks
    /\ session = [user |-> session.user, token |-> session.token, key |-> session.key]
    /\ session.user \in Names \cup {None}
    /\ session.token # None => AccountMade(session.token)
    /\ session.key # None => \E v \in Names : session.key = Identity(v)
    /\ whole => /\ session.token = session.user
                /\ session.user \in Names /\ session.key = Identity(session.user)

AccountsOK ==
    /\ DOMAIN account = Names
    /\ \A u \in Names : account[u] # None => AccountOK(u)

MessageOK(m) ==
    /\ AccountMade(m.recipient) /\ AccountMade(m.sender)
    /\ m.steady => m.sender = m.author
    /\ \E v \in Names :
        /\ m.sealer = Identity(v)
        /\ m.steady => v = m.sender
    /\ \E eph, w :
        /\ m.box = hpkeSeal(eph, m.sealer, public_key(Identity(w)),
                            public_key(Identity(m.recipient)), m.text)
        /\ m.steady => w = m.sender

MessagesOK == \A i \in DOMAIN message : MessageOK(message[i])

ExchangeInv == AccountsOK /\ SessionOK /\ TasksOK /\ MessagesOK

LEMMA Initially == Init => ExchangeInv
<1> SUFFICES ASSUME Init PROVE ExchangeInv
  OBVIOUS
<1>1. AccountsOK /\ MessagesOK /\ TasksOK
  BY DEF Init, AccountsOK, MessagesOK, TasksOK
<1>2. SessionOK
  BY DEF Init, SessionOK, Nobody
<1> QED
  BY <1>1, <1>2 DEF ExchangeInv

\* What the invariant says of one task.
TaskOK(t) == task[t] # None =>
    /\ task[t].kind \in {"register", "login", "send", "forward", "list"}
    /\ LoginOK(t)
    /\ JobOK(t)

\* A step that changes one task and nothing it depends on.
LEMMA OneTaskChanges ==
    ASSUME TasksOK, DOMAIN task = Tasks, NEW t \in Tasks, NEW r,
           task' = [task EXCEPT ![t] = r], UNCHANGED <<account, session, whole>>,
           TaskOK(t)'
    PROVE  TasksOK' /\ DOMAIN task' = Tasks
<1>1. \A s \in Tasks : s # t => task'[s] = task[s]
  OBVIOUS
<1>2. ASSUME NEW s \in Tasks, s # t PROVE TaskOK(s)'
  <2>1. TaskOK(s)
    BY DEF TasksOK, TaskOK
  <2> QED
    BY <1>1, <1>2, <2>1 DEF TaskOK, LoginOK, JobOK, SealedBy, AccountMade
<1> QED
  BY <1>2 DEF TasksOK, TaskOK

\* A step that changes the session: the other tasks are not steady any more.
LEMMA SessionChanges ==
    ASSUME TasksOK, NEW t, NEW r, task' = Disturbed(t, r), UNCHANGED account,
           t \in Tasks => TaskOK(t)'
    PROVE  TasksOK' /\ DOMAIN task' = Tasks
<1>1. DOMAIN task' = Tasks
  BY DEF Disturbed
<1>2. ASSUME NEW s \in Tasks, s # t, task'[s] # None PROVE TaskOK(s)'
  <2>1. task[s] # None /\ TaskOK(s) /\ task'[s] = [task[s] EXCEPT !.steady = FALSE]
    BY <1>2 DEF Disturbed, TasksOK, TaskOK
  <2>2. CASE task[s].kind \in {"register", "login"}
    <3>1. Has(task[s], LoginFields)
      BY <2>1, <2>2 DEF TaskOK, LoginOK
    <3>2. /\ Has(task'[s], LoginFields)
          /\ \A f \in LoginFields \ {"steady"} : task'[s][f] = task[s][f]
          /\ task'[s].steady = FALSE
      BY <2>1, <3>1 DEF Has, LoginFields
    <3> QED
      BY <2>1, <2>2, <3>2 DEF TaskOK, LoginOK, JobOK, LoginFields, AccountMade
  <2>3. CASE task[s].kind \in {"send", "forward", "list"}
    <3>1. Has(task[s], JobFields)
      BY <2>1, <2>3 DEF TaskOK, JobOK
    <3>2. /\ Has(task'[s], JobFields)
          /\ \A f \in JobFields \ {"steady"} : task'[s][f] = task[s][f]
          /\ task'[s].steady = FALSE
      BY <2>1, <3>1 DEF Has, JobFields
    <3>3. /\ task'[s].kind = task[s].kind /\ task'[s].stage = task[s].stage
          /\ task'[s].token = task[s].token /\ task'[s].to = task[s].to
          /\ task'[s].author = task[s].author /\ task'[s].text = task[s].text
          /\ task'[s].box = task[s].box /\ task'[s].sealer = task[s].sealer
      BY <3>2 DEF JobFields
    <3>4. \A u : AccountMade(u) => AccountMade(u)'
      BY DEF AccountMade
    <3>5. SealedBy(task[s], task[s].author) => SealedBy(task[s], task[s].author)'
      <4>1. SUFFICES ASSUME SealedBy(task[s], task[s].author)
                     PROVE  SealedBy(task[s], task[s].author)'
        OBVIOUS
      <4>2. AccountMade(task[s].to)'
        BY <3>3, <4>1 DEF SealedBy, AccountMade
      <4>3. PICK v \in Names : task[s].sealer = Identity(v)
        BY <4>1 DEF SealedBy
      <4>4. PICK eph, w : task[s].box = hpkeSeal(eph, task[s].sealer,
                 public_key(Identity(w)), public_key(Identity(task[s].to)), task[s].text)
        BY <4>1 DEF SealedBy
      <4> QED
        BY <3>2, <3>3, <4>2, <4>3, <4>4 DEF SealedBy, AccountMade
    <3>6. LoginOK(s)'
      BY <2>3, <3>3 DEF LoginOK
    <3>7. JobOK(s)'
      BY <2>1, <2>3, <3>2, <3>3, <3>4, <3>5 DEF TaskOK, JobOK
    <3> QED
      BY <2>1, <2>3, <3>3, <3>6, <3>7 DEF TaskOK
  <2> QED
    BY <2>1, <2>2, <2>3 DEF TaskOK
<1> QED
  BY <1>1, <1>2 DEF TasksOK, TaskOK

\* Messages stay what they are while accounts do.
LEMMA MessagesStay ==
    ASSUME MessagesOK, UNCHANGED <<account, message>> PROVE MessagesOK'
BY DEF MessagesOK, MessageOK, AccountMade

LEMMA AccountsStay ==
    ASSUME AccountsOK, UNCHANGED account PROVE AccountsOK'
BY DEF AccountsOK, AccountOK, AccountMade

\* Registration accepts no name and password that the login does not.
LEMMA RegisteredLogsIn ==
    ASSUME NEW v \in [core : Names, length : Nat, padded : BOOLEAN, word : BOOLEAN,
                      threats : SUBSET Threats],
           NEW pw, RegisterRequest(v, pw, ToBase64(32), ToBase64(EnvelopeBytes))
    PROVE  LoginRequest(v, pw) /\ LoginRequest(Strip(v), pw) /\ Strip(v).core = v.core
<1>1. /\ Strip(v).core = v.core /\ Strip(v).length = v.length /\ Strip(v).threats = v.threats
      /\ Strip(Strip(v)) = Strip(v)
  BY DEF Strip
<1>2. v.length \in 1..64 /\ v.threats = {}
  BY <1>1 DEF RegisterRequest, RegisterUsername, RejectThreats
<1>3. pw.length \in 8..128
  BY DEF RegisterRequest, RegisterPassword
<1>4. pw.length \in 1..128
  BY <1>3
<1> QED
  BY <1>1, <1>2, <1>4 DEF LoginRequest, RejectThreats

LEMMA RegisterKeeps ==
    ASSUME ExchangeInv, NEW t \in Tasks, NEW x \in Typed, Register(t, x[1], x[2])
    PROVE  ExchangeInv'
<1> DEFINE v == x[1]
           pw == x[2]
           u == v.core
<1>1. v \in [core : Names, length : Nat, padded : BOOLEAN, word : BOOLEAN,
             threats : SUBSET Threats] /\ u \in Names /\ Account(v, pw) # None
  BY TypedAreNames, NoneIsApart
<1>2. /\ account[u] = None
      /\ account' = [account EXCEPT ![u] = Account(v, pw)]
      /\ task' = [task EXCEPT ![t] =
              [kind |-> "register", stage |-> "decrypt", user |-> u, pw |-> pw,
               key |-> None, steady |-> TRUE]]
      /\ task[t] = None
      /\ UNCHANGED <<message, session, whole>>
      /\ RegisterRequest(v, pw, ToBase64(32), ToBase64(EnvelopeBytes))
  BY DEF Register, Idle, browser
<1>3. /\ account'[u] = Account(v, pw)
      /\ \A w \in Names : w # u => account'[w] = account[w]
      /\ DOMAIN account' = Names
  BY <1>1, <1>2 DEF ExchangeInv, AccountsOK
<1>4. \A w : AccountMade(w) => AccountMade(w)'
  BY <1>3 DEF AccountMade, Account
<1>5. AccountsOK'
  <2>1. AccountOK(u)'
    <3>1. LoginRequest(v, pw) /\ LoginRequest(Strip(v), pw) /\ Strip(v).core = u
      BY <1>1, <1>2, RegisteredLogsIn
    <3> QED
      BY <1>1, <1>3, <3>1 DEF AccountOK, AccountMade, Account
  <2>2. ASSUME NEW w \in Names, w # u, account[w] # None PROVE AccountOK(w)'
    BY <1>3, <2>2 DEF ExchangeInv, AccountsOK, AccountOK, AccountMade
  <2> QED
    BY <1>3, <2>1, <2>2 DEF AccountsOK
<1>6. MessagesOK'
  <2>1. ASSUME NEW m, MessageOK(m) PROVE MessageOK(m)'
    BY <1>4, <2>1 DEF MessageOK
  <2> QED
    BY <1>2, <2>1 DEF ExchangeInv, MessagesOK
<1>7. SessionOK'
  BY <1>2, <1>4 DEF ExchangeInv, SessionOK
<1>8. TasksOK'
  <2>1. TaskOK(t)'
    <3>1. task'[t] = [kind |-> "register", stage |-> "decrypt", user |-> u, pw |-> pw,
                      key |-> None, steady |-> TRUE]
      BY <1>2 DEF ExchangeInv, SessionOK
    <3>2. LoginOK(t)'
      BY <1>1, <1>3, <3>1 DEF LoginOK, Has, LoginFields, AccountMade, Account
    <3> QED
      BY <3>1, <3>2 DEF TaskOK, JobOK
  <2>2. ASSUME NEW s \in Tasks, s # t PROVE TaskOK(s)'
    <3>1. TaskOK(s) /\ task'[s] = task[s]
      BY <1>2, <2>2 DEF ExchangeInv, TasksOK, TaskOK
    <3>2. LoginOK(s) => LoginOK(s)'
      BY <1>2, <1>3, <3>1 DEF LoginOK, AccountMade
    <3>3. ASSUME NEW r, NEW w, SealedBy(r, w) PROVE SealedBy(r, w)'
      BY <1>4, <3>3 DEF SealedBy
    <3>4. JobOK(s) => JobOK(s)'
      BY <1>2, <1>4, <3>1, <3>3 DEF JobOK
    <3> QED
      BY <3>1, <3>2, <3>4 DEF TaskOK
  <2> QED
    BY <2>1, <2>2 DEF TasksOK, TaskOK
<1> QED
  BY <1>5, <1>6, <1>7, <1>8 DEF ExchangeInv

LEMMA LoginKeeps ==
    ASSUME ExchangeInv, NEW t \in Tasks, NEW x \in Typed, Login(t, x[1], x[2])
    PROVE  ExchangeInv'
<1> DEFINE u == Strip(x[1]).core
<1>1. u \in Names
  BY TypedAreNames DEF Strip
<1>2. /\ account[u] # None /\ account[u].password = x[2]
      /\ task' = [task EXCEPT ![t] =
              [kind |-> "login", stage |-> "decrypt", user |-> u, pw |-> x[2],
               key |-> None, steady |-> TRUE]]
      /\ UNCHANGED <<account, message, session, whole>>
  BY DEF Login, server, browser
<1>3. AccountOK(u)
  BY <1>1, <1>2 DEF ExchangeInv, AccountsOK
<1>4. TaskOK(t)'
  <2>1. task'[t] = [kind |-> "login", stage |-> "decrypt", user |-> u, pw |-> x[2],
                    key |-> None, steady |-> TRUE]
    BY <1>2 DEF ExchangeInv, SessionOK
  <2>2. LoginOK(t)'
    BY <1>2, <1>3, <2>1 DEF LoginOK, Has, LoginFields, AccountOK, AccountMade
  <2> QED
    BY <2>1, <2>2 DEF TaskOK, JobOK
<1>5. TasksOK' /\ DOMAIN task' = Tasks
  BY <1>2, <1>4, OneTaskChanges DEF ExchangeInv, SessionOK
<1>6. SessionOK'
  BY <1>2, <1>5 DEF ExchangeInv, SessionOK, AccountMade
<1> QED
  BY <1>2, <1>5, <1>6, MessagesStay, AccountsStay DEF ExchangeInv

LEMMA StoreTokensKeeps ==
    ASSUME ExchangeInv, NEW t \in Tasks, StoreTokens(t) PROVE ExchangeInv'
<1> DEFINE u == task[t].user
           sk == decryptPrivateKey(account[u].envelope, task[t].pw.text)
           r == [task[t] EXCEPT !.stage = "import", !.key = sk, !.steady = TRUE]
<1>1. /\ task[t] # None /\ task[t].stage = "decrypt"
      /\ session' = [session EXCEPT !.user = u, !.token = u]
      /\ task' = Disturbed(t, r)
      /\ whole' = FALSE
      /\ UNCHANGED <<account, message>>
  BY DEF StoreTokens, At, server
<1>2. /\ task[t].kind \in {"register", "login"}
      /\ Has(task[t], LoginFields)
      /\ AccountMade(u) /\ account[u] # None
      /\ account[u].envelope = encryptPrivateKey(Identity(u), task[t].pw.text, u)
  BY <1>1 DEF ExchangeInv, TasksOK, LoginOK, JobOK
<1>3. sk = Identity(u)
  BY <1>2, EnvelopeOpens
<1>4. /\ session'.user = u /\ session'.token = u /\ session'.key = session.key
      /\ session' = [user |-> u, token |-> u, key |-> session.key]
  BY <1>1 DEF ExchangeInv, SessionOK
<1>5. task'[t] = r /\ Has(r, LoginFields) /\ r.kind = task[t].kind /\ r.stage = "import"
      /\ r.user = u /\ r.pw = task[t].pw /\ r.key = sk
  BY <1>1, <1>2 DEF Disturbed, Has, LoginFields
<1>6. TaskOK(t)'
  <2>1. task'[t].kind \in {"register", "login"} /\ task'[t].stage = "import"
        /\ task'[t].user = u /\ task'[t].key = Identity(u) /\ Has(task'[t], LoginFields)
        /\ task'[t].pw = task[t].pw
    BY <1>2, <1>3, <1>5
  <2>2. /\ u \in Names /\ account'[u] # None
        /\ account'[u].publicKey = public_key(Identity(u))
        /\ account'[u].envelope = encryptPrivateKey(Identity(u), task[t].pw.text, u)
    BY <1>1, <1>2 DEF AccountMade
  <2> HIDE DEF u, sk, r
  <2>3. LoginOK(t)'
    BY <1>4, <2>1, <2>2 DEF LoginOK, AccountMade
  <2> QED
    BY <2>1, <2>3 DEF TaskOK, JobOK
<1>7. TasksOK' /\ DOMAIN task' = Tasks
  BY <1>1, <1>6, SessionChanges DEF ExchangeInv
<1>8. SessionOK'
  BY <1>1, <1>2, <1>4, <1>7 DEF ExchangeInv, SessionOK, AccountMade
<1> QED
  BY <1>1, <1>7, <1>8, MessagesStay, AccountsStay DEF ExchangeInv

LEMMA StoreKeyKeeps ==
    ASSUME ExchangeInv, NEW t \in Tasks, StoreKey(t) PROVE ExchangeInv'
<1>1. /\ task[t] # None /\ task[t].stage = "import"
      /\ session' = [session EXCEPT !.key = task[t].key]
      /\ task' = Disturbed(t, None)
      /\ whole' = task[t].steady
      /\ UNCHANGED <<account, message>>
  BY DEF StoreKey, At, server
<1>2. /\ AccountMade(task[t].user)
      /\ task[t].key = Identity(task[t].user)
      /\ task[t].steady => session.user = task[t].user /\ session.token = task[t].user
  BY <1>1 DEF ExchangeInv, TasksOK, LoginOK, JobOK
<1>3. session' = [user |-> session.user, token |-> session.token, key |-> task[t].key]
  BY <1>1 DEF ExchangeInv, SessionOK
<1>4. TaskOK(t)'
  BY <1>1 DEF Disturbed, TaskOK
<1>5. TasksOK' /\ DOMAIN task' = Tasks
  BY <1>1, <1>4, SessionChanges DEF ExchangeInv
<1>6. SessionOK'
  BY <1>1, <1>2, <1>3, <1>5 DEF ExchangeInv, SessionOK, AccountMade
<1> QED
  BY <1>1, <1>5, <1>6, MessagesStay, AccountsStay DEF ExchangeInv

LEMMA ClearKeeps == ASSUME ExchangeInv, Clear PROVE ExchangeInv'
<1>1. /\ session' = Nobody /\ whole' = FALSE
      /\ task' = Disturbed(None, None)
      /\ UNCHANGED <<account, message>>
  BY DEF Clear, server
<1>2. TasksOK' /\ DOMAIN task' = Tasks
  BY <1>1, SessionChanges, NoneIsApart DEF ExchangeInv
<1>3. SessionOK'
  BY <1>1, <1>2 DEF SessionOK, Nobody
<1> QED
  BY <1>1, <1>2, <1>3, MessagesStay, AccountsStay DEF ExchangeInv

\* Steps that leave task, session and accounts as they are.
LEMMA NothingChanges ==
    ASSUME ExchangeInv, UNCHANGED <<account, message, session, task, whole>>
    PROVE  ExchangeInv'
<1>1. TasksOK'
  BY DEF ExchangeInv, TasksOK, LoginOK, JobOK, SealedBy, AccountMade
<1>2. SessionOK'
  BY DEF ExchangeInv, SessionOK, AccountMade
<1> QED
  BY <1>1, <1>2, MessagesStay, AccountsStay DEF ExchangeInv

\* Steps of one task that leave session, accounts and messages as they are.
LEMMA TaskStep ==
    ASSUME ExchangeInv, NEW t \in Tasks, NEW r, task' = [task EXCEPT ![t] = r],
           UNCHANGED <<account, message, session, whole>>, TaskOK(t)'
    PROVE  ExchangeInv'
<1>1. TasksOK' /\ DOMAIN task' = Tasks
  BY OneTaskChanges DEF ExchangeInv, SessionOK
<1>2. SessionOK'
  BY <1>1 DEF ExchangeInv, SessionOK, AccountMade
<1> QED
  BY <1>1, <1>2, MessagesStay, AccountsStay DEF ExchangeInv

LEMMA GiveUpKeeps ==
    ASSUME ExchangeInv, NEW t \in Tasks, GiveUp(t) \/ Render(t) PROVE ExchangeInv'
<1>1. /\ task' = [task EXCEPT ![t] = None]
      /\ UNCHANGED <<account, message, session, whole>>
  BY DEF GiveUp, Render, Done, server, browser
<1>2. TaskOK(t)'
  BY <1>1 DEF TaskOK, ExchangeInv, SessionOK
<1> QED
  BY <1>1, <1>2, TaskStep

LEMMA AsksKeeps ==
    ASSUME ExchangeInv, NEW t \in Tasks, NEW kind \in {"send", "forward", "list"},
           NEW to, NEW text, NEW source, kind # "list" => AccountMade(to),
           Asks(t, Job(kind, to, text, source))
    PROVE  ExchangeInv'
<1> DEFINE job == Job(kind, to, text, source)
           r == [job EXCEPT !.token = session.token, !.steady = whole]
<1>1. /\ session.token # None
      /\ task' = [task EXCEPT ![t] = r]
      /\ UNCHANGED <<account, message, session, whole>>
  BY DEF Asks, server, browser
<1>2. /\ Has(r, JobFields)
      /\ r.kind = kind /\ r.stage = "asked" /\ r.token = session.token
      /\ r.author = session.user /\ r.to = to /\ r.steady = whole
  BY DEF Job, Has, JobFields
<1>3. task'[t] = r
  BY <1>1 DEF ExchangeInv, SessionOK
<1>4. AccountMade(session.token)
  BY <1>1 DEF ExchangeInv, SessionOK
<1>5. TaskOK(t)'
  BY <1>1, <1>2, <1>3, <1>4 DEF TaskOK, LoginOK, JobOK, AccountMade
<1> QED
  BY <1>1, <1>5, TaskStep

\* What the invariant says of a handler with a token.
LEMMA JobFacts ==
    ASSUME ExchangeInv, NEW t \in Tasks, task[t] # None,
           \/ task[t].kind \in {"send", "forward", "list"}
           \/ task[t].stage \in {"asked", "post", "opening"}
    PROVE  /\ task[t].kind \in {"send", "forward", "list"}
           /\ Has(task[t], JobFields)
           /\ AccountMade(task[t].token)
           /\ task[t].kind # "list" => AccountMade(task[t].to)
           /\ task[t].steady => whole /\ task[t].author = session.user
           /\ task[t].stage = "post" => SealedBy(task[t], task[t].author)
BY DEF ExchangeInv, TasksOK, LoginOK, JobOK

\* A refresh leaves alone what was sealed.
LEMMA SealedStays ==
    ASSUME NEW r, NEW q, NEW u, SealedBy(r, u), q.to = r.to, q.text = r.text,
           q.box = r.box, q.sealer = r.sealer, q.steady => r.steady
    PROVE  SealedBy(q, u)
BY DEF SealedBy

LEMMA TryRefreshKeeps ==
    ASSUME ExchangeInv, NEW t \in Tasks, TryRefresh(t) PROVE ExchangeInv'
<1> DEFINE r == [task[t] EXCEPT !.refreshing = TRUE, !.token = session.token]
<1>1. /\ task[t] # None /\ task[t].stage \in {"asked", "post"}
      /\ session.token # None
      /\ task' = [task EXCEPT ![t] = r]
      /\ UNCHANGED <<account, message, session, whole>>
  BY DEF TryRefresh, Pending, At, server, browser
<1>2. /\ Has(task[t], JobFields)
      /\ task[t].kind \in {"send", "forward", "list"}
      /\ task[t].kind # "list" => AccountMade(task[t].to)
      /\ task[t].steady => whole /\ task[t].author = session.user
      /\ task[t].stage = "post" => SealedBy(task[t], task[t].author)
      /\ AccountMade(session.token)
  BY <1>1, JobFacts DEF ExchangeInv, SessionOK
<1>3. /\ Has(r, JobFields) /\ r.kind = task[t].kind /\ r.stage = task[t].stage
      /\ r.token = session.token /\ r.to = task[t].to /\ r.steady = task[t].steady
      /\ r.author = task[t].author /\ r.text = task[t].text /\ r.box = task[t].box
      /\ r.sealer = task[t].sealer
  BY <1>1, <1>2 DEF Has, JobFields
<1>4. task'[t] = r
  BY <1>1 DEF ExchangeInv, SessionOK
<1> HIDE DEF r
<1>5. r.stage = "post" => SealedBy(r, r.author)
  BY <1>2, <1>3, SealedStays
<1>6. task'[t].stage = "post" => SealedBy(task[t], task[t].author)'
  BY <1>1, <1>4, <1>5 DEF SealedBy, AccountMade
<1>7. TaskOK(t)'
  BY <1>1, <1>2, <1>3, <1>4, <1>6 DEF TaskOK, LoginOK, JobOK, AccountMade
<1> QED
  BY <1>1, <1>7, TaskStep

LEMMA RefreshedKeeps ==
    ASSUME ExchangeInv, NEW t \in Tasks, Refreshed(t) PROVE ExchangeInv'
<1> DEFINE same == session.token = task[t].token
           r == [task[t] EXCEPT !.refreshing = FALSE]
           q == [r EXCEPT !.steady = FALSE]
<1>1. /\ task[t] # None /\ task[t].stage \in {"asked", "post"}
      /\ session' = [session EXCEPT !.token = task[t].token]
      /\ task' = IF same THEN [task EXCEPT ![t] = r] ELSE Disturbed(t, q)
      /\ whole' = IF same THEN whole ELSE FALSE
      /\ UNCHANGED <<account, message>>
  BY DEF Refreshed, Pending, At, server
<1>2. /\ Has(task[t], JobFields)
      /\ task[t].kind \in {"send", "forward", "list"}
      /\ AccountMade(task[t].token)
      /\ task[t].kind # "list" => AccountMade(task[t].to)
      /\ task[t].steady => whole /\ task[t].author = session.user
      /\ task[t].stage = "post" => SealedBy(task[t], task[t].author)
  BY <1>1, JobFacts
<1>3. /\ Has(r, JobFields) /\ r.kind = task[t].kind /\ r.stage = task[t].stage
      /\ r.token = task[t].token /\ r.to = task[t].to /\ r.steady = task[t].steady
      /\ r.author = task[t].author /\ r.text = task[t].text /\ r.box = task[t].box
      /\ r.sealer = task[t].sealer
  BY <1>1, <1>2 DEF Has, JobFields
<1>4. CASE same
  <2>1. task' = [task EXCEPT ![t] = r] /\ session' = session /\ whole' = whole
    BY <1>1, <1>4 DEF ExchangeInv, SessionOK
  <2>2. task'[t] = r
    BY <2>1 DEF ExchangeInv, SessionOK
  <2>3. TaskOK(t)'
    <3>0. /\ UNCHANGED <<account, session, whole>>
          /\ Has(task'[t], JobFields) /\ task'[t].kind = task[t].kind
          /\ task[t].stage \in {"asked", "post"}
          /\ task'[t].stage = task[t].stage /\ task'[t].token = task[t].token
          /\ task'[t].to = task[t].to /\ task'[t].steady = task[t].steady
          /\ task'[t].author = task[t].author
      BY <1>1, <1>3, <2>1, <2>2
    <3> HIDE DEF r, q, same
    <3>1. LoginOK(t)'
      BY <1>2, <1>3, <2>2 DEF LoginOK
    <3>2. r.stage = "post" => SealedBy(r, r.author)
      BY <1>2, <1>3, SealedStays
    <3>3. task'[t].stage = "post" => SealedBy(task[t], task[t].author)'
      BY <1>1, <2>2, <3>2 DEF SealedBy, AccountMade
    <3>4. JobOK(t)'
      BY <1>2, <3>0, <3>3 DEF JobOK, AccountMade
    <3> QED
      BY <1>2, <1>3, <2>2, <3>1, <3>4 DEF TaskOK
  <2> QED
    BY <1>1, <2>1, <2>3, TaskStep
<1>5. CASE ~same
  <2>1. task' = Disturbed(t, q) /\ whole' = FALSE
    BY <1>1, <1>5
  <2>2. task'[t] = q
    BY <2>1 DEF Disturbed
  <2>3. /\ Has(q, JobFields) /\ q.kind = task[t].kind /\ q.stage = task[t].stage
        /\ q.token = task[t].token /\ q.to = task[t].to /\ q.steady = FALSE
        /\ q.author = task[t].author /\ q.text = task[t].text /\ q.box = task[t].box
        /\ q.sealer = task[t].sealer
    BY <1>3 DEF Has, JobFields
  <2> HIDE DEF r, q, same
  <2>7. q.stage = "post" => SealedBy(q, q.author)
    BY <1>2, <2>3, SealedStays
  <2>8. task'[t].stage = "post" => SealedBy(task[t], task[t].author)'
    BY <1>1, <2>2, <2>7 DEF SealedBy, AccountMade
  <2>4. TaskOK(t)'
    BY <1>1, <1>2, <2>2, <2>3, <2>8 DEF TaskOK, LoginOK, JobOK, AccountMade
  <2>5. TasksOK' /\ DOMAIN task' = Tasks
    BY <1>1, <2>1, <2>4, SessionChanges DEF ExchangeInv
  <2>6. SessionOK'
    BY <1>1, <1>2, <2>1, <2>5 DEF ExchangeInv, SessionOK, AccountMade
  <2> QED
    BY <1>1, <2>5, <2>6, MessagesStay, AccountsStay DEF ExchangeInv
<1> QED
  BY <1>4, <1>5

LEMMA SealKeeps ==
    ASSUME ExchangeInv, NEW t \in Tasks, Seal(t) PROVE ExchangeInv'
<1> DEFINE eph == Ephemeral(seals + 1)
           box == hpkeSeal(eph, session.key, public_key(Identity(session.user)),
                           account[task[t].to].publicKey, task[t].text)
<1>1. PICK h : task' = [task EXCEPT ![t].stage = "post", ![t].box = box,
                                    ![t].hash = h, ![t].sealer = session.key]
  BY DEF Seal
<1>2. /\ task[t] # None /\ task[t].kind \in {"send", "forward"}
      /\ session.key # None /\ session.user # None
      /\ UNCHANGED <<account, message, session, whole>>
  BY DEF Seal, Answered, Pending, At, server
<1> DEFINE r == [task[t] EXCEPT !.stage = "post", !.box = box, !.hash = h,
                                !.sealer = session.key]
<1>3. task' = [task EXCEPT ![t] = r] /\ task'[t] = r
  BY <1>1 DEF ExchangeInv, SessionOK
<1>4. /\ Has(task[t], JobFields)
      /\ AccountMade(task[t].token) /\ AccountMade(task[t].to)
      /\ task[t].steady => whole /\ task[t].author = session.user
  BY <1>2, JobFacts
<1>5. /\ Has(r, JobFields) /\ r.kind = task[t].kind /\ r.stage = "post"
      /\ r.token = task[t].token /\ r.to = task[t].to /\ r.steady = task[t].steady
      /\ r.author = task[t].author /\ r.text = task[t].text
      /\ r.box = box /\ r.sealer = session.key
  BY <1>4 DEF Has, JobFields
<1>6. PICK v \in Names : session.key = Identity(v) /\ (whole => v = session.user)
  BY <1>2 DEF ExchangeInv, SessionOK
<1>7. box = hpkeSeal(eph, session.key, public_key(Identity(session.user)),
                     public_key(Identity(task[t].to)), task[t].text)
  BY <1>4 DEF AccountMade
<1>8. SealedBy(task[t], task[t].author)'
  <2>1. AccountMade(task[t].to)'
    BY <1>2, <1>3, <1>4, <1>5 DEF AccountMade
  <2> HIDE DEF box, r, eph
  <2>2. task'[t].sealer = Identity(v) /\ (task'[t].steady => v = task'[t].author)
    BY <1>3, <1>4, <1>5, <1>6
  <2>3. /\ task'[t].box = hpkeSeal(eph, task'[t].sealer, public_key(Identity(session.user)),
                                   public_key(Identity(task'[t].to)), task'[t].text)
        /\ task'[t].steady => session.user = task'[t].author
    BY <1>3, <1>4, <1>5, <1>7
  <2> QED
    BY <2>1, <2>2, <2>3 DEF SealedBy
<1>9. TaskOK(t)'
  <2> HIDE DEF box, r, eph
  <2> QED
    BY <1>2, <1>3, <1>4, <1>5, <1>8 DEF TaskOK, LoginOK, JobOK, AccountMade
<1> QED
  BY <1>2, <1>3, <1>9, TaskStep

LEMMA ListingKeeps ==
    ASSUME ExchangeInv, NEW t \in Tasks, Listed(t) \/ \E i \in DOMAIN message : Open(t, i)
    PROVE  ExchangeInv'
<1>1. /\ task[t] # None /\ task[t].stage \in {"asked", "opening"}
      /\ UNCHANGED <<account, message, session, whole>>
  BY DEF Listed, Open, Answered, Pending, At, server, browser
<1>2. /\ Has(task[t], JobFields)
      /\ task[t].kind \in {"send", "forward", "list"}
      /\ AccountMade(task[t].token)
      /\ task[t].kind # "list" => AccountMade(task[t].to)
      /\ task[t].steady => whole /\ task[t].author = session.user
  BY <1>1, JobFacts
<1>3. PICK todo, got :
        task' = [task EXCEPT ![t] = [task[t] EXCEPT !.stage = "opening", !.todo = todo,
                                                    !.got = got]]
  <2>1. CASE Listed(t)
    <3> DEFINE todo == {i \in DOMAIN message :
                          task[t].token \in {message[i].sender, message[i].recipient}}
    <3>1. task' = [task EXCEPT ![t] = [task[t] EXCEPT !.stage = "opening", !.todo = todo]]
      BY <2>1 DEF Listed, ExchangeInv, SessionOK
    <3>2. [task[t] EXCEPT !.stage = "opening", !.todo = todo]
          = [task[t] EXCEPT !.stage = "opening", !.todo = todo, !.got = task[t].got]
      BY <1>2 DEF Has, JobFields
    <3> QED
      BY <3>1, <3>2
  <2>2. ASSUME NEW i \in DOMAIN message, Open(t, i)
        PROVE  \E todo, got :
                 task' = [task EXCEPT ![t] = [task[t] EXCEPT !.stage = "opening",
                                                !.todo = todo, !.got = got]]
    <3>1. task[t].stage = "opening"
      BY <2>2 DEF Open, At
    <3> DEFINE m == message[i]
               text == IF None \in {session.key, session.user} \/ m.sender = session.user
                       THEN NoText
                       ELSE hpkeOpen(session.key, public_key(Identity(session.user)),
                                     account[m.sender].publicKey, m.box)
               todo == task[t].todo \ {i}
               got == IF text = NoText THEN task[t].got
                      ELSE task[t].got \cup {[id |-> i, text |-> text]}
    <3>2. task' = [task EXCEPT ![t] = [task[t] EXCEPT !.todo = todo, !.got = got]]
      <4>1. task' = [task EXCEPT ![t].todo = @ \ {i},
                      ![t].got = IF text = NoText THEN @ ELSE @ \cup {[id |-> i, text |-> text]}]
        BY <2>2 DEF Open
      <4> HIDE DEF text
      <4> QED
        BY <4>1 DEF ExchangeInv, SessionOK
    <3> HIDE DEF todo, got
    <3>3. [task[t] EXCEPT !.todo = todo, !.got = got]
          = [task[t] EXCEPT !.stage = "opening", !.todo = todo, !.got = got]
      BY <1>2, <3>1 DEF Has, JobFields
    <3> QED
      BY <3>2, <3>3
  <2> QED
    BY <2>1, <2>2
<1> DEFINE r == [task[t] EXCEPT !.stage = "opening", !.todo = todo, !.got = got]
<1>4. task'[t] = r
  BY <1>3 DEF ExchangeInv, SessionOK
<1>5. /\ Has(r, JobFields) /\ r.kind = task[t].kind /\ r.stage = "opening"
      /\ r.token = task[t].token /\ r.to = task[t].to /\ r.steady = task[t].steady
      /\ r.author = task[t].author
  BY <1>2 DEF Has, JobFields
<1>6. TaskOK(t)'
  <2> HIDE DEF r
  <2> QED
    BY <1>1, <1>2, <1>4, <1>5 DEF TaskOK, LoginOK, JobOK, AccountMade
<1> QED
  BY <1>1, <1>3, <1>6, TaskStep

LEMMA PostKeeps == ASSUME ExchangeInv, NEW t \in Tasks, Post(t) PROVE ExchangeInv'
<1> DEFINE u == session.token
           job == task[t]
<1>1. /\ task[t] # None /\ task[t].stage = "post" /\ u # None
      /\ task' = [task EXCEPT ![t] = None]
      /\ UNCHANGED <<account, session, whole>>
      /\ message' = message \/ message' = Append(message, Row(u, job))
  BY DEF Post, At, Done, browser
<1>2. /\ AccountMade(u)
      /\ SealedBy(job, job.author)
      /\ job.steady => whole /\ job.author = session.user
  BY <1>1, JobFacts DEF ExchangeInv, SessionOK
<1>3. job.steady => u = job.author
  BY <1>2 DEF ExchangeInv, SessionOK
<1>4. TaskOK(t)'
  BY <1>1 DEF TaskOK, ExchangeInv, SessionOK
<1>5. TasksOK' /\ DOMAIN task' = Tasks
  BY <1>1, <1>4, OneTaskChanges DEF ExchangeInv, SessionOK
<1>6. SessionOK'
  BY <1>1, <1>5 DEF ExchangeInv, SessionOK, AccountMade
<1>7. MessageOK(Row(u, job))
  <2>1. /\ Row(u, job).sender = u /\ Row(u, job).recipient = job.to
        /\ Row(u, job).box = job.box /\ Row(u, job).author = job.author
        /\ Row(u, job).text = job.text /\ Row(u, job).sealer = job.sealer
        /\ Row(u, job).steady = job.steady
    BY DEF Row
  <2>2. PICK v \in Names : job.sealer = Identity(v) /\ (job.steady => v = job.author)
    BY <1>2 DEF SealedBy
  <2>3. PICK eph, w :
          /\ job.box = hpkeSeal(eph, job.sealer, public_key(Identity(w)),
                                public_key(Identity(job.to)), job.text)
          /\ job.steady => w = job.author
    BY <1>2 DEF SealedBy
  <2>4. AccountMade(job.to)
    BY <1>2 DEF SealedBy
  <2> DEFINE m == Row(u, job)
  <2>5. AccountMade(m.recipient) /\ AccountMade(m.sender) /\ (m.steady => m.sender = m.author)
    BY <1>2, <1>3, <2>1, <2>4
  <2>6. m.sealer = Identity(v) /\ (m.steady => v = m.sender)
    BY <1>3, <2>1, <2>2
  <2>7. /\ m.box = hpkeSeal(eph, m.sealer, public_key(Identity(w)),
                            public_key(Identity(m.recipient)), m.text)
        /\ m.steady => w = m.sender
    BY <1>3, <2>1, <2>3
  <2> HIDE DEF m
  <2> QED
    BY <2>5, <2>6, <2>7 DEF MessageOK, m
<1>8. MessagesOK'
  <2>1. ASSUME NEW m, MessageOK(m) PROVE MessageOK(m)'
    BY <1>1, <2>1 DEF MessageOK, AccountMade
  <2>2. ASSUME NEW i \in DOMAIN message' PROVE MessageOK(message'[i])
    <3>1. CASE message' = message
      BY <2>2, <3>1 DEF ExchangeInv, MessagesOK
    <3>2. CASE message' = Append(message, Row(u, job))
      BY <1>7, <2>2, <3>2 DEF ExchangeInv, MessagesOK
    <3> QED
      BY <1>1, <3>1, <3>2
  <2> QED
    BY <2>1, <2>2 DEF MessagesOK
<1> QED
  BY <1>1, <1>5, <1>6, <1>8, AccountsStay DEF ExchangeInv

LEMMA LeaveKeeps == ASSUME ExchangeInv, Leave PROVE ExchangeInv'
BY NothingChanges DEF Leave, server


\* Every step keeps the invariant.
LEMMA StepKeeps == ASSUME ExchangeInv, [Next]_vars PROVE ExchangeInv'
<1>1. ASSUME NEW u, account[u] # None, u \in Names PROVE AccountMade(u)
  BY <1>1 DEF ExchangeInv, AccountsOK, AccountOK
<1>2. CASE UNCHANGED vars
  BY <1>2, NothingChanges DEF vars, server, browser
<1>3. CASE Clear \/ Leave
  BY <1>3, ClearKeeps, LeaveKeeps
<1>4. ASSUME NEW t \in Tasks, NEW x \in Typed,
             Register(t, x[1], x[2]) \/ Login(t, x[1], x[2])
      PROVE  ExchangeInv'
  BY <1>4, RegisterKeeps, LoginKeeps
<1>5. ASSUME NEW t \in Tasks, NEW u \in Names, NEW x \in Texts, Send(t, u, x)
      PROVE  ExchangeInv'
  BY <1>1, <1>5, AsksKeeps DEF Send
<1>6. ASSUME NEW t \in Tasks, NEW u \in Names, NEW e \in shown, Forward(t, u, e)
      PROVE  ExchangeInv'
  BY <1>1, <1>6, AsksKeeps DEF Forward
<1>7. ASSUME NEW t \in Tasks, List(t) PROVE ExchangeInv'
  BY <1>7, AsksKeeps DEF List
<1>8. ASSUME NEW t \in Tasks,
             \/ StoreTokens(t) \/ StoreKey(t) \/ TryRefresh(t) \/ Refreshed(t)
             \/ Seal(t) \/ GiveUp(t) \/ Post(t) \/ Listed(t) \/ Render(t)
             \/ \E i \in DOMAIN message : Open(t, i)
      PROVE  ExchangeInv'
  BY <1>8, StoreTokensKeeps, StoreKeyKeeps, TryRefreshKeeps, RefreshedKeeps, SealKeeps,
     GiveUpKeeps, PostKeeps, ListingKeeps
<1> QED
  BY <1>2, <1>3, <1>4, <1>5, <1>6, <1>7, <1>8 DEF Next

LEMMA ExchangeInvariant == Spec => []ExchangeInv
<1>1. ExchangeInv /\ [Next]_vars => ExchangeInv'
  BY StepKeeps
<1> QED
  BY Initially, <1>1, PTL DEF Spec

\* What opens at its recipient was sealed with the sender's key, and shows
\* what was sealed (hpkeSeal, hpkeOpen, send_message), whoever logs in or out
\* of the browser in the meantime.
THEOREM AuthenticAlways == Spec => []Authentic
<1>1. ASSUME ExchangeInv PROVE Authentic
  <2> SUFFICES ASSUME NEW i \in DOMAIN message, Opened(message[i]) # NoText
               PROVE  /\ message[i].sealer = Identity(message[i].sender)
                      /\ Opened(message[i]) = message[i].text
    BY DEF Authentic
  <2> DEFINE m == message[i]
  <2>1. MessageOK(m)
    BY <1>1 DEF ExchangeInv, MessagesOK
  <2>2. PICK eph, w : m.box = hpkeSeal(eph, m.sealer, public_key(Identity(w)),
                                       public_key(Identity(m.recipient)), m.text)
    BY <2>1 DEF MessageOK
  <2>3. /\ account[m.recipient].publicKey = public_key(Identity(m.recipient))
        /\ account[m.sender].publicKey = public_key(Identity(m.sender))
    BY <2>1 DEF MessageOK, AccountMade
  <2>4. hpkeOpen(Identity(m.recipient), public_key(Identity(m.recipient)),
                 public_key(Identity(m.sender)), m.box) = Opened(m)
    BY <2>3 DEF Opened
  <2> HIDE DEF m
  <2> DEFINE spk == public_key(Identity(w))
             r == Identity(m.recipient)
  <2>5. hpkeOpen(r, public_key(r), public_key(Identity(m.sender)),
                 hpkeSeal(eph, m.sealer, spk, public_key(r), m.text)) # NoText
    BY <2>2, <2>4 DEF m
  <2>6. /\ m.sealer = Identity(m.sender)
        /\ hpkeOpen(r, public_key(r), public_key(Identity(m.sender)),
                    hpkeSeal(eph, m.sealer, spk, public_key(r), m.text)) = m.text
    <3> HIDE DEF r, spk
    <3> QED
      BY <2>5, OpensForRecipientOnly
  <2> QED
    BY <2>2, <2>4, <2>6 DEF m
<1> QED
  BY <1>1, ExchangeInvariant, PTL

\* A send that nothing disturbed goes out in its author's name and opens at
\* its recipient to what was written.
THEOREM DeliveredAlways == Spec => []Delivered
<1>1. ASSUME ExchangeInv PROVE Delivered
  <2> SUFFICES ASSUME NEW i \in DOMAIN message, message[i].steady
               PROVE  /\ message[i].sender = message[i].author
                      /\ Opened(message[i]) = message[i].text
    BY DEF Delivered
  <2> DEFINE m == message[i]
  <2>1. MessageOK(m)
    BY <1>1 DEF ExchangeInv, MessagesOK
  <2>2. PICK eph, w :
          /\ m.box = hpkeSeal(eph, m.sealer, public_key(Identity(w)),
                              public_key(Identity(m.recipient)), m.text)
          /\ m.steady => w = m.sender
    BY <2>1 DEF MessageOK
  <2>3. m.sealer = Identity(m.sender) /\ w = m.sender /\ m.sender = m.author
    BY <2>1, <2>2 DEF MessageOK
  <2>4. /\ account[m.recipient].publicKey = public_key(Identity(m.recipient))
        /\ account[m.sender].publicKey = public_key(Identity(m.sender))
    BY <2>1 DEF MessageOK, AccountMade
  <2> QED
    BY <2>2, <2>3, <2>4, SealedOpens DEF Opened
<1> QED
  BY <1>1, ExchangeInvariant, PTL

\* Whoever registered logs in with the same name and password and opens the
\* private key: the limits of validate_register and validate_login agree and
\* the envelope is the one made with that password.
THEOREM AccountsAlwaysUsable == Spec => []AccountsUsable
<1>1. ASSUME ExchangeInv PROVE AccountsUsable
  BY <1>1, EnvelopeOpens DEF ExchangeInv, AccountsOK, AccountOK, AccountsUsable
<1> QED
  BY <1>1, ExchangeInvariant, PTL

-----------------------------------------------------------------------------
(* What is written, shown and refused.                                     *)

Trimmed == {Trim(x) : x \in Texts}
Entries == [id : DOMAIN message, text : Trimmed]

\* A request carries a text that was typed, and the digest of that text.
JobData(t) ==
    task[t].kind \in {"send", "forward", "list"} =>
        /\ task[t].kind # "list" => task[t].text \in Trimmed
        /\ task[t].stage = "post" =>
              /\ task[t].kind # "list"
              /\ task[t].hash # None =>
                    task[t].hash.value = keccak256(task[t].text) /\ task[t].hash.digits = 64
        /\ task[t].got \subseteq Entries

TaskData(t) == task[t] # None => task[t].steady \in BOOLEAN /\ JobData(t)

\* So does a message.
MessageData(m) ==
    /\ m.sender # m.recipient
    /\ m.text \in Trimmed
    /\ m.hash # None => m.hash.value = keccak256(m.text)

DataOK ==
    /\ \A u \in Names : account[u] # None => account[u].name.core = u
    /\ Len(message) \in Nat /\ DOMAIN message = 1 .. Len(message)
    /\ \A i \in DOMAIN message : MessageData(message[i])
    /\ refused \subseteq Trimmed /\ RefusedOnlyTooLong
    /\ panel \in {"auth", "app"} /\ seals \in 0..MaxSeals /\ whole \in BOOLEAN
    /\ shown \subseteq Entries
    /\ \A t \in Tasks : TaskData(t)

\* What a task holds while another one takes its turn.
LEMMA TasksData ==
    ASSUME ExchangeInv, DataOK, DOMAIN message \subseteq DOMAIN message', NEW t,
           \A s \in Tasks \ {t} :
              task'[s] = task[s]
              \/ (task[s] # None /\ task'[s] = [task[s] EXCEPT !.steady = FALSE]),
           t \in Tasks => TaskData(t)'
    PROVE  \A s \in Tasks : TaskData(s)'
<1> SUFFICES ASSUME NEW s \in Tasks, s # t, task'[s] # None
             PROVE  task'[s].steady \in BOOLEAN /\ JobData(s)'
  BY DEF TaskData
<1>1. Entries \subseteq Entries'
  BY DEF Entries
<1>2. CASE task'[s] = task[s]
  BY <1>1, <1>2 DEF DataOK, TaskData, JobData
<1>3. CASE task[s] # None /\ task'[s] = [task[s] EXCEPT !.steady = FALSE]
  <2>1. CASE task[s].kind \in {"register", "login"}
    <3>1. Has(task[s], LoginFields)
      BY <1>3, <2>1 DEF ExchangeInv, TasksOK, LoginOK
    <3>2. task'[s].kind = task[s].kind /\ task'[s].steady = FALSE
      BY <1>3, <3>1 DEF Has, LoginFields
    <3> QED
      BY <2>1, <3>2 DEF JobData
  <2>2. CASE task[s].kind \in {"send", "forward", "list"}
    <3>1. Has(task[s], JobFields)
      BY <1>3, <2>2, JobFacts
    <3>2. /\ task'[s].kind = task[s].kind /\ task'[s].text = task[s].text
          /\ task'[s].stage = task[s].stage /\ task'[s].hash = task[s].hash
          /\ task'[s].got = task[s].got /\ task'[s].steady = FALSE
      BY <1>3, <3>1 DEF Has, JobFields
    <3>3. JobData(s)
      BY <1>3 DEF DataOK, TaskData
    <3> QED
      BY <1>1, <3>2, <3>3 DEF JobData
  <2> QED
    BY <1>3, <2>1, <2>2 DEF ExchangeInv, TasksOK
<1> QED
  BY <1>2, <1>3

\* Steps that send, record and refuse nothing.
LEMMA DataStays ==
    ASSUME DataOK, UNCHANGED <<message, refused>>,
           \A u \in Names : account'[u] # None => account'[u].name.core = u,
           panel' \in {"auth", "app"}, seals' \in 0..MaxSeals, whole' \in BOOLEAN,
           shown' \subseteq Entries,
           \A t \in Tasks : TaskData(t)'
    PROVE  DataOK'
<1>1. Entries' = Entries
  BY DEF Entries
<1> QED
  BY <1>1 DEF DataOK, MessageData, RefusedOnlyTooLong

\* Steps of one task that change no more than it, the session and the panel.
LEMMA TaskDataStep ==
    ASSUME ExchangeInv, DataOK, NEW t \in Tasks, NEW r,
           task' = [task EXCEPT ![t] = r] \/ task' = Disturbed(t, r),
           UNCHANGED <<account, message, refused, shown>>,
           panel' \in {"auth", "app"}, seals' \in 0..MaxSeals, whole' \in BOOLEAN,
           r # None =>
              /\ r.steady \in BOOLEAN
              /\ r.kind \in {"send", "forward", "list"} =>
                    /\ r.kind # "list" => r.text \in Trimmed
                    /\ r.stage = "post" =>
                          /\ r.kind # "list"
                          /\ r.hash # None =>
                                r.hash.value = keccak256(r.text) /\ r.hash.digits = 64
                    /\ r.got \subseteq Entries
    PROVE  DataOK'
<1>1. /\ task'[t] = r
      /\ \A s \in Tasks \ {t} :
            task'[s] = task[s]
            \/ (task[s] # None /\ task'[s] = [task[s] EXCEPT !.steady = FALSE])
  BY DEF ExchangeInv, SessionOK, Disturbed
<1>2. Entries' = Entries
  BY DEF Entries
<1>3. TaskData(t)'
  BY <1>1, <1>2 DEF TaskData, JobData
<1>4. \A s \in Tasks : TaskData(s)'
  BY <1>1, <1>3, TasksData
<1>5. /\ \A u \in Names : account'[u] # None => account'[u].name.core = u
      /\ shown' \subseteq Entries
  BY DEF DataOK
<1> QED
  BY <1>4, <1>5, DataStays

LEMMA LoginData ==
    ASSUME ExchangeInv, DataOK, NEW t \in Tasks, NEW x \in Typed,
           Register(t, x[1], x[2]) \/ Login(t, x[1], x[2])
    PROVE  DataOK'
<1>1. PICK kind, u :
         kind \in {"register", "login"} /\ task' = [task EXCEPT ![t] =
            [kind |-> kind, stage |-> "decrypt", user |-> u, pw |-> x[2],
             key |-> None, steady |-> TRUE]]
  BY DEF Register, Login
<1>2. UNCHANGED <<message, refused, panel, shown, seals, whole>>
  BY DEF Register, Login, server, browser
<1>3. TaskData(t)' /\ \A s \in Tasks \ {t} : task'[s] = task[s]
  BY <1>1 DEF ExchangeInv, SessionOK, TaskData, JobData
<1>4. \A s \in Tasks : TaskData(s)'
  BY <1>2, <1>3, TasksData
<1>5. \A n \in Names : account'[n] # None => account'[n].name.core = n
  <2>1. CASE account' = [account EXCEPT ![x[1].core] = Account(x[1], x[2])]
    <3>1. Account(x[1], x[2]).name = x[1]
      BY DEF Account
    <3> QED
      BY <2>1, <3>1 DEF DataOK, ExchangeInv, AccountsOK
  <2>2. CASE account' = account
    BY <2>2 DEF DataOK
  <2> QED
    BY <2>1, <2>2 DEF Register, Login, server
<1> QED
  BY <1>2, <1>4, <1>5, DataStays DEF DataOK

\* The turns of storeSession.
LEMMA SessionData ==
    ASSUME ExchangeInv, DataOK, NEW t \in Tasks, StoreTokens(t) \/ StoreKey(t)
    PROVE  DataOK'
<1>1. CASE StoreTokens(t)
  <2>1. PICK sk :
          /\ task[t] # None /\ task[t].stage = "decrypt"
          /\ task' = Disturbed(t, [task[t] EXCEPT !.stage = "import", !.key = sk, !.steady = TRUE])
          /\ whole' = FALSE /\ UNCHANGED <<account, message, refused, panel, shown, seals>>
    BY <1>1 DEF StoreTokens, At, server
  <2>2. task[t].kind \in {"register", "login"} /\ Has(task[t], LoginFields)
    BY <2>1 DEF ExchangeInv, TasksOK, LoginOK, JobOK
  <2> DEFINE r == [task[t] EXCEPT !.stage = "import", !.key = sk, !.steady = TRUE]
  <2>3. r.kind = task[t].kind /\ r.steady = TRUE
    BY <2>2 DEF Has, LoginFields
  <2>4. panel' \in {"auth", "app"} /\ seals' \in 0..MaxSeals
    BY <2>1 DEF DataOK
  <2> HIDE DEF r
  <2> QED
    BY <2>1, <2>2, <2>3, <2>4, TaskDataStep DEF r
<1>2. CASE StoreKey(t)
  <2>1. /\ task[t] # None /\ task' = Disturbed(t, None) /\ panel' = "app"
        /\ whole' = task[t].steady /\ UNCHANGED <<account, message, refused, shown, seals>>
    BY <1>2 DEF StoreKey, At, server
  <2>2. whole' \in BOOLEAN /\ seals' \in 0..MaxSeals
    BY <2>1 DEF DataOK, TaskData
  <2> QED
    BY <2>1, <2>2, TaskDataStep
<1> QED
  BY <1>1, <1>2

\* The session ends, or the login form comes back.
LEMMA EndData ==
    ASSUME ExchangeInv, DataOK, Clear \/ Leave
    PROVE  DataOK'
<1>1. UNCHANGED <<account, message, refused, seals>>
  BY DEF Clear, Leave, server
<1>2. /\ panel' \in {"auth", "app"} /\ shown' \subseteq Entries
      /\ whole' \in BOOLEAN /\ seals' \in 0..MaxSeals
      /\ \A u \in Names : account'[u] # None => account'[u].name.core = u
  BY <1>1 DEF Clear, Leave, DataOK
<1>3. \A s \in Tasks \ {None} :
         task'[s] = task[s]
         \/ (task[s] # None /\ task'[s] = [task[s] EXCEPT !.steady = FALSE])
  BY DEF Clear, Leave, Disturbed
<1>4. \A s \in Tasks : TaskData(s)'
  BY <1>1, <1>3, NoneIsApart, TasksData
<1> QED
  BY <1>1, <1>2, <1>4, DataStays

\* A handler sends its first request with what was typed or is shown.
LEMMA AsksData ==
    ASSUME ExchangeInv, DataOK, NEW t \in Tasks, NEW kind \in {"send", "forward", "list"},
           NEW to, NEW text, NEW source, kind # "list" => text \in Trimmed,
           Asks(t, Job(kind, to, text, source))
    PROVE  DataOK'
<1> DEFINE r == [Job(kind, to, text, source) EXCEPT !.token = session.token, !.steady = whole]
<1>1. task' = [task EXCEPT ![t] = r]
      /\ UNCHANGED <<account, message, refused, panel, shown, seals, whole>>
  BY DEF Asks, server, browser
<1>2. r.kind = kind /\ r.stage = "asked" /\ r.text = text /\ r.got = {} /\ r.steady = whole
  BY DEF Job
<1>3. panel' \in {"auth", "app"} /\ seals' \in 0..MaxSeals /\ whole' \in BOOLEAN
      /\ whole \in BOOLEAN
  BY <1>1 DEF DataOK
<1> HIDE DEF r
<1> QED
  BY <1>1, <1>2, <1>3, TaskDataStep

Renewed(job, token, refreshing, steady) ==
    [job EXCEPT !.refreshing = refreshing, !.token = token, !.steady = steady]

StepsTo(t, r) == task' = [task EXCEPT ![t] = r] \/ task' = Disturbed(t, r)

\* A refresh changes neither text nor digest.
LEMMA RefreshData ==
    ASSUME ExchangeInv, DataOK, NEW t \in Tasks, TryRefresh(t) \/ Refreshed(t)
    PROVE  DataOK'
<1>1. /\ task[t] # None /\ task[t].stage \in {"asked", "post"}
      /\ UNCHANGED <<account, message, refused, panel, shown, seals>>
      /\ whole' \in BOOLEAN
  BY DEF TryRefresh, Refreshed, Pending, At, server, browser, DataOK
<1>2. /\ Has(task[t], JobFields) /\ task[t].kind \in {"send", "forward", "list"}
      /\ TaskData(t)
  BY <1>1, JobFacts DEF DataOK
<1>3. \E token, refreshing : \E steady \in {FALSE, task[t].steady} :
         StepsTo(t, Renewed(task[t], token, refreshing, steady))
  <2>1. CASE TryRefresh(t)
    <3>1. task' = [task EXCEPT ![t] = [task[t] EXCEPT !.refreshing = TRUE,
                                          !.token = session.token]]
      BY <2>1 DEF TryRefresh, ExchangeInv, SessionOK
    <3>2. [task[t] EXCEPT !.refreshing = TRUE, !.token = session.token]
          = Renewed(task[t], session.token, TRUE, task[t].steady)
      BY <1>2 DEF Has, JobFields, Renewed
    <3>3. StepsTo(t, Renewed(task[t], session.token, TRUE, task[t].steady))
      BY <3>1, <3>2 DEF StepsTo
    <3> QED
      BY <3>3
  <2>2. CASE Refreshed(t)
    <3>1. \/ task' = [task EXCEPT ![t] = [task[t] EXCEPT !.refreshing = FALSE]]
          \/ task' = Disturbed(t, [[task[t] EXCEPT !.refreshing = FALSE] EXCEPT !.steady = FALSE])
      BY <2>2 DEF Refreshed
    <3>2. /\ [task[t] EXCEPT !.refreshing = FALSE]
             = Renewed(task[t], task[t].token, FALSE, task[t].steady)
          /\ [[task[t] EXCEPT !.refreshing = FALSE] EXCEPT !.steady = FALSE]
             = Renewed(task[t], task[t].token, FALSE, FALSE)
      BY <1>2 DEF Has, JobFields, Renewed
    <3>3. \/ StepsTo(t, Renewed(task[t], task[t].token, FALSE, task[t].steady))
          \/ StepsTo(t, Renewed(task[t], task[t].token, FALSE, FALSE))
      BY <3>1, <3>2 DEF StepsTo
    <3> QED
      BY <3>3
  <2> QED
    BY <2>1, <2>2
<1>4. PICK token, refreshing : \E steady \in {FALSE, task[t].steady} :
         StepsTo(t, Renewed(task[t], token, refreshing, steady))
  BY <1>3
<1> PICK steady \in {FALSE, task[t].steady} :
         StepsTo(t, Renewed(task[t], token, refreshing, steady))
  BY <1>4
<1> DEFINE r == Renewed(task[t], token, refreshing, steady)
<1>5. /\ r.kind = task[t].kind /\ r.stage = task[t].stage /\ r.text = task[t].text
      /\ r.got = task[t].got /\ r.steady \in BOOLEAN /\ r.hash = task[t].hash
  BY <1>1, <1>2 DEF Has, JobFields, TaskData, Renewed
<1>6. panel' \in {"auth", "app"} /\ seals' \in 0..MaxSeals
  BY <1>1 DEF DataOK
<1>7. task' = [task EXCEPT ![t] = r] \/ task' = Disturbed(t, r)
  BY DEF StepsTo
<1> HIDE DEF r
<1> QED
  BY <1>1, <1>2, <1>5, <1>6, <1>7, TaskDataStep DEF TaskData, JobData

\* The digest is that of the text that is sealed.
LEMMA SealData ==
    ASSUME ExchangeInv, DataOK, NEW t \in Tasks, Seal(t)
    PROVE  DataOK'
<1>1. PICK box, h :
         /\ h \in {Digest(t), None}
         /\ task' = [task EXCEPT ![t].stage = "post", ![t].box = box,
                                 ![t].hash = h, ![t].sealer = session.key]
  BY DEF Seal
<1>2. /\ task[t] # None /\ task[t].kind \in {"send", "forward"}
      /\ seals < MaxSeals /\ seals' = seals + 1
      /\ UNCHANGED <<account, message, refused, panel, shown, whole>>
  BY DEF Seal, Answered, Pending, At, server
<1> DEFINE r == [task[t] EXCEPT !.stage = "post", !.box = box, !.hash = h,
                                !.sealer = session.key]
<1>3. task' = [task EXCEPT ![t] = r]
  BY <1>1 DEF ExchangeInv, SessionOK
<1>4. Has(task[t], JobFields) /\ TaskData(t)
  BY <1>2, JobFacts DEF DataOK
<1>5. /\ r.kind = task[t].kind /\ r.stage = "post" /\ r.text = task[t].text
      /\ r.got = task[t].got /\ r.steady = task[t].steady /\ r.hash = h
  BY <1>4 DEF Has, JobFields
<1>6. h # None => h.value = keccak256(task[t].text) /\ h.digits = 64
  BY <1>1 DEF Digest
<1>7. panel' \in {"auth", "app"} /\ seals' \in 0..MaxSeals /\ whole' \in BOOLEAN
  BY <1>2, SealsAreCounted DEF DataOK
<1>8. task[t].steady \in BOOLEAN /\ task[t].text \in Trimmed /\ task[t].got \subseteq Entries
  BY <1>2, <1>4 DEF TaskData, JobData
<1> HIDE DEF r
<1> QED
  BY <1>2, <1>3, <1>5, <1>6, <1>7, <1>8, TaskDataStep

\* A click ends; the list on screen is what was opened.
LEMMA DoneData ==
    ASSUME ExchangeInv, DataOK, NEW t \in Tasks, GiveUp(t) \/ Render(t)
    PROVE  DataOK'
<1>1. /\ task' = [task EXCEPT ![t] = None]
      /\ UNCHANGED <<account, message, refused, panel, seals, whole>>
  BY DEF GiveUp, Render, Done, server, browser
<1>2. TaskData(t)' /\ \A s \in Tasks \ {t} : task'[s] = task[s]
  BY <1>1 DEF ExchangeInv, SessionOK, TaskData
<1>3. \A s \in Tasks : TaskData(s)'
  BY <1>1, <1>2, TasksData
<1>4. shown' \subseteq Entries
  <2>1. CASE GiveUp(t)
    BY <2>1 DEF GiveUp, browser, DataOK
  <2>2. CASE Render(t)
    <3>1. task[t] # None /\ task[t].stage = "opening" /\ shown' = task[t].got
      BY <2>2 DEF Render, At
    <3>2. task[t].kind \in {"send", "forward", "list"} /\ TaskData(t)
      BY <3>1, JobFacts DEF DataOK
    <3> QED
      BY <3>1, <3>2 DEF TaskData, JobData
  <2> QED
    BY <2>1, <2>2
<1>5. /\ panel' \in {"auth", "app"} /\ seals' \in 0..MaxSeals /\ whole' \in BOOLEAN
      /\ \A u \in Names : account'[u] # None => account'[u].name.core = u
  BY <1>1 DEF DataOK
<1> QED
  BY <1>1, <1>3, <1>4, <1>5, DataStays

\* What opens with whatever keys shows the text of the message.
LEMMA OpensToText ==
    ASSUME ExchangeInv, NEW i \in DOMAIN message, NEW k, NEW rpk,
           hpkeOpen(k, rpk, account[message[i].sender].publicKey, message[i].box) # NoText
    PROVE  hpkeOpen(k, rpk, account[message[i].sender].publicKey, message[i].box)
              = message[i].text
<1> DEFINE m == message[i]
<1>1. MessageOK(m)
  BY DEF ExchangeInv, MessagesOK
<1>2. account[m.sender].publicKey = public_key(Identity(m.sender))
  BY <1>1 DEF MessageOK, AccountMade
<1>3. PICK eph, w : m.box = hpkeSeal(eph, m.sealer, public_key(Identity(w)),
                                     public_key(Identity(m.recipient)), m.text)
  BY <1>1 DEF MessageOK
<1> DEFINE spk == public_key(Identity(w))
           r == Identity(m.recipient)
           listed == Identity(m.sender)
           text == m.text
           sealer == m.sealer
<1>4. m.box = hpkeSeal(eph, sealer, spk, public_key(r), text)
  BY <1>3
<1>5. hpkeOpen(k, rpk, public_key(listed), hpkeSeal(eph, sealer, spk, public_key(r), text)) # NoText
  BY <1>2, <1>4
<1>6. hpkeOpen(k, rpk, public_key(listed), hpkeSeal(eph, sealer, spk, public_key(r), text)) = text
  <2> HIDE DEF spk, r, listed, text, sealer
  <2> QED
    BY <1>5, OpensForRecipientOnly
<1> QED
  BY <1>2, <1>4, <1>6

\* The list is asked for and opened, message by message.
LEMMA ListingData ==
    ASSUME ExchangeInv, DataOK, NEW t \in Tasks,
           Listed(t) \/ \E i \in DOMAIN message : Open(t, i)
    PROVE  DataOK'
<1>1. /\ task[t] # None /\ task[t].stage \in {"asked", "opening"}
      /\ UNCHANGED <<account, message, refused, panel, shown, seals, whole>>
  BY DEF Listed, Open, Answered, Pending, At, server, browser
<1>2. /\ Has(task[t], JobFields) /\ task[t].kind \in {"send", "forward", "list"}
      /\ TaskData(t)
  BY <1>1, JobFacts DEF DataOK
<1>3. task[t].got \subseteq Entries /\ task[t].steady \in BOOLEAN
      /\ (task[t].kind # "list" => task[t].text \in Trimmed)
  BY <1>1, <1>2 DEF TaskData, JobData
<1>4. panel' \in {"auth", "app"} /\ seals' \in 0..MaxSeals /\ whole' \in BOOLEAN
  BY <1>1 DEF DataOK
<1>5. CASE Listed(t)
  <2> DEFINE todo == {i \in DOMAIN message :
                        task[t].token \in {message[i].sender, message[i].recipient}}
             r == [task[t] EXCEPT !.stage = "opening", !.todo = todo]
  <2>1. task' = [task EXCEPT ![t] = r]
    BY <1>5 DEF Listed, ExchangeInv, SessionOK
  <2>2. /\ r.kind = task[t].kind /\ r.stage = "opening" /\ r.text = task[t].text
        /\ r.got = task[t].got /\ r.steady = task[t].steady
    BY <1>2 DEF Has, JobFields
  <2> HIDE DEF r
  <2> QED
    BY <1>1, <1>3, <1>4, <2>1, <2>2, TaskDataStep
<1>6. ASSUME NEW i \in DOMAIN message, Open(t, i)
      PROVE  DataOK'
  <2> DEFINE m == message[i]
             text == IF None \in {session.key, session.user} \/ m.sender = session.user
                     THEN NoText
                     ELSE hpkeOpen(session.key, public_key(Identity(session.user)),
                                   account[m.sender].publicKey, m.box)
             todo == task[t].todo \ {i}
             got == IF text = NoText THEN task[t].got
                    ELSE task[t].got \cup {[id |-> i, text |-> text]}
             r == [task[t] EXCEPT !.todo = todo, !.got = got]
  <2>1. task' = [task EXCEPT ![t] = r] /\ task[t].stage = "opening"
    <3>1. task' = [task EXCEPT ![t].todo = @ \ {i},
                    ![t].got = IF text = NoText THEN @ ELSE @ \cup {[id |-> i, text |-> text]}]
      BY <1>6 DEF Open
    <3> HIDE DEF text
    <3> QED
      BY <1>6, <3>1 DEF Open, At, ExchangeInv, SessionOK
  <2>2. text # NoText => text \in Trimmed
    BY OpensToText DEF DataOK, MessageData
  <2>3. got \subseteq Entries
    <3> HIDE DEF text
    <3> QED
      BY <1>3, <2>2 DEF Entries
  <2> HIDE DEF got, todo
  <2>4. /\ r.kind = task[t].kind /\ r.stage = "opening" /\ r.text = task[t].text
        /\ r.got = got /\ r.steady = task[t].steady
    BY <1>2, <2>1 DEF Has, JobFields
  <2> HIDE DEF r
  <2> QED
    BY <1>1, <1>3, <1>4, <2>1, <2>3, <2>4, TaskDataStep
<1> QED
  BY <1>5, <1>6

LEMMA Base64Within ==
    ASSUME NEW v, NEW max \in Int, NEW n \in Int, v.chars = n, 1 <= n, n <= max,
           v.alphabet = "std"
    PROVE  Base64(v, max)
BY DEF Base64

LEMMA Base64Fits ==
    ASSUME NEW b \in Nat, b <= 49136
    PROVE  /\ 4 * ((b + 16 + 2) \div 3) \in Int
           /\ 1 <= 4 * ((b + 16 + 2) \div 3) /\ 4 * ((b + 16 + 2) \div 3) <= 65536
<1> DEFINE q == (b + 16 + 2) \div 3
<1>1. q \in Int /\ 6 <= q /\ q <= 16384
  OBVIOUS
<1> HIDE DEF q
<1>2. 4 * q \in Int /\ 1 <= 4 * q /\ 4 * q <= 65536
  BY <1>1
<1> QED
  BY <1>2 DEF q

\* The base64 of a text that was typed has 1 to 65,536 characters unless the
\* text has more than 49,136 bytes.
LEMMA RefusedForLength ==
    ASSUME NEW x \in Trimmed, NEW h, h # None => h.digits = 64,
           ~SendMessageRequest(Ciphertext(x), ToBase64(32), h, None)
    PROVE  x.bytes > 49136
<1>1. PICK y \in Texts : x = Trim(y)
  BY DEF Trimmed
<1>2. x.bytes = y.bytes /\ y.bytes \in Nat
  BY <1>1, TextsAreRecords DEF Trim
<1>3. ContentHash(h, None)
  BY DEF ContentHash
<1>4. Base64(ToBase64(32), 256)
  <2>1. (32 + 2) \div 3 = 11
    OBVIOUS
  <2> QED
    BY <2>1 DEF Base64, ToBase64
<1>5. ~Base64(Ciphertext(x), 65536)
  BY <1>3, <1>4 DEF SendMessageRequest
<1> DEFINE b == x.bytes
           n == 4 * ((b + 16 + 2) \div 3)
           c == Ciphertext(x)
<1>6. c.chars = n /\ c.alphabet = "std"
  BY DEF Ciphertext, ToBase64
<1>7. b \in Nat
  BY <1>2
<1>8. ASSUME b <= 49136 PROVE FALSE
  <2> HIDE DEF b
  <2>1. n \in Int /\ 1 <= n /\ n <= 65536
    BY <1>7, <1>8, Base64Fits
  <2> HIDE DEF n, c
  <2>2. Base64(c, 65536)
    BY <1>6, <2>1, Base64Within
  <2> QED
    BY <1>5, <2>2 DEF c
<1> QED
  BY <1>7, <1>8

\* A request is refused for its length, or it becomes a message that shows the
\* text and carries its digest.
LEMMA PostData == ASSUME ExchangeInv, DataOK, NEW t \in Tasks, Post(t) PROVE DataOK'
<1> DEFINE u == session.token
           job == task[t]
<1>1. /\ task[t] # None /\ task[t].stage = "post" /\ u # None
      /\ task' = [task EXCEPT ![t] = None]
      /\ UNCHANGED <<account, panel, shown, seals, whole>>
  BY DEF Post, At, Done, browser
<1>2. Has(job, JobFields) /\ job.kind \in {"send", "forward", "list"} /\ TaskData(t)
  BY <1>1, JobFacts DEF DataOK
<1>3. /\ job.kind \in {"send", "forward"} /\ job.text \in Trimmed
      /\ job.hash # None => job.hash.value = keccak256(job.text) /\ job.hash.digits = 64
  BY <1>1, <1>2 DEF TaskData, JobData
<1>4. /\ task'[t] = None
      /\ \A s \in Tasks \ {t} : task'[s] = task[s]
  BY <1>1 DEF ExchangeInv, SessionOK
<1>5. TaskData(t)'
  BY <1>4 DEF TaskData
<1>6. CASE ~Accepted(job) /\ refused' = refused \cup {job.text} /\ UNCHANGED message
  <2>1. job.text.bytes > 49136
    BY <1>3, <1>6, RefusedForLength DEF Accepted
  <2>2. \A s \in Tasks : TaskData(s)'
    BY <1>4, <1>5, <1>6, TasksData
  <2>3. refused' \subseteq Trimmed /\ RefusedOnlyTooLong'
    <3> HIDE DEF job
    <3> QED
      BY <1>3, <1>6, <2>1 DEF DataOK, RefusedOnlyTooLong
  <2>4. Entries' = Entries
    BY <1>6 DEF Entries
  <2>5. /\ \A n \in Names : account'[n] # None => account'[n].name.core = n
        /\ panel' \in {"auth", "app"} /\ seals' \in 0..MaxSeals /\ whole' \in BOOLEAN
        /\ shown' \subseteq Entries'
    BY <1>1, <2>4 DEF DataOK
  <2>6. /\ Len(message') \in Nat /\ DOMAIN message' = 1 .. Len(message')
        /\ \A i \in DOMAIN message' : MessageData(message'[i])
    BY <1>6 DEF DataOK
  <2> QED
    BY <2>2, <2>3, <2>5, <2>6 DEF DataOK, MessageData
<1>7. CASE Accepted(job) /\ job.to # u /\ message' = Append(message, Row(u, job))
           /\ UNCHANGED refused
  <2> DEFINE n == Len(message)
             row == Row(u, job)
  <2>1. MessageData(row)
    <3>1. /\ row.sender = u /\ row.recipient = job.to /\ row.text = job.text
          /\ row.hash = IF job.kind = "send" THEN NormalHash(job.hash, None) ELSE None
      BY DEF Row
    <3>2. job.hash # None => NormalHash(job.hash, None).value = keccak256(job.text)
      <4> SUFFICES ASSUME job.hash # None
                   PROVE  NormalHash(job.hash, None).value = job.hash.value
        BY <1>3
      <4>1. NormalHash(job.hash, None) = [job.hash EXCEPT !.prefix = TRUE, !.upper = FALSE]
        BY DEF NormalHash
      <4> QED
        BY <4>1
    <3>3. job.hash = None => NormalHash(job.hash, None) = None
      BY DEF NormalHash
    <3> HIDE DEF row, job, u
    <3> QED
      BY <1>3, <1>7, <3>1, <3>2, <3>3 DEF MessageData
  <2>2. n \in Nat /\ DOMAIN message = 1..n
    BY DEF DataOK
  <2>3. /\ Len(message') = n + 1 /\ DOMAIN message' = 1..(n + 1)
        /\ \A i \in 1..n : message'[i] = message[i]
        /\ message'[n + 1] = row
    <3> HIDE DEF row
    <3> QED
      BY <1>7, <2>2 DEF row
  <2>4. DOMAIN message \subseteq DOMAIN message' /\ Len(message') \in Nat
    BY <2>2, <2>3
  <2>5. \A i \in DOMAIN message' : MessageData(message'[i])
    <3> HIDE DEF row, n
    <3>1. \A i \in 1..n : MessageData(message[i])
      BY <2>2 DEF DataOK
    <3>2. \A i \in 1..(n + 1) : i \in 1..n \/ i = n + 1
      BY <2>2
    <3> QED
      BY <2>1, <2>3, <3>1, <3>2
  <2>6. \A s \in Tasks : TaskData(s)'
    BY <1>4, <1>5, <2>4, TasksData
  <2>7. Entries \subseteq Entries'
    BY <2>4 DEF Entries
  <2>8. /\ \A k \in Names : account'[k] # None => account'[k].name.core = k
        /\ panel' \in {"auth", "app"} /\ seals' \in 0..MaxSeals /\ whole' \in BOOLEAN
        /\ shown' \subseteq Entries'
        /\ refused' \subseteq Trimmed /\ RefusedOnlyTooLong'
    BY <1>1, <1>7, <2>7 DEF DataOK, RefusedOnlyTooLong
  <2>9. Len(message') \in Nat /\ DOMAIN message' = 1 .. Len(message')
    BY <2>3, <2>4
  <2> QED
    BY <2>5, <2>6, <2>8, <2>9 DEF DataOK, MessageData
<1> QED
  BY <1>6, <1>7 DEF Post

LEMMA DataInitially == Init => DataOK
<1> SUFFICES ASSUME Init PROVE DataOK
  OBVIOUS
<1>1. Len(message) = 0 /\ DOMAIN message = {}
  BY DEF Init
<1>2. Len(message) \in Nat /\ DOMAIN message = 1 .. Len(message)
  BY <1>1
<1>3. seals \in 0..MaxSeals
  BY SealsAreCounted DEF Init
<1>4. \A t \in Tasks : TaskData(t)
  BY DEF Init, TaskData
<1>5. \A u \in Names : account[u] # None => account[u].name.core = u
  BY DEF Init
<1>6. refused \subseteq Trimmed /\ RefusedOnlyTooLong
  BY DEF Init, RefusedOnlyTooLong
<1>7. shown \subseteq Entries /\ panel \in {"auth", "app"} /\ whole \in BOOLEAN
  BY DEF Init
<1>8. \A i \in DOMAIN message : MessageData(message[i])
  BY <1>1
<1> QED
  BY <1>2, <1>3, <1>4, <1>5, <1>6, <1>7, <1>8 DEF DataOK

LEMMA DataStepKeeps == ASSUME ExchangeInv, DataOK, [Next]_vars PROVE DataOK'
<1>1. CASE UNCHANGED vars
  <2>1. DataOK' <=> DataOK
    BY <1>1 DEF vars, server, browser, DataOK, MessageData, RefusedOnlyTooLong, Entries,
                TaskData, JobData
  <2> QED
    BY <2>1
<1>2. CASE Clear \/ Leave
  BY <1>2, EndData
<1>3. ASSUME NEW t \in Tasks,
             \/ \E typed \in Typed : Register(t, typed[1], typed[2]) \/ Login(t, typed[1], typed[2])
             \/ StoreTokens(t) \/ StoreKey(t) \/ TryRefresh(t) \/ Refreshed(t)
             \/ \E u \in Names, x \in Texts : Send(t, u, x)
             \/ \E u \in Names, e \in shown : Forward(t, u, e)
             \/ Seal(t) \/ GiveUp(t) \/ Post(t) \/ List(t) \/ Listed(t) \/ Render(t)
             \/ \E i \in DOMAIN message : Open(t, i)
      PROVE  DataOK'
  <2>1. ASSUME NEW typed \in Typed, Register(t, typed[1], typed[2]) \/ Login(t, typed[1], typed[2])
        PROVE  DataOK'
    BY <2>1, LoginData
  <2>2. ASSUME NEW u \in Names, NEW x \in Texts, Send(t, u, x)
        PROVE  DataOK'
    <3>1. Trim(x) \in Trimmed
      BY DEF Trimmed
    <3> QED
      BY <2>2, <3>1, AsksData DEF Send
  <2>3. ASSUME NEW u \in Names, NEW e \in shown, Forward(t, u, e)
        PROVE  DataOK'
    <3>1. e.text \in Trimmed
      BY DEF DataOK, Entries
    <3> QED
      BY <2>3, <3>1, AsksData DEF Forward
  <2>4. CASE List(t)
    BY <2>4, AsksData DEF List
  <2> QED
    BY <1>3, <2>1, <2>2, <2>3, <2>4, SessionData, RefreshData, SealData, DoneData,
       ListingData, PostData
<1> QED
  BY <1>1, <1>2, <1>3 DEF Next

LEMMA DataInvariant == Spec => [](ExchangeInv /\ DataOK)
<1>1. Init => ExchangeInv /\ DataOK
  BY Initially, DataInitially
<1>2. ExchangeInv /\ DataOK /\ [Next]_vars => (ExchangeInv /\ DataOK)'
  BY StepKeeps, DataStepKeeps
<1> QED
  BY <1>1, <1>2, PTL DEF Spec

\* Every variable of the exchange keeps its type: an account holds the public
\* key of its own name, the session a user, a token and a private key of
\* accounts, a message two different accounts, and what is shown beside a
\* Forward button is a message and a text that was typed.
THEOREM ExchangeTypesHold == Spec => []TypeOK
<1>1. ExchangeInv /\ DataOK => TypeOK
  <2> SUFFICES ASSUME ExchangeInv, DataOK PROVE TypeOK
    OBVIOUS
  <2>1. \A u \in Names : account[u] # None =>
           account[u].publicKey = public_key(Identity(u)) /\ account[u].name.core = u
    BY DEF ExchangeInv, AccountsOK, AccountOK, AccountMade, DataOK
  <2>2. session \in [user : Names \cup {None}, token : Names \cup {None},
                     key : {Identity(u) : u \in Names} \cup {None}]
    <3>1. session = [user |-> session.user, token |-> session.token, key |-> session.key]
      BY DEF ExchangeInv, SessionOK
    <3>2. /\ session.user \in Names \cup {None} /\ session.token \in Names \cup {None}
          /\ session.key \in {Identity(u) : u \in Names} \cup {None}
      BY DEF ExchangeInv, SessionOK, AccountMade
    <3> QED
      BY <3>1, <3>2
  <2>3. \A i \in DOMAIN message :
           /\ message[i].sender \in Names /\ message[i].recipient \in Names
           /\ message[i].sender # message[i].recipient
    BY DEF ExchangeInv, MessagesOK, MessageOK, AccountMade, DataOK, MessageData
  <2> QED
    BY <2>1, <2>2, <2>3 DEF TypeOK, DataOK, Trimmed, Entries
<1> QED
  BY <1>1, DataInvariant, PTL

\* No text of up to 49,136 bytes is ever refused for its length by the
\* validators of the message endpoints (validators.py), whatever its digest
\* and whoever forwards it: padding, tag and base64 fit into 65,536
\* characters.
THEOREM RefusedAreTooLong == Spec => []RefusedOnlyTooLong
<1>1. ExchangeInv /\ DataOK => RefusedOnlyTooLong
  BY DEF DataOK
<1> QED
  BY <1>1, DataInvariant, PTL
=============================================================================
