------------------------------ MODULE Exchange ------------------------------
(* What becomes of a text: accounts made and opened with a password, a     *)
(* message sealed by one browser and opened by another, while the user of  *)
(* the browser changes between any two awaits (app.js; auth_routes.py,     *)
(* routes.py).  What becomes of its digest is ChainRecorder's.             *)
(*                                                                         *)
(* One browser, in which any account may log in.  Requests are answered    *)
(* when they are sent, except that a refresh may come first: their races   *)
(* on the server are those of TokenService and MessageService, how a       *)
(* session begins and ends is WebSession's.                                *)
EXTENDS Sealing, Validation, Sequences

CONSTANTS
    Names,      \* the cores of user names
    Typed,      \* what is typed to register or log in: pairs of a name, its
                \* core in Names, and a password, as Validation has them
    Texts,      \* what is typed as a message: records with text, bytes, padded
    Tasks,      \* clicks whose handlers are running
    MaxSeals,   \* how many messages are sealed: a bound
    None

VARIABLES
    account,    \* users: name -> [name, password, publicKey, envelope] or None
    message,    \* messages, a sequence; what is in it stays
    refused,    \* history: the texts whose request was answered 400
    session,    \* the session: its user and public key, token, private key
    panel,      \* "auth" or "app"
    shown,      \* the entries of currentMessages that have a Forward button
    seals,      \* how many ephemeral keys have been made
    task,       \* task -> its state, or None
    whole       \* history: one login alone made the session what it is

server  == <<account, message, refused>>
browser == <<session, panel, shown, seals>>
vars    == <<server, browser, task, whole>>

\* generateIdentityKeypair: the key of the registration that got the name.
Identity(u) == <<"identity", u>>
Ephemeral(n) == <<"ephemeral", n>>

\* The JSON of an envelope.
EnvelopeBytes == 140

\* The key is wrapped under the password as typed, with a salt of its own; the
\* server keeps a hash of the password.
Account(v, pw) ==
    [name |-> v, password |-> pw, publicKey |-> public_key(Identity(v.core)),
     envelope |-> encryptPrivateKey(Identity(v.core), pw.text, v.core)]

ASSUME NoneIsApart ==
    /\ None \notin Names /\ None \notin Tasks
    /\ \A x \in Typed : Account(x[1], x[2]) # None
ASSUME TypedAreNames ==
    \A x \in Typed : x[1] \in [core : Names, length : Nat, padded : BOOLEAN,
                              word : BOOLEAN, threats : SUBSET Threats]

ASSUME TextsAreRecords ==
    \A x \in Texts : x.bytes \in Nat
                    /\ x = [text |-> x.text, bytes |-> x.bytes, padded |-> x.padded]
ASSUME SealsAreCounted == MaxSeals \in Nat

\* userId and publicKeyBytes are always of one account: user stands for both.
Nobody == [user |-> None, token |-> None, key |-> None]

At(t, stage) == task[t] # None /\ task[t].stage = stage
Idle(t) == task[t] = None
Done(t) == task' = [task EXCEPT ![t] = None]

\* A turn of t changed the session: no other running task is steady now.
Disturbed(t, own) ==
    [s \in Tasks |-> IF s = t THEN own
                     ELSE IF task[s] = None THEN None ELSE [task[s] EXCEPT !.steady = FALSE]]

-----------------------------------------------------------------------------
(* Accounts and sessions.                                                  *)

\* register-btn, register, the route: the account and its first login.
Register(t, v, pw) ==
    LET u == v.core
    IN  /\ Idle(t) /\ panel = "auth"
        /\ \A s \in Tasks : ~(task[s] # None /\ task[s].kind = "register")
        /\ RegisterRequest(v, pw, ToBase64(32), ToBase64(EnvelopeBytes))
        /\ account[u] = None
        /\ account' = [account EXCEPT ![u] = Account(v, pw)]
        /\ task' = [task EXCEPT ![t] =
              [kind |-> "register", stage |-> "decrypt", user |-> u, pw |-> pw,
               key |-> None, steady |-> TRUE]]
        /\ UNCHANGED <<message, refused, browser, whole>>

\* login-btn, login, the route.  The server compares the password.
Login(t, v, pw) ==
    LET u == Strip(v).core
    IN  /\ Idle(t) /\ panel = "auth"
        /\ \A s \in Tasks : ~(task[s] # None /\ task[s].kind = "login")
        /\ LoginRequest(v, pw)
        /\ account[u] # None /\ account[u].password = pw
        /\ task' = [task EXCEPT ![t] =
              [kind |-> "login", stage |-> "decrypt", user |-> u, pw |-> pw,
               key |-> None, steady |-> TRUE]]
        /\ UNCHANGED <<server, browser, whole>>

\* storeSession: decryptPrivateKey has ended, the assignments up to the await
\* of importX25519PrivateKey.
StoreTokens(t) ==
    LET u == task[t].user
        sk == decryptPrivateKey(account[u].envelope, task[t].pw.text)
    IN  /\ At(t, "decrypt")
        /\ sk # NoText
        /\ session' = [session EXCEPT !.user = u, !.token = u]
        /\ task' = Disturbed(t, [task[t] EXCEPT !.stage = "import", !.key = sk,
                                                !.steady = TRUE])
        /\ whole' = FALSE
        /\ UNCHANGED <<server, panel, shown, seals>>

\* ... the key, and switchToApp.
StoreKey(t) ==
    /\ At(t, "import")
    /\ session' = [session EXCEPT !.key = task[t].key]
    /\ panel' = "app"
    /\ task' = Disturbed(t, None)
    /\ whole' = task[t].steady
    /\ UNCHANGED <<server, shown, seals>>

\* clearSession: a logout or a session that has expired.  A logout that
\* throws leaves the panel as it is.
Clear ==
    /\ session.token # None
    /\ session' = Nobody
    /\ \/ panel' = "auth" /\ shown' = {}
       \/ UNCHANGED <<panel, shown>>
    /\ task' = Disturbed(None, None)
    /\ whole' = FALSE
    /\ UNCHANGED <<server, seals>>

\* A logout without a session only shows the login form.
Leave ==
    /\ panel = "app" /\ session.token = None
    /\ panel' = "auth" /\ shown' = {}
    /\ UNCHANGED <<server, session, seals, task, whole>>

-----------------------------------------------------------------------------
(* Requests with a token.                                                  *)

\* apiFetch: sent under the token of the session, if there is one.
Asks(t, job) ==
    /\ Idle(t) /\ panel = "app"
    /\ session.token # None
    /\ task' = [task EXCEPT ![t] = [job EXCEPT !.token = session.token, !.steady = whole]]
    /\ UNCHANGED <<server, browser, whole>>

\* A handler that has sent its first request; source is 0 unless it forwards.
Job(kind, to, text, source) ==
    [kind |-> kind, stage |-> "asked", token |-> None, refreshing |-> FALSE,
     author |-> session.user, to |-> to, text |-> text, source |-> source,
     box |-> None, hash |-> None, sealer |-> None,
     todo |-> {}, got |-> {}, steady |-> TRUE]

\* The handler waits for the answer to its first request, or is about to post.
Pending(t) ==
    \/ At(t, "asked") /\ task[t].kind \in {"send", "forward", "list"}
    \/ At(t, "post")

\* A 401: tryRefreshToken sends the refresh token of the session ...
TryRefresh(t) ==
    /\ Pending(t) /\ ~task[t].refreshing
    /\ session.token # None
    /\ task' = [task EXCEPT ![t].refreshing = TRUE, ![t].token = session.token]
    /\ UNCHANGED <<server, browser, whole>>

\* ... and puts the pair it gets into the session, whoever's that is by now.
\* The request is sent again under it.
Refreshed(t) ==
    /\ Pending(t) /\ task[t].refreshing
    /\ LET same == session.token = task[t].token
           again == [task[t] EXCEPT !.refreshing = FALSE]
       IN  /\ session' = [session EXCEPT !.token = task[t].token]
           /\ task' = IF same THEN [task EXCEPT ![t] = again]
                      ELSE Disturbed(t, [again EXCEPT !.steady = FALSE])
           /\ whole' = IF same THEN whole ELSE FALSE
    /\ UNCHANGED <<server, panel, shown, seals>>

Answered(t) == Pending(t) /\ At(t, "asked") /\ ~task[t].refreshing

-----------------------------------------------------------------------------
(* Messages.                                                               *)

Trim(text) == [text EXCEPT !.padded = FALSE]

\* send-btn: the text is trimmed; lookupRecipient.
Send(t, to, text) ==
    /\ \A s \in Tasks : ~(task[s] # None /\ task[s].kind = "send")
    /\ account[to] # None
    /\ Asks(t, Job("send", to, Trim(text), 0))

\* The Forward button of a message whose text is shown.
Forward(t, to, entry) ==
    /\ entry \in shown
    /\ account[to] # None
    /\ Asks(t, Job("forward", to, entry.text, entry.id))

\* keccak256Hex of the text.
Digest(t) == [value |-> keccak256(task[t].text), digits |-> 64,
                   prefix |-> TRUE, upper |-> FALSE]

\* The recipient is known: hpkeSeal is called with the keys of the session
\* as it is now.  No digest if the keccak library is missing.
Seal(t) ==
    LET eph == Ephemeral(seals + 1)
        pk == public_key(Identity(session.user))
        box == hpkeSeal(eph, session.key, pk, account[task[t].to].publicKey, task[t].text)
    IN  /\ Answered(t) /\ task[t].kind \in {"send", "forward"}
        /\ session.key # None /\ session.user # None /\ seals < MaxSeals
        /\ \E h \in {Digest(t), None} :
              task' = [task EXCEPT ![t].stage = "post", ![t].box = box,
                                   ![t].hash = h, ![t].sealer = session.key]
        /\ seals' = seals + 1
        /\ UNCHANGED <<server, session, panel, shown, whole>>

\* Without a key hpkeSeal throws, and without a public key; the request may
\* fail too.
GiveUp(t) ==
    /\ Pending(t)
    /\ Done(t)
    /\ UNCHANGED <<server, browser, whole>>

\* AES-GCM adds 16 bytes.
Ciphertext(text) == ToBase64(text.bytes + 16)

Accepted(job) ==
    SendMessageRequest(Ciphertext(job.text), ToBase64(32), job.hash, None)

\* The row, with the history of how it came about.
Row(u, job) ==
    [sender |-> u, recipient |-> job.to, box |-> job.box,
     hash |-> IF job.kind = "send" THEN NormalHash(job.hash, None) ELSE None,
     author |-> job.author, text |-> job.text, sealer |-> job.sealer,
     steady |-> job.steady]

MayForward(u, job) ==
    job.kind = "forward" => u \in {message[job.source].sender, message[job.source].recipient}

\* Mutant: nobody looks whether the sender is the recipient.
PostToAnyone(t) ==
    LET u == session.token
        job == task[t]
    IN  /\ At(t, "post") /\ ~task[t].refreshing /\ u # None
        /\ \/ /\ ~Accepted(job)
              /\ refused' = refused \cup {job.text}
              /\ UNCHANGED message
           \/ /\ Accepted(job) /\ MayForward(u, job)
              /\ message' = Append(message, Row(u, job))
              /\ UNCHANGED refused
        /\ Done(t)
        /\ UNCHANGED <<account, browser, whole>>

\* send_message and forward_message, for the account of the token that the
\* session has when the sealing is done.  A forward records no digest.  What
\* is refused for another reason is as if it had not been sent (GiveUp).
Post(t) ==
    LET u == session.token
        job == task[t]
    IN  /\ At(t, "post") /\ ~task[t].refreshing /\ u # None
        /\ \/ /\ ~Accepted(job)
              /\ refused' = refused \cup {job.text}
              /\ UNCHANGED message
           \/ /\ Accepted(job) /\ job.to # u /\ MayForward(u, job)
              /\ message' = Append(message, Row(u, job))
              /\ UNCHANGED refused
        /\ Done(t)
        /\ UNCHANGED <<account, browser, whole>>

\* refresh-btn: getMessages.
List(t) ==
    /\ \A s \in Tasks : ~(task[s] # None /\ task[s].kind = "list")
    /\ Asks(t, Job("list", None, None, 0))

\* The rows of the user of the token, sent or received.  Left out are those
\* the user was granted: sealed for another recipient, they do not open.
Listed(t) ==
    /\ Answered(t) /\ task[t].kind = "list"
    /\ task' = [task EXCEPT ![t].stage = "opening",
          ![t].todo = {i \in DOMAIN message :
                          task[t].token \in {message[i].sender, message[i].recipient}}]
    /\ UNCHANGED <<server, browser, whole>>

\* One turn of the loop: hpkeOpen with the keys of the session as it is now.
\* A message of the session's own user is not opened.
Open(t, i) ==
    LET m == message[i]
        text == IF None \in {session.key, session.user} \/ m.sender = session.user
                THEN NoText
                ELSE hpkeOpen(session.key, public_key(Identity(session.user)),
                              account[m.sender].publicKey, m.box)
    IN  /\ At(t, "opening") /\ i \in task[t].todo
        /\ task' = [task EXCEPT ![t].todo = @ \ {i},
              ![t].got = IF text = NoText THEN @ ELSE @ \cup {[id |-> i, text |-> text]}]
        /\ UNCHANGED <<server, browser, whole>>

\* renderMessages.
Render(t) ==
    /\ At(t, "opening") /\ task[t].todo = {}
    /\ shown' = task[t].got
    /\ Done(t)
    /\ UNCHANGED <<server, session, panel, seals, whole>>

-----------------------------------------------------------------------------

Init ==
    /\ account = [u \in Names |-> None] /\ message = << >> /\ refused = {}
    /\ session = Nobody /\ panel = "auth" /\ shown = {} /\ seals = 0
    /\ task = [t \in Tasks |-> None] /\ whole = FALSE

Next ==
    \/ Clear \/ Leave
    \/ \E t \in Tasks :
        \/ \E typed \in Typed : Register(t, typed[1], typed[2]) \/ Login(t, typed[1], typed[2])
        \/ StoreTokens(t) \/ StoreKey(t) \/ TryRefresh(t) \/ Refreshed(t)
        \/ \E u \in Names, x \in Texts : Send(t, u, x)
        \/ \E u \in Names, e \in shown : Forward(t, u, e)
        \/ Seal(t) \/ GiveUp(t) \/ Post(t) \/ List(t) \/ Listed(t) \/ Render(t)
        \/ \E i \in DOMAIN message : Open(t, i)

Spec == Init /\ [][Next]_vars

-----------------------------------------------------------------------------

\* What the recipient's browser gets out of a message.
Opened(m) ==
    hpkeOpen(Identity(m.recipient), account[m.recipient].publicKey,
             account[m.sender].publicKey, m.box)

\* Every variable keeps its type.
TypeOK ==
    /\ \A u \in Names : account[u] # None =>
          account[u].publicKey = public_key(Identity(u)) /\ account[u].name.core = u
    /\ refused \subseteq {Trim(x) : x \in Texts}
    /\ session \in [user : Names \cup {None}, token : Names \cup {None},
                    key : {Identity(u) : u \in Names} \cup {None}]
    /\ panel \in {"auth", "app"} /\ seals \in 0..MaxSeals /\ whole \in BOOLEAN
    /\ \A i \in DOMAIN message :
          /\ message[i].sender \in Names /\ message[i].recipient \in Names
          /\ message[i].sender # message[i].recipient
    /\ shown \subseteq [id : DOMAIN message, text : {Trim(x) : x \in Texts}]

\* "the recipient is assured the message came from the named sender"
\* (docs/crypto_design.md:121): a message that opens was sealed with the key
\* of the account the server lists as its sender, and shows what was sealed.
\* When the user of the browser changes while a message is being sealed, it
\* goes out in another name and must not open.
Authentic ==
    \A i \in DOMAIN message : Opened(message[i]) # NoText =>
        /\ message[i].sealer = Identity(message[i].sender)
        /\ Opened(message[i]) = message[i].text

\* If nobody logged in or out between the click and the answer, and one login
\* alone made the session, the message goes out in the name of the user who
\* wrote it and its recipient reads what was written.
Delivered ==
    \A i \in DOMAIN message : message[i].steady =>
        /\ message[i].sender = message[i].author
        /\ Opened(message[i]) = message[i].text

\* A name and a password that made an account, typed again with or without
\* the blanks, log in and open its private key, whatever their length.
AccountsUsable ==
    \A u \in Names : account[u] # None =>
        LET a == account[u]
        IN  /\ LoginRequest(a.name, a.password) /\ LoginRequest(Strip(a.name), a.password)
            /\ Strip(a.name).core = u
            /\ decryptPrivateKey(a.envelope, a.password.text) = Identity(u)

\* A text is refused for its length only above 49,136 bytes, what is left of
\* 65,536 characters of base64 after the tag of AES-GCM.
RefusedOnlyTooLong == \A x \in refused : x.bytes > 49136
=============================================================================
