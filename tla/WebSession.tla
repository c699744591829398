----------------------------- MODULE WebSession -----------------------------
(***************************************************************************)
(* The session of the web client (client/web/js/app.js): apiFetch with its *)
(* refresh and single retry, the flows of the buttons, logout and reload.  *)
(*                                                                         *)
(* A task is one click.  JavaScript runs it in turns that end at an await; *)
(* between two turns other clicks, their replies or a reload come in, and  *)
(* they share one session object.  A turn is one action.                   *)
(*                                                                         *)
(* accessToken and refreshToken are always assigned together, so a session *)
(* holds a pair (TokenService).  The server is the contract of that module *)
(* in two steps: verify the tokens, then answer.                           *)
(***************************************************************************)
EXTENDS Naturals, Sequences, FiniteSets

CONSTANTS
    Users,
    Pairs,   \* the pairs create_tokens can make
    Tasks,   \* clicks whose handlers are running
    Kinds,   \* the buttons, a subset of AllKinds
    None

AllKinds == {"login", "register", "logout", "send", "forward", "list", "delete"}

ASSUME WebAssumptions ==
    /\ Kinds \subseteq AllKinds
    /\ None \notin Users \cup Pairs \cup Tasks

VARIABLES
    pair,       \* server: pair -> its user and the login it descends from, or None
    dead,       \* server: revoked or expired tokens <<pair, type>>
    session,    \* the session object
    storage,    \* sessionStorage sm_session, or None
    panel,      \* "auth" or "app"
    shown,      \* whose messages the list shows, or None
    task,       \* task -> its state, or None
    out,        \* history: "out" since the session was ended, "torn" if a login
                \* was between its tokens and its storage then, else "in"
    ended,      \* history: logins whose logout was acknowledged
    overlapped, \* history: some click came before the last one was done
    partial     \* history: the last login threw after it had assigned its tokens

server  == <<pair, dead>>
page    == <<session, storage, panel, shown>>
history == <<out, ended, overlapped, partial>>
vars    == <<server, page, task, history>>

Anonymous == [user |-> None, pair |-> None, key |-> None]

\* The requests of apiFetch, and tryRefreshToken's.
Ops == {"login", "register", "logout", "lookup", "post", "list", "remove", "refresh"}

\* "flight" to "error" are stages of a request, the others of the code after
\* it: storeSession at its two awaits, hpkeSeal, and the hpkeOpen loop.
Stages == {"flight", "verified", "ok", "401", "error",
           "decrypt", "import", "sealing", "opening"}

-----------------------------------------------------------------------------
(* Requests and the session.                                               *)

\* apiFetch: the header is read from the session when the request leaves.
Fetch(op) ==
    [op |-> op, token |-> session.pair, retried |-> FALSE, refreshing |-> FALSE,
     body |-> IF op = "logout" THEN session.pair ELSE None]

\* The request under way is the apiFetch's own or its tryRefreshToken's.
OpOf(t) == IF task[t].fetch.refreshing THEN "refresh" ELSE task[t].fetch.op

At(t, stage, ops) == task[t] # None /\ task[t].stage = stage /\ OpOf(t) \in ops

\* A login has assigned its tokens and waits for importX25519PrivateKey.
Importing(t) == IF task[t] = None THEN FALSE ELSE task[t].stage = "import"

\* clearSession
ClearSession ==
    /\ session' = Anonymous
    /\ storage' = None
    /\ out' = IF \E t \in Tasks : Importing(t) THEN "torn" ELSE "out"
    /\ partial' = FALSE

SwitchToAuth == panel' = "auth" /\ shown' = None

\* Mutant: writes the tokens whether or not a session is stored.
UpdateStorageAlways(p) == storage' = [user |-> session.user, pair |-> p]

\* Mutant: the new tokens stay in memory.
UpdateStorageNever(p) == UNCHANGED storage

\* updateSessionStorage
UpdateStorage(p) ==
    storage' = IF storage = None THEN None ELSE [storage EXCEPT !.pair = p]

Done(t) == task' = [task EXCEPT ![t] = None]

-----------------------------------------------------------------------------
(* Clicks.                                                                 *)

FirstOp(k) ==
    CASE k \in {"send", "forward"} -> "lookup"
      [] k = "delete" -> "remove"
      [] OTHER -> k

\* A button starts its handler.  Login, register, send and list buttons are
\* disabled while their handler runs; logout is not, nor are the buttons of
\* other messages.
Click(t, k, u) ==
    /\ task[t] = None
    /\ panel = IF k \in {"login", "register"} THEN "auth" ELSE "app"
    /\ u = None <=> k \notin {"login", "register"}
    /\ k \notin {"logout", "forward", "delete"} =>
          \A s \in Tasks : task[s] # None => task[s].kind # k
    /\ k = "logout" => session.pair # None
    /\ k \in {"forward", "delete"} => shown # None
    /\ task' = [task EXCEPT ![t] =
          [kind |-> k, by |-> u, stage |-> "flight", fetch |-> Fetch(FirstOp(k)),
           got |-> None, wrote |-> << >>]]
    /\ overlapped' = (overlapped \/ \E s \in Tasks : task[s] # None)
    /\ UNCHANGED <<server, page, out, ended, partial>>

\* logout without a session only shows the login form.
Leave ==
    /\ panel = "app" /\ session.pair = None
    /\ SwitchToAuth
    /\ UNCHANGED <<server, session, storage, task, history>>

\* The page is loaded anew: restoreSession brings back all but the key.
Reload ==
    /\ task' = [t \in Tasks |-> None]
    /\ session' = IF storage = None THEN Anonymous
                  ELSE [user |-> storage.user, pair |-> storage.pair, key |-> None]
    /\ SwitchToAuth
    /\ UNCHANGED <<server, storage, history>>

-----------------------------------------------------------------------------
(* The server.                                                             *)

Live(p, type) == p # None /\ <<p, type>> \notin dead

Authorised(t) ==
    LET f == task[t].fetch IN
    CASE OpOf(t) \in {"login", "register"} -> TRUE
      [] OpOf(t) = "refresh" -> Live(f.token, "refresh")
      [] OpOf(t) = "logout" -> /\ Live(f.token, "access") /\ Live(f.body, "refresh")
                               /\ pair[f.token].user = pair[f.body].user
      [] OTHER -> Live(f.token, "access")

\* token_required and verify_token; the password of a login may be wrong.
Verify(t) ==
    /\ At(t, "flight", Ops)
    /\ \E ok \in BOOLEAN :
        /\ OpOf(t) # "login" => ok = Authorised(t)
        /\ task' = [task EXCEPT ![t].stage = IF ok THEN "verified" ELSE "401"]
    /\ UNCHANGED <<server, page, history>>

Issue(t, u, login) ==
    \E p \in Pairs :
        /\ pair[p] = None
        /\ pair' = [pair EXCEPT ![p] =
              [user |-> u, login |-> IF login = None THEN p ELSE login]]
        /\ task' = [task EXCEPT ![t].stage = "ok", ![t].got = p]

ServeLogin(t) ==
    /\ At(t, "verified", {"login", "register"})
    /\ Issue(t, task[t].by, None)
    /\ UNCHANGED <<dead, page, history>>

\* Mutant: a refresh that leaves the old token good.
ServeRefreshKeeping(t) ==
    LET f == task[t].fetch.token IN
    /\ At(t, "verified", {"refresh"})
    /\ Issue(t, pair[f].user, pair[f].login)
    /\ UNCHANGED <<dead, page, history>>

ServeRefresh(t) ==
    LET f == task[t].fetch.token IN
    /\ At(t, "verified", {"refresh"})
    /\ dead' = dead \cup {<<f, "refresh">>}
    /\ Issue(t, pair[f].user, pair[f].login)
    /\ UNCHANGED <<page, history>>

ServeLogout(t) ==
    /\ At(t, "verified", {"logout"})
    /\ dead' = dead \cup {<<task[t].fetch.token, "access">>, <<task[t].fetch.body, "refresh">>}
    /\ task' = [task EXCEPT ![t].stage = "ok"]
    /\ UNCHANGED <<pair, page, history>>

\* The message endpoints, for the user of the access token.
ServeMessages(t) ==
    LET u == pair[task[t].fetch.token].user IN
    /\ At(t, "verified", {"lookup", "post", "list", "remove"})
    /\ task' = [task EXCEPT
          ![t].stage = "ok",
          ![t].got = IF task[t].fetch.op = "list" THEN u ELSE None,
          ![t].wrote = IF task[t].fetch.op = "post" THEN Append(@, u) ELSE @]
    /\ UNCHANGED <<server, page, history>>

Serve(t) == ServeLogin(t) \/ ServeRefresh(t) \/ ServeLogout(t) \/ ServeMessages(t)

\* The request or its reply is lost, or the server answers with an error
\* that is not 401.
Lose(t) ==
    /\ \E s \in {"flight", "verified", "ok", "401"} : At(t, s, Ops)
    /\ task' = [task EXCEPT ![t].stage = "error", ![t].got = None]
    /\ UNCHANGED <<server, page, history>>

\* Access tokens expire first.
Expire(p, type) ==
    /\ pair[p] # None /\ <<p, type>> \notin dead
    /\ type = "refresh" => <<p, "access">> \in dead
    /\ dead' = dead \cup {<<p, type>>}
    /\ UNCHANGED <<pair, page, task, history>>

-----------------------------------------------------------------------------
(* The code after an await.                                                *)

\* Mutant: every failure is a reason to refresh and retry.
MayRefreshAnyFailure(t) ==
    /\ At(t, "401", Ops \ {"refresh"}) \/ At(t, "error", Ops \ {"refresh"})
    /\ ~task[t].fetch.retried /\ session.pair # None

MayRefresh(t) ==
    /\ At(t, "401", Ops \ {"refresh"})
    /\ ~task[t].fetch.retried /\ session.pair # None

\* apiFetch, status 401: tryRefreshToken.
TryRefresh(t) ==
    /\ MayRefresh(t)
    /\ task' = [task EXCEPT ![t].stage = "flight",
          ![t].fetch.token = session.pair, ![t].fetch.refreshing = TRUE]
    /\ UNCHANGED <<server, page, history>>

\* tryRefreshToken succeeded: the new tokens are the session's, whoever's it
\* is by now, and the request is sent again with its old body.
Refreshed(t) ==
    LET p == task[t].got IN
    /\ At(t, "ok", {"refresh"})
    /\ session' = [session EXCEPT !.pair = p]
    /\ UpdateStorage(p)
    /\ task' = [task EXCEPT
          ![t].stage = "flight", ![t].got = None,
          ![t].fetch = [@ EXCEPT !.token = p, !.retried = TRUE, !.refreshing = FALSE]]
    /\ UNCHANGED <<server, panel, shown, history>>

\* ... or not: "Session expired. Please log in again."
RefreshRefused(t) ==
    /\ At(t, "401", {"refresh"}) \/ At(t, "error", {"refresh"})
    /\ ClearSession
    /\ SwitchToAuth
    /\ Done(t)
    /\ UNCHANGED <<server, ended, overlapped>>

Failed(t) ==
    \/ At(t, "error", Ops \ {"refresh"})
    \/ At(t, "401", Ops \ {"refresh"}) /\ ~MayRefresh(t)

\* Mutant: logout without its finally.
ThrowKeepingSession(t) ==
    /\ Failed(t)
    /\ out' = IF task[t].fetch.op = "logout" THEN "out" ELSE out
    /\ Done(t)
    /\ UNCHANGED <<server, page, ended, overlapped, partial>>

\* apiFetch throws.  The handler shows the error; the logout clears the
\* session in its finally but never gets to switchToAuth.
Throw(t) ==
    /\ Failed(t)
    /\ IF task[t].fetch.op = "logout" THEN ClearSession
       ELSE UNCHANGED <<session, storage, out, partial>>
    /\ Done(t)
    /\ UNCHANGED <<server, panel, shown, ended, overlapped>>

\* logout was acknowledged.
LoggedOut(t) ==
    /\ At(t, "ok", {"logout"})
    /\ ClearSession
    /\ SwitchToAuth
    /\ ended' = ended \cup {pair[task[t].fetch.token].login}
    /\ Done(t)
    /\ UNCHANGED <<server, overlapped>>

\* storeSession decrypts the private key ...
LoggedIn(t) ==
    /\ At(t, "ok", {"login", "register"})
    /\ task' = [task EXCEPT ![t].stage = "decrypt"]
    /\ UNCHANGED <<server, page, history>>

\* ... assigns user and tokens and imports the key ...
StoreTokens(t) ==
    /\ At(t, "decrypt", Ops)
    /\ session' = [session EXCEPT !.user = task[t].by, !.pair = task[t].got]
    /\ task' = [task EXCEPT ![t].stage = "import"]
    /\ out' = "in"
    /\ UNCHANGED <<server, storage, panel, shown, ended, overlapped, partial>>

\* Mutant: the opened private key is stored with the tokens.
StoreKeyPersisting(t) ==
    /\ Importing(t)
    /\ session' = [session EXCEPT !.key = task[t].by]
    /\ storage' = [user |-> task[t].by, pair |-> task[t].got, key |-> task[t].by]
    /\ panel' = "app"
    /\ partial' = FALSE
    /\ Done(t)
    /\ UNCHANGED <<server, shown, out, ended, overlapped>>

\* ... assigns it, writes sessionStorage, whatever has become of the session
\* meanwhile, and the handler shows the app.
StoreKey(t) ==
    /\ Importing(t)
    /\ session' = [session EXCEPT !.key = task[t].by]
    /\ storage' = [user |-> task[t].by, pair |-> task[t].got]
    /\ panel' = "app"
    /\ partial' = FALSE
    /\ Done(t)
    /\ UNCHANGED <<server, shown, out, ended, overlapped>>

\* decryptPrivateKey or importX25519PrivateKey throws: the handler shows the
\* error, and tokens already assigned stay in the session.
LoginThrows(t) ==
    /\ At(t, "decrypt", Ops) \/ Importing(t)
    /\ partial' = (partial \/ Importing(t))
    /\ Done(t)
    /\ UNCHANGED <<server, page, out, ended, overlapped>>

\* sendMessage, forwardMessage: the recipient is known; hpkeSeal throws
\* without a key.
LookedUp(t) ==
    /\ At(t, "ok", {"lookup"})
    /\ IF session.key = None THEN Done(t) ELSE task' = [task EXCEPT ![t].stage = "sealing"]
    /\ UNCHANGED <<server, page, history>>

\* The next apiFetch of the handler: the sealed message, or the list that
\* follows a delete.
Continue(t) ==
    /\ \/ /\ At(t, "sealing", Ops)
          /\ task' = [task EXCEPT ![t].stage = "flight", ![t].fetch = Fetch("post")]
       \/ /\ At(t, "ok", {"remove"})
          /\ task' = [task EXCEPT ![t].stage = "flight", ![t].fetch = Fetch("list")]
    /\ UNCHANGED <<server, page, history>>

Sent(t) ==
    /\ At(t, "ok", {"post"})
    /\ Done(t)
    /\ UNCHANGED <<server, page, history>>

\* getMessages decrypts what it got ...
Listed(t) ==
    /\ At(t, "ok", {"list"})
    /\ task' = [task EXCEPT ![t].stage = "opening"]
    /\ UNCHANGED <<server, page, history>>

\* ... and renderMessages shows it.
Render(t) ==
    /\ At(t, "opening", Ops)
    /\ shown' = task[t].got
    /\ Done(t)
    /\ UNCHANGED <<server, session, storage, panel, history>>

Turn(t) ==
    \/ TryRefresh(t) \/ Refreshed(t) \/ RefreshRefused(t) \/ Throw(t)
    \/ LoggedOut(t) \/ LoggedIn(t) \/ StoreTokens(t) \/ StoreKey(t) \/ LoginThrows(t)
    \/ LookedUp(t) \/ Continue(t) \/ Sent(t) \/ Listed(t) \/ Render(t)

Init ==
    /\ pair = [p \in Pairs |-> None] /\ dead = {}
    /\ session = Anonymous /\ storage = None
    /\ panel = "auth" /\ shown = None
    /\ task = [t \in Tasks |-> None]
    /\ out = "out" /\ ended = {} /\ overlapped = FALSE /\ partial = FALSE

Next ==
    \/ Leave \/ Reload
    \/ \E p \in Pairs, type \in {"access", "refresh"} : Expire(p, type)
    \/ \E t \in Tasks :
        \/ \E k \in Kinds, u \in Users \cup {None} : Click(t, k, u)
        \/ Verify(t) \/ Serve(t) \/ Lose(t)
        \/ Turn(t)

Spec == Init /\ [][Next]_vars

-----------------------------------------------------------------------------
(* Properties.                                                             *)

Requests == [op : Ops \ {"refresh"}, token : Pairs \cup {None}, body : Pairs \cup {None},
             retried : BOOLEAN, refreshing : BOOLEAN]
TaskData == [kind : AllKinds, by : Users \cup {None}, stage : Stages, fetch : Requests,
             got : Pairs \cup Users \cup {None}, wrote : Seq(Users)]

ASSUME NoneIsFresh == None \notin TaskData \cup [user : Users, login : Pairs]

\* Every variable keeps its type.
TypeOK ==
    /\ pair \in [Pairs -> [user : Users, login : Pairs] \cup {None}]
    /\ dead \subseteq Pairs \X {"access", "refresh"}
    /\ session \in [user : Users \cup {None}, pair : Pairs \cup {None}, key : Users \cup {None}]
    /\ storage \in [user : Users, pair : Pairs] \cup {None}
    /\ panel \in {"auth", "app"}
    /\ shown \in Users \cup {None}
    /\ task \in [Tasks -> TaskData \cup {None}]
    /\ out \in {"in", "out", "torn"} /\ ended \subseteq Pairs
    /\ overlapped \in BOOLEAN /\ partial \in BOOLEAN

\* A user who waits for each click to finish has one identity: tokens, key,
\* stored session and the list on screen are of one account, and what a
\* reload would restore are the tokens in use, also after a refresh.  Only a
\* login that threw half-way leaves another account's stored session beside
\* its tokens, until the next login or the next end of a session.
OneIdentity ==
    ~overlapped /\ ~partial =>
        /\ session.pair # None => pair[session.pair].user = session.user
        /\ session.key # None => session.key = session.user
        /\ shown # None => session.user \in {None, shown}
        /\ (\A t \in Tasks : ~Importing(t)) /\ storage # None =>
              storage = [user |-> session.user, pair |-> session.pair]

\* A user who waits for each click to finish has, after an acknowledged
\* logout, no refresh token left that descends from that login, however
\* often it was refreshed and whatever replies were lost.
LogoutEndsLogin ==
    ~overlapped => \A p \in Pairs :
        pair[p] # None /\ pair[p].login \in ended => <<p, "refresh">> \in dead

Cleared == out # "in" => session = Anonymous /\ storage = None

\* However a logout ends, it leaves neither tokens nor key behind, if the
\* user waits for each click to finish.
LogoutClears == ~overlapped => Cleared

\* A reload brings back a session that was ended only if it was ended between
\* the two turns of a login, which then writes the tokens to sessionStorage
\* (app.js:251); however else clicks overlap, and also when a refresh answered
\* after the logout puts its tokens into the session, none comes back.
LogoutSurvivesReload == out = "out" => storage = None

\* One click stores a message at most once: only a 401, which the server
\* answers before it writes, makes apiFetch send a request again.
SentAtMostOnce == \A t \in Tasks : task[t] # None => Len(task[t].wrote) <= 1

\* "Cleared entirely on logout" (app.js:218).
ClearedOnLogout == Cleared
=============================================================================
