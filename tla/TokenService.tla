---------------------------- MODULE TokenService ----------------------------
(***************************************************************************)
(* Registration, login, refresh, logout and token_required of              *)
(* server/app/auth_routes.py and server/app/jwt_utils.py over the users    *)
(* and revoked_tokens tables.                                              *)
(*                                                                         *)
(* create_tokens makes tokens in pairs, one access and one refresh token;  *)
(* pair p stands for the two jtis <<p, "access">> and <<p, "refresh">>.    *)
(* Requests interleave statement by statement; in particular verify_token  *)
(* reads the clock (jwt.decode) and the denylist in two different steps,   *)
(* and a refresh checks and revokes its token in different statements.  A  *)
(* handler's one write and its commit are one step: rival INSERTs of a key *)
(* wait for it.                                                            *)
(***************************************************************************)
EXTENDS Naturals, FiniteSets

CONSTANTS
    Names,       \* usernames
    Pairs,       \* the pairs create_tokens can make
    Requests,    \* requests in flight
    None,
    AccessTTL,   \* 1 hour
    RefreshTTL,  \* 7 days
    MaxTime,     \* bound on the clock
    Purging      \* whether the operator purges the denylist

ASSUME TokenAssumptions ==
    /\ AccessTTL \in Nat \ {0} /\ RefreshTTL \in Nat \ {0}
    /\ MaxTime \in Nat /\ Purging \in BOOLEAN

VARIABLES
    now,        \* the clock of server and database
    users,      \* usernames in the users table
    pairs,      \* pair -> user, iat and the pair it was refreshed from, or None
    delivered,  \* pairs some client received
    denylist,   \* jtis in revoked_tokens
    call,       \* request -> its call, or None
    pc,         \* request -> the statement its handler runs next
    status,     \* request -> HTTP status, 0 before there is one
    made,       \* request -> the pairs its reply carries
    live        \* history: request -> were its tokens good on arrival?

vars == <<now, users, pairs, delivered, denylist, call, pc, status, made, live>>

PairData == [user : Names, iat : 0..MaxTime, parent : Pairs \cup {None}]

\* The exp claim of the two tokens of p.
Exp(p, type) ==
    pairs[p].iat + IF type = "access" THEN AccessTTL ELSE RefreshTTL

\* The calls of the auth blueprint; "use" stands for every route behind
\* token_required that is not logout.
Calls ==
         [op : {"register", "login"}, name : Names, access : {None}, refresh : {None}]
    \cup [op : {"refresh"}, name : {None}, access : {None}, refresh : Pairs]
    \cup [op : {"logout"}, name : {None}, access : Pairs, refresh : Pairs]
    \cup [op : {"use"}, name : {None}, access : Pairs, refresh : {None}]

ASSUME NoneIsFresh == None \notin Pairs \cup PairData \cup Calls

\* The jtis of the tokens a call presents.
Presented(c) ==
    ({c.access} \ {None}) \X {"access"} \cup ({c.refresh} \ {None}) \X {"refresh"}

Stages == {"idle", "lookup", "insert", "recheck",
           "decode", "denylist", "decodeRefresh", "denylistRefresh",
           "rotate", "revoke", "reply", "done"}
Statuses == {0, 200, 201, 401, 409, 500}

-----------------------------------------------------------------------------
At(r, stage, ops) == pc[r] = stage /\ call[r].op \in ops

Goto(r, stage) ==
    /\ pc' = [pc EXCEPT ![r] = stage]
    /\ UNCHANGED <<pairs, delivered, call, status, made, live>>

Answer(r, code) ==
    /\ pc' = [pc EXCEPT ![r] = "done"]
    /\ status' = [status EXCEPT ![r] = code]
    /\ UNCHANGED <<pairs, delivered, call, made, live>>

\* create_tokens: fresh jtis; the pair leaves with the reply.
Issue(r, u, parent, code) ==
    \E p \in Pairs :
        /\ pairs[p] = None
        /\ pairs' = [pairs EXCEPT ![p] = [user |-> u, iat |-> now, parent |-> parent]]
        /\ made' = [made EXCEPT ![r] = {p}]
        /\ pc' = [pc EXCEPT ![r] = "reply"]
        /\ status' = [status EXCEPT ![r] = code]
        /\ UNCHANGED <<delivered, call, live>>

\* jwt.decode of a token the server signed (PyJWT: exp <= now expires).  A
\* token presented as the other type fails the type test in the same step,
\* with the same answer and as little effect as an expired one, and is left
\* out: clients present their tokens as what they are.
Decodes(p, type) == now < Exp(p, type)

Tables == <<now, users, denylist>>

-----------------------------------------------------------------------------
(* Requests.  A client presents tokens it was given.                       *)

Receive(r, c) ==
    /\ pc[r] = "idle"
    /\ {c.access, c.refresh} \subseteq delivered \cup {None}
    /\ call' = [call EXCEPT ![r] = c]
    /\ pc' = [pc EXCEPT ![r] =
          IF c.op \in {"register", "login"} THEN "lookup" ELSE "decode"]
    /\ live' = [live EXCEPT ![r] =
          \A t \in Presented(c) : now < Exp(t[1], t[2]) /\ t \notin denylist]
    /\ UNCHANGED <<Tables, pairs, delivered, status, made>>

\* register: User.get_by_username.
RegisterLookup(r) ==
    /\ At(r, "lookup", {"register"})
    /\ IF call[r].name \in users THEN Answer(r, 409) ELSE Goto(r, "insert")
    /\ UNCHANGED Tables

\* Mutant: a users table without UNIQUE(username).
RegisterInsertTwice(r) ==
    /\ At(r, "insert", {"register"})
    /\ users' = users \cup {call[r].name}
    /\ Issue(r, call[r].name, None, 201)
    /\ UNCHANGED <<now, denylist>>

\* User.create: INSERT; UNIQUE(username) refuses a name taken meanwhile and
\* leaves the transaction aborted.
RegisterInsert(r) ==
    LET n == call[r].name IN
    /\ At(r, "insert", {"register"})
    /\ IF n \in users
       THEN Goto(r, "recheck") /\ UNCHANGED users
       ELSE users' = users \cup {n} /\ Issue(r, n, None, 201)
    /\ UNCHANGED <<now, denylist>>

\* The second get_by_username runs in the aborted transaction: it raises,
\* and the application's error handler answers.
RegisterRecheck(r) ==
    /\ At(r, "recheck", {"register"})
    /\ Answer(r, 500)
    /\ UNCHANGED Tables

\* login: one SELECT, the Argon2 verification, the pair.
Login(r) ==
    /\ At(r, "lookup", {"login"})
    /\ \/ call[r].name \in users /\ Issue(r, call[r].name, None, 200)
       \/ Answer(r, 401)  \* unknown name or wrong password
    /\ UNCHANGED Tables

\* verify_token, first half, of the token the route asks for first.
Decode(r) ==
    /\ At(r, "decode", {"refresh", "logout", "use"})
    /\ IF IF call[r].op = "refresh" THEN Decodes(call[r].refresh, "refresh")
                                    ELSE Decodes(call[r].access, "access")
       THEN Goto(r, "denylist")
       ELSE Answer(r, 401)
    /\ UNCHANGED Tables

\* verify_token, second half: the SELECT on revoked_tokens.
CheckDenylist(r) ==
    /\ At(r, "denylist", {"refresh", "logout", "use"})
    /\ \/ /\ call[r].op = "refresh"
          /\ IF <<call[r].refresh, "refresh">> \in denylist THEN Answer(r, 401) ELSE Goto(r, "rotate")
       \/ /\ call[r].op = "logout"
          /\ IF <<call[r].access, "access">> \in denylist THEN Answer(r, 401) ELSE Goto(r, "decodeRefresh")
       \/ /\ call[r].op = "use"
          /\ IF <<call[r].access, "access">> \in denylist THEN Answer(r, 401) ELSE Answer(r, 200)
    /\ UNCHANGED Tables

\* logout verifies the refresh token of the body as well.
DecodeRefresh(r) ==
    /\ At(r, "decodeRefresh", {"logout"})
    /\ IF Decodes(call[r].refresh, "refresh")
       THEN Goto(r, "denylistRefresh")
       ELSE Answer(r, 401)
    /\ UNCHANGED Tables

\* Mutant: logout matches the users but does not look the token up.
CheckMatchOnly(r) ==
    /\ At(r, "denylistRefresh", {"logout"})
    /\ IF pairs[call[r].refresh].user # pairs[call[r].access].user
       THEN Answer(r, 401)
       ELSE Goto(r, "revoke")
    /\ UNCHANGED Tables

CheckDenylistRefresh(r) ==
    /\ At(r, "denylistRefresh", {"logout"})
    /\ IF \/ <<call[r].refresh, "refresh">> \in denylist
          \/ pairs[call[r].refresh].user # pairs[call[r].access].user
       THEN Answer(r, 401)
       ELSE Goto(r, "revoke")
    /\ UNCHANGED Tables

\* Mutant: a refresh that leaves the old token good.
RotateKeepingParent(r) ==
    LET f == call[r].refresh IN
    /\ At(r, "rotate", {"refresh"})
    /\ Issue(r, pairs[f].user, f, 200)
    /\ UNCHANGED <<now, users, denylist>>

\* Mutant: the token is filed under something that is not its jti.
RotateWrongKey(r) ==
    LET f == call[r].refresh IN
    /\ At(r, "rotate", {"refresh"})
    /\ denylist' = denylist \cup {<<f, None>>}
    /\ Issue(r, pairs[f].user, f, 200)
    /\ UNCHANGED <<now, users>>

\* refresh: RevokedToken.add (ON CONFLICT DO NOTHING is a success too), then
\* create_tokens.
Rotate(r) ==
    LET f == call[r].refresh IN
    /\ At(r, "rotate", {"refresh"})
    /\ denylist' = denylist \cup {<<f, "refresh">>}
    /\ Issue(r, pairs[f].user, f, 200)
    /\ UNCHANGED <<now, users>>

\* Mutant: logout revokes the access token alone.
RevokeAccessOnly(r) ==
    /\ At(r, "revoke", {"logout"})
    /\ denylist' = denylist \cup {<<call[r].access, "access">>}
    /\ pc' = [pc EXCEPT ![r] = "reply"]
    /\ status' = [status EXCEPT ![r] = 200]
    /\ UNCHANGED <<now, users, pairs, delivered, call, made, live>>

\* logout: RevokedToken.add_many, both rows in one transaction.
Revoke(r) ==
    /\ At(r, "revoke", {"logout"})
    /\ denylist' = denylist \cup Presented(call[r])
    /\ pc' = [pc EXCEPT ![r] = "reply"]
    /\ status' = [status EXCEPT ![r] = 200]
    /\ UNCHANGED <<now, users, pairs, delivered, call, made, live>>

\* The reply, and the tokens in it, reach the client.
Reply(r) ==
    /\ pc[r] = "reply"
    /\ pc' = [pc EXCEPT ![r] = "done"]
    /\ delivered' = delivered \cup made[r]
    /\ UNCHANGED <<Tables, pairs, call, status, made, live>>

\* A database error, or a reply lost after the commit.
Fail(r) ==
    /\ pc[r] \notin {"idle", "recheck", "done"}
    /\ Answer(r, 500)
    /\ UNCHANGED Tables

Finish(r) ==
    /\ pc[r] = "done"
    /\ call' = [call EXCEPT ![r] = None]
    /\ pc' = [pc EXCEPT ![r] = "idle"]
    /\ status' = [status EXCEPT ![r] = 0]
    /\ made' = [made EXCEPT ![r] = {}]
    /\ live' = [live EXCEPT ![r] = TRUE]
    /\ UNCHANGED <<Tables, pairs, delivered>>

Tick ==
    /\ now < MaxTime
    /\ now' = now + 1
    /\ UNCHANGED <<users, pairs, delivered, denylist, call, pc, status, made, live>>

\* The purge schema.sql allows: rows with expires_at < NOW().
Purge ==
    /\ Purging
    /\ denylist' = {t \in denylist : Exp(t[1], t[2]) >= now}
    /\ denylist' # denylist
    /\ UNCHANGED <<now, users, pairs, delivered, call, pc, status, made, live>>

Handle(r) ==
    \/ RegisterLookup(r) \/ RegisterInsert(r) \/ RegisterRecheck(r) \/ Login(r)
    \/ Decode(r) \/ CheckDenylist(r) \/ DecodeRefresh(r) \/ CheckDenylistRefresh(r)
    \/ Rotate(r) \/ Revoke(r) \/ Reply(r) \/ Fail(r)

Init ==
    /\ now = 0
    /\ users = {}
    /\ pairs = [p \in Pairs |-> None]
    /\ delivered = {}
    /\ denylist = {}
    /\ call = [r \in Requests |-> None]
    /\ pc = [r \in Requests |-> "idle"]
    /\ status = [r \in Requests |-> 0]
    /\ made = [r \in Requests |-> {}]
    /\ live = [r \in Requests |-> TRUE]

Next ==
    \/ Tick \/ Purge
    \/ \E r \in Requests :
        \/ \E c \in Calls : Receive(r, c)
        \/ Handle(r)
        \/ Finish(r)

Spec == Init /\ [][Next]_vars

-----------------------------------------------------------------------------
(* Properties.                                                             *)

\* Every variable keeps its type.
TypeOK ==
    /\ now \in 0..MaxTime
    /\ users \subseteq Names
    /\ pairs \in [Pairs -> PairData \cup {None}]
    /\ delivered \subseteq Pairs
    /\ denylist \subseteq Pairs \X {"access", "refresh"}
    /\ call \in [Requests -> Calls \cup {None}]
    /\ pc \in [Requests -> Stages]
    /\ status \in [Requests -> Statuses]
    /\ made \in [Requests -> SUBSET Pairs]
    /\ live \in [Requests -> BOOLEAN]

\* A request that succeeds presented tokens that were neither expired nor
\* revoked when it arrived, on every route and for both tokens of a logout,
\* however clock and denylist move while verify_token runs.  Purging costs one
\* exception: a revoked token whose expiry and purge both fall between the
\* two halves of verify_token is let through a last time.
AcceptedWereLive ==
    \A r \in Requests : status[r] = 200 =>
        \/ live[r]
        \/ Purging /\ \E t \in Presented(call[r]) : Exp(t[1], t[2]) < now

\* Revoked for good: denied, or past its exp.
Spent(p, type) == <<p, type>> \in denylist \/ now >= Exp(p, type)

\* After a logout is acknowledged both its tokens are spent, and they were
\* of one user.
LogoutEndsBoth ==
    \A r \in Requests : status[r] = 200 /\ call[r].op = "logout" =>
        /\ \A t \in Presented(call[r]) : Spent(t[1], t[2])
        /\ pairs[call[r].access].user = pairs[call[r].refresh].user

\* A client never holds the pair a refresh returned while the refresh token
\* it was exchanged for is still good, and the pair is of the same user.
RotationSpendsParent ==
    \A p \in delivered : pairs[p].parent # None =>
        /\ Spent(pairs[p].parent, "refresh")
        /\ pairs[pairs[p].parent].user = pairs[p].user

\* A username is handed to one registration only, although lookup and
\* INSERT are separate statements.
NamesGivenOnce ==
    \A q, r \in Requests :
        /\ q # r /\ status[q] = 201 /\ status[r] = 201
        => call[q].name # call[r].name

\* A refresh token is exchanged for at most one pair: the rotation that
\* docs/schema.md:74 speaks of.
RefreshedOnce ==
    \A p, q \in delivered :
        pairs[p].parent # None /\ pairs[p].parent = pairs[q].parent => p = q
=============================================================================
