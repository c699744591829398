-------------------------- MODULE WebSessionProofs --------------------------
(***************************************************************************)
(* Proofs about WebSession for any number of users, pairs and clicks, and  *)
(* any buttons: what holds however clicks overlap, and what holds for a    *)
(* user who waits for each click to finish.                                *)
(***************************************************************************)
EXTENDS WebSession, TLAPS

-----------------------------------------------------------------------------
(* The inductive invariant: what holds however clicks overlap.             *)

Entry == {"login", "register"}
Remote == {"flight", "verified", "ok", "401", "error"}

\* create_tokens has made the pair p.
Issued(p) == p \in Pairs /\ pair[p] # None

\* Whatever the client holds has been made, and a login is named by its first
\* pair.
PairsOK ==
    /\ \A p \in Pairs : Issued(p) => Issued(pair[p].login)
    /\ \A p \in ended : Issued(p)
    /\ session.pair # None => Issued(session.pair)
    /\ storage # None => Issued(storage.pair)

\* The requests a click may make.
FlowOps(kind) ==
    IF kind \in {"send", "forward"} THEN {"lookup", "post"}
    ELSE IF kind = "delete" THEN {"remove", "list"} ELSE {kind}

\* The reply t is working on.
GotPair(t) == At(t, "ok", Entry \cup {"refresh"}) \/ task[t].stage \in {"decrypt", "import"}
GotList(t) == At(t, "ok", {"list"}) \/ task[t].stage = "opening"

TaskOK(t) ==
    LET k == task[t]
        f == task[t].fetch IN
    /\ f.op \in FlowOps(k.kind)
    /\ k.kind \in Entry <=> k.by # None
    /\ f.token # None => Issued(f.token)
    /\ f.body # None => Issued(f.body)
    /\ f.op = "logout" => f.body # None
    /\ f.refreshing => k.stage \in Remote
    /\ k.stage \in {"decrypt", "import"} => f.op \in Entry
    /\ k.stage = "sealing" => f.op = "lookup"
    /\ k.stage = "opening" => f.op = "list"
    /\ At(t, "verified", Ops \ Entry) \/ At(t, "ok", {"logout"}) => f.token # None
    /\ GotPair(t) => Issued(k.got)
    /\ GotPair(t) /\ ~f.refreshing => pair[k.got].user = k.by
    /\ At(t, "ok", {"refresh"}) =>
          /\ f.token # None /\ pair[k.got].user = pair[f.token].user
          /\ <<f.token, "refresh">> \in dead
    /\ GotList(t) => f.token # None /\ k.got = pair[f.token].user
    /\ k.wrote = << >> \/ /\ Len(k.wrote) = 1 /\ f.op = "post" /\ ~f.refreshing
                          /\ k.stage \in {"ok", "error"}

-----------------------------------------------------------------------------
(* What holds when each click waits for the one before.                    *)

\* Every other pair of p's login is spent.
OthersSpent(p) ==
    \A q \in Pairs : Issued(q) /\ q # p /\ pair[q].login = pair[p].login =>
        <<q, "refresh">> \in dead

\* The one running click and the session belong together.
AloneOK(t) ==
    LET k == task[t]
        f == task[t].fetch IN
    /\ k.kind \in Entry => panel = "auth"
    /\ k.kind \notin Entry =>
          f.token = session.pair /\ (panel = "app" \/ session.pair = None)
    /\ f.refreshing => f.token = session.pair /\ session.pair # None
    /\ k.stage = "import" => session.user = k.by /\ session.pair = k.got
    /\ f.op = "logout" => IF f.retried THEN <<f.body, "refresh">> \in dead
                                       ELSE f.body = f.token
    /\ At(t, "verified", {"refresh"}) =>
          OthersSpent(f.token) /\ pair[f.token].login \notin ended
    /\ At(t, "verified", {"logout"}) => OthersSpent(f.token) /\ f.body = f.token
    /\ At(t, "ok", {"logout"}) =>
          /\ f.token # None
          /\ OthersSpent(f.token) /\ <<f.token, "refresh">> \in dead

\* What a reload would restore is one account's.
StoredOK == ~partial /\ storage # None => pair[storage.pair].user = storage.user

\* No key and no list behind the login form, and nothing without tokens.
PageOK ==
    /\ session.pair = None => session = Anonymous
    /\ panel = "auth" => session.key = None /\ shown = None

\* At most one refresh token of a login is good.
ChainOK == \A p \in Pairs : Issued(p) /\ <<p, "refresh">> \notin dead => OthersSpent(p)

SequentialOK ==
    ~overlapped =>
        /\ \A s, t \in Tasks : task[s] # None /\ task[t] # None => s = t
        /\ \A t \in Tasks : task[t] # None => AloneOK(t)
        /\ Cleared /\ StoredOK /\ PageOK /\ ChainOK

\* A login between its two turns has begun a session, or lost it.
EndedOK ==
    /\ LogoutSurvivesReload
    /\ out = "out" => \A t \in Tasks : ~Importing(t)

WebInv ==
    /\ TypeOK /\ PairsOK /\ EndedOK
    /\ \A t \in Tasks : task[t] # None => TaskOK(t)
    /\ SequentialOK /\ OneIdentity /\ LogoutEndsLogin

-----------------------------------------------------------------------------
(* Tasks and pairs.                                                        *)

\* The fields of a running click.
LEMMA TaskFacts ==
    ASSUME TypeOK, NEW t \in Tasks, task[t] # None
    PROVE  /\ task[t] \in TaskData
           /\ task[t].kind \in AllKinds /\ task[t].by \in Users \cup {None}
           /\ task[t].stage \in Stages /\ task[t].fetch \in Requests
           /\ task[t].got \in Pairs \cup Users \cup {None}
           /\ task[t].wrote \in Seq(Users)
           /\ task[t].fetch.op \in Ops \ {"refresh"}
           /\ task[t].fetch.token \in Pairs \cup {None}
           /\ task[t].fetch.body \in Pairs \cup {None}
           /\ task[t].fetch.retried \in BOOLEAN /\ task[t].fetch.refreshing \in BOOLEAN
           /\ OpOf(t) \in Ops
           /\ task[t].fetch.refreshing => OpOf(t) = "refresh"
           /\ OpOf(t) = "refresh" => task[t].fetch.refreshing
           /\ ~ task[t].fetch.refreshing => OpOf(t) = task[t].fetch.op
<1>1. task[t] \in TaskData
  BY DEF TypeOK
<1>2. task[t].fetch \in Requests
  BY <1>1 DEF TaskData
<1> QED
  BY <1>1, <1>2 DEF TaskData, Requests, OpOf, Ops

\* What create_tokens has made has a user and a login.
LEMMA IssuedData ==
    ASSUME TypeOK, NEW p \in Pairs, Issued(p)
    PROVE  pair[p].user \in Users /\ pair[p].login \in Pairs
BY DEF TypeOK, Issued

\* The server forgets neither a pair nor a revocation.
Grows ==
    /\ \A p \in Pairs : Issued(p) => pair'[p] = pair[p]
    /\ dead \subseteq dead'

LEMMA IssuedStays ==
    ASSUME Grows, NEW p, Issued(p)
    PROVE  Issued(p)' /\ pair'[p] = pair[p]
BY DEF Grows, Issued

\* A click keeps its part of the invariant while others move.
LEMMA TaskStays ==
    ASSUME TypeOK, Grows, NEW t \in Tasks, task[t] # None, TaskOK(t),
           task'[t] = task[t]
    PROVE  TaskOK(t)'
<1>1. GotPair(t)' = GotPair(t) /\ GotList(t)' = GotList(t) /\ OpOf(t)' = OpOf(t)
  BY DEF GotPair, GotList, At, OpOf
<1>2. \A stage, ops : At(t, stage, ops)' = At(t, stage, ops)
  BY DEF At, OpOf
<1>3. \A p : Issued(p) => Issued(p)' /\ pair'[p] = pair[p]
  BY IssuedStays
<1>4. dead \subseteq dead'
  BY DEF Grows
<1>5. At(t, "ok", {"refresh"}) => Issued(task[t].fetch.token)
  BY DEF TaskOK
<1>6. At(t, "ok", {"refresh"}) => GotPair(t)
  BY DEF At, GotPair
<1>7. GotList(t) => Issued(task[t].fetch.token)
  BY DEF TaskOK
<1> QED
  BY <1>1, <1>2, <1>3, <1>4, <1>5, <1>6, <1>7 DEF TaskOK

\* One click moves on or ends, and the whole invariant holds again.
LEMMA OneTaskMoves ==
    ASSUME WebInv, NEW t \in Tasks, TypeOK', Grows, PairsOK', EndedOK',
           overlapped' = overlapped,
           task[t] # None, \A s \in Tasks \ {t} : task'[s] = task[s],
           task'[t] # None => TaskOK(t)',
           ~overlapped =>
              /\ task'[t] # None => AloneOK(t)'
              /\ Cleared' /\ StoredOK' /\ PageOK' /\ ChainOK',
           OneIdentity', LogoutEndsLogin'
    PROVE  WebInv'
<1>1. \A s \in Tasks : task'[s] # None => TaskOK(s)'
  BY TaskStays DEF WebInv
<1>2. SequentialOK'
  <2> SUFFICES ASSUME ~overlapped
               PROVE  /\ \A s, q \in Tasks : task'[s] # None /\ task'[q] # None => s = q
                      /\ \A s \in Tasks : task'[s] # None => AloneOK(s)'
    BY DEF SequentialOK
  <2>1. \A s \in Tasks \ {t} : task'[s] = None
    BY DEF WebInv, SequentialOK
  <2> QED
    BY <2>1
<1> QED
  BY <1>1, <1>2 DEF WebInv

\* A step that moves one click and nothing else.
LEMMA TaskOnlyMoves ==
    ASSUME WebInv, NEW t \in Tasks, TypeOK', UNCHANGED <<server, page, history>>,
           task[t] # None, task[t].stage # "import",
           \A s \in Tasks \ {t} : task'[s] = task[s],
           ~Importing(t)',
           task'[t] # None => TaskOK(t)' /\ (~overlapped => AloneOK(t)')
    PROVE  WebInv'
<1>1. /\ UNCHANGED <<pair, dead, session, storage, panel, shown, out, ended, overlapped, partial>>
  BY DEF server, page, history
<1>2. Grows /\ PairsOK' /\ EndedOK'
  BY <1>1 DEF Grows, PairsOK, WebInv, EndedOK, LogoutSurvivesReload, Importing, Issued
<1>3. ~overlapped => Cleared' /\ StoredOK' /\ PageOK' /\ ChainOK'
  BY <1>1 DEF WebInv, SequentialOK, Cleared, StoredOK, PageOK, ChainOK, OthersSpent, Issued,
              Anonymous
<1>4. LogoutEndsLogin'
  BY <1>1 DEF WebInv, LogoutEndsLogin
<1>5. OneIdentity'
  <2>1. ~overlapped => \A s \in Tasks : ~Importing(s)
    BY DEF Importing, WebInv, SequentialOK
  <2> QED
    BY <1>1, <2>1 DEF WebInv, OneIdentity
<1> QED
  BY <1>1, <1>2, <1>3, <1>4, <1>5, OneTaskMoves

-----------------------------------------------------------------------------
(* What a step makes of a click.                                           *)

Becomes(t, stage, fetch, got, wrote) ==
    /\ task' \in [Tasks -> TaskData \cup {None}]
    /\ task'[t] # None
    /\ task'[t].kind = task[t].kind /\ task'[t].by = task[t].by
    /\ task'[t].stage = stage /\ task'[t].fetch = fetch
    /\ task'[t].got = got /\ task'[t].wrote = wrote
    /\ \A s \in Tasks \ {t} : task'[s] = task[s]

LEMMA StageMoves ==
    ASSUME TypeOK, NEW t \in Tasks, task[t] # None, NEW stage \in Stages,
           task' = [task EXCEPT ![t].stage = stage]
    PROVE  Becomes(t, stage, task[t].fetch, task[t].got, task[t].wrote)
BY NoneIsFresh DEF TypeOK, Becomes, TaskData

LEMMA GotMoves ==
    ASSUME TypeOK, NEW t \in Tasks, task[t] # None, NEW stage \in Stages,
           NEW got \in Pairs \cup Users \cup {None},
           task' = [task EXCEPT ![t].stage = stage, ![t].got = got]
    PROVE  Becomes(t, stage, task[t].fetch, got, task[t].wrote)
BY NoneIsFresh DEF TypeOK, Becomes, TaskData

LEMMA FetchMoves ==
    ASSUME TypeOK, NEW t \in Tasks, task[t] # None, NEW stage \in Stages,
           NEW fetch \in Requests,
           task' = [task EXCEPT ![t].stage = stage, ![t].fetch = fetch]
    PROVE  Becomes(t, stage, fetch, task[t].got, task[t].wrote)
BY NoneIsFresh DEF TypeOK, Becomes, TaskData

LEMMA DoneMoves ==
    ASSUME TypeOK, NEW t \in Tasks, Done(t)
    PROVE  /\ task' \in [Tasks -> TaskData \cup {None}]
           /\ task'[t] = None
           /\ \A s \in Tasks \ {t} : task'[s] = task[s]
BY DEF TypeOK, Done

\* apiFetch builds a request.
LEMMA FetchTyped ==
    ASSUME TypeOK, NEW op \in Ops \ {"refresh"}
    PROVE  Fetch(op) \in Requests
<1>1. session.pair \in Pairs \cup {None}
  BY DEF TypeOK
<1> QED
  BY <1>1 DEF Fetch, Requests

\* A click goes on with a new stage, request, reply or message stored.
LEMMA GoesOn ==
    ASSUME WebInv, NEW t \in Tasks, task[t] # None, task[t].stage # "import",
           NEW stage, NEW fetch, NEW got, NEW wrote,
           Becomes(t, stage, fetch, got, wrote), stage # "import",
           UNCHANGED <<server, page, history>>,
           TaskOK(t)', ~overlapped => AloneOK(t)'
    PROVE  WebInv'
<1>1. TypeOK'
  BY DEF WebInv, TypeOK, Becomes, server, page, history
<1> QED
  BY <1>1, TaskOnlyMoves DEF Becomes, Importing

\* A click ends and leaves the page alone.
LEMMA Stops ==
    ASSUME WebInv, NEW t \in Tasks, task[t] # None, task[t].stage # "import", Done(t),
           UNCHANGED <<server, page, history>>
    PROVE  WebInv'
<1>1. /\ task' \in [Tasks -> TaskData \cup {None}] /\ task'[t] = None
      /\ \A s \in Tasks \ {t} : task'[s] = task[s]
  BY DoneMoves DEF WebInv
<1>2. TypeOK'
  BY <1>1 DEF WebInv, TypeOK, server, page, history
<1> QED
  BY <1>1, <1>2, TaskOnlyMoves DEF Importing

\* The click a user who waits is waiting for.
LEMMA Alone ==
    ASSUME WebInv, ~overlapped, NEW t \in Tasks, task[t] # None
    PROVE  AloneOK(t)
BY DEF WebInv, SequentialOK

-----------------------------------------------------------------------------
(* Steps that leave page and server alone.                                 *)

\* The tokens verify_token accepts are good at that moment; for a user who
\* waits they are the session's, and the last good ones of the login.
LEMMA VerifyInv ==
    ASSUME WebInv, NEW t \in Tasks, Verify(t)
    PROVE  WebInv'
<1>1. /\ task[t] # None /\ task[t].stage = "flight"
      /\ UNCHANGED <<server, page, history>>
  BY DEF Verify, At
<1> DEFINE f == task[t].fetch
<1>2. PICK ok \in BOOLEAN : /\ OpOf(t) # "login" => ok = Authorised(t)
                            /\ task' = [task EXCEPT ![t].stage = IF ok THEN "verified" ELSE "401"]
  BY DEF Verify
<1> DEFINE stage == IF ok THEN "verified" ELSE "401"
<1>3. Becomes(t, stage, f, task[t].got, task[t].wrote)
  <2>1. stage \in Stages
    BY DEF Stages
  <2> QED
    BY <1>1, <1>2, <2>1, StageMoves DEF WebInv
<1>4. /\ TypeOK /\ TaskOK(t) /\ OpOf(t) \in Ops
      /\ f.token \in Pairs \cup {None} /\ f.body \in Pairs \cup {None}
      /\ OpOf(t) = "refresh" <=> f.refreshing
      /\ ~f.refreshing => OpOf(t) = f.op
  BY <1>1, TaskFacts DEF WebInv
<1>5. UNCHANGED <<pair, dead, session, storage, panel, shown, out, ended, overlapped, partial>>
  BY <1>1 DEF server, page, history
<1>6. /\ task'[t] # None /\ task'[t].stage = stage /\ task'[t].fetch = f
      /\ task'[t].kind = task[t].kind /\ task'[t].by = task[t].by
      /\ task'[t].got = task[t].got /\ task'[t].wrote = task[t].wrote
      /\ OpOf(t)' = OpOf(t)
  BY <1>3 DEF Becomes, OpOf
<1>7. stage = "verified" /\ OpOf(t) \notin Entry =>
         /\ OpOf(t) = "refresh" => Live(f.token, "refresh")
         /\ OpOf(t) = "logout" => Live(f.token, "access") /\ Live(f.body, "refresh")
         /\ f.token # None
  BY <1>2, <1>4 DEF Authorised, Live, Entry, Ops
<1>8. TaskOK(t)'
  BY <1>1, <1>4, <1>5, <1>6, <1>7
     DEF TaskOK, At, GotPair, GotList, Issued, Entry, Remote
<1>9. ASSUME ~overlapped
      PROVE  AloneOK(t)'
  <2>1. AloneOK(t) /\ ChainOK /\ LogoutEndsLogin
    BY <1>1, <1>9, Alone DEF WebInv, SequentialOK
  <2>2. \A p : OthersSpent(p)' = OthersSpent(p)
    BY <1>5 DEF OthersSpent, Issued
  <2>3. f.token # None => Issued(f.token) /\ f.token \in Pairs
    BY <1>4 DEF TaskOK, Issued
  <2>4. stage = "verified" /\ OpOf(t) = "refresh" =>
           OthersSpent(f.token) /\ pair[f.token].login \notin ended
    BY <1>7, <1>9, <2>1, <2>3 DEF ChainOK, Live, LogoutEndsLogin, Issued, Entry
  <2>5. stage = "verified" /\ OpOf(t) = "logout" => f.body = f.token /\ OthersSpent(f.token)
    <3> SUFFICES ASSUME stage = "verified", OpOf(t) = "logout"
                 PROVE  f.body = f.token /\ OthersSpent(f.token)
      OBVIOUS
    <3>1. Live(f.body, "refresh") /\ f.token # None /\ f.op = "logout"
      BY <1>4, <1>7 DEF Entry
    <3>2. f.body = f.token
      BY <2>1, <3>1 DEF AloneOK, Live
    <3> QED
      BY <2>1, <2>3, <3>1, <3>2 DEF ChainOK, Live
  <2>6. \A st, ops : At(t, st, ops)' <=> stage = st /\ OpOf(t) \in ops
    BY <1>6 DEF At
  <2> QED
    BY <1>5, <1>6, <2>1, <2>2, <2>4, <2>5, <2>6 DEF AloneOK
<1> QED
  BY <1>1, <1>3, <1>8, <1>9, GoesOn

\* A request or reply that is lost, and replies that need no more.
LEMMA LoseInv ==
    ASSUME WebInv, NEW t \in Tasks, Lose(t)
    PROVE  WebInv'
<1>1. /\ task[t] # None /\ task[t].stage \in {"flight", "verified", "ok", "401"}
      /\ task' = [task EXCEPT ![t].stage = "error", ![t].got = None]
      /\ UNCHANGED <<server, page, history>>
  BY DEF Lose, At
<1>2. Becomes(t, "error", task[t].fetch, None, task[t].wrote)
  BY <1>1, GotMoves DEF WebInv, Stages
<1>3. UNCHANGED <<pair, dead, session, storage, panel, shown, out, ended, overlapped, partial>>
  BY <1>1 DEF server, page, history
<1>4. TaskOK(t)
  BY <1>1 DEF WebInv
<1>5. /\ task'[t] # None /\ task'[t].stage = "error" /\ task'[t].fetch = task[t].fetch
      /\ task'[t].kind = task[t].kind /\ task'[t].by = task[t].by
      /\ task'[t].got = None /\ task'[t].wrote = task[t].wrote
  BY <1>2 DEF Becomes
<1>6. /\ ~GotPair(t)' /\ ~GotList(t)'
      /\ \A ops : ~At(t, "ok", ops)' /\ ~At(t, "verified", ops)'
  BY <1>5 DEF GotPair, GotList, At
<1>7. TaskOK(t)'
  BY <1>3, <1>4, <1>5, <1>6 DEF TaskOK, Remote, Issued
<1>8. ASSUME ~overlapped
      PROVE  AloneOK(t)'
  <2>1. AloneOK(t)
    BY <1>1, <1>8, Alone
  <2>2. \A p : OthersSpent(p)' = OthersSpent(p)
    BY <1>3 DEF OthersSpent, Issued
  <2> QED
    BY <1>3, <1>5, <1>6, <2>1, <2>2 DEF AloneOK
<1> QED
  BY <1>1, <1>2, <1>7, <1>8, GoesOn

\* tryRefreshToken leaves with the session's tokens.
LEMMA TryRefreshInv ==
    ASSUME WebInv, NEW t \in Tasks, TryRefresh(t)
    PROVE  WebInv'
<1> DEFINE f == task[t].fetch
           g == [f EXCEPT !.token = session.pair, !.refreshing = TRUE]
<1>1. /\ task[t] # None /\ task[t].stage = "401" /\ ~f.retried /\ session.pair # None
      /\ OpOf(t) # "refresh"
      /\ task' = [task EXCEPT ![t].stage = "flight",
                     ![t].fetch.token = session.pair, ![t].fetch.refreshing = TRUE]
      /\ UNCHANGED <<server, page, history>>
  BY DEF TryRefresh, MayRefresh, At
<1>2. TypeOK /\ TaskOK(t) /\ f \in Requests /\ ~f.refreshing /\ Issued(session.pair)
      /\ session.pair \in Pairs
  BY <1>1, TaskFacts DEF WebInv, PairsOK, Issued
<1>3. g \in Requests /\ g.op = f.op /\ g.token = session.pair /\ g.body = f.body
      /\ g.retried = f.retried /\ g.refreshing = TRUE
  BY <1>2 DEF Requests
<1>4. Becomes(t, "flight", g, task[t].got, task[t].wrote)
  <2>1. task[t] \in TaskData
    BY <1>1, <1>2, TaskFacts
  <2>2. /\ task'[t].fetch = g /\ task'[t].stage = "flight"
        /\ task'[t].kind = task[t].kind /\ task'[t].by = task[t].by
        /\ task'[t].got = task[t].got /\ task'[t].wrote = task[t].wrote
        /\ \A s \in Tasks \ {t} : task'[s] = task[s]
    BY <1>1, <1>2, <2>1 DEF TypeOK, TaskData
  <2>3. task'[t] \in TaskData
    BY <1>1, <1>2, <1>3, <2>1 DEF TypeOK, TaskData, Stages
  <2>4. task' \in [Tasks -> TaskData \cup {None}]
    BY <1>1, <1>2, <2>2, <2>3 DEF TypeOK
  <2> QED
    BY <2>2, <2>3, <2>4, NoneIsFresh DEF Becomes
<1>5. UNCHANGED <<pair, dead, session, storage, panel, shown, out, ended, overlapped, partial>>
  BY <1>1 DEF server, page, history
<1>6. TaskOK(t)'
  BY <1>1, <1>2, <1>3, <1>4, <1>5
     DEF TaskOK, Becomes, At, OpOf, GotPair, GotList, Issued, Entry, Remote
<1>7. ASSUME ~overlapped
      PROVE  AloneOK(t)'
  <2>1. AloneOK(t)
    BY <1>1, <1>7, Alone
  <2>2. f.op = "logout" => task[t].kind \notin Entry
    BY <1>2 DEF TaskOK, FlowOps, Entry, AllKinds
  <2>3. \A ops : ~At(t, "ok", ops)' /\ ~At(t, "verified", ops)'
    BY <1>4 DEF At, Becomes
  <2> QED
    BY <1>1, <1>2, <1>3, <1>4, <1>5, <2>1, <2>2, <2>3 DEF AloneOK, Becomes
<1> QED
  BY <1>1, <1>4, <1>6, <1>7, GoesOn

\* The kinds that make each kind of request.
LEMMA FlowFacts ==
    ASSUME WebInv, NEW t \in Tasks, task[t] # None
    PROVE  /\ task[t].kind \in AllKinds
           /\ task[t].fetch.op \in Entry <=> task[t].kind \in Entry
           /\ task[t].fetch.op \in {"lookup", "post"} => task[t].kind \in {"send", "forward"}
           /\ task[t].fetch.op = "remove" => task[t].kind = "delete"
           /\ task[t].fetch.op = "logout" <=> task[t].kind = "logout"
<1>1. task[t].kind \in AllKinds /\ task[t].fetch.op \in FlowOps(task[t].kind)
  BY TaskFacts DEF WebInv, TaskOK
<1> QED
  BY <1>1 DEF FlowOps, AllKinds, Entry

\* The reply is used after another await: the key is decrypted, the list
\* opened, the message sealed.
LEMMA AwaitInv ==
    ASSUME WebInv, NEW t \in Tasks, LoggedIn(t) \/ Listed(t) \/ LookedUp(t) \/ Sent(t)
    PROVE  WebInv'
<1>1. /\ task[t] # None /\ task[t].stage = "ok" /\ UNCHANGED <<server, page, history>>
  BY DEF LoggedIn, Listed, LookedUp, Sent, At
<1> DEFINE f == task[t].fetch
<1>2. UNCHANGED <<pair, dead, session, storage, panel, shown, out, ended, overlapped, partial>>
  BY <1>1 DEF server, page, history
<1>3. /\ TypeOK /\ TaskOK(t)
      /\ OpOf(t) = "refresh" <=> f.refreshing
      /\ ~f.refreshing => OpOf(t) = f.op
  BY <1>1, TaskFacts DEF WebInv
<1>4. ASSUME NEW stage \in {"decrypt", "opening", "sealing"},
             task' = [task EXCEPT ![t].stage = stage],
             OpOf(t) # "refresh",
             stage = "decrypt" => OpOf(t) \in Entry,
             stage = "opening" => OpOf(t) = "list",
             stage = "sealing" => OpOf(t) = "lookup"
      PROVE  WebInv'
  <2>1. Becomes(t, stage, f, task[t].got, task[t].wrote)
    <3>1. stage \in Stages
      BY DEF Stages
    <3> QED
      BY <1>1, <1>3, <1>4, <3>1, StageMoves
  <2>2. /\ task'[t] # None /\ task'[t].stage = stage /\ task'[t].fetch = f
        /\ task'[t].kind = task[t].kind /\ task'[t].by = task[t].by
        /\ task'[t].got = task[t].got /\ task'[t].wrote = task[t].wrote
    BY <2>1 DEF Becomes
  <2>3. /\ \A ops : ~At(t, "ok", ops)' /\ ~At(t, "verified", ops)'
        /\ GotPair(t)' => stage = "decrypt"
        /\ GotList(t)' => stage = "opening"
    BY <2>2 DEF At, GotPair, GotList
  <2>4. ~f.refreshing /\ OpOf(t) = f.op
    BY <1>3, <1>4
  <2>5. stage = "decrypt" => Issued(task[t].got) /\ pair[task[t].got].user = task[t].by
    BY <1>1, <1>3, <1>4, <2>4 DEF TaskOK, GotPair, At
  <2>6. stage = "opening" => f.token # None /\ task[t].got = pair[f.token].user
    BY <1>1, <1>3, <1>4 DEF TaskOK, GotList, At
  <2>7. task[t].wrote = << >>
    BY <1>1, <1>3, <1>4, <2>4 DEF TaskOK, Entry
  <2>8. TaskOK(t)'
    BY <1>2, <1>3, <1>4, <2>2, <2>3, <2>4, <2>5, <2>6, <2>7 DEF TaskOK, Issued
  <2>9. ASSUME ~overlapped
        PROVE  AloneOK(t)'
    <3>1. AloneOK(t)
      BY <1>1, <2>9, Alone
    <3> QED
      BY <1>2, <2>2, <2>3, <3>1 DEF AloneOK
  <2> QED
    BY <1>1, <2>1, <2>8, <2>9, GoesOn
<1>5. CASE LoggedIn(t)
  BY <1>4, <1>5 DEF LoggedIn, At, Entry
<1>6. CASE Listed(t)
  BY <1>4, <1>6 DEF Listed, At
<1>7. CASE LookedUp(t)
  <2>1. CASE session.key = None
    BY <1>1, <1>7, <2>1, Stops DEF LookedUp
  <2>2. CASE session.key # None
    BY <1>4, <1>7, <2>2 DEF LookedUp, At
  <2> QED
    BY <2>1, <2>2
<1>8. CASE Sent(t)
  BY <1>1, <1>8, Stops DEF Sent
<1> QED
  BY <1>5, <1>6, <1>7, <1>8

\* The handler's next request leaves with the session's tokens.
LEMMA ContinueInv ==
    ASSUME WebInv, NEW t \in Tasks, Continue(t)
    PROVE  WebInv'
<1>1. PICK op \in {"post", "list"} :
         /\ task[t] # None /\ task[t].stage = (IF op = "post" THEN "sealing" ELSE "ok")
         /\ op = "list" => OpOf(t) = "remove"
         /\ task' = [task EXCEPT ![t].stage = "flight", ![t].fetch = Fetch(op)]
         /\ UNCHANGED <<server, page, history>>
  BY DEF Continue, At
<1>2. UNCHANGED <<pair, dead, session, storage, panel, shown, out, ended, overlapped, partial>>
  BY <1>1 DEF server, page, history
<1>3. /\ TypeOK /\ TaskOK(t) /\ PairsOK
      /\ OpOf(t) = "refresh" <=> task[t].fetch.refreshing
      /\ ~task[t].fetch.refreshing => OpOf(t) = task[t].fetch.op
  BY <1>1, TaskFacts DEF WebInv
<1>4. Becomes(t, "flight", Fetch(op), task[t].got, task[t].wrote)
  <2>1. Fetch(op) \in Requests /\ "flight" \in Stages
    BY <1>3, FetchTyped DEF Ops, Stages
  <2> QED
    BY <1>1, <1>3, <2>1, FetchMoves
<1>5. /\ Fetch(op).op = op /\ Fetch(op).token = session.pair
      /\ Fetch(op).refreshing = FALSE /\ Fetch(op).body = None
  BY DEF Fetch
<1>6. /\ task'[t] # None /\ task'[t].stage = "flight" /\ task'[t].fetch = Fetch(op)
      /\ task'[t].kind = task[t].kind /\ task'[t].by = task[t].by
      /\ task'[t].wrote = task[t].wrote
  BY <1>4 DEF Becomes
<1>7. /\ ~task[t].fetch.refreshing
      /\ task[t].fetch.op = (IF op = "post" THEN "lookup" ELSE "remove")
  BY <1>1, <1>3 DEF TaskOK, Remote
<1>8. op \in FlowOps(task[t].kind) /\ task[t].kind \notin Entry
  BY <1>1, <1>7, FlowFacts DEF FlowOps, Entry
<1>9. task[t].wrote = << >>
  BY <1>3, <1>7 DEF TaskOK
<1>10. /\ \A ops : ~At(t, "ok", ops)' /\ ~At(t, "verified", ops)'
       /\ ~GotPair(t)' /\ ~GotList(t)'
  BY <1>6 DEF At, GotPair, GotList
<1>11. TaskOK(t)'
  BY <1>2, <1>3, <1>5, <1>6, <1>8, <1>9, <1>10 DEF TaskOK, PairsOK, Issued
<1>12. ASSUME ~overlapped
       PROVE  AloneOK(t)'
  <2>1. AloneOK(t)
    BY <1>1, <1>12, Alone
  <2> QED
    BY <1>2, <1>5, <1>6, <1>8, <1>10, <2>1 DEF AloneOK
<1> QED
  BY <1>1, <1>4, <1>11, <1>12, GoesOn

-----------------------------------------------------------------------------
(* The server.                                                             *)

\* A step of the server for t keeps what the page depends on, if a pair it
\* makes either starts a login or succeeds the last good one.
LEMMA ServerStep ==
    ASSUME WebInv, NEW t \in Tasks, task[t] # None, task[t].stage # "import",
           NEW stage, NEW fetch, NEW got, NEW wrote,
           Becomes(t, stage, fetch, got, wrote), stage # "import",
           UNCHANGED <<page, history>>, Grows,
           pair' \in [Pairs -> [user : Users, login : Pairs] \cup {None}],
           dead' \subseteq Pairs \X {"access", "refresh"},
           \A p \in Pairs : Issued(p)' => Issued(pair[p].login)',
           TaskOK(t)',
           ~overlapped => AloneOK(t)' /\ ChainOK' /\ LogoutEndsLogin'
    PROVE  WebInv'
<1>1. UNCHANGED <<session, storage, panel, shown, out, ended, overlapped, partial>>
  BY DEF page, history
<1>2. TypeOK'
  BY <1>1 DEF WebInv, TypeOK, Becomes
<1>3. \A p : Issued(p) => Issued(p)' /\ pair'[p] = pair[p]
  BY IssuedStays
<1>4. PairsOK'
  BY <1>1, <1>3 DEF WebInv, PairsOK
<1>5. EndedOK'
  BY <1>1 DEF WebInv, EndedOK, LogoutSurvivesReload, Importing, Becomes
<1>6. ~overlapped => Cleared' /\ StoredOK' /\ PageOK'
  BY <1>1, <1>3 DEF WebInv, SequentialOK, Cleared, StoredOK, PageOK, Anonymous, PairsOK
<1>7. LogoutEndsLogin'
  BY <1>1 DEF LogoutEndsLogin
<1>8. OneIdentity'
  <2>1. ~overlapped => \A s \in Tasks : ~Importing(s)
    BY DEF Importing, WebInv, SequentialOK
  <2> QED
    BY <1>1, <1>3, <2>1 DEF WebInv, OneIdentity, PairsOK
<1> QED
  BY <1>1, <1>2, <1>4, <1>5, <1>6, <1>7, <1>8, OneTaskMoves DEF Becomes

\* create_tokens makes the pair p, and t gets it.
Made(t, p, u, l) ==
    /\ pair[p] = None
    /\ pair' \in [Pairs -> [user : Users, login : Pairs] \cup {None}]
    /\ Issued(p)' /\ pair'[p] = [user |-> u, login |-> l]
    /\ \A q \in Pairs \ {p} : pair'[q] = pair[q]
    /\ \A q \in Pairs : Issued(q)' => Issued(pair[q].login)'
    /\ Becomes(t, "ok", task[t].fetch, p, task[t].wrote)

\* Issue takes a pair nobody has and names its login.
LEMMA Issues ==
    ASSUME WebInv, NEW t \in Tasks, task[t] # None, NEW u \in Users,
           NEW login \in Pairs \cup {None}, login # None => Issued(login),
           Issue(t, u, login)
    PROVE  \E p \in Pairs : Made(t, p, u, IF login = None THEN p ELSE login)
<1> DEFINE l(p) == IF login = None THEN p ELSE login
<1>1. PICK p \in Pairs :
         /\ pair[p] = None
         /\ pair' = [pair EXCEPT ![p] = [user |-> u, login |-> l(p)]]
         /\ task' = [task EXCEPT ![t].stage = "ok", ![t].got = p]
  BY DEF Issue
<1>2. TypeOK /\ PairsOK
  BY DEF WebInv
<1>3. l(p) \in Pairs /\ [user |-> u, login |-> l(p)] # None
  BY NoneIsFresh
<1>4. /\ pair' \in [Pairs -> [user : Users, login : Pairs] \cup {None}]
      /\ pair'[p] = [user |-> u, login |-> l(p)]
      /\ \A q \in Pairs \ {p} : pair'[q] = pair[q]
  BY <1>1, <1>2, <1>3 DEF TypeOK
<1>5. Issued(p)' /\ \A q : Issued(q) => pair'[q] = pair[q] /\ Issued(q)'
  BY <1>1, <1>3, <1>4 DEF Issued
<1>6. \A q \in Pairs : Issued(q)' => Issued(pair[q].login)'
  <2> SUFFICES ASSUME NEW q \in Pairs, Issued(q)'
               PROVE  Issued(pair[q].login)'
    OBVIOUS
  <2>1. CASE q = p
    <3>1. Issued(l(p))'
      BY <1>5
    <3> QED
      BY <1>4, <2>1, <3>1
  <2>2. CASE q # p
    <3>1. Issued(q) /\ pair'[q] = pair[q]
      BY <1>4, <2>2 DEF Issued
    <3>2. Issued(pair[q].login)
      BY <1>2, <3>1 DEF PairsOK
    <3>3. Issued(pair[q].login)'
      BY <1>5, <3>1, <3>2
    <3> QED
      BY <3>3
  <2> QED
    BY <2>1, <2>2
<1>7. Becomes(t, "ok", task[t].fetch, p, task[t].wrote)
  <2>1. "ok" \in Stages
    BY DEF Stages
  <2> QED
    BY <1>1, <1>2, <2>1, GotMoves
<1>8. Made(t, p, u, l(p))
  BY <1>1, <1>4, <1>5, <1>6, <1>7 DEF Made
<1> QED
  BY <1>8

\* A pair that starts a login, or takes over from one that is spent, leaves
\* one good refresh token per login, and none of an ended one.
LEMMA NewPair ==
    ASSUME WebInv, ~overlapped, NEW p \in Pairs, NEW u, NEW l \in Pairs,
           pair[p] = None, pair'[p] = [user |-> u, login |-> l],
           \A q \in Pairs \ {p} : pair'[q] = pair[q],
           dead \subseteq dead', l \notin ended, UNCHANGED <<ended, overlapped, partial>>,
           \A q \in Pairs : Issued(q) /\ pair[q].login = l => <<q, "refresh">> \in dead'
    PROVE  ChainOK' /\ LogoutEndsLogin'
<1>1. ChainOK /\ LogoutEndsLogin
  BY DEF WebInv, SequentialOK
<1>2. ChainOK'
  <2> SUFFICES ASSUME NEW q \in Pairs, Issued(q)', <<q, "refresh">> \notin dead',
                      NEW r \in Pairs, Issued(r)', r # q, pair'[r].login = pair'[q].login
               PROVE  <<r, "refresh">> \in dead'
    BY DEF ChainOK, OthersSpent
  <2>1. CASE q = p
    BY <2>1 DEF Issued
  <2>2. CASE r = p
    BY <2>2 DEF Issued
  <2>3. CASE q # p /\ r # p
    BY <1>1, <2>3 DEF ChainOK, OthersSpent, Issued
  <2> QED
    BY <2>1, <2>2, <2>3
<1>3. LogoutEndsLogin'
  BY <1>1 DEF LogoutEndsLogin
<1> QED
  BY <1>2, <1>3

\* A login makes a pair that descends from nothing.
LEMMA ServeLoginInv ==
    ASSUME WebInv, NEW t \in Tasks, ServeLogin(t)
    PROVE  WebInv'
<1> DEFINE f == task[t].fetch
<1>1. /\ task[t] # None /\ task[t].stage = "verified" /\ OpOf(t) \in Entry
      /\ Issue(t, task[t].by, None) /\ UNCHANGED <<dead, page, history>>
  BY DEF ServeLogin, At, Entry
<1>2. /\ TypeOK /\ TaskOK(t) /\ PairsOK /\ ~f.refreshing /\ f.op \in Entry
      /\ task[t].by \in Users \cup {None}
  BY <1>1, TaskFacts DEF WebInv, Entry
<1>3. task[t].kind \in Entry /\ task[t].by \in Users
  BY <1>1, <1>2, FlowFacts DEF TaskOK
<1>4. PICK p \in Pairs : Made(t, p, task[t].by, p)
  BY <1>1, <1>3, Issues
<1>made. /\ pair[p] = None
         /\ pair' \in [Pairs -> [user : Users, login : Pairs] \cup {None}]
         /\ Issued(p)' /\ pair'[p] = [user |-> task[t].by, login |-> p]
         /\ \A q \in Pairs \ {p} : pair'[q] = pair[q]
         /\ \A q \in Pairs : Issued(q)' => Issued(pair[q].login)'
         /\ Becomes(t, "ok", f, p, task[t].wrote)
  BY <1>4 DEF Made
<1>5. Grows /\ UNCHANGED <<dead, session, storage, panel, shown, out, ended, overlapped, partial>>
  BY <1>1, <1>made DEF Grows, Issued, page, history
<1>6. /\ task'[t] # None /\ task'[t].stage = "ok" /\ task'[t].fetch = f
      /\ task'[t].kind = task[t].kind /\ task'[t].by = task[t].by
      /\ task'[t].got = p /\ task'[t].wrote = task[t].wrote
  BY <1>made DEF Becomes
<1>7. /\ \A ops : At(t, "ok", ops)' <=> f.op \in ops
      /\ \A ops : ~At(t, "verified", ops)'
      /\ ~GotList(t)'
  BY <1>2, <1>6 DEF At, OpOf, GotList, Entry
<1>8. TaskOK(t)'
  <2>1. task[t].wrote = << >>
    BY <1>1, <1>2 DEF TaskOK
  <2>2. \A q : Issued(q) => Issued(q)'
    BY <1>5, IssuedStays
  <2>3. pair'[p].user = task[t].by
    BY <1>made
  <2> QED
    BY <1>2, <1>3, <1>made, <1>6, <1>7, <2>1, <2>2, <2>3 DEF TaskOK, Entry
<1>9. ASSUME ~overlapped
      PROVE  AloneOK(t)' /\ ChainOK' /\ LogoutEndsLogin'
  <2>1. AloneOK(t)
    BY <1>1, <1>9, Alone
  <2>2. AloneOK(t)'
    BY <1>2, <1>3, <1>5, <1>6, <1>7, <2>1 DEF AloneOK, Entry
  <2>3. \A q \in Pairs : Issued(q) => pair[q].login # p
    BY <1>2, <1>made DEF PairsOK, Issued
  <2>4. p \notin ended
    BY <1>2, <1>made DEF PairsOK, Issued
  <2>6. ChainOK' /\ LogoutEndsLogin'
    BY <1>made, <1>5, <1>9, <2>3, <2>4, NewPair DEF Grows
  <2> QED
    BY <2>2, <2>6
<1>10. dead' \subseteq Pairs \X {"access", "refresh"}
  BY <1>2, <1>5 DEF TypeOK
<1> QED
  BY <1>1, <1>made, <1>5, <1>8, <1>9, <1>10, ServerStep

\* A refresh spends the token it came with: for a user who waits the last
\* good one of a login that has not ended.
LEMMA ServeRefreshInv ==
    ASSUME WebInv, NEW t \in Tasks, ServeRefresh(t)
    PROVE  WebInv'
<1> DEFINE f == task[t].fetch
           old == f.token
<1>1. /\ task[t] # None /\ task[t].stage = "verified" /\ OpOf(t) = "refresh"
      /\ dead' = dead \cup {<<old, "refresh">>}
      /\ Issue(t, pair[old].user, pair[old].login) /\ UNCHANGED <<page, history>>
  BY DEF ServeRefresh, At
<1>2. TypeOK /\ TaskOK(t) /\ PairsOK /\ f.refreshing
  BY <1>1, TaskFacts DEF WebInv
<1>3. Issued(old) /\ old \in Pairs /\ old # None
  BY <1>1, <1>2 DEF TaskOK, At, Ops, Entry, Issued
<1>4. /\ pair[old].user \in Users /\ pair[old].login \in Pairs
      /\ Issued(pair[old].login) /\ pair[old].login # None
  BY <1>2, <1>3, IssuedData, WebAssumptions DEF PairsOK
<1>5. PICK p \in Pairs : Made(t, p, pair[old].user, pair[old].login)
  BY <1>1, <1>4, Issues
<1>made. /\ pair[p] = None
         /\ pair' \in [Pairs -> [user : Users, login : Pairs] \cup {None}]
         /\ Issued(p)' /\ pair'[p] = [user |-> pair[old].user, login |-> pair[old].login]
         /\ \A q \in Pairs \ {p} : pair'[q] = pair[q]
         /\ \A q \in Pairs : Issued(q)' => Issued(pair[q].login)'
         /\ Becomes(t, "ok", f, p, task[t].wrote)
  BY <1>5 DEF Made
<1>6. Grows /\ UNCHANGED <<session, storage, panel, shown, out, ended, overlapped, partial>>
  BY <1>1, <1>made DEF Grows, Issued, page, history
<1>7. /\ task'[t] # None /\ task'[t].stage = "ok" /\ task'[t].fetch = f
      /\ task'[t].kind = task[t].kind /\ task'[t].by = task[t].by
      /\ task'[t].got = p /\ task'[t].wrote = task[t].wrote
  BY <1>made DEF Becomes
<1>8. /\ \A ops : At(t, "ok", ops)' <=> "refresh" \in ops
      /\ \A ops : ~At(t, "verified", ops)'
      /\ ~GotList(t)'
  BY <1>2, <1>7 DEF At, OpOf, GotList
<1>9. TaskOK(t)'
  <2>1. task[t].wrote = << >>
    BY <1>2 DEF TaskOK
  <2>2. \A q : Issued(q) => Issued(q)' /\ pair'[q] = pair[q]
    BY <1>6, IssuedStays
  <2>3. pair'[p].user = pair'[old].user /\ <<old, "refresh">> \in dead'
    BY <1>1, <1>3, <1>made, <2>2
  <2> QED
    BY <1>2, <1>3, <1>made, <1>7, <1>8, <2>1, <2>2, <2>3 DEF TaskOK, Entry, Remote
<1>10. ASSUME ~overlapped
       PROVE  AloneOK(t)' /\ ChainOK' /\ LogoutEndsLogin'
  <2>1. AloneOK(t)
    BY <1>1, <1>10, Alone
  <2>2. AloneOK(t)'
    BY <1>6, <1>7, <1>8, <2>1 DEF AloneOK, Grows
  <2>3. OthersSpent(old) /\ pair[old].login \notin ended
    BY <1>1, <2>1 DEF AloneOK, At
  <2>4. \A q \in Pairs : Issued(q) /\ pair[q].login = pair[old].login =>
           <<q, "refresh">> \in dead'
    BY <1>1, <2>3 DEF OthersSpent
  <2>5. ChainOK' /\ LogoutEndsLogin'
    BY <1>4, <1>made, <1>6, <1>10, <2>3, <2>4, NewPair DEF Grows
  <2> QED
    BY <2>2, <2>5
<1>11. dead' \subseteq Pairs \X {"access", "refresh"}
  BY <1>1, <1>2, <1>3 DEF TypeOK
<1> QED
  BY <1>1, <1>made, <1>6, <1>9, <1>10, <1>11, ServerStep

\* Revocations alone keep a login at one good refresh token.
LEMMA DeadGrows ==
    ASSUME WebInv, ~overlapped, pair' = pair, dead \subseteq dead', ended' = ended
    PROVE  ChainOK' /\ LogoutEndsLogin'
<1>1. ChainOK /\ LogoutEndsLogin
  BY DEF WebInv, SequentialOK
<1>2. ChainOK'
  BY <1>1 DEF ChainOK, OthersSpent, Issued
<1>3. LogoutEndsLogin'
  BY <1>1 DEF LogoutEndsLogin
<1> QED
  BY <1>2, <1>3

\* A logout revokes both tokens; for a user who waits they are one pair's.
LEMMA ServeLogoutInv ==
    ASSUME WebInv, NEW t \in Tasks, ServeLogout(t)
    PROVE  WebInv'
<1> DEFINE f == task[t].fetch
<1>1. /\ task[t] # None /\ task[t].stage = "verified" /\ OpOf(t) = "logout"
      /\ dead' = dead \cup {<<f.token, "access">>, <<f.body, "refresh">>}
      /\ task' = [task EXCEPT ![t].stage = "ok"]
      /\ UNCHANGED <<pair, page, history>>
  BY DEF ServeLogout, At
<1>2. TypeOK /\ TaskOK(t) /\ PairsOK /\ ~f.refreshing /\ f.op = "logout"
  BY <1>1, TaskFacts DEF WebInv
<1>3. /\ f.token # None /\ f.body # None /\ f.token \in Pairs /\ f.body \in Pairs
  BY <1>1, <1>2 DEF TaskOK, At, Ops, Entry, Issued
<1>4. Becomes(t, "ok", f, task[t].got, task[t].wrote)
  <2>1. "ok" \in Stages
    BY DEF Stages
  <2> QED
    BY <1>1, <1>2, <2>1, StageMoves
<1>5. /\ Grows /\ UNCHANGED <<session, storage, panel, shown, out, ended, overlapped, partial>>
      /\ \A p : Issued(p)' = Issued(p)
  BY <1>1 DEF Grows, Issued, page, history
<1>6. /\ task'[t] # None /\ task'[t].stage = "ok" /\ task'[t].fetch = f
      /\ task'[t].kind = task[t].kind /\ task'[t].by = task[t].by
      /\ task'[t].wrote = task[t].wrote
  BY <1>4 DEF Becomes
<1>7. /\ \A ops : At(t, "ok", ops)' <=> "logout" \in ops
      /\ \A ops : ~At(t, "verified", ops)'
      /\ ~GotList(t)' /\ ~GotPair(t)'
  BY <1>2, <1>6 DEF At, OpOf, GotList, GotPair, Entry
<1>8. TaskOK(t)'
  <2>1. task[t].wrote = << >>
    BY <1>2 DEF TaskOK
  <2> QED
    BY <1>2, <1>3, <1>5, <1>6, <1>7, <2>1 DEF TaskOK
<1>9. ASSUME ~overlapped
      PROVE  AloneOK(t)' /\ ChainOK' /\ LogoutEndsLogin'
  <2>1. AloneOK(t)
    BY <1>1, <1>9, Alone
  <2>2. OthersSpent(f.token) /\ f.body = f.token
    BY <1>1, <2>1 DEF AloneOK, At
  <2>3. OthersSpent(f.token)' /\ <<f.token, "refresh">> \in dead'
    BY <1>1, <1>5, <2>2 DEF OthersSpent, Issued
  <2>4. AloneOK(t)'
    BY <1>3, <1>5, <1>6, <1>7, <2>1, <2>3 DEF AloneOK, Grows
  <2>5. ChainOK' /\ LogoutEndsLogin'
    BY <1>1, <1>5, <1>9, DeadGrows DEF Grows
  <2> QED
    BY <2>4, <2>5
<1>10. dead' \subseteq Pairs \X {"access", "refresh"}
  BY <1>1, <1>2, <1>3 DEF TypeOK
<1>11. /\ pair' \in [Pairs -> [user : Users, login : Pairs] \cup {None}]
       /\ \A p \in Pairs : Issued(p)' => Issued(pair[p].login)'
  BY <1>1, <1>2, <1>5 DEF TypeOK, PairsOK
<1> QED
  BY <1>1, <1>4, <1>5, <1>8, <1>9, <1>10, <1>11, ServerStep

\* The message endpoints answer for the user of the token.
LEMMA ServeMessagesInv ==
    ASSUME WebInv, NEW t \in Tasks, ServeMessages(t)
    PROVE  WebInv'
<1> DEFINE f == task[t].fetch
           u == pair[f.token].user
           got == IF f.op = "list" THEN u ELSE None
           wrote == IF f.op = "post" THEN Append(task[t].wrote, u) ELSE task[t].wrote
<1>1. /\ task[t] # None /\ task[t].stage = "verified"
      /\ OpOf(t) \in {"lookup", "post", "list", "remove"}
      /\ task' = [task EXCEPT
            ![t].stage = "ok",
            ![t].got = IF task[t].fetch.op = "list" THEN u ELSE None,
            ![t].wrote = IF task[t].fetch.op = "post" THEN Append(@, u) ELSE @]
      /\ UNCHANGED <<server, page, history>>
  BY DEF ServeMessages, At
<1>2. /\ TypeOK /\ TaskOK(t) /\ ~f.refreshing /\ f.op = OpOf(t)
      /\ task[t] \in TaskData /\ task[t].wrote \in Seq(Users)
  BY <1>1, TaskFacts DEF WebInv
<1>3. Issued(f.token) /\ f.token # None /\ u \in Users
  <2>1. Issued(f.token) /\ f.token # None
    BY <1>1, <1>2 DEF TaskOK, At, Ops, Entry
  <2>2. f.token \in Pairs
    BY <2>1 DEF Issued
  <2> QED
    BY <1>2, <2>1, <2>2, IssuedData
<1>4. task[t].wrote = << >>
  BY <1>1, <1>2 DEF TaskOK
<1>5. Becomes(t, "ok", f, got, wrote)
  <2>1. /\ task'[t].fetch = f /\ task'[t].stage = "ok"
        /\ task'[t].kind = task[t].kind /\ task'[t].by = task[t].by
        /\ task'[t].got = got /\ task'[t].wrote = wrote
        /\ \A s \in Tasks \ {t} : task'[s] = task[s]
    BY <1>1, <1>2 DEF TypeOK, TaskData
  <2>2. wrote \in Seq(Users) /\ got \in Pairs \cup Users \cup {None}
    BY <1>2, <1>3
  <2>3. task'[t] \in TaskData
    BY <1>1, <1>2, <2>2 DEF TypeOK, TaskData, Stages
  <2>4. task' \in [Tasks -> TaskData \cup {None}]
    BY <1>1, <1>2, <2>1, <2>3 DEF TypeOK
  <2> QED
    BY <2>1, <2>3, <2>4, NoneIsFresh DEF Becomes
<1>6. UNCHANGED <<pair, dead, session, storage, panel, shown, out, ended, overlapped, partial>>
  BY <1>1 DEF server, page, history
<1>7. /\ task'[t] # None /\ task'[t].stage = "ok" /\ task'[t].fetch = f
      /\ task'[t].kind = task[t].kind /\ task'[t].by = task[t].by
      /\ task'[t].got = got /\ task'[t].wrote = wrote
  BY <1>5 DEF Becomes
<1>8. /\ \A ops : At(t, "ok", ops)' <=> f.op \in ops
      /\ \A ops : ~At(t, "verified", ops)'
      /\ GotList(t)' => f.op = "list"
      /\ ~GotPair(t)'
  BY <1>1, <1>2, <1>7 DEF At, OpOf, GotList, GotPair, Entry
<1>9. TaskOK(t)'
  <2>1. wrote = << >> \/ (Len(wrote) = 1 /\ f.op = "post")
    BY <1>3, <1>4
  <2>2. GotList(t)' => got = u
    BY <1>8
  <2>3. f.op \notin {"refresh"}
    BY <1>1, <1>2
  <2> QED
    BY <1>2, <1>3, <1>6, <1>7, <1>8, <2>1, <2>2, <2>3 DEF TaskOK, Issued, Entry
<1>10. ASSUME ~overlapped
       PROVE  AloneOK(t)'
  <2>1. AloneOK(t)
    BY <1>1, <1>10, Alone
  <2> QED
    BY <1>1, <1>2, <1>6, <1>7, <1>8, <2>1 DEF AloneOK
<1> QED
  BY <1>1, <1>5, <1>9, <1>10, GoesOn

\* Tokens expire; nobody is told.
LEMMA ExpireInv ==
    ASSUME WebInv, NEW p \in Pairs, NEW type \in {"access", "refresh"}, Expire(p, type)
    PROVE  WebInv'
<1>1. /\ dead' = dead \cup {<<p, type>>}
      /\ UNCHANGED <<pair, task, session, storage, panel, shown, out, ended, overlapped, partial>>
  BY DEF Expire, page, history
<1>2. TypeOK'
  BY <1>1 DEF WebInv, TypeOK
<1>3. Grows /\ PairsOK' /\ EndedOK' /\ OneIdentity'
  <2>1. \A t, ops, stage : At(t, stage, ops)' = At(t, stage, ops)
    BY <1>1 DEF At, OpOf
  <2> QED
    BY <1>1, <2>1 DEF Grows, PairsOK, WebInv, EndedOK, LogoutSurvivesReload, Importing, Issued, OneIdentity
<1>4. \A t \in Tasks : task'[t] # None => TaskOK(t)'
  BY <1>1, <1>3, TaskStays DEF WebInv
<1>5. ASSUME ~overlapped
      PROVE  ChainOK' /\ LogoutEndsLogin'
  BY <1>1, <1>5, DeadGrows
<1>6. SequentialOK'
  <2> SUFFICES ASSUME ~overlapped
               PROVE  /\ \A s, t \in Tasks : task[s] # None /\ task[t] # None => s = t
                      /\ \A t \in Tasks : task[t] # None => AloneOK(t)'
                      /\ Cleared /\ StoredOK /\ PageOK
    BY <1>1, <1>5 DEF SequentialOK, Cleared, StoredOK, PageOK, Anonymous
  <2>1. \A q : OthersSpent(q) => OthersSpent(q)'
    BY <1>1 DEF OthersSpent, Issued
  <2>2. \A t \in Tasks : task[t] # None => AloneOK(t)'
    <3> SUFFICES ASSUME NEW t \in Tasks, task[t] # None
                 PROVE  AloneOK(t)'
      OBVIOUS
    <3>1. AloneOK(t)
      BY Alone
    <3>2. \A stage, ops : At(t, stage, ops)' = At(t, stage, ops)
      BY <1>1 DEF At, OpOf
    <3> QED
      BY <1>1, <2>1, <3>1, <3>2 DEF AloneOK
  <2> QED
    BY <2>2 DEF WebInv, SequentialOK
<1>7. LogoutEndsLogin'
  BY <1>1, <1>5 DEF LogoutEndsLogin
<1> QED
  BY <1>2, <1>3, <1>4, <1>6, <1>7 DEF WebInv

-----------------------------------------------------------------------------
(* Turns that change the page.                                             *)

\* clearSession, with the login form shown or not: nothing is left to mix up.
LEMMA SessionEnds ==
    ASSUME WebInv, NEW t \in Tasks, task[t] # None, ClearSession,
           SwitchToAuth \/ UNCHANGED <<panel, shown>>, Done(t),
           UNCHANGED <<server, overlapped>>,
           \A p \in ended' : Issued(p), LogoutEndsLogin'
    PROVE  WebInv'
<1>1. /\ session' = Anonymous /\ storage' = None /\ partial' = FALSE
      /\ out' = IF \E s \in Tasks : Importing(s) THEN "torn" ELSE "out"
      /\ UNCHANGED <<pair, dead, overlapped>>
  BY DEF ClearSession, server
<1>2. /\ task' \in [Tasks -> TaskData \cup {None}] /\ task'[t] = None
      /\ \A s \in Tasks \ {t} : task'[s] = task[s]
  BY DoneMoves DEF WebInv
<1>3. TypeOK'
  <2>1. panel' \in {"auth", "app"} /\ shown' \in Users \cup {None}
    BY DEF WebInv, TypeOK, SwitchToAuth
  <2>2. ended' \subseteq Pairs
    BY DEF Issued
  <2> QED
    BY <1>1, <1>2, <2>1, <2>2 DEF WebInv, TypeOK, Anonymous
<1>4. /\ Grows /\ PairsOK' /\ EndedOK'
  BY <1>1, <1>2 DEF Grows, PairsOK, WebInv, EndedOK, LogoutSurvivesReload, Importing, Issued, Anonymous
<1>5. ~overlapped => Cleared' /\ StoredOK' /\ PageOK' /\ ChainOK'
  <2>1. ~overlapped => ChainOK'
    BY <1>1 DEF WebInv, SequentialOK, ChainOK, OthersSpent, Issued
  <2>2. ~overlapped => PageOK'
    BY <1>1 DEF WebInv, SequentialOK, PageOK, Anonymous, SwitchToAuth
  <2> QED
    BY <1>1, <2>1, <2>2 DEF Cleared, StoredOK, Anonymous
<1>6. OneIdentity'
  BY <1>1 DEF OneIdentity, Anonymous
<1> QED
  BY <1>1, <1>2, <1>3, <1>4, <1>5, <1>6, OneTaskMoves

\* A refused refresh ends the session.
LEMMA RefreshRefusedInv ==
    ASSUME WebInv, NEW t \in Tasks, RefreshRefused(t)
    PROVE  WebInv'
<1>1. /\ task[t] # None /\ ClearSession /\ SwitchToAuth /\ Done(t)
      /\ UNCHANGED <<server, ended, overlapped>>
  BY DEF RefreshRefused, At
<1>2. \A p \in ended' : Issued(p)
  BY <1>1 DEF WebInv, PairsOK
<1>3. LogoutEndsLogin'
  BY <1>1 DEF WebInv, LogoutEndsLogin, server
<1> QED
  BY <1>1, <1>2, <1>3, SessionEnds

\* An acknowledged logout ends its login: for a user who waits, every refresh
\* token of the login is spent by now.
LEMMA LoggedOutInv ==
    ASSUME WebInv, NEW t \in Tasks, LoggedOut(t)
    PROVE  WebInv'
<1> DEFINE f == task[t].fetch
           login == pair[f.token].login
<1>1. /\ task[t] # None /\ At(t, "ok", {"logout"})
      /\ ClearSession /\ SwitchToAuth /\ Done(t)
      /\ ended' = ended \cup {login} /\ UNCHANGED <<pair, dead, overlapped>>
  BY DEF LoggedOut, At, server
<1>2. TypeOK /\ TaskOK(t) /\ PairsOK
  BY <1>1 DEF WebInv
<1>3. Issued(f.token) /\ f.token # None
  BY <1>1, <1>2 DEF TaskOK
<1>4. Issued(login)
  BY <1>2, <1>3 DEF PairsOK, Issued
<1>5. \A p \in ended' : Issued(p)
  BY <1>1, <1>2, <1>4 DEF PairsOK
<1>6. LogoutEndsLogin'
  <2> SUFFICES ASSUME ~overlapped, NEW p \in Pairs, pair[p] # None,
                      pair[p].login \in ended'
               PROVE  <<p, "refresh">> \in dead
    BY <1>1 DEF LogoutEndsLogin
  <2>1. CASE pair[p].login \in ended
    BY <2>1 DEF WebInv, LogoutEndsLogin
  <2>2. CASE pair[p].login = login
    <3>1. AloneOK(t)
      BY <1>1, Alone
    <3>2. OthersSpent(f.token) /\ <<f.token, "refresh">> \in dead
      BY <1>1, <3>1 DEF AloneOK
    <3> QED
      BY <2>2, <3>2 DEF OthersSpent, Issued
  <2> QED
    BY <1>1, <2>1, <2>2
<1> QED
  BY <1>1, <1>5, <1>6, SessionEnds DEF server

\* A request that failed ends its click, and a logout the session.
LEMMA ThrowInv ==
    ASSUME WebInv, NEW t \in Tasks, Throw(t)
    PROVE  WebInv'
<1>1. /\ task[t] # None /\ task[t].stage \in {"401", "error"} /\ Done(t)
      /\ UNCHANGED <<server, panel, shown, ended, overlapped>>
  BY DEF Throw, Failed, At
<1>2. CASE task[t].fetch.op = "logout"
  <2>1. ClearSession
    BY <1>2 DEF Throw
  <2>2. \A p \in ended' : Issued(p)
    BY <1>1 DEF WebInv, PairsOK
  <2>3. LogoutEndsLogin'
    BY <1>1 DEF WebInv, LogoutEndsLogin, server
  <2> QED
    BY <1>1, <2>1, <2>2, <2>3, SessionEnds
<1>3. CASE task[t].fetch.op # "logout"
  <2>1. UNCHANGED <<server, page, history>>
    BY <1>1, <1>3 DEF Throw, page, history
  <2> QED
    BY <1>1, <2>1, Stops
<1> QED
  BY <1>2, <1>3

\* A refresh that answered: for a user who waits the new pair succeeds the
\* session's own, in memory and in what a reload restores.
LEMMA RefreshedInv ==
    ASSUME WebInv, NEW t \in Tasks, Refreshed(t)
    PROVE  WebInv'
<1> DEFINE f == task[t].fetch
           p == task[t].got
           g == [f EXCEPT !.token = p, !.retried = TRUE, !.refreshing = FALSE]
<1>1. /\ task[t] # None /\ task[t].stage = "ok" /\ At(t, "ok", {"refresh"})
      /\ OpOf(t) = "refresh"
      /\ session' = [session EXCEPT !.pair = p]
      /\ UpdateStorage(p)
      /\ task' = [task EXCEPT
             ![t].stage = "flight", ![t].got = None,
             ![t].fetch = [@ EXCEPT !.token = p, !.retried = TRUE, !.refreshing = FALSE]]
      /\ UNCHANGED <<pair, dead, panel, shown, out, ended, overlapped, partial>>
  BY DEF Refreshed, At, server, history
<1>2. /\ TypeOK /\ TaskOK(t) /\ PairsOK /\ f \in Requests /\ f.refreshing
      /\ task[t] \in TaskData
  BY <1>1, TaskFacts DEF WebInv
<1>3. /\ Issued(p) /\ p \in Pairs /\ p # None /\ f.token # None
      /\ pair[p].user = pair[f.token].user /\ <<f.token, "refresh">> \in dead
      /\ task[t].wrote = << >>
  <2>1. GotPair(t)
    BY <1>1 DEF GotPair, At
  <2> QED
    BY <1>1, <1>2, <2>1, WebAssumptions DEF TaskOK, Issued
<1>4. /\ g \in Requests /\ g.op = f.op /\ g.token = p /\ g.body = f.body
      /\ g.retried = TRUE /\ g.refreshing = FALSE
  BY <1>2, <1>3 DEF Requests
<1>5. Becomes(t, "flight", g, None, task[t].wrote)
  <2>1. /\ task'[t].fetch = g /\ task'[t].stage = "flight"
        /\ task'[t].kind = task[t].kind /\ task'[t].by = task[t].by
        /\ task'[t].got = None /\ task'[t].wrote = task[t].wrote
        /\ \A s \in Tasks \ {t} : task'[s] = task[s]
    BY <1>1, <1>2 DEF TypeOK, TaskData
  <2>2. task'[t] \in TaskData
    BY <1>1, <1>2, <1>4 DEF TypeOK, TaskData, Stages
  <2>3. task' \in [Tasks -> TaskData \cup {None}]
    BY <1>1, <1>2, <2>1, <2>2 DEF TypeOK
  <2> QED
    BY <2>1, <2>2, <2>3, NoneIsFresh DEF Becomes
<1>6. /\ task'[t] # None /\ task'[t].stage = "flight" /\ task'[t].fetch = g
      /\ task'[t].kind = task[t].kind /\ task'[t].by = task[t].by
      /\ task'[t].wrote = task[t].wrote
  BY <1>5 DEF Becomes
<1>7. /\ \A ops : ~At(t, "ok", ops)' /\ ~At(t, "verified", ops)'
      /\ ~GotPair(t)' /\ ~GotList(t)'
  BY <1>6 DEF At, GotPair, GotList
<1>8. session' \in [user : Users \cup {None}, pair : Pairs \cup {None}, key : Users \cup {None}]
      /\ session'.pair = p /\ session'.user = session.user /\ session'.key = session.key
  BY <1>1, <1>2, <1>3 DEF TypeOK
<1>9. /\ storage = None => storage' = None
      /\ storage # None => /\ storage' \in [user : Users, pair : Pairs]
                           /\ storage' = [user |-> storage.user, pair |-> p]
                           /\ storage'.user = storage.user /\ storage'.pair = p
  <2>1. storage \in [user : Users, pair : Pairs] \cup {None}
    BY <1>2 DEF TypeOK
  <2> QED
    BY <1>1, <1>3, <2>1 DEF UpdateStorage
<1>10. TypeOK'
  <2>1. storage' \in [user : Users, pair : Pairs] \cup {None}
    BY <1>9
  <2>2. task' \in [Tasks -> TaskData \cup {None}]
    BY <1>5 DEF Becomes
  <2> QED
    BY <1>1, <1>2, <1>8, <2>1, <2>2 DEF TypeOK
<1>11. /\ Grows /\ \A q : Issued(q)' = Issued(q)
       /\ EndedOK'
  BY <1>1, <1>5, <1>6, <1>9 DEF Becomes, Grows, WebInv, EndedOK, LogoutSurvivesReload, Importing, Issued
<1>12. PairsOK'
  BY <1>1, <1>2, <1>3, <1>8, <1>9, <1>11 DEF PairsOK
<1>13. TaskOK(t)'
  BY <1>1, <1>2, <1>3, <1>4, <1>6, <1>7, <1>11 DEF TaskOK
<1>14. ASSUME ~overlapped
       PROVE  /\ f.token = session.pair /\ session.pair # None
              /\ AloneOK(t) /\ StoredOK /\ PageOK /\ ChainOK /\ out = "in"
              /\ \A s \in Tasks : ~Importing(s)
              /\ ~partial => /\ session.user = pair[p].user
                             /\ storage # None => storage.user = session.user
  <2>1. AloneOK(t)
    BY <1>1, <1>14, Alone
  <2>2. /\ StoredOK /\ PageOK /\ ChainOK /\ Cleared
        /\ \A s \in Tasks : ~Importing(s)
    BY <1>1, <1>2, <1>14 DEF Importing, WebInv, SequentialOK
  <2>3. f.token = session.pair /\ session.pair # None
    BY <1>2, <2>1 DEF AloneOK
  <2>4. out = "in"
    BY <2>2, <2>3 DEF Cleared, Anonymous
  <2>5. OneIdentity
    BY DEF WebInv
  <2>6. ~partial => session.user = pair[p].user
    BY <1>3, <1>14, <2>3, <2>5 DEF OneIdentity
  <2>7. ~partial /\ storage # None => storage.user = session.user
    BY <1>14, <2>2, <2>5 DEF OneIdentity
  <2> QED
    BY <2>1, <2>2, <2>3, <2>4, <2>6, <2>7
<1>15. ASSUME ~overlapped
       PROVE  AloneOK(t)'
  <2>1. AloneOK(t) /\ f.token = session.pair /\ session.pair # None
    BY <1>14, <1>15
  <2>2. /\ task[t].kind \in Entry => panel = "auth"
        /\ task[t].kind \notin Entry => panel = "app"
    BY <2>1 DEF AloneOK
  <2>3. f.op = "logout" => <<f.body, "refresh">> \in dead
    BY <1>3, <2>1 DEF AloneOK
  <2>4. /\ task'[t].fetch.op = f.op /\ task'[t].fetch.token = session'.pair
        /\ task'[t].fetch.body = f.body
        /\ task'[t].fetch.retried = TRUE /\ task'[t].fetch.refreshing = FALSE
        /\ task'[t].stage # "import" /\ task'[t].kind = task[t].kind
    BY <1>4, <1>6, <1>8
  <2>5. UNCHANGED <<panel, dead>>
    BY <1>1
  <2> QED
    BY <1>7, <2>2, <2>3, <2>4, <2>5 DEF AloneOK
<1>16. ASSUME ~overlapped
       PROVE  Cleared' /\ StoredOK' /\ PageOK' /\ ChainOK'
  <2>1. Cleared'
    BY <1>1, <1>14, <1>16 DEF Cleared
  <2>2. StoredOK'
    BY <1>1, <1>9, <1>14, <1>16 DEF StoredOK
  <2>3. PageOK'
    BY <1>1, <1>3, <1>8, <1>14, <1>16 DEF PageOK
  <2>4. ChainOK'
    BY <1>1, <1>14, <1>16 DEF ChainOK, OthersSpent, Issued
  <2> QED
    BY <2>1, <2>2, <2>3, <2>4
<1>17. OneIdentity'
  BY <1>1, <1>8, <1>9, <1>14 DEF WebInv, OneIdentity
<1>18. LogoutEndsLogin'
  BY <1>1 DEF WebInv, LogoutEndsLogin
<1> QED
  BY <1>1, <1>5, <1>10, <1>11, <1>12, <1>13, <1>15, <1>16, <1>17, <1>18, OneTaskMoves DEF Becomes

\* storeSession assigns user and tokens together; for a user who waits the
\* session held no key and the page no list.
LEMMA StoreTokensInv ==
    ASSUME WebInv, NEW t \in Tasks, StoreTokens(t)
    PROVE  WebInv'
<1> DEFINE f == task[t].fetch
           p == task[t].got
<1>1. /\ task[t] # None /\ task[t].stage = "decrypt"
      /\ session' = [session EXCEPT !.user = task[t].by, !.pair = task[t].got]
      /\ task' = [task EXCEPT ![t].stage = "import"] /\ out' = "in"
      /\ UNCHANGED <<pair, dead, storage, panel, shown, ended, overlapped, partial>>
  BY DEF StoreTokens, At, server
<1>2. /\ TypeOK /\ TaskOK(t) /\ PairsOK /\ task[t].by \in Users \cup {None}
  BY <1>1, TaskFacts DEF WebInv
<1>3. /\ ~f.refreshing /\ f.op \in Entry /\ task[t].wrote = << >>
  BY <1>1, <1>2 DEF TaskOK, Remote
<1>4. /\ Issued(p) /\ p \in Pairs /\ p # None /\ pair[p].user = task[t].by
  <2>1. GotPair(t)
    BY <1>1 DEF GotPair
  <2> QED
    BY <1>2, <1>3, <2>1, WebAssumptions DEF TaskOK, Issued
<1>5. task[t].kind \in Entry /\ task[t].by \in Users
  BY <1>1, <1>2, <1>3, FlowFacts DEF TaskOK
<1>6. Becomes(t, "import", f, p, task[t].wrote)
  <2>1. "import" \in Stages
    BY DEF Stages
  <2> QED
    BY <1>1, <1>2, <2>1, StageMoves
<1>7. /\ task'[t] # None /\ task'[t].stage = "import" /\ task'[t].fetch = f
      /\ task'[t].kind = task[t].kind /\ task'[t].by = task[t].by
      /\ task'[t].got = p /\ task'[t].wrote = task[t].wrote
  BY <1>6 DEF Becomes
<1>8. /\ session' \in [user : Users \cup {None}, pair : Pairs \cup {None}, key : Users \cup {None}]
      /\ session'.pair = p /\ session'.user = task[t].by /\ session'.key = session.key
  BY <1>1, <1>2, <1>4, <1>5 DEF TypeOK
<1>9. TypeOK'
  BY <1>1, <1>2, <1>6, <1>8 DEF TypeOK, Becomes
<1>10. /\ Grows /\ PairsOK' /\ EndedOK' /\ LogoutEndsLogin'
  BY <1>1, <1>4, <1>8 DEF Grows, WebInv, PairsOK, EndedOK, LogoutSurvivesReload, Importing, LogoutEndsLogin, Issued
<1>11. /\ \A ops : ~At(t, "ok", ops)' /\ ~At(t, "verified", ops)'
       /\ ~GotList(t)'
  BY <1>7 DEF At, GotList
<1>12. TaskOK(t)'
  BY <1>1, <1>2, <1>3, <1>4, <1>5, <1>7, <1>11 DEF TaskOK, Issued, Entry
<1>13. ASSUME ~overlapped
       PROVE  /\ panel = "auth" /\ session.key = None /\ shown = None
              /\ StoredOK /\ ChainOK
  BY <1>1, <1>5, <1>13, Alone DEF AloneOK, WebInv, SequentialOK, PageOK
<1>14. ASSUME ~overlapped
       PROVE  AloneOK(t)'
  BY <1>1, <1>3, <1>5, <1>7, <1>8, <1>11, <1>13, <1>14 DEF AloneOK, Entry
<1>15. ASSUME ~overlapped
       PROVE  Cleared' /\ StoredOK' /\ PageOK' /\ ChainOK'
  <2>1. Cleared' /\ StoredOK'
    BY <1>1, <1>13, <1>15 DEF Cleared, StoredOK
  <2>2. PageOK'
    BY <1>1, <1>4, <1>8, <1>13, <1>15 DEF PageOK
  <2>3. ChainOK'
    BY <1>1, <1>13, <1>15 DEF ChainOK, OthersSpent, Issued
  <2> QED
    BY <2>1, <2>2, <2>3
<1>16. OneIdentity'
  <2>1. Importing(t)'
    BY <1>7 DEF Importing
  <2>2. ASSUME ~overlapped
        PROVE  /\ pair[session'.pair].user = session'.user
               /\ session'.key = None /\ shown = None
    BY <1>4, <1>8, <1>13, <2>2
  <2> QED
    BY <1>1, <2>1, <2>2 DEF OneIdentity
<1> QED
  BY <1>1, <1>6, <1>9, <1>10, <1>12, <1>14, <1>15, <1>16, OneTaskMoves DEF Becomes

\* storeSession assigns the key and writes sessionStorage.
LEMMA StoreKeyInv ==
    ASSUME WebInv, NEW t \in Tasks, StoreKey(t)
    PROVE  WebInv'
<1> DEFINE f == task[t].fetch
           p == task[t].got
<1>1. /\ task[t] # None /\ task[t].stage = "import"
      /\ session' = [session EXCEPT !.key = task[t].by]
      /\ storage' = [user |-> task[t].by, pair |-> task[t].got]
      /\ panel' = "app" /\ partial' = FALSE /\ Done(t)
      /\ UNCHANGED <<pair, dead, shown, out, ended, overlapped>>
  BY DEF StoreKey, Importing, server
<1>2. /\ TypeOK /\ TaskOK(t) /\ PairsOK /\ task[t].by \in Users \cup {None}
  BY <1>1, TaskFacts DEF WebInv
<1>3. /\ ~f.refreshing /\ f.op \in Entry
  BY <1>1, <1>2 DEF TaskOK, Remote
<1>4. /\ Issued(p) /\ p \in Pairs /\ p # None /\ pair[p].user = task[t].by
  <2>1. GotPair(t)
    BY <1>1 DEF GotPair
  <2> QED
    BY <1>2, <1>3, <2>1, WebAssumptions DEF TaskOK, Issued
<1>5. task[t].kind \in Entry /\ task[t].by \in Users
  BY <1>1, <1>2, <1>3, FlowFacts DEF TaskOK
<1>6. /\ task' \in [Tasks -> TaskData \cup {None}] /\ task'[t] = None
      /\ \A s \in Tasks \ {t} : task'[s] = task[s]
  BY <1>1, <1>2, DoneMoves
<1>7. /\ session' \in [user : Users \cup {None}, pair : Pairs \cup {None}, key : Users \cup {None}]
      /\ session'.pair = session.pair /\ session'.user = session.user
      /\ session'.key = task[t].by
      /\ storage' \in [user : Users, pair : Pairs]
      /\ storage'.user = task[t].by /\ storage'.pair = p
  BY <1>1, <1>2, <1>4, <1>5 DEF TypeOK
<1>8. TypeOK'
  BY <1>1, <1>2, <1>6, <1>7 DEF TypeOK
<1>9. /\ Grows /\ PairsOK' /\ EndedOK' /\ LogoutEndsLogin'
  BY <1>1, <1>4, <1>7 DEF Grows, WebInv, PairsOK, EndedOK, LogoutSurvivesReload, Importing, LogoutEndsLogin, Issued
<1>10. ASSUME ~overlapped
       PROVE  /\ session.user = task[t].by /\ session.pair = p
              /\ shown = None /\ ChainOK
  BY <1>1, <1>5, <1>10, Alone DEF AloneOK, WebInv, SequentialOK, PageOK
<1>11. ASSUME ~overlapped
       PROVE  Cleared' /\ StoredOK' /\ PageOK' /\ ChainOK'
  <2>1. Cleared' /\ StoredOK'
    <3>1. out = "in"
      BY <1>4, <1>10, <1>11 DEF WebInv, SequentialOK, Cleared, Anonymous
    <3> QED
      BY <1>1, <1>4, <1>7, <3>1 DEF Cleared, StoredOK
  <2>2. PageOK'
    BY <1>1, <1>4, <1>7, <1>10, <1>11 DEF PageOK
  <2>3. ChainOK'
    BY <1>1, <1>10, <1>11 DEF ChainOK, OthersSpent, Issued
  <2> QED
    BY <2>1, <2>2, <2>3
<1>12. OneIdentity'
  <2>1. ASSUME ~overlapped
        PROVE  /\ pair[session'.pair].user = session'.user
               /\ session'.key = session'.user /\ shown = None
               /\ storage' = [user |-> session'.user, pair |-> session'.pair]
    BY <1>1, <1>4, <1>7, <1>10, <2>1
  <2> QED
    BY <1>1, <2>1 DEF OneIdentity
<1> QED
  BY <1>1, <1>6, <1>8, <1>9, <1>11, <1>12, OneTaskMoves

\* A login that throws leaves what it has assigned and ends.
LEMMA LoginThrowsInv ==
    ASSUME WebInv, NEW t \in Tasks, LoginThrows(t)
    PROVE  WebInv'
<1>1. task[t] # None /\ Done(t) /\ UNCHANGED <<pair, dead, session, storage, panel, shown,
                                               out, ended, overlapped>>
  BY DEF LoginThrows, Importing, At, server, page
<1>2. TypeOK /\ PairsOK /\ partial \in BOOLEAN
  BY DEF WebInv, TypeOK
<1>3. CASE ~Importing(t)
  <2>1. task[t].stage = "decrypt" /\ partial' = (partial \/ FALSE)
    BY <1>3 DEF LoginThrows, At
  <2>2. UNCHANGED <<server, page, history>>
    BY <1>1, <1>2, <2>1 DEF server, page, history
  <2> QED
    BY <1>1, <2>1, <2>2, Stops
<1>4. CASE Importing(t)
  <2>1. partial' = TRUE
    BY <1>4 DEF LoginThrows
  <2>2. /\ task' \in [Tasks -> TaskData \cup {None}] /\ task'[t] = None
        /\ \A s \in Tasks \ {t} : task'[s] = task[s]
    BY <1>1, <1>2, DoneMoves
  <2>3. TypeOK'
    BY <1>1, <1>2, <2>1, <2>2 DEF TypeOK
  <2>4. /\ Grows /\ PairsOK' /\ EndedOK' /\ LogoutEndsLogin'
    BY <1>1, <2>2 DEF Grows, WebInv, PairsOK, EndedOK, LogoutSurvivesReload, Importing,
                      LogoutEndsLogin, Issued
  <2>5. ASSUME ~overlapped
        PROVE  Cleared' /\ StoredOK' /\ PageOK' /\ ChainOK'
    BY <1>1, <2>1, <2>5 DEF WebInv, SequentialOK, Cleared, StoredOK, PageOK, ChainOK,
                            OthersSpent, Issued, Anonymous
  <2>6. OneIdentity'
    BY <2>1 DEF OneIdentity
  <2> QED
    BY <1>1, <2>2, <2>3, <2>4, <2>5, <2>6, OneTaskMoves
<1> QED
  BY <1>3, <1>4

\* renderMessages shows the list of the token it was asked with.
LEMMA RenderInv ==
    ASSUME WebInv, NEW t \in Tasks, Render(t)
    PROVE  WebInv'
<1> DEFINE f == task[t].fetch
           u == pair[f.token].user
<1>1. /\ task[t] # None /\ task[t].stage = "opening"
      /\ shown' = task[t].got /\ Done(t)
      /\ UNCHANGED <<pair, dead, session, storage, panel, out, ended, overlapped, partial>>
  BY DEF Render, At, server, history
<1>2. TypeOK /\ TaskOK(t) /\ PairsOK
  BY <1>1 DEF WebInv
<1>3. /\ Issued(f.token) /\ f.token \in Pairs /\ f.token # None
      /\ shown' = u /\ f.op = "list"
  BY <1>1, <1>2 DEF TaskOK, GotList, Issued
<1>4. u \in Users
  BY <1>2, <1>3, IssuedData
<1>5. task[t].kind \notin Entry
  BY <1>1, <1>3, FlowFacts DEF Entry
<1>6. /\ task' \in [Tasks -> TaskData \cup {None}] /\ task'[t] = None
      /\ \A s \in Tasks \ {t} : task'[s] = task[s]
  BY <1>1, <1>2, DoneMoves
<1>7. TypeOK'
  BY <1>1, <1>2, <1>3, <1>4, <1>6 DEF TypeOK
<1>8. /\ Grows /\ PairsOK' /\ EndedOK' /\ LogoutEndsLogin'
  BY <1>1, <1>6 DEF Grows, WebInv, PairsOK, EndedOK, LogoutSurvivesReload, Importing, LogoutEndsLogin, Issued
<1>9. ASSUME ~overlapped
      PROVE  /\ session.pair = f.token /\ panel = "app"
             /\ Cleared /\ StoredOK /\ PageOK /\ ChainOK
             /\ \A s \in Tasks : ~Importing(s)
  <2>1. AloneOK(t)
    BY <1>1, <1>9, Alone
  <2>2. \A s \in Tasks : ~Importing(s)
    BY <1>1, <1>2, <1>9 DEF Importing, WebInv, SequentialOK
  <2> QED
    BY <1>3, <1>5, <1>9, <2>1, <2>2 DEF AloneOK, WebInv, SequentialOK
<1>10. ASSUME ~overlapped
       PROVE  Cleared' /\ StoredOK' /\ PageOK' /\ ChainOK'
  <2>1. Cleared' /\ StoredOK' /\ ChainOK'
    BY <1>1, <1>9, <1>10 DEF Cleared, StoredOK, ChainOK, OthersSpent, Issued, Anonymous
  <2>2. PageOK'
    BY <1>1, <1>3, <1>9, <1>10 DEF PageOK
  <2> QED
    BY <2>1, <2>2
<1>11. OneIdentity'
  <2>1. ASSUME ~overlapped, ~partial
        PROVE  session.user = shown'
    BY <1>3, <1>9, <2>1 DEF WebInv, OneIdentity
  <2> QED
    BY <1>1, <1>9, <2>1 DEF WebInv, OneIdentity
<1> QED
  BY <1>1, <1>6, <1>7, <1>8, <1>10, <1>11, OneTaskMoves

-----------------------------------------------------------------------------
(* Clicks and the page.                                                    *)

\* A user who waits clicks when no click is running.
LEMMA ClickInv ==
    ASSUME WebInv, NEW t \in Tasks, NEW k \in Kinds, NEW u \in Users \cup {None},
           Click(t, k, u)
    PROVE  WebInv'
<1> DEFINE op == FirstOp(k)
           click == [kind |-> k, by |-> u, stage |-> "flight", fetch |-> Fetch(op),
                     got |-> None, wrote |-> << >>]
<1>1. /\ task[t] = None
      /\ panel = IF k \in Entry THEN "auth" ELSE "app"
      /\ u = None <=> k \notin Entry
      /\ k = "logout" => session.pair # None
      /\ task' = [task EXCEPT ![t] = click]
      /\ overlapped' = (overlapped \/ \E s \in Tasks : task[s] # None)
      /\ UNCHANGED <<pair, dead, session, storage, panel, shown, out, ended, partial>>
  BY DEF Click, Entry, server, page
<1>2. TypeOK /\ PairsOK /\ k \in AllKinds
  BY WebAssumptions DEF WebInv
<1>3. /\ op \in Ops \ {"refresh"} /\ op \in FlowOps(k)
      /\ op = "logout" <=> k = "logout"
  BY <1>2 DEF FirstOp, FlowOps, AllKinds, Ops
<1>4. /\ Fetch(op) \in Requests
      /\ Fetch(op).op = op /\ Fetch(op).token = session.pair
      /\ Fetch(op).retried = FALSE /\ Fetch(op).refreshing = FALSE
      /\ Fetch(op).body = IF op = "logout" THEN session.pair ELSE None
  BY <1>2, <1>3, FetchTyped DEF Fetch
<1>5. click \in TaskData /\ click # None
  <2>1. click \in TaskData
    BY <1>2, <1>4 DEF TaskData, Stages
  <2> QED
    BY <2>1, NoneIsFresh
<1>6. /\ task'[t] # None /\ task'[t].stage = "flight" /\ task'[t].fetch = Fetch(op)
      /\ task'[t].kind = k /\ task'[t].by = u /\ task'[t].wrote = << >>
      /\ \A s \in Tasks \ {t} : task'[s] = task[s]
      /\ task' \in [Tasks -> TaskData \cup {None}]
  BY <1>1, <1>2, <1>5 DEF TypeOK
<1>7. TypeOK'
  <2>1. overlapped' \in BOOLEAN
    BY <1>1, <1>2 DEF TypeOK
  <2> QED
    BY <1>1, <1>2, <1>6, <2>1 DEF TypeOK
<1>8. /\ \A ops : ~At(t, "ok", ops)' /\ ~At(t, "verified", ops)'
      /\ ~GotPair(t)' /\ ~GotList(t)'
  BY <1>6 DEF At, GotPair, GotList
<1>9. TaskOK(t)'
  BY <1>1, <1>2, <1>3, <1>4, <1>6, <1>8 DEF TaskOK, PairsOK, Issued
<1>10. Grows /\ PairsOK' /\ EndedOK'
  BY <1>1 DEF Grows, WebInv, PairsOK, EndedOK, LogoutSurvivesReload, Importing, Issued
<1>11. \A s \in Tasks : task'[s] # None => TaskOK(s)'
  BY <1>6, <1>9, <1>10, TaskStays DEF WebInv
<1>12. ASSUME ~overlapped'
       PROVE  ~overlapped /\ \A s \in Tasks : task[s] = None
  BY <1>1, <1>2, <1>12 DEF TypeOK
<1>13. SequentialOK'
  <2> SUFFICES ASSUME ~overlapped'
               PROVE  /\ \A s, q \in Tasks : task'[s] # None /\ task'[q] # None => s = q
                      /\ AloneOK(t)'
                      /\ Cleared' /\ StoredOK' /\ PageOK' /\ ChainOK'
    BY <1>6, <1>12 DEF SequentialOK
  <2>1. Cleared /\ StoredOK /\ PageOK /\ ChainOK
    BY <1>12 DEF WebInv, SequentialOK
  <2>2. Cleared' /\ StoredOK' /\ PageOK' /\ ChainOK'
    BY <1>1, <2>1 DEF Cleared, StoredOK, PageOK, ChainOK, OthersSpent, Issued, Anonymous
  <2>3. AloneOK(t)'
    BY <1>1, <1>3, <1>4, <1>6, <1>8 DEF AloneOK
  <2> QED
    BY <1>6, <1>12, <2>2, <2>3
<1>14. OneIdentity'
  <2>1. ~overlapped' => \A s \in Tasks : ~Importing(s)
    BY <1>12 DEF Importing
  <2> QED
    BY <1>1, <1>12, <2>1 DEF WebInv, OneIdentity
<1>15. LogoutEndsLogin'
  BY <1>1, <1>12 DEF WebInv, LogoutEndsLogin
<1> QED
  BY <1>7, <1>10, <1>11, <1>13, <1>14, <1>15 DEF WebInv

\* The login form comes back when there are no tokens to log out with.
LEMMA LeaveInv ==
    ASSUME WebInv, Leave
    PROVE  WebInv'
<1>1. /\ session.pair = None /\ panel' = "auth" /\ shown' = None
      /\ UNCHANGED <<pair, dead, session, storage, task, out, ended, overlapped, partial>>
  BY DEF Leave, SwitchToAuth, server, history
<1>2. TypeOK'
  BY <1>1 DEF WebInv, TypeOK
<1>3. /\ \A t, stage, ops : At(t, stage, ops)' = At(t, stage, ops)
      /\ \A q : OthersSpent(q)' = OthersSpent(q) /\ Issued(q)' = Issued(q)
  BY <1>1 DEF At, OpOf, OthersSpent, Issued
<1>4. /\ Grows /\ PairsOK' /\ EndedOK' /\ LogoutEndsLogin'
  BY <1>1 DEF Grows, WebInv, PairsOK, EndedOK, LogoutSurvivesReload, Importing, LogoutEndsLogin, Issued
<1>5. \A t \in Tasks : task'[t] # None => TaskOK(t)'
  BY <1>1, <1>4, TaskStays DEF WebInv
<1>6. OneIdentity'
  BY <1>1, <1>3 DEF WebInv, OneIdentity, Importing
<1>7. SequentialOK'
  <2> SUFFICES ASSUME ~overlapped
               PROVE  /\ \A s, t \in Tasks : task[s] # None /\ task[t] # None => s = t
                      /\ \A t \in Tasks : task[t] # None => AloneOK(t)'
                      /\ Cleared' /\ StoredOK' /\ PageOK' /\ ChainOK'
    BY <1>1 DEF SequentialOK
  <2>1. \A t \in Tasks : task[t] # None => AloneOK(t)'
    BY <1>1, <1>3, Alone DEF AloneOK
  <2>2. Cleared /\ StoredOK /\ PageOK /\ ChainOK
    BY DEF WebInv, SequentialOK
  <2>3. Cleared' /\ StoredOK' /\ PageOK'
    BY <1>1, <2>2 DEF Cleared, StoredOK, PageOK, Anonymous
  <2>4. ChainOK'
    BY <1>1, <1>3, <2>2 DEF ChainOK
  <2> QED
    BY <2>1, <2>3, <2>4 DEF WebInv, SequentialOK
<1> QED
  BY <1>2, <1>4, <1>5, <1>6, <1>7 DEF WebInv

\* restoreSession brings back what is stored: one account's.
LEMMA ReloadInv ==
    ASSUME WebInv, Reload
    PROVE  WebInv'
<1>1. /\ task' = [t \in Tasks |-> None]
      /\ session' = (IF storage = None THEN Anonymous
                     ELSE [user |-> storage.user, pair |-> storage.pair, key |-> None])
      /\ panel' = "auth" /\ shown' = None
      /\ UNCHANGED <<pair, dead, storage, out, ended, overlapped, partial>>
  BY DEF Reload, SwitchToAuth, server, history
<1>2. TypeOK /\ PairsOK /\ storage \in [user : Users, pair : Pairs] \cup {None}
  BY DEF WebInv, TypeOK
<1>3. /\ storage = None => session' = Anonymous
      /\ storage # None => /\ session'.user = storage.user /\ session'.pair = storage.pair
                           /\ session'.key = None /\ session'.pair # None
                           /\ storage = [user |-> session'.user, pair |-> session'.pair]
                           /\ session' \in [user : Users \cup {None}, pair : Pairs \cup {None},
                                            key : Users \cup {None}]
  BY <1>1, <1>2, WebAssumptions
<1>4. TypeOK'
  <2>1. session' \in [user : Users \cup {None}, pair : Pairs \cup {None}, key : Users \cup {None}]
    BY <1>3 DEF Anonymous
  <2>2. task' \in [Tasks -> TaskData \cup {None}]
    BY <1>1
  <2> QED
    BY <1>1, <1>2, <2>1, <2>2 DEF TypeOK
<1>5. /\ PairsOK' /\ EndedOK' /\ LogoutEndsLogin'
  BY <1>1, <1>2, <1>3
     DEF WebInv, PairsOK, EndedOK, LogoutSurvivesReload, Importing, LogoutEndsLogin, Issued, Anonymous
<1>6. \A t \in Tasks : task'[t] = None
  BY <1>1
<1>7. ASSUME ~overlapped
      PROVE  /\ Cleared' /\ StoredOK' /\ PageOK' /\ ChainOK'
             /\ ~partial /\ session'.pair # None =>
                   pair[session'.pair].user = session'.user
  <2>1. Cleared /\ StoredOK /\ ChainOK
    BY <1>7 DEF WebInv, SequentialOK
  <2>2. StoredOK' /\ ChainOK'
    BY <1>1, <2>1 DEF StoredOK, ChainOK, OthersSpent, Issued
  <2>3. Cleared' /\ PageOK'
    BY <1>1, <1>3, <2>1 DEF Cleared, PageOK, Anonymous
  <2> QED
    BY <1>3, <2>1, <2>2, <2>3 DEF StoredOK, Anonymous
<1>8. OneIdentity'
  BY <1>1, <1>3, <1>7 DEF OneIdentity, Anonymous
<1>9. SequentialOK'
  BY <1>1, <1>6, <1>7 DEF SequentialOK
<1> QED
  BY <1>4, <1>5, <1>6, <1>8, <1>9 DEF WebInv

-----------------------------------------------------------------------------
(* The theorems.                                                           *)

LEMMA InitInv ==
    ASSUME Init
    PROVE  WebInv
<1>1. TypeOK
  BY DEF Init, TypeOK, Anonymous
<1>2. PairsOK /\ EndedOK /\ LogoutEndsLogin
  BY DEF Init, PairsOK, EndedOK, LogoutSurvivesReload, Importing, LogoutEndsLogin, Issued, Anonymous
<1>3. OneIdentity
  BY DEF Init, OneIdentity, Anonymous
<1>4. SequentialOK
  BY DEF Init, SequentialOK, Cleared, StoredOK, PageOK, ChainOK, Issued, Anonymous
<1> QED
  BY <1>1, <1>2, <1>3, <1>4 DEF WebInv, Init

LEMMA NextInv ==
    ASSUME WebInv, Next
    PROVE  WebInv'
<1>1. CASE Leave
  BY <1>1, LeaveInv
<1>2. CASE Reload
  BY <1>2, ReloadInv
<1>3. CASE \E p \in Pairs, type \in {"access", "refresh"} : Expire(p, type)
  BY <1>3, ExpireInv
<1>4. ASSUME NEW t \in Tasks, NEW k \in Kinds, NEW u \in Users \cup {None}, Click(t, k, u)
      PROVE  WebInv'
  BY <1>4, ClickInv
<1>5. ASSUME NEW t \in Tasks, Verify(t) \/ Serve(t) \/ Lose(t)
      PROVE  WebInv'
  <2>1. CASE Verify(t)
    BY <2>1, VerifyInv
  <2>2. CASE Lose(t)
    BY <2>2, LoseInv
  <2>3. CASE Serve(t)
    BY <2>3, ServeLoginInv, ServeRefreshInv, ServeLogoutInv, ServeMessagesInv DEF Serve
  <2> QED
    BY <1>5, <2>1, <2>2, <2>3
<1>6. ASSUME NEW t \in Tasks, Turn(t)
      PROVE  WebInv'
  <2>1. CASE TryRefresh(t)
    BY <2>1, TryRefreshInv
  <2>2. CASE Refreshed(t)
    BY <2>2, RefreshedInv
  <2>3. CASE RefreshRefused(t)
    BY <2>3, RefreshRefusedInv
  <2>4. CASE Throw(t)
    BY <2>4, ThrowInv
  <2>5. CASE LoggedOut(t)
    BY <2>5, LoggedOutInv
  <2>6. CASE LoggedIn(t) \/ Listed(t) \/ LookedUp(t) \/ Sent(t)
    BY <2>6, AwaitInv
  <2>7. CASE StoreTokens(t)
    BY <2>7, StoreTokensInv
  <2>8. CASE StoreKey(t)
    BY <2>8, StoreKeyInv
  <2>9. CASE Continue(t)
    BY <2>9, ContinueInv
  <2>10. CASE Render(t)
    BY <2>10, RenderInv
  <2>11. CASE LoginThrows(t)
    BY <2>11, LoginThrowsInv
  <2> QED
    BY <1>6, <2>1, <2>2, <2>3, <2>4, <2>5, <2>6, <2>7, <2>8, <2>9, <2>10, <2>11 DEF Turn
<1> QED
  BY <1>1, <1>2, <1>3, <1>4, <1>5, <1>6 DEF Next

LEMMA StutterInv ==
    ASSUME WebInv, UNCHANGED vars
    PROVE  WebInv'
<1>1. UNCHANGED <<pair, dead, session, storage, panel, shown, task, out, ended, overlapped, partial>>
  BY DEF vars, server, page, history
<1>2. /\ \A t, stage, ops : At(t, stage, ops)' = At(t, stage, ops)
      /\ \A q : OthersSpent(q)' = OthersSpent(q) /\ Issued(q)' = Issued(q)
  BY <1>1 DEF At, OpOf, OthersSpent, Issued
<1>3. TypeOK' /\ Grows /\ PairsOK' /\ EndedOK' /\ LogoutEndsLogin'
  BY <1>1 DEF WebInv, TypeOK, Grows, PairsOK, EndedOK, LogoutSurvivesReload, Importing, LogoutEndsLogin, Issued
<1>4. \A t \in Tasks : task'[t] # None => TaskOK(t)'
  BY <1>1, <1>3, TaskStays DEF WebInv
<1>5. OneIdentity'
  BY <1>1, <1>2 DEF WebInv, OneIdentity, Importing
<1>6. SequentialOK'
  <2>1. \A t : AloneOK(t)' = AloneOK(t)
    BY <1>1, <1>2 DEF AloneOK
  <2>2. Cleared' = Cleared /\ StoredOK' = StoredOK /\ PageOK' = PageOK
    BY <1>1 DEF Cleared, StoredOK, PageOK, Anonymous
  <2>3. ChainOK' = ChainOK
    BY <1>1 DEF ChainOK, OthersSpent, Issued
  <2> QED
    BY <1>1, <2>1, <2>2, <2>3 DEF WebInv, SequentialOK
<1> QED
  BY <1>3, <1>4, <1>5, <1>6 DEF WebInv

\* The inductive invariant of the page, its clicks and the tokens they use:
\* what holds however clicks overlap, and what holds while they do not.
THEOREM WebInvariance == Spec => []WebInv
<1>1. WebInv /\ [Next]_vars => WebInv'
  BY NextInv, StutterInv
<1> QED
  BY <1>1, InitInv, PTL DEF Spec

\* Every variable of the page and of the server keeps its type.
THEOREM WebTypesHold == Spec => []TypeOK
<1>1. WebInv => TypeOK
  BY DEF WebInv
<1> QED
  BY <1>1, WebInvariance, PTL

\* apiFetch sends a request again only on a 401, which the server answers
\* before it writes: one click stores a message at most once, however clicks
\* overlap, tokens expire and replies are lost.
THEOREM OneClickOneMessage == Spec => []SentAtMostOnce
<1>1. WebInv => SentAtMostOnce
  <2> SUFFICES ASSUME WebInv, NEW t \in Tasks, task[t] # None
               PROVE  Len(task[t].wrote) <= 1
    BY DEF SentAtMostOnce
  <2>1. task[t].wrote = << >> \/ Len(task[t].wrote) = 1
    BY DEF WebInv, TaskOK
  <2>2. CASE task[t].wrote = << >>
    BY <2>2
  <2>3. CASE Len(task[t].wrote) = 1
    BY <2>3
  <2> QED
    BY <2>1, <2>2, <2>3
<1> QED
  BY <1>1, WebInvariance, PTL

\* A reload restores no session that clearSession ended, however clicks and
\* late refreshes overlap, unless a login was between its tokens and its
\* storage at that moment.
THEOREM EndedStaysEnded == Spec => []LogoutSurvivesReload
<1>1. WebInv => LogoutSurvivesReload
  BY DEF WebInv, EndedOK
<1> QED
  BY <1>1, WebInvariance, PTL

\* For a user who waits for each click, tokens, key, stored session and the
\* list on screen are of one account, through refreshes and reloads.
THEOREM PageIsOneAccounts == Spec => []OneIdentity
<1>1. WebInv => OneIdentity
  BY DEF WebInv
<1> QED
  BY <1>1, WebInvariance, PTL

\* For a user who waits for each click, an acknowledged logout leaves no
\* usable refresh token of that login, however long the chain of refreshes.
THEOREM LogoutEndsTheChain == Spec => []LogoutEndsLogin
<1>1. WebInv => LogoutEndsLogin
  BY DEF WebInv
<1> QED
  BY <1>1, WebInvariance, PTL

\* For a user who waits for each click, a logout, however it ends, leaves
\* neither tokens nor key behind.
THEOREM LogoutClearsPage == Spec => []LogoutClears
<1>1. WebInv => LogoutClears
  BY DEF WebInv, SequentialOK, LogoutClears
<1> QED
  BY <1>1, WebInvariance, PTL
=============================================================================
