--------------------------- MODULE MessageService ---------------------------
(***************************************************************************)
(* The message endpoints of server/app/routes.py over the Message and User *)
(* queries of server/app/models.py and the tables of schema.sql.           *)
(*                                                                         *)
(* Several requests are in flight at once (threads and worker processes).  *)
(* A handler is a sequence of SQL statements in one transaction at READ    *)
(* COMMITTED: each SELECT sees the rows committed when it runs, so each is *)
(* a step of its own and what it returned may be stale in the next.  Every *)
(* handler has at most one writing statement and it is the last one; its   *)
(* row lock makes a rival writer wait for the commit (db.py close_conn),   *)
(* so statement and commit are one step.  The reply leaves in a later one. *)
(***************************************************************************)
EXTENDS MessageTypes, Naturals

VARIABLES
    registered,  \* ids in users
    messages,    \* the messages table: id -> row or None
    issued,      \* ids the BIGSERIAL has handed out
    access,      \* the message_access table: id -> user -> Grants
    call,        \* request -> its call, or None
    pc,          \* request -> the statement its handler runs next
    row,         \* request -> the row Message.get_by_id returned (msg)
    status,      \* request -> HTTP status, 0 before there is one
    seen,        \* request -> ids of the messages in the response body
    held, kept   \* history: what the user could see during the request

tables == <<registered, messages, issued, access>>
vars   == <<tables, call, pc, row, status, seen, held, kept>>

Stages   == {"idle", "begin", "access", "user", "write", "reply", "done"}
InFlight == {"begin", "access", "user", "write", "reply"}
Statuses == {0, 200, 201, 400, 403, 404, 409, 500}

-----------------------------------------------------------------------------
(* The history variables, after the requirement they serve.                *)

Accessible(u) ==
    {m \in Messages : /\ messages[m] # None
                      /\ \/ u \in Parties(messages[m])
                         \/ access[m][u] = "active"}

Visible(r) == Accessible(call[r].user)

Observe ==
    /\ held' = [q \in Requests |->
          IF pc'[q] = "idle"    THEN {}
          ELSE IF pc[q] = "idle" THEN Visible(q)'
          ELSE IF pc[q] = "done" THEN held[q]
          ELSE held[q] \cup Visible(q)']
    /\ kept' = [q \in Requests |->
          IF pc'[q] = "idle"    THEN {}
          ELSE IF pc[q] = "idle" THEN Visible(q)'
          ELSE IF pc[q] = "done" THEN kept[q]
          ELSE kept[q] \cap Visible(q)']

-----------------------------------------------------------------------------
(* Queries.                                                                *)

\* Mutant: the grant row counts after it was revoked.
HasAccessEver(m, u) == access[m][u] # "none"

\* Message.has_access: an unrevoked row of message_access.
HasAccess(m, u) == access[m][u] = "active"

\* Mutant: the list query without its subselect on message_access.
ListedForParties(u) ==
    {m \in Messages : IF messages[m] = None THEN FALSE ELSE u \in Parties(messages[m])}

\* Message.get_for_user: the WHERE clause of the list query.
ListedFor(u) ==
    {m \in Messages : messages[m] # None} \cap
    ( {m \in Messages : messages[m] # None /\ messages[m].sender = u} \cup
      {m \in Messages : messages[m] # None /\ messages[m].recipient = u} \cup
      {m \in Messages : HasAccess(m, u)} )

\* Mutant: a foreign key that leaves the grants behind.
CascadeNothing(m) == access

\* ON DELETE CASCADE of message_access.message_id.
Cascade(m) == [access EXCEPT ![m] = [u \in Users |-> "none"]]

-----------------------------------------------------------------------------
(* Control of one handler.                                                 *)

At(r, stage, ops) == pc[r] = stage /\ call[r].op \in ops

\* Go on to the next statement with msg in hand (None before it is loaded).
Goto(r, stage, msg) ==
    /\ pc' = [pc EXCEPT ![r] = stage]
    /\ row' = [row EXCEPT ![r] = msg]
    /\ UNCHANGED <<call, status, seen>>

Answer(r, code, shown) ==
    /\ pc' = [pc EXCEPT ![r] = "done"]
    /\ row' = [row EXCEPT ![r] = None]
    /\ status' = [status EXCEPT ![r] = code]
    /\ seen' = [seen EXCEPT ![r] = shown]
    /\ UNCHANGED call

\* The write is committed; the success reply is on its way.
Committed(r, code) ==
    /\ pc' = [pc EXCEPT ![r] = "reply"]
    /\ row' = [row EXCEPT ![r] = None]
    /\ status' = [status EXCEPT ![r] = code]
    /\ UNCHANGED <<call, seen>>

-----------------------------------------------------------------------------
(* Steps.                                                                  *)

\* A user appears in the table (auth_routes.register, TokenService).
Register(u) ==
    /\ u \notin registered
    /\ registered' = registered \cup {u}
    /\ UNCHANGED <<messages, issued, access, call, pc, row, status, seen>>

\* token_required has accepted the caller: g.user_id is a registered user.
Receive(r, c) ==
    /\ pc[r] = "idle"
    /\ c.user \in registered
    /\ call' = [call EXCEPT ![r] = c]
    /\ pc' = [pc EXCEPT ![r] = "begin"]
    /\ UNCHANGED <<tables, row, status, seen>>

\* The self-addressed test that send_message and forward_message share.
CheckRecipient(r, msg) ==
    IF call[r].target = call[r].user
    THEN Answer(r, 400, {})
    ELSE Goto(r, "user", msg)

Send(r) ==
    /\ At(r, "begin", {"send"})
    /\ CheckRecipient(r, None)
    /\ UNCHANGED tables

\* list_messages: one SELECT, one answer.
List(r) ==
    /\ At(r, "begin", {"list"})
    /\ Answer(r, 200, ListedFor(call[r].user))
    /\ UNCHANGED tables

\* What get_message and forward_message do once _can_access is true.
Allowed(r, msg) ==
    \/ call[r].op = "get" /\ Answer(r, 200, {call[r].msg})
    \/ call[r].op = "forward" /\ CheckRecipient(r, msg)

\* What each handler does with the row Message.get_by_id returned; the
\* ownership tests read this copy and never the table again.
Loaded(r, msg) ==
    LET u == call[r].user IN
    \/ /\ call[r].op \in {"get", "forward"}
       /\ IF u \in Parties(msg) THEN Allowed(r, msg) ELSE Goto(r, "access", msg)
    \/ /\ call[r].op = "delete"
       /\ IF u \in Parties(msg) THEN Goto(r, "write", msg) ELSE Answer(r, 403, {})
    \/ /\ call[r].op = "grant"
       /\ IF u = msg.sender THEN Goto(r, "user", msg) ELSE Answer(r, 403, {})
    \/ /\ call[r].op = "revoke"
       /\ IF u = msg.sender THEN Goto(r, "access", msg) ELSE Answer(r, 403, {})

Load(r) ==
    /\ At(r, "begin", {"get", "delete", "forward", "grant", "revoke"})
    /\ IF messages[call[r].msg] = None
       THEN Answer(r, 404, {})
       ELSE Loaded(r, messages[call[r].msg])
    /\ UNCHANGED tables

\* The has_access query of _can_access, for a caller who is not a party.
CheckGrant(r) ==
    /\ At(r, "access", {"get", "forward"})
    /\ IF HasAccess(call[r].msg, call[r].user)
       THEN Allowed(r, row[r])
       ELSE Answer(r, 403, {})
    /\ UNCHANGED tables

\* The has_access query of revoke_access, for the target.
CheckTargetGrant(r) ==
    /\ At(r, "access", {"revoke"})
    /\ IF HasAccess(call[r].msg, call[r].target)
       THEN Goto(r, "write", row[r])
       ELSE Answer(r, 404, {})
    /\ UNCHANGED tables

\* User.get_by_id(recipient_id), last test of send and forward.
FindRecipient(r) ==
    /\ At(r, "user", {"send", "forward"})
    /\ IF call[r].target \in registered
       THEN Goto(r, "write", row[r])
       ELSE Answer(r, 404, {})
    /\ UNCHANGED tables

\* Mutant: a grant to a party of the message is let through.
FindAnyTarget(r) ==
    /\ At(r, "user", {"grant"})
    /\ IF call[r].target \in registered
       THEN Goto(r, "write", row[r])
       ELSE Answer(r, 404, {})
    /\ UNCHANGED tables

\* User.get_by_id(target_user_id), then the party test of grant_access.
FindTarget(r) ==
    /\ At(r, "user", {"grant"})
    /\ IF call[r].target \notin registered THEN Answer(r, 404, {})
       ELSE IF call[r].target \in Parties(row[r]) THEN Answer(r, 409, {})
       ELSE Goto(r, "write", row[r])
    /\ UNCHANGED tables

\* Message.create: the sequence yields an id it never yielded before, in an
\* order that need not be the order of the commits.
Create(r, m) ==
    /\ At(r, "write", {"send", "forward"})
    /\ m \notin issued
    /\ issued' = issued \cup {m}
    /\ messages' = [messages EXCEPT ![m] =
          [sender |-> call[r].user, recipient |-> call[r].target]]
    /\ Committed(r, 201)
    /\ UNCHANGED <<registered, access>>

\* Mutant: answers from the row loaded before, not from RETURNING.
DeleteUnchecked(r) ==
    LET m == call[r].msg IN
    /\ At(r, "write", {"delete"})
    /\ messages' = [messages EXCEPT ![m] = None]
    /\ access' = Cascade(m)
    /\ Committed(r, 200)
    /\ UNCHANGED <<registered, issued>>

\* Message.delete: DELETE ... RETURNING id; no row means a rival was first.
Delete(r) ==
    LET m == call[r].msg IN
    /\ At(r, "write", {"delete"})
    /\ IF messages[m] # None
       THEN /\ messages' = [messages EXCEPT ![m] = None]
            /\ access' = Cascade(m)
            /\ Committed(r, 200)
       ELSE /\ Answer(r, 500, {})
            /\ UNCHANGED <<messages, access>>
    /\ UNCHANGED <<registered, issued>>

\* Mutant: message_access without its foreign key.
GrantUnattached(r) ==
    /\ At(r, "write", {"grant"})
    /\ access' = [access EXCEPT ![call[r].msg][call[r].target] = "active"]
    /\ Committed(r, 200)
    /\ UNCHANGED <<registered, messages, issued>>

\* Message.grant_access: the upsert, or a foreign-key error when the
\* message has gone since it was loaded.
Grant(r) ==
    LET m == call[r].msg IN
    /\ At(r, "write", {"grant"})
    /\ IF messages[m] # None
       THEN /\ access' = [access EXCEPT ![m][call[r].target] = "active"]
            /\ Committed(r, 200)
       ELSE Answer(r, 500, {}) /\ UNCHANGED access
    /\ UNCHANGED <<registered, messages, issued>>

\* Message.revoke_access: UPDATE ... WHERE revoked_at IS NULL RETURNING.
Revoke(r) ==
    LET m == call[r].msg IN
    /\ At(r, "write", {"revoke"})
    /\ IF HasAccess(m, call[r].target)
       THEN /\ access' = [access EXCEPT ![m][call[r].target] = "revoked"]
            /\ Committed(r, 200)
       ELSE Answer(r, 500, {}) /\ UNCHANGED access
    /\ UNCHANGED <<registered, messages, issued>>

\* The success reply reaches the client.
Reply(r) ==
    /\ pc[r] = "reply"
    /\ Answer(r, status[r], {})
    /\ UNCHANGED tables

\* A statement raises (caught in the model method or by the application's
\* error handler), or the reply is lost after the commit: the client sees a
\* failure, and cannot tell the two apart.
Fail(r) ==
    /\ pc[r] \in InFlight
    /\ Answer(r, 500, {})
    /\ UNCHANGED tables

\* The connection is free for the next request.
Finish(r) ==
    /\ pc[r] = "done"
    /\ call' = [call EXCEPT ![r] = None]
    /\ pc' = [pc EXCEPT ![r] = "idle"]
    /\ status' = [status EXCEPT ![r] = 0]
    /\ seen' = [seen EXCEPT ![r] = {}]
    /\ UNCHANGED <<tables, row>>

\* One step of the handler of r.
Handle(r) ==
    \/ Send(r) \/ List(r) \/ Load(r)
    \/ CheckGrant(r) \/ CheckTargetGrant(r)
    \/ FindRecipient(r) \/ FindTarget(r)
    \/ \E m \in Messages : Create(r, m)
    \/ Delete(r) \/ Grant(r) \/ Revoke(r)
    \/ Reply(r) \/ Fail(r)

Init ==
    /\ registered = {}
    /\ messages = [m \in Messages |-> None]
    /\ issued = {}
    /\ access = [m \in Messages |-> [u \in Users |-> "none"]]
    /\ call = [r \in Requests |-> None]
    /\ pc = [r \in Requests |-> "idle"]
    /\ row = [r \in Requests |-> None]
    /\ status = [r \in Requests |-> 0]
    /\ seen = [r \in Requests |-> {}]
    /\ held = [r \in Requests |-> {}]
    /\ kept = [r \in Requests |-> {}]

Act ==
    \/ \E u \in Users : Register(u)
    \/ \E r \in Requests :
        \/ \E c \in Calls : Receive(r, c)
        \/ Handle(r)
        \/ Finish(r)

Next == Act /\ Observe

Spec == Init /\ [][Next]_vars

-----------------------------------------------------------------------------
(* Properties.                                                             *)

\* Every variable keeps its type.
TypeOK ==
    /\ registered \subseteq Users
    /\ messages \in [Messages -> Rows \cup {None}]
    /\ issued \subseteq Messages
    /\ access \in [Messages -> [Users -> Grants]]
    /\ call \in [Requests -> Calls \cup {None}]
    /\ pc \in [Requests -> Stages]
    /\ row \in [Requests -> Rows \cup {None}]
    /\ status \in [Requests -> Statuses]
    /\ seen \in [Requests -> SUBSET Messages]
    /\ held \in [Requests -> SUBSET Messages]
    /\ kept \in [Requests -> SUBSET Messages]

\* No answer shows a message its user could not read at any moment of the
\* request, although get_message and forward_message decide on a row and a
\* grant read in different statements (routes.py _can_access).
ReadsAuthorised == \A r \in Requests : seen[r] \subseteq held[r]

\* A list answer contains every message the user could read throughout the
\* request, and a 403 or 404 to a get means there was a moment at which the
\* user could not read it: the SQL of get_for_user and the test of
\* _can_access agree in both directions.
ReadsComplete ==
    \A r \in Requests :
        pc[r] = "done" =>
            /\ call[r].op = "list" /\ status[r] = 200 => kept[r] \subseteq seen[r]
            /\ call[r].op = "get" /\ status[r] \in {403, 404}
                  => call[r].msg \notin kept[r]

\* A grant row never outlives its message and is never held by a party of
\* it, whatever the order of a grant, a delete and a rival grant (schema.sql
\* foreign key and cascade, routes.py grant_access).
GrantsAttached ==
    \A m \in Messages, u \in Users :
        access[m][u] # "none" =>
            messages[m] # None /\ u \notin Parties(messages[m])

\* Of two requests deleting the same message at most one is told it did
\* (Message.delete answers from RETURNING, not from the row loaded before).
DeletesAckedOnce ==
    \A q, r \in Requests :
        /\ q # r
        /\ status[q] = 200 /\ status[r] = 200
        /\ call[q].op = "delete" /\ call[r].op = "delete"
        => call[q].msg # call[r].msg

\* The contract: call, phase and reply are read off the handler's state.
Phase(r) ==
    IF pc[r] = "idle" THEN "idle"
    ELSE IF pc[r] = "reply" THEN "effective"
    ELSE IF pc[r] = "done" THEN "answered"
    ELSE "open"

Kind(r) ==
    IF pc[r] # "done" THEN "none"
    ELSE IF status[r] \in {200, 201} THEN "ok"
    ELSE IF status[r] = 500 THEN "error"
    ELSE "denied"

Contract == INSTANCE AccessControl WITH
    phase <- [r \in Requests |-> Phase(r)],
    reply <- [r \in Requests |-> Kind(r)]

\* Every handler, step by step, implements the atomic contract.
ImplementsContract == Contract!Spec

-----------------------------------------------------------------------------
(* The inductive invariant.                                                *)

\* A slot serves a call exactly when it is not idle.
SlotOK(r) ==
    /\ (pc[r] = "idle") <=> (call[r] = None)
    /\ pc[r] \notin {"reply", "done"} => status[r] = 0
    /\ pc[r] = "reply" => /\ call[r].op \notin {"get", "list"}
                          /\ status[r] \in {200, 201}
    /\ pc[r] # "done" => seen[r] = {}

\* The copy a handler holds is the row itself, unless the row is gone.
RowOK(r) ==
    row[r] # None =>
        /\ pc[r] \in {"access", "user", "write"}
        /\ call[r].op \in {"get", "delete", "forward", "grant", "revoke"}
        /\ call[r].msg \in issued
        /\ messages[call[r].msg] \in {row[r], None}

\* What the tests before each statement have established about the call.
AuthorityOK(r) ==
    LET u == call[r].user  t == call[r].target IN
    /\ pc[r] = "access" =>
        /\ row[r] # None
        /\ call[r].op \in {"get", "forward", "revoke"}
        /\ call[r].op \in {"get", "forward"} => u \notin Parties(row[r])
        /\ call[r].op = "revoke" => u = row[r].sender
    /\ pc[r] = "user" =>
        /\ call[r].op \in {"send", "forward", "grant"}
        /\ call[r].op \in {"send", "forward"} => t # u
        /\ call[r].op = "grant" => row[r] # None /\ u = row[r].sender
    /\ pc[r] = "write" =>
        /\ call[r].op \in {"send", "forward"} => t \in registered \ {u}
        /\ call[r].op \in {"delete", "grant", "revoke"} => row[r] # None
        /\ call[r].op = "delete" => u \in Parties(row[r])
        /\ call[r].op = "grant" => /\ u = row[r].sender
                                   /\ t \in registered \ Parties(row[r])
        /\ call[r].op = "revoke" => u = row[r].sender
    /\ pc[r] \in {"user", "write"} /\ call[r].op = "forward"
        => call[r].msg \in held[r]

\* The history of an open request brackets what its user sees now, and the
\* answer it ended with lies inside that history.
HistoryOK(r) ==
    /\ pc[r] = "idle" => held[r] = {} /\ kept[r] = {}
    /\ pc[r] \in InFlight =>
        Visible(r) \subseteq held[r] /\ kept[r] \subseteq Visible(r)
    /\ seen[r] \subseteq held[r]
    /\ pc[r] = "done" =>
        /\ call[r].op = "list" /\ status[r] = 200 => kept[r] \subseteq seen[r]
        /\ call[r].op = "get" /\ status[r] \in {403, 404}
              => call[r].msg \notin kept[r]

\* A delete that was acknowledged left no row behind.
DeleteOK(r) ==
    status[r] = 200 /\ call[r].op = "delete" =>
        call[r].msg \in issued /\ messages[call[r].msg] = None

RequestOK(r) ==
    SlotOK(r) /\ RowOK(r) /\ AuthorityOK(r) /\ HistoryOK(r) /\ DeleteOK(r)

\* Rows carry issued ids and grants hang on rows.
TablesOK ==
    /\ \A m \in Messages : messages[m] # None => m \in issued
    /\ GrantsAttached

\* Every step preserves this conjunction, and it implies the invariants above.
IInv == TypeOK /\ TablesOK /\ \A r \in Requests : RequestOK(r)
=============================================================================
