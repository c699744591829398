------------------------ MODULE MessageServiceProofs ------------------------
(***************************************************************************)
(* Proofs about MessageService for any number of users, messages and       *)
(* requests: typing, the inductive invariant and the safety properties     *)
(* that follow from it, and the refinement of AccessControl.               *)
(***************************************************************************)
EXTENDS MessageService, TLAPS

-----------------------------------------------------------------------------
(* The three ways a statement ends for its handler.                        *)

\* The fields of a call.
LEMMA CallFields ==
    ASSUME NEW c \in Calls
    PROVE  /\ c # None
           /\ c.user \in Users
           /\ c.op \in {"send", "list", "get", "delete", "forward", "grant", "revoke"}
           /\ c.op \in {"get", "delete", "forward", "grant", "revoke"} => c.msg \in Messages
           /\ c.op \in {"send", "forward", "grant", "revoke"} => c.target \in Users
BY NoneIsFresh DEF Calls

\* The fields of a row.
LEMMA RowFields ==
    ASSUME NEW w \in Rows
    PROVE  w # None /\ w.sender \in Users /\ w.recipient \in Users
BY NoneIsFresh DEF Rows

\* The control variables keep their types.
ControlTyped ==
    /\ call' \in [Requests -> Calls \cup {None}]
    /\ pc' \in [Requests -> Stages]
    /\ row' \in [Requests -> Rows \cup {None}]
    /\ status' \in [Requests -> Statuses]
    /\ seen' \in [Requests -> SUBSET Messages]

\* The slot of q is untouched.
Same(q) ==
    /\ call'[q] = call[q] /\ pc'[q] = pc[q] /\ row'[q] = row[q]
    /\ status'[q] = status[q] /\ seen'[q] = seen[q]

\* Going on changes the stage and the copy of the row.
LEMMA GotoFacts ==
    ASSUME TypeOK, NEW r \in Requests, NEW stage \in Stages,
           NEW msg \in Rows \cup {None}, Goto(r, stage, msg)
    PROVE  /\ ControlTyped
           /\ pc'[r] = stage /\ row'[r] = msg /\ call'[r] = call[r]
           /\ status'[r] = status[r] /\ seen'[r] = seen[r]
           /\ \A q \in Requests \ {r} : Same(q)
BY DEF TypeOK, Goto, ControlTyped, Same

\* Answering ends the request with a status and a body.
LEMMA AnswerFacts ==
    ASSUME TypeOK, NEW r \in Requests, NEW code \in Statuses,
           NEW shown \in SUBSET Messages, Answer(r, code, shown)
    PROVE  /\ ControlTyped
           /\ pc'[r] = "done" /\ row'[r] = None /\ call'[r] = call[r]
           /\ status'[r] = code /\ seen'[r] = shown
           /\ \A q \in Requests \ {r} : Same(q)
BY DEF TypeOK, Answer, ControlTyped, Same, Stages

\* Committing leaves only the reply to be sent.
LEMMA CommittedFacts ==
    ASSUME TypeOK, NEW r \in Requests, NEW code \in Statuses, Committed(r, code)
    PROVE  /\ ControlTyped
           /\ pc'[r] = "reply" /\ row'[r] = None /\ call'[r] = call[r]
           /\ status'[r] = code /\ seen'[r] = seen[r]
           /\ \A q \in Requests \ {r} : Same(q)
BY DEF TypeOK, Committed, ControlTyped, Same, Stages

-----------------------------------------------------------------------------
(* What the branching steps of a handler can be.                           *)

\* A slot that is not idle serves a call.
LEMMA BusyCall ==
    ASSUME IInv, NEW r \in Requests, pc[r] # "idle"
    PROVE  call[r] \in Calls
BY DEF IInv, TypeOK, RequestOK, SlotOK

\* The outcomes of loading the message, with what each has tested.
LEMMA LoadFacts ==
    ASSUME IInv, NEW r \in Requests, Load(r)
    PROVE  LET m == call[r].msg  u == call[r].user  w == messages[m] IN
           /\ UNCHANGED tables
           /\ m \in Messages
           /\ pc[r] = "begin"
           /\ call[r].op \in {"get", "delete", "forward", "grant", "revoke"}
           /\ \/ w = None /\ Answer(r, 404, {})
              \/ /\ w \in Rows /\ m \in issued
                 /\ \/ /\ call[r].op = "get" /\ u \in Parties(w)
                       /\ Answer(r, 200, {m})
                    \/ /\ call[r].op = "forward" /\ u \in Parties(w)
                       /\ call[r].target # u /\ Goto(r, "user", w)
                    \/ /\ call[r].op = "forward" /\ u \in Parties(w)
                       /\ call[r].target = u /\ Answer(r, 400, {})
                    \/ /\ call[r].op \in {"get", "forward"} /\ u \notin Parties(w)
                       /\ Goto(r, "access", w)
                    \/ call[r].op = "delete" /\ u \in Parties(w) /\ Goto(r, "write", w)
                    \/ call[r].op = "grant" /\ u = w.sender /\ Goto(r, "user", w)
                    \/ call[r].op = "revoke" /\ u = w.sender /\ Goto(r, "access", w)
                    \/ call[r].op = "delete" /\ u \notin Parties(w) /\ Answer(r, 403, {})
                    \/ call[r].op \in {"grant", "revoke"} /\ u # w.sender /\ Answer(r, 403, {})
<1> DEFINE m == call[r].msg
<1>1. call[r] \in Calls
  BY BusyCall DEF Load, At
<1>2. call[r].op \in {"get", "delete", "forward", "grant", "revoke"}
  BY DEF Load, At
<1>3. m \in Messages
  BY <1>1, <1>2, CallFields
<1>4. messages[m] # None => messages[m] \in Rows /\ m \in issued
  BY <1>3 DEF IInv, TypeOK, TablesOK
<1> QED
  BY <1>2, <1>3, <1>4 DEF Load, Loaded, Allowed, CheckRecipient, At

-----------------------------------------------------------------------------
(* The tables.                                                             *)

\* The table variables keep their types.
TablesTyped ==
    /\ registered' \subseteq Users
    /\ messages' \in [Messages -> Rows \cup {None}]
    /\ issued' \subseteq Messages
    /\ access' \in [Messages -> [Users -> Grants]]

\* What no step undoes: users stay, ids stay issued, rows are immutable.
Monotone ==
    /\ registered \subseteq registered'
    /\ issued \subseteq issued'
    /\ \A m \in issued : messages'[m] \in {messages[m], None}

\* Every step keeps the tables typed, monotone and consistent.
LEMMA TablesStep ==
    ASSUME IInv, Act
    PROVE  TablesTyped /\ Monotone /\ TablesOK'
<1> DEFINE Goal == TablesTyped /\ Monotone /\ TablesOK'
<1>0. UNCHANGED tables => Goal
  BY DEF IInv, TypeOK, TablesOK, GrantsAttached, tables, TablesTyped, Monotone
<1>1. CASE \E u \in Users : Register(u)
  BY <1>1 DEF Register, IInv, TypeOK, TablesOK, GrantsAttached, TablesTyped, Monotone
<1>2. ASSUME NEW r \in Requests, NEW m \in Messages, Create(r, m)
      PROVE  Goal
  <2>1. call[r] \in Calls /\ call[r].op \in {"send", "forward"}
    BY <1>2, BusyCall DEF Create, At
  <2>2. [sender |-> call[r].user, recipient |-> call[r].target] \in Rows
    BY <2>1, CallFields DEF Rows
  <2>3. TablesTyped /\ Monotone
    BY <1>2, <2>2 DEF Create, IInv, TypeOK, TablesTyped, Monotone
  <2>4. messages[m] = None
    BY <1>2 DEF Create, IInv, TablesOK
  <2>5. TablesOK'
    BY <1>2, <2>4 DEF Create, IInv, TypeOK, TablesOK, GrantsAttached
  <2> QED
    BY <2>3, <2>5
<1>3. ASSUME NEW r \in Requests, Delete(r)
      PROVE  Goal
  <2>1. call[r].msg \in Messages
    BY <1>3, BusyCall, CallFields DEF Delete, At
  <2>2. [u \in Users |-> "none"] \in [Users -> Grants]
    BY DEF Grants
  <2>3. CASE messages[call[r].msg] = None
    BY <1>0, <1>3, <2>3 DEF Delete, tables
  <2>4. CASE messages[call[r].msg] # None
    <3>1. /\ messages' = [messages EXCEPT ![call[r].msg] = None]
          /\ access' = [access EXCEPT ![call[r].msg] = [u \in Users |-> "none"]]
          /\ registered' = registered /\ issued' = issued
      BY <1>3, <2>4 DEF Delete, Cascade
    <3>2. TablesTyped
      BY <2>1, <2>2, <3>1 DEF IInv, TypeOK, TablesTyped
    <3>3. Monotone
      BY <2>1, <3>1 DEF IInv, TypeOK, Monotone
    <3>4. TablesOK'
      BY <2>1, <3>1 DEF IInv, TypeOK, TablesOK, GrantsAttached
    <3> QED
      BY <3>2, <3>3, <3>4
  <2> QED
    BY <2>3, <2>4
<1>4. ASSUME NEW r \in Requests, Grant(r)
      PROVE  Goal
  <2>1. call[r].msg \in Messages /\ call[r].target \in Users
    BY <1>4, BusyCall, CallFields DEF Grant, At
  <2>2. TablesTyped /\ Monotone
    BY <1>4, <2>1 DEF Grant, IInv, TypeOK, TablesTyped, Monotone, Grants
  <2>3. /\ row[r] # None
        /\ call[r].target \notin Parties(row[r])
        /\ messages[call[r].msg] \in {row[r], None}
    BY <1>4 DEF Grant, At, IInv, RequestOK, AuthorityOK, RowOK
  <2>4. TablesOK'
    BY <1>4, <2>1, <2>3 DEF Grant, IInv, TypeOK, TablesOK, GrantsAttached
  <2> QED
    BY <2>2, <2>4
<1>5. ASSUME NEW r \in Requests, Revoke(r)
      PROVE  Goal
  <2>1. call[r].msg \in Messages /\ call[r].target \in Users
    BY <1>5, BusyCall, CallFields DEF Revoke, At
  <2>2. TablesTyped
    <3>1. /\ \/ access' = [access EXCEPT ![call[r].msg][call[r].target] = "revoked"]
             \/ access' = access
          /\ registered' = registered /\ messages' = messages /\ issued' = issued
      BY <1>5 DEF Revoke
    <3> QED
      BY <2>1, <3>1 DEF IInv, TypeOK, TablesTyped, Grants
  <2>3. Monotone
    BY <1>5 DEF Revoke, IInv, TypeOK, Monotone
  <2>4. TablesOK'
    BY <1>5, <2>1 DEF Revoke, HasAccess, IInv, TypeOK, TablesOK, GrantsAttached
  <2> QED
    BY <2>2, <2>3, <2>4
<1>6. ASSUME NEW r \in Requests,
             \/ \E c \in Calls : Receive(r, c)
             \/ Send(r) \/ List(r) \/ Load(r)
             \/ CheckGrant(r) \/ CheckTargetGrant(r)
             \/ FindRecipient(r) \/ FindTarget(r)
             \/ Reply(r) \/ Fail(r) \/ Finish(r)
      PROVE  UNCHANGED tables
  BY <1>6 DEF Receive, Send, List, Load, CheckGrant, CheckTargetGrant,
              FindRecipient, FindTarget, Reply, Fail, Finish
<1> QED
  BY <1>0, <1>1, <1>2, <1>3, <1>4, <1>5, <1>6 DEF Act, Handle

-----------------------------------------------------------------------------
(* The history.                                                            *)

\* Observation only widens held and narrows kept, and both account for what
\* is visible after the step.
LEMMA ObserveFacts ==
    ASSUME TypeOK, Observe, pc' \in [Requests -> Stages], NEW q \in Requests
    PROVE  /\ pc[q] = "idle" /\ pc'[q] # "idle"
                 => held'[q] = Visible(q)' /\ kept'[q] = Visible(q)'
           /\ pc[q] \in InFlight /\ pc'[q] # "idle"
                 => /\ held'[q] = held[q] \cup Visible(q)'
                    /\ kept'[q] = kept[q] \cap Visible(q)'
           /\ pc[q] = "done" /\ pc'[q] # "idle"
                 => held'[q] = held[q] /\ kept'[q] = kept[q]
           /\ pc'[q] = "idle" => held'[q] = {} /\ kept'[q] = {}
BY DEF TypeOK, Observe, InFlight, Stages

\* The two history records keep their types.
LEMMA ObserveTypes ==
    ASSUME TypeOK, Observe
    PROVE  /\ held' \in [Requests -> SUBSET Messages]
           /\ kept' \in [Requests -> SUBSET Messages]
<1>1. \A q \in Requests : Visible(q)' \subseteq Messages
  BY DEF Visible, Accessible
<1> QED
  BY <1>1 DEF TypeOK, Observe

-----------------------------------------------------------------------------
(* The slots.                                                              *)

\* A step of another request leaves what holds of q.
LEMMA OthersOK ==
    ASSUME IInv, Monotone, ControlTyped, Observe, NEW q \in Requests, Same(q)
    PROVE  RequestOK(q)'
<1>1. RequestOK(q) /\ TypeOK
  BY DEF IInv
<1>2. SlotOK(q)' /\ RowOK(q)' /\ DeleteOK(q)'
  BY <1>1 DEF RequestOK, SlotOK, RowOK, DeleteOK, Same, Monotone
<1>3. pc' \in [Requests -> Stages]
  BY DEF ControlTyped
<1>4. HistoryOK(q)'
  BY <1>1, <1>3, ObserveFacts DEF RequestOK, HistoryOK, SlotOK, Same, InFlight, TypeOK, Stages
<1>5. pc[q] \in {"user", "write"} => held[q] \subseteq held'[q]
  BY <1>1, <1>3, ObserveFacts DEF Same, InFlight
<1>6. AuthorityOK(q)'
  BY <1>1, <1>5 DEF RequestOK, AuthorityOK, Same, Monotone
<1> QED
  BY <1>2, <1>4, <1>6 DEF RequestOK

\* A request that answers within its history is in order.
LEMMA AnswerOK ==
    ASSUME IInv, Observe, NEW r \in Requests, pc[r] \in InFlight,
           NEW code \in Statuses, NEW shown \in SUBSET Messages,
           Answer(r, code, shown), shown \subseteq Visible(r)',
           call[r].op = "delete" /\ code = 200 =>
               call[r].msg \in issued' /\ messages'[call[r].msg] = None,
           call[r].op = "list" /\ code = 200 => shown = Visible(r)',
           call[r].op = "get" /\ code \in {403, 404} => call[r].msg \notin Visible(r)'
    PROVE  RequestOK(r)'
<1>1. RequestOK(r) /\ TypeOK
  BY DEF IInv
<1>2. /\ pc'[r] = "done" /\ row'[r] = None /\ call'[r] = call[r]
      /\ status'[r] = code /\ seen'[r] = shown /\ pc' \in [Requests -> Stages]
  BY <1>1, AnswerFacts DEF ControlTyped
<1>3. held'[r] = held[r] \cup Visible(r)' /\ kept'[r] = kept[r] \cap Visible(r)'
  BY <1>1, <1>2, ObserveFacts
<1>4. HistoryOK(r)'
  BY <1>2, <1>3 DEF HistoryOK, InFlight
<1>5. SlotOK(r)' /\ RowOK(r)' /\ AuthorityOK(r)' /\ DeleteOK(r)'
  BY <1>1, <1>2 DEF RequestOK, SlotOK, RowOK, AuthorityOK, DeleteOK, InFlight
<1> QED
  BY <1>4, <1>5 DEF RequestOK

\* A request that goes on with what the next statement relies on is in order.
LEMMA GotoOK ==
    ASSUME IInv, Observe, NEW r \in Requests, pc[r] \in {"begin", "access", "user"},
           NEW stage \in {"access", "user", "write"}, NEW msg \in Rows \cup {None},
           Goto(r, stage, msg), UNCHANGED tables,
           msg # None =>
             /\ call[r].op \in {"get", "delete", "forward", "grant", "revoke"}
             /\ call[r].msg \in issued /\ messages[call[r].msg] \in {msg, None},
           stage = "access" =>
             /\ msg # None /\ call[r].op \in {"get", "forward", "revoke"}
             /\ call[r].op \in {"get", "forward"} => call[r].user \notin Parties(msg)
             /\ call[r].op = "revoke" => call[r].user = msg.sender,
           stage = "user" =>
             /\ call[r].op \in {"send", "forward", "grant"}
             /\ call[r].op \in {"send", "forward"} => call[r].target # call[r].user
             /\ call[r].op = "grant" => msg # None /\ call[r].user = msg.sender,
           stage = "write" =>
             /\ call[r].op \in {"send", "forward"}
                    => call[r].target \in registered \ {call[r].user}
             /\ call[r].op \in {"delete", "grant", "revoke"} => msg # None
             /\ call[r].op = "delete" => call[r].user \in Parties(msg)
             /\ call[r].op = "grant" =>
                    /\ call[r].user = msg.sender
                    /\ call[r].target \in registered \ Parties(msg)
             /\ call[r].op = "revoke" => call[r].user = msg.sender,
           stage \in {"user", "write"} /\ call[r].op = "forward" =>
             call[r].msg \in held[r] \/ call[r].msg \in Visible(r)
    PROVE  RequestOK(r)'
<1>1. RequestOK(r) /\ TypeOK
  BY DEF IInv
<1>2. /\ pc'[r] = stage /\ row'[r] = msg /\ call'[r] = call[r]
      /\ status'[r] = status[r] /\ seen'[r] = seen[r] /\ pc' \in [Requests -> Stages]
  BY <1>1, GotoFacts DEF ControlTyped, Stages
<1>3. held'[r] = held[r] \cup Visible(r)' /\ kept'[r] = kept[r] \cap Visible(r)'
  BY <1>1, <1>2, ObserveFacts DEF InFlight
<1>4. call[r].op = "forward" => Visible(r)' = Visible(r)
  BY <1>2 DEF Visible, Accessible, tables
<1>5. SlotOK(r)' /\ RowOK(r)' /\ DeleteOK(r)'
  BY <1>1, <1>2 DEF RequestOK, SlotOK, RowOK, DeleteOK, tables
<1>6. HistoryOK(r)'
  BY <1>1, <1>2, <1>3, <1>5 DEF RequestOK, HistoryOK, SlotOK, InFlight
<1>7. AuthorityOK(r)'
  BY <1>2, <1>3, <1>4 DEF AuthorityOK, tables
<1> QED
  BY <1>5, <1>6, <1>7 DEF RequestOK

\* A request whose write is committed is in order.
LEMMA CommittedOK ==
    ASSUME IInv, Observe, NEW r \in Requests, pc[r] = "write",
           NEW code \in {200, 201}, Committed(r, code),
           call[r].op \notin {"get", "list"},
           call[r].op = "delete" =>
               call[r].msg \in issued' /\ messages'[call[r].msg] = None
    PROVE  RequestOK(r)'
<1>1. RequestOK(r) /\ TypeOK
  BY DEF IInv
<1>2. /\ pc'[r] = "reply" /\ row'[r] = None /\ call'[r] = call[r]
      /\ status'[r] = code /\ seen'[r] = seen[r] /\ pc' \in [Requests -> Stages]
  BY <1>1, CommittedFacts DEF ControlTyped, Statuses
<1>3. held'[r] = held[r] \cup Visible(r)' /\ kept'[r] = kept[r] \cap Visible(r)'
  BY <1>1, <1>2, ObserveFacts DEF InFlight
<1>4. SlotOK(r)' /\ RowOK(r)' /\ DeleteOK(r)' /\ AuthorityOK(r)'
  BY <1>1, <1>2 DEF RequestOK, SlotOK, RowOK, DeleteOK, AuthorityOK
<1>5. HistoryOK(r)'
  BY <1>1, <1>2, <1>3, <1>4 DEF RequestOK, HistoryOK, SlotOK, InFlight
<1> QED
  BY <1>4, <1>5 DEF RequestOK

\* The list query returns what is accessible.
LEMMA ListedIsAccessible ==
    ASSUME TypeOK, NEW u \in Users
    PROVE  ListedFor(u) = Accessible(u)
BY DEF ListedFor, Accessible, HasAccess, Parties

\* Visibility depends on the tables and the caller alone.
LEMMA VisibleStays ==
    ASSUME NEW r \in Requests, UNCHANGED tables, call'[r] = call[r]
    PROVE  Visible(r)' = Visible(r)
BY DEF Visible, Accessible, tables

\* What the acting request and its step guarantee.
Self(r) ==
    RequestOK(r)' /\ ControlTyped /\ \A q \in Requests \ {r} : Same(q)

\* Loading the message (get_by_id and the ownership tests) leaves its request
\* in order.
LEMMA LoadSelf ==
    ASSUME IInv, Observe, NEW r \in Requests, Load(r)
    PROVE  Self(r)
<1> DEFINE m == call[r].msg  u == call[r].user  w == messages[m]
<1>0. TypeOK /\ pc[r] \in InFlight /\ pc[r] = "begin" /\ m \in Messages /\ UNCHANGED tables
  BY LoadFacts DEF IInv, InFlight
<1>1. ASSUME call'[r] = call[r]
      PROVE  /\ Visible(r)' = Visible(r)
             /\ w = None => m \notin Visible(r)
             /\ w # None /\ u \in Parties(w) => m \in Visible(r)
             /\ w # None /\ u \notin Parties(w) => (m \in Visible(r) <=> HasAccess(m, u))
  BY <1>0, <1>1, VisibleStays DEF Visible, Accessible, HasAccess
<1>2. ASSUME NEW code \in {200, 400, 403, 404}, NEW shown \in SUBSET Messages,
             Answer(r, code, shown),
             code = 404 \/ call[r].op \in {"forward", "delete", "grant", "revoke"} \/ code = 200,
             code = 200 => call[r].op = "get",
             code = 404 => w = None,
             shown \subseteq Visible(r)
      PROVE  Self(r)
  <2>1. code \in Statuses
    BY DEF Statuses
  <2>2. ControlTyped /\ call'[r] = call[r] /\ \A q \in Requests \ {r} : Same(q)
    BY <1>0, <1>2, <2>1, AnswerFacts
  <2>3. RequestOK(r)'
    BY <1>0, <1>1, <1>2, <2>1, <2>2, AnswerOK
  <2> QED
    BY <2>2, <2>3 DEF Self
<1>3. ASSUME NEW stage \in {"access", "user", "write"}, Goto(r, stage, w), w \in Rows,
             \/ stage = "user" /\ call[r].op = "forward" /\ u \in Parties(w)
                  /\ call[r].target # u
             \/ stage = "access" /\ call[r].op \in {"get", "forward"}
                  /\ u \notin Parties(w)
             \/ stage = "write" /\ call[r].op = "delete" /\ u \in Parties(w)
             \/ stage = "user" /\ call[r].op = "grant" /\ u = w.sender
             \/ stage = "access" /\ call[r].op = "revoke" /\ u = w.sender
      PROVE  Self(r)
  <2>1. stage \in Stages /\ w # None /\ m \in issued
    BY <1>0, <1>3, RowFields DEF Stages, IInv, TablesOK
  <2>2. ControlTyped /\ call'[r] = call[r] /\ \A q \in Requests \ {r} : Same(q)
    BY <1>0, <1>3, <2>1, GotoFacts
  <2>3. RequestOK(r)'
    BY <1>0, <1>1, <1>3, <2>1, <2>2, GotoOK
  <2> QED
    BY <2>2, <2>3 DEF Self
<1>4. w \in Rows => /\ call[r].op = "get" /\ u \in Parties(w) => {m} \subseteq Visible(r)
  BY <1>0, RowFields DEF Visible, Accessible
<1>5. ASSUME w = None, Answer(r, 404, {})
      PROVE  Self(r)
  BY <1>0, <1>2, <1>5
<1>6. ASSUME w \in Rows
      PROVE  Self(r)
  <2>1. ASSUME call[r].op = "get", u \in Parties(w), Answer(r, 200, {m})
        PROVE  Self(r)
    BY <1>0, <1>2, <1>4, <1>6, <2>1
  <2>2. ASSUME call[r].op = "forward", Answer(r, 400, {})
        PROVE  Self(r)
    BY <1>0, <1>2, <2>2
  <2>3. ASSUME call[r].op \in {"delete", "grant", "revoke"}, Answer(r, 403, {})
        PROVE  Self(r)
    BY <1>0, <1>2, <2>3
  <2>4. ASSUME call[r].op = "forward", u \in Parties(w),
               call[r].target # u, Goto(r, "user", w)
        PROVE  Self(r)
    BY <1>3, <1>6, <2>4
  <2>5. ASSUME call[r].op \in {"get", "forward"}, u \notin Parties(w),
               Goto(r, "access", w)
        PROVE  Self(r)
    BY <1>3, <1>6, <2>5
  <2>6. ASSUME call[r].op = "delete", u \in Parties(w), Goto(r, "write", w)
        PROVE  Self(r)
    BY <1>3, <1>6, <2>6
  <2>7. ASSUME call[r].op = "grant", u = w.sender, Goto(r, "user", w)
        PROVE  Self(r)
    BY <1>3, <1>6, <2>7
  <2>8. ASSUME call[r].op = "revoke", u = w.sender, Goto(r, "access", w)
        PROVE  Self(r)
    BY <1>3, <1>6, <2>8
  <2> QED
    BY LoadFacts, <1>5, <2>1, <2>2, <2>3, <2>4, <2>5, <2>6, <2>7, <2>8
<1> QED
  BY LoadFacts, <1>5, <1>6

\* So does the has_access query of _can_access,
LEMMA CheckGrantSelf ==
    ASSUME IInv, Observe, NEW r \in Requests, CheckGrant(r)
    PROVE  Self(r)
<1> DEFINE m == call[r].msg  u == call[r].user
<1>0. /\ TypeOK /\ pc[r] \in InFlight /\ pc[r] = "access" /\ UNCHANGED tables
      /\ call[r].op \in {"get", "forward"}
  BY DEF CheckGrant, At, IInv, InFlight
<1>1. call[r] \in Calls /\ m \in Messages
  BY <1>0, BusyCall, CallFields
<1>2. /\ row[r] # None /\ row[r] \in Rows \cup {None} /\ m \in issued
      /\ messages[m] \in {row[r], None}
  BY <1>0 DEF IInv, TypeOK, RequestOK, AuthorityOK, RowOK
<1>3. CASE HasAccess(m, u)
  <2>1. m \in Visible(r)
    BY <1>0, <1>1, <1>3, CallFields DEF IInv, TablesOK, GrantsAttached, HasAccess,
       Visible, Accessible
  <2>2. CASE Answer(r, 200, {m}) /\ call[r].op = "get"
    <3>1. ControlTyped /\ call'[r] = call[r] /\ \A q \in Requests \ {r} : Same(q)
      BY <1>0, <1>1, <2>2, AnswerFacts DEF Statuses
    <3>2. RequestOK(r)'
      BY <1>0, <1>1, <2>1, <2>2, <3>1, VisibleStays, AnswerOK DEF Statuses
    <3> QED
      BY <3>1, <3>2 DEF Self
  <2>3. CASE Answer(r, 400, {}) /\ call[r].op = "forward"
    <3>1. ControlTyped /\ call'[r] = call[r] /\ \A q \in Requests \ {r} : Same(q)
      BY <1>0, <1>1, <2>3, AnswerFacts DEF Statuses
    <3>2. RequestOK(r)'
      BY <1>0, <1>1, <2>1, <2>3, <3>1, VisibleStays, AnswerOK DEF Statuses
    <3> QED
      BY <3>1, <3>2 DEF Self
  <2>4. CASE Goto(r, "user", row[r]) /\ call[r].op = "forward" /\ call[r].target # u
    <3>1. ControlTyped /\ call'[r] = call[r] /\ \A q \in Requests \ {r} : Same(q)
      BY <1>0, <1>2, <2>4, GotoFacts DEF Stages
    <3>2. RequestOK(r)'
      BY <1>0, <1>1, <1>2, <2>1, <2>4, GotoOK
    <3> QED
      BY <3>1, <3>2 DEF Self
  <2> QED
    BY <1>3, <2>2, <2>3, <2>4 DEF CheckGrant, Allowed, CheckRecipient
<1>4. CASE ~HasAccess(m, u)
  <2>1. Answer(r, 403, {})
    BY <1>4 DEF CheckGrant
  <2>2. ControlTyped /\ call'[r] = call[r] /\ \A q \in Requests \ {r} : Same(q)
    BY <1>0, <2>1, AnswerFacts DEF Statuses
  <2>3. u \notin Parties(row[r])
    BY <1>0 DEF IInv, RequestOK, AuthorityOK
  <2>4. m \notin Visible(r)
    BY <1>2, <1>4, <2>3 DEF Visible, Accessible, HasAccess
  <2>5. RequestOK(r)'
    BY <1>0, <2>1, <2>2, <2>4, VisibleStays, AnswerOK DEF Statuses
  <2> QED
    BY <2>2, <2>5 DEF Self
<1> QED
  BY <1>3, <1>4

\* A request that has shown nothing and answers other than 200, 403 or 404.
LEMMA PlainAnswerSelf ==
    ASSUME IInv, Observe, NEW r \in Requests, pc[r] \in InFlight,
           NEW code \in Statuses, Answer(r, code, {}),
           code \in {400, 409, 500} \/ call[r].op \notin {"get", "list", "delete"}
    PROVE  Self(r)
<1>1. ControlTyped /\ \A q \in Requests \ {r} : Same(q)
  BY AnswerFacts DEF IInv
<1>2. RequestOK(r)'
  BY AnswerOK
<1> QED
  BY <1>1, <1>2 DEF Self

\* ... the queries about the target user and the target's grant,
LEMMA LookupSelf ==
    ASSUME IInv, Observe, NEW r \in Requests,
           CheckTargetGrant(r) \/ FindRecipient(r) \/ FindTarget(r)
    PROVE  Self(r)
<1>1. /\ TypeOK /\ pc[r] \in InFlight /\ pc[r] \in {"access", "user"}
      /\ UNCHANGED tables /\ row[r] \in Rows \cup {None}
      /\ call[r].op \in {"send", "forward", "grant", "revoke"}
  BY DEF CheckTargetGrant, FindRecipient, FindTarget, At, IInv, TypeOK, InFlight
<1>2. RowOK(r) /\ AuthorityOK(r)
  BY DEF IInv, RequestOK
<1>3. CASE Answer(r, 404, {}) \/ Answer(r, 409, {})
  BY <1>1, <1>3, PlainAnswerSelf DEF Statuses
<1>4. CASE Goto(r, "write", row[r])
  <2>1. ControlTyped /\ \A q \in Requests \ {r} : Same(q)
    BY <1>1, <1>4, GotoFacts DEF Stages
  <2>2. /\ row[r] # None => /\ call[r].msg \in issued
                            /\ messages[call[r].msg] \in {row[r], None}
                            /\ call[r].op \in {"get", "delete", "forward", "grant", "revoke"}
        /\ call[r].op = "forward" => call[r].msg \in held[r]
    BY <1>1, <1>2 DEF RowOK, AuthorityOK, CheckTargetGrant, FindRecipient, FindTarget, At
  <2>3. CASE CheckTargetGrant(r)
    BY <1>1, <1>2, <1>4, <2>1, <2>2, <2>3, GotoOK DEF AuthorityOK, CheckTargetGrant, At, Self
  <2>4. CASE FindRecipient(r) /\ call[r].target \in registered
    BY <1>1, <1>2, <1>4, <2>1, <2>2, <2>4, GotoOK DEF AuthorityOK, FindRecipient, At, Self
  <2>5. CASE FindTarget(r) /\ call[r].target \in registered \ Parties(row[r])
    BY <1>1, <1>2, <1>4, <2>1, <2>2, <2>5, GotoOK DEF AuthorityOK, FindTarget, At, Self
  <2>6. CASE FindRecipient(r) /\ call[r].target \notin registered
    BY <1>1, <1>3, <2>6 DEF FindRecipient
  <2>7. CASE FindTarget(r) /\ call[r].target \notin registered \ Parties(row[r])
    BY <1>1, <1>3, <2>7 DEF FindTarget
  <2> QED
    BY <2>3, <2>4, <2>5, <2>6, <2>7
<1> QED
  BY <1>3, <1>4 DEF CheckTargetGrant, FindRecipient, FindTarget

\* ... the first step of a send and the one statement of a list,
LEMMA OpeningSelf ==
    ASSUME IInv, Observe, NEW r \in Requests, Send(r) \/ List(r)
    PROVE  Self(r)
<1>1. TypeOK /\ pc[r] \in InFlight /\ pc[r] = "begin" /\ UNCHANGED tables
  BY DEF Send, List, At, IInv, InFlight
<1>2. call[r] \in Calls /\ call[r].user \in Users
  BY <1>1, BusyCall, CallFields
<1>3. CASE Send(r) /\ Answer(r, 400, {})
  BY <1>1, <1>3, PlainAnswerSelf DEF Statuses
<1>4. CASE Send(r) /\ call[r].target # call[r].user /\ Goto(r, "user", None)
  <2>1. ControlTyped /\ \A q \in Requests \ {r} : Same(q)
    BY <1>1, <1>4, GotoFacts DEF Stages
  <2>2. RequestOK(r)'
    BY <1>1, <1>4, GotoOK DEF Send, At
  <2> QED
    BY <2>1, <2>2 DEF Self
<1>5. CASE List(r)
  <2>1. Answer(r, 200, Visible(r)) /\ call[r].op = "list"
    BY <1>1, <1>2, <1>5, ListedIsAccessible DEF List, At, Visible
  <2>2. Visible(r) \in SUBSET Messages
    BY DEF Visible, Accessible
  <2>3. /\ ControlTyped /\ \A q \in Requests \ {r} : Same(q)
        /\ call'[r] = call[r]
    BY <1>1, <2>1, <2>2, AnswerFacts DEF Statuses
  <2>4. RequestOK(r)'
    BY <1>1, <2>1, <2>2, <2>3, VisibleStays, AnswerOK DEF Statuses
  <2> QED
    BY <2>3, <2>4 DEF Self
<1> QED
  BY <1>3, <1>4, <1>5 DEF Send, CheckRecipient

\* ... the writing statement with its commit,
LEMMA WriteSelf ==
    ASSUME IInv, Observe, NEW r \in Requests,
           (\E m \in Messages : Create(r, m)) \/ Delete(r) \/ Grant(r) \/ Revoke(r)
    PROVE  Self(r)
<1>1. TypeOK /\ pc[r] = "write" /\ pc[r] \in InFlight
  BY DEF Create, Delete, Grant, Revoke, At, IInv, InFlight
<1>2. call[r] \in Calls /\ RowOK(r) /\ AuthorityOK(r)
  BY <1>1, BusyCall DEF IInv, RequestOK
<1>3. CASE Answer(r, 500, {})
  BY <1>1, <1>3, PlainAnswerSelf DEF Statuses
<1>4. ASSUME NEW code \in {200, 201}, Committed(r, code), call[r].op \notin {"get", "list"},
             call[r].op = "delete" =>
                 call[r].msg \in issued' /\ messages'[call[r].msg] = None
      PROVE  Self(r)
  <2>1. ControlTyped /\ \A q \in Requests \ {r} : Same(q)
    BY <1>1, <1>4, CommittedFacts DEF Statuses
  <2>2. RequestOK(r)'
    BY <1>1, <1>4, CommittedOK
  <2> QED
    BY <2>1, <2>2 DEF Self
<1>5. ASSUME NEW m \in Messages, Create(r, m)
      PROVE  Self(r)
  BY <1>4, <1>5 DEF Create, At
<1>6. CASE Delete(r)
  <2>1. CASE messages[call[r].msg] = None
    BY <1>3, <1>6, <2>1 DEF Delete
  <2>2. CASE messages[call[r].msg] # None
    <3>1. call[r].msg \in Messages /\ call[r].msg \in issued
      BY <1>2, <1>6, <2>2, CallFields DEF Delete, At, IInv, TablesOK
    <3>2. call[r].msg \in issued' /\ messages'[call[r].msg] = None
      BY <1>1, <1>6, <2>2, <3>1 DEF Delete, TypeOK
    <3> QED
      BY <1>4, <1>6, <2>2, <3>2 DEF Delete, At
  <2> QED
    BY <2>1, <2>2
<1>7. CASE Grant(r)
  BY <1>3, <1>4, <1>7 DEF Grant, At
<1>8. CASE Revoke(r)
  <2>1. Answer(r, 500, {}) \/ Committed(r, 200)
    BY <1>8 DEF Revoke
  <2> QED
    BY <1>3, <1>4, <1>8, <2>1 DEF Revoke, At
<1> QED
  BY <1>5, <1>6, <1>7, <1>8

\* ... the reply and a failure,
LEMMA ClosingSelf ==
    ASSUME IInv, Observe, NEW r \in Requests, Reply(r) \/ Fail(r)
    PROVE  Self(r)
<1>1. TypeOK /\ pc[r] \in InFlight /\ SlotOK(r) /\ DeleteOK(r) /\ UNCHANGED tables
  BY DEF Reply, Fail, IInv, RequestOK, InFlight
<1>2. CASE Fail(r)
  BY <1>1, <1>2, PlainAnswerSelf DEF Fail, Statuses
<1>3. CASE Reply(r)
  <2>1. /\ Answer(r, status[r], {}) /\ status[r] \in {200, 201}
        /\ call[r].op \notin {"get", "list"}
    BY <1>1, <1>3 DEF Reply, SlotOK
  <2>2. ControlTyped /\ \A q \in Requests \ {r} : Same(q)
    BY <1>1, <2>1, AnswerFacts DEF Statuses
  <2>3. RequestOK(r)'
    BY <1>1, <2>1, AnswerOK DEF Statuses, DeleteOK, tables
  <2> QED
    BY <2>2, <2>3 DEF Self
<1> QED
  BY <1>2, <1>3

\* ... and the arrival of a call and the end of its connection.
LEMMA SlotSelf ==
    ASSUME IInv, Observe, NEW r \in Requests,
           (\E c \in Calls : Receive(r, c)) \/ Finish(r)
    PROVE  Self(r)
<1>1. TypeOK /\ RequestOK(r)
  BY DEF IInv
<1>2. ASSUME NEW c \in Calls, Receive(r, c)
      PROVE  Self(r)
  <2>1. /\ ControlTyped /\ \A q \in Requests \ {r} : Same(q)
        /\ pc[r] = "idle" /\ pc'[r] = "begin" /\ call'[r] = c
        /\ status'[r] = status[r] /\ seen'[r] = seen[r] /\ row'[r] = row[r]
    BY <1>1, <1>2 DEF Receive, TypeOK, ControlTyped, Same, Stages
  <2>2. held'[r] = Visible(r)' /\ kept'[r] = Visible(r)'
    BY <1>1, <2>1, ObserveFacts DEF ControlTyped
  <2>3. c # None /\ row[r] = None /\ status[r] = 0 /\ seen[r] = {}
    BY <1>1, <2>1, CallFields DEF RequestOK, RowOK, SlotOK
  <2>4. RequestOK(r)'
    BY <2>1, <2>2, <2>3 DEF RequestOK, SlotOK, RowOK, AuthorityOK, HistoryOK, DeleteOK, InFlight
  <2> QED
    BY <2>1, <2>4 DEF Self
<1>3. ASSUME Finish(r)
      PROVE  Self(r)
  <2>1. /\ ControlTyped /\ \A q \in Requests \ {r} : Same(q)
        /\ pc[r] = "done" /\ pc'[r] = "idle" /\ call'[r] = None
        /\ status'[r] = 0 /\ seen'[r] = {} /\ row'[r] = row[r]
    BY <1>1, <1>3 DEF Finish, TypeOK, ControlTyped, Same, Stages, Statuses
  <2>2. row[r] = None
    BY <1>1, <2>1 DEF RequestOK, RowOK
  <2>3. held'[r] = {} /\ kept'[r] = {}
    BY <1>1, <2>1, ObserveFacts DEF ControlTyped
  <2>4. RequestOK(r)'
    BY <2>1, <2>2, <2>3 DEF RequestOK, SlotOK, RowOK, AuthorityOK, HistoryOK, DeleteOK, InFlight
  <2> QED
    BY <2>1, <2>4 DEF Self
<1> QED
  BY <1>2, <1>3

-----------------------------------------------------------------------------
(* The invariant.                                                          *)

\* Whatever acts, its own slot and all the others are in order afterwards.
LEMMA ActorSelf ==
    ASSUME IInv, Observe, NEW r \in Requests,
           (\E c \in Calls : Receive(r, c)) \/ Handle(r) \/ Finish(r)
    PROVE  Self(r)
BY LoadSelf, CheckGrantSelf, LookupSelf, OpeningSelf, WriteSelf, ClosingSelf, SlotSelf
   DEF Handle

\* The inductive invariant holds initially,
LEMMA InitInv == Init => IInv
<1> SUFFICES ASSUME Init PROVE IInv
  OBVIOUS
<1>1. TypeOK
  BY DEF Init, TypeOK, Grants, Stages, Statuses
<1>2. TablesOK
  BY DEF Init, TablesOK, GrantsAttached
<1>3. \A r \in Requests : RequestOK(r)
  BY DEF Init, RequestOK, SlotOK, RowOK, AuthorityOK, HistoryOK, DeleteOK, InFlight
<1> QED
  BY <1>1, <1>2, <1>3 DEF IInv

\* ... every step preserves it,
LEMMA NextInv == IInv /\ Next => IInv'
<1> SUFFICES ASSUME IInv, Act, Observe PROVE IInv'
  BY DEF Next
<1>1. TablesTyped /\ Monotone /\ TablesOK'
  BY TablesStep
<1>2. CASE \E u \in Users : Register(u)
  <2>1. ControlTyped /\ \A q \in Requests : Same(q)
    BY <1>2 DEF Register, IInv, TypeOK, ControlTyped, Same
  <2>2. \A q \in Requests : RequestOK(q)'
    BY <1>1, <2>1, OthersOK
  <2> QED
    BY <1>1, <2>1, <2>2, ObserveTypes DEF IInv, TypeOK, TablesTyped, ControlTyped
<1>3. ASSUME NEW r \in Requests,
             (\E c \in Calls : Receive(r, c)) \/ Handle(r) \/ Finish(r)
      PROVE  IInv'
  <2>1. Self(r)
    BY <1>3, ActorSelf
  <2>2. \A q \in Requests : RequestOK(q)'
    BY <1>1, <2>1, OthersOK DEF Self
  <2> QED
    BY <1>1, <2>1, <2>2, ObserveTypes DEF IInv, TypeOK, TablesTyped, ControlTyped, Self
<1> QED
  BY <1>2, <1>3 DEF Act

\* ... and a stuttering step does too.
LEMMA StutterInv == IInv /\ UNCHANGED vars => IInv'
<1> SUFFICES ASSUME IInv, UNCHANGED vars PROVE IInv'
  OBVIOUS
<1>1. TypeOK' /\ TablesOK'
  BY DEF IInv, TypeOK, TablesOK, GrantsAttached, vars, tables
<1>2. ASSUME NEW r \in Requests PROVE RequestOK(r)'
  BY DEF IInv, RequestOK, SlotOK, RowOK, AuthorityOK, HistoryOK, DeleteOK,
         Visible, Accessible, vars, tables
<1> QED
  BY <1>1, <1>2 DEF IInv

\* The inductive invariant holds in every reachable state.
THEOREM Invariance == Spec => []IInv
<1>1. IInv /\ [Next]_vars => IInv'
  BY NextInv, StutterInv
<1> QED
  BY InitInv, <1>1, PTL DEF Spec

\* Every variable keeps its type.
THEOREM Typing == Spec => []TypeOK
<1>1. IInv => TypeOK
  BY DEF IInv
<1> QED
  BY Invariance, <1>1, PTL

\* No answer shows a message its user could not read at some moment of the
\* request, for any number of concurrent grants, revocations and deletes.
THEOREM ReadsAreAuthorised == Spec => []ReadsAuthorised
<1>1. IInv => ReadsAuthorised
  BY DEF IInv, RequestOK, HistoryOK, ReadsAuthorised
<1> QED
  BY Invariance, <1>1, PTL

\* No answer hides a message its user could read during the whole request.
THEOREM ReadsAreComplete == Spec => []ReadsComplete
<1>1. IInv => ReadsComplete
  BY DEF IInv, RequestOK, HistoryOK, ReadsComplete
<1> QED
  BY Invariance, <1>1, PTL

\* Grants hang on live messages and are never held by a party.
THEOREM GrantsAreAttached == Spec => []GrantsAttached
<1>1. IInv => GrantsAttached
  BY DEF IInv, TablesOK
<1> QED
  BY Invariance, <1>1, PTL

\* A request comes to hold an acknowledged delete by deleting a row.
Acked(r) == status[r] = 200 /\ call[r].op = "delete"

\* A step that leaves r holding an acknowledged delete keeps its call, and
\* either r held it before or the message was still there.
LEMMA AckStep ==
    ASSUME IInv, NEW r \in Requests, Acked(r)',
           (\E c \in Calls : Receive(r, c)) \/ Handle(r) \/ Finish(r)
    PROVE  /\ call'[r] = call[r]
           /\ Acked(r) \/ messages[call[r].msg] # None
<1>1. TypeOK /\ SlotOK(r) /\ RequestOK(r)
  BY DEF IInv, RequestOK
<1>2. CASE \E c \in Calls : Receive(r, c)
  BY <1>1, <1>2 DEF Receive, SlotOK, Acked
<1>3. CASE Finish(r)
  BY <1>1, <1>3 DEF Finish, TypeOK, Acked
<1>4. CASE Load(r)
  BY <1>1, <1>4, LoadFacts DEF Answer, Goto, TypeOK, Acked, SlotOK
<1>5. CASE Delete(r)
  BY <1>1, <1>5 DEF Delete, Committed, Answer, TypeOK, Acked
<1>6. CASE Reply(r)
  BY <1>1, <1>6 DEF Reply, Answer, TypeOK, Acked
<1>7. CASE Fail(r)
  BY <1>1, <1>7 DEF Fail, Answer, TypeOK, Acked
<1>8. CASE \/ Send(r) \/ List(r) \/ CheckGrant(r) \/ CheckTargetGrant(r)
           \/ FindRecipient(r) \/ FindTarget(r)
  <2>1. call[r].op # "delete" /\ UNCHANGED call
    BY <1>8 DEF Send, List, CheckGrant, CheckTargetGrant, FindRecipient, FindTarget,
                At, Allowed, CheckRecipient, Answer, Goto
  <2> QED
    BY <2>1 DEF Acked
<1>9. CASE (\E m \in Messages : Create(r, m)) \/ Grant(r) \/ Revoke(r)
  <2>1. call[r].op # "delete" /\ UNCHANGED call
    BY <1>9 DEF Create, Grant, Revoke, At, Committed, Answer
  <2> QED
    BY <2>1 DEF Acked
<1> QED
  BY <1>2, <1>3, <1>4, <1>5, <1>6, <1>7, <1>8, <1>9 DEF Handle

\* At most one of the requests that delete a message is told it did.
THEOREM DeletesAreAckedOnce == Spec => []DeletesAckedOnce
<1>1. Init => DeletesAckedOnce
  BY DEF Init, DeletesAckedOnce
<1>2. IInv /\ DeletesAckedOnce /\ [Next]_vars => DeletesAckedOnce'
  <2> SUFFICES ASSUME IInv, DeletesAckedOnce, [Next]_vars,
                      NEW p \in Requests, NEW q \in Requests, p # q,
                      Acked(p)', Acked(q)', call'[p].msg = call'[q].msg
               PROVE  FALSE
    BY DEF DeletesAckedOnce, Acked
  <2>1. DeleteOK(p) /\ DeleteOK(q)
    BY DEF IInv, RequestOK
  <2>2. ~(Acked(p) /\ Acked(q) /\ call[p].msg = call[q].msg)
    BY DEF DeletesAckedOnce, Acked
  <2>3. CASE UNCHANGED vars
    BY <2>2, <2>3 DEF vars, Acked
  <2>4. CASE \E u \in Users : Register(u)
    BY <2>2, <2>4 DEF Register, Acked
  <2>5. ASSUME NEW r \in Requests,
               (\E c \in Calls : Receive(r, c)) \/ Handle(r) \/ Finish(r), Observe
        PROVE  FALSE
    <3>1. \A s \in Requests \ {r} : Same(s)
      BY <2>5, ActorSelf DEF Self
    <3>2. \A s \in Requests \ {r} : call'[s] = call[s] /\ (Acked(s)' <=> Acked(s))
      BY <3>1 DEF Same, Acked
    <3>3. Acked(r)' => call'[r] = call[r] /\ (Acked(r) \/ messages[call[r].msg] # None)
      BY <2>5, AckStep
    <3> QED
      BY <2>1, <2>2, <3>2, <3>3 DEF DeleteOK, Acked
  <2> QED
    BY <2>3, <2>4, <2>5 DEF Next, Act
<1> QED
  BY Invariance, <1>1, <1>2, PTL DEF Spec

-----------------------------------------------------------------------------
(* The refinement.                                                         *)

\* phase and reply of the contract, as functions of the handlers' state.
Ph == [r \in Requests |-> Phase(r)]
Rp == [r \in Requests |-> Kind(r)]

\* The two history records are kept by the same rule.
LEMMA ObserveMapped ==
    ASSUME TypeOK, Observe, ControlTyped
    PROVE  Contract!Observe
<1>1. \A q \in Requests : /\ Ph[q] = "idle" <=> pc[q] = "idle"
                          /\ Ph[q] = "answered" <=> pc[q] = "done"
                          /\ Ph'[q] = "idle" <=> pc'[q] = "idle"
  BY DEF Ph, Phase
<1>2. \A q \in Requests : Contract!Visible(q)' = Visible(q)'
  BY DEF Contract!Visible, Contract!Accessible, Contract!Parties, Visible, Accessible, Parties
<1>3. held' = [q \in Requests |->
          IF Ph'[q] = "idle"    THEN {}
          ELSE IF Ph[q] = "idle" THEN Contract!Visible(q)'
          ELSE IF Ph[q] = "answered" THEN held[q]
          ELSE held[q] \cup Contract!Visible(q)']
  BY <1>1, <1>2 DEF Observe
<1>4. kept' = [q \in Requests |->
          IF Ph'[q] = "idle"    THEN {}
          ELSE IF Ph[q] = "idle" THEN Contract!Visible(q)'
          ELSE IF Ph[q] = "answered" THEN kept[q]
          ELSE kept[q] \cap Contract!Visible(q)']
  BY <1>1, <1>2 DEF Observe
<1> QED
  BY <1>3, <1>4 DEF Contract!Observe, Ph

\* A step of r changes the mapped phase and reply at r alone.
LEMMA PhaseMapped ==
    ASSUME TypeOK, NEW r \in Requests, ControlTyped, \A q \in Requests \ {r} : Same(q)
    PROVE  /\ Ph' = [Ph EXCEPT ![r] = Phase(r)']
           /\ Rp' = [Rp EXCEPT ![r] = Kind(r)']
           /\ seen' = [seen EXCEPT ![r] = seen'[r]]
           /\ call' = [call EXCEPT ![r] = call'[r]]
<1>1. \A q \in Requests \ {r} : Phase(q)' = Phase(q) /\ Kind(q)' = Kind(q)
  BY DEF Same, Phase, Kind
<1>2. Ph' = [Ph EXCEPT ![r] = Phase(r)']
  BY <1>1 DEF Ph
<1>3. Rp' = [Rp EXCEPT ![r] = Kind(r)']
  BY <1>1 DEF Rp
<1>4. seen' = [seen EXCEPT ![r] = seen'[r]] /\ call' = [call EXCEPT ![r] = call'[r]]
  BY DEF TypeOK, ControlTyped, Same
<1> QED
  BY <1>2, <1>3, <1>4

\* A step that only moves r between the open stages is invisible.
LEMMA GotoMapped ==
    ASSUME IInv, Observe, NEW r \in Requests, UNCHANGED tables,
           pc[r] \in {"begin", "access", "user"},
           NEW stage \in {"access", "user", "write"}, NEW msg \in Rows \cup {None},
           Goto(r, stage, msg)
    PROVE  UNCHANGED <<Ph, Rp, held, kept, seen, call>>
<1>1. TypeOK /\ \A q \in Requests : RequestOK(q)
  BY DEF IInv
<1>2. /\ ControlTyped /\ \A q \in Requests \ {r} : Same(q)
      /\ pc'[r] = stage /\ call'[r] = call[r] /\ seen'[r] = seen[r]
  BY <1>1, GotoFacts DEF Stages
<1>3. Phase(r)' = "open" /\ Phase(r) = "open" /\ Kind(r)' = "none" /\ Kind(r) = "none"
  BY <1>2 DEF Phase, Kind
<1>4. Ph' = Ph /\ Rp' = Rp /\ seen' = seen /\ call' = call
  <2>1. /\ Ph' = [Ph EXCEPT ![r] = "open"] /\ Ph[r] = "open"
        /\ Rp' = [Rp EXCEPT ![r] = "none"] /\ Rp[r] = "none"
    BY <1>1, <1>2, <1>3, PhaseMapped DEF Ph, Rp
  <2>2. Ph' = Ph /\ Rp' = Rp
    BY <2>1 DEF Ph, Rp
  <2>3. seen' = seen /\ call' = call
    BY DEF Goto
  <2> QED
    BY <2>2, <2>3
<1>5. ASSUME NEW q \in Requests
      PROVE  held'[q] = held[q] /\ kept'[q] = kept[q]
  <2>1. pc[q] \in Stages /\ (pc'[q] = "idle" <=> pc[q] = "idle") /\ RequestOK(q)
    BY <1>1, <1>2 DEF TypeOK, Same
  <2>2. Visible(q)' = Visible(q)
    BY <1>4, VisibleStays
  <2>3. CASE pc[q] \in InFlight
    <3>1. Visible(q) \subseteq held[q] /\ kept[q] \subseteq Visible(q) /\ pc'[q] # "idle"
      BY <2>1, <2>3 DEF RequestOK, HistoryOK, InFlight
    <3>2. held'[q] = held[q] \cup Visible(q)' /\ kept'[q] = kept[q] \cap Visible(q)'
      BY <1>1, <1>2, <2>3, <3>1, ObserveFacts DEF ControlTyped
    <3> QED
      BY <2>2, <3>1, <3>2
  <2>4. CASE pc[q] = "done"
    BY <1>1, <1>2, <2>1, <2>4, ObserveFacts DEF ControlTyped
  <2>5. CASE pc[q] = "idle"
    BY <1>1, <1>2, <2>1, <2>5, ObserveFacts DEF ControlTyped, RequestOK, HistoryOK
  <2> QED
    BY <2>1, <2>3, <2>4, <2>5 DEF Stages, InFlight
<1>6. held' = held /\ kept' = kept
  BY <1>1, <1>5, ObserveTypes DEF TypeOK
<1> QED
  BY <1>4, <1>6

\* An answer of r is an answer of the contract.
LEMMA AnswerMapped ==
    ASSUME IInv, Observe, NEW r \in Requests, UNCHANGED tables, pc[r] \in InFlight,
           NEW code \in Statuses \ {0}, NEW shown \in SUBSET Messages, Answer(r, code, shown)
    PROVE  /\ Contract!Observe
           /\ Contract!Answers(r, IF code \in {200, 201} THEN "ok"
                                  ELSE IF code = 500 THEN "error" ELSE "denied", shown)
           /\ Ph[r] = IF pc[r] = "reply" THEN "effective" ELSE "open"
<1>1. TypeOK
  BY DEF IInv
<1>2. /\ ControlTyped /\ \A q \in Requests \ {r} : Same(q)
      /\ pc'[r] = "done" /\ status'[r] = code /\ seen'[r] = shown /\ call' = call
  BY <1>1, AnswerFacts DEF Answer
<1>3. Phase(r)' = "answered"
  BY <1>2 DEF Phase
<1>4. Kind(r)' = IF code \in {200, 201} THEN "ok"
                 ELSE IF code = 500 THEN "error" ELSE "denied"
  BY <1>2 DEF Kind
<1>5. Ph[r] = IF pc[r] = "reply" THEN "effective" ELSE "open"
  BY DEF Ph, Phase, InFlight
<1>6. Contract!Observe
  BY <1>1, <1>2, ObserveMapped
<1>7. Contract!Answers(r, IF code \in {200, 201} THEN "ok"
                          ELSE IF code = 500 THEN "error" ELSE "denied", shown)
  <2>1. /\ Ph' = [Ph EXCEPT ![r] = "answered"]
        /\ Rp' = [Rp EXCEPT ![r] = IF code \in {200, 201} THEN "ok"
                                  ELSE IF code = 500 THEN "error" ELSE "denied"]
        /\ seen' = [seen EXCEPT ![r] = shown]
    BY <1>1, <1>2, <1>3, <1>4, PhaseMapped
  <2> QED
    BY <1>2, <2>1 DEF Contract!Answers, Contract!tables, tables, Ph, Rp
<1> QED
  BY <1>5, <1>6, <1>7

\* A 4xx answer with a reason is a denial.
LEMMA DenyMapped ==
    ASSUME IInv, Observe, NEW r \in Requests, UNCHANGED tables,
           pc[r] \in InFlight \ {"reply"}, NEW code \in {400, 403, 404, 409},
           Answer(r, code, {}), Contract!Deniable(r)
    PROVE  Contract!Next
<1>1. Contract!Observe /\ Contract!Answers(r, "denied", {}) /\ Ph[r] = "open"
  BY AnswerMapped DEF Statuses
<1>2. Contract!Deny(r)
  BY <1>1 DEF Contract!Deny, Ph
<1> QED
  BY <1>1, <1>2 DEF Contract!Next, Contract!Act

\* A 500 is the contract's failure, before or after the effect.
LEMMA BreakMapped ==
    ASSUME IInv, Observe, NEW r \in Requests, UNCHANGED tables, pc[r] \in InFlight,
           Answer(r, 500, {})
    PROVE  Contract!Next
<1>1. Contract!Observe /\ Contract!Answers(r, "error", {}) /\ Ph[r] \in {"open", "effective"}
  BY AnswerMapped DEF Statuses
<1>2. Contract!Break(r)
  BY <1>1 DEF Contract!Break, Ph
<1> QED
  BY <1>1, <1>2 DEF Contract!Next, Contract!Act

\* A read's success.
LEMMA ShowMapped ==
    ASSUME IInv, Observe, NEW r \in Requests, UNCHANGED tables,
           pc[r] \in InFlight \ {"reply"}, NEW shown \in SUBSET Messages,
           Answer(r, 200, shown),
           \/ call[r].op = "list" /\ shown = Visible(r)
           \/ call[r].op = "get" /\ shown = {call[r].msg} /\ shown \subseteq Visible(r)
    PROVE  Contract!Next
<1>1. Contract!Observe /\ Contract!Answers(r, "ok", shown) /\ Ph[r] = "open"
  BY AnswerMapped DEF Statuses
<1>2. Visible(r) \subseteq held[r] /\ kept[r] \subseteq Visible(r)
  BY DEF IInv, RequestOK, HistoryOK
<1>3. Contract!Show(r, shown)
  BY <1>1, <1>2 DEF Contract!Show, Ph
<1> QED
  BY <1>1, <1>3 DEF Contract!Next, Contract!Act

\* What the contract does not see is a stuttering step of it.
LEMMA StutterMapped ==
    ASSUME UNCHANGED tables, UNCHANGED <<Ph, Rp, held, kept, seen, call>>
    PROVE  UNCHANGED Contract!vars
BY DEF Contract!vars, Contract!tables, tables, Ph, Rp

\* A step of the contract or a stutter.
Mapped == Contract!Next \/ UNCHANGED Contract!vars

\* Loading the message is a denial, an answer or invisible.
LEMMA LoadMapped ==
    ASSUME IInv, Observe, NEW r \in Requests, Load(r)
    PROVE  Mapped
<1> DEFINE m == call[r].msg  u == call[r].user  w == messages[m]
<1>0. /\ m \in Messages /\ UNCHANGED tables /\ pc[r] = "begin"
      /\ pc[r] \in InFlight \ {"reply"} /\ kept[r] \subseteq Visible(r)
      /\ call[r].op \in {"get", "delete", "forward", "grant", "revoke"}
  BY LoadFacts DEF InFlight, IInv, RequestOK, HistoryOK
<1>1. /\ w = None => m \notin Visible(r)
      /\ w # None /\ u \in Parties(w) => m \in Visible(r)
  BY <1>0 DEF Visible, Accessible
<1>2. CASE w = None /\ Answer(r, 404, {})
  <2>1. Contract!Deniable(r)
    BY <1>0, <1>1, <1>2 DEF Contract!Deniable
  <2> QED
    BY <1>0, <1>2, <2>1, DenyMapped DEF Mapped
<1>3. ASSUME w \in Rows
      PROVE  Mapped
  <2>0. w # None
    BY <1>3, RowFields
  <2>1. ASSUME call[r].op = "get", u \in Parties(w), Answer(r, 200, {m})
        PROVE  Mapped
    BY <1>0, <1>1, <2>0, <2>1, ShowMapped DEF Mapped
  <2>2. ASSUME call[r].op = "forward", call[r].target = u, Answer(r, 400, {})
        PROVE  Mapped
    <3>1. Contract!Deniable(r)
      BY <2>2 DEF Contract!Deniable
    <3> QED
      BY <1>0, <2>2, <3>1, DenyMapped DEF Mapped
  <2>3. ASSUME call[r].op = "delete", u \notin Parties(w), Answer(r, 403, {})
        PROVE  Mapped
    <3>1. Contract!Deniable(r)
      BY <2>0, <2>3 DEF Contract!Deniable, Contract!Parties, Parties
    <3> QED
      BY <1>0, <2>3, <3>1, DenyMapped DEF Mapped
  <2>4. ASSUME call[r].op \in {"grant", "revoke"}, u # w.sender, Answer(r, 403, {})
        PROVE  Mapped
    <3>1. Contract!Deniable(r)
      BY <2>0, <2>4 DEF Contract!Deniable
    <3> QED
      BY <1>0, <2>4, <3>1, DenyMapped DEF Mapped
  <2>5. ASSUME Goto(r, "user", w) \/ Goto(r, "access", w) \/ Goto(r, "write", w)
        PROVE  Mapped
    BY <1>0, <1>3, <2>5, GotoMapped, StutterMapped DEF Mapped
  <2> QED
    BY LoadFacts, <1>3, <2>0, <2>1, <2>2, <2>3, <2>4, <2>5
<1> QED
  BY LoadFacts, <1>2, <1>3

\* So is a has_access query, of the caller or of the target.
LEMMA ChecksMapped ==
    ASSUME IInv, Observe, NEW r \in Requests, CheckGrant(r) \/ CheckTargetGrant(r)
    PROVE  Mapped
<1> DEFINE m == call[r].msg  u == call[r].user
<1>0. /\ UNCHANGED tables /\ pc[r] = "access" /\ pc[r] \in InFlight \ {"reply"}
      /\ row[r] \in Rows \cup {None} /\ row[r] # None
      /\ kept[r] \subseteq Visible(r) /\ RowOK(r) /\ AuthorityOK(r)
  BY DEF CheckGrant, CheckTargetGrant, At, InFlight, IInv, TypeOK, RequestOK, HistoryOK,
         AuthorityOK
<1>1. /\ call[r] \in Calls /\ m \in Messages /\ u \in Users
      /\ messages[m] \in {row[r], None}
  BY <1>0, BusyCall, CallFields DEF RowOK
<1>2. ASSUME Goto(r, "user", row[r]) \/ Goto(r, "write", row[r])
      PROVE  Mapped
  BY <1>0, <1>2, GotoMapped, StutterMapped DEF Mapped
<1>3. CASE CheckGrant(r) /\ HasAccess(m, u)
  <2>1. m \in Visible(r)
    BY <1>1, <1>3 DEF IInv, TablesOK, GrantsAttached, HasAccess, Visible, Accessible
  <2>2. ASSUME call[r].op = "get", Answer(r, 200, {m})
        PROVE  Mapped
    BY <1>0, <1>1, <2>1, <2>2, ShowMapped DEF Mapped
  <2>3. ASSUME call[r].op = "forward", call[r].target = u, Answer(r, 400, {})
        PROVE  Mapped
    <3>1. Contract!Deniable(r)
      BY <2>3 DEF Contract!Deniable
    <3> QED
      BY <1>0, <2>3, <3>1, DenyMapped DEF Mapped
  <2> QED
    BY <1>2, <1>3, <2>2, <2>3 DEF CheckGrant, Allowed, CheckRecipient
<1>4. CASE CheckGrant(r) /\ ~HasAccess(m, u)
  <2>1. m \notin Visible(r)
    BY <1>0, <1>1, <1>4 DEF CheckGrant, At, AuthorityOK, HasAccess, Visible, Accessible
  <2>2. Contract!Deniable(r)
    BY <1>0, <1>4, <2>1 DEF Contract!Deniable, CheckGrant, At
  <2> QED
    BY <1>0, <1>4, <2>2, DenyMapped DEF Mapped, CheckGrant
<1>5. CASE CheckTargetGrant(r) /\ HasAccess(m, call[r].target)
  BY <1>2, <1>5 DEF CheckTargetGrant
<1>6. CASE CheckTargetGrant(r) /\ ~HasAccess(m, call[r].target)
  <2>1. Contract!Deniable(r)
    BY <1>6 DEF Contract!Deniable, CheckTargetGrant, At, HasAccess
  <2> QED
    BY <1>0, <1>6, <2>1, DenyMapped DEF Mapped, CheckTargetGrant
<1> QED
  BY <1>3, <1>4, <1>5, <1>6

\* The first step of a send and a list's one statement map likewise,
LEMMA OpeningMapped ==
    ASSUME IInv, Observe, NEW r \in Requests, Send(r) \/ List(r)
    PROVE  Mapped
<1>0. /\ UNCHANGED tables /\ pc[r] = "begin" /\ pc[r] \in InFlight \ {"reply"}
      /\ TypeOK
  BY DEF Send, List, At, InFlight, IInv
<1>1. call[r] \in Calls /\ call[r].user \in Users
  BY <1>0, BusyCall, CallFields
<1>2. CASE Send(r) /\ call[r].target = call[r].user
  <2>1. Contract!Deniable(r)
    BY <1>2 DEF Contract!Deniable, Send, At
  <2> QED
    BY <1>0, <1>2, <2>1, DenyMapped DEF Mapped, Send, CheckRecipient
<1>3. CASE Send(r) /\ call[r].target # call[r].user
  BY <1>0, <1>3, GotoMapped, StutterMapped DEF Mapped, Send, CheckRecipient
<1>4. CASE List(r)
  <2>1. Answer(r, 200, Visible(r)) /\ call[r].op = "list"
    BY <1>0, <1>1, <1>4, ListedIsAccessible DEF List, At, Visible
  <2>2. Visible(r) \in SUBSET Messages
    BY DEF Visible, Accessible
  <2> QED
    BY <1>0, <2>1, <2>2, ShowMapped DEF Mapped
<1> QED
  BY <1>2, <1>3, <1>4

\* ... and so do the queries for the recipient and the target user.
LEMMA FindsMapped ==
    ASSUME IInv, Observe, NEW r \in Requests, FindRecipient(r) \/ FindTarget(r)
    PROVE  Mapped
<1>0. /\ UNCHANGED tables /\ pc[r] = "user" /\ pc[r] \in InFlight \ {"reply"}
      /\ row[r] \in Rows \cup {None} /\ RowOK(r) /\ AuthorityOK(r)
  BY DEF FindRecipient, FindTarget, At, InFlight, IInv, TypeOK, RequestOK
<1>1. ASSUME Goto(r, "write", row[r])
      PROVE  Mapped
  BY <1>0, <1>1, GotoMapped, StutterMapped DEF Mapped
<1>2. CASE FindRecipient(r) /\ call[r].target \notin registered
  <2>1. Contract!Deniable(r)
    BY <1>2 DEF Contract!Deniable, FindRecipient, At
  <2> QED
    BY <1>0, <1>2, <2>1, DenyMapped DEF Mapped, FindRecipient
<1>3. CASE FindTarget(r) /\ call[r].target \notin registered \ Parties(row[r])
  <2>1. row[r] # None /\ messages[call[r].msg] \in {row[r], None} /\ call[r].op = "grant"
    BY <1>0, <1>3 DEF FindTarget, At, AuthorityOK, RowOK
  <2>2. Contract!Deniable(r)
    BY <1>3, <2>1 DEF Contract!Deniable, Contract!Parties, Parties
  <2> QED
    BY <1>0, <1>3, <2>2, DenyMapped DEF Mapped, FindTarget
<1>4. CASE \/ FindRecipient(r) /\ call[r].target \in registered
           \/ FindTarget(r) /\ call[r].target \in registered \ Parties(row[r])
  BY <1>1, <1>4 DEF FindRecipient, FindTarget
<1> QED
  BY <1>2, <1>3, <1>4

\* A committed write is the effect of the call.
LEMMA EffectMapped ==
    ASSUME IInv, Observe, NEW r \in Requests, pc[r] = "write",
           NEW code \in {200, 201}, Committed(r, code)
    PROVE  /\ Contract!Observe
           /\ Ph[r] = "open" /\ Ph' = [Ph EXCEPT ![r] = "effective"]
           /\ Rp' = Rp /\ seen' = seen /\ call' = call
<1>1. TypeOK
  BY DEF IInv
<1>2. /\ ControlTyped /\ \A q \in Requests \ {r} : Same(q)
      /\ pc'[r] = "reply" /\ seen' = seen /\ call' = call
  <2>1. code \in Statuses
    BY DEF Statuses
  <2>2. /\ ControlTyped /\ \A q \in Requests \ {r} : Same(q)
        /\ pc'[r] = "reply"
    BY <1>1, <2>1, CommittedFacts
  <2> QED
    BY <2>2 DEF Committed
<1>3. Phase(r)' = "effective" /\ Phase(r) = "open" /\ Kind(r)' = "none" /\ Kind(r) = "none"
  BY <1>2 DEF Phase, Kind
<1>4. /\ Ph' = [Ph EXCEPT ![r] = "effective"] /\ Ph[r] = "open"
      /\ Rp' = [Rp EXCEPT ![r] = "none"] /\ Rp[r] = "none"
  BY <1>1, <1>2, <1>3, PhaseMapped DEF Ph, Rp
<1>5. Rp' = Rp
  BY <1>4 DEF Rp
<1> QED
  BY <1>1, <1>2, <1>4, <1>5, ObserveMapped

\* A write takes effect at the moment the contract allows it, or fails.
LEMMA WriteMapped ==
    ASSUME IInv, Observe, NEW r \in Requests,
           (\E m \in Messages : Create(r, m)) \/ Delete(r) \/ Grant(r) \/ Revoke(r)
    PROVE  Mapped
<1> DEFINE m == call[r].msg  t == call[r].target  u == call[r].user
<1>0. /\ pc[r] = "write" /\ pc[r] \in InFlight /\ TypeOK
      /\ RowOK(r) /\ AuthorityOK(r)
  BY DEF Create, Delete, Grant, Revoke, At, InFlight, IInv, RequestOK
<1>1. CASE UNCHANGED tables /\ Answer(r, 500, {})
  BY <1>0, <1>1, BreakMapped DEF Mapped
<1>2. ASSUME NEW n \in Messages, Create(r, n)
      PROVE  Mapped
  <2>1. /\ Contract!Observe
        /\ Ph[r] = "open" /\ Ph' = [Ph EXCEPT ![r] = "effective"]
        /\ Rp' = Rp /\ seen' = seen /\ call' = call
    BY <1>0, <1>2, EffectMapped DEF Create
  <2>2. /\ call[r].op \in {"send", "forward"} /\ t \in registered \ {u}
        /\ call[r].op = "forward" => m \in held[r]
    BY <1>0, <1>2 DEF Create, At, AuthorityOK
  <2>3. Contract!Post(r, n)
    BY <1>2, <2>1, <2>2 DEF Contract!Post, Contract!Takes, Create, Ph, Rp
  <2> QED
    BY <2>1, <2>3 DEF Mapped, Contract!Next, Contract!Act
<1>3. CASE Delete(r) /\ messages[m] # None
  <2>1. /\ Contract!Observe
        /\ Ph[r] = "open" /\ Ph' = [Ph EXCEPT ![r] = "effective"]
        /\ Rp' = Rp /\ seen' = seen /\ call' = call
    BY <1>0, <1>3, EffectMapped DEF Delete
  <2>2. call[r].op = "delete" /\ u \in Parties(messages[m])
    BY <1>0, <1>3 DEF Delete, At, AuthorityOK, RowOK
  <2>3. Contract!Erase(r)
    BY <1>3, <2>1, <2>2 DEF Contract!Erase, Contract!Takes, Contract!Parties, Parties,
                            Delete, Cascade, Ph, Rp
  <2> QED
    BY <2>1, <2>3 DEF Mapped, Contract!Next, Contract!Act
<1>4. CASE Grant(r) /\ messages[m] # None
  <2>1. /\ Contract!Observe
        /\ Ph[r] = "open" /\ Ph' = [Ph EXCEPT ![r] = "effective"]
        /\ Rp' = Rp /\ seen' = seen /\ call' = call
    BY <1>0, <1>4, EffectMapped DEF Grant
  <2>2. /\ call[r].op = "grant" /\ u = messages[m].sender
        /\ t \in registered \ Parties(messages[m])
    BY <1>0, <1>4 DEF Grant, At, AuthorityOK, RowOK
  <2>3. Contract!Share(r)
    BY <1>4, <2>1, <2>2 DEF Contract!Share, Contract!Takes, Contract!Parties, Parties,
                            Grant, Ph, Rp
  <2> QED
    BY <2>1, <2>3 DEF Mapped, Contract!Next, Contract!Act
<1>5. CASE Revoke(r) /\ HasAccess(m, t)
  <2>1. /\ Contract!Observe
        /\ Ph[r] = "open" /\ Ph' = [Ph EXCEPT ![r] = "effective"]
        /\ Rp' = Rp /\ seen' = seen /\ call' = call
    BY <1>0, <1>5, EffectMapped DEF Revoke
  <2>2. call[r] \in Calls /\ call[r].op = "revoke"
    BY <1>0, <1>5, BusyCall DEF Revoke, At
  <2>3. messages[m] # None
    BY <1>5, <2>2, CallFields DEF IInv, TablesOK, GrantsAttached, HasAccess
  <2>4. u = messages[m].sender
    BY <1>0, <2>2, <2>3 DEF AuthorityOK, RowOK
  <2>5. Contract!Unshare(r)
    BY <1>5, <2>1, <2>2, <2>3, <2>4 DEF Contract!Unshare, Contract!Takes, HasAccess,
                            Revoke, Ph, Rp
  <2> QED
    BY <2>1, <2>5 DEF Mapped, Contract!Next, Contract!Act
<1>6. CASE \/ Delete(r) /\ messages[m] = None
           \/ Grant(r) /\ messages[m] = None
           \/ Revoke(r) /\ ~HasAccess(m, t)
  BY <1>1, <1>6 DEF Delete, Grant, Revoke, tables
<1> QED
  BY <1>2, <1>3, <1>4, <1>5, <1>6

\* A reply confirms an effect; a failure promises nothing.
LEMMA ClosingMapped ==
    ASSUME IInv, Observe, NEW r \in Requests, Reply(r) \/ Fail(r)
    PROVE  Mapped
<1>1. CASE Fail(r)
  BY <1>1, BreakMapped DEF Fail, Mapped
<1>2. CASE Reply(r)
  <2>1. /\ status[r] \in {200, 201} /\ Answer(r, status[r], {}) /\ UNCHANGED tables
        /\ pc[r] = "reply" /\ pc[r] \in InFlight
    BY <1>2 DEF Reply, IInv, RequestOK, SlotOK, InFlight
  <2>2. Contract!Observe /\ Contract!Answers(r, "ok", {}) /\ Ph[r] = "effective"
    BY <2>1, AnswerMapped DEF Statuses
  <2>3. Contract!Confirm(r)
    BY <2>2 DEF Contract!Confirm, Ph
  <2> QED
    BY <2>2, <2>3 DEF Mapped, Contract!Next, Contract!Act
<1> QED
  BY <1>1, <1>2

\* A call arrives and a connection ends in the contract as in the code.
LEMMA SlotMapped ==
    ASSUME IInv, Observe, NEW r \in Requests,
           (\E c \in Calls : Receive(r, c)) \/ Finish(r)
    PROVE  Mapped
<1>0. TypeOK
  BY DEF IInv
<1>1. /\ ControlTyped /\ \A q \in Requests \ {r} : Same(q)
  BY SlotSelf DEF Self
<1>2. Contract!Observe
  BY <1>0, <1>1, ObserveMapped
<1>3. ASSUME NEW c \in Calls, Receive(r, c)
      PROVE  Mapped
  <2>1. /\ Phase(r)' = "open" /\ Phase(r) = "idle" /\ Kind(r)' = "none" /\ Kind(r) = "none"
    BY <1>0, <1>3 DEF Receive, TypeOK, Phase, Kind
  <2>2. /\ Ph' = [Ph EXCEPT ![r] = "open"] /\ Ph[r] = "idle"
        /\ Rp' = [Rp EXCEPT ![r] = "none"] /\ Rp[r] = "none"
    BY <1>0, <1>1, <2>1, PhaseMapped DEF Ph, Rp
  <2>3. Rp' = Rp
    BY <2>2 DEF Rp
  <2>4. Contract!Open(r, c) /\ c \in Contract!Calls
    BY <1>3, <2>2, <2>3 DEF Contract!Open, Contract!tables, tables, Receive, Ph, Rp,
       Contract!Calls, Calls
  <2> QED
    BY <1>2, <2>4 DEF Mapped, Contract!Next, Contract!Act
<1>4. ASSUME Finish(r)
      PROVE  Mapped
  <2>1. /\ Phase(r)' = "idle" /\ Phase(r) = "answered" /\ Kind(r)' = "none"
    BY <1>0, <1>4 DEF Finish, TypeOK, Phase, Kind
  <2>2. /\ Ph' = [Ph EXCEPT ![r] = "idle"] /\ Ph[r] = "answered"
        /\ Rp' = [Rp EXCEPT ![r] = "none"]
    BY <1>0, <1>1, <2>1, PhaseMapped DEF Ph
  <2>3. Contract!Close(r)
    BY <1>4, <2>2 DEF Contract!Close, Contract!tables, tables, Finish, Ph, Rp
  <2> QED
    BY <1>2, <2>3 DEF Mapped, Contract!Next, Contract!Act
<1> QED
  BY <1>3, <1>4

\* A registration is a registration.
LEMMA RegisterMapped ==
    ASSUME IInv, Observe, NEW u \in Users, Register(u)
    PROVE  Mapped
<1>1. TypeOK /\ ControlTyped
  BY DEF IInv, Register, TypeOK, ControlTyped
<1>2. Ph' = Ph /\ Rp' = Rp
  BY DEF Register, Ph, Rp, Phase, Kind
<1>3. Contract!Register(u)
  BY <1>2 DEF Contract!Register, Register, Ph, Rp
<1> QED
  BY <1>1, <1>3, ObserveMapped DEF Mapped, Contract!Next, Contract!Act

\* Every handler implements the atomic contract: each change of the tables
\* is allowed to its caller at the very moment it happens, and each answer is
\* true, although every decision was made on rows read earlier.
THEOREM Implements == Spec => ImplementsContract
<1>1. Init => Contract!Init
  BY DEF Init, Contract!Init, Phase, Kind
<1>2. IInv /\ [Next]_vars => [Contract!Next]_(Contract!vars)
  <2>1. ASSUME IInv, Next PROVE Mapped
    <3>1. Observe /\ Act
      BY <2>1 DEF Next
    <3>2. ASSUME NEW r \in Requests,
                 (\E c \in Calls : Receive(r, c)) \/ Handle(r) \/ Finish(r)
          PROVE  Mapped
      BY <2>1, <3>1, <3>2, LoadMapped, ChecksMapped, OpeningMapped, FindsMapped,
         WriteMapped, ClosingMapped, SlotMapped DEF Handle
    <3> QED
      BY <2>1, <3>1, <3>2, RegisterMapped DEF Act
  <2>2. UNCHANGED vars => UNCHANGED Contract!vars
    BY DEF vars, tables, Contract!vars, Contract!tables, Phase, Kind
  <2> QED
    BY <2>1, <2>2 DEF Mapped
<1> QED
  BY Invariance, <1>1, <1>2, PTL DEF Spec, ImplementsContract, Contract!Spec
=============================================================================
