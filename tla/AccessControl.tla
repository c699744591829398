--------------------------- MODULE AccessControl ---------------------------
(***************************************************************************)
(* What the message endpoints promise, whatever the interleaving: every    *)
(* change of the tables is one atomic step, allowed at that very moment to *)
(* the user who asked for it; every success answer is true; what a read    *)
(* returns lies between what the user could see during the whole request   *)
(* and what the user could see at some moment of it; a denial has a        *)
(* reason.  MessageService is shown to implement this module.              *)
(***************************************************************************)
EXTENDS MessageTypes

VARIABLES
    registered,  \* users that exist
    messages,    \* id -> row, or None
    issued,      \* ids ever handed out
    access,      \* id -> user -> state of the grant
    call,        \* request -> the call it serves, or None
    phase,       \* request -> "idle", "open", "effective" or "answered"
    reply,       \* request -> "none", "ok", "denied" or "error"
    seen,        \* request -> the messages its answer contains
    held,        \* request -> messages its user could see at some moment
    kept         \* request -> messages its user could see at every moment

tables == <<registered, messages, issued, access>>
vars   == <<tables, call, phase, reply, seen, held, kept>>

\* The messages user u may read now.
Accessible(u) ==
    {m \in Messages : /\ messages[m] # None
                      /\ \/ u \in Parties(messages[m])
                         \/ access[m][u] = "active"}

Visible(r) == Accessible(call[r].user)

\* Every step extends the record of what each open request could see.
Observe ==
    /\ held' = [q \in Requests |->
          IF phase'[q] = "idle"    THEN {}
          ELSE IF phase[q] = "idle" THEN Visible(q)'
          ELSE IF phase[q] = "answered" THEN held[q]
          ELSE held[q] \cup Visible(q)']
    /\ kept' = [q \in Requests |->
          IF phase'[q] = "idle"    THEN {}
          ELSE IF phase[q] = "idle" THEN Visible(q)'
          ELSE IF phase[q] = "answered" THEN kept[q]
          ELSE kept[q] \cap Visible(q)']

Init ==
    /\ registered = {}
    /\ messages = [m \in Messages |-> None]
    /\ issued = {}
    /\ access = [m \in Messages |-> [u \in Users |-> "none"]]
    /\ call  = [r \in Requests |-> None]
    /\ phase = [r \in Requests |-> "idle"]
    /\ reply = [r \in Requests |-> "none"]
    /\ seen  = [r \in Requests |-> {}]
    /\ held  = [r \in Requests |-> {}]
    /\ kept  = [r \in Requests |-> {}]

Register(u) ==
    /\ u \notin registered
    /\ registered' = registered \cup {u}
    /\ UNCHANGED <<messages, issued, access, call, phase, reply, seen>>

Open(r, c) ==
    /\ phase[r] = "idle"
    /\ c.user \in registered
    /\ call'  = [call EXCEPT ![r] = c]
    /\ phase' = [phase EXCEPT ![r] = "open"]
    /\ UNCHANGED <<tables, reply, seen>>

\* The step in which an open call takes effect on the tables.
Takes(r, ops) ==
    /\ phase[r] = "open" /\ call[r].op \in ops
    /\ phase' = [phase EXCEPT ![r] = "effective"]
    /\ UNCHANGED <<registered, call, reply, seen>>

Post(r, m) ==
    /\ Takes(r, {"send", "forward"})
    /\ m \notin issued
    /\ call[r].target \in registered \ {call[r].user}
    /\ call[r].op = "forward" => call[r].msg \in held[r]
    /\ messages' = [messages EXCEPT ![m] =
          [sender |-> call[r].user, recipient |-> call[r].target]]
    /\ issued' = issued \cup {m}
    /\ UNCHANGED access

Erase(r) ==
    LET m == call[r].msg IN
    /\ Takes(r, {"delete"})
    /\ messages[m] # None /\ call[r].user \in Parties(messages[m])
    /\ messages' = [messages EXCEPT ![m] = None]
    /\ access' = [access EXCEPT ![m] = [u \in Users |-> "none"]]
    /\ UNCHANGED issued

Share(r) ==
    LET m == call[r].msg  t == call[r].target IN
    /\ Takes(r, {"grant"})
    /\ messages[m] # None /\ call[r].user = messages[m].sender
    /\ t \in registered \ Parties(messages[m])
    /\ access' = [access EXCEPT ![m][t] = "active"]
    /\ UNCHANGED <<messages, issued>>

Unshare(r) ==
    LET m == call[r].msg  t == call[r].target IN
    /\ Takes(r, {"revoke"})
    /\ messages[m] # None /\ call[r].user = messages[m].sender
    /\ access[m][t] = "active"
    /\ access' = [access EXCEPT ![m][t] = "revoked"]
    /\ UNCHANGED <<messages, issued>>

Answers(r, kind, shown) ==
    /\ phase' = [phase EXCEPT ![r] = "answered"]
    /\ reply' = [reply EXCEPT ![r] = kind]
    /\ seen'  = [seen EXCEPT ![r] = shown]
    /\ UNCHANGED <<tables, call>>

\* A call that changes the tables succeeds only after it took effect.
Confirm(r) == phase[r] = "effective" /\ Answers(r, "ok", {})

\* A read shows all the user could see throughout, nothing never visible.
Show(r, shown) ==
    /\ phase[r] = "open"
    /\ \/ call[r].op = "list" /\ kept[r] \subseteq shown /\ shown \subseteq held[r]
       \/ call[r].op = "get" /\ shown = {call[r].msg} /\ shown \subseteq held[r]
    /\ Answers(r, "ok", shown)

\* Why a call may be denied (an answer below 500).
Deniable(r) ==
    LET m == call[r].msg  t == call[r].target  u == call[r].user
        NotSender == IF messages[m] = None THEN TRUE ELSE u # messages[m].sender
        NotParty  == IF messages[m] = None THEN TRUE ELSE u \notin Parties(messages[m])
    IN \/ call[r].op = "send"    /\ t \notin registered \ {u}
       \/ call[r].op = "get"     /\ m \notin kept[r]
       \/ call[r].op = "delete"  /\ NotParty
       \/ call[r].op = "forward" /\ (m \notin kept[r] \/ t \notin registered \ {u})
       \/ call[r].op = "grant"   /\ \/ NotSender
                                    \/ t \notin registered \ Parties(messages[m])
       \/ call[r].op = "revoke"  /\ (NotSender \/ access[m][t] # "active")

Deny(r) == phase[r] = "open" /\ Deniable(r) /\ Answers(r, "denied", {})

\* A server error promises nothing: the call may have taken effect or not.
Break(r) == phase[r] \in {"open", "effective"} /\ Answers(r, "error", {})

Close(r) ==
    /\ phase[r] = "answered"
    /\ call'  = [call EXCEPT ![r] = None]
    /\ phase' = [phase EXCEPT ![r] = "idle"]
    /\ reply' = [reply EXCEPT ![r] = "none"]
    /\ seen'  = [seen EXCEPT ![r] = {}]
    /\ UNCHANGED tables

Act ==
    \/ \E u \in Users : Register(u)
    \/ \E r \in Requests :
        \/ \E c \in Calls : Open(r, c)
        \/ \E m \in Messages : Post(r, m)
        \/ Erase(r) \/ Share(r) \/ Unshare(r)
        \/ Confirm(r) \/ Deny(r) \/ Break(r) \/ Close(r)
        \/ \E shown \in SUBSET Messages : Show(r, shown)

Next == Act /\ Observe

Spec == Init /\ [][Next]_vars
=============================================================================
