---------------------------- MODULE MessageTypes ----------------------------
(***************************************************************************)
(* The data the message tables and the message endpoints are about,        *)
(* shared by the contract (AccessControl) and the implementation           *)
(* (MessageService): rows of `messages`, the state of a `message_access`   *)
(* row, and the calls a client can make.                                   *)
(***************************************************************************)
CONSTANTS
    Users,      \* values of users.id
    Messages,   \* values the BIGSERIAL messages.id can take
    Requests,   \* HTTP requests the server can have in flight
    None        \* "no row", "no call", SQL's NULL

\* What a handler decides on of a row of `messages`.  Its ciphertext and
\* eph_pub are opaque to the server, its tx_hash, which is written later, is
\* the subject of ChainRecorder.
Rows == [sender : Users, recipient : Users]

\* A row of `message_access`: absent, revoked_at IS NULL, or revoked.
Grants == {"none", "active", "revoked"}

\* The two users who own a message.
Parties(row) == {row.sender, row.recipient}

\* The calls of the `messages` blueprint: op names the handler, user is
\* g.user_id, target is the recipient_id or target_user_id of the call.
Calls ==
         [op : {"send"}, user : Users, msg : {None}, target : Users]
    \cup [op : {"list"}, user : Users, msg : {None}, target : {None}]
    \cup [op : {"get", "delete"}, user : Users, msg : Messages, target : {None}]
    \cup [op : {"forward", "grant", "revoke"},
          user : Users, msg : Messages, target : Users]

\* None is a value of its own: neither a key, nor a row, nor a call.
ASSUME NoneIsFresh ==
    /\ None \notin Users /\ None \notin Messages
    /\ None \notin Rows  /\ None \notin Calls
=============================================================================
