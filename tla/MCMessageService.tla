-------------------------- MODULE MCMessageService --------------------------
(* MessageService on a small instance: users, ids and requests are         *)
(* interchangeable model values.                                           *)
EXTENDS MessageService, TLC

Symmetry ==
    Permutations(Users) \cup Permutations(Messages) \cup Permutations(Requests)

\* One message, and every call about it.
OneMessage ==
    \E m \in Messages : /\ issued \subseteq {m}
                        /\ \A r \in Requests : call[r] # None => call[r].msg \in {m, None}

\* Everyone is registered first, one message is sent, and it is forwarded
\* into a second one while the right to it is granted and withdrawn; no call
\* begins once the copy exists.
ForwardsOnly ==
    \A r \in Requests : call[r] # None =>
        /\ registered = Users
        /\ call[r].op \in {"send", "grant", "revoke", "forward"}
        /\ pc[r] = "begin" =>
            /\ issued # Messages
            /\ (call[r].op = "send") = (issued = {})
            /\ call[r].op # "send" => call[r].msg \in issued

OneMessageOrForwards == OneMessage \/ ForwardsOnly
=============================================================================
