----------------------------- MODULE MCSendPath -----------------------------
(* SendPath on a small instance: everything that two requests and their    *)
(* recorders can do before the clock moves, and four requests on either    *)
(* side of a tick that meet no fault on their way to the rate limit.       *)
EXTENDS SendPath

Begun == {r \in Requests : at[Handler(r)] # "idle"}

\* Requests are interchangeable: they begin in their order.
InOrder == \A r \in Begun : \A q \in Requests : q < r => q \in Begun

Moving == {"start", "keying", "keep", "drop", "unkeying"}

\* The handlers take and return their connections one after the other, but
\* hold up to two of them at the limit; no recorder begins, nothing fails.
Smooth ==
    /\ \A c \in Conns : txn[c] \notin {"aborted", "dead"}
    /\ \A r \in Requests : at[Recorder(r)] = "idle" /\ at[Handler(r)] # "failed"
    /\ Cardinality({r \in Requests : at[Handler(r)] \in Moving}) <= 1
    /\ Cardinality({r \in Requests : at[Handler(r)] = "holding"}) <= 2

TwoOrSmooth == InOrder /\ (Smooth \/ (Cardinality(Begun) <= 2 /\ clock = 0))
=============================================================================
