----------------------------- MODULE MCExchange -----------------------------
(* Small instances of Exchange. *)
EXTENDS Exchange, TLC

Name(u, length, padded) ==
    [core |-> u, length |-> length, padded |-> padded, word |-> TRUE, threats |-> {}]
Password(p, length) == [text |-> p, length |-> length]

\* The shortest and the longest that may be registered.
MCTyped == {<<Name("ann", 1, TRUE), Password("short", 8)>>,
            <<Name("bob", 64, FALSE), Password("long", 128)>>}

\* The longest text that can be sent and the shortest that cannot.
Text(x, bytes, padded) == [text |-> x, bytes |-> bytes, padded |-> padded]
MCTexts == {Text("fits", 49136, TRUE), Text("over", 49137, FALSE)}

TaskSymmetry == Permutations(Tasks)

\* Everything is explored up to the first message, and from there on up to
\* the second, if the first was sent undisturbed.
TwoMessages == Len(message) > 0 => message[1].steady /\ Len(message) = 1
=============================================================================
