-------------------------- MODULE MCReliableSender --------------------------
(* Instances of ReliableSender for TLC.                                    *)
EXTENDS ReliableSender

CONSTANT c1

Text(text) == [to |-> c1, text |-> text]

WithTooLong == {Text("a"), Text("too long")}
TooLong     == {Text("too long")}

ShortDelays == <<1, 2>>

(* Every attempt of every message has a hash of its own.                   *)
OwnHash(m, attempt) == <<m.text, attempt>>
OwnHashes == {OwnHash(m, attempt) : m \in Messages, attempt \in 0 .. MaxAttempts - 1}
=============================================================================
