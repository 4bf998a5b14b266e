------------------------------- MODULE MCInbox -------------------------------
EXTENDS Inbox

CONSTANTS w1, w2

BothWorkers == {w1, w2}

\* Two events; the first is also delivered under another body and, with the
\* same body, at another time.
D(i, b, t) == [id |-> i, body |-> b, time |-> t]
SomeDeliveries == {D(1, "a", 1), D(1, "a", 3), D(1, "b", 1), D(2, "a", 1)}

\* The two ids share one lock key.
OneKey(i) == 0
=============================================================================
