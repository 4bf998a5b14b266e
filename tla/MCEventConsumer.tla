--------------------------- MODULE MCEventConsumer ---------------------------
EXTENDS EventConsumer, TLC

CONSTANTS webhooks, w1, w2

OneGroup        == {webhooks}
OneMember       == {w1}
TwoMembers      == {w1, w2}
GroupOfOne      == (w1 :> webhooks)
GroupOfTwo      == (w1 :> webhooks) @@ (w2 :> webhooks)
NoMalformed     == {}
SecondMalformed == {2}
=============================================================================
