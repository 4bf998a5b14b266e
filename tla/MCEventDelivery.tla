--------------------------- MODULE MCEventDelivery ---------------------------
EXTENDS EventDelivery, TLC

CONSTANTS webhooks, reporting, w1, r1

BothGroups  == {webhooks, reporting}
OneEach     == {w1, r1}
GroupOfEach == (w1 :> webhooks) @@ (r1 :> reporting)
NoMalformed == {}
=============================================================================
