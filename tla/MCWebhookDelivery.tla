-------------------------- MODULE MCWebhookDelivery --------------------------
EXTENDS WebhookDelivery, TLC

CONSTANTS w1, w2, c1, c2, e1, e2

BothWorkers == {w1, w2}
OneWorker   == {w1}
BothCallers == {c1, c2}
NoCallers   == {}
TwoEvents   == {e1, e2}
OneEvent    == {e1}

Storable == AllAnswers \ {"unstorable"}

\* One answer for every way to settle or put back a delivery: "unsafe" does
\* what "permanent" does, also when the key is revoked.
EachOutcome == {"ok", "retry", "unsafe"}

Alike == Permutations(BothWorkers) \cup Permutations(BothCallers)
=============================================================================
