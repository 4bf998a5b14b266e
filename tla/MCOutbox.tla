------------------------------ MODULE MCOutbox -------------------------------
(***************************************************************************)
(* The outbox on a small instance.  The delays are those of a base of one   *)
(* tick and a ceiling of two.                                              *)
(***************************************************************************)
EXTENDS Outbox

B == INSTANCE Backoff

MCRetryDelays == [n \in 1 .. 2 |-> B!Doubling(1, 2)[n]]
==============================================================================
