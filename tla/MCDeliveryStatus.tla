-------------------------- MODULE MCDeliveryStatus --------------------------
(* Constants for model-checking DeliveryStatus. *)
EXTENDS DeliveryStatus

CONSTANTS n1, n2, n3, n4, n5, none

Says(m, k, t) == [msg |-> m, kind |-> k, text |-> t]

\* A Meta batch about both messages, a bounce of the first, a read of the
\* thread, a late status after an unknown one, and a payload without statuses.
MixedBatches ==
    [n \in Notice |-> CASE n = n1 -> <<Says(1, "delivered", FALSE), Says(2, "delivered", FALSE)>>
                        [] n = n2 -> <<Says(1, "bounced", TRUE)>>
                        [] n = n3 -> <<Says(2, "read", FALSE)>>
                        [] n = n4 -> <<Says(1, "other", FALSE), Says(1, "sent", FALSE)>>
                        [] OTHER  -> <<>>]

\* Postmark: a delivery, an open, a bounce.
OpenBatches ==
    [n \in Notice |-> CASE n = n1 -> <<Says(1, "delivered", TRUE)>>
                        [] n = n2 -> <<Says(1, "open", FALSE)>>
                        [] OTHER  -> <<Says(1, "bounced", TRUE)>>]
=============================================================================
