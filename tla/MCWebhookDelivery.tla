-------------------------- MODULE MCWebhookDelivery --------------------------
(* Two rows, the scaled backoff and the perils of each row. *)
EXTENDS WebhookDelivery

CONSTANTS d1, d2

(* BACKOFF_SECONDS = 0, 30, 300, ...: growing, the first entry never used. *)
ScaledBackoff == [n \in Attempts |-> 2 * n]

(* d1 meets two perils; d2 only competes with it for the sweep. *)
OneInPeril == [d \in Rows |-> IF d = d1 THEN 2 ELSE 0]
=============================================================================
