---------------------------- MODULE MCWebhookQueue ----------------------------
(* WebhookQueue on small instances: see the MCWebhookQueue_*.cfg files. *)
EXTENDS WebhookQueue, TLC

CONSTANTS e1, e2, w1, w2, r1

\* Workers and events are interchangeable: nothing orders them.
Interchangeable == Permutations(Events) \cup Permutations(Workers)

=============================================================================
