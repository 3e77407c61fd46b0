-------------------------- MODULE MCWebhookDelivery --------------------------
(***************************************************************************)
(* Two endpoints, either of which may be slow; no symmetry, since Init     *)
(* fixes a placeholder endpoint with CHOOSE.                               *)
(***************************************************************************)
EXTENDS WebhookDelivery
==============================================================================
