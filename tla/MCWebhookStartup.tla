-------------------------- MODULE MCWebhookStartup --------------------------
(* Small instances of WebhookStartup. *)
EXTENDS WebhookStartup
=============================================================================
