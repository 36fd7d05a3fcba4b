--------------------------- MODULE MCWebhookInbox ---------------------------
(* Values for the constants of WebhookInbox that a .cfg cannot write.       *)
EXTENDS WebhookInbox

CONSTANT NumberOfEvents

MCEvent == 1..NumberOfEvents
=============================================================================
