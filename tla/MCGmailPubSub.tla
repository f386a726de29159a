--------------------------- MODULE MCGmailPubSub ---------------------------
(* Instances of GmailPubSub for TLC. *)
EXTENDS GmailPubSub
=============================================================================
