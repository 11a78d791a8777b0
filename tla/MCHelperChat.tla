------------------------------ MODULE MCHelperChat ------------------------------
(* Instances of HelperChat.                                                    *)
EXTENDS HelperChat
MCClients == {"anthropic", "openai", "codex"}
================================================================================
