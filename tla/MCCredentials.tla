----------------------------- MODULE MCCredentials -----------------------------
(* An instance of Credentials for TLC.                                        *)
EXTENDS Credentials
================================================================================
