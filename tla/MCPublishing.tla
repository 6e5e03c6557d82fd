---------------------------- MODULE MCPublishing ----------------------------
(* Publishing on small instances for TLC.                                  *)
EXTENDS Publishing
=============================================================================
