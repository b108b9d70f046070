-------------------------- MODULE MC_CaptureSessions --------------------------
(* Two sessions that are created one after the other under one name.         *)
EXTENDS CaptureSessions
=============================================================================
