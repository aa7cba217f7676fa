---------------------------- MODULE MCLiveResize ----------------------------
(* Small instances of LiveResize for TLC. *)
EXTENDS LiveResize
=============================================================================
