---------------------------- MODULE MCAppInstall ----------------------------
(* AppInstall for TLC. *)
EXTENDS AppInstall
=============================================================================
