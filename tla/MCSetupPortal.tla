---------------------------- MODULE MCSetupPortal ----------------------------
(* Three submissions and boots: both slots are written, and the first of them *)
(* again; one that fails late can leave something to the next.                *)
EXTENDS SetupPortal

MCConfig == Configuration
=============================================================================
