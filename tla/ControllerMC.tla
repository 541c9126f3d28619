---------------------------- MODULE ControllerMC ----------------------------
(* Controller for TLC. *)
EXTENDS Controller
=============================================================================
