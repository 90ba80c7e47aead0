---------------------------- MODULE MCComponents ----------------------------
(* The components of an instance, for TLC.                                  *)
EXTENDS Components, ComponentData
=============================================================================
