------------------------------- MODULE MCImage -------------------------------
(***************************************************************************)
(* Small instances of the coordinator with the images of its states.       *)
(***************************************************************************)
EXTENDS EpochImage, MCRuntime

=============================================================================
