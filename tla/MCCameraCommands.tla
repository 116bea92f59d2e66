-------------------------- MODULE MCCameraCommands --------------------------
(* A small instance of CameraCommands for TLC. *)
EXTENDS CameraCommands

TwoCommands == {1, 2}

=============================================================================
