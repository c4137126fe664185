------------------------------ MODULE MCServe ------------------------------
(***************************************************************************)
(* Instances of Serve for TLC.                                              *)
(***************************************************************************)
EXTENDS Serve

CONSTANTS i1, i2

\* Requests the server refuses or cannot enter the folder of follow a command.
TwoCommands == <<{"command"}, CommandKinds>>
OneCommand == <<{"command"}>>
=============================================================================
