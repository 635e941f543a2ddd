---------------------------- MODULE MCRecording ----------------------------
(***************************************************************************)
(* One run of the program on the directories of MCStorage.                 *)
(***************************************************************************)
EXTENDS Recording, MCStorage
=============================================================================
