------------------------------ MODULE MCCreator -------------------------------
(***************************************************************************)
(* Small instances of the creator's files: a scoring of one clip, then of  *)
(* two.                                                                  *)
(***************************************************************************)
EXTENDS Creator

MCClipCount == <<1, 2>>
MCSteady == <<2>>
=============================================================================
