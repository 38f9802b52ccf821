------------------------------ MODULE MCJobQueue ------------------------------
(***************************************************************************)
(* Three stages stand for the ten: ingest (adopts its file, disk-gated),   *)
(* score (no file, may find nothing to recommend, can be retuned), render  *)
(* (writes its file, disk-gated, can be restyled).                         *)
(***************************************************************************)
EXTENDS JobQueue

Ingest == 1
Score == 2
Render == 3

MCFiled == {Ingest, Render}
MCAdopts == {Ingest}
MCDiskGated == {Ingest, Render}
MCScorers == {Score}
MCTunable == {Score, Render}
=============================================================================
