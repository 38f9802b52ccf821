---------------------------- MODULE MCDownloads -----------------------------
(***************************************************************************)
(* Downloads on a small instance: three archives, of which the first is    *)
(* swapped in (punkt), the second swapped in and unpacked again by `ready` *)
(* when it is gone (Silero), the third unpacked in place (CUDA).           *)
(***************************************************************************)
EXTENDS Downloads

MCArchives == 1 .. NAssets
MCSwapped == {1, 2}
MCRestored == {2}
MCInodes == 1 .. 2 * NAssets + 2 * Cardinality(Procs)

=============================================================================
