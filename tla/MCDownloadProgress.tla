------------------------- MODULE MCDownloadProgress -------------------------
(* An instance of DownloadProgress for TLC: the last chunk is shorter. *)
EXTENDS DownloadProgress, TLC

TwoAndOne == 0 :> 2 @@ 1 :> 2 @@ 2 :> 1
=============================================================================
