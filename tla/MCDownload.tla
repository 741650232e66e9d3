------------------------------ MODULE MCDownload ------------------------------
(***************************************************************************)
(* Download with the bounds of its .cfg files.                             *)
(***************************************************************************)
EXTENDS Download
=============================================================================
