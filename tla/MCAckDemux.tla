---------------------------- MODULE MCAckDemux ----------------------------
(***************************************************************************)
(* AckDemux on a small instance; its constants are values of AckDemux.cfg. *)
(***************************************************************************)
EXTENDS DemuxInv
=============================================================================
