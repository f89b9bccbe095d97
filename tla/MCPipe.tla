------------------------------- MODULE MCPipe -------------------------------
(***************************************************************************)
(* A router between two networks with pipes so small that both directions  *)
(* fill up.                                                                *)
(***************************************************************************)
EXTENDS VdePipe

MCFrameLen == <<{2}, {1, 2}>>

=============================================================================
