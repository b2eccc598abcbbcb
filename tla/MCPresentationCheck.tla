------------------------- MODULE MCPresentationCheck -------------------------
(***************************************************************************)
(* Values for model checking PresentationCheck: those of the mint.          *)
(***************************************************************************)
EXTENDS PresentationCheck, MCMintRun
=============================================================================
