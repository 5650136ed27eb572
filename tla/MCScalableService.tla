-------------------------- MODULE MCScalableService --------------------------
(***************************************************************************)
(* Small instances of ScalableService.  Requests and VMs are numbered, so  *)
(* the bounds are all there is to give.                                    *)
(***************************************************************************)
EXTENDS ScalableService
=============================================================================
