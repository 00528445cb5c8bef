---------------------------- MODULE MCDepthCache ----------------------------
(***************************************************************************)
(* Instance of DepthCache for TLC.  Four keys and limits up to three: the  *)
(* cache overflows, and SetLimit can have to evict two entries at once.    *)
(***************************************************************************)
EXTENDS DepthCache
=============================================================================
