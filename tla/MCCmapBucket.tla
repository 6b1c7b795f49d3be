---------------------------- MODULE MCCmapBucket ----------------------------
(***************************************************************************)
(* A bucket of two slots, two hashes and two chain heads.  The counter has *)
(* two bits, so three updates take it round: the search that slept through *)
(* two updates is the one SearchAtomic excuses.                            *)
(***************************************************************************)
EXTENDS CmapBucket
=============================================================================
