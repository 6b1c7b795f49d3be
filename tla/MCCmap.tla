------------------------------- MODULE MCCmap -------------------------------
(***************************************************************************)
(* Small cuckoo tables.  The hashes are named by the cfg; MCHashFinish     *)
(* spreads them so that under basis 1 the smaller tables have three hashes *)
(* for one bucket, where cmap_insert_bfs has to move a slot or fails,      *)
(* while under basis 2 every insertion succeeds.                           *)
(***************************************************************************)
EXTENDS CmapProperties

MCNodeHash == [x \in Nodes |-> CASE x = 1 -> 0 [] x = 2 -> 1 [] x = 3 -> 2
                                 [] x = 4 -> 3 [] x = 5 -> 0]

MCHashFinish ==
  << [h \in 0..3 |-> CASE h = 0 -> <<0, 4>> [] h = 1 -> <<0, 2>>
                       [] h = 2 -> <<0, 2>> [] h = 3 -> <<0, 0>>],
     [h \in 0..3 |-> CASE h = 0 -> <<1, 0>> [] h = 1 -> <<0, 1>>
                       [] h = 2 -> <<3, 2>> [] h = 3 -> <<1, 2>>] >>
=============================================================================
