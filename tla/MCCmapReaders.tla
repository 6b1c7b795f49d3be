---------------------------- MODULE MCCmapReaders ----------------------------
(***************************************************************************)
(* One reader and the writer on buckets of one slot: four nodes under four *)
(* hashes, spread so that an insertion moves one or two of them, also from *)
(* the bucket a search visits second to the one it visited first.          *)
(***************************************************************************)
EXTENDS CmapReaders

MCNodeHash == [x \in Nodes |-> IF x = 5 THEN 0 ELSE x - 1]

MCHashFinish ==
  << [h \in 0..3 |-> CASE h = 0 -> <<0, 4>> [] h = 1 -> <<0, 2>>
                       [] h = 2 -> <<2, 3>> [] h = 3 -> <<0, 0>>],
     [h \in 0..3 |-> CASE h = 0 -> <<1, 0>> [] h = 1 -> <<0, 1>>
                       [] h = 2 -> <<2, 2>> [] h = 3 -> <<1, 2>>] >>
=============================================================================
