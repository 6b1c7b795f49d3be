----------------------------- MODULE CmapReaders -----------------------------
(***************************************************************************)
(* One writer of a cmap and any number of threads in cmap_find.            *)
(*                                                                         *)
(* A reader searches one bucket in one step: CmapBucket shows that the     *)
(* counter of a bucket makes an accepted search one that could have been   *)
(* done in an instant.  What is left to go wrong, and is modelled here, is *)
(* the order of the two bucket searches against the moves of the writer,   *)
(* and the table disappearing under the reader.                            *)
(***************************************************************************)
EXTENDS CmapProperties

CONSTANT Readers

VARIABLE find      \* find[r]: the state of reader r in cmap_find

allVars == <<vars, find>>

(* pc     idle, then first, second and recheck in cmap_find__, then        *)
(*        returned; undefined once freed memory was read                   *)
(* moved  whether the counter of the first bucket differs from c1          *)
(* freed  whether cmap_rehash has freed the table of this search           *)
(* seen   (history) the answers an instantaneous search would have given   *)
(*        since the call                                                   *)
Idle(h) == [pc |-> "idle", hash |-> h, moved |-> FALSE, freed |-> FALSE,
            node |-> <<>>, seen |-> {}]

InSearch(r) == find[r].pc \in {"first", "second", "recheck"}

-----------------------------------------------------------------------------
(* The writer's steps, as the readers see them *)

(* cmap_set_bucket, the only store that changes a counter, wrote bucket b: *)
(* every store to a slot does it but the one of cmap_insert_dup.           *)
SetBucketStep(b) ==
  /\ ~ Rehashing
  /\ \/ pc = "shift" /\ b = Last(path)[1]
     \/ /\ pc = "place" /\ pc' = "idle"
        /\ \A c \in {Bucket1(impl, item.hash), Bucket2(impl, item.hash)} :
             WithHash(impl, c, item.hash) = {}
        /\ impl'.bucket[b] # impl.bucket[b]

Observe(r) ==
  IF ~ InSearch(r) THEN find[r]
  ELSE [find[r] EXCEPT
         !.freed = @ \/ (Rehashing /\ neww' = NoTable),
         !.moved = @ \/ (find[r].pc # "first" /\ ~ find[r].freed
                           /\ SetBucketStep(Bucket1(impl, find[r].hash))),
         !.seen  = @ \cup {Find(impl', find[r].hash)}]

Write == Next /\ find' = [r \in Readers |-> Observe(r)]

-----------------------------------------------------------------------------
(* cmap_find__ *)

Call(r, h) ==
  /\ find[r].pc = "idle"
  /\ find' = [find EXCEPT ![r] =
       [Idle(h) EXCEPT !.pc = "first", !.seen = {Find(impl, h)}]]

(* A search of a bucket of the table the reader started with *)
Search(r, b, miss) ==
  LET c == FindInBucket(impl, b, find[r].hash)
  IN  IF find[r].freed THEN find' = [find EXCEPT ![r].pc = "undefined"]
      ELSE find' = [find EXCEPT ![r].node = c,
                                ![r].pc = IF c = <<>> THEN miss ELSE "returned",
                                ![r].moved = @ /\ miss # "second"]

First1(r)  == find[r].pc = "first"  /\ Search(r, Bucket1(impl, find[r].hash), "second")
Second1(r) == find[r].pc = "second" /\ Search(r, Bucket2(impl, find[r].hash), "recheck")

(* Mutant: the first bucket is not looked at again. *)
Recheck_Never(r) ==
  /\ find[r].pc = "recheck"
  /\ find' = [find EXCEPT ![r].pc =
       CASE find[r].freed -> "undefined"
         [] ~ find[r].freed /\ FALSE -> "first"
         [] OTHER -> "returned"]

(* while (counter_changed(b1, c1)) *)
Recheck(r) ==
  /\ find[r].pc = "recheck"
  /\ find' = [find EXCEPT ![r].pc =
       CASE find[r].freed -> "undefined"
         [] ~ find[r].freed /\ find[r].moved -> "first"
         [] OTHER -> "returned"]

Return(r) ==
  /\ find[r].pc = "returned"
  /\ find' = [find EXCEPT ![r] = Idle(find[r].hash)]

ReaderStep(r) == First1(r) \/ Second1(r) \/ Recheck(r) \/ Return(r)

ReadersInit == Init /\ \E h \in Hashes : find = [r \in Readers |-> Idle(h)]

ReadersNext ==
  \/ Write
  \/ UNCHANGED vars /\ \E r \in Readers : ReaderStep(r) \/ \E h \in Hashes : Call(r, h)

ReadersSpec == ReadersInit /\ [][ReadersNext]_allVars

-----------------------------------------------------------------------------
(* A search during which the table was not freed returns what an           *)
(* instantaneous search would have returned at some moment of the call: a  *)
(* chain that is there all the time is never missed, whatever the moves of *)
(* cmap_insert_bfs do between the two bucket searches (cmap.h: searches    *)
(* may run in parallel with cmap_insert, cmap_remove and cmap_replace).    *)
FindLinearizable ==
  \A r \in Readers : find[r].pc = "returned" => find[r].node \in find[r].seen
=============================================================================
