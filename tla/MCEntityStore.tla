--------------------------- MODULE MCEntityStore ---------------------------
(* Two ids and two record contents are enough for an overwrite, a second  *)
(* key whose position must survive it, a delete and a re-insert; a list   *)
(* of two entries lets one frame write the same id twice or mix an entry  *)
(* without id with a valid one.                                           *)
EXTENDS EntityStore

MCIds == {"m1", "m2"}
MCVals == {"a", "b"}

\* Spawned records as the spec describes them (with an id), and with the
\* entries a list may carry, one without an id included.
WithId == Record
AnyEntry == Entry
=============================================================================
