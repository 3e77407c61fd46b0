------------------------ MODULE MCScreeningSnapshots -------------------------
(***************************************************************************)
(* Two lists, one ingested twice, and two screens: one name the vector     *)
(* finds in both lists under different entries, one name that the vector   *)
(* finds only in the new list and the ear only in the old one.             *)
(***************************************************************************)
EXTENDS ScreeningSnapshots

CONSTANTS old, new, i1, i2, i3, s1, s2, e1, e2, e3

MCChunks == (old :> <<{e1}, {e2}>>) @@ (new :> <<{e2, e3}, {e1}>>)
MCListOf == (i1 :> old) @@ (i2 :> new) @@ (i3 :> new)
MCVectorNear == (s1 :> {e1, e2}) @@ (s2 :> {e3})
MCSoundsLike == (s1 :> {e2, e3}) @@ (s2 :> {e2})
==============================================================================
