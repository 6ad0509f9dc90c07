---------------------------- MODULE MCCoreDumps ----------------------------
(***************************************************************************)
(* Two core files of a daemon with the process ids 82 and 682; the first is *)
(* compressed. There are also two kernel cores, where one is expected.     *)
(***************************************************************************)
EXTENDS CoreDumps

CONSTANTS c1, c2, k1, k2

MC_Sorted == <<c1, c2, k1, k2>>

MC_NameOf ==
  [c \in {c1, c2} |->
     [daemon |-> "d",
      fields |-> IF c = c1 THEN << <<0>>, <<3, 9>>, <<8, 2>>, <<5, 3>> >>
                 ELSE << <<0>>, <<3, 9>>, <<6, 8, 2>> >>]]
=============================================================================
