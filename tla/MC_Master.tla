------------------------------ MODULE MC_Master -----------------------------
(* Two remotes in a row to the right of the master: MASTER - r1 - r2.     *)
EXTENDS Master

CONSTANTS r1, r2, shift

MC_Remotes == {r1, r2}
MC_Mods == {shift}
\* No modifiers: for the focus and grab questions, which keys are held is
\* irrelevant.
MC_NoMods == {}
MC_Dirs == {"LEFT", "RIGHT"}

\* master.neighbors[RIGHT] = r1; r1: LEFT master, RIGHT r2; r2: LEFT r1.
MC_Neighbor ==
  [p \in ({r1, r2, MASTER} \X MC_Dirs) |->
     CASE p = <<MASTER, "RIGHT">> -> r1
       [] p = <<r1, "LEFT">> -> MASTER
       [] p = <<r1, "RIGHT">> -> r2
       [] p = <<r2, "LEFT">> -> r1
       [] OTHER -> NONE]
=============================================================================
