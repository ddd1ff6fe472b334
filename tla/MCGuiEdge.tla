------------------------------- MODULE MCGuiEdge -------------------------------
(* Small instances of GuiEdge for TLC.                                       *)
EXTENDS GuiEdge, TLC

Symmetry == Permutations(Zones) \cup Permutations(InstanceIds)
            \cup Permutations(Discoveries) \cup Permutations(Setups)

(* Any user, until a zone was confirmed during a setup: OnlyOverlapHurts     *)
(* claims nothing from there on, and the types are a theorem for every state *)
(* (GuiEdgeProofs), so the behaviours end there and the threads, zones and   *)
(* ids can be more.                                                          *)
UntilOverlap == Init /\ [][Next /\ ~overlapped]_vars

===============================================================================
