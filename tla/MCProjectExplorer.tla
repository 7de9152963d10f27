--------------------------- MODULE MCProjectExplorer ---------------------------
(* ProjectExplorer for TLC: folders and names may be exchanged. *)
EXTENDS ProjectExplorer, TLC

Symmetry == Permutations(Folder) \cup Permutations(Name)

=============================================================================
