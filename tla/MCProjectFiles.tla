----------------------------- MODULE MCProjectFiles -----------------------------
(* Requests can be exchanged with each other, and contents too. *)
EXTENDS ProjectFiles, TLC

Interchangeable ==
    Permutations(Handler) \cup Permutations(Content) \cup Permutations(Folder \ (Excluded \cup {Top}))
=================================================================================
