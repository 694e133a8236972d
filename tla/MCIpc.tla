------------------------------- MODULE MCIpc -------------------------------
(* Ipc for TLC: the tasks other than the root, and the endpoints, are      *)
(* interchangeable.                                                        *)
EXTENDS IpcRefinement, IpcInvariant, TLC

Symmetry == Permutations(Tasks \ {Root}) \cup Permutations(Endpoints)
=============================================================================
