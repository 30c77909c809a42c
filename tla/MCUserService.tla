--------------------------- MODULE MCUserService ---------------------------
(* Symmetry for the run of UserService.                                    *)
EXTENDS UserService, TLC
Symmetry == Permutations(User) \cup Permutations(Name) \cup Permutations(Handler)
=============================================================================
