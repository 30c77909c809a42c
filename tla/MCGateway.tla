----------------------------- MODULE MCGateway -----------------------------
(* Symmetry for the run of Gateway.                                        *)
EXTENDS Gateway, TLC
Symmetry == Permutations(User) \cup Permutations(Worker) \cup Permutations(Ssid) \cup Permutations(Conn)
=============================================================================
