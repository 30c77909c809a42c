-------------------------- MODULE MCFriendService --------------------------
(* Symmetry for the runs of FriendService.                                 *)
EXTENDS FriendService, TLC

Symmetry == Permutations(User) \cup Permutations(Worker) \cup Permutations(SessionId)
=============================================================================
