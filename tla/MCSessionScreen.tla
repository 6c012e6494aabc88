-------------------------- MODULE MCSessionScreen --------------------------
(* Two sessions: one message can pass the check in the first and be         *)
(* delivered to the second, or be handled in the first while the second is  *)
(* there.  Two users, so that the second session can be for another one.    *)
(* Two fingers, so that an enumeration can be cut in half, and room in the  *)
(* vector for that half and a list of one.                                  *)
EXTENDS SessionScreen

UserAndFingerSymmetry == Permutations(Users) \cup Permutations(Fingers)
=============================================================================
