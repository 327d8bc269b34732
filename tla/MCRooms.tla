--------------------------------- MODULE MCRooms ---------------------------------
(* An instance of Rooms for TLC: a window for each of three people. *)
EXTENDS Rooms, TLC

CONSTANTS p1, p2, p3, x1, x2, x3, c1, c2, none

WindowEach == (x1 :> p1 @@ x2 :> p2 @@ x3 :> p3)

CallSymmetry == Permutations(Calls)

=============================================================================
