------------------------------ MODULE MCMedia -------------------------------
(* Instances of Media for TLC. *)
EXTENDS Media, TLC

CONSTANTS u1, u2

Image(u, isFront) == [url |-> u, front |-> isFront]

\* A front cover with another image, and a list that has its front cover twice.
MCListings == {<<Image(u1, TRUE), Image(u2, FALSE)>>, <<Image(u2, TRUE), Image(u2, TRUE)>>}

MediaSymmetry == Permutations(Requests) \cup Permutations(Contents)
=============================================================================
