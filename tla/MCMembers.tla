------------------------------ MODULE MCMembers ------------------------------
(***************************************************************************)
(* The founder and one other person, four requests, all of which may       *)
(* overlap, and two invitations: enough for two owners who remove each     *)
(* other and for an invitation withdrawn while claimed and issued anew.    *)
(***************************************************************************)
EXTENDS Members, TLC

MCSymmetry == Permutations(Requests)
=============================================================================
