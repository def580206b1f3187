-------------------------- MODULE MCRoommateFinder --------------------------
(* RoommateFinder for TLC: an applicant who applies twice at once, while   *)
(* the requester and a staff member delete the request.                    *)
EXTENDS RoommateFinder, TLC

CONSTANTS a1, c1, c2, d1, d2

MCApplicant == (c1 :> a1) @@ (c2 :> a1)

============================================================================
