-------------------------- MODULE MCRoomMembership --------------------------
(* A room with its creator and a member who comes back with a second tab. *)
EXTENDS RoomMembership

CONSTANTS r1, a1, b1, b2, A, B

MCHome == [c \in Conn |-> r1]
MCMemberOf == [c \in Conn |-> IF c = a1 THEN A ELSE B]
MCCreator == [r \in Room |-> A]
=============================================================================
