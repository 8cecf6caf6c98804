---- MODULE MCRoomChannels ----
(* RoomChannels on a small instance: two clients of one room, one of another. *)
EXTENDS RoomChannels

CONSTANTS c1, c2, c3, r1, r2

MCClient == {c1, c2, c3}
MCRoomOf == [c \in MCClient |-> IF c = c3 THEN r2 ELSE r1]
====
