--------------------------- MODULE MCPartyGateway ---------------------------
(* Small deployments of the party gateway: one socket that joins twice, in *)
(* one room or two, or two sockets of two users on one API process or on   *)
(* one each.                                                               *)
EXTENDS PartyGateway, TLC

CONSTANTS api1, api2, p1, p2, u1, u2, s1, s2, none

OneApi == {api1}
TwoApis == {api1, api2}
OneRoom == {p1}
TwoRooms == {p1, p2}
TwoUsers == {u1, u2}
OneSocket == {s1}
TwoSockets == {s1, s2}
SocketEach == (s1 :> u1) @@ (s2 :> u2)
OneTab == (s1 :> u1)
Channels == Sessions \X (1..MaxJoins)
SameApi == [c \in Channels |-> api1]
ApiEach == [c \in Channels |-> IF c[1] = s1 THEN api1 ELSE api2]
=============================================================================
