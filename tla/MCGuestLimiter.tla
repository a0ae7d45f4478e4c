--------------------------- MODULE MCGuestLimiter ---------------------------
(* Instances of GuestLimiter for TLC. *)
EXTENDS GuestLimiter

CONSTANTS peer1, peer2

\* Two connections: the first is of peer1, the second of either.
MCFrom == [c \in Conn |-> IF c = 1 THEN {peer1} ELSE {peer1, peer2}]

Limit(requests, slots) ==
    [k \in limitKind |-> CASE k = "request" -> requests [] k = "conn" -> slots [] OTHER -> 1]

\* The token and enroll budgets bind while two requests of a peer wait at once, the
\* connection cap binds, or the request budget does.
MCLimits == {Limit(2, 2), Limit(2, 1), Limit(1, 2)}
=============================================================================
