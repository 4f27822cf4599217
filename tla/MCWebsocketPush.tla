--------------------------- MODULE MCWebsocketPush ---------------------------
(* An instance of WebsocketPush for TLC. *)
EXTENDS WebsocketPush

CONSTANTS p1, p2, none, noIp

MCParams == {p1, p2}
=============================================================================
