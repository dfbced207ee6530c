------------------------------- MODULE MCServer -------------------------------
(***************************************************************************)
(* One proxied client and the recorder, on up to two connections: enough   *)
(* for a client to come back while its old connection is still in the map, *)
(* and for two clients to share a connection.  A header of two bytes and   *)
(* payloads of none or two can be cut at every kind of place.              *)
(***************************************************************************)
EXTENDS Server

CONSTANTS c1, rec

MCClients == {c1, rec}
MCPayloads == {0, 2}

=============================================================================
