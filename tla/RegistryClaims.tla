--------------------------- MODULE RegistryClaims ---------------------------
(* What the comments of registry.c say of the registry, where the code     *)
(* does something else.                                                    *)
EXTENDS Registry

\* registry.c:85, of all_socks: "all currently connected sockets".  Every
\* socket that is watched while the server runs is open.
WatchedAreConnected == phase = "run" => BadSocks = {}

\* registry.c:101, of clear_client: "resets and frees allocated data for a
\* client", and :38, of CLIENT_UNKNOWN: "the client is connected but not join
\* joined or registered".  A slot that is given to a new client starts as
\* CLIENT_UNKNOWN, so that PUBLISH and SEARCH wait for its JOIN.
NewClientsAreUnknown ==
  [][\A i \in Slots : ~clients[i].active /\ clients'[i].active
                        => clients'[i].type = "UNKNOWN"]_vars

=============================================================================
