--------------------------- MODULE MCRemoteClient ---------------------------
(* Every request there is, against every kind of host, with two retries.    *)
EXTENDS RemoteClient
=============================================================================
