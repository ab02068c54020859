----------------------------- MODULE MCProxyUDP -----------------------------
(* Small instances of ProxyUDP for TLC. *)
EXTENDS ProxyUDP

(* Datagrams of 2, 0 and 1 bytes. *)
MCStart == <<0, 4, 6, 9>>
=============================================================================
