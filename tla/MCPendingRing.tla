--------------------------- MODULE MCPendingRing ---------------------------
(* PendingRing on a small instance: a notification and a request, a buffer *)
(* that grows from 3 to 12 cells and shrinks again from there.             *)
EXTENDS PendingRing

MCEntries == {"NOTIFY", "REQUEST"}

MCNotifs == {"NOTIFY"}

MCUnset == "unset"
=============================================================================
