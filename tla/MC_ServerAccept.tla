-------------------------- MODULE MC_ServerAccept --------------------------
\* Two hosts, whose sockets are replaced once, and one other descriptor.
EXTENDS ServerAccept

CONSTANTS p1, p2
MCHosts == <<p1, p2>>
=============================================================================
