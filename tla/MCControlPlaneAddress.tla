------------------------ MODULE MCControlPlaneAddress ------------------------
EXTENDS ControlPlaneAddress

\* Four names in Go's string order: two the comparator prefers, two it sorts.
MCNames == <<"a0", "docker0", "eth0", "lo">>

\* A global IPv4 address, a link-local IPv4 address and an IPv6 address.
MCAddrKinds ==
    {[ipnet |-> TRUE, v4 |-> TRUE, linkLocal |-> FALSE, loopback |-> FALSE],
     [ipnet |-> TRUE, v4 |-> TRUE, linkLocal |-> TRUE, loopback |-> FALSE],
     [ipnet |-> TRUE, v4 |-> FALSE, linkLocal |-> FALSE, loopback |-> FALSE]}
=============================================================================
