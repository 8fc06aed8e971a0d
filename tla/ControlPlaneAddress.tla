------------------------- MODULE ControlPlaneAddress -------------------------
(***************************************************************************)
(* getControlPlaneAddress (pkg/controller/accesspolicy.go): the address   *)
(* the xDS server listens on and the proxies are bootstrapped with.  It   *)
(* sorts the host's interfaces with a comparator that puts docker0 first, *)
(* eth0 next and the rest by name, then returns the first address of the  *)
(* first interface that is up and not a loopback that is an IPv4 address, *)
(* not link-local and not a loopback address.                             *)
(*                                                                         *)
(* net.Interfaces returns the interfaces in an order the model leaves     *)
(* open; sort.Slice is not stable, so the sort is modelled as any order   *)
(* in which no element is Less than one before it.  Interface names are   *)
(* strings: Names lists them in lexicographic order, so that Go's string  *)
(* comparison nameI < nameJ is the comparison of their positions.         *)
(***************************************************************************)
EXTENDS Naturals, Sequences, FiniteSets

CONSTANTS
    Names,      \* the interface names, a sequence in lexicographic order
    Docker0,    \* the name "docker0"
    Eth0,       \* the name "eth0"
    AddrKinds,  \* addresses: [ipnet, v4, linkLocal, loopback] flags
    MaxIfaces,  \* bound on the interfaces of the host
    MaxAddrs    \* bound on the addresses of an interface

ASSUME AddressAssumption ==
    /\ Names \in Seq({Names[i] : i \in DOMAIN Names})
    /\ Docker0 \in {Names[i] : i \in DOMAIN Names}
    /\ Eth0 \in {Names[i] : i \in DOMAIN Names}
    /\ MaxIfaces \in Nat /\ MaxAddrs \in Nat

NameSet == {Names[i] : i \in DOMAIN Names}
Pos(n) == CHOOSE i \in DOMAIN Names : Names[i] = n

\* An interface as net.Interfaces and Addrs report it; a failing Addrs
\* call is an interface whose addrs are not readable.
Ifaces == [name : NameSet, up : BOOLEAN, loopback : BOOLEAN, addrsOk : BOOLEAN,
           addrs : UNION {[1..n -> AddrKinds] : n \in 0..MaxAddrs}]

\* The orders of n distinct interface names, and of the indices 1..n.
Perms(n) == {p \in [1..n -> 1..n] : \A i, j \in 1..n : i # j => p[i] # p[j]}

VARIABLES
    ifaces,   \* the interfaces, in the order net.Interfaces returns them
    result    \* <<>> before the call; then the address chosen or NoAddress

vars == <<ifaces, result>>

\* The error return: no suitable address.
NoAddress == <<"none">>

\* Mutant: a comparator without the eth0 preference.
LessNoEth0(nameI, nameJ) ==
    IF nameI = Docker0 THEN TRUE
    ELSE IF nameJ = Docker0 THEN FALSE
    ELSE Pos(nameI) < Pos(nameJ)

(* The sort.Slice comparator, in the order of its if statements. *)
Less(nameI, nameJ) ==
    IF nameI = Docker0 THEN TRUE
    ELSE IF nameJ = Docker0 THEN FALSE
    ELSE IF nameI = Eth0 THEN nameJ # Docker0
    ELSE IF nameJ = Eth0 THEN FALSE
    ELSE Pos(nameI) < Pos(nameJ)

(* The orders sort.Slice can leave the interfaces in. *)
SortedOrders(s) ==
    {[i \in DOMAIN s |-> s[p[i]]] : p \in
        {p \in Perms(Len(s)) :
            \A i, j \in 1..Len(s) : i < j => ~Less(s[p[j]].name, s[p[i]].name)}}

(* The interface filter (up, not loopback, Addrs succeeded) and the       *)
(* address filter (an IPNet, To4 non-nil, not link-local, not loopback).  *)
IfaceUsable(f) == f.up /\ ~f.loopback /\ f.addrsOk
AddrUsable(a) == a.ipnet /\ a.v4 /\ ~a.linkLocal /\ ~a.loopback

(* The two loops: the first usable address of the first interface that  *)
(* has one, as <<interface name, address index>>, or NoAddress.          *)
FirstAddress(s) ==
    LET hits == {h \in (DOMAIN s) \X (1..MaxAddrs) :
                   /\ IfaceUsable(s[h[1]])
                   /\ h[2] \in DOMAIN s[h[1]].addrs
                   /\ AddrUsable(s[h[1]].addrs[h[2]])}
    IN IF hits = {} THEN NoAddress
       ELSE LET h == CHOOSE h \in hits :
                       \A g \in hits : h[1] < g[1] \/ (h[1] = g[1] /\ h[2] <= g[2])
            IN <<s[h[1]].name, h[2]>>

Init ==
    /\ ifaces \in UNION {{s \in [1..n -> Ifaces] :
                            \A i, j \in 1..n : i # j => s[i].name # s[j].name}
                         : n \in 0..MaxIfaces}
    /\ result = <<>>

(* One call of getControlPlaneAddress. *)
Select ==
    /\ result = <<>>
    /\ \E s \in SortedOrders(ifaces) : result' = FirstAddress(s)
    /\ UNCHANGED ifaces

Next == Select

Spec == Init /\ [][Next]_vars

-----------------------------------------------------------------------------
\* The preference of section 5 of the spec: docker0, then eth0, then by name.
Rank(n) == IF n = Docker0 THEN 0 ELSE IF n = Eth0 THEN 1 ELSE 1 + Pos(n)

(* The address is chosen deterministically, whatever order the kernel     *)
(* lists the interfaces in: a usable address of the usable interface of  *)
(* least rank (docker0, then eth0, then by name), its first such address, *)
(* and the error only when no interface has one.                          *)
AddressAsSpecified ==
    result # <<>> =>
        LET ok == {f \in {ifaces[i] : i \in DOMAIN ifaces} :
                     IfaceUsable(f) /\ \E k \in DOMAIN f.addrs : AddrUsable(f.addrs[k])}
        IN IF ok = {} THEN result = NoAddress
           ELSE LET f == CHOOSE f \in ok : \A g \in ok : Rank(f.name) <= Rank(g.name)
                IN result = <<f.name, CHOOSE k \in DOMAIN f.addrs :
                                         /\ AddrUsable(f.addrs[k])
                                         /\ \A m \in 1..(k - 1) : ~AddrUsable(f.addrs[m])>>
=============================================================================
