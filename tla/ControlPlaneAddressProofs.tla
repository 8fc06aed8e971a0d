--------------------- MODULE ControlPlaneAddressProofs ----------------------
(***************************************************************************)
(* Proof that getControlPlaneAddress chooses the address the spec         *)
(* prescribes, for any number of interfaces and addresses and any set of  *)
(* names.  The argument:                                                  *)
(*   - on two distinct names, the sort.Slice comparator Less agrees with  *)
(*     the spec's rank (docker0, then eth0, then by name);                *)
(*   - so any order sort.Slice may leave is a permutation of the          *)
(*     interfaces in strictly increasing rank (a permutation of 1..n is   *)
(*     onto, so no interface is lost);                                     *)
(*   - so the first hit of the two loops is the least-ranked usable       *)
(*     interface, at its first usable address.                            *)
(* The least elements used on the way come from the well-foundedness of   *)
(* < on Nat (WFMin), not from an induction over data.                     *)
(***************************************************************************)
EXTENDS ControlPlaneAddress, FiniteSetTheorems, TLAPS

\* The interface lists net.Interfaces can return: distinct names.
IfSeqs ==
    UNION {{s \in [1..n -> Ifaces] : \A i, j \in 1..n : i # j => s[i].name # s[j].name}
           : n \in 0..MaxIfaces}

TypeOK == ifaces \in IfSeqs

\* The parts of AddressAsSpecified, named.
OkSet(f) == {g \in {f[i] : i \in DOMAIN f} :
               IfaceUsable(g) /\ \E k \in DOMAIN g.addrs : AddrUsable(g.addrs[k])}
Best(f) == CHOOSE g \in OkSet(f) : \A h \in OkSet(f) : Rank(g.name) <= Rank(h.name)
FirstK(g) == CHOOSE k \in DOMAIN g.addrs :
                 /\ AddrUsable(g.addrs[k])
                 /\ \A m \in 1..(k - 1) : ~AddrUsable(g.addrs[m])
Expected(f) == IF OkSet(f) = {} THEN NoAddress ELSE <<Best(f).name, FirstK(Best(f))>>

USE AddressAssumption

LEMMA SpecifiedIsExpected ==
    AddressAsSpecified <=> (result # <<>> => result = Expected(ifaces))
BY DEF AddressAsSpecified, Expected, OkSet, Best, FirstK

\* A nonempty set of naturals has a least element.
LEMMA NatMin ==
    ASSUME NEW T \in SUBSET Nat, T # {}
    PROVE  \E m \in T : \A x \in T : m <= x
<1>1. IsWellFoundedOn(OpToRel(<, Nat), Nat)
  BY NatLessThanWellFounded, Zenon
<1>2. PICK m \in T : \A y \in T : ~(<<y, m>> \in OpToRel(<, Nat))
  BY <1>1, WFMin, Zenon
<1>3. \A y \in T : ~(y < m)
  BY <1>2, Zenon DEF OpToRel
<1>4. \A y \in T : m <= y
  BY <1>3
<1>5. QED
  BY <1>4

LEMMA PosFacts ==
    ASSUME NEW a \in NameSet
    PROVE  Pos(a) \in 1..Len(Names) /\ Names[Pos(a)] = a
<1>1. DOMAIN Names = 1..Len(Names) /\ Len(Names) \in Nat
  OBVIOUS
<1>2. \E i \in DOMAIN Names : Names[i] = a
  BY DEF NameSet
<1>3. QED
  BY <1>1, <1>2 DEF Pos

LEMMA RankNat ==
    ASSUME NEW a \in NameSet
    PROVE  Rank(a) \in Nat
<1>1. Len(Names) \in Nat
  OBVIOUS
<1>2. QED
  BY <1>1, PosFacts DEF Rank

\* On two distinct names, Less is the order of the spec's rank.
LEMMA RankOrder ==
    ASSUME NEW a \in NameSet, NEW b \in NameSet, a # b
    PROVE  /\ Rank(a) \in Nat /\ Rank(b) \in Nat
           /\ Rank(a) # Rank(b)
           /\ Less(a, b) <=> Rank(a) < Rank(b)
<1>1. Len(Names) \in Nat
  OBVIOUS
<1>2. Pos(a) \in 1..Len(Names) /\ Pos(b) \in 1..Len(Names) /\ Pos(a) # Pos(b)
  BY PosFacts
<1>3. Pos(a) \in Nat \ {0} /\ Pos(b) \in Nat \ {0}
  BY <1>1, <1>2
<1>4. Rank(a) \in Nat /\ Rank(b) \in Nat /\ Rank(a) # Rank(b)
  BY <1>2, <1>3 DEF Rank
<1>5. Less(a, b) <=> Rank(a) < Rank(b)
  BY <1>2, <1>3 DEF Rank, Less
<1>6. QED
  BY <1>4, <1>5

\* An injective map of 1..n into itself is onto.
LEMMA PermOnto ==
    ASSUME NEW n \in Nat, NEW p \in Perms(n)
    PROVE  \A j \in 1..n : \E i \in 1..n : p[i] = j
<1>1. p \in Injection(1..n, 1..n)
  BY DEF Perms, Injection, IsInjective
<1>2. IsFiniteSet(1..n)
  BY FS_Interval
<1>3. p \in Surjection(1..n, 1..n)
  BY <1>1, <1>2, FS_Injection
<1>4. QED
  BY <1>3 DEF Surjection

\* What sort.Slice leaves: the same interfaces, in strictly increasing rank.
LEMMA SortedFacts ==
    ASSUME NEW f \in IfSeqs, NEW s \in SortedOrders(f)
    PROVE  /\ DOMAIN s = DOMAIN f
           /\ DOMAIN f \subseteq Nat
           /\ \A i \in DOMAIN s : s[i] \in Ifaces /\ Rank(s[i].name) \in Nat
           /\ {s[i] : i \in DOMAIN s} = {f[i] : i \in DOMAIN f}
           /\ \A i, j \in DOMAIN s : i < j => Rank(s[i].name) < Rank(s[j].name)
<1>1. PICK n \in 0..MaxIfaces :
          /\ f \in [1..n -> Ifaces]
          /\ \A i, j \in 1..n : i # j => f[i].name # f[j].name
  BY DEF IfSeqs
<1>2. Len(f) = n /\ DOMAIN f = 1..n /\ n \in Nat
  BY <1>1
<1>3. PICK p \in Perms(n) :
          /\ \A i, j \in 1..n : i < j => ~Less(f[p[j]].name, f[p[i]].name)
          /\ s = [i \in DOMAIN f |-> f[p[i]]]
  BY <1>2 DEF SortedOrders
<1>4. p \in [1..n -> 1..n] /\ \A i, j \in 1..n : i # j => p[i] # p[j]
  BY <1>3 DEF Perms
<1>5. DOMAIN s = 1..n /\ \A i \in 1..n : s[i] = f[p[i]] /\ s[i] \in Ifaces
  BY <1>1, <1>2, <1>3, <1>4
<1>6. \A i \in 1..n : s[i].name \in NameSet
  BY <1>5 DEF Ifaces
<1>7. \A i \in 1..n : Rank(s[i].name) \in Nat
  BY <1>6, RankNat
<1>8. {s[i] : i \in DOMAIN s} = {f[i] : i \in DOMAIN f}
  <2>1. \A j \in 1..n : \E i \in 1..n : p[i] = j
    BY <1>2, PermOnto
  <2>2. QED
    BY <1>2, <1>4, <1>5, <2>1
<1>9. ASSUME NEW i \in 1..n, NEW j \in 1..n, i < j
      PROVE  Rank(s[i].name) < Rank(s[j].name)
  <2>0. p[i] \in 1..n /\ p[j] \in 1..n /\ p[i] # p[j]
    BY <1>4, <1>9
  <2>1. s[i].name # s[j].name
    BY <1>1, <1>5, <2>0
  <2>2. ~Less(s[j].name, s[i].name)
    BY <1>3, <1>5, <1>9
  <2>3. QED
    BY <1>6, <2>1, <2>2, RankOrder
<1>10. \A i, j \in DOMAIN s : i < j => Rank(s[i].name) < Rank(s[j].name)
  BY <1>5, <1>9
<1>11. DOMAIN f \subseteq Nat
  BY <1>2
<1>12. \A i \in DOMAIN s : s[i] \in Ifaces /\ Rank(s[i].name) \in Nat
  BY <1>5, <1>7
<1>13. DOMAIN s = DOMAIN f
  BY <1>2, <1>5
<1>14. QED
  BY <1>8, <1>10, <1>11, <1>12, <1>13

LEMMA AddrsDomain ==
    ASSUME NEW g \in Ifaces
    PROVE  \E m \in 0..MaxAddrs : DOMAIN g.addrs = 1..m
BY DEF Ifaces

\* The two loops over any order sort.Slice may leave return the address
\* the spec prescribes.
LEMMA ScanFindsBest ==
    ASSUME NEW f \in IfSeqs, NEW s \in SortedOrders(f)
    PROVE  FirstAddress(s) = Expected(f)
<1> DEFINE Has(g) == IfaceUsable(g) /\ \E k \in DOMAIN g.addrs : AddrUsable(g.addrs[k])
           I == {i \in DOMAIN s : Has(s[i])}
           hits == {h \in (DOMAIN s) \X (1..MaxAddrs) :
                      /\ IfaceUsable(s[h[1]])
                      /\ h[2] \in DOMAIN s[h[1]].addrs
                      /\ AddrUsable(s[h[1]].addrs[h[2]])}
           LexLeast(h) == \A g \in hits : h[1] < g[1] \/ (h[1] = g[1] /\ h[2] <= g[2])
<1>1. /\ DOMAIN s = DOMAIN f
      /\ DOMAIN f \subseteq Nat
      /\ \A i \in DOMAIN s : s[i] \in Ifaces /\ Rank(s[i].name) \in Nat
      /\ {s[i] : i \in DOMAIN s} = {f[i] : i \in DOMAIN f}
      /\ \A i, j \in DOMAIN s : i < j => Rank(s[i].name) < Rank(s[j].name)
  BY SortedFacts
<1>2. OkSet(f) = {s[i] : i \in I}
  BY <1>1 DEF OkSet
<1> DEFINE c == CHOOSE h \in hits : LexLeast(h)
<1>3. FirstAddress(s) = IF hits = {} THEN NoAddress ELSE <<s[c[1]].name, c[2]>>
  BY DEF FirstAddress
<1>4. \A h \in hits : h[1] \in I
  BY DEF Has
<1>5. CASE I = {}
  <2>1. hits = {} /\ OkSet(f) = {}
    BY <1>2, <1>4, <1>5
  <2>2. QED
    BY <1>3, <2>1 DEF Expected
<1>6. CASE I # {}
  <2>1. PICK i0 \in I : \A i \in I : i0 <= i
    BY <1>1, <1>6, NatMin
  <2> DEFINE g0 == s[i0]
             K == {k \in DOMAIN g0.addrs : AddrUsable(g0.addrs[k])}
  <2>2a. g0 \in Ifaces
    BY <1>1
  <2>2. PICK len \in 0..MaxAddrs : DOMAIN g0.addrs = 1..len
    BY <2>2a, AddrsDomain
  <2>3. PICK k0 \in K : \A k \in K : k0 <= k
    <3>1. K \subseteq Nat /\ K # {}
      BY <2>2 DEF Has
    <3>2. QED
      BY <3>1, NatMin
  <2>4. <<i0, k0>> \in hits /\ LexLeast(<<i0, k0>>)
    <3>1. <<i0, k0>> \in hits
      BY <2>2, <2>3
    <3>2. ASSUME NEW g \in hits PROVE i0 < g[1] \/ (i0 = g[1] /\ k0 <= g[2])
      <4>1. g[1] \in I /\ i0 <= g[1] /\ g[1] \in Nat /\ i0 \in Nat
        BY <1>1, <1>4, <2>1
      <4>2. CASE g[1] = i0
        BY <2>3, <4>2
      <4>3. QED
        BY <4>1, <4>2
    <3>3. QED
      BY <3>1, <3>2
  <2>5. c = <<i0, k0>>
    <3>1. ASSUME NEW h \in hits, LexLeast(h) PROVE h = <<i0, k0>>
      <4>1. h[1] < i0 \/ (h[1] = i0 /\ h[2] <= k0)
        BY <2>4, <3>1
      <4>2. i0 < h[1] \/ (i0 = h[1] /\ k0 <= h[2])
        BY <2>4
      <4>3. h[1] \in Nat /\ h[2] \in Nat /\ i0 \in Nat /\ k0 \in Nat
        BY <1>1, <2>2
      <4>4. h[1] = i0 /\ h[2] = k0
        BY <4>1, <4>2, <4>3
      <4>5. QED
        BY <4>4
    <3>2. QED
      BY <2>4, <3>1
  <2> HIDE DEF c
  <2>6. FirstAddress(s) = <<g0.name, k0>>
    <3>1. hits # {}
      BY <2>4
    <3>2. c[1] = i0 /\ c[2] = k0
      BY <2>5
    <3>3. QED
      BY <1>3, <3>1, <3>2
  <2>7. Best(f) = g0
    <3>1. g0 \in OkSet(f) /\ \A h \in OkSet(f) : Rank(g0.name) <= Rank(h.name)
      <4>1. ASSUME NEW j \in I PROVE Rank(g0.name) <= Rank(s[j].name)
        <5>1. i0 <= j /\ i0 \in Nat /\ j \in Nat
          BY <1>1, <2>1
        <5>2. CASE i0 = j
          BY <1>1, <5>2
        <5>3. CASE i0 < j
          BY <1>1, <5>3
        <5>4. QED
          BY <5>1, <5>2, <5>3
      <4>2. QED
        BY <1>2, <4>1
    <3>2. ASSUME NEW g \in OkSet(f), \A h \in OkSet(f) : Rank(g.name) <= Rank(h.name)
          PROVE  g = g0
      <4>1. PICK j \in I : g = s[j]
        BY <1>2
      <4>2. Rank(s[j].name) <= Rank(g0.name) /\ i0 <= j /\ i0 \in Nat /\ j \in Nat
        BY <1>1, <2>1, <3>1, <3>2, <4>1
      <4>3. ~(i0 < j)
        BY <1>1, <4>2
      <4>4. QED
        BY <4>1, <4>2, <4>3
    <3>3. QED
      BY <3>1, <3>2 DEF Best
  <2>8. FirstK(g0) = k0
    <3>1. AddrUsable(g0.addrs[k0]) /\ \A m \in 1..(k0 - 1) : ~AddrUsable(g0.addrs[m])
      <4>1. k0 \in 1..len
        BY <2>2
      <4>2. ASSUME NEW m \in 1..(k0 - 1), AddrUsable(g0.addrs[m]) PROVE FALSE
        <5>1. m \in K
          BY <2>2, <4>1, <4>2
        <5>2. QED
          BY <2>3, <4>1, <5>1
      <4>3. QED
        BY <4>2
    <3>2. ASSUME NEW k \in DOMAIN g0.addrs, AddrUsable(g0.addrs[k]),
                 \A m \in 1..(k - 1) : ~AddrUsable(g0.addrs[m])
          PROVE  k = k0
      <4>1. k \in K /\ k \in 1..len /\ k0 \in 1..len
        BY <2>2, <3>2
      <4>2. k0 <= k
        BY <2>3, <4>1
      <4>3. ~(k0 < k)
        BY <3>1, <3>2, <4>1
      <4>4. QED
        BY <4>1, <4>2, <4>3
    <3>3. k0 \in DOMAIN g0.addrs
      BY <2>2
    <3>4. QED
      BY <3>1, <3>2, <3>3 DEF FirstK
  <2>9. OkSet(f) # {}
    BY <1>2, <1>6
  <2>10. QED
    BY <2>6, <2>7, <2>8, <2>9 DEF Expected
<1>7. QED
  BY <1>5, <1>6

Inv == TypeOK /\ AddressAsSpecified

LEMMA NextInv == Inv /\ [Next]_vars => Inv'
<1> SUFFICES ASSUME Inv, [Next]_vars PROVE Inv'
  OBVIOUS
<1>1. CASE Select
  <2>1. PICK s \in SortedOrders(ifaces) : result' = FirstAddress(s)
    BY <1>1 DEF Select
  <2>2. ifaces' = ifaces
    BY <1>1 DEF Select
  <2>3. result' = Expected(ifaces')
    BY <2>1, <2>2, ScanFindsBest DEF Inv, TypeOK
  <2>4. AddressAsSpecified'
    BY <2>2, <2>3 DEF AddressAsSpecified, Expected, OkSet, Best, FirstK
  <2>5. QED
    BY <2>2, <2>4 DEF Inv, TypeOK
<1>2. CASE UNCHANGED vars
  <2>1. ifaces' = ifaces /\ result' = result
    BY <1>2 DEF vars
  <2>2. QED
    <3>1. TypeOK'
      BY <1>2, <2>1 DEF Inv, TypeOK
    <3>2. result' # <<>> => result' = Expected(ifaces')
      BY <2>1, SpecifiedIsExpected DEF Inv
    <3>3. AddressAsSpecified'
      BY <3>2 DEF AddressAsSpecified, Expected, OkSet, Best, FirstK
    <3>4. QED
      BY <3>1, <3>3 DEF Inv
<1>3. QED
  BY <1>1, <1>2 DEF Next

(* For any host, with any number of interfaces and addresses, the address *)
(* getControlPlaneAddress returns does not depend on the order in which   *)
(* net.Interfaces lists the interfaces nor on the order sort.Slice (not   *)
(* stable) leaves them in: it is the first usable address of the usable   *)
(* interface of least rank (docker0, then eth0, then by name), and the    *)
(* error only when no interface has a usable address.                      *)
THEOREM AddressChosenAsSpecified == Spec => []AddressAsSpecified
<1>1. Init => Inv
  BY DEF Init, Inv, TypeOK, IfSeqs, AddressAsSpecified
<1>2. QED
  BY <1>1, NextInv, PTL DEF Spec, Inv

=============================================================================
