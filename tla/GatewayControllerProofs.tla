------------------------ MODULE GatewayControllerProofs ------------------------
(***************************************************************************)
(* Proofs about GatewayController for every number of gateways, routes    *)
(* and workers.                                                            *)
(*                                                                         *)
(* NoConcurrentSync is not inductive by itself: WorkerGet hands out the    *)
(* head of the queue, which is distinct from every key a worker holds only *)
(* because a queued key is never in the processing set, and processing is  *)
(* exactly the set of keys the workers hold.  WorkerDone appends its key   *)
(* only if it is not queued already, which needs the queue to hold dirty   *)
(* keys only.  QInv states these facts of client-go's queue.               *)
(***************************************************************************)
EXTENDS GatewayController, FiniteSetTheorems, SequenceTheorems, TLAPS

\* The keys held by workers between Get and Done.
Held == {wkey[w] : w \in {v \in Workers : wpc[v] # "get"}}

QInv ==
    /\ \A i \in 1..Len(queue) : queue[i] \in dirty \ processing
    /\ \A i, j \in 1..Len(queue) : i # j => queue[i] # queue[j]
    /\ processing = Held

IInv == TypeOK /\ QInv /\ NoConcurrentSync

USE ControllerAssumption

LEMMA InitIInv == Init => IInv
<1> SUFFICES ASSUME Init PROVE IInv
  OBVIOUS
<1>1. NoKey \in Gateways
  BY DEF NoKey
<1>2. TypeOK
  BY <1>1 DEF Init, TypeOK, GwStates
<1>3. QInv /\ NoConcurrentSync
  BY DEF Init, QInv, Held, NoConcurrentSync
<1>4. QED
  BY <1>2, <1>3 DEF IInv

\* A function on 1..m is a sequence of length m.
LEMMA FunIsSeq ==
  ASSUME NEW S, NEW m \in Nat, NEW f \in [1..m -> S]
  PROVE  f \in Seq(S) /\ Len(f) = m
<1>1. f \in Seq(S)
  OBVIOUS
<1>2. DOMAIN f = 1..Len(f) /\ Len(f) \in Nat
  BY <1>1, LenProperties
<1>3. QED
  BY <1>1, <1>2

(* workqueue.Add of a set of keys, in any order, keeps the queue's        *)
(* bookkeeping: the keys it appends are new to the queue and distinct.    *)
LEMMA AddKeysQInv ==
  ASSUME TypeOK, QInv, NEW ks \in SUBSET Gateways, AddKeys(ks),
         UNCHANGED <<wpc, wkey>>
  PROVE  QInv' /\ queue' \in Seq(Gateways) /\ dirty' \subseteq Gateways
<1> DEFINE F == ks \ (dirty \cup processing)
<1>1. PICK n \in Nat : n = Cardinality(F)
  BY FS_Subset, FS_CardinalityType, ControllerAssumption
<1>2. PICK order \in SetToSeqs(F) : queue' = queue \o order
  BY DEF AddKeys
<1>3. /\ order \in [1..n -> F]
      /\ \A i, j \in 1..n : i # j => order[i] # order[j]
  BY <1>1, <1>2 DEF SetToSeqs
<1>4. order \in Seq(Gateways) /\ Len(order) = n
  <2>1. order \in [1..n -> Gateways]
    BY <1>3
  <2>2. QED
    BY <2>1, FunIsSeq
<1>5. dirty' = dirty \cup ks /\ processing' = processing
  BY DEF AddKeys
<1>6. queue \in Seq(Gateways)
  BY DEF TypeOK
<1>7. /\ queue' \in Seq(Gateways)
      /\ Len(queue') = Len(queue) + n
      /\ \A i \in 1..Len(queue') :
            queue'[i] = IF i <= Len(queue) THEN queue[i] ELSE order[i - Len(queue)]
  <2>1. /\ queue \o order \in Seq(Gateways)
        /\ Len(queue \o order) = Len(queue) + Len(order)
        /\ \A i \in 1..Len(queue) + Len(order) :
              (queue \o order)[i] = IF i <= Len(queue) THEN queue[i] ELSE order[i - Len(queue)]
    BY <1>4, <1>6, ConcatProperties
  <2>2. QED
    BY <1>2, <1>4, <2>1
<1>8. \A i \in 1..Len(queue') : queue'[i] \in dirty' \ processing'
  <2> SUFFICES ASSUME NEW i \in 1..Len(queue') PROVE queue'[i] \in dirty' \ processing'
    OBVIOUS
  <2>1. CASE i <= Len(queue)
    <3>1. queue'[i] = queue[i] /\ i \in 1..Len(queue)
      BY <1>6, <1>7, <2>1
    <3>2. QED
      BY <3>1, <1>5 DEF QInv
  <2>2. CASE ~(i <= Len(queue))
    <3>1. queue'[i] = order[i - Len(queue)] /\ i - Len(queue) \in 1..n
      BY <1>6, <1>7, <2>2
    <3>2. queue'[i] \in F
      BY <3>1, <1>3
    <3>3. QED
      BY <3>2, <1>5
  <2>3. QED
    BY <2>1, <2>2
<1>9. \A i, j \in 1..Len(queue') : i # j => queue'[i] # queue'[j]
  <2> SUFFICES ASSUME NEW i \in 1..Len(queue'), NEW j \in 1..Len(queue'), i # j
               PROVE  queue'[i] # queue'[j]
    OBVIOUS
  <2>1. CASE i <= Len(queue) /\ j <= Len(queue)
    BY <1>6, <1>7, <2>1 DEF QInv
  <2>2. CASE i > Len(queue) /\ j > Len(queue)
    <3>1. /\ queue'[i] = order[i - Len(queue)] /\ queue'[j] = order[j - Len(queue)]
          /\ i - Len(queue) \in 1..n /\ j - Len(queue) \in 1..n
          /\ i - Len(queue) # j - Len(queue)
      BY <1>6, <1>7, <2>2
    <3>2. QED
      BY <1>3, <3>1
  <2>3. CASE i <= Len(queue) /\ j > Len(queue)
    BY <1>3, <1>6, <1>7, <2>3 DEF QInv
  <2>4. CASE i > Len(queue) /\ j <= Len(queue)
    <3>1. queue'[i] \in F
      BY <1>3, <1>6, <1>7, <2>4
    <3>2. queue'[j] \in dirty
      BY <1>6, <1>7, <2>4 DEF QInv
    <3>3. QED
      BY <3>1, <3>2
  <2>5. QED
    BY <1>6, <2>1, <2>2, <2>3, <2>4
<1>10. processing' = Held'
  BY <1>5 DEF QInv, Held
<1>11. QED
  BY <1>5, <1>7, <1>8, <1>9, <1>10 DEF QInv, TypeOK

LEMMA NextIInv == IInv /\ [Next]_vars => IInv'
<1> SUFFICES ASSUME IInv, [Next]_vars PROVE IInv'
  OBVIOUS
<1> USE DEF IInv
<1>1. ASSUME NEW k \in Gateways, NEW g \in GwStates, GatewayEvent(k, g)
      PROVE IInv'
  <2>1. QInv' /\ queue' \in Seq(Gateways) /\ dirty' \subseteq Gateways
    BY <1>1, AddKeysQInv DEF GatewayEvent
  <2>2. QED
    BY <1>1, <2>1 DEF GatewayEvent, TypeOK, NoConcurrentSync, AddKeys
<1>2. ASSUME NEW r \in Routes, NEW new \in SUBSET Refs, RouteEvent(r, new)
      PROVE IInv'
  <2> DEFINE ks == GatewaysOf(parents[r] \cup new)
  <2>1. ks \in SUBSET Gateways
    BY DEF GatewaysOf
  <2>2. CASE RouteHandlerEnqueues
    <3>1. AddKeys(ks) /\ UNCHANGED <<wpc, wkey>>
      BY <1>2, <2>2 DEF RouteEvent
    <3>2. QInv' /\ queue' \in Seq(Gateways) /\ dirty' \subseteq Gateways
      BY <2>1, <3>1, AddKeysQInv
    <3>3. QED
      BY <1>2, <2>1, <2>2, <3>1, <3>2 DEF RouteEvent, TypeOK, NoConcurrentSync,
                                          AddKeys, Refs, GatewaysOf
  <2>3. CASE ~RouteHandlerEnqueues
    BY <1>2, <2>1, <2>3 DEF RouteEvent, TypeOK, QInv, Held, NoConcurrentSync,
                            qVars, Refs, GatewaysOf
  <2>4. QED
    BY <2>2, <2>3
<1>3. ASSUME NEW b \in Backends, BackendEvent(b) PROVE IInv'
  BY <1>3 DEF BackendEvent, TypeOK, QInv, Held, NoConcurrentSync, qVars, UsersOf
<1>4. ASSUME NEW p \in Policies, AccessPolicyEvent(p) PROVE IInv'
  BY <1>4 DEF AccessPolicyEvent, TypeOK, QInv, Held, NoConcurrentSync, qVars,
              UsersOf
<1>5. ASSUME NEW w \in Workers, WorkerGet(w) PROVE IInv'
  <2> DEFINE h == Head(queue)
  <2>1. queue # <<>> /\ wpc[w] = "get"
        /\ wkey' = [wkey EXCEPT ![w] = h] /\ queue' = Tail(queue)
        /\ processing' = processing \cup {h} /\ dirty' = dirty \ {h}
        /\ wpc' = [wpc EXCEPT ![w] = "sync"]
    BY <1>5 DEF WorkerGet
  <2>2. h \in Gateways /\ h \notin processing
        /\ \A i \in 1..Len(Tail(queue)) : Tail(queue)[i] # h
    BY <2>1 DEF QInv, TypeOK
  <2>3. TypeOK'
    BY <1>5, <2>1, <2>2 DEF WorkerGet, TypeOK
  <2>4. QInv'
    <3>1. queue \in Seq(Gateways) /\ Len(queue) > 0
      BY <2>1 DEF TypeOK
    <3>2. Len(queue') = Len(queue) - 1
          /\ \A i \in 1..Len(queue') : queue'[i] = queue[i + 1]
      BY <2>1, <3>1
    <3>3. \A i \in 1..Len(queue') : queue'[i] \in dirty' \ processing'
      BY <2>1, <2>2, <3>1, <3>2 DEF QInv
    <3>4. \A i, j \in 1..Len(queue') : i # j => queue'[i] # queue'[j]
      BY <3>1, <3>2 DEF QInv
    <3>5. processing' = Held'
      BY <2>1 DEF QInv, Held, TypeOK
    <3>6. QED
      BY <3>3, <3>4, <3>5 DEF QInv
  <2>5. NoConcurrentSync'
    BY <2>1, <2>2 DEF QInv, Held, NoConcurrentSync, TypeOK
  <2>6. QED
    BY <2>3, <2>4, <2>5
<1>6. ASSUME NEW w \in Workers, WorkerSync(w) PROVE IInv'
  BY <1>6 DEF WorkerSync, TypeOK, QInv, Held, NoConcurrentSync, qVars
<1>7. ASSUME NEW w \in Workers, WorkerDone(w) PROVE IInv'
  <2> DEFINE key == wkey[w]
  <2>1. wpc[w] = "done" /\ processing' = processing \ {key}
        /\ queue' = (IF key \in dirty THEN Append(queue, key) ELSE queue)
        /\ wpc' = [wpc EXCEPT ![w] = "get"]
        /\ wkey' = [wkey EXCEPT ![w] = NoKey]
        /\ dirty' = dirty
    BY <1>7 DEF WorkerDone
  <2>2. key \in processing /\ \A i \in 1..Len(queue) : queue[i] # key
    BY <2>1 DEF QInv, Held, TypeOK
  <2>3. \A v \in Workers : v # w /\ wpc[v] # "get" => wkey[v] # key
    BY <2>1 DEF NoConcurrentSync
  <2>4. NoKey \in Gateways
    BY DEF NoKey
  <2>5. TypeOK'
    BY <1>7, <2>1, <2>4 DEF WorkerDone, TypeOK
  <2>6. QInv'
    <3>1. queue \in Seq(Gateways) /\ key \in Gateways
      BY DEF TypeOK
    <3>2. \A i \in 1..Len(queue') : queue'[i] \in dirty' \ processing'
      BY <2>1, <2>2, <3>1 DEF QInv
    <3>3. \A i, j \in 1..Len(queue') : i # j => queue'[i] # queue'[j]
      BY <2>1, <2>2, <3>1 DEF QInv
    <3>4. processing' = Held'
      BY <2>1, <2>3 DEF QInv, Held, TypeOK
    <3>5. QED
      BY <3>2, <3>3, <3>4 DEF QInv
  <2>7. NoConcurrentSync'
    BY <2>1, <2>3 DEF NoConcurrentSync, TypeOK
  <2>8. QED
    BY <2>5, <2>6, <2>7
<1>8. CASE UNCHANGED vars
  BY <1>8 DEF vars, qVars, TypeOK, QInv, Held, NoConcurrentSync
<1>9. QED
  BY <1>1, <1>2, <1>3, <1>4, <1>5, <1>6, <1>7, <1>8 DEF Next

-----------------------------------------------------------------------------
(* The refinement: Init maps to WQ!Init, and every step of Next, from a   *)
(* state of IInv, is a step of WQ!Next or leaves dirty and owner alone.   *)
LEMMA InitRefines == Init => WQ!Init
BY DEF Init, WQ!Init, owner

LEMMA NextRefines == IInv /\ [Next]_vars => [WQ!Next]_<<dirty, owner>>
<1> SUFFICES ASSUME IInv, [Next]_vars PROVE [WQ!Next]_<<dirty, owner>>
  OBVIOUS
<1> USE DEF IInv
<1>1. ASSUME NEW k \in Gateways, NEW g \in GwStates, GatewayEvent(k, g)
      PROVE [WQ!Next]_<<dirty, owner>>
  <2>1. WQ!Add({k})
    BY <1>1 DEF GatewayEvent, AddKeys, WQ!Add, owner
  <2>2. QED
    BY <2>1 DEF WQ!Next
<1>2. ASSUME NEW r \in Routes, NEW new \in SUBSET Refs, RouteEvent(r, new)
      PROVE [WQ!Next]_<<dirty, owner>>
  <2> DEFINE ks == GatewaysOf(parents[r] \cup new)
  <2>1. UNCHANGED <<wpc, wkey>>
    BY <1>2 DEF RouteEvent
  <2>2. CASE RouteHandlerEnqueues
    <3>1. ks \in SUBSET Gateways /\ WQ!Add(ks)
      BY <1>2, <2>1, <2>2 DEF RouteEvent, AddKeys, WQ!Add, owner, GatewaysOf
    <3>2. QED
      BY <3>1 DEF WQ!Next
  <2>3. CASE ~RouteHandlerEnqueues
    BY <1>2, <2>1, <2>3 DEF RouteEvent, qVars, owner
  <2>4. QED
    BY <2>2, <2>3
<1>3. ASSUME NEW w \in Workers, WorkerGet(w)
      PROVE [WQ!Next]_<<dirty, owner>>
  <2> DEFINE h == Head(queue)
  <2>1. queue # <<>> /\ queue \in Seq(Gateways)
    BY <1>3 DEF WorkerGet, TypeOK
  <2>2. h \in Gateways /\ h \in dirty \ processing
    BY <2>1 DEF QInv
  <2>3. owner[w] = Absent
    BY <1>3 DEF WorkerGet, owner
  <2>4. h \notin WQ!Owned
    BY <2>2 DEF QInv, Held, WQ!Owned, owner
  <2>5. dirty' = dirty \ {h}
    BY <1>3 DEF WorkerGet
  <2>6. owner' = [owner EXCEPT ![w] = h]
    BY <1>3 DEF WorkerGet, owner, TypeOK
  <2>7. WQ!Get(w, h)
    BY <2>2, <2>3, <2>4, <2>5, <2>6 DEF WQ!Get
  <2>8. QED
    BY <2>2, <2>7 DEF WQ!Next
<1>4. ASSUME NEW w \in Workers, WorkerDone(w) PROVE [WQ!Next]_<<dirty, owner>>
  <2>1. wkey[w] \in Gateways /\ wpc[w] = "done"
    BY <1>4 DEF WorkerDone, TypeOK
  <2>2. owner[w] # Absent
    BY <2>1, ControllerAssumption DEF owner
  <2>3. owner' = [owner EXCEPT ![w] = Absent]
    BY <1>4 DEF WorkerDone, owner, TypeOK
  <2>4. WQ!Done(w)
    BY <1>4, <2>2, <2>3 DEF WorkerDone, WQ!Done
  <2>5. QED
    BY <2>4 DEF WQ!Next
<1>5. ASSUME NEW w \in Workers, WorkerSync(w) PROVE UNCHANGED <<dirty, owner>>
  BY <1>5 DEF WorkerSync, qVars, owner, TypeOK
<1>6. CASE \E b \in Backends : BackendEvent(b)
  BY <1>6 DEF BackendEvent, qVars, owner
<1>7. CASE \E p \in Policies : AccessPolicyEvent(p)
  BY <1>7 DEF AccessPolicyEvent, qVars, owner
<1>8. CASE UNCHANGED vars
  BY <1>8 DEF vars, qVars, owner
<1>9. QED
  BY <1>1, <1>2, <1>3, <1>4, <1>5, <1>6, <1>7, <1>8 DEF Next

(* The controller's use of the queue implements client-go's workqueue     *)
(* contract (QueueSpec) for every number of gateways and workers: each    *)
(* event handler step is an Add, each processNextWorkItem a Get of a key  *)
(* added since it was last handed out and held by no other worker, and   *)
(* each deferred Done a Done.                                             *)
THEOREM ImplementsWorkQueue == Spec => QueueSpec
<1>1. Spec => []IInv
  BY InitIInv, NextIInv, PTL DEF Spec
<1>2. QED
  BY <1>1, InitRefines, NextRefines, PTL DEF Spec, QueueSpec, WQ!Spec, WQ!wqVars
=============================================================================
