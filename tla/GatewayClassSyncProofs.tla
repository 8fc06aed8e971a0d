------------------------ MODULE GatewayClassSyncProofs ------------------------
(***************************************************************************)
(* Proof that syncGatewayClass stamps only the current generation, for    *)
(* every bound on edits, failures and queued handler calls.               *)
(*                                                                         *)
(* ObservedGenerationCurrent is an action property about one write; it    *)
(* holds because a write that succeeds carries the resourceVersion of the *)
(* stored object, and a cached copy with that resourceVersion is the      *)
(* stored object.  HistInv states why: resourceVersions only grow, every  *)
(* change the watch still holds and the cache carry a resourceVersion no  *)
(* greater than the object's, and the one with the object's               *)
(* resourceVersion is the object itself.                                  *)
(***************************************************************************)
EXTENDS GatewayClassSync, SequenceTheorems, TLAPS

TypeOK ==
    /\ obj \in Objects
    /\ watch \in Seq(Objects)
    /\ cache \in Objects
    /\ pending \in Nat /\ edits \in Nat /\ failures \in Nat

HistInv ==
    /\ cache.rv <= obj.rv
    /\ cache.exists /\ cache.rv = obj.rv => cache = obj
    /\ \A i \in 1..Len(watch) :
          /\ watch[i].rv <= obj.rv
          /\ watch[i].rv = obj.rv => watch[i] = obj
    /\ ~obj.exists => obj.observed = 0

IInv == TypeOK /\ HistInv

\* The step of ObservedGenerationCurrent, as a state-pair formula.
StampCurrent == obj'.exists /\ obj'.observed # obj.observed => obj'.observed = obj'.gen

USE SyncAssumption

(* What the EXCEPTs of the writes leave in each field, as operators so    *)
(* that a step can name the instance it needs.                            *)
BumpFacts(o, r) ==
    LET p == [o EXCEPT !.rv = r]
    IN  p \in Objects /\ p.rv = r /\ p.exists = o.exists /\ p.gen = o.gen
        /\ p.observed = o.observed
EditFacts(o) ==
    LET p == [o EXCEPT !.gen = o.gen + 1]
    IN  p \in Objects /\ p.rv = o.rv /\ p.exists = o.exists
StampFacts(o) ==
    LET p == [o EXCEPT !.observed = o.gen]
    IN  p \in Objects /\ p.rv = o.rv /\ p.exists = o.exists /\ p.gen = o.gen
        /\ p.observed = o.gen
FlipFacts(o) ==
    LET p == [o EXCEPT !.exists = ~o.exists, !.gen = 1, !.observed = 0]
    IN  p \in Objects /\ p.rv = o.rv /\ p.exists = ~o.exists /\ p.observed = 0
HideFacts(o) ==
    LET p == [o EXCEPT !.exists = FALSE]
    IN  p \in Objects /\ p.rv = o.rv /\ p.exists = FALSE

LEMMA BumpLemma == \A o \in Objects, r \in Nat : BumpFacts(o, r)
BY DEF Objects, BumpFacts
LEMMA EditLemma == \A o \in Objects : EditFacts(o) /\ o.rv + 1 \in Nat
BY DEF Objects, EditFacts
LEMMA StampLemma == \A o \in Objects : StampFacts(o) /\ o.rv + 1 \in Nat
BY DEF Objects, StampFacts
LEMMA FlipLemma == \A o \in Objects : FlipFacts(o) /\ o.rv + 1 \in Nat
<1> SUFFICES ASSUME NEW o \in Objects PROVE FlipFacts(o) /\ o.rv + 1 \in Nat
  OBVIOUS
<1>1. o.exists \in BOOLEAN /\ o.rv \in Nat
  BY DEF Objects
<1>2. FlipFacts(o)
  BY <1>1 DEF Objects, FlipFacts
<1>3. QED
  BY <1>1, <1>2
LEMMA HideLemma == \A o \in Objects : HideFacts(o)
BY DEF Objects, HideFacts
LEMMA RvNat == \A o \in Objects : o.rv \in Nat
BY DEF Objects

LEMMA InitIInv == Init => IInv
<1> SUFFICES ASSUME Init PROVE IInv
  OBVIOUS
<1>1. obj \in Objects /\ obj.exists /\ obj.rv = 1
  BY DEF Init, Objects
<1>2. watch = <<obj>> /\ cache = [obj EXCEPT !.exists = FALSE]
      /\ pending = 0 /\ edits = 0 /\ failures = 0
  BY DEF Init
<1>3. cache \in Objects /\ ~cache.exists /\ cache.rv = obj.rv
  BY <1>1, <1>2, HideLemma DEF HideFacts
<1>4. TypeOK
  BY <1>1, <1>2, <1>3 DEF TypeOK
<1>5. HistInv
  BY <1>1, <1>2, <1>3 DEF HistInv
<1>6. QED
  BY <1>4, <1>5 DEF IInv

(* A write keeps HistInv: the stored object gets a fresh resourceVersion  *)
(* and is appended to the watch, and the cache stays as it was.           *)
LEMMA WriteHistInv ==
  ASSUME TypeOK, HistInv, obj' \in Objects, obj'.rv = obj.rv + 1,
         watch' = Append(watch, obj'), cache' = cache,
         ~obj'.exists => obj'.observed = 0,
         pending' \in Nat, edits' \in Nat, failures' \in Nat
  PROVE  TypeOK' /\ HistInv'
<1>1. watch' \in Seq(Objects) /\ Len(watch') = Len(watch) + 1
      /\ \A i \in 1..Len(watch) : watch'[i] = watch[i]
      /\ watch'[Len(watch) + 1] = obj'
  BY DEF TypeOK
<1>2. obj.rv \in Nat /\ cache.rv \in Nat
  BY RvNat DEF TypeOK
<1>3. \A i \in 1..Len(watch') :
         watch'[i].rv <= obj'.rv /\ (watch'[i].rv = obj'.rv => watch'[i] = obj')
  <2> SUFFICES ASSUME NEW i \in 1..Len(watch')
               PROVE  watch'[i].rv <= obj'.rv /\ (watch'[i].rv = obj'.rv => watch'[i] = obj')
    OBVIOUS
  <2>1. CASE i \in 1..Len(watch)
    <3>1. watch[i] \in Objects
      BY <2>1 DEF TypeOK
    <3>2. watch[i].rv \in Nat /\ watch[i].rv <= obj.rv
      BY <2>1, <3>1, RvNat DEF HistInv
    <3>3. QED
      BY <1>1, <1>2, <2>1, <3>2
  <2>2. CASE i = Len(watch) + 1
    BY <1>1, <1>2, <2>2
  <2>3. QED
    BY <1>1, <2>1, <2>2 DEF TypeOK
<1>4. cache'.rv <= obj'.rv /\ cache'.rv # obj'.rv
  BY <1>2 DEF HistInv
<1>5. QED
  BY <1>1, <1>3, <1>4 DEF TypeOK, HistInv

(* The three writes: the object after Write, field by field. *)
LEMMA EditWrite ==
  ASSUME obj \in Objects, EditSpec
  PROVE  obj' \in Objects /\ obj'.rv = obj.rv + 1 /\ obj'.exists
         /\ watch' = Append(watch, obj')
<1> DEFINE x == [obj EXCEPT !.gen = obj.gen + 1]
<1>1. obj' = [x EXCEPT !.rv = obj.rv + 1] /\ watch' = Append(watch, obj') /\ obj.exists
  BY DEF EditSpec, Write
<1>2. x \in Objects /\ x.exists = obj.exists /\ obj.rv + 1 \in Nat
  <2>1. EditFacts(obj) /\ obj.rv + 1 \in Nat
    BY EditLemma
  <2>2. QED
    BY <2>1 DEF EditFacts
<1> HIDE DEF x
<1>3. BumpFacts(x, obj.rv + 1)
  BY <1>2, BumpLemma
<1>4. QED
  BY <1>1, <1>2, <1>3 DEF BumpFacts

LEMMA FlipWrite ==
  ASSUME obj \in Objects, DeleteOrCreate
  PROVE  obj' \in Objects /\ obj'.rv = obj.rv + 1 /\ obj'.observed = 0
         /\ obj'.exists = ~obj.exists /\ watch' = Append(watch, obj')
<1> DEFINE x == [obj EXCEPT !.exists = ~obj.exists, !.gen = 1, !.observed = 0]
<1>1. obj' = [x EXCEPT !.rv = obj.rv + 1] /\ watch' = Append(watch, obj')
  BY DEF DeleteOrCreate, Write
<1>2. x \in Objects /\ x.exists = ~obj.exists /\ x.observed = 0 /\ obj.rv + 1 \in Nat
  <2>1. FlipFacts(obj) /\ obj.rv + 1 \in Nat
    BY FlipLemma
  <2>2. QED
    BY <2>1, Zenon DEF FlipFacts
<1> HIDE DEF x
<1>3. BumpFacts(x, obj.rv + 1)
  BY <1>2, BumpLemma
<1>4. QED
  BY <1>1, <1>2, <1>3 DEF BumpFacts

\* The write of a sync whose cached copy is the stored object.
StampWriting ==
    /\ cache.exists /\ cache.name = Ours /\ obj.exists /\ obj.rv = cache.rv
    /\ cache.observed # cache.gen

LEMMA StampWrite ==
  ASSUME obj \in Objects, cache = obj, SyncGatewayClass, StampWriting
  PROVE  obj' \in Objects /\ obj'.rv = obj.rv + 1 /\ obj'.exists
         /\ obj'.observed = obj'.gen /\ watch' = Append(watch, obj')
         /\ cache' = cache /\ pending' = pending - 1
<1> DEFINE x == [cache EXCEPT !.observed = cache.gen]
<1>1. obj' = [x EXCEPT !.rv = obj.rv + 1] /\ watch' = Append(watch, obj')
      /\ cache' = cache /\ pending' = pending - 1
  BY DEF SyncGatewayClass, StampWriting, Write
<1>2. x \in Objects /\ x.exists /\ x.observed = x.gen /\ obj.rv + 1 \in Nat
  <2>1. StampFacts(obj) /\ obj.rv + 1 \in Nat
    BY StampLemma
  <2>2. QED
    BY <2>1 DEF StampFacts, StampWriting
<1> HIDE DEF x
<1>3. BumpFacts(x, obj.rv + 1)
  BY <1>2, BumpLemma
<1>4. QED
  BY <1>1, <1>2, <1>3 DEF BumpFacts

LEMMA NextIInv == IInv /\ [Next]_vars => IInv'
<1> SUFFICES ASSUME IInv, [Next]_vars PROVE IInv'
  OBVIOUS
<1> USE DEF IInv
<1>0. obj \in Objects
  BY DEF TypeOK
<1>1. CASE EditSpec
  BY <1>0, <1>1, EditWrite, WriteHistInv DEF EditSpec, TypeOK
<1>2. CASE DeleteOrCreate
  BY <1>0, <1>2, FlipWrite, WriteHistInv DEF DeleteOrCreate, TypeOK
<1>3. CASE Deliver
  <2>1. watch \in Seq(Objects) /\ Len(watch) > 0
    BY <1>3 DEF Deliver, TypeOK
  <2>2. cache' = watch[1] /\ 1 \in 1..Len(watch)
    BY <1>3, <2>1 DEF Deliver
  <2>3. watch' \in Seq(Objects) /\ Len(watch') = Len(watch) - 1
        /\ \A i \in 1..Len(watch') : watch'[i] = watch[i + 1]
    BY <1>3, <2>1 DEF Deliver
  <2>4. QED
    BY <1>3, <2>1, <2>2, <2>3 DEF Deliver, TypeOK, HistInv
<1>4. CASE Resync
  BY <1>4 DEF Resync, TypeOK, HistInv
<1>5. CASE SyncGatewayClass
  <2>1. CASE StampWriting
    <3>1. cache = obj
      BY <2>1 DEF HistInv, StampWriting
    <3>2. pending' \in Nat
      BY <1>5 DEF SyncGatewayClass, TypeOK
    <3>3. QED
      BY <1>0, <1>5, <2>1, <3>1, <3>2, StampWrite, WriteHistInv
         DEF SyncGatewayClass, TypeOK
  <2>2. CASE ~StampWriting
    BY <1>5, <2>2 DEF SyncGatewayClass, StampWriting, TypeOK, HistInv
  <2>3. QED
    BY <2>1, <2>2
<1>6. CASE SyncUpdateFails
  BY <1>6 DEF SyncUpdateFails, TypeOK, HistInv
<1>7. CASE UNCHANGED vars
  BY <1>7 DEF vars, TypeOK, HistInv
<1>8. QED
  BY <1>1, <1>2, <1>3, <1>4, <1>5, <1>6, <1>7 DEF Next

LEMMA NextStamp == IInv /\ [Next]_vars => StampCurrent
<1> SUFFICES ASSUME IInv, [Next]_vars PROVE StampCurrent
  OBVIOUS
<1> USE DEF IInv
<1>0. obj \in Objects
  BY DEF TypeOK
<1>1. CASE EditSpec
  BY <1>1 DEF EditSpec, Write, StampCurrent
<1>2. CASE DeleteOrCreate
  BY <1>0, <1>2, FlipWrite DEF HistInv, StampCurrent
<1>3. CASE SyncGatewayClass
  <2>1. CASE StampWriting
    BY <1>0, <1>3, <2>1, StampWrite DEF HistInv, StampWriting, StampCurrent
  <2>2. CASE ~StampWriting
    BY <1>3, <2>2 DEF SyncGatewayClass, StampWriting, StampCurrent
  <2>3. QED
    BY <2>1, <2>2
<1>4. CASE Deliver \/ Resync \/ SyncUpdateFails \/ UNCHANGED vars
  BY <1>4 DEF Deliver, Resync, SyncUpdateFails, vars, StampCurrent
<1>5. QED
  BY <1>1, <1>2, <1>3, <1>4 DEF Next

(* For every bound, syncGatewayClass never stores an observedGeneration   *)
(* other than the class's current generation, however far the lister    *)
(* lags: UpdateStatus's resourceVersion precondition makes a stale copy  *)
(* fail instead of writing.                                               *)
THEOREM GenerationStampedCurrent == Spec => ObservedGenerationCurrent
<1>1. Spec => []IInv
  BY InitIInv, NextIInv, PTL DEF Spec
<1>2. IInv /\ [Next]_vars => [StampCurrent]_obj
  BY NextStamp
<1>3. QED
  BY <1>1, <1>2, PTL DEF Spec, ObservedGenerationCurrent, StampCurrent
=============================================================================
