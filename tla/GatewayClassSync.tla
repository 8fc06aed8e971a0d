--------------------------- MODULE GatewayClassSync ---------------------------
(***************************************************************************)
(* The GatewayClass status loop of the controller (unnamed/part_001): the  *)
(* informer's Add, Update and Delete handlers call syncGatewayClass with  *)
(* the object's key, on the informer's own goroutine; syncGatewayClass    *)
(* reads the class from the lister, returns if it is gone or names       *)
(* another controller, and otherwise writes status.conditions Accepted   *)
(* with observedGeneration = the generation it read, by UpdateStatus.    *)
(* A failed UpdateStatus is logged and not retried: only a later event,  *)
(* or an informer resync, runs the sync again.  The informer factory of   *)
(* the controller is built by the caller of controller.New, which is not  *)
(* in the repository, so whether it resyncs at all is unknown: a resync   *)
(* is an action the environment may take, never one it must take.         *)
(*                                                                         *)
(* The API server holds one GatewayClass; its watch stream delivers every *)
(* change, in order, to the informer's cache, and each delivery (and each *)
(* resync) queues one call of the handler.  UpdateStatus is an optimistic *)
(* write: it fails with Conflict unless the resourceVersion it read is    *)
(* still current, and it writes nothing when the status does not change.  *)
(***************************************************************************)
EXTENDS Naturals, Sequences

CONSTANTS
    Ours,         \* the controller name of this controller
    Other,        \* another controller's name
    MaxEdits,     \* bound on user edits, deletions and creations
    MaxFailures,  \* bound on UpdateStatus calls failing for other reasons
    MaxPending    \* bound on handler calls queued by the informer

ASSUME SyncAssumption ==
    /\ Ours # Other
    /\ MaxEdits \in Nat /\ MaxFailures \in Nat /\ MaxPending \in Nat \ {0}

\* The GatewayClass as the API server stores it; observed = 0: no condition.
Objects == [exists : BOOLEAN, name : {Ours, Other}, gen : Nat, rv : Nat, observed : Nat]

VARIABLES
    obj,       \* the object in the API server
    watch,     \* changes the watch has not delivered yet
    cache,     \* the informer cache the lister reads
    pending,   \* handler calls queued and not yet run
    edits,     \* user edits so far
    failures,  \* failed UpdateStatus calls so far
    lost       \* observation: the last status write failed and nothing
               \* has written the class since

vars == <<obj, watch, cache, pending, edits, failures, lost>>

(* The class exists when the controller starts; the informer's initial   *)
(* List is the first change it applies (an Add).                          *)
Init ==
    /\ \E n \in {Ours, Other} :
          obj = [exists |-> TRUE, name |-> n, gen |-> 1, rv |-> 1, observed |-> 0]
    /\ watch = <<obj>>
    /\ cache = [obj EXCEPT !.exists = FALSE]
    /\ pending = 0
    /\ edits = 0
    /\ failures = 0
    /\ lost = FALSE

\* A write to the API server: a new resourceVersion, seen by the watch.
Write(o) ==
    /\ obj' = [o EXCEPT !.rv = obj.rv + 1]
    /\ watch' = Append(watch, obj')
    /\ lost' = FALSE

-----------------------------------------------------------------------------
(* A user changes the spec: the generation goes up. *)
EditSpec ==
    /\ obj.exists /\ edits < MaxEdits
    /\ Write([obj EXCEPT !.gen = obj.gen + 1])
    /\ edits' = edits + 1
    /\ UNCHANGED <<cache, pending, failures>>

(* A user deletes the class, or creates it again (generation 1, no status). *)
DeleteOrCreate ==
    /\ edits < MaxEdits
    /\ Write([obj EXCEPT !.exists = ~obj.exists, !.gen = 1, !.observed = 0])
    /\ edits' = edits + 1
    /\ UNCHANGED <<cache, pending, failures>>

(* The reflector applies the next watch event to the cache, and the      *)
(* informer queues the Add, Update or Delete notification.  The handler   *)
(* reads the cache, not the notification, so notifications beyond        *)
(* MaxPending queued ones are merged into the last.                       *)
Deliver ==
    /\ watch # <<>>
    /\ cache' = Head(watch)
    /\ watch' = Tail(watch)
    /\ pending' = IF pending < MaxPending THEN pending + 1 ELSE pending
    /\ UNCHANGED <<obj, edits, failures, lost>>

(* A resync of the informer, if its factory has a resync period: an      *)
(* Update notification for every object in the cache.                     *)
Resync ==
    /\ cache.exists /\ pending < MaxPending
    /\ pending' = pending + 1
    /\ UNCHANGED <<obj, watch, cache, edits, failures, lost>>

\* Mutant: a sync that leaves a class alone once it has the condition.
SyncGatewayClassOnce ==
    /\ pending > 0
    /\ pending' = pending - 1
    /\ IF cache.exists /\ cache.name = Ours /\ obj.exists /\ obj.rv = cache.rv
          THEN IF cache.observed # 0 THEN UNCHANGED <<obj, watch, lost>>
               ELSE Write([cache EXCEPT !.observed = cache.gen])
          ELSE UNCHANGED <<obj, watch, lost>>
    /\ UNCHANGED <<cache, edits, failures>>

\* Mutant: the status written as a patch, without the resourceVersion
\* precondition of UpdateStatus.
SyncGatewayClassPatch ==
    /\ pending > 0
    /\ pending' = pending - 1
    /\ IF cache.exists /\ cache.name = Ours /\ obj.exists
          THEN IF cache.observed = cache.gen THEN UNCHANGED <<obj, watch, lost>>
               ELSE Write([obj EXCEPT !.observed = cache.gen])
          ELSE UNCHANGED <<obj, watch, lost>>
    /\ UNCHANGED <<cache, edits, failures>>

(* syncGatewayClass: lister Get (NotFound: return), the controllerName    *)
(* check (another controller's: return), then UpdateStatus of a copy of   *)
(* the cached object with Accepted / observedGeneration = its generation. *)
(* The write succeeds if the cached resourceVersion is current (a no-op   *)
(* if the status is unchanged) and fails with Conflict or NotFound if not; *)
(* the error is only logged.                                               *)
SyncGatewayClass ==
    /\ pending > 0
    /\ pending' = pending - 1
    /\ IF cache.exists /\ cache.name = Ours /\ obj.exists /\ obj.rv = cache.rv
          THEN IF cache.observed = cache.gen THEN UNCHANGED <<obj, watch, lost>>
               ELSE Write([cache EXCEPT !.observed = cache.gen])
          ELSE UNCHANGED <<obj, watch, lost>>
    /\ UNCHANGED <<cache, edits, failures>>

(* UpdateStatus fails for another reason (timeout, API server restart);   *)
(* the error is logged.                                                    *)
SyncUpdateFails ==
    /\ pending > 0 /\ failures < MaxFailures
    /\ cache.exists /\ cache.name = Ours
    /\ pending' = pending - 1
    /\ failures' = failures + 1
    /\ lost' = TRUE
    /\ UNCHANGED <<obj, watch, cache, edits>>

Next ==
    \/ EditSpec \/ DeleteOrCreate
    \/ Deliver \/ Resync
    \/ SyncGatewayClass \/ SyncUpdateFails

(* The reflector and the informer's handler goroutine keep running; users, *)
(* failures and resyncs are the environment.                              *)
Fairness == WF_vars(Deliver) /\ WF_vars(SyncGatewayClass)

Spec == Init /\ [][Next]_vars
FairSpec == Spec /\ Fairness

-----------------------------------------------------------------------------
\* The class is ours and carries Accepted with the generation it has.
Accepted == obj.exists /\ obj.name = Ours => obj.observed = obj.gen

(* A class of this controller ends up Accepted with its current          *)
(* generation unless the last status write failed and nothing has        *)
(* written the class since: a Conflict from a stale lister copy heals     *)
(* itself, because the newer object's watch event queues another sync,   *)
(* while a failed UpdateStatus that is only logged is never retried       *)
(* without a later event or a resync.                                     *)
AcceptedUnlessWriteLost == <>[](Accepted \/ lost)

(* A status write never stamps a generation the class does not have: the *)
(* lister may lag the API server by any number of edits, deletions and   *)
(* re-creations, and syncGatewayClass copies ObservedGeneration from that *)
(* cached copy; only the resourceVersion it carries into UpdateStatus     *)
(* keeps a stale generation out of the stored status.                     *)
ObservedGenerationCurrent ==
    [][obj'.exists /\ obj'.observed # obj.observed => obj'.observed = obj'.gen]_obj
=============================================================================
