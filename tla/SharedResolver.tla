--------------------------- MODULE SharedResolver ---------------------------
(***************************************************************************)
(* One resolver used by several threads, cache_size=0 as its documentation *)
(* asks: queries, warm-up, close() and a fork, over the store's connection *)
(* pool, the lazily built indexes and the gap that the geo decision policy *)
(* changes in place.                                                       *)
(***************************************************************************)
EXTENDS Naturals, ConnectionPool, LazyIndex

CONSTANT MaxWork    \* bound: calls, and uses of store and sources in queries, by thread

ASSUME SharedResolverAssumption == MaxWork \in [Thread -> Nat]

VARIABLES
  shut,             \* Resolver._closed
  gap,              \* the policy's _min_gap, "usual" or "city"
  saved,            \* per thread: original_min_gap in decide
  pc,               \* per thread: what it is doing
  unwarmed,         \* per thread: sources still to warm
  work              \* per thread: bounded by MaxWork

policyVars == <<gap, saved>>
callVars == <<unwarmed, work>>
vars == <<poolVars, indexVars, policyVars, callVars, shut, pc, survivor>>

TypeOK ==
  /\ PoolTypeOK /\ IndexTypeOK
  /\ survivor \in Thread \cup {None} /\ shut \in BOOLEAN
  /\ gap \in {"usual", "city"} /\ saved \in [Thread -> {"usual", "city"}]
  /\ pc \in [Thread -> {"idle", "query", "warm", "shut", "close", "swap",
                        "compare", "compare cities", "restore", "answer"}]
  /\ unwarmed \in [Thread -> SUBSET Source]
  /\ work \in [Thread -> Nat] /\ \A t \in Thread : work[t] <= MaxWork[t]
  /\ \A t \in Thread : inStore[t] # "out" => pc[t] \in {"query", "answer", "close"}
  /\ \A t \in Thread : inSource[t] # "out" => pc[t] \in {"query", "warm"}
  /\ \A t \in Thread : inStore[t] = "out" \/ inSource[t] = "out"

AllIdle == [t \in Thread |-> "idle"]
NothingSaved == [t \in Thread |-> "usual"]
NothingToWarm == [t \in Thread |-> {}]

Init ==
  /\ PoolInit /\ IndexInit
  /\ shut = FALSE /\ survivor = None /\ gap = "usual"
  /\ saved = NothingSaved /\ pc = AllIdle /\ unwarmed = NothingToWarm
  /\ work = [t \in Thread |-> 0]

Goto(t, label) == pc' = [pc EXCEPT ![t] = label]
Between(t) == inStore[t] = "out" /\ inSource[t] = "out"
Doing(t, label) == pc[t] = label /\ Between(t)

Count(t) == work[t] < MaxWork[t] /\ work' = [work EXCEPT ![t] = @ + 1]
Begin(t, label) == pc[t] = "idle" /\ Goto(t, label) /\ Count(t)

-----------------------------------------------------------------------------
(* resolve(): sources, constraints and features read the store, some       *)
(* sources consult an index first, the policy decides, and the answer is   *)
(* completed from the store.  Stop conditions, a deadline or a raise may   *)
(* end it anywhere.                                                        *)
Resolve(t) ==
  /\ ~shut /\ Begin(t, "query")
  /\ UNCHANGED <<poolVars, indexVars, policyVars, shut, unwarmed, survivor>>

Reads(t) == Doing(t, "query") \/ Doing(t, "answer")

ReadStore(t) ==
  /\ Reads(t) /\ Count(t)
  /\ EnterStore(t)
  /\ UNCHANGED <<indexVars, policyVars, shut, pc, unwarmed, survivor>>

(* Raised inside a query: the engine turns it into an ERROR result.        *)
StoreRefuses(t) ==
  /\ Reads(t) /\ closed
  /\ Goto(t, "idle")
  /\ UNCHANGED <<poolVars, indexVars, policyVars, shut, callVars, survivor>>

InStore(t) ==
  /\ UseStore(t)
  /\ UNCHANGED <<indexVars, policyVars, shut, pc, callVars, survivor>>

ConsultSource(t) ==
  /\ Doing(t, "query") /\ Count(t)
  /\ \E s \in Source : Consult(t, s)
  /\ UNCHANGED <<poolVars, policyVars, shut, pc, unwarmed, survivor>>

InSource(t) ==
  /\ EnsureBuilt(t)
  /\ UNCHANGED <<poolVars, policyVars, shut, pc, callVars, survivor>>

QuerySource(t) ==
  /\ LookUp(t)
  /\ UNCHANGED <<poolVars, policyVars, shut, pc, callVars, survivor>>

SourceRaises(t) ==
  /\ BuildRaises(t)
  /\ IF pc[t] = "warm" THEN UNCHANGED pc ELSE Goto(t, "idle")
  /\ UNCHANGED <<poolVars, policyVars, shut, callVars, survivor>>

EndQuery(t) ==
  /\ Reads(t) /\ Goto(t, "idle")
  /\ UNCHANGED <<poolVars, indexVars, policyVars, shut, callVars, survivor>>

-----------------------------------------------------------------------------
(* GeoDecisionPolicy.decide()                                              *)
Decide(t) ==
  /\ Doing(t, "query")
  /\ \/ /\ Goto(t, "swap") /\ saved' = [saved EXCEPT ![t] = gap]
     \/ /\ Goto(t, "compare") /\ UNCHANGED saved
  /\ UNCHANGED <<poolVars, indexVars, gap, shut, callVars, survivor>>

Swap(t) ==
  /\ pc[t] = "swap" /\ Goto(t, "compare cities")
  /\ gap' = "city"
  /\ UNCHANGED <<poolVars, indexVars, saved, shut, callVars, survivor>>

Compare(t) ==
  /\ \/ pc[t] = "compare" /\ Goto(t, "answer")
     \/ pc[t] = "compare cities" /\ Goto(t, "restore")
  /\ UNCHANGED <<poolVars, indexVars, policyVars, shut, callVars, survivor>>

Restore(t) ==
  /\ pc[t] = "restore" /\ Goto(t, "answer")
  /\ gap' = saved[t] /\ saved' = [saved EXCEPT ![t] = "usual"]
  /\ UNCHANGED <<poolVars, indexVars, shut, callVars, survivor>>

-----------------------------------------------------------------------------
(* warm(), in the background thread or called; a source that raises is     *)
(* skipped.                                                                *)
Warm(t) ==
  /\ Begin(t, "warm") /\ unwarmed' = [unwarmed EXCEPT ![t] = Source]
  /\ UNCHANGED <<poolVars, indexVars, policyVars, shut, survivor>>

WarmSource(t) ==
  /\ Doing(t, "warm")
  /\ \E s \in unwarmed[t] :
       Consult(t, s) /\ unwarmed' = [unwarmed EXCEPT ![t] = @ \ {s}]
  /\ UNCHANGED <<poolVars, policyVars, shut, pc, work, survivor>>

EndWarm(t) ==
  /\ Doing(t, "warm") /\ unwarmed[t] = {} /\ Goto(t, "idle")
  /\ UNCHANGED <<poolVars, indexVars, policyVars, shut, callVars, survivor>>

(* Resolver.close(): its own flag, then the store.                         *)
Close(t) ==
  /\ ~shut /\ Begin(t, "shut")
  /\ UNCHANGED <<poolVars, indexVars, policyVars, shut, unwarmed, survivor>>

Shut(t) ==
  /\ pc[t] = "shut" /\ Goto(t, "close") /\ shut' = TRUE
  /\ UNCHANGED <<poolVars, indexVars, policyVars, callVars, survivor>>

CloseItsStore(t) ==
  /\ Doing(t, "close") /\ CloseStore(t)
  /\ UNCHANGED <<indexVars, policyVars, shut, pc, callVars, survivor>>

EndClose(t) ==
  /\ Doing(t, "close") /\ closed /\ Goto(t, "idle")
  /\ UNCHANGED <<poolVars, indexVars, policyVars, shut, callVars, survivor>>

(* os.fork() in a thread that is not inside the resolver: the other ones   *)
(* are not there any more.                                                 *)
Fork(t) ==
  /\ pc[t] = "idle" /\ ~Forked /\ survivor' = t
  /\ ForkPool /\ ForkIndex
  /\ pc' = AllIdle /\ saved' = NothingSaved /\ unwarmed' = NothingToWarm
  /\ work' = [u \in Thread |-> IF u = t THEN work[t] ELSE 0]
  /\ UNCHANGED <<gap, shut>>

Start(t) == Resolve(t) \/ Warm(t) \/ Close(t)

Continue(t) ==
  \/ ReadStore(t) \/ StoreRefuses(t) \/ InStore(t)
  \/ ConsultSource(t) \/ InSource(t) \/ QuerySource(t) \/ SourceRaises(t) \/ EndQuery(t)
  \/ Decide(t) \/ Swap(t) \/ Compare(t) \/ Restore(t)
  \/ WarmSource(t) \/ EndWarm(t) \/ Shut(t) \/ CloseItsStore(t) \/ EndClose(t)

Step(t) == Running(t) /\ Continue(t)
Next == \E t \in Thread : (Running(t) /\ Start(t)) \/ Fork(t) \/ Step(t)

(* A thread that is in the resolver keeps running; nobody has to call it.  *)
Fairness == \A t \in Thread : WF_vars(Step(t))
Spec == Init /\ [][Next]_vars /\ Fairness

-----------------------------------------------------------------------------
(* Every query, warm-up and close() comes back, also those that wait for   *)
(* the lock of a build that raises or for a connection of a store that is  *)
(* being closed.                                                           *)
Unfinished(t) == ~Forked /\ pc[t] # "idle"
CallsReturn == \A t \in Thread : Unfinished(t) ~> ~Unfinished(t)

(* In the child of a fork no query is stuck at a source, whatever builds   *)
(* were under way in the parent.                                           *)
AtSource(t) == survivor = t /\ inSource[t] # "out"
ForkedBuildsEnd == \A t \in Thread : AtSource(t) ~> ~AtSource(t)

(* A decision is made with the gap that its own candidates call for, so    *)
(* that threads which ask the same get the same answer.                    *)
AnswersAreConsistent ==
  \A t \in Thread :
    /\ pc[t] = "compare" => gap = "usual"
    /\ pc[t] = "compare cities" => gap = "city"
=============================================================================
