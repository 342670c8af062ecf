--------------------------- MODULE DefaultResolver ---------------------------
(***************************************************************************)
(* The process-wide default resolver behind resolvekit.resolve() and the   *)
(* other module functions: building it on first use, configure() and       *)
(* reset() from other threads, and os.fork().                              *)
(*                                                                         *)
(* configure() writes the settings one by one and without the lock; a      *)
(* build reads them one by one under it.                                   *)
(***************************************************************************)
EXTENDS Integers, FiniteSets

CONSTANTS Thread,     \* threads of the first process
          Child,      \* the thread that a fork leaves in the second one
          Field,      \* the settings: auto_download, cache_dir, default_to, on_missing
          Setting,    \* the values a setting takes
          Initial,    \* the one every setting starts with
          Unlocked,   \* no thread
          MaxBuilds,  \* bound: resolvers built
          MaxCalls    \* bound: calls of the module's functions, caller by caller

ASSUME DefaultResolverAssumption ==
  /\ Child \notin Thread
  /\ Unlocked \notin Thread \cup {Child}
  /\ Initial \in Setting
  /\ MaxBuilds \in Nat
  /\ MaxCalls \in [Thread \cup {Child} -> Nat]

Caller == Thread \cup {Child}
Process == {"first", "forked"}
ProcessOf(t) == IF t = Child THEN "forked" ELSE "first"
None == 0                       \* the module variable _default
Id == 1..MaxBuilds

VARIABLES
  config,       \* per process: core.config._config
  default,      \* per process: _default
  lock,         \* per process: who holds _lock
  built,        \* number of resolvers built
  open, with,   \* per resolver: not closed; the settings it was built with
  pc,           \* per caller
  unread,       \* build: settings still to be read
  seen,         \* build: settings read
  unwritten,    \* configure: settings still to be written
  given,        \* configure: the value passed
  handle,       \* what _get_default() returned
  disturbed,    \* history: a reset has overlapped this call
  calls         \* bounded by MaxCalls

sharedVars == <<config, default, lock>>
resolverVars == <<built, open, with>>
callVars == <<unread, seen, unwritten, given, handle>>
vars == <<sharedVars, resolverVars, callVars, pc, disturbed, calls>>

Asking(t) == pc[t] \in {"get", "wait", "use"}
Locked == {"locked", "building", "closing", "dropping"}

(* A lock is held exactly by a caller of its process inside a with block,  *)
(* or, after a fork, by a thread that the forked process does not have.    *)
TypeOK ==
  /\ config \in [Process -> [Field -> Setting]]
  /\ default \in [Process -> Id \cup {None}]
  /\ lock \in [Process -> Caller \cup {Unlocked}] /\ lock["first"] # Child
  /\ built \in 0..MaxBuilds
  /\ open \in [Id -> BOOLEAN] /\ with \in [Id -> [Field -> Setting]]
  /\ pc \in [Caller -> {"unborn", "idle", "get", "wait", "use", "check", "write", "reset"}
                      \cup Locked]
  /\ unread \in [Caller -> SUBSET Field] /\ seen \in [Caller -> [Field -> Setting]]
  /\ unwritten \in [Caller -> SUBSET Field] /\ given \in [Caller -> Setting]
  /\ handle \in [Caller -> Id \cup {None}]
  /\ disturbed \in [Caller -> BOOLEAN]
  /\ calls \in [Caller -> Nat] /\ \A t \in Caller : calls[t] <= MaxCalls[t]
  /\ \A t \in Caller : pc[t] \in Locked => lock[ProcessOf(t)] = t
  /\ \A t \in Caller : lock[ProcessOf(t)] = t => pc[t] \in Locked

Unset == [f \in Field |-> Initial]

Init ==
  /\ config = [p \in Process |-> Unset]
  /\ with = [r \in Id |-> Unset] /\ seen = [t \in Caller |-> Unset]
  /\ given = [t \in Caller |-> Initial]
  /\ default = [p \in Process |-> None]
  /\ lock = [p \in Process |-> Unlocked]
  /\ built = 0 /\ open = [r \in Id |-> FALSE]
  /\ pc = [t \in Caller |-> IF t = Child THEN "unborn" ELSE "idle"]
  /\ unread = [t \in Caller |-> {}] /\ unwritten = [t \in Caller |-> {}]
  /\ handle = [t \in Caller |-> None]
  /\ disturbed = [t \in Caller |-> FALSE]
  /\ calls = [t \in Caller |-> 0]

Goto(t, label) == pc' = [pc EXCEPT ![t] = label]

Begin(t, label) ==
  /\ pc[t] = "idle" /\ calls[t] < MaxCalls[t]
  /\ calls' = [calls EXCEPT ![t] = @ + 1]
  /\ Goto(t, label)

Free(p) == lock[p] = Unlocked

Acquire(t) ==
  /\ Free(ProcessOf(t))
  /\ lock' = [lock EXCEPT ![ProcessOf(t)] = t]
Release(t) == lock' = [lock EXCEPT ![ProcessOf(t)] = Unlocked]

-----------------------------------------------------------------------------
(* _get_default(): the cached resolver, looked up without the lock ...     *)
CallModuleFunction(t) ==
  /\ Begin(t, "get")
  /\ disturbed' = [disturbed EXCEPT ![t] =
                     \E c \in Caller : pc[c] = "dropping" /\ ProcessOf(c) = ProcessOf(t)]
  /\ UNCHANGED <<sharedVars, resolverVars, callVars>>

FastPath(t) ==
  /\ pc[t] = "get" /\ default[ProcessOf(t)] # None
  /\ handle' = [handle EXCEPT ![t] = default[ProcessOf(t)]]
  /\ Goto(t, "use")
  /\ UNCHANGED <<sharedVars, resolverVars, unread, seen, unwritten, given, disturbed,
                 calls>>

MissCache(t) ==
  /\ pc[t] = "get" /\ default[ProcessOf(t)] = None
  /\ Goto(t, "wait")
  /\ UNCHANGED <<sharedVars, resolverVars, callVars, disturbed, calls>>

LockToBuild(t) ==
  /\ pc[t] = "wait" /\ Acquire(t)
  /\ Goto(t, "locked")
  /\ UNCHANGED <<config, default, resolverVars, callVars, disturbed, calls>>

(* ... or looked up again under it ...                                     *)
AlreadyBuilt_Unchecked(t) == FALSE
AlreadyBuilt(t) == default[ProcessOf(t)] # None

SlowPath(t) ==
  /\ pc[t] = "locked" /\ AlreadyBuilt(t)
  /\ handle' = [handle EXCEPT ![t] = default[ProcessOf(t)]]
  /\ Release(t)
  /\ Goto(t, "use")
  /\ UNCHANGED <<config, default, resolverVars, unread, seen, unwritten, given, disturbed, calls>>

(* ... or built, from settings read one by one.                            *)
BeginBuild(t) ==
  /\ pc[t] = "locked" /\ ~AlreadyBuilt(t)
  /\ unread' = [unread EXCEPT ![t] = Field]
  /\ Goto(t, "building")
  /\ UNCHANGED <<sharedVars, resolverVars, seen, unwritten, given, handle, disturbed, calls>>

ReadSetting(t) ==
  /\ pc[t] = "building"
  /\ \E f \in unread[t] :
       /\ unread' = [unread EXCEPT ![t] = @ \ {f}]
       /\ seen' = [seen EXCEPT ![t][f] = config[ProcessOf(t)][f]]
  /\ UNCHANGED <<sharedVars, resolverVars, pc, unwritten, given, handle, disturbed, calls>>

Publish(t) ==
  /\ pc[t] = "building" /\ unread[t] = {} /\ built < MaxBuilds
  /\ built' = built + 1
  /\ open' = [open EXCEPT ![built + 1] = TRUE]
  /\ with' = [with EXCEPT ![built + 1] = seen[t]]
  /\ default' = [default EXCEPT ![ProcessOf(t)] = built + 1]
  /\ handle' = [handle EXCEPT ![t] = built + 1]
  /\ seen' = [seen EXCEPT ![t] = Unset]
  /\ Release(t)
  /\ Goto(t, "use")
  /\ UNCHANGED <<config, unread, unwritten, given, disturbed, calls>>

(* Resolver.auto() raises: no data pack, an unknown default_to.            *)
AfterError_StillHeld(t) == t
AfterError(t) == Unlocked

BuildRaises(t) ==
  /\ pc[t] = "building"
  /\ unread' = [unread EXCEPT ![t] = {}] /\ seen' = [seen EXCEPT ![t] = Unset]
  /\ lock' = [lock EXCEPT ![ProcessOf(t)] = AfterError(t)]
  /\ disturbed' = [disturbed EXCEPT ![t] = FALSE]
  /\ Goto(t, "idle")
  /\ UNCHANGED <<config, default, resolverVars, unwritten, given, handle, calls>>

(* The call is served, or refused with RuntimeError: the resolver it was   *)
(* handed has been closed.                                                 *)
UseHandle(t) ==
  /\ pc[t] = "use"
  /\ handle' = [handle EXCEPT ![t] = None]
  /\ disturbed' = [disturbed EXCEPT ![t] = FALSE]
  /\ Goto(t, "idle")
  /\ UNCHANGED <<sharedVars, resolverVars, unread, seen, unwritten, given, calls>>

-----------------------------------------------------------------------------
(* configure(): the arguments are checked, against the current default if  *)
(* there is one; a bad one raises and changes nothing.                     *)
CallConfigure(t) ==
  /\ Begin(t, "check")
  /\ UNCHANGED <<sharedVars, resolverVars, callVars, disturbed>>

Reject(t) ==
  /\ pc[t] = "check"
  /\ Goto(t, "idle")
  /\ UNCHANGED <<sharedVars, resolverVars, callVars, disturbed, calls>>

Accept(t) ==
  /\ pc[t] = "check"
  /\ \E fields \in (SUBSET Field) \ {{}}, s \in Setting :
       /\ unwritten' = [unwritten EXCEPT ![t] = fields]
       /\ given' = [given EXCEPT ![t] = s]
  /\ Goto(t, "write")
  /\ UNCHANGED <<sharedVars, resolverVars, unread, seen, handle, disturbed, calls>>

WriteSetting(t) ==
  /\ pc[t] = "write"
  /\ \E f \in unwritten[t] :
       /\ config' = [config EXCEPT ![ProcessOf(t)][f] = given[t]]
       /\ unwritten' = [unwritten EXCEPT ![t] = @ \ {f}]
  /\ UNCHANGED <<default, lock, resolverVars, pc, unread, seen, given, handle, disturbed, calls>>

(* Every configure() ends in a reset(), whether or not a default exists.   *)
MustReset_IfCached(t) == default[ProcessOf(t)] # None
MustReset(t) == TRUE

EndWriting(t) ==
  /\ pc[t] = "write" /\ unwritten[t] = {}
  /\ given' = [given EXCEPT ![t] = Initial]
  /\ Goto(t, IF MustReset(t) THEN "reset" ELSE "idle")
  /\ UNCHANGED <<sharedVars, resolverVars, unread, seen, unwritten, handle, disturbed, calls>>

(* reset(): also called by users, and by atexit.                           *)
CallReset(t) ==
  /\ Begin(t, "reset")
  /\ UNCHANGED <<sharedVars, resolverVars, callVars, disturbed>>

LockToReset(t) ==
  /\ pc[t] = "reset" /\ Acquire(t)
  /\ Goto(t, "closing")
  /\ UNCHANGED <<config, default, resolverVars, callVars, disturbed, calls>>

(* close(), then the reference is dropped: callers that take no lock may   *)
(* come in between.  It closes the connections that wait in the pools,     *)
(* which are in no call: it is taken to raise nothing.                     *)
CloseDefault(t) ==
  LET r == default[ProcessOf(t)] IN
  /\ pc[t] = "closing"
  /\ open' = IF r = None THEN open ELSE [open EXCEPT ![r] = FALSE]
  /\ disturbed' = [c \in Caller |-> disturbed[c] \/ (Asking(c) /\ ProcessOf(c) = ProcessOf(t))]
  /\ Goto(t, "dropping")
  /\ UNCHANGED <<sharedVars, built, with, callVars, calls>>

AfterReset(t) == None

DropDefault(t) ==
  /\ pc[t] = "dropping"
  /\ default' = [default EXCEPT ![ProcessOf(t)] = AfterReset(t)]
  /\ Release(t)
  /\ Goto(t, "idle")
  /\ UNCHANGED <<config, resolverVars, callVars, disturbed, calls>>

-----------------------------------------------------------------------------
(* os.fork() in a thread that is in none of these functions.  The child    *)
(* has that thread alone and a copy of everything, the lock included; its  *)
(* fork hook clears _default.                                              *)
Fork ==
  /\ pc[Child] = "unborn" /\ \E t \in Thread : pc[t] = "idle"
  /\ pc' = [pc EXCEPT ![Child] = "idle"]
  /\ config' = [config EXCEPT !["forked"] = config["first"]]
  /\ lock' = [lock EXCEPT !["forked"] = lock["first"]]
  /\ default' = [default EXCEPT !["forked"] = None]
  /\ UNCHANGED <<resolverVars, callVars, disturbed, calls>>

-----------------------------------------------------------------------------
Call(t) ==
  CallModuleFunction(t) \/ CallConfigure(t) \/ CallReset(t)

Step(t) ==
  \/ FastPath(t) \/ MissCache(t) \/ LockToBuild(t) \/ SlowPath(t)
  \/ BeginBuild(t) \/ ReadSetting(t) \/ Publish(t) \/ BuildRaises(t) \/ UseHandle(t)
  \/ Reject(t) \/ Accept(t) \/ WriteSetting(t) \/ EndWriting(t)
  \/ LockToReset(t) \/ CloseDefault(t) \/ DropDefault(t)

(* Nobody calls any more: the bound on calls; or the child waits.          *)
Rest == (\A t \in Thread : pc[t] = "idle") /\ UNCHANGED vars

Next ==
  \/ \E t \in Caller : Call(t) \/ Step(t)
  \/ Fork \/ Rest

Spec == Init /\ [][Next]_vars

(* A thread inside a function goes on.  The lock is not fair, and need not *)
(* be: a thread makes finitely many calls here.                            *)
FairSpec == Spec /\ \A t \in Caller : WF_vars(Step(t))

-----------------------------------------------------------------------------
(* Never two live defaults, and never a dead one: an open resolver is the  *)
(* default of its process, and what is cached outside the lock is open.    *)
OneOpenDefault ==
  /\ \A r \in Id : open[r] => \E p \in Process : default[p] = r
  /\ \A p \in Process : lock[p] = Unlocked /\ default[p] # None => open[default[p]]

(* "The next call rebuilds it with the updated configuration": unless a    *)
(* configure() is still under way, the cached resolver was built with      *)
(* exactly the current settings, even one whose build read half of them    *)
(* before and half of them after they were written.                        *)
Configuring(p) ==
  \E t \in Caller : ProcessOf(t) = p /\ pc[t] \in {"write", "reset", "closing", "dropping"}
FreshDefault ==
  \A p \in Process : default[p] # None /\ ~Configuring(p) => with[default[p]] = config[p]

(* A call is refused (closed resolver) only if a reset overlapped it.      *)
RefusedOnlyByReset ==
  \A t \in Caller : pc[t] = "use" /\ ~open[handle[t]] => disturbed[t]

(* Every call of a thread of the first process returns, also when builds   *)
(* raise and other threads configure and reset.  Calls are bounded, so in  *)
(* the end every thread is out of these functions for good.                *)
CallsReturn == <>[](\A t \in Thread : pc[t] = "idle")

(* "Subsequent _get_default() calls in the child construct a fresh         *)
(* Resolver": the fork hook clears _default but not the lock, which the    *)
(* child inherits held if another thread was building or resetting.        *)
ChildCallsReturn == pc[Child] \notin {"unborn", "idle"} ~> pc[Child] = "idle"
=============================================================================
