--------------------------- MODULE ConnectionPool ---------------------------
(***************************************************************************)
(* The connections of one SQLiteEntityStore: threads take one for a query, *)
(* put it back, and close() may come at any time.  A wait for a connection *)
(* times out and looks at the closed flag again.                           *)
(***************************************************************************)
EXTENDS Callers

CONSTANT Conn       \* the connections that _init_pool opens

ASSUME ConnectionPoolAssumption == None \notin Conn

VARIABLES
  pool,             \* connections in the queue
  live,             \* connections not closed
  closed,           \* _closed
  held,             \* per thread: the connection it has taken
  inStore           \* per thread: where it is

poolVars == <<pool, live, closed, held, inStore>>

PoolTypeOK ==
  /\ pool \in SUBSET Conn /\ live \in SUBSET Conn /\ closed \in BOOLEAN
  /\ held \in [Thread -> Conn \cup {None}]
  /\ inStore \in [Thread -> {"out", "waiting", "expired", "using", "returning",
                             "closing", "draining"}]
  /\ \A t \in Thread : held[t] # None <=> inStore[t] \in {"using", "returning"}

NothingHeld == [t \in Thread |-> None]

PoolInit ==
  /\ pool = Conn /\ live = Conn /\ closed = FALSE
  /\ held = NothingHeld /\ inStore = AllOut

Move(t, from, to) == inStore[t] = from /\ inStore' = [inStore EXCEPT ![t] = to]

EnterStore(t) ==
  /\ ~closed /\ Move(t, "out", "waiting")
  /\ UNCHANGED <<pool, live, closed, held>>

Get(t) ==
  /\ Move(t, "waiting", "using")
  /\ \E c \in pool : held' = [held EXCEPT ![t] = c] /\ pool' = pool \ {c}
  /\ UNCHANGED <<live, closed>>

(* Queue.get() has timed out: raise if closed, or back to the queue.       *)
TimeOut(t) ==
  /\ pool = {} /\ Move(t, "waiting", "expired")
  /\ UNCHANGED <<pool, live, closed, held>>

AfterTimeOut_Retry == "waiting"
AfterTimeOut == IF closed THEN "out" ELSE "waiting"

CheckAgain(t) ==
  /\ Move(t, "expired", AfterTimeOut)
  /\ UNCHANGED <<pool, live, closed, held>>

(* The finally clause, reached from a query that returned or raised.       *)
DropOrphan(t) ==
  /\ closed /\ Move(t, "using", "out")
  /\ live' = live \ {held[t]} /\ held' = [held EXCEPT ![t] = None]
  /\ UNCHANGED <<pool, closed>>

SeeOpen(t) ==
  /\ ~closed /\ Move(t, "using", "returning")
  /\ UNCHANGED <<pool, live, closed, held>>

Returned(t) == {held[t]}

Put(t) ==
  /\ Move(t, "returning", "out")
  /\ pool' = pool \cup Returned(t) /\ held' = [held EXCEPT ![t] = None]
  /\ UNCHANGED <<live, closed>>

CloseStore(t) ==
  /\ ~closed /\ Move(t, "out", "closing")
  /\ UNCHANGED <<pool, live, closed, held>>

MarkClosed(t) ==
  /\ Move(t, "closing", "draining") /\ closed' = TRUE
  /\ UNCHANGED <<pool, live, held>>

Drainable_All == live
Drainable == pool

Drain(t) ==
  /\ inStore[t] = "draining"
  /\ \E c \in Drainable : live' = live \ {c} /\ pool' = pool \ {c}
  /\ UNCHANGED <<closed, held, inStore>>

EndDrain(t) ==
  /\ pool = {} /\ Move(t, "draining", "out")
  /\ UNCHANGED <<pool, live, closed, held>>

UseStore(t) ==
  \/ Get(t) \/ TimeOut(t) \/ CheckAgain(t) \/ DropOrphan(t) \/ SeeOpen(t) \/ Put(t)
  \/ MarkClosed(t) \/ Drain(t) \/ EndDrain(t)

(* A fork copies the store without the connections that others had taken.  *)
ForkPool ==
  /\ held' = NothingHeld /\ inStore' = AllOut
  /\ UNCHANGED <<pool, live, closed>>

-----------------------------------------------------------------------------
(* A taken connection is open, out of the queue, and with one thread only: *)
(* close() never closes a connection under a query of another thread.      *)
HeldExclusively ==
  \A t \in Thread : held[t] # None =>
    /\ held[t] \in live \ pool
    /\ \A u \in Thread : held[u] = held[t] => u = t

(* Until close() or a fork, every connection is open, and in the queue or  *)
(* with a thread: the pool never shrinks.                                  *)
NoneIsLost ==
  ~closed /\ ~Forked => live = Conn /\ live \subseteq pool \cup {held[t] : t \in Thread}
=============================================================================
