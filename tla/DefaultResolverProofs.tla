------------------------ MODULE DefaultResolverProofs ------------------------
(***************************************************************************)
(* Proofs about DefaultResolver for any threads, settings and bounds.  The *)
(* invariant says which resolver a process's default is (Grounded), that   *)
(* it is live (Live), what a build in flight has read (Fresh), and which   *)
(* calls a reset has overlapped (Marked).                                  *)
(***************************************************************************)
EXTENDS DefaultResolver, TLAPS

Dropping(p) == \E t \in Caller : pc[t] = "dropping" /\ ProcessOf(t) = p

(* A builder has found no default; the default being dropped is closed;    *)
(* no process has its hands on another one's resolver.                     *)
Grounded ==
  /\ default["first"] = default["forked"] => default["first"] = None
  /\ \A p \in Process : default[p] <= built
  /\ pc[Child] = "unborn" => default["forked"] = None
  /\ \A t \in Caller :
       /\ pc[t] = "building" => default[ProcessOf(t)] = None
       /\ pc[t] = "dropping" => default[ProcessOf(t)] = None \/ ~open[default[ProcessOf(t)]]
       /\ pc[t] = "use" => /\ handle[t] \in 1..built
                           /\ \A p \in Process : default[p] = handle[t] => p = ProcessOf(t)

(* Open resolvers are defaults, and defaults are open unless being dropped. *)
Live ==
  /\ \A r \in Id : open[r] => \E p \in Process : default[p] = r
  /\ \A p \in Process : default[p] # None /\ ~Dropping(p) => open[default[p]]

(* A build in flight has read the current settings, unless a configure()   *)
(* is under way, which will discard what is built.                         *)
Fresh ==
  \A t \in Caller, f \in Field :
    pc[t] = "building" /\ f \notin unread[t] /\ ~Configuring(ProcessOf(t)) =>
      seen[t][f] = config[ProcessOf(t)][f]

(* Whoever asks while a closed default is still cached is marked. *)
Marked == \A t \in Caller : Asking(t) /\ Dropping(ProcessOf(t)) => disturbed[t]

(* Types, and a lock is held exactly by who is inside a with block.        *)
THEOREM Typing == Spec => []TypeOK
<1>1. Init => TypeOK
  BY DefaultResolverAssumption
  DEF Init, TypeOK, Unset, Caller, Process, ProcessOf, None, Id, Locked
<1>2. TypeOK /\ [Next]_vars => TypeOK'
  <2> SUFFICES ASSUME TypeOK, [Next]_vars PROVE TypeOK'
    OBVIOUS
  <2> USE DefaultResolverAssumption
      DEF TypeOK, Caller, Process, ProcessOf, None, Id, Locked, sharedVars, resolverVars,
         callVars
  <2>1. ASSUME NEW t \in Caller, CallModuleFunction(t) PROVE TypeOK'
    <3>1. disturbed' \in [Caller -> BOOLEAN]
      <4> DEFINE b == \E c \in Caller : pc[c] = "dropping" /\ ProcessOf(c) = ProcessOf(t)
      <4>1. b \in BOOLEAN
        OBVIOUS
      <4>2. disturbed' = [disturbed EXCEPT ![t] = b]
        BY <2>1 DEF CallModuleFunction
      <4> HIDE DEF b
      <4> QED
        BY <4>1, <4>2
    <3>2. /\ pc[t] = "idle" /\ calls[t] < MaxCalls[t]
          /\ calls' = [calls EXCEPT ![t] = @ + 1] /\ pc' = [pc EXCEPT ![t] = "get"]
          /\ UNCHANGED <<sharedVars, resolverVars, callVars>>
      BY <2>1 DEF CallModuleFunction, Begin, Goto
    <3> QED
      BY <3>1, <3>2
  <2>2. ASSUME NEW t \in Caller, CallConfigure(t) PROVE TypeOK'
    BY <2>2 DEF CallConfigure, Goto, Begin
  <2>3. ASSUME NEW t \in Caller, CallReset(t) PROVE TypeOK'
    BY <2>3 DEF CallReset, Goto, Begin
  <2>4. ASSUME NEW t \in Caller, FastPath(t) PROVE TypeOK'
    BY <2>4 DEF FastPath, Goto
  <2>5. ASSUME NEW t \in Caller, MissCache(t) PROVE TypeOK'
    BY <2>5 DEF MissCache, Goto
  <2>6. ASSUME NEW t \in Caller, LockToBuild(t) PROVE TypeOK'
    BY <2>6 DEF LockToBuild, Goto, Acquire, Free
  <2>7. ASSUME NEW t \in Caller, SlowPath(t) PROVE TypeOK'
    BY <2>7 DEF SlowPath, Goto, Release, AlreadyBuilt
  <2>8. ASSUME NEW t \in Caller, BeginBuild(t) PROVE TypeOK'
    BY <2>8 DEF BeginBuild, Goto, AlreadyBuilt
  <2>9. ASSUME NEW t \in Caller, ReadSetting(t) PROVE TypeOK'
    BY <2>9 DEF ReadSetting, Goto
  <2>10. ASSUME NEW t \in Caller, Publish(t) PROVE TypeOK'
    <3> USE <2>10 DEF Publish
    <3>1. built + 1 \in Id /\ built' \in 0..MaxBuilds
      OBVIOUS
    <3>2. /\ open' \in [Id -> BOOLEAN] /\ with' \in [Id -> [Field -> Setting]]
          /\ default' \in [Process -> Id \cup {None}] /\ handle' \in [Caller -> Id \cup {None}]
      BY <3>1
    <3>3. seen' \in [Caller -> [Field -> Setting]]
      BY DEF Unset
    <3>4. /\ lock' = [lock EXCEPT ![ProcessOf(t)] = Unlocked]
          /\ pc' = [pc EXCEPT ![t] = "use"]
      BY DEF Release, Goto
    <3>5. /\ lock' \in [Process -> Caller \cup {Unlocked}] /\ lock'["first"] # Child
          /\ pc' \in [Caller -> {"unborn", "idle", "get", "wait", "use", "check", "write",
             "reset"}
                               \cup Locked]
          /\ \A c \in Caller : pc'[c] \in Locked => lock'[ProcessOf(c)] = c
          /\ \A c \in Caller : lock'[ProcessOf(c)] = c => pc'[c] \in Locked
      BY <3>4
    <3> QED
      BY <3>1, <3>2, <3>3, <3>5
  <2>11. ASSUME NEW t \in Caller, BuildRaises(t) PROVE TypeOK'
    <3> USE <2>11 DEF BuildRaises
    <3>1. /\ unread' \in [Caller -> SUBSET Field] /\ seen' \in [Caller -> [Field -> Setting]]
          /\ disturbed' \in [Caller -> BOOLEAN]
      BY DEF Unset
    <3>2. /\ lock' = [lock EXCEPT ![ProcessOf(t)] = Unlocked]
          /\ pc' = [pc EXCEPT ![t] = "idle"]
      BY DEF AfterError, Goto
    <3>3. /\ lock' \in [Process -> Caller \cup {Unlocked}] /\ lock'["first"] # Child
          /\ pc' \in [Caller -> {"unborn", "idle", "get", "wait", "use", "check", "write",
             "reset"}
                               \cup Locked]
          /\ \A c \in Caller : pc'[c] \in Locked => lock'[ProcessOf(c)] = c
          /\ \A c \in Caller : lock'[ProcessOf(c)] = c => pc'[c] \in Locked
      BY <3>2
    <3> QED
      BY <3>1, <3>3
  <2>12. ASSUME NEW t \in Caller, UseHandle(t) PROVE TypeOK'
    BY <2>12 DEF UseHandle, Goto
  <2>13. ASSUME NEW t \in Caller, Reject(t) PROVE TypeOK'
    BY <2>13 DEF Reject, Goto
  <2>14. ASSUME NEW t \in Caller, Accept(t) PROVE TypeOK'
    BY <2>14 DEF Accept, Goto
  <2>15. ASSUME NEW t \in Caller, WriteSetting(t) PROVE TypeOK'
    BY <2>15 DEF WriteSetting, Goto
  <2>16. ASSUME NEW t \in Caller, EndWriting(t) PROVE TypeOK'
    BY <2>16 DEF EndWriting, Goto, MustReset
  <2>17. ASSUME NEW t \in Caller, LockToReset(t) PROVE TypeOK'
    BY <2>17 DEF LockToReset, Goto, Acquire, Free
  <2>18. ASSUME NEW t \in Caller, CloseDefault(t) PROVE TypeOK'
    BY <2>18 DEF CloseDefault, Goto
  <2>19. ASSUME NEW t \in Caller, DropDefault(t) PROVE TypeOK'
    BY <2>19 DEF DropDefault, Goto, Release, AfterReset
  <2>20. CASE Fork
    BY <2>20 DEF Fork
  <2>21. CASE UNCHANGED vars
    BY <2>21 DEF vars
  <2> QED
    BY <2>1, <2>2, <2>3, <2>4, <2>5, <2>6, <2>7, <2>8, <2>9, <2>10, <2>11, <2>12, <2>13,
       <2>14, <2>15, <2>16, <2>17, <2>18, <2>19, <2>20, <2>21 DEF Next, Call, Step, Rest
<1> QED
  BY <1>1, <1>2, PTL DEF Spec

(* Whose resolver is whose. *)
LEMMA Grounding == Spec => []Grounded
<1>1. Init => Grounded
  BY DefaultResolverAssumption DEF Init, Unset, Caller, Process, ProcessOf, None, Id,
     Grounded
<1>2. Grounded /\ TypeOK /\ TypeOK' /\ [Next]_vars => Grounded'
  <2> SUFFICES ASSUME Grounded, TypeOK, TypeOK', [Next]_vars PROVE Grounded'
    OBVIOUS
  <2> USE DefaultResolverAssumption
      DEF TypeOK, Caller, Process, ProcessOf, None, Id, Locked, sharedVars, resolverVars,
         callVars, Grounded
  <2>1. ASSUME NEW t \in Caller, CallModuleFunction(t) PROVE Grounded'
    BY <2>1 DEF CallModuleFunction, Goto, Begin
  <2>2. ASSUME NEW t \in Caller, CallConfigure(t) PROVE Grounded'
    BY <2>2 DEF CallConfigure, Goto, Begin
  <2>3. ASSUME NEW t \in Caller, CallReset(t) PROVE Grounded'
    BY <2>3 DEF CallReset, Goto, Begin
  <2>4. ASSUME NEW t \in Caller, FastPath(t) PROVE Grounded'
    BY <2>4 DEF FastPath, Goto
  <2>5. ASSUME NEW t \in Caller, MissCache(t) PROVE Grounded'
    BY <2>5 DEF MissCache, Goto
  <2>6. ASSUME NEW t \in Caller, LockToBuild(t) PROVE Grounded'
    BY <2>6 DEF LockToBuild, Goto, Acquire, Free
  <2>7. ASSUME NEW t \in Caller, SlowPath(t) PROVE Grounded'
    BY <2>7 DEF SlowPath, Goto, Release, AlreadyBuilt
  <2>8. ASSUME NEW t \in Caller, BeginBuild(t) PROVE Grounded'
    BY <2>8 DEF BeginBuild, Goto, AlreadyBuilt
  <2>9. ASSUME NEW t \in Caller, ReadSetting(t) PROVE Grounded'
    BY <2>9 DEF ReadSetting, Goto
  <2>10. ASSUME NEW t \in Caller, Publish(t) PROVE Grounded'
    BY <2>10 DEF Publish, Goto, Release
  <2>11. ASSUME NEW t \in Caller, BuildRaises(t) PROVE Grounded'
    BY <2>11 DEF BuildRaises, Goto, AfterError
  <2>12. ASSUME NEW t \in Caller, UseHandle(t) PROVE Grounded'
    BY <2>12 DEF UseHandle, Goto
  <2>13. ASSUME NEW t \in Caller, Reject(t) PROVE Grounded'
    BY <2>13 DEF Reject, Goto
  <2>14. ASSUME NEW t \in Caller, Accept(t) PROVE Grounded'
    BY <2>14 DEF Accept, Goto
  <2>15. ASSUME NEW t \in Caller, WriteSetting(t) PROVE Grounded'
    BY <2>15 DEF WriteSetting, Goto
  <2>16. ASSUME NEW t \in Caller, EndWriting(t) PROVE Grounded'
    BY <2>16 DEF EndWriting, Goto, MustReset
  <2>17. ASSUME NEW t \in Caller, LockToReset(t) PROVE Grounded'
    BY <2>17 DEF LockToReset, Goto, Acquire, Free
  <2>18. ASSUME NEW t \in Caller, CloseDefault(t) PROVE Grounded'
    BY <2>18 DEF CloseDefault, Goto
  <2>19. ASSUME NEW t \in Caller, DropDefault(t) PROVE Grounded'
    BY <2>19 DEF DropDefault, Goto, Release, AfterReset
  <2>20. CASE Fork
    BY <2>20 DEF Fork
  <2>21. CASE UNCHANGED vars
    BY <2>21 DEF vars
  <2> QED
    BY <2>1, <2>2, <2>3, <2>4, <2>5, <2>6, <2>7, <2>8, <2>9, <2>10, <2>11, <2>12, <2>13,
       <2>14, <2>15, <2>16, <2>17, <2>18, <2>19, <2>20, <2>21 DEF Next, Call, Step, Rest
<1> QED
  BY <1>1, <1>2, Typing, PTL DEF Spec

(* What is cached is open, and what is open is cached. *)
LEMMA Living == Spec => []Live
<1>1. Init => Live
  BY DefaultResolverAssumption DEF Init, Unset, Caller, Process, ProcessOf, None, Id, Live,
     Grounded, Dropping
<1>2. Live /\ TypeOK /\ Grounded /\ TypeOK' /\ [Next]_vars => Live'
  <2> SUFFICES ASSUME Live, TypeOK, Grounded, TypeOK', [Next]_vars PROVE Live'
    OBVIOUS
  <2> USE DefaultResolverAssumption
      DEF TypeOK, Caller, Process, ProcessOf, None, Id, Locked, sharedVars, resolverVars,
         callVars, Live, Grounded, Dropping
  <2>1. ASSUME NEW t \in Caller, CallModuleFunction(t) PROVE Live'
    BY <2>1 DEF CallModuleFunction, Goto, Begin
  <2>2. ASSUME NEW t \in Caller, CallConfigure(t) PROVE Live'
    BY <2>2 DEF CallConfigure, Goto, Begin
  <2>3. ASSUME NEW t \in Caller, CallReset(t) PROVE Live'
    BY <2>3 DEF CallReset, Goto, Begin
  <2>4. ASSUME NEW t \in Caller, FastPath(t) PROVE Live'
    BY <2>4 DEF FastPath, Goto
  <2>5. ASSUME NEW t \in Caller, MissCache(t) PROVE Live'
    BY <2>5 DEF MissCache, Goto
  <2>6. ASSUME NEW t \in Caller, LockToBuild(t) PROVE Live'
    BY <2>6 DEF LockToBuild, Goto, Acquire, Free
  <2>7. ASSUME NEW t \in Caller, SlowPath(t) PROVE Live'
    BY <2>7 DEF SlowPath, Goto, Release, AlreadyBuilt
  <2>8. ASSUME NEW t \in Caller, BeginBuild(t) PROVE Live'
    BY <2>8 DEF BeginBuild, Goto, AlreadyBuilt
  <2>9. ASSUME NEW t \in Caller, ReadSetting(t) PROVE Live'
    BY <2>9 DEF ReadSetting, Goto
  <2>10. ASSUME NEW t \in Caller, Publish(t) PROVE Live'
    BY <2>10 DEF Publish, Goto, Release
  <2>11. ASSUME NEW t \in Caller, BuildRaises(t) PROVE Live'
    BY <2>11 DEF BuildRaises, Goto, AfterError
  <2>12. ASSUME NEW t \in Caller, UseHandle(t) PROVE Live'
    BY <2>12 DEF UseHandle, Goto
  <2>13. ASSUME NEW t \in Caller, Reject(t) PROVE Live'
    BY <2>13 DEF Reject, Goto
  <2>14. ASSUME NEW t \in Caller, Accept(t) PROVE Live'
    BY <2>14 DEF Accept, Goto
  <2>15. ASSUME NEW t \in Caller, WriteSetting(t) PROVE Live'
    BY <2>15 DEF WriteSetting, Goto
  <2>16. ASSUME NEW t \in Caller, EndWriting(t) PROVE Live'
    BY <2>16 DEF EndWriting, Goto, MustReset
  <2>17. ASSUME NEW t \in Caller, LockToReset(t) PROVE Live'
    BY <2>17 DEF LockToReset, Goto, Acquire, Free
  <2>18. ASSUME NEW t \in Caller, CloseDefault(t) PROVE Live'
    BY <2>18 DEF CloseDefault, Goto
  <2>19. ASSUME NEW t \in Caller, DropDefault(t) PROVE Live'
    BY <2>19 DEF DropDefault, Goto, Release, AfterReset
  <2>20. CASE Fork
    BY <2>20 DEF Fork
  <2>21. CASE UNCHANGED vars
    BY <2>21 DEF vars
  <2> QED
    BY <2>1, <2>2, <2>3, <2>4, <2>5, <2>6, <2>7, <2>8, <2>9, <2>10, <2>11, <2>12, <2>13,
       <2>14, <2>15, <2>16, <2>17, <2>18, <2>19, <2>20, <2>21 DEF Next, Call, Step, Rest
<1> QED
  BY <1>1, <1>2, Typing, Grounding, PTL DEF Spec

(* A configure() under way while a resolver is built outlasts each step of    *)
(* the build: it waits for the lock.                                       *)
LEMMA Discarding ==
  ASSUME TypeOK, TypeOK', [Next]_vars, NEW b \in Caller, pc[b] = "building",
     pc'[b] = "building",
         Configuring(ProcessOf(b))
  PROVE  Configuring(ProcessOf(b))'
<1> USE DefaultResolverAssumption
    DEF TypeOK, Caller, Process, ProcessOf, None, Id, Locked, sharedVars, resolverVars,
       callVars, Configuring
<1> DEFINE Done == \E c \in Caller : ProcessOf(c) = ProcessOf(b)
                     /\ pc'[c] \in {"write", "reset", "closing", "dropping"}
<1>w. PICK w \in Caller : ProcessOf(w) = ProcessOf(b) /\ pc[w] \in {"write", "reset",
   "closing"}
  OBVIOUS
<1>0. SUFFICES Done
  OBVIOUS
<1>1. ASSUME NEW t \in Caller, CallModuleFunction(t) PROVE Done
  BY <1>1 DEF CallModuleFunction, Goto, Begin
<1>2. ASSUME NEW t \in Caller, CallConfigure(t) PROVE Done
  BY <1>2 DEF CallConfigure, Goto, Begin
<1>3. ASSUME NEW t \in Caller, CallReset(t) PROVE Done
  BY <1>3 DEF CallReset, Goto, Begin
<1>4. ASSUME NEW t \in Caller, FastPath(t) PROVE Done
  BY <1>4 DEF FastPath, Goto
<1>5. ASSUME NEW t \in Caller, MissCache(t) PROVE Done
  BY <1>5 DEF MissCache, Goto
<1>6. ASSUME NEW t \in Caller, LockToBuild(t) PROVE Done
  BY <1>6 DEF LockToBuild, Goto, Acquire, Free
<1>7. ASSUME NEW t \in Caller, SlowPath(t) PROVE Done
  BY <1>7 DEF SlowPath, Goto, Release, AlreadyBuilt
<1>8. ASSUME NEW t \in Caller, BeginBuild(t) PROVE Done
  BY <1>8 DEF BeginBuild, Goto, AlreadyBuilt
<1>9. ASSUME NEW t \in Caller, ReadSetting(t) PROVE Done
  BY <1>9 DEF ReadSetting, Goto
<1>10. ASSUME NEW t \in Caller, Publish(t) PROVE Done
  BY <1>10 DEF Publish, Goto, Release
<1>11. ASSUME NEW t \in Caller, BuildRaises(t) PROVE Done
  BY <1>11 DEF BuildRaises, Goto, AfterError
<1>12. ASSUME NEW t \in Caller, UseHandle(t) PROVE Done
  BY <1>12 DEF UseHandle, Goto
<1>13. ASSUME NEW t \in Caller, Reject(t) PROVE Done
  BY <1>13 DEF Reject, Goto
<1>14. ASSUME NEW t \in Caller, Accept(t) PROVE Done
  BY <1>14 DEF Accept, Goto
<1>15. ASSUME NEW t \in Caller, WriteSetting(t) PROVE Done
  BY <1>15 DEF WriteSetting, Goto
<1>16. ASSUME NEW t \in Caller, EndWriting(t) PROVE Done
  BY <1>16 DEF EndWriting, Goto, MustReset
<1>17. ASSUME NEW t \in Caller, LockToReset(t) PROVE Done
  BY <1>17 DEF LockToReset, Goto, Acquire, Free
<1>18. ASSUME NEW t \in Caller, CloseDefault(t) PROVE Done
  BY <1>18 DEF CloseDefault, Goto
<1>19. ASSUME NEW t \in Caller, DropDefault(t) PROVE Done
  BY <1>19 DEF DropDefault, Goto, Release, AfterReset
<1>20. CASE Fork
  BY <1>20 DEF Fork
<1>21. CASE UNCHANGED vars
  BY <1>21 DEF vars
<1> QED
  BY <1>1, <1>2, <1>3, <1>4, <1>5, <1>6, <1>7, <1>8, <1>9, <1>10, <1>11, <1>12, <1>13,
     <1>14, <1>15, <1>16, <1>17, <1>18, <1>19, <1>20, <1>21 DEF Next, Call, Step, Rest

(* A build in flight has read what is written. *)
LEMMA Freshening == Spec => []Fresh
<1>1. Init => Fresh
  BY DefaultResolverAssumption DEF Init, Unset, Caller, Process, ProcessOf, None, Id, Fresh
<1>2. Fresh /\ TypeOK /\ Grounded /\ TypeOK' /\ [Next]_vars => Fresh'
  <2> SUFFICES ASSUME Fresh, TypeOK, Grounded, TypeOK', [Next]_vars PROVE Fresh'
    OBVIOUS
  <2> USE DefaultResolverAssumption
      DEF TypeOK, Caller, Process, ProcessOf, None, Id, Locked, sharedVars, resolverVars,
         callVars, Fresh
  <2>0. \A c \in Caller : pc[c] = "building" /\ pc'[c] = "building" /\ Configuring(ProcessOf(c))
                           => Configuring(ProcessOf(c))'
    BY Discarding
  <2> USE <2>0
  <2>1. ASSUME NEW t \in Caller, CallModuleFunction(t) PROVE Fresh'
    BY <2>1 DEF CallModuleFunction, Goto, Begin
  <2>2. ASSUME NEW t \in Caller, CallConfigure(t) PROVE Fresh'
    BY <2>2 DEF CallConfigure, Goto, Begin
  <2>3. ASSUME NEW t \in Caller, CallReset(t) PROVE Fresh'
    BY <2>3 DEF CallReset, Goto, Begin
  <2>4. ASSUME NEW t \in Caller, FastPath(t) PROVE Fresh'
    BY <2>4 DEF FastPath, Goto
  <2>5. ASSUME NEW t \in Caller, MissCache(t) PROVE Fresh'
    BY <2>5 DEF MissCache, Goto
  <2>6. ASSUME NEW t \in Caller, LockToBuild(t) PROVE Fresh'
    BY <2>6 DEF LockToBuild, Goto, Acquire, Free
  <2>7. ASSUME NEW t \in Caller, SlowPath(t) PROVE Fresh'
    BY <2>7 DEF SlowPath, Goto, Release, AlreadyBuilt
  <2>8. ASSUME NEW t \in Caller, BeginBuild(t) PROVE Fresh'
    BY <2>8 DEF BeginBuild, Goto, AlreadyBuilt
  <2>9. ASSUME NEW t \in Caller, ReadSetting(t) PROVE Fresh'
    BY <2>9 DEF ReadSetting, Goto
  <2>10. ASSUME NEW t \in Caller, Publish(t) PROVE Fresh'
    BY <2>10 DEF Publish, Goto, Release
  <2>11. ASSUME NEW t \in Caller, BuildRaises(t) PROVE Fresh'
    BY <2>11 DEF BuildRaises, Goto, AfterError
  <2>12. ASSUME NEW t \in Caller, UseHandle(t) PROVE Fresh'
    BY <2>12 DEF UseHandle, Goto
  <2>13. ASSUME NEW t \in Caller, Reject(t) PROVE Fresh'
    BY <2>13 DEF Reject, Goto
  <2>14. ASSUME NEW t \in Caller, Accept(t) PROVE Fresh'
    BY <2>14 DEF Accept, Goto
  <2>15. ASSUME NEW t \in Caller, WriteSetting(t) PROVE Fresh'
    <3>1. Configuring(ProcessOf(t))'
      BY <2>15 DEF WriteSetting, Goto, Configuring
    <3> QED
      BY <2>15, <3>1 DEF WriteSetting, Goto
  <2>16. ASSUME NEW t \in Caller, EndWriting(t) PROVE Fresh'
    BY <2>16 DEF EndWriting, Goto, MustReset
  <2>17. ASSUME NEW t \in Caller, LockToReset(t) PROVE Fresh'
    BY <2>17 DEF LockToReset, Goto, Acquire, Free
  <2>18. ASSUME NEW t \in Caller, CloseDefault(t) PROVE Fresh'
    BY <2>18 DEF CloseDefault, Goto
  <2>19. ASSUME NEW t \in Caller, DropDefault(t) PROVE Fresh'
    BY <2>19 DEF DropDefault, Goto, Release, AfterReset
  <2>20. CASE Fork
    <3>1. \A c \in Caller : pc'[c] = "building" =>
            c # Child /\ pc[c] = "building" /\ config'[ProcessOf(c)] = config[ProcessOf(c)]
      BY <2>20 DEF Fork
    <3>2. seen' = seen /\ unread' = unread
      BY <2>20 DEF Fork
    <3> QED
      BY <3>1, <3>2
  <2>21. CASE UNCHANGED vars
    BY <2>21 DEF vars
  <2> QED
    BY <2>1, <2>2, <2>3, <2>4, <2>5, <2>6, <2>7, <2>8, <2>9, <2>10, <2>11, <2>12, <2>13,
       <2>14, <2>15, <2>16, <2>17, <2>18, <2>19, <2>20, <2>21 DEF Next, Call, Step, Rest
<1> QED
  BY <1>1, <1>2, Typing, Grounding, PTL DEF Spec

(* Unless a configure() is under way, the cached resolver was built with   *)
(* exactly the current settings.                                           *)
THEOREM UpToDate == Spec => []FreshDefault
<1>1. Init => FreshDefault
  BY DefaultResolverAssumption DEF Init, Unset, Caller, Process, ProcessOf, None, Id,
     FreshDefault, Fresh, Grounded, Configuring
<1>2. FreshDefault /\ TypeOK /\ Grounded /\ Fresh /\ TypeOK' /\ [Next]_vars => FreshDefault'
  <2> SUFFICES ASSUME FreshDefault, TypeOK, Grounded, Fresh, TypeOK',
     [Next]_vars PROVE FreshDefault'
    OBVIOUS
  <2> USE DefaultResolverAssumption
      DEF TypeOK, Caller, Process, ProcessOf, None, Id, Locked, sharedVars, resolverVars,
         callVars, FreshDefault, Fresh, Grounded, Configuring
  <2>1. ASSUME NEW t \in Caller, CallModuleFunction(t) PROVE FreshDefault'
    BY <2>1 DEF CallModuleFunction, Goto, Begin
  <2>2. ASSUME NEW t \in Caller, CallConfigure(t) PROVE FreshDefault'
    BY <2>2 DEF CallConfigure, Goto, Begin
  <2>3. ASSUME NEW t \in Caller, CallReset(t) PROVE FreshDefault'
    BY <2>3 DEF CallReset, Goto, Begin
  <2>4. ASSUME NEW t \in Caller, FastPath(t) PROVE FreshDefault'
    BY <2>4 DEF FastPath, Goto
  <2>5. ASSUME NEW t \in Caller, MissCache(t) PROVE FreshDefault'
    BY <2>5 DEF MissCache, Goto
  <2>6. ASSUME NEW t \in Caller, LockToBuild(t) PROVE FreshDefault'
    BY <2>6 DEF LockToBuild, Goto, Acquire, Free
  <2>7. ASSUME NEW t \in Caller, SlowPath(t) PROVE FreshDefault'
    BY <2>7 DEF SlowPath, Goto, Release, AlreadyBuilt
  <2>8. ASSUME NEW t \in Caller, BeginBuild(t) PROVE FreshDefault'
    BY <2>8 DEF BeginBuild, Goto, AlreadyBuilt
  <2>9. ASSUME NEW t \in Caller, ReadSetting(t) PROVE FreshDefault'
    BY <2>9 DEF ReadSetting, Goto
  <2>10. ASSUME NEW t \in Caller, Publish(t) PROVE FreshDefault'
    <3> USE <2>10 DEF Publish, Goto, Release
    <3>1. ~Configuring(ProcessOf(t)) => seen[t] = config[ProcessOf(t)]
      <4>1. seen[t] \in [Field -> Setting] /\ config[ProcessOf(t)] \in [Field -> Setting]
        OBVIOUS
      <4>2. ~Configuring(ProcessOf(t)) => \A f \in Field : seen[t][f] = config[ProcessOf(t)][f]
        BY DEF Fresh
      <4> QED
        BY <4>1, <4>2
    <3>2. \A p \in Process : Configuring(p) => Configuring(p)'
      BY DEF Configuring
    <3>3. with'[default'[ProcessOf(t)]] = seen[t]
      OBVIOUS
    <3>4. \A p \in Process : p # ProcessOf(t) /\ default[p] # None =>
            default'[p] = default[p] /\ with'[default[p]] = with[default[p]]
      BY DEF Grounded
    <3> HIDE DEF Configuring
    <3> QED
      BY <3>1, <3>2, <3>3, <3>4 DEF FreshDefault
  <2>11. ASSUME NEW t \in Caller, BuildRaises(t) PROVE FreshDefault'
    BY <2>11 DEF BuildRaises, Goto, AfterError
  <2>12. ASSUME NEW t \in Caller, UseHandle(t) PROVE FreshDefault'
    BY <2>12 DEF UseHandle, Goto
  <2>13. ASSUME NEW t \in Caller, Reject(t) PROVE FreshDefault'
    BY <2>13 DEF Reject, Goto
  <2>14. ASSUME NEW t \in Caller, Accept(t) PROVE FreshDefault'
    BY <2>14 DEF Accept, Goto
  <2>15. ASSUME NEW t \in Caller, WriteSetting(t) PROVE FreshDefault'
    BY <2>15 DEF WriteSetting, Goto
  <2>16. ASSUME NEW t \in Caller, EndWriting(t) PROVE FreshDefault'
    BY <2>16 DEF EndWriting, Goto, MustReset
  <2>17. ASSUME NEW t \in Caller, LockToReset(t) PROVE FreshDefault'
    BY <2>17 DEF LockToReset, Goto, Acquire, Free
  <2>18. ASSUME NEW t \in Caller, CloseDefault(t) PROVE FreshDefault'
    BY <2>18 DEF CloseDefault, Goto
  <2>19. ASSUME NEW t \in Caller, DropDefault(t) PROVE FreshDefault'
    BY <2>19 DEF DropDefault, Goto, Release, AfterReset
  <2>20. CASE Fork
    BY <2>20 DEF Fork
  <2>21. CASE UNCHANGED vars
    BY <2>21 DEF vars
  <2> QED
    BY <2>1, <2>2, <2>3, <2>4, <2>5, <2>6, <2>7, <2>8, <2>9, <2>10, <2>11, <2>12, <2>13,
       <2>14, <2>15, <2>16, <2>17, <2>18, <2>19, <2>20, <2>21 DEF Next, Call, Step, Rest
<1> QED
  BY <1>1, <1>2, Typing, Grounding, Freshening, PTL DEF Spec

(* Who asks while the closed default is cached knows of the reset. *)
LEMMA Marking == Spec => []Marked
<1>1. Init => Marked
  BY DefaultResolverAssumption DEF Init, Unset, Caller, Process, ProcessOf, None, Id,
     Marked, Dropping, Asking
<1>2. Marked /\ TypeOK /\ TypeOK' /\ [Next]_vars => Marked'
  <2> SUFFICES ASSUME Marked, TypeOK, TypeOK', [Next]_vars PROVE Marked'
    OBVIOUS
  <2> USE DefaultResolverAssumption
      DEF TypeOK, Caller, Process, ProcessOf, None, Id, Locked, sharedVars, resolverVars,
         callVars, Marked, Dropping, Asking
  <2>1. ASSUME NEW t \in Caller, CallModuleFunction(t) PROVE Marked'
    BY <2>1 DEF CallModuleFunction, Goto, Begin
  <2>2. ASSUME NEW t \in Caller, CallConfigure(t) PROVE Marked'
    BY <2>2 DEF CallConfigure, Goto, Begin
  <2>3. ASSUME NEW t \in Caller, CallReset(t) PROVE Marked'
    BY <2>3 DEF CallReset, Goto, Begin
  <2>4. ASSUME NEW t \in Caller, FastPath(t) PROVE Marked'
    BY <2>4 DEF FastPath, Goto
  <2>5. ASSUME NEW t \in Caller, MissCache(t) PROVE Marked'
    BY <2>5 DEF MissCache, Goto
  <2>6. ASSUME NEW t \in Caller, LockToBuild(t) PROVE Marked'
    BY <2>6 DEF LockToBuild, Goto, Acquire, Free
  <2>7. ASSUME NEW t \in Caller, SlowPath(t) PROVE Marked'
    BY <2>7 DEF SlowPath, Goto, Release, AlreadyBuilt
  <2>8. ASSUME NEW t \in Caller, BeginBuild(t) PROVE Marked'
    BY <2>8 DEF BeginBuild, Goto, AlreadyBuilt
  <2>9. ASSUME NEW t \in Caller, ReadSetting(t) PROVE Marked'
    BY <2>9 DEF ReadSetting, Goto
  <2>10. ASSUME NEW t \in Caller, Publish(t) PROVE Marked'
    BY <2>10 DEF Publish, Goto, Release
  <2>11. ASSUME NEW t \in Caller, BuildRaises(t) PROVE Marked'
    BY <2>11 DEF BuildRaises, Goto, AfterError
  <2>12. ASSUME NEW t \in Caller, UseHandle(t) PROVE Marked'
    BY <2>12 DEF UseHandle, Goto
  <2>13. ASSUME NEW t \in Caller, Reject(t) PROVE Marked'
    BY <2>13 DEF Reject, Goto
  <2>14. ASSUME NEW t \in Caller, Accept(t) PROVE Marked'
    BY <2>14 DEF Accept, Goto
  <2>15. ASSUME NEW t \in Caller, WriteSetting(t) PROVE Marked'
    BY <2>15 DEF WriteSetting, Goto
  <2>16. ASSUME NEW t \in Caller, EndWriting(t) PROVE Marked'
    BY <2>16 DEF EndWriting, Goto, MustReset
  <2>17. ASSUME NEW t \in Caller, LockToReset(t) PROVE Marked'
    BY <2>17 DEF LockToReset, Goto, Acquire, Free
  <2>18. ASSUME NEW t \in Caller, CloseDefault(t) PROVE Marked'
    BY <2>18 DEF CloseDefault, Goto
  <2>19. ASSUME NEW t \in Caller, DropDefault(t) PROVE Marked'
    BY <2>19 DEF DropDefault, Goto, Release, AfterReset
  <2>20. CASE Fork
    BY <2>20 DEF Fork
  <2>21. CASE UNCHANGED vars
    BY <2>21 DEF vars
  <2> QED
    BY <2>1, <2>2, <2>3, <2>4, <2>5, <2>6, <2>7, <2>8, <2>9, <2>10, <2>11, <2>12, <2>13,
       <2>14, <2>15, <2>16, <2>17, <2>18, <2>19, <2>20, <2>21 DEF Next, Call, Step, Rest
<1> QED
  BY <1>1, <1>2, Typing, PTL DEF Spec

(* A call is refused only if a reset overlapped it.                        *)
THEOREM Refusals == Spec => []RefusedOnlyByReset
<1>1. Init => RefusedOnlyByReset
  BY DefaultResolverAssumption DEF Init, Unset, Caller, Process, ProcessOf, None, Id,
     RefusedOnlyByReset, Grounded, Live, Marked, Dropping, Asking
<1>2. RefusedOnlyByReset /\ TypeOK /\ Grounded /\ Live /\ Marked /\ TypeOK' /\ [Next]_vars
        => RefusedOnlyByReset'
  <2> SUFFICES ASSUME RefusedOnlyByReset, TypeOK, Grounded, Live, Marked, TypeOK',
     [Next]_vars PROVE RefusedOnlyByReset'
    OBVIOUS
  <2> USE DefaultResolverAssumption
      DEF TypeOK, Caller, Process, ProcessOf, None, Id, Locked, sharedVars, resolverVars,
         callVars, RefusedOnlyByReset, Grounded, Live, Marked, Dropping, Asking
  <2>1. ASSUME NEW t \in Caller, CallModuleFunction(t) PROVE RefusedOnlyByReset'
    BY <2>1 DEF CallModuleFunction, Goto, Begin
  <2>2. ASSUME NEW t \in Caller, CallConfigure(t) PROVE RefusedOnlyByReset'
    BY <2>2 DEF CallConfigure, Goto, Begin
  <2>3. ASSUME NEW t \in Caller, CallReset(t) PROVE RefusedOnlyByReset'
    BY <2>3 DEF CallReset, Goto, Begin
  <2>4. ASSUME NEW t \in Caller, FastPath(t) PROVE RefusedOnlyByReset'
    BY <2>4 DEF FastPath, Goto
  <2>5. ASSUME NEW t \in Caller, MissCache(t) PROVE RefusedOnlyByReset'
    BY <2>5 DEF MissCache, Goto
  <2>6. ASSUME NEW t \in Caller, LockToBuild(t) PROVE RefusedOnlyByReset'
    BY <2>6 DEF LockToBuild, Goto, Acquire, Free
  <2>7. ASSUME NEW t \in Caller, SlowPath(t) PROVE RefusedOnlyByReset'
    BY <2>7 DEF SlowPath, Goto, Release, AlreadyBuilt
  <2>8. ASSUME NEW t \in Caller, BeginBuild(t) PROVE RefusedOnlyByReset'
    BY <2>8 DEF BeginBuild, Goto, AlreadyBuilt
  <2>9. ASSUME NEW t \in Caller, ReadSetting(t) PROVE RefusedOnlyByReset'
    BY <2>9 DEF ReadSetting, Goto
  <2>10. ASSUME NEW t \in Caller, Publish(t) PROVE RefusedOnlyByReset'
    BY <2>10 DEF Publish, Goto, Release
  <2>11. ASSUME NEW t \in Caller, BuildRaises(t) PROVE RefusedOnlyByReset'
    BY <2>11 DEF BuildRaises, Goto, AfterError
  <2>12. ASSUME NEW t \in Caller, UseHandle(t) PROVE RefusedOnlyByReset'
    BY <2>12 DEF UseHandle, Goto
  <2>13. ASSUME NEW t \in Caller, Reject(t) PROVE RefusedOnlyByReset'
    BY <2>13 DEF Reject, Goto
  <2>14. ASSUME NEW t \in Caller, Accept(t) PROVE RefusedOnlyByReset'
    BY <2>14 DEF Accept, Goto
  <2>15. ASSUME NEW t \in Caller, WriteSetting(t) PROVE RefusedOnlyByReset'
    BY <2>15 DEF WriteSetting, Goto
  <2>16. ASSUME NEW t \in Caller, EndWriting(t) PROVE RefusedOnlyByReset'
    BY <2>16 DEF EndWriting, Goto, MustReset
  <2>17. ASSUME NEW t \in Caller, LockToReset(t) PROVE RefusedOnlyByReset'
    BY <2>17 DEF LockToReset, Goto, Acquire, Free
  <2>18. ASSUME NEW t \in Caller, CloseDefault(t) PROVE RefusedOnlyByReset'
    BY <2>18 DEF CloseDefault, Goto
  <2>19. ASSUME NEW t \in Caller, DropDefault(t) PROVE RefusedOnlyByReset'
    BY <2>19 DEF DropDefault, Goto, Release, AfterReset
  <2>20. CASE Fork
    BY <2>20 DEF Fork
  <2>21. CASE UNCHANGED vars
    BY <2>21 DEF vars
  <2> QED
    BY <2>1, <2>2, <2>3, <2>4, <2>5, <2>6, <2>7, <2>8, <2>9, <2>10, <2>11, <2>12, <2>13,
       <2>14, <2>15, <2>16, <2>17, <2>18, <2>19, <2>20, <2>21 DEF Next, Call, Step, Rest
<1> QED
  BY <1>1, <1>2, Typing, Grounding, Living, Marking, PTL DEF Spec

(* Two resolvers are never open for one process, and none that is cached   *)
(* while the lock is free is closed.                                       *)
THEOREM OneDefault == Spec => []OneOpenDefault
<1>1. TypeOK /\ Live => OneOpenDefault
  BY DefaultResolverAssumption
  DEF TypeOK, Live, OneOpenDefault, Dropping, Locked, Caller, Process, ProcessOf, None, Id
<1> QED
  BY <1>1, Typing, Living, PTL
=============================================================================
