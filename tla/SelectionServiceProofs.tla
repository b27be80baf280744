----------------------- MODULE SelectionServiceProofs -----------------------
(***************************************************************************)
(* Theorems about SelectionService for any number of RPCs, managers,       *)
(* authenticators, selections and operations.                              *)
(***************************************************************************)
EXTENDS SelectionService, TLAPS

\* Every step keeps the types, and a selection that is in use or captured by an
\* operation keeps its authenticator.
THEOREM ServiceType == Spec => []TypeOK
<1>1. ASSUME Init PROVE TypeOK
  <2>1. posts \in 0..MaxPosts
    BY <1>1, BoundAssumption DEF Init
  <2>2. pc \in [Process -> PC] /\ manager \in [Process -> Manager \cup {None}]
    BY <1>1 DEF Init, PC, CallerPC
  <2>3. /\ selClient \in [Selection -> Client \cup {None}]
        /\ clientState \in [Client -> {"fresh", "open", "closed"}]
        /\ mgr \in [Manager -> {"unopened", "open", "closed"}]
        /\ pending \in [Manager -> SUBSET (Client \cup {None})]
    BY <1>1 DEF Init
  <2>. QED  BY <1>1, <2>1, <2>2, <2>3 DEF Init, TypeOK
<1>2. TypeOK /\ [Next]_vars => TypeOK'
  <2> SUFFICES ASSUME TypeOK, [Next]_vars PROVE TypeOK'
    OBVIOUS
  <2> USE ProcessAssumption, NoneAssumption, BoundAssumption
      DEF TypeOK, Process, Client, PC, CallerPC, ApplyPC, TeardownPC, Registered, Goto,
          EndCall, MayLock, LeaveOpen, serviceVars, localVars, opVars, kitVars
  <2>1. ASSUME NEW m \in Manager, PostUpdate(m) PROVE TypeOK'
    <3>1. PICK u \in Selectable(m) :
            /\ pending' = [pending EXCEPT ![m] = {u}]
            /\ LeaveOpen(m, {u} \ {None})
      BY <2>1 DEF PostUpdate
    <3>2. u \in Client \cup {None}
      BY DEF Selectable
    <3>3. posts' \in 0..MaxPosts
      BY <2>1 DEF PostUpdate
    <3>4. clientState' \in [Client -> {"fresh", "open", "closed"}]
      BY <3>1
    <3>5. pending' \in [Manager -> SUBSET (Client \cup {None})]
      BY <3>1, <3>2
    <3>. QED  BY <2>1, <3>3, <3>4, <3>5 DEF PostUpdate
  <2>2. ASSUME NEW m \in Manager, ManagerStops(m) PROVE TypeOK'
    BY <2>2 DEF ManagerStops
  <2>3. ASSUME NEW c \in Client, ClientLost(c) PROVE TypeOK'
    BY <2>3 DEF ClientLost
  <2>4. ASSUME NEW p \in Caller, Discover(p) PROVE TypeOK'
    BY <2>4 DEF Discover
  <2>5. ASSUME NEW p \in Caller, SetSelection(p) PROVE TypeOK'
    BY <2>5 DEF SetSelection
  <2>6. ASSUME NEW p \in Caller, ReconnectSelection(p) PROVE TypeOK'
    BY <2>6 DEF ReconnectSelection
  <2>7. ASSUME NEW p \in Caller, LockCancelled(p) PROVE TypeOK'
    BY <2>7 DEF LockCancelled
  <2>8. ASSUME NEW p \in Caller, LockRefused(p) PROVE TypeOK'
    BY <2>8 DEF LockRefused
  <2>9. ASSUME NEW p \in Caller, EnsureRepublishes(p) PROVE TypeOK'
    BY <2>9 DEF EnsureRepublishes
  <2>10. ASSUME NEW p \in Caller, EnsureLocks(p) PROVE TypeOK'
    BY <2>10 DEF EnsureLocks
  <2>11. ASSUME NEW p \in Caller, OpenFails(p) PROVE TypeOK'
    <3>1. mgr' \in [Manager -> {"unopened", "open", "closed"}]
      BY <2>11 DEF OpenFails
    <3>2. pc' \in [Process -> PC]
      BY <2>11 DEF OpenFails
    <3>. QED  BY <2>11, <3>1, <3>2 DEF OpenFails
  <2>12. ASSUME NEW p \in Caller, OpenSucceeds(p) PROVE TypeOK'
    <3>0. PICK m \in Manager : \E u \in Selectable(m) :
            /\ mgr' = [mgr EXCEPT ![m] = "open"]
            /\ LeaveOpen(m, {u} \ {None})
            /\ manager' = [manager EXCEPT ![p] = m]
            /\ update' = [update EXCEPT ![p] = u]
      BY <2>12 DEF OpenSucceeds, NewManager
    <3>1. PICK u \in Selectable(m) :
            /\ mgr' = [mgr EXCEPT ![m] = "open"]
            /\ LeaveOpen(m, {u} \ {None})
            /\ manager' = [manager EXCEPT ![p] = m]
            /\ update' = [update EXCEPT ![p] = u]
      BY <3>0
    <3>2. u \in Client \cup {None}
      BY DEF Selectable
    <3>3. clientState' \in [Client -> {"fresh", "open", "closed"}]
      BY <3>1
    <3>4. /\ update' \in [Process -> Client \cup {None}]
          /\ manager' \in [Process -> Manager \cup {None}]
          /\ mgr' \in [Manager -> {"unopened", "open", "closed"}]
      BY <3>1, <3>2
    <3>. QED  BY <2>12, <3>3, <3>4 DEF OpenSucceeds, NewManager
  <2>13. ASSUME NEW p \in Caller, InstallManager(p) PROVE TypeOK'
    BY <2>13 DEF InstallManager
  <2>14. ASSUME NEW p \in Caller, InstallRefused(p) PROVE TypeOK'
    BY <2>14 DEF InstallRefused
  <2>15. ASSUME NEW p \in Caller, SelectLocks(p) PROVE TypeOK'
    BY <2>15 DEF SelectLocks
  <2>16. ASSUME NEW p \in Caller, SelectWithoutManager(p) PROVE TypeOK'
    BY <2>16 DEF SelectWithoutManager
  <2>17. ASSUME NEW p \in Caller, SelectReturns(p) PROVE TypeOK'
    BY <2>17 DEF SelectReturns
  <2>18. ASSUME NEW p \in Caller, RestartDetaches(p) PROVE TypeOK'
    BY <2>18 DEF RestartDetaches
  <2>19. ASSUME NEW m \in Manager, ForwarderReceives(m) PROVE TypeOK'
    BY <2>19 DEF ForwarderReceives
  <2>20. ASSUME NEW m \in Manager, ForwarderApplies(m) PROVE TypeOK'
    BY <2>20 DEF ForwarderApplies
  <2>21. ASSUME NEW m \in Manager, ForwarderDrops(m) PROVE TypeOK'
    BY <2>21 DEF ForwarderDrops
  <2>22. ASSUME NEW m \in Manager, ForwarderEnds(m) PROVE TypeOK'
    BY <2>22 DEF ForwarderEnds
  <2>23. ASSUME NEW p \in Process, Reconcile(p) PROVE TypeOK'
    BY <2>23 DEF Reconcile
  <2>24. ASSUME NEW p \in Process, Retire(p) PROVE TypeOK'
    BY <2>24 DEF Retire
  <2>25. ASSUME NEW p \in Process, CancelOperations(p) PROVE TypeOK'
    BY <2>25 DEF CancelOperations
  <2>26. ASSUME NEW p \in Process, AwaitReplaced(p) PROVE TypeOK'
    BY <2>26 DEF AwaitReplaced
  <2>27. ASSUME NEW p \in Process, CreateSelection(p) PROVE TypeOK'
    <3>1. CASE UNCHANGED <<selected, selClient>>
      BY <2>27, <3>1 DEF CreateSelection
    <3>2. CASE ~UNCHANGED <<selected, selClient>>
      <4>1. /\ Unused # {} /\ update[p] # None
            /\ selClient' = [selClient EXCEPT ![FreshSelection] = update[p]]
            /\ selected' = FreshSelection
        BY <2>27, <3>2 DEF CreateSelection
      <4>2. FreshSelection \in Selection
        BY <4>1 DEF FreshSelection, Unused
      <4>3. selClient' \in [Selection -> Client \cup {None}]
        BY <4>1, <4>2
      <4>4. \A s \in Selection : selClient[s] # None => selClient'[s] # None
        BY <4>1, <4>2
      <4>5. selected' \in Selection /\ selClient'[selected'] # None
        BY <4>1, <4>2
      <4>6. \A o \in Op : op'[o] \in {"captured", "running", "closing", "ending"} =>
              opSel'[o] # None /\ selClient'[opSel'[o]] # None
        BY <2>27, <4>4 DEF CreateSelection
      <4>. QED  BY <2>27, <4>3, <4>5, <4>6 DEF CreateSelection
    <3>. QED  BY <3>1, <3>2
  <2>28. ASSUME NEW p \in Process, PublishSnapshot(p) PROVE TypeOK'
    BY <2>28 DEF PublishSnapshot
  <2>29. ASSUME NEW p \in Process, CloseManager(p) PROVE TypeOK'
    BY <2>29 DEF CloseManager
  <2>30. ASSUME NEW p \in Process, AwaitDetached(p) PROVE TypeOK'
    BY <2>30 DEF AwaitDetached
  <2>31. ASSUME NEW p \in Process, Drain(p) PROVE TypeOK'
    BY <2>31 DEF Drain
  <2>32. ASSUME NEW o \in Op, OpCaptures(o) PROVE TypeOK'
    BY <2>32 DEF OpCaptures
  <2>33. ASSUME NEW o \in Op, OpRegisters(o) PROVE TypeOK'
    <3>1. CASE ~closed /\ selected = opSel[o]
      BY <2>33, <3>1 DEF OpRegisters
    <3>2. CASE ~(~closed /\ selected = opSel[o])
      <4>1. /\ op' = [op EXCEPT ![o] = "done"]
            /\ opSel' = [opSel EXCEPT ![o] = None]
            /\ UNCHANGED <<selected, selClient, cancelled, abandoned>>
        BY <2>33, <3>2 DEF OpRegisters
      <4>2. /\ op' \in [Op -> {"idle", "captured", "running", "closing", "ending", "done"}]
            /\ opSel' \in [Op -> Selection \cup {None}]
        BY <4>1
      <4>3. \A x \in Op : op'[x] \in {"captured", "running", "closing", "ending"} =>
              opSel'[x] # None /\ selClient'[opSel'[x]] # None
        BY <4>1
      <4>. QED  BY <2>33, <4>1, <4>2, <4>3 DEF OpRegisters
    <3>. QED  BY <3>1, <3>2
  <2>34. ASSUME NEW o \in Op, OpReturns(o) PROVE TypeOK'
    BY <2>34 DEF OpReturns
  <2>35. ASSUME NEW o \in Op, OpRetires(o) PROVE TypeOK'
    BY <2>35 DEF OpRetires
  <2>36. ASSUME NEW o \in Op, OpUnregisters(o) PROVE TypeOK'
    BY <2>36 DEF OpUnregisters
  <2>37. ASSUME NEW o \in Op, CancelOperation(o) PROVE TypeOK'
    BY <2>37 DEF CancelOperation
  <2>38. CASE BeginShutdown
    BY <2>38 DEF BeginShutdown
  <2>39. CASE ShutdownDetaches
    BY <2>39 DEF ShutdownDetaches
  <2>40. CASE UNCHANGED vars
    BY <2>40 DEF vars, serviceVars, localVars, opVars, kitVars
  <2>. QED
    BY <2>1, <2>2, <2>3, <2>4, <2>5, <2>6, <2>7, <2>8, <2>9, <2>10, <2>11, <2>12, <2>13, <2>14, <2>15, <2>16, <2>17, <2>18, <2>19, <2>20, <2>21, <2>22, <2>23, <2>24, <2>25, <2>26, <2>27, <2>28, <2>29, <2>30, <2>31, <2>32, <2>33, <2>34, <2>35, <2>36, <2>37, <2>38, <2>39, <2>40
    DEF Next, CallerStep, ForwarderStep, ApplyStep, TeardownStep, OpStep, KitStep
<1>. QED  BY <1>1, <1>2, PTL DEF Spec

-----------------------------------------------------------------------------
(* The selected authenticator belongs to the manager in use.               *)

\* The gate is exclusive, updates belong to the manager they came from, and what
\* is applied under the gate comes from the manager in use (selection.go).
THEOREM SelectionInvariant == Spec => []SelectionInv
<1>1. ASSUME Init PROVE SelectionInv
  BY <1>1, NoneAssumption
  DEF Init, SelectionInv, GateExclusive, OwnManager, UpdatesFromManager, ApplyToDevices,
      SelectionFromCurrentManager, Process, Gated, ApplyPC, TeardownPC
<1>2. TypeOK /\ SelectionInv /\ [Next]_vars => SelectionInv'
  <2> SUFFICES ASSUME TypeOK, SelectionInv, [Next]_vars PROVE SelectionInv'
    OBVIOUS
  <2> USE ProcessAssumption, NoneAssumption
      DEF TypeOK, Process, Client, Owner, PC, CallerPC, ApplyPC, TeardownPC, Gated, Goto, EndCall,
          MayLock, SelectionInv, GateExclusive, OwnManager, UpdatesFromManager,
          ApplyToDevices, SelectionFromCurrentManager,
          serviceVars, localVars, opVars, kitVars
  <2>1. ASSUME NEW m \in Manager, PostUpdate(m) PROVE SelectionInv'
    <3>1. PICK u \in Selectable(m) : pending' = [pending EXCEPT ![m] = {u}]
      BY <2>1 DEF PostUpdate
    <3>2. u # None => u[1] = m
      BY DEF Selectable
    <3>3. \A n \in Manager : \A x \in pending'[n] \ {None} : x[1] = n
      BY <3>1, <3>2
    <3>. QED  BY <2>1, <3>3 DEF PostUpdate
  <2>2. ASSUME NEW m \in Manager, ManagerStops(m) PROVE SelectionInv'
    BY <2>2 DEF ManagerStops
  <2>3. ASSUME NEW c \in Client, ClientLost(c) PROVE SelectionInv'
    BY <2>3 DEF ClientLost
  <2>4. ASSUME NEW p \in Caller, Discover(p) PROVE SelectionInv'
    BY <2>4 DEF Discover
  <2>5. ASSUME NEW p \in Caller, SetSelection(p) PROVE SelectionInv'
    BY <2>5 DEF SetSelection
  <2>6. ASSUME NEW p \in Caller, ReconnectSelection(p) PROVE SelectionInv'
    BY <2>6 DEF ReconnectSelection
  <2>7. ASSUME NEW p \in Caller, LockCancelled(p) PROVE SelectionInv'
    BY <2>7 DEF LockCancelled
  <2>8. ASSUME NEW p \in Caller, LockRefused(p) PROVE SelectionInv'
    BY <2>8 DEF LockRefused
  <2>9. ASSUME NEW p \in Caller, EnsureRepublishes(p) PROVE SelectionInv'
    BY <2>9 DEF EnsureRepublishes
  <2>10. ASSUME NEW p \in Caller, EnsureLocks(p) PROVE SelectionInv'
    BY <2>10 DEF EnsureLocks
  <2>11. ASSUME NEW p \in Caller, OpenFails(p) PROVE SelectionInv'
    BY <2>11 DEF OpenFails, NewManager
  <2>12. ASSUME NEW p \in Caller, OpenSucceeds(p) PROVE SelectionInv'
    <3>0. PICK m \in Manager : \E u \in Selectable(m) :
            /\ manager' = [manager EXCEPT ![p] = m]
            /\ update' = [update EXCEPT ![p] = u]
      BY <2>12 DEF OpenSucceeds, NewManager
    <3>1. PICK u \in Selectable(m) :
            /\ manager' = [manager EXCEPT ![p] = m]
            /\ update' = [update EXCEPT ![p] = u]
      BY <3>0
    <3>2. u # None => u[1] = m
      BY DEF Selectable
    <3>3. m # None
      OBVIOUS
    <3>4. pc[p] = "open" /\ pc' = [pc EXCEPT ![p] = "install"]
          /\ UNCHANGED <<gate, devices, selected, selClient, pending>>
      BY <2>12 DEF OpenSucceeds, NewManager
    <3>5. \A q \in Process \ {p} : pc[q] \notin Gated
      BY <3>4
    <3>6. /\ GateExclusive' /\ OwnManager' /\ ApplyToDevices' /\ SelectionFromCurrentManager'
      BY <3>1, <3>3, <3>4, <3>5
    <3>7. UpdatesFromManager'
      BY <3>1, <3>2, <3>4, <3>5
    <3>. QED  BY <3>6, <3>7
  <2>13. ASSUME NEW p \in Caller, InstallManager(p) PROVE SelectionInv'
    BY <2>13 DEF InstallManager
  <2>14. ASSUME NEW p \in Caller, InstallRefused(p) PROVE SelectionInv'
    BY <2>14 DEF InstallRefused
  <2>15. ASSUME NEW p \in Caller, SelectLocks(p) PROVE SelectionInv'
    BY <2>15 DEF SelectLocks
  <2>16. ASSUME NEW p \in Caller, SelectWithoutManager(p) PROVE SelectionInv'
    BY <2>16 DEF SelectWithoutManager
  <2>17. ASSUME NEW p \in Caller, SelectReturns(p) PROVE SelectionInv'
    BY <2>17 DEF SelectReturns
  <2>18. ASSUME NEW p \in Caller, RestartDetaches(p) PROVE SelectionInv'
    BY <2>18 DEF RestartDetaches
  <2>19. ASSUME NEW m \in Manager, ForwarderReceives(m) PROVE SelectionInv'
    BY <2>19 DEF ForwarderReceives
  <2>20. ASSUME NEW m \in Manager, ForwarderApplies(m) PROVE SelectionInv'
    BY <2>20 DEF ForwarderApplies
  <2>21. ASSUME NEW m \in Manager, ForwarderDrops(m) PROVE SelectionInv'
    BY <2>21 DEF ForwarderDrops
  <2>22. ASSUME NEW m \in Manager, ForwarderEnds(m) PROVE SelectionInv'
    BY <2>22 DEF ForwarderEnds
  <2>23. ASSUME NEW p \in Process, Reconcile(p) PROVE SelectionInv'
    BY <2>23 DEF Reconcile
  <2>24. ASSUME NEW p \in Process, Retire(p) PROVE SelectionInv'
    BY <2>24 DEF Retire
  <2>25. ASSUME NEW p \in Process, CancelOperations(p) PROVE SelectionInv'
    BY <2>25 DEF CancelOperations
  <2>26. ASSUME NEW p \in Process, AwaitReplaced(p) PROVE SelectionInv'
    BY <2>26 DEF AwaitReplaced
  <2>27. ASSUME NEW p \in Process, CreateSelection(p) PROVE SelectionInv'
    <3>1. CASE UNCHANGED <<selected, selClient>>
      BY <2>27, <3>1 DEF CreateSelection
    <3>2. CASE ~UNCHANGED <<selected, selClient>>
      <4>1. /\ Unused # {} /\ update[p] # None /\ pc[p] = "create"
            /\ selClient' = [selClient EXCEPT ![FreshSelection] = update[p]]
            /\ selected' = FreshSelection
        BY <2>27, <3>2 DEF CreateSelection
      <4>2. FreshSelection \in Selection
        BY <4>1 DEF FreshSelection, Unused
      <4>3. selClient'[selected'] = update[p]
        BY <4>1, <4>2
      <4>4. update[p] \in Client /\ devices = update[p][1]
        BY <4>1
      <4>5. SelectionFromCurrentManager'
        BY <2>27, <4>3, <4>4 DEF CreateSelection
      <4>. QED  BY <2>27, <4>5 DEF CreateSelection
    <3>. QED  BY <3>1, <3>2
  <2>28. ASSUME NEW p \in Process, PublishSnapshot(p) PROVE SelectionInv'
    BY <2>28 DEF PublishSnapshot
  <2>29. ASSUME NEW p \in Process, CloseManager(p) PROVE SelectionInv'
    BY <2>29 DEF CloseManager
  <2>30. ASSUME NEW p \in Process, AwaitDetached(p) PROVE SelectionInv'
    BY <2>30 DEF AwaitDetached
  <2>31. ASSUME NEW p \in Process, Drain(p) PROVE SelectionInv'
    BY <2>31 DEF Drain
  <2>32. ASSUME NEW o \in Op, OpCaptures(o) PROVE SelectionInv'
    BY <2>32 DEF OpCaptures
  <2>33. ASSUME NEW o \in Op, OpRegisters(o) PROVE SelectionInv'
    BY <2>33 DEF OpRegisters
  <2>34. ASSUME NEW o \in Op, OpReturns(o) PROVE SelectionInv'
    BY <2>34 DEF OpReturns
  <2>35. ASSUME NEW o \in Op, OpRetires(o) PROVE SelectionInv'
    BY <2>35 DEF OpRetires
  <2>36. ASSUME NEW o \in Op, OpUnregisters(o) PROVE SelectionInv'
    BY <2>36 DEF OpUnregisters
  <2>37. ASSUME NEW o \in Op, CancelOperation(o) PROVE SelectionInv'
    BY <2>37 DEF CancelOperation
  <2>38. CASE BeginShutdown
    BY <2>38 DEF BeginShutdown
  <2>39. CASE ShutdownDetaches
    BY <2>39 DEF ShutdownDetaches
  <2>40. CASE UNCHANGED vars
    BY <2>40 DEF vars, serviceVars, localVars, opVars, kitVars
  <2>. QED
    BY <2>1, <2>2, <2>3, <2>4, <2>5, <2>6, <2>7, <2>8, <2>9, <2>10, <2>11, <2>12, <2>13, <2>14, <2>15, <2>16, <2>17, <2>18, <2>19, <2>20, <2>21, <2>22, <2>23, <2>24, <2>25, <2>26, <2>27, <2>28, <2>29, <2>30, <2>31, <2>32, <2>33, <2>34, <2>35, <2>36, <2>37, <2>38, <2>39, <2>40
    DEF Next, CallerStep, ForwarderStep, ApplyStep, TeardownStep, OpStep, KitStep
<1>. QED  BY <1>1, <1>2, ServiceType, PTL DEF Spec

\* Whatever the number of goroutines and managers, no update of a replaced
\* manager ever selects one of its authenticators.
THEOREM SelectionBelongsToManager == Spec => []SelectionFromCurrentManager
BY SelectionInvariant, PTL DEF SelectionInv

-----------------------------------------------------------------------------
(* No running operation is forgotten when its selection ends.              *)

\* Inductive: nothing is selected while operations are being ended, shutdown takes
\* part only once the service is closed, and no operation is forgotten.
OperationInv == RetireInv /\ ShutdownInv /\ NoForgottenOperation

\* Every running operation is current, given up by a sibling, or being waited for.
LEMMA OperationInvariant == Spec => []OperationInv
<1>1. ASSUME Init PROVE OperationInv
  BY <1>1, ProcessAssumption
  DEF Init, OperationInv, RetireInv, ShutdownInv, NoForgottenOperation, Process, Registered, TeardownPC
<1>2. TypeOK /\ SelectionInv /\ OperationInv /\ [Next]_vars => OperationInv'
  <2> SUFFICES ASSUME TypeOK, SelectionInv, OperationInv, [Next]_vars PROVE OperationInv'
    OBVIOUS
  <2> USE ProcessAssumption, NoneAssumption
      DEF TypeOK, Process, PC, CallerPC, ApplyPC, TeardownPC, Gated, Goto, EndCall, MayLock,
          SelectionInv, GateExclusive, ApplyToDevices, OwnManager,
          OperationInv, RetireInv, ShutdownInv, NoForgottenOperation, Registered,
          serviceVars, localVars, opVars, kitVars
  <2>1. ASSUME NEW m \in Manager, PostUpdate(m) PROVE OperationInv'
    BY <2>1 DEF PostUpdate
  <2>2. ASSUME NEW m \in Manager, ManagerStops(m) PROVE OperationInv'
    BY <2>2 DEF ManagerStops
  <2>3. ASSUME NEW c \in Client, ClientLost(c) PROVE OperationInv'
    BY <2>3 DEF ClientLost
  <2>4. ASSUME NEW p \in Caller, Discover(p) PROVE OperationInv'
    BY <2>4 DEF Discover
  <2>5. ASSUME NEW p \in Caller, SetSelection(p) PROVE OperationInv'
    BY <2>5 DEF SetSelection
  <2>6. ASSUME NEW p \in Caller, ReconnectSelection(p) PROVE OperationInv'
    BY <2>6 DEF ReconnectSelection
  <2>7. ASSUME NEW p \in Caller, LockCancelled(p) PROVE OperationInv'
    BY <2>7 DEF LockCancelled
  <2>8. ASSUME NEW p \in Caller, LockRefused(p) PROVE OperationInv'
    BY <2>8 DEF LockRefused
  <2>9. ASSUME NEW p \in Caller, EnsureRepublishes(p) PROVE OperationInv'
    BY <2>9 DEF EnsureRepublishes
  <2>10. ASSUME NEW p \in Caller, EnsureLocks(p) PROVE OperationInv'
    BY <2>10 DEF EnsureLocks
  <2>11. ASSUME NEW p \in Caller, OpenFails(p) PROVE OperationInv'
    BY <2>11 DEF OpenFails, NewManager
  <2>12. ASSUME NEW p \in Caller, OpenSucceeds(p) PROVE OperationInv'
    BY <2>12 DEF OpenSucceeds, NewManager
  <2>13. ASSUME NEW p \in Caller, InstallManager(p) PROVE OperationInv'
    BY <2>13 DEF InstallManager
  <2>14. ASSUME NEW p \in Caller, InstallRefused(p) PROVE OperationInv'
    BY <2>14 DEF InstallRefused
  <2>15. ASSUME NEW p \in Caller, SelectLocks(p) PROVE OperationInv'
    BY <2>15 DEF SelectLocks
  <2>16. ASSUME NEW p \in Caller, SelectWithoutManager(p) PROVE OperationInv'
    BY <2>16 DEF SelectWithoutManager
  <2>17. ASSUME NEW p \in Caller, SelectReturns(p) PROVE OperationInv'
    BY <2>17 DEF SelectReturns
  <2>18. ASSUME NEW p \in Caller, RestartDetaches(p) PROVE OperationInv'
    BY <2>18 DEF RestartDetaches
  <2>19. ASSUME NEW m \in Manager, ForwarderReceives(m) PROVE OperationInv'
    BY <2>19 DEF ForwarderReceives
  <2>20. ASSUME NEW m \in Manager, ForwarderApplies(m) PROVE OperationInv'
    BY <2>20 DEF ForwarderApplies
  <2>21. ASSUME NEW m \in Manager, ForwarderDrops(m) PROVE OperationInv'
    BY <2>21 DEF ForwarderDrops
  <2>22. ASSUME NEW m \in Manager, ForwarderEnds(m) PROVE OperationInv'
    BY <2>22 DEF ForwarderEnds
  <2>23. ASSUME NEW p \in Process, Reconcile(p) PROVE OperationInv'
    BY <2>23 DEF Reconcile
  <2>24. ASSUME NEW p \in Process, Retire(p) PROVE OperationInv'
    BY <2>24 DEF Retire
  <2>25. ASSUME NEW p \in Process, CancelOperations(p) PROVE OperationInv'
    BY <2>25 DEF CancelOperations
  <2>26. ASSUME NEW p \in Process, AwaitReplaced(p) PROVE OperationInv'
    BY <2>26 DEF AwaitReplaced
  <2>27. ASSUME NEW p \in Process, CreateSelection(p) PROVE OperationInv'
    BY <2>27 DEF CreateSelection
  <2>28. ASSUME NEW p \in Process, PublishSnapshot(p) PROVE OperationInv'
    BY <2>28 DEF PublishSnapshot
  <2>29. ASSUME NEW p \in Process, CloseManager(p) PROVE OperationInv'
    BY <2>29 DEF CloseManager
  <2>30. ASSUME NEW p \in Process, AwaitDetached(p) PROVE OperationInv'
    BY <2>30 DEF AwaitDetached
  <2>31. ASSUME NEW p \in Process, Drain(p) PROVE OperationInv'
    BY <2>31 DEF Drain
  <2>32. ASSUME NEW o \in Op, OpCaptures(o) PROVE OperationInv'
    BY <2>32 DEF OpCaptures
  <2>33. ASSUME NEW o \in Op, OpRegisters(o) PROVE OperationInv'
    BY <2>33 DEF OpRegisters
  <2>34. ASSUME NEW o \in Op, OpReturns(o) PROVE OperationInv'
    BY <2>34 DEF OpReturns
  <2>35. ASSUME NEW o \in Op, OpRetires(o) PROVE OperationInv'
    BY <2>35 DEF OpRetires
  <2>36. ASSUME NEW o \in Op, OpUnregisters(o) PROVE OperationInv'
    BY <2>36 DEF OpUnregisters
  <2>37. ASSUME NEW o \in Op, CancelOperation(o) PROVE OperationInv'
    BY <2>37 DEF CancelOperation
  <2>38. CASE BeginShutdown
    BY <2>38 DEF BeginShutdown
  <2>39. CASE ShutdownDetaches
    BY <2>39 DEF ShutdownDetaches
  <2>40. CASE UNCHANGED vars
    BY <2>40 DEF vars, serviceVars, localVars, opVars, kitVars
  <2>. QED
    BY <2>1, <2>2, <2>3, <2>4, <2>5, <2>6, <2>7, <2>8, <2>9, <2>10, <2>11, <2>12, <2>13, <2>14, <2>15, <2>16, <2>17, <2>18, <2>19, <2>20, <2>21, <2>22, <2>23, <2>24, <2>25, <2>26, <2>27, <2>28, <2>29, <2>30, <2>31, <2>32, <2>33, <2>34, <2>35, <2>36, <2>37, <2>38, <2>39, <2>40
    DEF Next, CallerStep, ForwarderStep, ApplyStep, TeardownStep, OpStep, KitStep
<1>. QED  BY <1>1, <1>2, ServiceType, SelectionInvariant, PTL DEF Spec

\* A reconcile, a restart or a shutdown cancels and waits for every operation of
\* the selection it ends, however their steps interleave with registrations.
THEOREM NoOperationForgotten == Spec => []NoForgottenOperation
BY OperationInvariant, PTL DEF OperationInv

-----------------------------------------------------------------------------
(* The service implements SelectionLifecycle.                              *)

\* A session is replaced only when its operations are over, for any number of
\* goroutines: every step of the service is a life cycle step or a stutter.
THEOREM LifecycleImplemented == Spec => ImplementsLifecycle
<1>1. ASSUME Init PROVE Lifecycle!Init
  BY <1>1, ProcessAssumption DEF Init, Lifecycle!Init, Registered, Process, TeardownPC
<1>2. TypeOK /\ SelectionInv /\ OperationInv /\ [Next]_vars => [Lifecycle!Next]_(Lifecycle!vars)
  <2> SUFFICES ASSUME TypeOK, SelectionInv, OperationInv, [Next]_vars
               PROVE  [Lifecycle!Next]_(Lifecycle!vars)
    OBVIOUS
  <2> USE ProcessAssumption, NoneAssumption
      DEF TypeOK, Process, PC, CallerPC, ApplyPC, TeardownPC, Gated, Goto, EndCall, MayLock,
          SelectionInv, GateExclusive, OwnManager, ApplyToDevices,
          OperationInv, RetireInv, ShutdownInv, NoForgottenOperation, Registered,
          serviceVars, localVars, opVars, kitVars, Lifecycle!vars
  <2>1. ASSUME NEW m \in Manager, PostUpdate(m) PROVE [Lifecycle!Next]_(Lifecycle!vars)
    BY <2>1 DEF PostUpdate
  <2>2. ASSUME NEW m \in Manager, ManagerStops(m) PROVE [Lifecycle!Next]_(Lifecycle!vars)
    BY <2>2 DEF ManagerStops
  <2>3. ASSUME NEW c \in Client, ClientLost(c) PROVE [Lifecycle!Next]_(Lifecycle!vars)
    BY <2>3 DEF ClientLost
  <2>4. ASSUME NEW p \in Caller, Discover(p) PROVE [Lifecycle!Next]_(Lifecycle!vars)
    BY <2>4 DEF Discover
  <2>5. ASSUME NEW p \in Caller, SetSelection(p) PROVE [Lifecycle!Next]_(Lifecycle!vars)
    BY <2>5 DEF SetSelection
  <2>6. ASSUME NEW p \in Caller, ReconnectSelection(p) PROVE [Lifecycle!Next]_(Lifecycle!vars)
    BY <2>6 DEF ReconnectSelection
  <2>7. ASSUME NEW p \in Caller, LockCancelled(p) PROVE [Lifecycle!Next]_(Lifecycle!vars)
    BY <2>7 DEF LockCancelled
  <2>8. ASSUME NEW p \in Caller, LockRefused(p) PROVE [Lifecycle!Next]_(Lifecycle!vars)
    BY <2>8 DEF LockRefused
  <2>9. ASSUME NEW p \in Caller, EnsureRepublishes(p) PROVE [Lifecycle!Next]_(Lifecycle!vars)
    BY <2>9 DEF EnsureRepublishes
  <2>10. ASSUME NEW p \in Caller, EnsureLocks(p) PROVE [Lifecycle!Next]_(Lifecycle!vars)
    BY <2>10 DEF EnsureLocks
  <2>11. ASSUME NEW p \in Caller, OpenFails(p) PROVE [Lifecycle!Next]_(Lifecycle!vars)
    BY <2>11 DEF OpenFails, NewManager
  <2>12. ASSUME NEW p \in Caller, OpenSucceeds(p) PROVE [Lifecycle!Next]_(Lifecycle!vars)
    BY <2>12 DEF OpenSucceeds, NewManager
  <2>13. ASSUME NEW p \in Caller, InstallManager(p) PROVE [Lifecycle!Next]_(Lifecycle!vars)
    BY <2>13 DEF InstallManager
  <2>14. ASSUME NEW p \in Caller, InstallRefused(p) PROVE [Lifecycle!Next]_(Lifecycle!vars)
    BY <2>14 DEF InstallRefused
  <2>15. ASSUME NEW p \in Caller, SelectLocks(p) PROVE [Lifecycle!Next]_(Lifecycle!vars)
    BY <2>15 DEF SelectLocks
  <2>16. ASSUME NEW p \in Caller, SelectWithoutManager(p) PROVE [Lifecycle!Next]_(Lifecycle!vars)
    BY <2>16 DEF SelectWithoutManager
  <2>17. ASSUME NEW p \in Caller, SelectReturns(p) PROVE [Lifecycle!Next]_(Lifecycle!vars)
    BY <2>17 DEF SelectReturns
  <2>18. ASSUME NEW p \in Caller, RestartDetaches(p) PROVE [Lifecycle!Next]_(Lifecycle!vars)
    <3>1. /\ selected' = None /\ UNCHANGED <<selClient, abandoned, op, opSel>>
          /\ (pc'[Shutdown] \in TeardownPC \cup {"drain", "stopped"})
                = (pc[Shutdown] \in TeardownPC \cup {"drain", "stopped"})
      BY <2>18 DEF RestartDetaches
    <3>2. CASE selected = None
      BY <3>1, <3>2
    <3>3. CASE selected # None
      <4>1. {s \in Selection : selClient'[s] # None} \ {selected'}
              = ({s \in Selection : selClient[s] # None} \ {selected}) \cup {selected}
        BY <3>1, <3>3
      <4>2. Lifecycle!Evict
        BY <3>1, <3>3, <4>1 DEF Lifecycle!Evict
      <4>. QED  BY <4>2 DEF Lifecycle!Next
    <3>. QED  BY <3>2, <3>3
  <2>19. ASSUME NEW m \in Manager, ForwarderReceives(m) PROVE [Lifecycle!Next]_(Lifecycle!vars)
    BY <2>19 DEF ForwarderReceives
  <2>20. ASSUME NEW m \in Manager, ForwarderApplies(m) PROVE [Lifecycle!Next]_(Lifecycle!vars)
    BY <2>20 DEF ForwarderApplies
  <2>21. ASSUME NEW m \in Manager, ForwarderDrops(m) PROVE [Lifecycle!Next]_(Lifecycle!vars)
    BY <2>21 DEF ForwarderDrops
  <2>22. ASSUME NEW m \in Manager, ForwarderEnds(m) PROVE [Lifecycle!Next]_(Lifecycle!vars)
    BY <2>22 DEF ForwarderEnds
  <2>23. ASSUME NEW p \in Process, Reconcile(p) PROVE [Lifecycle!Next]_(Lifecycle!vars)
    BY <2>23 DEF Reconcile
  <2>24. ASSUME NEW p \in Process, Retire(p) PROVE [Lifecycle!Next]_(Lifecycle!vars)
    <3>1. /\ selected' = None /\ UNCHANGED <<selClient, abandoned, op, opSel>>
          /\ (pc'[Shutdown] \in TeardownPC \cup {"drain", "stopped"})
                = (pc[Shutdown] \in TeardownPC \cup {"drain", "stopped"})
      BY <2>24 DEF Retire
    <3>2. CASE selected = None
      BY <3>1, <3>2
    <3>3. CASE selected # None
      <4>1. {s \in Selection : selClient'[s] # None} \ {selected'}
              = ({s \in Selection : selClient[s] # None} \ {selected}) \cup {selected}
        BY <3>1, <3>3
      <4>2. Lifecycle!Evict
        BY <3>1, <3>3, <4>1 DEF Lifecycle!Evict
      <4>. QED  BY <4>2 DEF Lifecycle!Next
    <3>. QED  BY <3>2, <3>3
  <2>25. ASSUME NEW p \in Process, CancelOperations(p) PROVE [Lifecycle!Next]_(Lifecycle!vars)
    BY <2>25 DEF CancelOperations
  <2>26. ASSUME NEW p \in Process, AwaitReplaced(p) PROVE [Lifecycle!Next]_(Lifecycle!vars)
    BY <2>26 DEF AwaitReplaced
  <2>27. ASSUME NEW p \in Process, CreateSelection(p) PROVE [Lifecycle!Next]_(Lifecycle!vars)
    <3>1. /\ pc[p] = "create" /\ UNCHANGED <<closed, abandoned, op, opSel>>
          /\ (pc'[Shutdown] \in TeardownPC \cup {"drain", "stopped"})
                = (pc[Shutdown] \in TeardownPC \cup {"drain", "stopped"})
      BY <2>27 DEF CreateSelection
    <3>2. CASE UNCHANGED <<selected, selClient>>
      BY <3>1, <3>2
    <3>3. CASE ~UNCHANGED <<selected, selClient>>
      <4>1. /\ Unused # {} /\ update[p] # None /\ ~closed
            /\ selClient' = [selClient EXCEPT ![FreshSelection] = update[p]]
            /\ selected' = FreshSelection
        BY <2>27, <3>3 DEF CreateSelection
      <4>2. FreshSelection \in Selection /\ selClient[FreshSelection] = None
        BY <4>1 DEF FreshSelection, Unused
      <4>3. selected = None
        BY <3>1
      <4>4. {s \in Selection : selClient'[s] # None} \ {selected'}
              = {s \in Selection : selClient[s] # None} \ {selected}
        BY <4>1, <4>2, <4>3
      <4>5. \A o \in Op : op[o] \in {"running", "closing", "ending"} => opSel[o] \in abandoned
        BY <3>1, <4>3
      <4>6. Lifecycle!Activate(FreshSelection)
        BY <3>1, <4>1, <4>2, <4>3, <4>4, <4>5 DEF Lifecycle!Activate
      <4>. QED  BY <4>2, <4>6 DEF Lifecycle!Next
    <3>. QED  BY <3>2, <3>3
  <2>28. ASSUME NEW p \in Process, PublishSnapshot(p) PROVE [Lifecycle!Next]_(Lifecycle!vars)
    BY <2>28 DEF PublishSnapshot
  <2>29. ASSUME NEW p \in Process, CloseManager(p) PROVE [Lifecycle!Next]_(Lifecycle!vars)
    BY <2>29 DEF CloseManager
  <2>30. ASSUME NEW p \in Process, AwaitDetached(p) PROVE [Lifecycle!Next]_(Lifecycle!vars)
    BY <2>30 DEF AwaitDetached
  <2>31. ASSUME NEW p \in Process, Drain(p) PROVE [Lifecycle!Next]_(Lifecycle!vars)
    BY <2>31 DEF Drain
  <2>32. ASSUME NEW o \in Op, OpCaptures(o) PROVE [Lifecycle!Next]_(Lifecycle!vars)
    BY <2>32 DEF OpCaptures
  <2>33. ASSUME NEW o \in Op, OpRegisters(o) PROVE [Lifecycle!Next]_(Lifecycle!vars)
    <3>1. /\ op[o] = "captured"
          /\ UNCHANGED <<selected, selClient, abandoned, pc>>
      BY <2>33 DEF OpRegisters
    <3>2. CASE ~closed /\ selected = opSel[o]
      <4>1. op' = [op EXCEPT ![o] = "running"] /\ UNCHANGED opSel
        BY <2>33, <3>2 DEF OpRegisters
      <4>2. [x \in Op |-> IF x \in Registered' THEN opSel'[x] ELSE None]
              = [[x \in Op |-> IF x \in Registered THEN opSel[x] ELSE None]
                   EXCEPT ![o] = selected]
        BY <3>1, <3>2, <4>1
      <4>3. Lifecycle!Start(o)
        BY <3>1, <3>2, <4>1, <4>2 DEF Lifecycle!Start
      <4>. QED  BY <4>3 DEF Lifecycle!Next
    <3>3. CASE ~(~closed /\ selected = opSel[o])
      <4>1. op' = [op EXCEPT ![o] = "done"] /\ opSel' = [opSel EXCEPT ![o] = None]
        BY <2>33, <3>3 DEF OpRegisters
      <4>2. [x \in Op |-> IF x \in Registered' THEN opSel'[x] ELSE None]
              = [x \in Op |-> IF x \in Registered THEN opSel[x] ELSE None]
        BY <3>1, <4>1
      <4>. QED  BY <3>1, <4>2
    <3>. QED  BY <3>2, <3>3
  <2>34. ASSUME NEW o \in Op, OpReturns(o) PROVE [Lifecycle!Next]_(Lifecycle!vars)
    BY <2>34 DEF OpReturns
  <2>35. ASSUME NEW o \in Op, OpRetires(o) PROVE [Lifecycle!Next]_(Lifecycle!vars)
    <3>1. /\ op[o] = "closing" /\ op' = [op EXCEPT ![o] = "ending"]
          /\ UNCHANGED <<selClient, opSel, pc>>
      BY <2>35 DEF OpRetires
    <3>2. [x \in Op |-> IF x \in Registered' THEN opSel'[x] ELSE None]
            = [x \in Op |-> IF x \in Registered THEN opSel[x] ELSE None]
      BY <3>1
    <3>3. CASE selected = opSel[o]
      <4>1. selected # None /\ selClient[selected] # None
        BY <3>1, <3>3
      <4>2. selected' = None /\ abandoned' = abandoned \cup {selected}
        BY <2>35, <3>3 DEF OpRetires
      <4>3. {s \in Selection : selClient'[s] # None} \ {selected'}
              = ({s \in Selection : selClient[s] # None} \ {selected}) \cup {selected}
        BY <3>1, <4>1, <4>2
      <4>4. Lifecycle!GiveUp(o)
        BY <3>1, <3>2, <3>3, <4>1, <4>2, <4>3 DEF Lifecycle!GiveUp
      <4>. QED  BY <4>4 DEF Lifecycle!Next
    <3>4. CASE selected # opSel[o]
      BY <2>35, <3>1, <3>2, <3>4 DEF OpRetires
    <3>. QED  BY <3>3, <3>4
  <2>36. ASSUME NEW o \in Op, OpUnregisters(o) PROVE [Lifecycle!Next]_(Lifecycle!vars)
    <3>1. /\ op[o] = "ending" /\ op' = [op EXCEPT ![o] = "done"]
          /\ opSel' = [opSel EXCEPT ![o] = None]
          /\ UNCHANGED <<selected, selClient, abandoned, pc>>
      BY <2>36 DEF OpUnregisters
    <3>2. [x \in Op |-> IF x \in Registered' THEN opSel'[x] ELSE None]
            = [[x \in Op |-> IF x \in Registered THEN opSel[x] ELSE None]
                 EXCEPT ![o] = None]
      BY <3>1
    <3>3. Lifecycle!Finish(o)
      BY <3>1, <3>2 DEF Lifecycle!Finish
    <3>. QED  BY <3>3 DEF Lifecycle!Next
  <2>37. ASSUME NEW o \in Op, CancelOperation(o) PROVE [Lifecycle!Next]_(Lifecycle!vars)
    BY <2>37 DEF CancelOperation
  <2>38. CASE BeginShutdown
    BY <2>38 DEF BeginShutdown
  <2>39. CASE ShutdownDetaches
    <3>1. /\ selected' = None /\ UNCHANGED <<selClient, abandoned, op, opSel>>
          /\ pc[Shutdown] = "takeover" /\ pc'[Shutdown] = "closeManager"
      BY <2>39 DEF ShutdownDetaches
    <3>2. {s \in Selection : selClient'[s] # None} \ {selected'}
            = ({s \in Selection : selClient[s] # None} \ {selected}) \cup ({selected} \ {None})
      BY <3>1
    <3>3. Lifecycle!Stop
      BY <3>1, <3>2 DEF Lifecycle!Stop
    <3>. QED  BY <3>3 DEF Lifecycle!Next
  <2>40. CASE UNCHANGED vars
    BY <2>40 DEF vars, serviceVars, localVars, opVars, kitVars
  <2>. QED
    BY <2>1, <2>2, <2>3, <2>4, <2>5, <2>6, <2>7, <2>8, <2>9, <2>10, <2>11, <2>12, <2>13, <2>14, <2>15, <2>16, <2>17, <2>18, <2>19, <2>20, <2>21, <2>22, <2>23, <2>24, <2>25, <2>26, <2>27, <2>28, <2>29, <2>30, <2>31, <2>32, <2>33, <2>34, <2>35, <2>36, <2>37, <2>38, <2>39, <2>40
    DEF Next, CallerStep, ForwarderStep, ApplyStep, TeardownStep, OpStep, KitStep
<1>. QED
  BY <1>1, <1>2, ServiceType, SelectionInvariant, OperationInvariant, PTL
  DEF Spec, ImplementsLifecycle, Lifecycle!Spec

-----------------------------------------------------------------------------
(* The managers, the end of the service, and what the window is told.       *)

\* A forwarder waits, applies an update or has ended: it opens and closes nothing.
ForwarderPC == \A m \in Manager : pc[m] \in ApplyPC \cup {"off", "next", "gate", "done"}

\* Inductive, with SelectionInv.
LeakInv == ForwarderPC /\ NoManagerLeak

\* A manager that is open is in use, or about to be installed or closed, however
\* ensure, restart, a forwarder and shutdown interleave.
LEMMA LeakInvariant == Spec => []LeakInv
<1>1. ASSUME Init PROVE LeakInv
  BY <1>1, ProcessAssumption DEF Init, LeakInv, ForwarderPC, NoManagerLeak, Process
<1>2. TypeOK /\ SelectionInv /\ LeakInv /\ [Next]_vars => LeakInv'
  <2> SUFFICES ASSUME TypeOK, SelectionInv, LeakInv, [Next]_vars PROVE LeakInv'
    OBVIOUS
  <2> USE ProcessAssumption, NoneAssumption
      DEF TypeOK, Process, PC, CallerPC, ApplyPC, TeardownPC, Gated, Goto, EndCall, MayLock,
          SelectionInv, GateExclusive, ApplyToDevices, OwnManager,
          LeakInv, ForwarderPC, NoManagerLeak,
          serviceVars, localVars, opVars, kitVars
  <2>1. ASSUME NEW m \in Manager, PostUpdate(m) PROVE LeakInv'
    BY <2>1 DEF PostUpdate
  <2>2. ASSUME NEW m \in Manager, ManagerStops(m) PROVE LeakInv'
    BY <2>2 DEF ManagerStops
  <2>3. ASSUME NEW c \in Client, ClientLost(c) PROVE LeakInv'
    BY <2>3 DEF ClientLost
  <2>4. ASSUME NEW p \in Caller, Discover(p) PROVE LeakInv'
    BY <2>4 DEF Discover
  <2>5. ASSUME NEW p \in Caller, SetSelection(p) PROVE LeakInv'
    BY <2>5 DEF SetSelection
  <2>6. ASSUME NEW p \in Caller, ReconnectSelection(p) PROVE LeakInv'
    BY <2>6 DEF ReconnectSelection
  <2>7. ASSUME NEW p \in Caller, LockCancelled(p) PROVE LeakInv'
    BY <2>7 DEF LockCancelled
  <2>8. ASSUME NEW p \in Caller, LockRefused(p) PROVE LeakInv'
    BY <2>8 DEF LockRefused
  <2>9. ASSUME NEW p \in Caller, EnsureRepublishes(p) PROVE LeakInv'
    BY <2>9 DEF EnsureRepublishes
  <2>10. ASSUME NEW p \in Caller, EnsureLocks(p) PROVE LeakInv'
    BY <2>10 DEF EnsureLocks
  <2>11. ASSUME NEW p \in Caller, OpenFails(p) PROVE LeakInv'
    BY <2>11 DEF OpenFails, NewManager
  <2>12. ASSUME NEW p \in Caller, OpenSucceeds(p) PROVE LeakInv'
    BY <2>12 DEF OpenSucceeds, NewManager
  <2>13. ASSUME NEW p \in Caller, InstallManager(p) PROVE LeakInv'
    BY <2>13 DEF InstallManager
  <2>14. ASSUME NEW p \in Caller, InstallRefused(p) PROVE LeakInv'
    BY <2>14 DEF InstallRefused
  <2>15. ASSUME NEW p \in Caller, SelectLocks(p) PROVE LeakInv'
    BY <2>15 DEF SelectLocks
  <2>16. ASSUME NEW p \in Caller, SelectWithoutManager(p) PROVE LeakInv'
    BY <2>16 DEF SelectWithoutManager
  <2>17. ASSUME NEW p \in Caller, SelectReturns(p) PROVE LeakInv'
    BY <2>17 DEF SelectReturns
  <2>18. ASSUME NEW p \in Caller, RestartDetaches(p) PROVE LeakInv'
    BY <2>18 DEF RestartDetaches
  <2>19. ASSUME NEW m \in Manager, ForwarderReceives(m) PROVE LeakInv'
    BY <2>19, SMTT(30) DEF ForwarderReceives
  <2>20. ASSUME NEW m \in Manager, ForwarderApplies(m) PROVE LeakInv'
    BY <2>20 DEF ForwarderApplies
  <2>21. ASSUME NEW m \in Manager, ForwarderDrops(m) PROVE LeakInv'
    BY <2>21 DEF ForwarderDrops
  <2>22. ASSUME NEW m \in Manager, ForwarderEnds(m) PROVE LeakInv'
    BY <2>22 DEF ForwarderEnds
  <2>23. ASSUME NEW p \in Process, Reconcile(p) PROVE LeakInv'
    BY <2>23 DEF Reconcile
  <2>24. ASSUME NEW p \in Process, Retire(p) PROVE LeakInv'
    BY <2>24 DEF Retire
  <2>25. ASSUME NEW p \in Process, CancelOperations(p) PROVE LeakInv'
    BY <2>25 DEF CancelOperations
  <2>26. ASSUME NEW p \in Process, AwaitReplaced(p) PROVE LeakInv'
    BY <2>26 DEF AwaitReplaced
  <2>27. ASSUME NEW p \in Process, CreateSelection(p) PROVE LeakInv'
    BY <2>27 DEF CreateSelection
  <2>28. ASSUME NEW p \in Process, PublishSnapshot(p) PROVE LeakInv'
    BY <2>28 DEF PublishSnapshot
  <2>29. ASSUME NEW p \in Process, CloseManager(p) PROVE LeakInv'
    BY <2>29 DEF CloseManager
  <2>30. ASSUME NEW p \in Process, AwaitDetached(p) PROVE LeakInv'
    BY <2>30 DEF AwaitDetached
  <2>31. ASSUME NEW p \in Process, Drain(p) PROVE LeakInv'
    BY <2>31 DEF Drain
  <2>32. ASSUME NEW o \in Op, OpCaptures(o) PROVE LeakInv'
    BY <2>32 DEF OpCaptures
  <2>33. ASSUME NEW o \in Op, OpRegisters(o) PROVE LeakInv'
    BY <2>33 DEF OpRegisters
  <2>34. ASSUME NEW o \in Op, OpReturns(o) PROVE LeakInv'
    BY <2>34 DEF OpReturns
  <2>35. ASSUME NEW o \in Op, OpRetires(o) PROVE LeakInv'
    BY <2>35 DEF OpRetires
  <2>36. ASSUME NEW o \in Op, OpUnregisters(o) PROVE LeakInv'
    BY <2>36 DEF OpUnregisters
  <2>37. ASSUME NEW o \in Op, CancelOperation(o) PROVE LeakInv'
    BY <2>37 DEF CancelOperation
  <2>38. CASE BeginShutdown
    BY <2>38 DEF BeginShutdown
  <2>39. CASE ShutdownDetaches
    BY <2>39 DEF ShutdownDetaches
  <2>40. CASE UNCHANGED vars
    BY <2>40 DEF vars, serviceVars, localVars, opVars, kitVars
  <2>. QED
    BY <2>1, <2>2, <2>3, <2>4, <2>5, <2>6, <2>7, <2>8, <2>9, <2>10, <2>11, <2>12, <2>13, <2>14, <2>15, <2>16, <2>17, <2>18, <2>19, <2>20, <2>21, <2>22, <2>23, <2>24, <2>25, <2>26, <2>27, <2>28, <2>29, <2>30, <2>31, <2>32, <2>33, <2>34, <2>35, <2>36, <2>37, <2>38, <2>39, <2>40
    DEF Next, CallerStep, ForwarderStep, ApplyStep, TeardownStep, OpStep, KitStep
<1>. QED  BY <1>1, <1>2, ServiceType, SelectionInvariant, PTL DEF Spec

\* No path of ensureDeviceManager, restartDeviceManager and close loses a manager.
THEOREM NoManagerIsLost == Spec => []NoManagerLeak
BY LeakInvariant, PTL DEF LeakInv

-----------------------------------------------------------------------------
(* Shutdown.                                                                *)

\* What shutdown has reached stays reached.  Taking the gate it ends the selection and
\* the manager in use; when it gives the gate back nobody takes it any more.
ReachedInv ==
  /\ pc[Shutdown] \in TeardownPC \cup {"drain", "stopped"} =>
       closed /\ selected = None /\ manager[Shutdown] = devices
  /\ pc[Shutdown] \in {"cancelAll", "awaitAll", "drain", "stopped"} /\ devices # None =>
       mgr[devices] = "closed"
  /\ pc[Shutdown] \in {"drain", "stopped"} => gate = None
  /\ pc[Shutdown] = "stopped" /\ devices # None => pc[devices] = "done"

\* It holds together with what is known of the gate and of shutdown.
LEMMA ReachedInvariant == Spec => []ReachedInv
<1>1. ASSUME Init PROVE ReachedInv
  BY <1>1, ProcessAssumption DEF Init, ReachedInv, TeardownPC, Process
<1>2. TypeOK /\ SelectionInv /\ ForwarderPC /\ ShutdownInv /\ ReachedInv /\ [Next]_vars => ReachedInv'
  <2> SUFFICES ASSUME TypeOK, SelectionInv, ForwarderPC, ShutdownInv, ReachedInv, [Next]_vars
               PROVE  ReachedInv'
    OBVIOUS
  <2> USE ProcessAssumption, NoneAssumption
      DEF TypeOK, Process, PC, CallerPC, ApplyPC, TeardownPC, Gated, Goto, EndCall, MayLock,
          SelectionInv, GateExclusive, ApplyToDevices, OwnManager,
          ForwarderPC, ShutdownInv, ReachedInv,
          serviceVars, localVars, opVars, kitVars
  <2>1. ASSUME NEW m \in Manager, PostUpdate(m) PROVE ReachedInv'
    BY <2>1 DEF PostUpdate
  <2>2. ASSUME NEW m \in Manager, ManagerStops(m) PROVE ReachedInv'
    BY <2>2 DEF ManagerStops
  <2>3. ASSUME NEW c \in Client, ClientLost(c) PROVE ReachedInv'
    BY <2>3 DEF ClientLost
  <2>4. ASSUME NEW p \in Caller, Discover(p) PROVE ReachedInv'
    BY <2>4 DEF Discover
  <2>5. ASSUME NEW p \in Caller, SetSelection(p) PROVE ReachedInv'
    BY <2>5 DEF SetSelection
  <2>6. ASSUME NEW p \in Caller, ReconnectSelection(p) PROVE ReachedInv'
    BY <2>6 DEF ReconnectSelection
  <2>7. ASSUME NEW p \in Caller, LockCancelled(p) PROVE ReachedInv'
    BY <2>7 DEF LockCancelled
  <2>8. ASSUME NEW p \in Caller, LockRefused(p) PROVE ReachedInv'
    BY <2>8 DEF LockRefused
  <2>9. ASSUME NEW p \in Caller, EnsureRepublishes(p) PROVE ReachedInv'
    BY <2>9 DEF EnsureRepublishes
  <2>10. ASSUME NEW p \in Caller, EnsureLocks(p) PROVE ReachedInv'
    BY <2>10 DEF EnsureLocks
  <2>11. ASSUME NEW p \in Caller, OpenFails(p) PROVE ReachedInv'
    BY <2>11 DEF OpenFails, NewManager
  <2>12. ASSUME NEW p \in Caller, OpenSucceeds(p) PROVE ReachedInv'
    BY <2>12 DEF OpenSucceeds, NewManager
  <2>13. ASSUME NEW p \in Caller, InstallManager(p) PROVE ReachedInv'
    BY <2>13 DEF InstallManager
  <2>14. ASSUME NEW p \in Caller, InstallRefused(p) PROVE ReachedInv'
    BY <2>14 DEF InstallRefused
  <2>15. ASSUME NEW p \in Caller, SelectLocks(p) PROVE ReachedInv'
    BY <2>15 DEF SelectLocks
  <2>16. ASSUME NEW p \in Caller, SelectWithoutManager(p) PROVE ReachedInv'
    BY <2>16 DEF SelectWithoutManager
  <2>17. ASSUME NEW p \in Caller, SelectReturns(p) PROVE ReachedInv'
    BY <2>17 DEF SelectReturns
  <2>18. ASSUME NEW p \in Caller, RestartDetaches(p) PROVE ReachedInv'
    BY <2>18 DEF RestartDetaches
  <2>19. ASSUME NEW m \in Manager, ForwarderReceives(m) PROVE ReachedInv'
    BY <2>19 DEF ForwarderReceives
  <2>20. ASSUME NEW m \in Manager, ForwarderApplies(m) PROVE ReachedInv'
    BY <2>20 DEF ForwarderApplies
  <2>21. ASSUME NEW m \in Manager, ForwarderDrops(m) PROVE ReachedInv'
    BY <2>21 DEF ForwarderDrops
  <2>22. ASSUME NEW m \in Manager, ForwarderEnds(m) PROVE ReachedInv'
    BY <2>22 DEF ForwarderEnds
  <2>23. ASSUME NEW p \in Process, Reconcile(p) PROVE ReachedInv'
    BY <2>23 DEF Reconcile
  <2>24. ASSUME NEW p \in Process, Retire(p) PROVE ReachedInv'
    BY <2>24 DEF Retire
  <2>25. ASSUME NEW p \in Process, CancelOperations(p) PROVE ReachedInv'
    BY <2>25 DEF CancelOperations
  <2>26. ASSUME NEW p \in Process, AwaitReplaced(p) PROVE ReachedInv'
    BY <2>26 DEF AwaitReplaced
  <2>27. ASSUME NEW p \in Process, CreateSelection(p) PROVE ReachedInv'
    BY <2>27 DEF CreateSelection
  <2>28. ASSUME NEW p \in Process, PublishSnapshot(p) PROVE ReachedInv'
    BY <2>28 DEF PublishSnapshot
  <2>29. ASSUME NEW p \in Process, CloseManager(p) PROVE ReachedInv'
    BY <2>29 DEF CloseManager
  <2>30. ASSUME NEW p \in Process, AwaitDetached(p) PROVE ReachedInv'
    BY <2>30 DEF AwaitDetached
  <2>31. ASSUME NEW p \in Process, Drain(p) PROVE ReachedInv'
    BY <2>31 DEF Drain
  <2>32. ASSUME NEW o \in Op, OpCaptures(o) PROVE ReachedInv'
    BY <2>32 DEF OpCaptures
  <2>33. ASSUME NEW o \in Op, OpRegisters(o) PROVE ReachedInv'
    BY <2>33 DEF OpRegisters
  <2>34. ASSUME NEW o \in Op, OpReturns(o) PROVE ReachedInv'
    BY <2>34 DEF OpReturns
  <2>35. ASSUME NEW o \in Op, OpRetires(o) PROVE ReachedInv'
    BY <2>35 DEF OpRetires
  <2>36. ASSUME NEW o \in Op, OpUnregisters(o) PROVE ReachedInv'
    BY <2>36 DEF OpUnregisters
  <2>37. ASSUME NEW o \in Op, CancelOperation(o) PROVE ReachedInv'
    BY <2>37 DEF CancelOperation
  <2>38. CASE BeginShutdown
    BY <2>38 DEF BeginShutdown
  <2>39. CASE ShutdownDetaches
    BY <2>39 DEF ShutdownDetaches
  <2>40. CASE UNCHANGED vars
    BY <2>40 DEF vars, serviceVars, localVars, opVars, kitVars
  <2>. QED
    BY <2>1, <2>2, <2>3, <2>4, <2>5, <2>6, <2>7, <2>8, <2>9, <2>10, <2>11, <2>12, <2>13, <2>14, <2>15, <2>16, <2>17, <2>18, <2>19, <2>20, <2>21, <2>22, <2>23, <2>24, <2>25, <2>26, <2>27, <2>28, <2>29, <2>30, <2>31, <2>32, <2>33, <2>34, <2>35, <2>36, <2>37, <2>38, <2>39, <2>40
    DEF Next, CallerStep, ForwarderStep, ApplyStep, TeardownStep, OpStep, KitStep
<1>3. OperationInv => ShutdownInv
  BY DEF OperationInv
<1>4. LeakInv => ForwarderPC
  BY DEF LeakInv
<1>. QED
  BY <1>1, <1>2, <1>3, <1>4, ServiceType, SelectionInvariant, OperationInvariant, LeakInvariant,
     PTL DEF Spec

\* When ServiceShutdown has returned nothing is selected or open, and the forwarder
\* it waited for has ended; no late RPC or update undoes it.
THEOREM ShutdownIsFinal == Spec => []StoppedStaysEmpty
<1>1. SelectionInv /\ LeakInv /\ ReachedInv => StoppedStaysEmpty
  <2> SUFFICES ASSUME SelectionInv, LeakInv, ReachedInv, pc[Shutdown] = "stopped"
               PROVE  /\ selected = None
                      /\ \A m \in Manager : mgr[m] # "open"
                      /\ devices # None => pc[devices] = "done"
    BY DEF StoppedStaysEmpty
  <2>1. \A p \in Process : pc[p] \notin Gated
    BY NoneAssumption DEF SelectionInv, GateExclusive, ReachedInv, Process
  <2>2. ASSUME NEW m \in Manager PROVE mgr[m] # "open"
    BY <2>1, NoneAssumption DEF LeakInv, NoManagerLeak, ReachedInv, Gated, TeardownPC, Process
  <2>. QED  BY <2>2 DEF ReachedInv
<1>. QED  BY <1>1, SelectionInvariant, LeakInvariant, ReachedInvariant, PTL

-----------------------------------------------------------------------------
(* The snapshots the window is sent.                                        *)

WindowAgrees == published = selected \/ (selected = None /\ published \in abandoned)

\* A gate that is free, or held for SetSelection only, leaves the window informed:
\* applying an update ends with a snapshot, and a teardown leaves no manager.
PublishInv ==
  /\ \A p \in Caller : pc[p] \in TeardownPC => devices = None
  /\ ~closed /\ devices # None /\ (gate = None \/ pc[gate] = "selecting") => WindowAgrees

\* It holds together with what is known of the gate and of shutdown.
LEMMA PublishInvariant == Spec => []PublishInv
<1>1. ASSUME Init PROVE PublishInv
  BY <1>1, ProcessAssumption DEF Init, PublishInv, TeardownPC, Process
<1>2. TypeOK /\ SelectionInv /\ ForwarderPC /\ ShutdownInv /\ PublishInv /\ [Next]_vars => PublishInv'
  <2> SUFFICES ASSUME TypeOK, SelectionInv, ForwarderPC, ShutdownInv, PublishInv, [Next]_vars
               PROVE  PublishInv'
    OBVIOUS
  <2> USE ProcessAssumption, NoneAssumption
      DEF TypeOK, Process, PC, CallerPC, ApplyPC, TeardownPC, Gated, Goto, EndCall, MayLock,
          SelectionInv, GateExclusive, ApplyToDevices, OwnManager,
          ForwarderPC, ShutdownInv, PublishInv, WindowAgrees,
          serviceVars, localVars, opVars, kitVars
  <2>1. ASSUME NEW m \in Manager, PostUpdate(m) PROVE PublishInv'
    BY <2>1 DEF PostUpdate
  <2>2. ASSUME NEW m \in Manager, ManagerStops(m) PROVE PublishInv'
    BY <2>2 DEF ManagerStops
  <2>3. ASSUME NEW c \in Client, ClientLost(c) PROVE PublishInv'
    BY <2>3 DEF ClientLost
  <2>4. ASSUME NEW p \in Caller, Discover(p) PROVE PublishInv'
    BY <2>4 DEF Discover
  <2>5. ASSUME NEW p \in Caller, SetSelection(p) PROVE PublishInv'
    BY <2>5 DEF SetSelection
  <2>6. ASSUME NEW p \in Caller, ReconnectSelection(p) PROVE PublishInv'
    BY <2>6 DEF ReconnectSelection
  <2>7. ASSUME NEW p \in Caller, LockCancelled(p) PROVE PublishInv'
    BY <2>7 DEF LockCancelled
  <2>8. ASSUME NEW p \in Caller, LockRefused(p) PROVE PublishInv'
    BY <2>8 DEF LockRefused
  <2>9. ASSUME NEW p \in Caller, EnsureRepublishes(p) PROVE PublishInv'
    BY <2>9 DEF EnsureRepublishes
  <2>10. ASSUME NEW p \in Caller, EnsureLocks(p) PROVE PublishInv'
    BY <2>10 DEF EnsureLocks
  <2>11. ASSUME NEW p \in Caller, OpenFails(p) PROVE PublishInv'
    BY <2>11 DEF OpenFails, NewManager
  <2>12. ASSUME NEW p \in Caller, OpenSucceeds(p) PROVE PublishInv'
    BY <2>12 DEF OpenSucceeds, NewManager
  <2>13. ASSUME NEW p \in Caller, InstallManager(p) PROVE PublishInv'
    BY <2>13 DEF InstallManager
  <2>14. ASSUME NEW p \in Caller, InstallRefused(p) PROVE PublishInv'
    BY <2>14 DEF InstallRefused
  <2>15. ASSUME NEW p \in Caller, SelectLocks(p) PROVE PublishInv'
    BY <2>15 DEF SelectLocks
  <2>16. ASSUME NEW p \in Caller, SelectWithoutManager(p) PROVE PublishInv'
    BY <2>16 DEF SelectWithoutManager
  <2>17. ASSUME NEW p \in Caller, SelectReturns(p) PROVE PublishInv'
    BY <2>17 DEF SelectReturns
  <2>18. ASSUME NEW p \in Caller, RestartDetaches(p) PROVE PublishInv'
    BY <2>18 DEF RestartDetaches
  <2>19. ASSUME NEW m \in Manager, ForwarderReceives(m) PROVE PublishInv'
    BY <2>19 DEF ForwarderReceives
  <2>20. ASSUME NEW m \in Manager, ForwarderApplies(m) PROVE PublishInv'
    BY <2>20 DEF ForwarderApplies
  <2>21. ASSUME NEW m \in Manager, ForwarderDrops(m) PROVE PublishInv'
    BY <2>21 DEF ForwarderDrops
  <2>22. ASSUME NEW m \in Manager, ForwarderEnds(m) PROVE PublishInv'
    BY <2>22 DEF ForwarderEnds
  <2>23. ASSUME NEW p \in Process, Reconcile(p) PROVE PublishInv'
    BY <2>23 DEF Reconcile
  <2>24. ASSUME NEW p \in Process, Retire(p) PROVE PublishInv'
    BY <2>24 DEF Retire
  <2>25. ASSUME NEW p \in Process, CancelOperations(p) PROVE PublishInv'
    BY <2>25 DEF CancelOperations
  <2>26. ASSUME NEW p \in Process, AwaitReplaced(p) PROVE PublishInv'
    BY <2>26 DEF AwaitReplaced
  <2>27. ASSUME NEW p \in Process, CreateSelection(p) PROVE PublishInv'
    BY <2>27 DEF CreateSelection
  <2>28. ASSUME NEW p \in Process, PublishSnapshot(p) PROVE PublishInv'
    BY <2>28 DEF PublishSnapshot
  <2>29. ASSUME NEW p \in Process, CloseManager(p) PROVE PublishInv'
    BY <2>29 DEF CloseManager
  <2>30. ASSUME NEW p \in Process, AwaitDetached(p) PROVE PublishInv'
    BY <2>30 DEF AwaitDetached
  <2>31. ASSUME NEW p \in Process, Drain(p) PROVE PublishInv'
    BY <2>31 DEF Drain
  <2>32. ASSUME NEW o \in Op, OpCaptures(o) PROVE PublishInv'
    BY <2>32 DEF OpCaptures
  <2>33. ASSUME NEW o \in Op, OpRegisters(o) PROVE PublishInv'
    BY <2>33 DEF OpRegisters
  <2>34. ASSUME NEW o \in Op, OpReturns(o) PROVE PublishInv'
    BY <2>34 DEF OpReturns
  <2>35. ASSUME NEW o \in Op, OpRetires(o) PROVE PublishInv'
    BY <2>35 DEF OpRetires
  <2>36. ASSUME NEW o \in Op, OpUnregisters(o) PROVE PublishInv'
    BY <2>36 DEF OpUnregisters
  <2>37. ASSUME NEW o \in Op, CancelOperation(o) PROVE PublishInv'
    BY <2>37 DEF CancelOperation
  <2>38. CASE BeginShutdown
    BY <2>38 DEF BeginShutdown
  <2>39. CASE ShutdownDetaches
    BY <2>39 DEF ShutdownDetaches
  <2>40. CASE UNCHANGED vars
    BY <2>40 DEF vars, serviceVars, localVars, opVars, kitVars
  <2>. QED
    BY <2>1, <2>2, <2>3, <2>4, <2>5, <2>6, <2>7, <2>8, <2>9, <2>10, <2>11, <2>12, <2>13, <2>14, <2>15, <2>16, <2>17, <2>18, <2>19, <2>20, <2>21, <2>22, <2>23, <2>24, <2>25, <2>26, <2>27, <2>28, <2>29, <2>30, <2>31, <2>32, <2>33, <2>34, <2>35, <2>36, <2>37, <2>38, <2>39, <2>40
    DEF Next, CallerStep, ForwarderStep, ApplyStep, TeardownStep, OpStep, KitStep
<1>3. OperationInv => ShutdownInv
  BY DEF OperationInv
<1>4. LeakInv => ForwarderPC
  BY DEF LeakInv
<1>. QED
  BY <1>1, <1>2, <1>3, <1>4, ServiceType, SelectionInvariant, OperationInvariant, LeakInvariant,
     PTL DEF Spec

\* Whatever updates, restarts and operations did, once nobody holds the gate the last
\* snapshot named the current selection, or one that an operation reported as lost, or,
\* when a restart has left the service without a manager, one whose operations are over.
THEOREM WindowInformed == Spec => []WindowKnowsSelection
<1>1. TypeOK /\ SelectionInv /\ OperationInv /\ PublishInv => WindowKnowsSelection
  <2> SUFFICES ASSUME TypeOK, SelectionInv, OperationInv, PublishInv, gate = None, ~closed
               PROVE  \/ published = selected
                      \/ selected = None /\ published \in abandoned
                      \/ /\ selected = None /\ devices = None
                         /\ \A o \in Registered : opSel[o] # published
    BY DEF WindowKnowsSelection
  <2>1. CASE devices # None
    BY <2>1 DEF PublishInv, WindowAgrees
  <2>2. CASE devices = None
    <3>1. selected = None
      BY <2>2, NoneAssumption
      DEF SelectionInv, SelectionFromCurrentManager, Owner, Client, Process
    <3>2. ASSUME NEW p \in Process
          PROVE  pc[p] \notin {"cancel", "closeManager", "cancelAll", "await", "awaitAll"}
      BY NoneAssumption, ProcessAssumption
      DEF SelectionInv, GateExclusive, Gated, ApplyPC, TeardownPC, Process
    <3>3. ASSUME NEW o \in Registered PROVE opSel[o] = None \/ opSel[o] \in abandoned
      BY <3>1, <3>2 DEF OperationInv, NoForgottenOperation
    <3>. QED  BY <2>2, <3>1, <3>3
  <2>. QED  BY <2>1, <2>2
<1>. QED  BY <1>1, ServiceType, SelectionInvariant, OperationInvariant, PublishInvariant, PTL

=============================================================================
