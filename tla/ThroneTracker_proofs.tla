------------------------ MODULE ThroneTracker_proofs ------------------------
(* Proofs about ThroneTracker for any installs, callers and retry limit.    *)
EXTENDS ThroneTracker, TLAPS

-----------------------------------------------------------------------------
(* Type correctness *)

\* The initial state of the tracker has its types.
LEMMA TypeInit == Init => TypeOK
<1> SUFFICES ASSUME Init PROVE TypeOK
  OBVIOUS
<1>1. th \in [Callers -> CallType]
  BY DEF Init, CallType, Entered, Outside
<1>2. dw = "running" <=> th["worker"].pc # "idle"
  BY CallersAssumption DEF Init, Outside
<1>3. ksu_track_throne_retries \in 0..(MaxRetries + 1)
  BY CallersAssumption DEF Init
<1>4. apks \subseteq Managers
  BY DEF Init
<1>5. /\ packages \subseteq Installs
      /\ persisted \subseteq Installs
      /\ allow_list \subseteq Installs
      /\ owed \subseteq Installs
  BY DEF Init
<1>6. /\ mounted \in BOOLEAN
      /\ observing \in BOOLEAN
      /\ ksu_allowlist_loaded \in BOOLEAN
  BY DEF Init
<1>7. ksu_track_throne_retries =< MaxRetries
  BY CallersAssumption DEF Init
<1>8. /\ ksu_manager_appid = Invalid
      /\ merged \in BOOLEAN
      /\ post_fs = "idle"
      /\ dw = "pending"
  BY DEF Init
<1> QED
  BY <1>1, <1>2, <1>3, <1>4, <1>5, <1>6, <1>7, <1>8 DEF TypeOK

\* Moving a call to another place keeps the type of the callers, and only
\* Enter and the returns take a caller into or out of track_throne.
LEMMA Moves ==
    ASSUME TypeOK, NEW c \in Callers, NEW list \in SUBSET Installs, NEW pc,
           GotoWith(c, pc, list), th[c].pc # "idle",
           pc \in {"load", "loading", "loaded", "exist", "valid", "search", "prune", "return"}
    PROVE  /\ th' \in [Callers -> CallType]
           /\ th'["worker"].pc # "idle" <=> th["worker"].pc # "idle"
<1> DEFINE r == [pc |-> pc, uid_list |-> list, prune_only |-> th[c].prune_only]
<1>1. r \in CallType /\ r.pc # "idle"
  BY DEF TypeOK, CallType
<1>2. th' = [th EXCEPT ![c] = r]
  BY DEF GotoWith
<1> HIDE DEF r
<1> QED
  BY <1>1, <1>2, CallersAssumption DEF TypeOK

\* The same for a move that keeps the list read.
LEMMA GotoMoves ==
    ASSUME TypeOK, NEW c \in Callers, NEW pc, Goto(c, pc), th[c].pc # "idle",
           pc \in {"load", "loading", "loaded", "exist", "valid", "search", "prune", "return"}
    PROVE  /\ th' \in [Callers -> CallType]
           /\ th'["worker"].pc # "idle" <=> th["worker"].pc # "idle"
<1>1. th[c].uid_list \in SUBSET Installs
  BY DEF TypeOK, CallType
<1> QED
  BY <1>1, Moves DEF Goto

\* Every step keeps the types.
LEMMA TypeStep == TypeOK /\ [Next]_vars => TypeOK'
<1> SUFFICES ASSUME TypeOK, [Next]_vars PROVE TypeOK'
  OBVIOUS
<1> USE DEF envVars, listVars, loadVars, bootVars, workVars
<1>1. ASSUME NEW c \in Callers, TrackThrone(c) PROVE TypeOK'
  <2>1. CASE OpenList(c)
    <3>1. th[c].pc # "idle"
      BY <2>1 DEF OpenList
    <3>2. \/ Goto(c, "return")
          \/ \E s \in SUBSET Installs : GotoWith(c, "load", s)
      BY <2>1 DEF OpenList, TypeOK
    <3>3. /\ th' \in [Callers -> CallType]
          /\ th'["worker"].pc # "idle" <=> th["worker"].pc # "idle"
      BY <3>1, <3>2, GotoMoves, Moves
    <3> QED
      BY <2>1, <3>3 DEF OpenList, TypeOK
  <2>2. CASE CheckLoaded(c)
    BY <2>2, GotoMoves DEF CheckLoaded, AfterLoad, TypeOK
  <2>3. CASE Load(c)
    BY <2>3, GotoMoves DEF Load, LoadAllowList, TypeOK
  <2>4. CASE SetLoaded(c)
    BY <2>4, GotoMoves DEF SetLoaded, AfterLoad, TypeOK
  <2>5. CASE CheckExist(c)
    BY <2>5, GotoMoves DEF CheckExist, TypeOK
  <2>6. CASE CheckValid(c)
    BY <2>6, GotoMoves DEF CheckValid, TypeOK
  <2>7. CASE Search(c)
    BY <2>7, GotoMoves DEF Search, Crown, TypeOK
  <2>8. CASE Prune(c)
    BY <2>8, Moves DEF Prune, TypeOK
  <2> QED
    BY <1>1, <2>1, <2>2, <2>3, <2>4, <2>5, <2>6, <2>7, <2>8 DEF TrackThrone
<1>2. ASSUME NEW c \in Callers, Return(c) PROVE TypeOK'
  BY <1>2, CallersAssumption DEF Return, TypeOK, CallType, Outside
<1>3. CASE WorkerFire
  BY <1>3, CallersAssumption DEF WorkerFire, Enter, Entered, Outside, TypeOK, CallType
<1>4. CASE WorkerReturn
  <2>1. dw = "running" /\ ksu_track_throne_retries \in 0..MaxRetries
    BY <1>4, CallersAssumption DEF WorkerReturn, TypeOK
  <2>2. th' \in [Callers -> CallType] /\ th'["worker"].pc = "idle"
    BY <1>4, CallersAssumption DEF WorkerReturn, TypeOK, CallType, Outside
  <2>3. /\ dw' \in {"idle", "pending"}
        /\ ksu_track_throne_retries' \in 0..(MaxRetries + 1)
        /\ dw' # "idle" => ksu_track_throne_retries' =< MaxRetries
    BY <1>4, <2>1, CallersAssumption DEF WorkerReturn
  <2> QED
    BY <1>4, <2>2, <2>3 DEF WorkerReturn, TypeOK
<1>5. CASE OnBootCompleted
  BY <1>5, CallersAssumption DEF OnBootCompleted, Enter, Entered, Outside, TypeOK, CallType
<1>6. ASSUME NEW prune_only \in BOOLEAN, Observe(prune_only) PROVE TypeOK'
  BY <1>6, CallersAssumption DEF Observe, Enter, Entered, Outside, TypeOK, CallType
<1>7. CASE OnPostFsData \/ PostFsLoad \/ PostFsObserve
  BY <1>7 DEF OnPostFsData, PostFsLoad, PostFsObserve, LoadAllowList, TypeOK
<1>8. CASE MountData \/ RemoveApk \/ \E m \in Managers : PlaceApk(m)
  BY <1>8 DEF MountData, RemoveApk, PlaceApk, TypeOK
<1>9. ASSUME NEW p \in Installs, ListPackage(p) \/ Unlist(p) \/ Grant(p) \/ Revoke(p)
      PROVE  TypeOK'
  BY <1>9 DEF ListPackage, Unlist, Grant, Revoke, TypeOK
<1>10. CASE UNCHANGED vars
  BY <1>10 DEF vars, TypeOK
<1> QED
  BY <1>1, <1>2, <1>3, <1>4, <1>5, <1>6, <1>7, <1>8, <1>9, <1>10
  DEF Next, CallerStep, WorkerStep

\* Every variable keeps its type, and the worker is in track_throne exactly
\* while its work runs.
THEOREM TypeCorrect == Spec => []TypeOK
  BY TypeInit, TypeStep, PTL DEF Spec

-----------------------------------------------------------------------------
(* Grants.  The argument is that the flag is a promise: once it is set, the *)
(* file has been merged.  A caller passes the check only behind that flag,  *)
(* so a crown, a save by a crowned manager and a prune all come after the   *)
(* merge; and a prune drops only what its own list misses.                  *)

\* Behind the flag: the places of track_throne past the load, and a crown.
LoadInv ==
    /\ ksu_allowlist_loaded => merged
    /\ \A c \in Callers : th[c].pc = "loaded" => merged
    /\ \A c \in Callers :
          th[c].pc \in {"exist", "valid", "search", "prune"} => ksu_allowlist_loaded
    /\ ManagerValid => ksu_allowlist_loaded

\* What is owed is listed, saved, in every list that will be pruned with and,
\* after a load, in memory.
GrantInv ==
    /\ owed \subseteq packages
    /\ owed \subseteq persisted
    /\ ksu_allowlist_loaded => owed \subseteq allow_list
    /\ \A c \in Callers : th[c].pc = "loaded" => owed \subseteq allow_list
    /\ \A c \in InFlight : owed \subseteq th[c].uid_list

\* Nothing is loaded, crowned or in flight at the start.
LEMMA InvInit == Init => LoadInv /\ GrantInv
<1> SUFFICES ASSUME Init PROVE LoadInv /\ GrantInv
  OBVIOUS
<1>1. \A c \in Callers : th[c].pc \in {"idle", "open"}
  BY DEF Init, Entered, Outside
<1> QED
  BY <1>1 DEF Init, LoadInv, GrantInv, ManagerValid, InFlight

\* Where the callers stand after a call has moved.
LEMMA Moved ==
    ASSUME TypeOK, NEW c \in Callers, NEW pc, NEW list, GotoWith(c, pc, list)
    PROVE  /\ \A d \in Callers : d # c => th'[d] = th[d]
           /\ th'[c].pc = pc
           /\ th'[c].uid_list = list
  BY DEF TypeOK, GotoWith

\* Where they stand after a caller has entered or left track_throne.
LEMMA EnteredOrLeft ==
    ASSUME TypeOK, NEW c \in Callers, NEW b,
           \/ th' = [th EXCEPT ![c] = Outside]
           \/ th' = [th EXCEPT ![c] = Entered(b)]
    PROVE  /\ \A d \in Callers : d # c => th'[d] = th[d]
           /\ th'[c].pc \in {"idle", "open"}
  BY DEF TypeOK, Outside, Entered

\* A step keeps the order of load, flag and crown.
LEMMA LoadStep == TypeOK /\ LoadInv /\ [Next]_vars => LoadInv'
<1> SUFFICES ASSUME TypeOK, LoadInv, [Next]_vars PROVE LoadInv'
  OBVIOUS
<1> USE DEF envVars, listVars, loadVars, bootVars, workVars
<1>1. ASSUME NEW c \in Callers, TrackThrone(c) PROVE LoadInv'
  <2>0. merged \in BOOLEAN
    BY DEF TypeOK
  <2>1. CASE OpenList(c)
    <3>1. (\E list : GotoWith(c, "load", list)) \/ GotoWith(c, "return", th[c].uid_list)
      BY <2>1 DEF OpenList, Goto
    <3>2. /\ \A d \in Callers : d # c => th'[d] = th[d]
          /\ th'[c].pc \in {"load", "return"}
      BY <3>1, Moved
    <3> QED
      BY <2>1, <3>2 DEF OpenList, LoadInv, ManagerValid
  <2>2. CASE CheckLoaded(c)
    <3>1. /\ \A d \in Callers : d # c => th'[d] = th[d]
          /\ th'[c].pc = IF ksu_allowlist_loaded THEN AfterLoad(c) ELSE "loading"
      BY <2>2, Moved DEF CheckLoaded, Goto
    <3> QED
      BY <2>2, <3>1 DEF CheckLoaded, LoadInv, ManagerValid, AfterLoad
  <2>3. CASE Load(c)
    <3>1. \A d \in Callers : d # c => th'[d] = th[d]
      BY <2>3, Moved DEF Load, Goto
    <3>2. th'[c].pc = "loaded"
      BY <2>3, Moved DEF Load, Goto
    <3>3. merged' /\ UNCHANGED <<ksu_allowlist_loaded, ksu_manager_appid>>
      BY <2>3, <2>0 DEF Load
    <3> QED
      BY <3>1, <3>2, <3>3 DEF LoadInv, ManagerValid
  <2>4. CASE SetLoaded(c)
    <3>1. /\ \A d \in Callers : d # c => th'[d] = th[d]
          /\ th'[c].pc = AfterLoad(c)
      BY <2>4, Moved DEF SetLoaded, Goto
    <3> QED
      BY <2>4, <3>1 DEF SetLoaded, LoadInv, ManagerValid, AfterLoad
  <2>5. CASE CheckExist(c)
    <3>1. /\ \A d \in Callers : d # c => th'[d] = th[d]
          /\ th'[c].pc \in {"prune", "valid"}
      BY <2>5, Moved DEF CheckExist, Goto
    <3> QED
      BY <2>5, <3>1 DEF CheckExist, LoadInv, ManagerValid
  <2>6. CASE CheckValid(c)
    <3>1. /\ \A d \in Callers : d # c => th'[d] = th[d]
          /\ th'[c].pc \in {"prune", "search"}
      BY <2>6, Moved DEF CheckValid, Goto
    <3> QED
      BY <2>6, <3>1 DEF CheckValid, LoadInv, ManagerValid
  <2>7. CASE Search(c)
    <3>1. /\ \A d \in Callers : d # c => th'[d] = th[d]
          /\ th'[c].pc = "prune"
      BY <2>7, Moved DEF Search, Goto
    <3>2. ksu_allowlist_loaded /\ UNCHANGED loadVars
      BY <2>7 DEF Search, LoadInv
    <3> QED
      BY <3>1, <3>2 DEF LoadInv
  <2>8. CASE Prune(c)
    <3>1. /\ \A d \in Callers : d # c => th'[d] = th[d]
          /\ th'[c].pc = "return"
      BY <2>8, Moved DEF Prune
    <3> QED
      BY <2>8, <3>1 DEF Prune, LoadInv, ManagerValid
  <2> QED
    BY <1>1, <2>1, <2>2, <2>3, <2>4, <2>5, <2>6, <2>7, <2>8 DEF TrackThrone
<1>2. ASSUME NEW c \in Callers, Return(c) PROVE LoadInv'
  BY <1>2, EnteredOrLeft DEF Return, LoadInv, ManagerValid
<1>3. CASE WorkerFire \/ WorkerReturn
  <2>1. /\ \A d \in Callers : d # "worker" => th'[d] = th[d]
        /\ th'["worker"].pc \in {"idle", "open"}
    BY <1>3, EnteredOrLeft, CallersAssumption DEF WorkerFire, WorkerReturn, Enter
  <2>2. UNCHANGED <<envVars, listVars, ksu_manager_appid, loadVars>>
    BY <1>3 DEF WorkerFire, WorkerReturn
  <2> QED
    BY <2>1, <2>2 DEF LoadInv, ManagerValid
<1>4. CASE OnBootCompleted
  <2>1. /\ \A d \in Callers : d # "boot" => th'[d] = th[d]
        /\ th'["boot"].pc \in {"idle", "open"}
    BY <1>4, EnteredOrLeft DEF OnBootCompleted, Enter
  <2> QED
    BY <1>4, <2>1 DEF OnBootCompleted, LoadInv, ManagerValid
<1>5. ASSUME NEW prune_only \in BOOLEAN, Observe(prune_only) PROVE LoadInv'
  <2>1. /\ \A d \in Callers : d # "observer" => th'[d] = th[d]
        /\ th'["observer"].pc \in {"idle", "open"}
    BY <1>5, EnteredOrLeft DEF Observe, Enter
  <2> QED
    BY <1>5, <2>1 DEF Observe, LoadInv, ManagerValid
<1>6. CASE OnPostFsData \/ PostFsLoad \/ PostFsObserve
  BY <1>6 DEF OnPostFsData, PostFsLoad, PostFsObserve, LoadInv, ManagerValid
<1>7. CASE MountData \/ RemoveApk \/ \E m \in Managers : PlaceApk(m)
  BY <1>7 DEF MountData, RemoveApk, PlaceApk, LoadInv, ManagerValid
<1>8. ASSUME NEW p \in Installs, ListPackage(p) \/ Unlist(p) \/ Grant(p) \/ Revoke(p)
      PROVE  LoadInv'
  BY <1>8 DEF ListPackage, Unlist, Grant, Revoke, LoadInv, ManagerValid
<1>9. CASE UNCHANGED vars
  BY <1>9 DEF vars, LoadInv, ManagerValid
<1> QED
  BY <1>1, <1>2, <1>3, <1>4, <1>5, <1>6, <1>7, <1>8, <1>9
  DEF Next, CallerStep, WorkerStep

\* A step keeps every grant that is owed.
LEMMA GrantStep == TypeOK /\ LoadInv /\ GrantInv /\ [Next]_vars => GrantInv'
<1> SUFFICES ASSUME TypeOK, LoadInv, GrantInv, [Next]_vars PROVE GrantInv'
  OBVIOUS
<1> USE DEF envVars, listVars, loadVars, bootVars, workVars
<1>1. ASSUME NEW c \in Callers, TrackThrone(c) PROVE GrantInv'
  <2>1. CASE OpenList(c)
    <3>1. /\ owed' \subseteq owed
          /\ \/ \E s : GotoWith(c, "load", s) /\ owed' \subseteq s
             \/ GotoWith(c, "return", th[c].uid_list)
      BY <2>1 DEF OpenList, Goto, GrantInv
    <3>2. /\ \A d \in Callers : d # c => th'[d] = th[d]
          /\ \/ th'[c].pc = "load" /\ owed' \subseteq th'[c].uid_list
             \/ th'[c].pc = "return"
      BY <3>1, Moved
    <3>3. UNCHANGED <<packages, persisted, allow_list, ksu_allowlist_loaded>>
      BY <2>1 DEF OpenList
    <3>4. \A d \in InFlight' : owed' \subseteq th'[d].uid_list
      BY <3>1, <3>2 DEF GrantInv, InFlight
    <3> QED
      BY <3>1, <3>2, <3>3, <3>4 DEF GrantInv
  <2>2. CASE CheckLoaded(c)
    <3>1. /\ \A d \in Callers : d # c => th'[d] = th[d]
          /\ th'[c].pc \in {"exist", "prune", "loading"}
          /\ th'[c].uid_list = th[c].uid_list
          /\ c \in InFlight
      BY <2>2, Moved DEF CheckLoaded, Goto, AfterLoad, InFlight
    <3> QED
      BY <2>2, <3>1 DEF CheckLoaded, GrantInv, InFlight
  <2>3. CASE Load(c)
    <3>1. /\ \A d \in Callers : d # c => th'[d] = th[d]
          /\ th'[c].pc = "loaded"
          /\ th'[c].uid_list = th[c].uid_list
          /\ c \in InFlight
      BY <2>3, Moved DEF Load, Goto, InFlight
    <3>2. owed \subseteq allow_list'
      BY <2>3 DEF Load, LoadAllowList, GrantInv
    <3> QED
      BY <2>3, <3>1, <3>2 DEF Load, GrantInv, InFlight
  <2>4. CASE SetLoaded(c)
    <3>1. /\ \A d \in Callers : d # c => th'[d] = th[d]
          /\ th'[c].pc \in {"exist", "prune"}
          /\ th'[c].uid_list = th[c].uid_list
          /\ c \in InFlight
      BY <2>4, Moved DEF SetLoaded, Goto, AfterLoad, InFlight
    <3>2. owed \subseteq allow_list
      BY <2>4 DEF SetLoaded, GrantInv
    <3> QED
      BY <2>4, <3>1, <3>2 DEF SetLoaded, GrantInv, InFlight
  <2>5. CASE CheckExist(c) \/ CheckValid(c) \/ Search(c)
    <3>1. /\ \A d \in Callers : d # c => th'[d] = th[d]
          /\ th'[c].pc \in {"prune", "valid", "search"}
          /\ th'[c].uid_list = th[c].uid_list
          /\ c \in InFlight
      BY <2>5, Moved DEF CheckExist, CheckValid, Search, Goto, InFlight
    <3> QED
      BY <2>5, <3>1 DEF CheckExist, CheckValid, Search, GrantInv, InFlight
  <2>6. CASE Prune(c)
    <3>1. /\ \A d \in Callers : d # c => th'[d] = th[d]
          /\ th'[c].pc = "return"
      BY <2>6, Moved DEF Prune
    <3>2. owed \subseteq th[c].uid_list /\ owed \subseteq allow_list
      BY <2>6 DEF Prune, GrantInv, LoadInv, InFlight
    <3>3. owed \subseteq allow_list' /\ owed \subseteq persisted'
      BY <2>6, <3>2 DEF Prune, GrantInv
    <3> QED
      BY <2>6, <3>1, <3>3 DEF Prune, GrantInv, InFlight
  <2> QED
    BY <1>1, <2>1, <2>2, <2>3, <2>4, <2>5, <2>6 DEF TrackThrone
<1>2. ASSUME NEW c \in Callers, Return(c) PROVE GrantInv'
  BY <1>2, EnteredOrLeft DEF Return, GrantInv, InFlight
<1>3. CASE WorkerFire \/ WorkerReturn
  <2>1. /\ \A d \in Callers : d # "worker" => th'[d] = th[d]
        /\ th'["worker"].pc \in {"idle", "open"}
    BY <1>3, EnteredOrLeft, CallersAssumption DEF WorkerFire, WorkerReturn, Enter
  <2>2. UNCHANGED <<envVars, listVars, ksu_manager_appid, loadVars>>
    BY <1>3 DEF WorkerFire, WorkerReturn
  <2> QED
    BY <2>1, <2>2 DEF GrantInv, InFlight
<1>4. CASE OnBootCompleted
  <2>1. /\ \A d \in Callers : d # "boot" => th'[d] = th[d]
        /\ th'["boot"].pc \in {"idle", "open"}
    BY <1>4, EnteredOrLeft DEF OnBootCompleted, Enter
  <2> QED
    BY <1>4, <2>1 DEF OnBootCompleted, GrantInv, InFlight
<1>5. ASSUME NEW prune_only \in BOOLEAN, Observe(prune_only) PROVE GrantInv'
  <2>1. /\ \A d \in Callers : d # "observer" => th'[d] = th[d]
        /\ th'["observer"].pc \in {"idle", "open"}
    BY <1>5, EnteredOrLeft DEF Observe, Enter
  <2> QED
    BY <1>5, <2>1 DEF Observe, GrantInv, InFlight
<1>6. CASE OnPostFsData \/ PostFsLoad \/ PostFsObserve
  BY <1>6 DEF OnPostFsData, PostFsLoad, PostFsObserve, LoadAllowList, GrantInv, InFlight
<1>7. CASE MountData \/ RemoveApk \/ \E m \in Managers : PlaceApk(m)
  BY <1>7 DEF MountData, RemoveApk, PlaceApk, GrantInv, InFlight
<1>8. ASSUME NEW p \in Installs, ListPackage(p) \/ Unlist(p) PROVE GrantInv'
  BY <1>8 DEF ListPackage, Unlist, GrantInv, InFlight
<1>9. MayGrant => ksu_allowlist_loaded
  BY InstallsAssumption DEF MayGrant, TypeOK, LoadInv, ManagerValid
<1>10. ASSUME NEW p \in Installs, Revoke(p) PROVE GrantInv'
  <2>1. owed' \subseteq allow_list' /\ owed' \subseteq persisted' /\ owed' \subseteq packages
    BY <1>9, <1>10 DEF Revoke, GrantInv
  <2>2. \A c \in InFlight : owed' \subseteq th[c].uid_list
    BY <1>10 DEF Revoke, GrantInv
  <2> QED
    BY <1>10, <2>1, <2>2 DEF Revoke, GrantInv, InFlight
<1>11. ASSUME NEW p \in Installs, Grant(p) PROVE GrantInv'
  <2>1. ksu_allowlist_loaded
    BY <1>9, <1>11 DEF Grant
  <2>2. owed' \subseteq allow_list' /\ owed' \subseteq persisted' /\ owed' \subseteq packages
    BY <1>11, <2>1 DEF Grant, GrantInv
  <2>3. \A c \in InFlight : owed' \subseteq th[c].uid_list
    BY <1>11 DEF Grant, GrantInv
  <2> QED
    BY <1>11, <2>2, <2>3 DEF Grant, GrantInv, InFlight
<1>12. CASE UNCHANGED vars
  BY <1>12 DEF vars, GrantInv, InFlight
<1> QED
  BY <1>1, <1>2, <1>3, <1>4, <1>5, <1>6, <1>7, <1>8, <1>10, <1>11, <1>12
  DEF Next, CallerStep, WorkerStep

\* Nobody is crowned before the saved allowlist is in memory, whatever the
\* callers, the failures and the limit of the retries.
THEOREM CrownedAfterLoad == Spec => []LoadedBeforeCrown
<1>1. LoadInv => LoadedBeforeCrown
  BY DEF LoadInv, LoadedBeforeCrown
<1> QED
  BY <1>1, TypeInit, TypeStep, InvInit, LoadStep, PTL DEF Spec

\* No prune with some caller's list and no early save loses a grant from the file
\* whose app no list in flight has missed: for any callers, failures and order of
\* their steps.
THEOREM GrantsSurvive == Spec => []GrantsKept
<1>1. LoadInv /\ GrantInv => GrantsKept
  BY DEF LoadInv, GrantInv, GrantsKept
<1> QED
  BY <1>1, TypeInit, TypeStep, InvInit, LoadStep, GrantStep, PTL DEF Spec

\* While a manager is crowned, every such grant is in force in memory as well.
THEOREM GrantsStayInForce == Spec => []GrantsInForce
<1>1. LoadInv /\ GrantInv => GrantsInForce
  BY DEF LoadInv, GrantInv, GrantsInForce
<1> QED
  BY <1>1, TypeInit, TypeStep, InvInit, LoadStep, GrantStep, PTL DEF Spec

=============================================================================
