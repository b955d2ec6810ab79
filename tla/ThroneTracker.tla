--------------------------- MODULE ThroneTracker ---------------------------
(* How the kernel finds its manager app: track_throne                       *)
(* (manager/throne_tracker.c), the delayed work that retries it, and the    *)
(* other threads that call it without any lock in common: kernelsu_init,    *)
(* on_boot_completed (runtime/boot_event.c) and the package observer.  The  *)
(* allowlist (policy/allowlist.c) is external, and so is the package        *)
(* manager that writes /data/system/packages.list and /data/app.            *)
(*                                                                          *)
(* An install is a package with the uid it got: installing the manager      *)
(* again gives it another uid, so Managers holds one element per install of *)
(* the manager's package, of which at most one is present at a time.        *)
EXTENDS Integers, FiniteSets

CONSTANTS
    Apps,        \* installs of ordinary packages
    Managers,    \* installs of the manager's package
    Callers,     \* the threads that run track_throne
    MaxRetries,  \* the limit of ksu_track_throne_retries, 10 in the code
    Faults       \* what may fail while packages.list is read: "alloc", "read"

Installs == Apps \cup Managers

AllCallers == {"init", "worker", "boot", "observer"}

Invalid == "KSU_INVALID_APPID"

ASSUME InstallsAssumption ==
    /\ Apps \cap Managers = {}
    /\ Invalid \notin Installs

ASSUME CallersAssumption ==
    /\ Callers \subseteq AllCallers
    /\ "worker" \in Callers
    /\ MaxRetries \in Nat
    /\ Faults \subseteq {"alloc", "read"}

VARIABLES
    mounted,               \* /data is there
    packages,              \* what packages.list names
    apks,                  \* the manager installs with a base.apk in /data/app
    persisted,             \* the allowlist file
    allow_list,            \* the allowlist in memory
    ksu_manager_appid,
    ksu_allowlist_loaded,
    merged,                \* history: track_throne has loaded the file
    owed,                  \* history: grants that no uid_list in flight missed
    post_fs,               \* on_post_fs_data: "idle", "load", "observe", "done"
    observing,             \* the package observer is registered
    dw,                    \* ksu_track_throne_dw: "idle", "pending", "running"
    ksu_track_throne_retries,
    th                     \* per caller: where track_throne stands

envVars == <<mounted, packages, apks>>
listVars == <<persisted, allow_list, owed>>
loadVars == <<ksu_allowlist_loaded, merged>>
bootVars == <<post_fs, observing>>
workVars == <<dw, ksu_track_throne_retries>>
vars == <<envVars, listVars, ksu_manager_appid, loadVars, bootVars, workVars, th>>

Outside == [pc |-> "idle", uid_list |-> {}, prune_only |-> FALSE]

Entered(prune_only) == [pc |-> "open", uid_list |-> {}, prune_only |-> prune_only]

ManagerValid == ksu_manager_appid # Invalid

\* The callers that hold a uid_list they have not pruned with yet.
InFlight == {c \in Callers : th[c].pc \notin {"idle", "open", "return"}}

\* At the end of kernelsu_init's own set-up: the work is scheduled and
\* track_throne(false) entered.  A late load finds /data mounted and has
\* loaded the allowlist and registered the observer.
Init ==
    /\ packages \in SUBSET Installs
    /\ Cardinality(packages \cap Managers) =< 1
    /\ apks = packages \cap Managers
    /\ persisted \in SUBSET Installs
    /\ owed = persisted \cap packages
    /\ mounted \in BOOLEAN
    /\ observing = mounted
    /\ allow_list = IF mounted THEN persisted ELSE {}
    /\ ksu_manager_appid = Invalid
    /\ ksu_allowlist_loaded = FALSE
    /\ merged = FALSE
    /\ post_fs = "idle"
    /\ dw = "pending"
    /\ ksu_track_throne_retries = 0
    /\ th = [c \in Callers |-> IF c = "init" THEN Entered(FALSE) ELSE Outside]

-----------------------------------------------------------------------------
(* The callers of track_throne *)

\* kernelsu_init is over before userspace reports any event.
InitOver == "init" \in Callers => th["init"].pc = "idle"

Enter(c, prune_only) ==
    /\ th[c].pc = "idle"
    /\ th' = [th EXCEPT ![c] = Entered(prune_only)]

\* Faulty variant: the work only prunes.
WorkerFirePrunes ==
    /\ dw = "pending"
    /\ dw' = "running"
    /\ Enter("worker", TRUE)
    /\ UNCHANGED <<envVars, listVars, ksu_manager_appid, loadVars, bootVars,
                   ksu_track_throne_retries>>

\* The 30 s timer of the delayed work.
WorkerFire ==
    /\ dw = "pending"
    /\ dw' = "running"
    /\ Enter("worker", FALSE)
    /\ UNCHANGED <<envVars, listVars, ksu_manager_appid, loadVars, bootVars,
                   ksu_track_throne_retries>>

\* Faulty variant: one retry too many.
WorkerReturnOffByOne ==
    /\ th["worker"].pc = "return"
    /\ th' = [th EXCEPT !["worker"] = Outside]
    /\ IF ManagerValid
       THEN dw' = "idle" /\ UNCHANGED ksu_track_throne_retries
       ELSE /\ dw' = IF ksu_track_throne_retries =< MaxRetries THEN "pending" ELSE "idle"
            /\ ksu_track_throne_retries' = ksu_track_throne_retries + 1
    /\ UNCHANGED <<envVars, listVars, ksu_manager_appid, loadVars, bootVars>>

\* The rest of track_throne_delayed_worker.
WorkerReturn ==
    /\ th["worker"].pc = "return"
    /\ th' = [th EXCEPT !["worker"] = Outside]
    /\ IF ManagerValid
       THEN dw' = "idle" /\ UNCHANGED ksu_track_throne_retries
       ELSE /\ dw' = IF ksu_track_throne_retries < MaxRetries THEN "pending" ELSE "idle"
            /\ ksu_track_throne_retries' = ksu_track_throne_retries + 1
    /\ UNCHANGED <<envVars, listVars, ksu_manager_appid, loadVars, bootVars>>

\* The event comes from userspace, which runs from /data.
OnBootCompleted ==
    /\ "boot" \in Callers
    /\ mounted
    /\ InitOver
    /\ Enter("boot", FALSE)
    /\ UNCHANGED <<envVars, listVars, ksu_manager_appid, loadVars, bootVars, workVars>>

\* The observer notices some change of /data/system.
Observe(prune_only) ==
    /\ "observer" \in Callers
    /\ observing
    /\ Enter("observer", prune_only)
    /\ UNCHANGED <<envVars, listVars, ksu_manager_appid, loadVars, bootVars, workVars>>

Return(c) ==
    /\ c # "worker"
    /\ th[c].pc = "return"
    /\ th' = [th EXCEPT ![c] = Outside]
    /\ UNCHANGED <<envVars, listVars, ksu_manager_appid, loadVars, bootVars, workVars>>

\* ksu_load_allow_list merges the file into memory.
LoadAllowList == allow_list' = allow_list \cup persisted

OnPostFsData ==
    /\ mounted
    /\ InitOver
    /\ post_fs = "idle"
    /\ post_fs' = "load"
    /\ UNCHANGED <<envVars, listVars, ksu_manager_appid, loadVars, observing, workVars, th>>

PostFsLoad ==
    /\ post_fs = "load"
    /\ post_fs' = "observe"
    /\ LoadAllowList
    /\ UNCHANGED <<envVars, persisted, owed, ksu_manager_appid, loadVars, observing,
                   workVars, th>>

PostFsObserve ==
    /\ post_fs = "observe"
    /\ post_fs' = "done"
    /\ observing' = TRUE
    /\ UNCHANGED <<envVars, listVars, ksu_manager_appid, loadVars, workVars, th>>

-----------------------------------------------------------------------------
(* track_throne *)

GotoWith(c, pc, list) ==
    th' = [th EXCEPT ![c] = [pc |-> pc, uid_list |-> list, prune_only |-> th[c].prune_only]]

Goto(c, pc) == GotoWith(c, pc, th[c].uid_list)

AfterLoad(c) == IF th[c].prune_only THEN "prune" ELSE "exist"

\* Faulty variant: an allocation failure ends the loop and not the call.
OpenListAllocBreaks(c) ==
    /\ th[c].pc = "open"
    /\ \/ ~mounted /\ Goto(c, "return")
       \/ mounted /\ GotoWith(c, "load", packages)
       \/ /\ mounted
          /\ "alloc" \in Faults
          /\ \E s \in SUBSET packages : GotoWith(c, "load", s)
    /\ UNCHANGED <<envVars, listVars, ksu_manager_appid, loadVars, bootVars, workVars>>

\* The list is replaced by renaming, so what is read is what was opened.  A
\* failed allocation ends the call; a short read or a line that does not parse
\* ends the loop, and the call goes on with the lines before it: the prune that
\* follows may take the grants of the packages in the rest.
OpenList(c) ==
    /\ th[c].pc = "open"
    /\ \/ ~mounted /\ Goto(c, "return") /\ UNCHANGED owed
       \/ mounted /\ GotoWith(c, "load", packages) /\ UNCHANGED owed
       \/ mounted /\ "alloc" \in Faults /\ Goto(c, "return") /\ UNCHANGED owed
       \/ /\ mounted
          /\ "read" \in Faults
          /\ \E s \in SUBSET packages : GotoWith(c, "load", s) /\ owed' = owed \cap s
    /\ UNCHANGED <<envVars, persisted, allow_list, ksu_manager_appid, loadVars, bootVars,
                   workVars>>

\* Faulty variant: the flag is set before the load.
CheckLoadedEarlyFlag(c) ==
    /\ th[c].pc = "load"
    /\ Goto(c, IF ksu_allowlist_loaded THEN AfterLoad(c) ELSE "loading")
    /\ ksu_allowlist_loaded' = TRUE
    /\ UNCHANGED <<envVars, listVars, ksu_manager_appid, merged, bootVars, workVars>>

\* if (!ksu_allowlist_loaded): read by every caller, written after the load.
CheckLoaded(c) ==
    /\ th[c].pc = "load"
    /\ Goto(c, IF ksu_allowlist_loaded THEN AfterLoad(c) ELSE "loading")
    /\ UNCHANGED <<envVars, listVars, ksu_manager_appid, loadVars, bootVars, workVars>>

Load(c) ==
    /\ th[c].pc = "loading"
    /\ LoadAllowList
    /\ merged' = TRUE
    /\ Goto(c, "loaded")
    /\ UNCHANGED <<envVars, persisted, owed, ksu_manager_appid, ksu_allowlist_loaded,
                   bootVars, workVars>>

SetLoaded(c) ==
    /\ th[c].pc = "loaded"
    /\ ksu_allowlist_loaded' = TRUE
    /\ Goto(c, AfterLoad(c))
    /\ UNCHANGED <<envVars, listVars, ksu_manager_appid, merged, bootVars, workVars>>

\* manager_exist: the crowned uid is in the list this call has read.
CheckExist(c) ==
    /\ th[c].pc = "exist"
    /\ Goto(c, IF ksu_manager_appid \in th[c].uid_list THEN "prune" ELSE "valid")
    /\ UNCHANGED <<envVars, listVars, ksu_manager_appid, loadVars, bootVars, workVars>>

\* A crowned manager that was not in the list is deposed, and not searched for.
CheckValid(c) ==
    /\ th[c].pc = "valid"
    /\ IF ManagerValid
       THEN ksu_manager_appid' = Invalid /\ Goto(c, "prune")
       ELSE UNCHANGED ksu_manager_appid /\ Goto(c, "search")
    /\ UNCHANGED <<envVars, listVars, loadVars, bootVars, workVars>>

\* crown_manager: the uid is the one the list has for the package.
Crown(list) ==
    IF list \cap Managers = {}
    THEN UNCHANGED ksu_manager_appid
    ELSE ksu_manager_appid' \in list \cap Managers

\* search_manager finds the apk as it is now; its uid is looked up in the list
\* read before.
Search(c) ==
    /\ th[c].pc = "search"
    /\ IF apks # {} THEN Crown(th[c].uid_list) ELSE UNCHANGED ksu_manager_appid
    /\ Goto(c, "prune")
    /\ UNCHANGED <<envVars, listVars, loadVars, bootVars, workVars>>

\* ksu_prune_allowlist drops what is_uid_exist does not find, and saves if it dropped any.
Prune(c) ==
    /\ th[c].pc = "prune"
    /\ allow_list' = allow_list \cap th[c].uid_list
    /\ persisted' = IF allow_list' = allow_list THEN persisted ELSE allow_list'
    /\ GotoWith(c, "return", {})
    /\ UNCHANGED <<envVars, owed, ksu_manager_appid, loadVars, bootVars, workVars>>

TrackThrone(c) ==
    \/ OpenList(c) \/ CheckLoaded(c) \/ Load(c) \/ SetLoaded(c) \/ CheckExist(c)
    \/ CheckValid(c) \/ Search(c) \/ Prune(c)

-----------------------------------------------------------------------------
(* The package manager and the manager app *)

MountData ==
    /\ ~mounted
    /\ mounted' = TRUE
    /\ UNCHANGED <<packages, apks, listVars, ksu_manager_appid, loadVars, bootVars,
                   workVars, th>>

\* The apk is in place before the package is listed.
PlaceApk(m) ==
    /\ mounted
    /\ apks = {}
    /\ packages \cap Managers = {}
    /\ apks' = {m}
    /\ UNCHANGED <<mounted, packages, listVars, ksu_manager_appid, loadVars, bootVars,
                   workVars, th>>

ListPackage(p) ==
    /\ mounted
    /\ p \notin packages
    /\ p \in Managers => p \in apks
    /\ packages' = packages \cup {p}
    /\ UNCHANGED <<mounted, apks, listVars, ksu_manager_appid, loadVars, bootVars,
                   workVars, th>>

Unlist(p) ==
    /\ mounted
    /\ p \in packages
    /\ packages' = packages \ {p}
    /\ owed' = owed \ {p}
    /\ UNCHANGED <<mounted, apks, persisted, allow_list, ksu_manager_appid, loadVars,
                   bootVars, workVars, th>>

RemoveApk ==
    /\ apks # {}
    /\ packages \cap Managers = {}
    /\ apks' = {}
    /\ UNCHANGED <<mounted, packages, listVars, ksu_manager_appid, loadVars, bootVars,
                   workVars, th>>

\* The crowned manager, if it is the one installed, changes a profile, which
\* is saved.
MayGrant == ksu_manager_appid \in packages

Grant(p) ==
    /\ MayGrant
    /\ p \in packages
    /\ allow_list' = allow_list \cup {p}
    /\ persisted' = allow_list'
    /\ owed' = IF \A c \in InFlight : p \in th[c].uid_list THEN owed \cup {p} ELSE owed
    /\ UNCHANGED <<envVars, ksu_manager_appid, loadVars, bootVars, workVars, th>>

Revoke(p) ==
    /\ MayGrant
    /\ p \in allow_list
    /\ allow_list' = allow_list \ {p}
    /\ persisted' = allow_list'
    /\ owed' = owed \ {p}
    /\ UNCHANGED <<envVars, ksu_manager_appid, loadVars, bootVars, workVars, th>>

-----------------------------------------------------------------------------
CallerStep(c) == TrackThrone(c) \/ Return(c)

WorkerStep == WorkerFire \/ WorkerReturn

Next ==
    \/ \E c \in Callers : CallerStep(c)
    \/ WorkerStep
    \/ OnBootCompleted
    \/ \E prune_only \in BOOLEAN : Observe(prune_only)
    \/ OnPostFsData \/ PostFsLoad \/ PostFsObserve
    \/ MountData
    \/ \E m \in Managers : PlaceApk(m)
    \/ RemoveApk
    \/ \E p \in Installs : ListPackage(p) \/ Unlist(p) \/ Grant(p) \/ Revoke(p)

Spec == Init /\ [][Next]_vars

\* Every thread inside track_throne keeps running and the timer fires.  No
\* event of the boot and no act of the user is promised.
FairSpec ==
    /\ Spec
    /\ \A c \in Callers : WF_vars(CallerStep(c))
    /\ WF_vars(WorkerStep)

-----------------------------------------------------------------------------
(* Properties *)

CallType ==
    [pc : {"idle", "open", "load", "loading", "loaded", "exist", "valid", "search",
           "prune", "return"},
     uid_list : SUBSET Installs, prune_only : BOOLEAN]

\* Every variable has its type, and the worker is inside track_throne exactly
\* while its work runs.
TypeOK ==
    /\ mounted \in BOOLEAN
    /\ packages \subseteq Installs
    /\ apks \subseteq Managers
    /\ persisted \subseteq Installs
    /\ allow_list \subseteq Installs
    /\ owed \subseteq Installs
    /\ ksu_manager_appid \in Managers \cup {Invalid}
    /\ ksu_allowlist_loaded \in BOOLEAN
    /\ merged \in BOOLEAN
    /\ post_fs \in {"idle", "load", "observe", "done"}
    /\ observing \in BOOLEAN
    /\ dw \in {"idle", "pending", "running"}
    /\ ksu_track_throne_retries \in 0..(MaxRetries + 1)
    /\ th \in [Callers -> CallType]
    /\ dw = "running" <=> th["worker"].pc # "idle"
    /\ dw # "idle" => ksu_track_throne_retries =< MaxRetries

\* Nobody is crowned before the saved allowlist is in memory, whichever of the
\* unlocked callers gets there first (throne_tracker.c:314-318).
LoadedBeforeCrown == ManagerValid => merged

\* A grant whose app no list in flight has missed (because the list is older than
\* the app, or was cut short) is never lost from the file: neither by a prune
\* with some caller's list nor by a save made before the load.
GrantsKept == owed \subseteq persisted

\* While a manager is crowned, such a grant is in force.
GrantsInForce == ManagerValid => owed \subseteq allow_list

\* An installed manager that the pending work can still find is crowned,
\* unless it is uninstalled meanwhile.
ManagerCrowned ==
    \A m \in Managers :
        (mounted /\ m \in packages /\ m \in apks /\ dw = "pending")
            ~> (ManagerValid \/ m \notin packages)

-----------------------------------------------------------------------------
(* What a message of the code says, checked by a run that expects a         *)
(* violation.                                                               *)

\* throne_tracker.c:338: the manager is invalidated because it is uninstalled.
InvalidateOnlyUninstalled ==
    [][ManagerValid /\ ksu_manager_appid' = Invalid => ksu_manager_appid \notin packages]_vars

=============================================================================
