---------------------------- MODULE ThroneUnload ----------------------------
(* The tracker of a module build while kernelsu_exit (core/init.c) takes it *)
(* apart.  The boot events arrive through a descriptor whose file pins the  *)
(* module, so no such call is under way when an unload begins; the package  *)
(* observer and the delayed work have no pin.                               *)
EXTENDS ThroneTracker

VARIABLE unload  \* "live", "hooks", "observer", "tracker", "gone"

unloadVars == <<vars, unload>>

UnloadInit == Init /\ unload = "live"

NoPin ==
    /\ \A c \in Callers \ {"worker", "observer"} : th[c].pc = "idle"
    /\ post_fs \in {"idle", "done"}

\* Phase 1: the hooks stop, and with them the events they report.
StopHooks ==
    /\ unload = "live"
    /\ NoPin
    /\ unload' = "hooks"
    /\ UNCHANGED vars

\* ksu_observer_exit waits for a callback under way.
ObserverExit ==
    /\ unload = "hooks"
    /\ "observer" \in Callers => th["observer"].pc = "idle"
    /\ unload' = "observer"
    /\ observing' = FALSE
    /\ UNCHANGED <<envVars, listVars, ksu_manager_appid, loadVars, post_fs, workVars, th>>

\* ksu_throne_tracker_exit frees the apk cache; the work stays as it is.
ThroneTrackerExit ==
    /\ unload = "observer"
    /\ unload' = "tracker"
    /\ UNCHANGED vars

AllowlistExit ==
    /\ unload = "tracker"
    /\ unload' = "gone"
    /\ allow_list' = {}
    /\ UNCHANGED <<envVars, persisted, owed, ksu_manager_appid, loadVars, bootVars,
                   workVars, th>>

UnloadNext ==
    \/ StopHooks \/ ObserverExit \/ ThroneTrackerExit \/ AllowlistExit
    \/ /\ \/ unload = "live" /\ Next
          \/ \E c \in Callers : CallerStep(c)
          \/ WorkerStep
          \/ \E prune_only \in BOOLEAN : Observe(prune_only)
       /\ UNCHANGED unload

UnloadSpec == UnloadInit /\ [][UnloadNext]_unloadVars

\* init.c:194 and 205: once the hooks are stopped and the readers gone, it is
\* safe to release the data: nobody is in track_throne when it is released.
ReleasedUnused ==
    unload \in {"tracker", "gone"} => \A c \in Callers : th[c].pc = "idle"

=============================================================================
