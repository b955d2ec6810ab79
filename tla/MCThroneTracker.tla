-------------------------- MODULE MCThroneTracker --------------------------
(* Small instances of ThroneTracker: one ordinary app and the manager, which *)
(* may be installed twice over.                                              *)
EXTENDS ThroneTracker

MCApps == {"app"}
MCManager == {"mgr"}
MCReinstalled == {"mgr", "mgr2"}

MCWorker == {"worker"}
MCBoot == {"init", "worker", "boot"}
MCObserved == {"worker", "observer"}
=============================================================================
