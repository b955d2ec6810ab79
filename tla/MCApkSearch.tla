---------------------------- MODULE MCApkSearch ----------------------------
(* A small /data/app: the manager and an app two directories down, an apk    *)
(* on another file system, one being staged and one too deep to be found.    *)
EXTENDS ApkSearch

MCPath ==
    [mgr     |-> <<"root", "x", "pm">>,
     app     |-> <<"root", "y", "pa">>,
     mounted |-> <<"root", "z">>,
     staged  |-> <<"root", "vmdl">>,
     deep    |-> <<"root", "y", "pa", "lib">>]

MCApks == DOMAIN MCPath
MCManagers == {"mgr", "staged"}
MCStaging == {"vmdl"}
MCForeign == {"z"}
MCHash == [a \in MCApks |-> a]
MCFaults == {"open", "alloc", "verify"}
=============================================================================
