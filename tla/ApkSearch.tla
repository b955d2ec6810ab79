----------------------------- MODULE ApkSearch -----------------------------
(* search_manager and my_actor of manager/throne_tracker.c: the search of   *)
(* /data/app for the manager's apk, level by level over a work list, with   *)
(* the cache of path hashes that outlives a search, while the package       *)
(* manager installs and removes apks.  ThroneTracker takes a search as one  *)
(* step that finds the apk if it is there; this module says when it does.   *)
(*                                                                          *)
(* An apk is named by its path, which carries random parts: an apk removed  *)
(* never comes back under the same name.  One search runs at a time.        *)
EXTENDS Integers, Sequences

CONSTANTS
    Apks,      \* the base.apk files that may ever be in place
    Managers,  \* those signed as the manager
    Path,      \* per apk: its directories, /data/app first
    Root,      \* /data/app
    Staging,   \* directories named vmdl*.tmp
    Foreign,   \* directories on another file system than Root
    Hash,      \* full_name_hash of the apk's path
    Depth,     \* the depth track_throne passes, 2
    Faults     \* what may fail: "open", "alloc", "verify"

Dirs == {Root} \cup UNION {{Path[a][k] : k \in DOMAIN Path[a]} : a \in Apks}

ASSUME TreeAssumption ==
    /\ Managers \subseteq Apks
    /\ Depth \in Nat
    /\ Dirs \cap Apks = {}
    /\ \A a \in Apks : Path[a] \in Seq(Dirs) /\ Path[a] # << >> /\ Path[a][1] = Root
    /\ Root \notin Staging \cup Foreign
    /\ Faults \subseteq {"open", "alloc", "verify"}

\* A directory is in one place of the tree.
ASSUME OnePlaceAssumption ==
    \A a, b \in Apks : \A k \in DOMAIN Path[a], m \in DOMAIN Path[b] :
        Path[a][k] = Path[b][m] => k = m /\ \A l \in 1..k : Path[a][l] = Path[b][l]

VARIABLES
    there, gone,         \* the apks in place, and those removed
    apk_path_hash_list,  \* the cached hashes
    exists,              \* those of them marked in this search
    pc,                  \* "idle", "dir", "entries", "sweep"
    i,                   \* the level loop of search_manager
    data_path_list,      \* directories to search, the current one first
    last,                \* the current one had no successor when it was reached
    entries,             \* what is left to read of the current directory
    stop,
    steady, seen,        \* history: in place all along, looked at in this search
    faulted, refused     \* history: a directory lost to a failure, managers misjudged

fsVars == <<there, gone>>
cacheVars == <<apk_path_hash_list, exists>>
loopVars == <<i, data_path_list, last>>
histVars == <<steady, seen, faulted, refused>>
vars == <<fsVars, cacheVars, pc, loopVars, entries, stop, histVars>>

Init ==
    /\ there \in SUBSET Apks
    /\ gone = {}
    /\ apk_path_hash_list = {} /\ exists = {}
    /\ pc = "idle"
    /\ i = Depth /\ data_path_list = << >> /\ last = TRUE
    /\ entries = {} /\ stop = FALSE
    /\ steady = {} /\ seen = {} /\ faulted = FALSE /\ refused = {}

-----------------------------------------------------------------------------
(* search_manager *)

\* Faulty variant: the marks of the search before are kept.
UnmarkedKept == exists

\* Every cached hash is unmarked when a search begins.
Unmarked == {}

Begin ==
    /\ pc = "idle"
    /\ pc' = "dir"
    /\ exists' = Unmarked
    /\ i' = Depth
    /\ data_path_list' = <<[dir |-> Root, depth |-> Depth]>>
    /\ last' = TRUE
    /\ stop' = FALSE
    /\ steady' = there /\ seen' = {} /\ faulted' = FALSE
    /\ UNCHANGED <<fsVars, apk_path_hash_list, entries, refused>>

\* Faulty variants: the level loop runs once too rarely, or once too often.
LastLevelOne == 1
LastLevelMinusOne == -1

\* for (i = depth; i >= 0; i--)
LastLevel == 0

\* The directory is done and leaves the list.  list_for_each_entry_safe knew
\* the next one beforehand: where there was none the level is over, and the
\* directories found meanwhile are for the next level.
Remove ==
    /\ data_path_list' = Tail(data_path_list)
    /\ IF last
       THEN /\ pc' = IF i > LastLevel THEN "dir" ELSE "sweep"
            /\ i' = IF i > LastLevel THEN i - 1 ELSE i
            /\ last' = (Len(data_path_list) =< 2)
       ELSE /\ pc' = "dir"
            /\ last' = (Len(data_path_list) = 2)
            /\ UNCHANGED i

EmptyLevel ==
    /\ pc = "dir"
    /\ data_path_list = << >>
    /\ IF i > LastLevel THEN pc' = "dir" /\ i' = i - 1 ELSE pc' = "sweep" /\ UNCHANGED i
    /\ UNCHANGED <<fsVars, cacheVars, data_path_list, last, entries, stop, histVars>>

AtDir == pc = "dir" /\ data_path_list # << >>

Current == data_path_list[1]

\* What an apk in place contributes to directory d: the next directory of its
\* path, or itself.
Entry(a, k) == IF k < Len(Path[a]) THEN Path[a][k + 1] ELSE a

EntriesOf(d) ==
    UNION {{Entry(a, k) : k \in {j \in DOMAIN Path[a] : Path[a][j] = d}} : a \in there}

OpenDir ==
    /\ AtDir
    /\ ~stop
    /\ Current.dir \notin Foreign
    /\ pc' = "entries"
    /\ entries' = EntriesOf(Current.dir)
    /\ UNCHANGED <<fsVars, cacheVars, loopVars, stop, histVars>>

\* Faulty variant: a directory that cannot be opened is kept.
SkipDirKeeps ==
    /\ AtDir
    /\ stop \/ Current.dir \in Foreign \/ "open" \in Faults
    /\ UNCHANGED vars

\* skip_iterate: after a stop, on another file system, or not opened.
SkipDir ==
    /\ AtDir
    /\ stop \/ Current.dir \in Foreign \/ "open" \in Faults
    /\ faulted' = (faulted \/ ~(stop \/ Current.dir \in Foreign))
    /\ Remove
    /\ UNCHANGED <<fsVars, cacheVars, entries, stop, steady, seen, refused>>

CloseDir ==
    /\ pc = "entries"
    /\ entries = {} \/ stop
    /\ entries' = {}
    /\ Remove
    /\ UNCHANGED <<fsVars, cacheVars, stop, histVars>>

\* Unmarked hashes go.  What only this search used is forgotten with it.
Sweep ==
    /\ pc = "sweep"
    /\ pc' = "idle"
    /\ apk_path_hash_list' = apk_path_hash_list \cap exists
    /\ UNCHANGED exists
    /\ stop' = FALSE
    /\ steady' = {} /\ seen' = {} /\ faulted' = FALSE
    /\ UNCHANGED <<fsVars, loopVars, entries, refused>>

-----------------------------------------------------------------------------
(* my_actor, called for one entry after the other *)

Read(e) ==
    /\ pc = "entries"
    /\ ~stop
    /\ e \in entries
    /\ entries' = entries \ {e}

\* Faulty variant: the depth of a subdirectory is not lowered.
DepthBelowSame(d) == d

DepthBelow(d) == d - 1

\* A directory is queued above depth 0 unless it is a staging directory or no
\* memory is left.
SubDir(e) ==
    /\ Read(e)
    /\ e \in Dirs
    /\ \/ /\ e \notin Staging
          /\ Current.depth > 0
          /\ data_path_list' =
               Append(data_path_list, [dir |-> e, depth |-> DepthBelow(Current.depth)])
          /\ UNCHANGED faulted
       \/ /\ e \notin Staging
          /\ Current.depth > 0
          /\ "alloc" \in Faults
          /\ faulted' = TRUE
          /\ UNCHANGED data_path_list
       \/ /\ e \in Staging \/ Current.depth = 0
          /\ UNCHANGED <<data_path_list, faulted>>
    /\ UNCHANGED <<fsVars, cacheVars, pc, i, last, stop, steady, seen, refused>>

\* Faulty variant: the name is hashed, which is base.apk for all of them.
KeyOfName(a) == "base.apk"

Key(a) == Hash[a]

CachedApk(a) ==
    /\ Read(a)
    /\ a \in Apks
    /\ Key(a) \in apk_path_hash_list
    /\ exists' = exists \cup {Key(a)}
    /\ seen' = seen \cup {a}
    /\ UNCHANGED <<fsVars, apk_path_hash_list, pc, loopVars, stop, steady, faulted, refused>>

\* is_manager_apk holds: the manager is crowned, the search stops, the cache goes.
FoundManager(a) ==
    /\ Read(a)
    /\ a \in Managers
    /\ Key(a) \notin apk_path_hash_list
    /\ stop' = TRUE
    /\ apk_path_hash_list' = {} /\ exists' = {}
    /\ seen' = seen \cup {a}
    /\ UNCHANGED <<fsVars, pc, loopVars, steady, faulted, refused>>

\* It does not, of an ordinary apk or of a manager's that could not be read;
\* the hash is cached if there is memory.
OtherApk(a) ==
    /\ Read(a)
    /\ a \in Apks
    /\ a \in Managers => "verify" \in Faults
    /\ Key(a) \notin apk_path_hash_list
    /\ refused' = refused \cup ({a} \cap Managers)
    /\ \/ /\ apk_path_hash_list' = apk_path_hash_list \cup {Key(a)}
          /\ exists' = exists \cup {Key(a)}
       \/ "alloc" \in Faults /\ UNCHANGED cacheVars
    /\ seen' = seen \cup {a}
    /\ UNCHANGED <<fsVars, pc, loopVars, stop, steady, faulted>>

-----------------------------------------------------------------------------
(* The package manager.  A directory is locked while it is iterated. *)

Locked(a) == pc = "entries" /\ \E k \in DOMAIN Path[a] : Path[a][k] = Current.dir

Install(a) ==
    /\ a \notin there \cup gone
    /\ ~Locked(a)
    /\ there' = there \cup {a}
    /\ UNCHANGED <<gone, cacheVars, pc, loopVars, entries, stop, histVars>>

Uninstall(a) ==
    /\ a \in there
    /\ ~Locked(a)
    /\ there' = there \ {a}
    /\ gone' = gone \cup {a}
    /\ steady' = steady \ {a}
    /\ UNCHANGED <<cacheVars, pc, loopVars, entries, stop, seen, faulted, refused>>

-----------------------------------------------------------------------------
SearchStep ==
    \/ EmptyLevel \/ OpenDir \/ SkipDir \/ CloseDir \/ Sweep
    \/ \E e \in entries : SubDir(e) \/ CachedApk(e) \/ FoundManager(e) \/ OtherApk(e)

Next ==
    \/ Begin
    \/ SearchStep
    \/ \E a \in Apks : Install(a) \/ Uninstall(a)

Spec == Init /\ [][Next]_vars

\* A search under way goes on; nobody has to start one.
FairSpec == Spec /\ WF_vars(SearchStep)

-----------------------------------------------------------------------------
(* Properties *)

\* Every variable has its type; only cached hashes are marked.
TypeOK ==
    /\ there \subseteq Apks /\ gone \subseteq Apks
    /\ exists \subseteq apk_path_hash_list
    /\ pc \in {"idle", "dir", "entries", "sweep"}
    /\ i \in 0..Depth
    /\ data_path_list \in Seq([dir : Dirs, depth : 0..Depth])
    /\ pc = "entries" => data_path_list # << >>
    /\ last \in BOOLEAN
    /\ entries \subseteq Dirs \cup Apks
    /\ stop \in BOOLEAN
    /\ steady \subseteq there /\ seen \subseteq Apks
    /\ faulted \in BOOLEAN /\ refused \subseteq Managers

\* The apks a search can reach: not in a staging directory, not on another
\* file system, and at most Depth directories below Root.
Visible ==
    {a \in Apks : /\ Len(Path[a]) =< Depth + 1
                  /\ \A k \in DOMAIN Path[a] : Path[a][k] \notin Staging \cup Foreign}

\* A search that was not stopped and lost no directory to a failure has looked
\* at every apk that was in place all along, however the levels of the tree are
\* spread over the passes of the loop, and at none it must not look at.
Complete ==
    pc = "sweep" => /\ seen \subseteq Visible
                    /\ ~stop /\ ~faulted => steady \cap Visible \subseteq seen

\* What ThroneTracker takes a search for: a manager's apk in place all along is
\* found, unless a directory was lost to a failure or that apk was misjudged
\* once and cached.  The cache of earlier searches never hides it otherwise.
ManagerFound ==
    pc = "sweep" /\ ~faulted /\ (steady \cap Visible \cap Managers) \ refused # {} => stop

\* After a search that was not stopped, the cache names only apks this search
\* has seen: it does not grow with every app ever installed.
CacheSwept ==
    [][pc = "sweep" /\ pc' = "idle" => apk_path_hash_list' \subseteq {Key(a) : a \in seen}]_vars

\* The level loop empties the work list, so that no element outlives it.
Drained == pc = "sweep" => data_path_list = << >>

\* A search ends, whatever is installed and removed meanwhile.
SearchEnds == pc = "dir" ~> pc = "idle"

=============================================================================
